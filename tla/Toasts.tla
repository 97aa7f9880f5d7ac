-------------------------------- MODULE Toasts --------------------------------
(***************************************************************************)
(* The page's toasts: one is shown at a time, and its dismissal, by the    *)
(* user or when its time is over, closes it and removes it five seconds    *)
(* later.  A toast that was replaced keeps the timer of its removal.       *)
(***************************************************************************)
EXTENDS Naturals

CONSTANTS MaxToasts, \* bound on the toasts
          Gone

ToastsAssumption == MaxToasts \in Nat

VARIABLES count,   \* the ids given
          toasts,  \* the one toast of memoryState, or Gone
          toastTimeouts

vars == <<count, toasts, toastTimeouts>>

-----------------------------------------------------------------------------
Ids == 1..MaxToasts
Entries == [id : Ids, open : BOOLEAN]

TypeOK ==
    /\ count \in 0..MaxToasts
    /\ toasts \in Entries \cup {Gone}
    /\ toastTimeouts \subseteq 1..count
    /\ toasts # Gone => toasts.id <= count

Init == count = 0 /\ toasts = Gone /\ toastTimeouts = {}

\* TOAST_LIMIT is one: the new toast is the only one.
AddToast ==
    /\ count < MaxToasts /\ count' = count + 1
    /\ toasts' = [id |-> count + 1, open |-> TRUE]
    /\ UNCHANGED toastTimeouts

\* Mutant: no removal is queued while another is pending.
AddToRemoveQueueWhenFree(ids) == IF toastTimeouts = {} THEN ids ELSE toastTimeouts
\* A removal that is pending is not set again.
AddToRemoveQueue(ids) == toastTimeouts \cup ids
Closed(ids) == IF toasts # Gone /\ toasts.id \in ids THEN [toasts EXCEPT !.open = FALSE]
                                                     ELSE toasts
\* dismiss of a toast, also of one that is shown no more.
DismissToast(id) ==
    /\ id <= count
    /\ toastTimeouts' = AddToRemoveQueue({id}) /\ toasts' = Closed({id})
    /\ UNCHANGED count
\* dismiss without an id: all that are shown.
DismissAll ==
    /\ toasts # Gone
    /\ toastTimeouts' = AddToRemoveQueue({toasts.id}) /\ toasts' = Closed({toasts.id})
    /\ UNCHANGED count
\* An open toast's time is over.
TimeOver == toasts # Gone /\ toasts.open /\ DismissToast(toasts.id)

RemoveToast(id) ==
    /\ id \in toastTimeouts /\ toastTimeouts' = toastTimeouts \ {id}
    /\ toasts' = IF toasts # Gone /\ toasts.id = id THEN Gone ELSE toasts
    /\ UNCHANGED count

Next == \/ AddToast \/ DismissAll \/ TimeOver
        \/ \E id \in Ids : DismissToast(id) \/ RemoveToast(id)

ToastTimers(id) == RemoveToast(id)
Spec == Init /\ [][Next]_vars /\ WF_vars(TimeOver) /\ \A id \in Ids : WF_vars(ToastTimers(id))

-----------------------------------------------------------------------------
\* Every toast goes away, whatever toasts it replaced and whatever timers those
\* have left.
ToastsGo == <>[](toasts = Gone)
=============================================================================
