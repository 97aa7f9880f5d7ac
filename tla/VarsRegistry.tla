----------------------------- MODULE VarsRegistry -----------------------------
(***************************************************************************)
(* The card of exported variables, and the registry of the server.         *)
(*                                                                         *)
(* The card lists the registry when it is mounted, every thirty seconds,   *)
(* and after a variable was set or deleted; listings overlap, and while    *)
(* one is under way the lists are replaced by a note.  A variable is set   *)
(* and deleted by its name: the server looks it up in the global scope and *)
(* then in the groups, whichever of the lists it was picked from.          *)
(***************************************************************************)
EXTENDS Naturals

CONSTANTS Vars,     \* names
          Values,
          Fetches,  \* listings that may be under way
          None,     \* not exported, nothing listed, no variable
          MaxEdits  \* bound on changes, by the card, the schedulers and failures

VarsRegistryAssumption ==
    MaxEdits \in Nat /\ None \notin [key : Vars, value : Values \cup {None}]

VARIABLES registry,       \* the server's, with the values of the owners' contexts
          data, loading,
          fetches,        \* fetchRegistry under way
          editingVar, editDialogOpen,
          call,           \* setExportedVar or deleteExportedVar under way
          edits

card == <<editingVar, editDialogOpen>>
vars == <<registry, data, loading, fetches, editingVar, editDialogOpen, call, edits>>

-----------------------------------------------------------------------------
\* A variable of a name in either scope is another destination's.
Scopes     == {"global", "group"}
Registries == [Scopes \X Vars -> Values \cup {None}]
FetchesUnder == [st : {"idle", "asked", "failed"}, got : {None}]
                \cup [st : {"served"}, got : Registries]
IdleFetch == [st |-> "idle", got |-> None]
Asked     == [st |-> "asked", got |-> None]
Calls == [st : {"asked", "served", "failed"}, key : Vars, value : Values \cup {None}]

TypeOK ==
    /\ registry \in Registries /\ data \in Registries \cup {None}
    /\ loading \in BOOLEAN
    /\ fetches \in [Fetches -> FetchesUnder]
    /\ editingVar \in [key : Vars, value : Values \cup {None}] \cup {None}
    /\ editDialogOpen \in BOOLEAN /\ (editDialogOpen => editingVar # None)
    /\ call \in Calls \cup {None}
    /\ edits \in 0..MaxEdits

Init ==
    /\ registry \in Registries /\ data = None /\ loading = TRUE
    /\ \E f \in Fetches : fetches = [g \in Fetches |-> IF g = f THEN Asked ELSE IdleFetch]
    /\ editingVar = None /\ editDialogOpen = FALSE /\ call = None /\ edits = 0

Counts == edits < MaxEdits /\ edits' = edits + 1

-----------------------------------------------------------------------------
(* The server                                                              *)

Exported(n) == {s \in Scopes : registry[<<s, n>>] # None}
\* The global variable of a name comes before those of the groups.
Resolved(n) == IF "global" \in Exported(n) THEN "global" ELSE "group"

\* A scheduler exports, sets or unloads.
SchedulerChanges(s, n) ==
    /\ Counts
    /\ \E v \in Values \cup {None} : registry' = [registry EXCEPT ![<<s, n>>] = v]
    /\ UNCHANGED <<data, loading, fetches, card, call>>

\* The request, which fails when nothing has the name; a value of None deletes.
CallServed ==
    /\ call # None /\ call.st = "asked"
    /\ IF Exported(call.key) # {}
       THEN /\ registry' = [registry EXCEPT ![<<Resolved(call.key), call.key>>] = call.value]
            /\ call' = [call EXCEPT !.st = "served"]
       ELSE registry' = registry /\ call' = [call EXCEPT !.st = "failed"]
    /\ UNCHANGED <<data, loading, fetches, card, edits>>
CallBreaks ==
    /\ call # None /\ call.st = "asked" /\ Counts
    /\ call' = [call EXCEPT !.st = "failed"]
    /\ UNCHANGED <<registry, data, loading, fetches, card>>

-----------------------------------------------------------------------------
(* fetchRegistry                                                           *)

Starts(f) == /\ fetches[f].st = "idle"
             /\ fetches' = [fetches EXCEPT ![f] = Asked] /\ loading' = TRUE
\* The interval, and the button.
FetchStarts(f) == Starts(f) /\ UNCHANGED <<registry, data, card, call, edits>>
FetchServed(f) ==
    /\ fetches[f].st = "asked"
    /\ fetches' = [fetches EXCEPT ![f] = [st |-> "served", got |-> registry]]
    /\ UNCHANGED <<registry, data, loading, card, call, edits>>
FetchBreaks(f) ==
    /\ fetches[f].st = "asked" /\ Counts
    /\ fetches' = [fetches EXCEPT ![f] = [st |-> "failed", got |-> None]]
    /\ UNCHANGED <<registry, data, loading, card, call>>
\* Mutant: only the first listing is taken.
TakenOnce(f) == IF fetches[f].st = "served" /\ data = None THEN fetches[f].got ELSE data
Taken(f) == IF fetches[f].st = "served" THEN fetches[f].got ELSE data
FetchLands(f) ==
    /\ fetches[f].st \in {"served", "failed"}
    /\ data' = Taken(f) /\ loading' = FALSE
    /\ fetches' = [fetches EXCEPT ![f] = IdleFetch]
    /\ UNCHANGED <<registry, card, call, edits>>

-----------------------------------------------------------------------------
(* The card                                                                *)

\* The rows of the global list and of the groups' lists.
Row(s, n) == data # None /\ data[<<s, n>>] # None
\* While a listing is under way the lists are not shown.
Listed(s, n) == ~loading /\ Row(s, n)
EditVar(s, n) ==
    /\ Listed(s, n) /\ ~editDialogOpen
    /\ editingVar' = [key |-> n, value |-> data[<<s, n>>]] /\ editDialogOpen' = TRUE
    /\ UNCHANGED <<registry, data, loading, fetches, call, edits>>
TypeValue(v) ==
    /\ editDialogOpen /\ editingVar' = [editingVar EXCEPT !.value = v]
    /\ UNCHANGED <<registry, data, loading, fetches, editDialogOpen, call, edits>>
CancelEdit ==
    /\ editDialogOpen /\ editDialogOpen' = FALSE
    /\ UNCHANGED <<registry, data, loading, fetches, editingVar, call, edits>>

Calling(n, v) == call = None /\ Counts
                 /\ call' = [st |-> "asked", key |-> n, value |-> v]
HandleSaveEdit ==
    /\ editDialogOpen /\ Calling(editingVar.key, editingVar.value)
    /\ UNCHANGED <<registry, data, loading, fetches, card>>
HandleDeleteVar(n) ==
    /\ (\E s \in Scopes : Listed(s, n)) /\ ~editDialogOpen /\ Calling(n, None)
    /\ UNCHANGED <<registry, data, loading, fetches, card>>
\* A variable was set: the dialog closes, whichever variable it is for by then.
CallLands(f) ==
    /\ call # None /\ call.st = "served" /\ call' = None
    /\ Starts(f)
    /\ editDialogOpen' = (editDialogOpen /\ call.value = None)
    /\ UNCHANGED <<registry, data, editingVar, edits>>
CallFails ==
    /\ call # None /\ call.st = "failed" /\ call' = None
    /\ UNCHANGED <<registry, data, loading, fetches, card, edits>>

-----------------------------------------------------------------------------
Next == \/ \E s \in Scopes, n \in Vars : SchedulerChanges(s, n) \/ EditVar(s, n)
        \/ \E f \in Fetches : FetchStarts(f) \/ FetchServed(f) \/ FetchBreaks(f)
                              \/ FetchLands(f) \/ CallLands(f)
        \/ \E n \in Vars : HandleDeleteVar(n)
        \/ \E v \in Values : TypeValue(v)
        \/ CancelEdit \/ HandleSaveEdit \/ CallServed \/ CallBreaks \/ CallFails

\* Polls go on, and answers come.
Polls(f) == FetchStarts(f) \/ FetchServed(f) \/ FetchLands(f)
Spec == Init /\ [][Next]_vars /\ \A f \in Fetches : WF_vars(Polls(f))

-----------------------------------------------------------------------------
\* The card comes to list what the registry has and stays with it, however
\* listings overlap, and whatever was set, deleted or failed before.
CaughtUp == data = registry
RegistryCatchesUp == <>[]CaughtUp
=============================================================================
