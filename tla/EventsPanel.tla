----------------------------- MODULE EventsPanel -----------------------------
(***************************************************************************)
(* The panel of the scheduler page that throws events and lists those of   *)
(* all destinations, with the server's side of its requests.               *)
(*                                                                         *)
(* The panel asks for its lists when it is mounted, every five seconds,    *)
(* after a throw and after a deletion.  To answer, the client reads the    *)
(* destinations and then the events of each in turn, so a listing is no    *)
(* snapshot, several of them overlap, and they land in any order.  A       *)
(* destination that cannot be read is left out.                            *)
(*                                                                         *)
(* An event is named by its place in the order of throws: the event of a   *)
(* group has a copy, with an id of its own, at each destination.           *)
(***************************************************************************)
EXTENDS Naturals, Sequences, FiniteSets, SequencesExt

CONSTANTS DestOrder,  \* the destinations, in the order the client reads them
          Keys,       \* event keys
          Groups,     \* sets of destinations that are scopes of their own
          Fallback,   \* the scopes offered when the destinations cannot be read
          PageSizes,  \* rows per page that the tables offer
          DefaultSize,\* the one they start with
          Requests,   \* throws, deletions and listings under way together
          Nothing,    \* no key typed
          MaxEvents,  \* bound on the events thrown
          MaxFails,   \* bound on the requests that fail
          MaxActs     \* bound on what the user does

Dests == ToSet(DestOrder)

ASSUME EventsPanelAssumption ==
    /\ DestOrder \in Seq(Dests) /\ DestOrder # <<>> /\ IsInjective(DestOrder)
    /\ Groups \subseteq SUBSET Dests /\ Fallback \subseteq SUBSET Dests
    /\ Nothing \notin Keys
    /\ PageSizes \subseteq Nat \ {0} /\ DefaultSize \in PageSizes
    /\ MaxEvents \in Nat /\ MaxFails \in Nat /\ MaxActs \in Nat

VARIABLES
    thrown,   \* server: event_history, the events thrown, in order
    queued,   \* server: those in active_events
    expired,  \* server: those past their time
    form,     \* the form that throws an event: whether it can be submitted
    offered,  \* the scopes it offers
    listing,  \* fetchDestinationsAndGroups is under way
    calls,    \* throws, deletions and listings under way
    shown,    \* eventsData
    pages,    \* the page and page size of each table
    clicked,  \* history: the events the user deleted
    cleared,  \* history: the events deletions took from the queues
    fails,
    acts

server  == <<thrown, queued, expired>>
panel   == <<form, offered, listing, shown, pages>>
history == <<clicked, cleared>>
vars    == <<thrown, queued, expired, form, offered, listing, calls, shown,
             pages, clicked, cleared, fails, acts>>

-----------------------------------------------------------------------------
Ids    == 1..MaxEvents
Global == Dests
Scopes == Groups \cup {Global} \cup {{d} : d \in Dests}
Tables == {"queue", "history"}
Lists  == [Tables -> SUBSET Ids]
Empty  == [t \in Tables |-> {}]
FirstPage == [page |-> 0, size |-> DefaultSize]

\* A form is ready with a key and a payload that is empty or parses.
Form == {"blank", "ready"}

\* A call is "sent" to the server, or "reading": about to ask for the list of the
\* destinations and the events of the first, or of the one after the first `read`.
Calls == [kind : {"idle", "poll", "throw", "delete"},
          at : {"sent", "reading"}, key : Keys \cup {Nothing},
          scope : SUBSET Dests, event : Ids \cup {0}, own : BOOLEAN,
          read : 0..Len(DestOrder), got : Lists]
Idle  == [kind |-> "idle", at |-> "sent", key |-> Nothing, scope |-> Global,
          event |-> 0, own |-> TRUE, read |-> 0, got |-> Empty]
Poll  == [Idle EXCEPT !.kind = "poll", !.at = "reading"]

\* Mutant: the whole history is listed.
HistoryUnfiltered(d) == {e \in DOMAIN thrown : thrown[e].dest = d}
\* get_events_for_destination: what is queued, and of the history what is past
\* its time or shares its key with nothing that is queued.
Queue(d) == {e \in queued \ expired : thrown[e].dest = d}
History(d) ==
    {e \in DOMAIN thrown : /\ thrown[e].dest = d
                           /\ \/ e \in expired
                              \/ \A q \in Queue(d) : thrown[q].key # thrown[e].key}

\* Its answer, a list for each table.
Events(t, d) == IF t = "queue" THEN Queue(d) ELSE History(d)

Listed == [t \in Tables |-> UNION {Events(t, d) : d \in Dests}]

-----------------------------------------------------------------------------
Init ==
    /\ thrown = <<>> /\ queued = {} /\ expired = {}
    /\ form = "blank" /\ offered = {Global} /\ listing = TRUE
    /\ shown = Empty
    /\ pages = [t \in Tables |-> FirstPage]
    /\ \E r \in Requests :
         calls = [q \in Requests |-> IF q = r THEN Poll ELSE Idle]
    /\ clicked = {} /\ cleared = {} /\ fails = 0 /\ acts = 0

\* The user leaves the section, or the page reloads its destinations, and the
\* panel is mounted anew: what is at the server is answered to nobody.
Remount(r) ==
    /\ acts < MaxActs /\ acts' = acts + 1
    /\ calls[r].kind = "idle" \/ calls[r].at # "sent"
    /\ calls' = [q \in Requests |->
                   IF q = r THEN Poll
                   ELSE IF calls[q].kind # "idle" /\ calls[q].at = "sent"
                   THEN [calls[q] EXCEPT !.own = FALSE] ELSE Idle]
    /\ form' = "blank" /\ offered' = {Global} /\ listing' = TRUE /\ shown' = Empty
    /\ pages' = [t \in Tables |-> FirstPage]
    /\ UNCHANGED <<server, history, fails>>

-----------------------------------------------------------------------------
(* The server                                                              *)

\* throw_event: a copy for each destination of the scope, in some order.
Orders(scope) == {at \in [1..Cardinality(scope) -> scope] : IsInjective(at)}
Copies(at, key) == [i \in DOMAIN at |-> [dest |-> at[i], key |-> key]]
Throw(scope, key) ==
    /\ Len(thrown) + Cardinality(scope) <= MaxEvents
    /\ \E at \in Orders(scope) : thrown' = thrown \o Copies(at, key)
    /\ queued' = queued \cup Len(thrown) + 1 .. Len(thrown) + Cardinality(scope)
    /\ UNCHANGED expired

\* Mutant: an event is deleted by its key.
ClearsKey(e) == {q \in queued : thrown[q] = thrown[e]}
\* clear_events_for_destination, by the id of an event.
Clears(e) == {e} \cap queued

\* A loop, another page or a generation throws an event, a loop consumes one,
\* or an event's time passes.
ThrownElsewhere ==
    /\ \E scope \in Scopes, key \in Keys : Throw(scope, key)
    /\ UNCHANGED <<panel, calls, history, fails, acts>>
Consumed ==
    /\ \E e \in queued \ expired : queued' = queued \ {e}
    /\ UNCHANGED <<thrown, expired, panel, calls, history, fails, acts>>
Expire ==
    /\ \E e \in DOMAIN thrown \ expired : expired' = expired \cup {e}
    /\ UNCHANGED <<thrown, queued, panel, calls, history, fails, acts>>

-----------------------------------------------------------------------------
(* The form                                                                *)

Act == acts < MaxActs /\ acts' = acts + 1

\* fetchDestinationsAndGroups: a failure leaves a fixed list, "global" chosen.
ScopesLand ==
    /\ listing /\ listing' = FALSE
    /\ offered' = Scopes
    /\ UNCHANGED <<server, form, shown, pages, calls, history, fails, acts>>
ScopesFail ==
    /\ listing /\ listing' = FALSE
    /\ fails < MaxFails /\ fails' = fails + 1
    /\ offered' = Fallback
    /\ UNCHANGED <<server, form, shown, pages, calls, history, acts>>

TypeForm ==
    /\ Act
    /\ form = "blank" /\ form' = "ready"
    /\ UNCHANGED <<server, offered, listing, shown, pages, calls, history, fails>>
ResetForm ==
    /\ Act
    /\ form = "ready" /\ form' = "blank"
    /\ UNCHANGED <<server, offered, listing, shown, pages, calls, history, fails>>

\* handleSubmit, up to its request; the button is not disabled meanwhile.
Submit(r) ==
    /\ Act
    /\ calls[r].kind = "idle"
    /\ form = "ready"
    /\ \E key \in Keys, scope \in offered :
         calls' = [calls EXCEPT ![r] = [Idle EXCEPT !.kind = "throw", !.key = key,
                                                   !.scope = scope]]
    /\ UNCHANGED <<server, panel, history, fails>>

\* Its request is served: the panel, if it is still there, lists the events.
Served(r) ==
    calls' = [calls EXCEPT ![r] = IF @.own THEN [@ EXCEPT !.at = "reading"] ELSE Idle]
ThrowServed(r) ==
    /\ calls[r].kind = "throw" /\ calls[r].at = "sent"
    /\ Throw(calls[r].scope, calls[r].key)
    /\ Served(r)
    /\ UNCHANGED <<panel, history, fails, acts>>
DeleteServed(r) ==
    /\ calls[r].kind = "delete" /\ calls[r].at = "sent"
    /\ queued' = queued \ Clears(calls[r].event)
    /\ cleared' = cleared \cup Clears(calls[r].event)
    /\ Served(r)
    /\ UNCHANGED <<thrown, expired, panel, clicked, fails, acts>>
\* A throw or a deletion fails: nothing is listed, and the form stays.
CallFails(r) ==
    /\ calls[r].kind # "idle" /\ calls[r].at = "sent"
    /\ fails < MaxFails \/ calls[r].kind = "throw"
    /\ fails' = IF fails < MaxFails THEN fails + 1 ELSE fails
    /\ calls' = [calls EXCEPT ![r] = Idle]
    /\ UNCHANGED <<server, panel, history, acts>>

-----------------------------------------------------------------------------
(* The tables                                                              *)

PageCount(t) == (Cardinality(shown[t]) + pages[t].size - 1) \div pages[t].size
\* The rows of the page shown, the newest first: none, once the list is shorter
\* than its start.
Place(t, e) == Cardinality({f \in shown[t] : f > e})
Rows(t) == {e \in shown[t] : Place(t, e) \div pages[t].size = pages[t].page}

GoTo(t, page) ==
    /\ Act
    /\ shown[t] # {} /\ page # pages[t].page
    /\ pages' = [pages EXCEPT ![t].page = page]
    /\ UNCHANGED <<server, form, offered, listing, shown, calls, history, fails>>
\* Mutant: "Previous" is not disabled on the first page.
TurnPageUnguarded(t) ==
    \/ \E page \in {0, pages[t].page - 1} : GoTo(t, page)
    \/ /\ pages[t].page + 1 < PageCount(t)
       /\ \E page \in {pages[t].page + 1, PageCount(t) - 1} : GoTo(t, page)
\* "First", "Previous", "Next" and "Last" are disabled where they lead nowhere.
TurnPage(t) ==
    \/ pages[t].page > 0 /\ \E page \in {0, pages[t].page - 1} : GoTo(t, page)
    \/ /\ pages[t].page + 1 < PageCount(t)
       /\ \E page \in {pages[t].page + 1, PageCount(t) - 1} : GoTo(t, page)
ResizePage(t, size) ==
    /\ Act
    /\ shown[t] # {} /\ size # pages[t].size
    /\ pages' = [pages EXCEPT ![t] = [page |-> 0, size |-> size]]
    /\ UNCHANGED <<server, form, offered, listing, shown, calls, history, fails>>

\* handleDeleteEvent, on a row of the queue.
DeleteEvent(r) ==
    /\ Act
    /\ calls[r].kind = "idle"
    /\ \E e \in Rows("queue") :
         /\ calls' = [calls EXCEPT ![r] = [Idle EXCEPT !.kind = "delete", !.event = e]]
         /\ clicked' = clicked \cup {e}
    /\ UNCHANGED <<server, panel, cleared, fails>>

-----------------------------------------------------------------------------
(* fetchEvents and getAllEvents                                            *)

PollStarts(r) ==
    /\ calls[r].kind = "idle"
    /\ calls' = [calls EXCEPT ![r] = Poll]
    /\ UNCHANGED <<server, panel, history, fails, acts>>

Reading(r) ==
    /\ calls[r].kind # "idle" /\ calls[r].at = "reading"
    /\ calls[r].read < Len(DestOrder)
NextDest(r) == DestOrder[calls[r].read + 1]

\* getPublishDestinations fails: fetchEvents keeps what is shown and tells its
\* caller nothing, so a throw goes on to empty the form.
ListFails(r) ==
    /\ Reading(r) /\ calls[r].read = 0
    /\ fails < MaxFails /\ fails' = fails + 1
    /\ form' = IF calls[r].kind = "throw" THEN "blank" ELSE form
    /\ calls' = [calls EXCEPT ![r] = Idle]
    /\ UNCHANGED <<server, offered, listing, shown, pages, history, acts>>
\* The events of the next destination are read, or left out.
ReadDest(r) ==
    /\ Reading(r)
    /\ calls' = [calls EXCEPT ![r].read = @ + 1,
                              ![r].got = [t \in Tables |-> @[t] \cup Events(t, NextDest(r))]]
    /\ UNCHANGED <<server, panel, history, fails, acts>>
DestFails(r) ==
    /\ Reading(r)
    /\ fails < MaxFails /\ fails' = fails + 1
    /\ calls' = [calls EXCEPT ![r].read = @ + 1]
    /\ UNCHANGED <<server, panel, history, acts>>
\* Mutant: a listing is taken only once.
LandOnce(r) ==
    /\ calls[r].kind # "idle" /\ calls[r].at = "reading"
    /\ calls[r].read = Len(DestOrder)
    /\ shown' = IF shown = Empty THEN calls[r].got ELSE shown
    /\ form' = IF calls[r].kind = "throw" THEN "blank" ELSE form
    /\ calls' = [calls EXCEPT ![r] = Idle]
    /\ UNCHANGED <<server, offered, listing, pages, history, fails, acts>>
\* The listing lands: it replaces what is shown; the page shown stays.  A throw
\* then empties the form, with what was typed since.
Land(r) ==
    /\ calls[r].kind # "idle" /\ calls[r].at = "reading"
    /\ calls[r].read = Len(DestOrder)
    /\ shown' = calls[r].got
    /\ form' = IF calls[r].kind = "throw" THEN "blank" ELSE form
    /\ calls' = [calls EXCEPT ![r] = Idle]
    /\ UNCHANGED <<server, offered, listing, pages, history, fails, acts>>

-----------------------------------------------------------------------------
Next ==
    \/ ThrownElsewhere \/ Consumed \/ Expire
    \/ ScopesLand \/ ScopesFail \/ TypeForm \/ ResetForm
    \/ \E t \in Tables : TurnPage(t) \/ \E size \in PageSizes : ResizePage(t, size)
    \/ \E r \in Requests :
         \/ Remount(r) \/ Submit(r) \/ DeleteEvent(r) \/ PollStarts(r)
         \/ ThrowServed(r) \/ DeleteServed(r) \/ CallFails(r)
         \/ ListFails(r) \/ ReadDest(r) \/ DestFails(r) \/ Land(r)

\* The five second timer runs while the panel is mounted, and every request is
\* answered or fails: a call in progress goes on.
Proceed(r) ==
    \/ ThrowServed(r) \/ DeleteServed(r) \/ CallFails(r)
    \/ ReadDest(r) \/ Land(r)
Fairness ==
    /\ \A r \in Requests : WF_vars(Proceed(r))
    /\ WF_vars(\E r \in Requests : PollStarts(r))

Spec == Init /\ [][Next]_vars /\ Fairness

-----------------------------------------------------------------------------
TypeOK ==
    /\ thrown \in Seq([dest : Dests, key : Keys]) /\ Len(thrown) <= MaxEvents
    /\ queued \subseteq DOMAIN thrown /\ expired \subseteq DOMAIN thrown
    /\ form \in Form /\ offered \subseteq SUBSET Dests /\ listing \in BOOLEAN
    /\ calls \in [Requests -> Calls]
    /\ shown \in Lists
    /\ pages \in [Tables -> [page : Nat, size : PageSizes]]
    /\ clicked \subseteq Ids /\ cleared \subseteq Ids
    /\ fails \in 0..MaxFails /\ acts \in 0..MaxActs

\* No event is listed as waiting and as past at once, though a listing reads the
\* destinations at different moments while events are consumed and expire.
ListedOnce == shown["queue"] \cap shown["history"] = {}

\* Deletions take away only events whose row the user deleted: not those of the
\* same key, not the copies at other destinations, however old the table was.
DeleteSparesOthers == cleared \subseteq clicked

\* The panel catches up: when events stop coming and going, it ends up showing
\* what the server lists, whichever listings overlapped or failed before.
PanelCatchesUp == <>[](shown = Listed)

\* The panel's state: its types, no event listed twice, and nothing deleted that
\* the user did not delete.
PanelHolds == TypeOK /\ ListedOnce /\ DeleteSparesOthers
=============================================================================
