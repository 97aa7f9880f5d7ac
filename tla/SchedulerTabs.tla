---------------------------- MODULE SchedulerTabs ----------------------------
(***************************************************************************)
(* The main page's tabs and the schedulers' states they show.              *)
(*                                                                         *)
(* The states of all destinations are asked for together when the list of  *)
(* destinations has come and every thirty seconds: they land when all have *)
(* answered, and not at all when one fails, or the list has changed since. *)
(* An action of the tab's control asks for that destination's state alone. *)
(***************************************************************************)
EXTENDS Naturals, FiniteSets

CONSTANTS Destinations,
          Rounds,      \* polls that may be under way
          None,        \* no state known, no answer yet
          MaxControls, \* bound on what starts and stops schedulers, here and elsewhere
          MaxLosses    \* bound on requests that fail

SchedulerTabsAssumption == {MaxControls, MaxLosses} \subseteq Nat

VARIABLES running,     \* the schedulers' states on the server
          listed,      \* destinationsWithBuckets is known; the effect is mounted
          selectedTab,
          flags,       \* bucketRefreshFlags: the selected tab is mounted anew
          statuses,    \* schedulerStatuses
          rounds,      \* polls under way: what was answered, and isMounted
          refreshes,   \* refreshBucket under way: the destination's state, once served
          controlCall, \* handleAction under way
          controlsDone, losses

tabs == <<listed, selectedTab, flags>>
vars == <<running, listed, selectedTab, flags, statuses, rounds, refreshes,
          controlCall, controlsDone, losses>>

-----------------------------------------------------------------------------
States  == {"stopped", "running", "paused"}
Answers == [Destinations -> States \cup {None}]
NoAnswers == [d \in Destinations |-> None]
Polling == [open : BOOLEAN, mounted : BOOLEAN, got : Answers]
Quiet   == [open |-> FALSE, mounted |-> TRUE, got |-> NoAnswers]
Actions == {"start", "pause", "stop", "unload"}
Calls   == [dest : Destinations, act : Actions, st : {"asked", "served", "failed"}]

TypeOK ==
    /\ running \in [Destinations -> States]
    /\ listed \in BOOLEAN /\ selectedTab \in Destinations \cup {"recent"}
    /\ flags \in [Destinations -> 0..MaxControls]
    /\ statuses \in Answers
    /\ rounds \in [Rounds -> Polling]
    /\ refreshes \subseteq Destinations \X (States \cup {None})
    /\ controlCall \in Calls \cup {None}
    /\ controlsDone \in 0..MaxControls /\ losses \in 0..MaxLosses

Init ==
    /\ running \in [Destinations -> States]
    /\ listed = FALSE /\ selectedTab = "recent"
    /\ flags = [d \in Destinations |-> 0] /\ statuses = NoAnswers
    /\ rounds = [r \in Rounds |-> Quiet] /\ refreshes = {}
    /\ controlCall = None /\ controlsDone = 0 /\ losses = 0

Loses == losses < MaxLosses /\ losses' = losses + 1

-----------------------------------------------------------------------------
(* The poll                                                                *)

PollStarts(r) ==
    /\ listed /\ ~rounds[r].open
    /\ rounds' = [rounds EXCEPT ![r] = [Quiet EXCEPT !.open = TRUE]]
    /\ UNCHANGED <<running, tabs, statuses, refreshes, controlCall, controlsDone, losses>>
\* The list comes, or comes anew: the effect's cleanup ends the polls under way.
DestinationsLand ==
    /\ listed' = TRUE /\ (listed => losses < MaxLosses)
    /\ losses' = IF listed THEN losses + 1 ELSE losses
    /\ rounds' = [r \in Rounds |-> [rounds[r] EXCEPT !.mounted = ~rounds[r].open]]
    /\ UNCHANGED <<running, selectedTab, flags, statuses, refreshes, controlCall, controlsDone>>
PollAnswered(r, d) ==
    /\ rounds[r].open /\ rounds[r].got[d] = None
    /\ rounds' = [rounds EXCEPT ![r].got[d] = running[d]]
    /\ UNCHANGED <<running, tabs, statuses, refreshes, controlCall, controlsDone, losses>>
\* One request fails, and with it all.
PollFails(r) ==
    /\ rounds[r].open /\ rounds[r].got \notin [Destinations -> States] /\ Loses
    /\ rounds' = [rounds EXCEPT ![r] = Quiet]
    /\ UNCHANGED <<running, tabs, statuses, refreshes, controlCall, controlsDone>>
\* Mutant: a poll is only taken when nothing is known yet.
TakenFirst(r) == IF rounds[r].mounted /\ statuses = NoAnswers THEN rounds[r].got ELSE statuses
Taken(r) == IF rounds[r].mounted THEN rounds[r].got ELSE statuses
PollLands(r) ==
    /\ rounds[r].open /\ rounds[r].got \in [Destinations -> States]
    /\ rounds' = [rounds EXCEPT ![r] = Quiet]
    /\ statuses' = Taken(r)
    /\ UNCHANGED <<running, tabs, refreshes, controlCall, controlsDone, losses>>

-----------------------------------------------------------------------------
(* The tabs, and a tab's control                                           *)

HandleTabClick(t) ==
    /\ t = "recent" \/ listed
    /\ selectedTab' = t
    /\ UNCHANGED <<running, listed, flags, statuses, rounds, refreshes, controlCall,
                   controlsDone, losses>>

\* The buttons are those of the state that is shown.  The server says of a
\* paused scheduler that it is not running, so unpause and stop never come with
\* it.  The panel below unloads the top script in any state.
Offered(st) == IF st = "running" THEN {"pause", "stop", "unload"} ELSE {"start", "unload"}
HandleAction(act) ==
    /\ selectedTab \in Destinations /\ act \in Offered(statuses[selectedTab])
    /\ controlCall = None /\ controlsDone < MaxControls /\ controlsDone' = controlsDone + 1
    /\ controlCall' = [dest |-> selectedTab, act |-> act, st |-> "asked"]
    /\ UNCHANGED <<running, tabs, statuses, rounds, refreshes, losses>>
\* What the server makes of it: a pause of a paused scheduler resumes it, a stop
\* leaves it paused, a start fails while its loop lives or there is no schedule,
\* and an unload of the last schedule ends the loop.
Effects(act, st) ==
    CASE act = "pause"  -> {IF st = "paused" THEN "running" ELSE "paused"}
      [] act = "stop"   -> {IF st = "paused" THEN "paused" ELSE "stopped"}
      [] act = "start"  -> IF st = "running" THEN {None} ELSE {None, "running"}
      [] OTHER          -> {st, "stopped", None}
ActionServed ==
    /\ controlCall # None /\ controlCall.st = "asked"
    /\ \E st \in Effects(controlCall.act, running[controlCall.dest]) :
          /\ running' = IF st = None THEN running
                                     ELSE [running EXCEPT ![controlCall.dest] = st]
          /\ controlCall' = [controlCall EXCEPT !.st = IF st = None THEN "failed" ELSE "served"]
    /\ UNCHANGED <<tabs, statuses, rounds, refreshes, controlsDone, losses>>
\* refreshBucket: the tab's view is mounted anew, and its state asked for.
ActionLands ==
    /\ controlCall # None /\ controlCall.st \in {"served", "failed"} /\ controlCall' = None
    /\ IF controlCall.st = "served"
       THEN /\ flags' = [flags EXCEPT ![controlCall.dest] = @ + 1]
            /\ refreshes' = refreshes \cup {<<controlCall.dest, None>>}
       ELSE UNCHANGED <<flags, refreshes>>
    /\ UNCHANGED <<running, listed, selectedTab, statuses, rounds, controlsDone, losses>>
RefreshServed(d) ==
    /\ <<d, None>> \in refreshes
    /\ refreshes' = (refreshes \ {<<d, None>>}) \cup {<<d, running[d]>>}
    /\ UNCHANGED <<running, tabs, statuses, rounds, controlCall, controlsDone, losses>>
RefreshFails(d) ==
    /\ <<d, None>> \in refreshes /\ refreshes' = refreshes \ {<<d, None>>} /\ Loses
    /\ UNCHANGED <<running, tabs, statuses, rounds, controlCall, controlsDone>>
RefreshLands(d, st) ==
    /\ st # None /\ <<d, st>> \in refreshes /\ refreshes' = refreshes \ {<<d, st>>}
    /\ statuses' = [statuses EXCEPT ![d] = st]
    /\ UNCHANGED <<running, tabs, rounds, controlCall, controlsDone, losses>>

\* The scheduler is started or stopped elsewhere, or ends.
ChangesElsewhere(d) ==
    /\ controlsDone < MaxControls /\ controlsDone' = controlsDone + 1
    /\ running' \in {[running EXCEPT ![d] = st] : st \in States}
    /\ UNCHANGED <<tabs, statuses, rounds, refreshes, controlCall, losses>>

-----------------------------------------------------------------------------
Next == \/ DestinationsLand
        \/ \E r \in Rounds : PollStarts(r) \/ PollFails(r) \/ PollLands(r)
                             \/ \E d \in Destinations : PollAnswered(r, d)
        \/ \E t \in Destinations \cup {"recent"} : HandleTabClick(t)
        \/ \E act \in Actions : HandleAction(act)
        \/ ActionServed \/ ActionLands
        \/ \E d \in Destinations : RefreshServed(d) \/ RefreshFails(d) \/ ChangesElsewhere(d)
                                   \/ \E st \in States : RefreshLands(d, st)

PollGoes(r) == PollStarts(r) \/ PollLands(r) \/ \E d \in Destinations : PollAnswered(r, d)
RefreshGoes == \E d \in Destinations : RefreshServed(d) \/ \E st \in States : RefreshLands(d, st)
Serves == DestinationsLand \/ ActionServed \/ ActionLands
Spec == Init /\ [][Next]_vars /\ WF_vars(Serves) /\ WF_vars(RefreshGoes)
        /\ \A r \in Rounds : WF_vars(PollGoes(r))

-----------------------------------------------------------------------------
\* The tabs come to show every scheduler's state, whatever polls and refreshes
\* overlap, fail or land late.
CaughtUp == statuses = running
StatusesCatchUp == <>[]CaughtUp
=============================================================================
