----------------------------- MODULE SchedulerCard -----------------------------
(***************************************************************************)
(* One destination's card on the schedulers page and what keeps it up to   *)
(* date: the card polls its log, unless text of it is selected, and the    *)
(* page polls the next action, by two requests that write the same place,  *)
(* and the instruction queue.  A listing of the page takes the cards away  *)
(* and wipes the statuses.  SchedulerPage is about the listing itself.     *)
(***************************************************************************)
EXTENDS Naturals

CONSTANTS None,
          MaxChanges, \* bound on the server's changes
          MaxLosses,  \* bound on the requests that fail
          MaxLists    \* bound on the page's listings

SchedulerCardAssumption ==
    /\ {MaxChanges, MaxLosses, MaxLists} \subseteq Nat /\ None \notin Nat

VARIABLES server,   \* whether it runs, and the version of its log, queue and next action
          destination, \* as last listed: whether it is running, and its log
          next,     \* schedulerStatus: the next action shown
          queue,    \* instructionQueue
          logs,
          card,     \* there, its log section open, text of it selected, updates paused
          answers,  \* the answers on their way, one of each kind
          losses, lists

vars == <<server, destination, next, queue, logs, card, answers, losses, lists>>
shows == <<destination, next, queue, logs>>

-----------------------------------------------------------------------------
Versions == 0..MaxChanges
Kinds == {"logs", "all", "status", "queue", "listing"}
Answer == [running : BOOLEAN, at : Versions \cup {None}, paused : BOOLEAN]
Fresh == [open |-> FALSE, selected |-> FALSE, paused |-> FALSE]

TypeOK ==
    /\ server \in [running : BOOLEAN, at : Versions] 
    /\ destination \in [running : BOOLEAN, logs : Versions \cup {None}]
    /\ {next, queue, logs} \subseteq Versions \cup {None}
    /\ card \in [open : BOOLEAN, selected : BOOLEAN, paused : BOOLEAN] \cup {None}
    /\ answers \in [Kinds -> Answer \cup {None}]
    /\ losses \in 0..MaxLosses /\ lists \in 0..MaxLists

Init == /\ server \in [running : BOOLEAN, at : {0}]
        /\ destination = [running |-> FALSE, logs |-> None] /\ next = None /\ queue = None /\ logs = None /\ card = Fresh
        /\ answers = [k \in Kinds |-> None] /\ losses = 0 /\ lists = 0

ServerChanges(r) ==
    /\ server.at < MaxChanges /\ server' = [running |-> r, at |-> server.at + 1]
    /\ UNCHANGED <<shows, card, answers, losses, lists>>

-----------------------------------------------------------------------------
(* The requests                                                            *)

\* Only what the listing calls running has its queue and status polled.
Polled(k) == CASE k = "logs" -> card # None /\ card.open
               [] k = "all" -> TRUE
               [] k \in {"status", "queue"} -> destination.running /\ card # None
               [] k = "listing" -> FALSE
\* What the server says then, and for the log what the asking closure has of
\* the card; the status is asked first, the action after it.
Served(k) == [running |-> server.running, at |-> IF k = "status" THEN None ELSE server.at,
              paused |-> k = "logs" /\ card.paused]
Poll(k) ==
    /\ Polled(k) /\ answers[k] = None
    /\ answers' = [answers EXCEPT ![k] = Served(k)]
    /\ UNCHANGED <<server, shows, card, losses, lists>>
FetchAction ==
    /\ answers.status # None /\ answers.status.running /\ answers.status.at = None
    /\ answers' = [answers EXCEPT !.status.at = server.at]
    /\ UNCHANGED <<server, shows, card, losses, lists>>
Taken(k) == answers[k] # None /\ answers' = [answers EXCEPT ![k] = None]

AllLands ==
    /\ Taken("all") /\ next' = answers.all.at
    /\ UNCHANGED <<server, destination, queue, logs, card, losses, lists>>
\* Also when the action could not be fetched.
StatusLands ==
    /\ Taken("status") /\ next' = answers.status.at
    /\ UNCHANGED <<server, destination, queue, logs, card, losses, lists>>
QueueLands ==
    /\ Taken("queue") /\ queue' = answers.queue.at
    /\ UNCHANGED <<server, destination, next, logs, card, losses, lists>>
Fails(k) ==
    /\ Taken(k) /\ losses < MaxLosses /\ losses' = losses + 1
    /\ next' = IF k = "status" THEN None ELSE next
    /\ IF k = "listing" THEN card' = Fresh /\ logs' = destination.logs ELSE UNCHANGED <<card, logs>>
    /\ UNCHANGED <<server, destination, queue, lists>>

\* Mutant: without a selection the update is taken only while not paused.
AfterLogsPaused(a) ==
    IF ~card.open \/ ~(card.selected \/ card.paused) THEN logs' = a.at /\ UNCHANGED card
    ELSE card' = [card EXCEPT !.paused = TRUE] /\ UNCHANGED logs
\* With text selected the update is dropped, and paused; without, it resumes.
\* The closure sees the paused of its time.
AfterLogs(a) ==
    IF ~card.open THEN logs' = a.at /\ UNCHANGED card
    ELSE IF card.selected
    THEN card' = [card EXCEPT !.paused = @ \/ ~a.paused] /\ UNCHANGED logs
    ELSE logs' = a.at /\ card' = [card EXCEPT !.paused = @ /\ ~a.paused]
LogsLand ==
    /\ Taken("logs") /\ card # None /\ AfterLogs(answers.logs)
    /\ UNCHANGED <<server, destination, next, queue, losses, lists>>

-----------------------------------------------------------------------------
(* The listing and the user                                                *)

FetchDestinations ==
    /\ answers.listing = None /\ lists < MaxLists /\ lists' = lists + 1
    /\ answers' = [answers EXCEPT !.listing = Served("listing"), !.logs = None]
    /\ card' = None
    /\ UNCHANGED <<server, shows, losses>>
\* The effect of the new destinations wipes the statuses that came with them,
\* and the new card starts with the listing's log, which only a running
\* destination has.
ListingLands ==
    /\ Taken("listing") /\ next' = None /\ card' = Fresh
    /\ logs' = IF answers.listing.running THEN answers.listing.at ELSE None
    /\ destination' = [running |-> answers.listing.running, logs |-> logs']
    /\ UNCHANGED <<server, queue, losses, lists>>

ToggleLogs ==
    /\ card # None /\ card' = [card EXCEPT !.open = ~card.open, !.selected = FALSE]
    /\ UNCHANGED <<server, shows, answers, losses, lists>>
\* The mouse comes up in the log, with or without a selection, ...
Select(s) ==
    /\ card # None /\ card.open
    /\ card' = [card EXCEPT !.selected = s, !.paused = s]
    /\ UNCHANGED <<server, shows, answers, losses, lists>>
\* ... or the selection is undone elsewhere, which the card does not notice.
Unselect ==
    /\ card # None /\ card.selected /\ card' = [card EXCEPT !.selected = FALSE]
    /\ UNCHANGED <<server, shows, answers, losses, lists>>

-----------------------------------------------------------------------------
Lands == AllLands \/ QueueLands \/ StatusLands
Next == \/ Lands \/ LogsLand \/ FetchAction \/ FetchDestinations \/ ListingLands
        \/ ToggleLogs \/ Unselect
        \/ \E b \in BOOLEAN : ServerChanges(b) \/ Select(b)
        \/ \E k \in Kinds : Poll(k) \/ Fails(k)

Polls(k) == Poll(k)
Answers(k) == CASE k = "logs" -> LogsLand
                [] k = "all" -> AllLands
                [] k = "status" -> FetchAction \/ StatusLands
                [] k = "queue" -> QueueLands
                [] k = "listing" -> ListingLands
Spec == /\ Init /\ [][Next]_vars
        /\ \A k \in Kinds : WF_vars(Polls(k)) /\ WF_vars(Answers(k))

-----------------------------------------------------------------------------
\* The card catches up with its destination: the queue of a running one, the
\* next action although the listing wipes it and a failed request hides it, and
\* the log, if its section is open, after every selection.  The next action
\* flickers where the listing still calls a stopped destination running (its
\* status is polled, which hides the action, and all actions bring it back),
\* and the user may open, close and select for ever: so these two are shown
\* again and again.
QueueIsShown == destination.running /\ card # None => queue = server.at
NextIsShown  == next = server.at
LogsAreShown == card # None /\ card.open /\ ~card.selected => logs = server.at /\ ~card.paused
CardCatchesUp == <>[]QueueIsShown /\ []<>NextIsShown /\ []<>LogsAreShown
=============================================================================
