----------------------------- MODULE JobStatuses -----------------------------
(***************************************************************************)
(* The main page's job messages and the web socket they come through.      *)
(*                                                                         *)
(* A message of a job replaces the job's last one, clears its timer and    *)
(* sets one of its own, which takes the job off the list.  After every     *)
(* change of the list an effect's cleanup clears the timers of the list as *)
(* it was.  A closed socket is opened again after five seconds, unless a   *)
(* retry is noted already.                                                 *)
(***************************************************************************)
EXTENDS Naturals

CONSTANTS Jobs,        \* job ids: a job's own, or the screen a progress is for
          Gone,        \* no entry, no timer
          MaxMessages, \* bound on the messages received
          MaxDrops,    \* bound on connections that close or fail
          Lovable      \* on localhost the page offers simulated messages

VARIABLES jobs,       \* jobStatuses
          hideTimers, \* the timeouts pending: the job, and the message that set it
          received,   \* messages received
          expanded,   \* statusPanelExpanded
          series,     \* simulateProgressUpdate: the job it plays, or Gone
          socket,     \* the web socket of wsRef
          retryNoted, \* reconnectTimeoutRef is set
          retryDue,   \* its timeout is pending
          drops

vars == <<jobs, hideTimers, received, expanded, series, socket, retryNoted,
          retryDue, drops>>
connection == <<socket, retryNoted, retryDue, drops>>

-----------------------------------------------------------------------------
Messages == 1..MaxMessages
\* What a message says: a text, stages of which one is current, or a link
\* that says the job is done.
Texts == {"text", "stages", "Done"}
Statuses == [visible : BOOLEAN, msg : Messages, text : Texts,
             timer : Messages \cup {Gone}]

JobStatusesAssumption ==
    /\ {MaxMessages, MaxDrops} \subseteq Nat /\ Lovable \in BOOLEAN
    /\ Gone \notin Statuses

TypeOK ==
    /\ jobs \in [Jobs -> Statuses \cup {Gone}]
    /\ hideTimers \subseteq Jobs \X Messages
    /\ received \in 0..MaxMessages /\ drops \in 0..MaxDrops
    /\ expanded \in BOOLEAN /\ series \in Jobs \cup {Gone}
    /\ socket \in {"connecting", "open", "closed"}
    /\ retryNoted \in BOOLEAN /\ retryDue \in BOOLEAN
    /\ retryDue => retryNoted

Init ==
    /\ jobs = [j \in Jobs |-> Gone] /\ hideTimers = {}
    /\ received = 0 /\ expanded = TRUE /\ series = Gone
    /\ socket = "connecting" /\ retryNoted = FALSE /\ retryDue = FALSE /\ drops = 0

-----------------------------------------------------------------------------
\* The timers the entries of a list know of.
Known(list) == {<<j, list[j].timer>> : j \in {i \in Jobs : list[i] # Gone}}

\* The cleanup of the effect on the list runs with the list as it was.
Cleared(timers) == timers \ Known(jobs)

\* Mutant: the timer is set and not kept in the status.
StatusUnkept(m, text) == [visible |-> TRUE, msg |-> m, text |-> text, timer |-> Gone]
Status(m, text) == [visible |-> TRUE, msg |-> m, text |-> text, timer |-> m]

\* handleJobStatusMessage: the job's timer is cleared, its status replaced.
Message(j, text) ==
    /\ received < MaxMessages /\ received' = received + 1
    /\ jobs' = [jobs EXCEPT ![j] = Status(received + 1, text)]
    /\ hideTimers' = Cleared(hideTimers) \cup {<<j, received + 1>>}

\* handleWebSocketMessage: a message with a job's id, or an overlay's progress.
Receive(j) ==
    /\ socket = "open"
    /\ \E text \in Texts : Message(j, text)
    /\ UNCHANGED <<expanded, series, connection>>

\* The timeout: the job leaves the list.
HideJob(j, m) ==
    /\ <<j, m>> \in hideTimers
    /\ jobs' = [jobs EXCEPT ![j] = Gone]
    /\ hideTimers' = Cleared(hideTimers) \ {<<j, m>>}
    /\ UNCHANGED <<received, expanded, series, connection>>

\* The panel lists the jobs that are visible.
Shown == {j \in Jobs : jobs[j] # Gone /\ jobs[j].visible}

CloseJob(j) ==
    /\ j \in Shown /\ expanded
    /\ jobs' = [jobs EXCEPT ![j].visible = FALSE, ![j].timer = Gone]
    /\ hideTimers' = Cleared(hideTimers)
    /\ UNCHANGED <<received, expanded, series, connection>>
ToggleStatusPanel ==
    /\ Shown # {} /\ expanded' = ~expanded
    /\ UNCHANGED <<jobs, hideTimers, received, series, connection>>

-----------------------------------------------------------------------------
(* Messages simulated on localhost                                         *)

SimulateMessage(j) ==
    /\ Lovable /\ Message(j, "text")
    /\ UNCHANGED <<expanded, series, connection>>
TestIndicator(j) ==
    /\ Lovable /\ Message(j, "stages")
    /\ UNCHANGED <<expanded, series, connection>>
\* simulateProgressUpdate: a message a second until the progress is complete.
SimulateProgress(j) ==
    /\ Lovable /\ series = Gone /\ jobs[j] = Gone
    /\ series' = j
    /\ UNCHANGED <<jobs, hideTimers, received, expanded, connection>>
SeriesTick ==
    /\ series # Gone /\ Message(series, "text")
    /\ series' \in {series, Gone}
    /\ UNCHANGED <<expanded, connection>>

-----------------------------------------------------------------------------
(* The web socket                                                          *)

Open ==
    /\ socket = "connecting" /\ socket' = "open"
    /\ retryNoted' = FALSE /\ retryDue' = FALSE
    /\ UNCHANGED <<jobs, hideTimers, received, expanded, series, drops>>
\* onclose, of an open connection or of one that failed to open.
Drop ==
    /\ socket # "closed" /\ drops < MaxDrops /\ drops' = drops + 1
    /\ socket' = "closed"
    /\ IF retryNoted THEN UNCHANGED <<retryNoted, retryDue>>
                     ELSE retryNoted' = TRUE /\ retryDue' = TRUE
    /\ UNCHANGED <<jobs, hideTimers, received, expanded, series>>
\* The timeout has fired and stays noted until a connection opens.
Retry ==
    /\ retryDue /\ retryDue' = FALSE
    /\ socket' = IF socket = "open" THEN "open" ELSE "connecting"
    /\ UNCHANGED <<jobs, hideTimers, received, expanded, series, retryNoted, drops>>

-----------------------------------------------------------------------------
Next ==
    \/ \E j \in Jobs : Receive(j) \/ CloseJob(j)
                       \/ SimulateMessage(j) \/ TestIndicator(j) \/ SimulateProgress(j)
    \/ \E j \in Jobs, m \in Messages : HideJob(j, m)
    \/ ToggleStatusPanel \/ SeriesTick \/ Open \/ Drop \/ Retry

\* Timers fire, a series goes on, a connection opens or fails.
Goes == \/ \E j \in Jobs, m \in Messages : HideJob(j, m)
        \/ SeriesTick
Connects == Open \/ Retry

Spec == Init /\ [][Next]_vars /\ WF_vars(Goes) /\ WF_vars(Connects)

-----------------------------------------------------------------------------
\* A timer that is pending belongs to the message its job shows: no message
\* is taken off the list, early, by the timer of one it replaced, or of one
\* that was closed.
TimersAreCurrent ==
    \A t \in hideTimers : t[1] \in Shown /\ jobs[t[1]].msg = t[2]
=============================================================================
