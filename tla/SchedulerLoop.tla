--------------------------- MODULE SchedulerLoop ---------------------------
(***************************************************************************)
(* The loop of one destination (run_scheduler_loop, routes/scheduler.py)   *)
(* with one schedule on its stack: the tick that turns events and time     *)
(* triggers into blocks of instructions, the queue they go through, the    *)
(* wait state, and the instructions that act on the loop itself.           *)
(*                                                                         *)
(* The loop is one coroutine.  Between two of its sleeps it makes many     *)
(* calls that other threads get in between of: each pop of an event takes  *)
(* and gives back the lock under which requests, workers and other loops   *)
(* throw events.  So a tick is several steps here: one per trigger,        *)
(* one per block pushed, one for the urgent events.  What touches only the *)
(* queue and the context of the loop is one step.                          *)
(*                                                                         *)
(* Time is abstract: a time trigger may fire in any tick, a wait may be    *)
(* over at any look, a delayed event may become active and any event may   *)
(* expire at any moment (EventStore has the clock, and the state file).    *)
(***************************************************************************)
EXTENDS InstructionQueue

CONSTANTS
  TimeTriggers,  \* the date and day_of_week triggers of the schedule, in order
  EventTriggers, \* its event triggers, in order
  FinalActions,  \* what its final_actions do
  ThrownKeys,    \* the events that other threads throw
  MaxThrows,     \* bound: other threads throw no more after so many events
  MaxFirings     \* bound: how often time triggers fire

(* What an instruction does to the loop: nothing, start a wait, unload the *)
(* schedule, or terminate in one of the three modes.                       *)
Modes == {"normal", "immediate", "block"}
Act == {"other", "wait", "unload"} \union Modes

TimeTrigger == [block : Seq(Act), important : BOOLEAN, urgent : BOOLEAN]

(* The event thrown by a terminate instruction is named by its mode:       *)
(* __terminate__, __terminate_immediate__ and __exit_block__.              *)
ASSUME TimeTriggersAssumption == TimeTriggers \in Seq(TimeTrigger)
ASSUME EventTriggersAssumption ==
  EventTriggers \in Seq([key : ThrownKeys \ Modes, block : Seq(Act),
                         important : BOOLEAN, urgent : BOOLEAN])
ASSUME FinalActionsAssumption == FinalActions \in Seq(Act \ Modes)

(* Deviation: off by one. *)
TriggersButLast == Len(TimeTriggers) + Len(EventTriggers) - 1

(* A schedule without triggers is not run in the loop.                     *)
Triggers == Len(TimeTriggers) + Len(EventTriggers)

ASSUME TriggersAssumption == Triggers > 0
ASSUME BoundsAssumption == MaxThrows \in Nat /\ MaxFirings \in Nat

VARIABLES
  pc,        \* where the loop is in its iteration
  scanned,   \* triggers looked at in this tick
  matched,   \* trigger data of this tick that were not pushed yet
  queue,     \* the instruction queue of the destination
  wait,      \* "wait_until" in the context: absent, ahead or reached
  event,     \* the event in _event of the context, or 0
  pending,   \* the events of the destination in active_events
  thrown,    \* events thrown so far
  firings,   \* time triggers fired so far
  protected  \* prevent_unload of the schedule

vars == <<pc, scanned, matched, queue, wait, event, pending, thrown,
          firings, protected>>

(* An instruction carries the event that brought it, 0 for those of time   *)
(* triggers and final actions; the code does not keep that.                *)
Instruction == [act : Act, fromEvent : BOOLEAN, owner : Nat]
Entry == [instr : Instruction, important : BOOLEAN, urgent : BOOLEAN]

(* An event carries the owner of the instruction that threw it.            *)
Pending == [key : ThrownKeys \union Modes, id : Nat \ {0}, delayed : BOOLEAN, by : Nat]

TypeOK ==
  /\ pc \in {"top", "scan", "push", "urgent", "exec", "ended"}
  /\ scanned \in 0 .. Triggers
  /\ matched \in Seq([block : Seq(Instruction), important : BOOLEAN, urgent : BOOLEAN])
  /\ queue \in Seq(Entry)
  /\ wait \in {"absent", "ahead", "reached"}
  /\ event \in Nat
  /\ pending \subseteq Pending
  /\ thrown \in Nat
  /\ firings \in 0 .. MaxFirings
  /\ protected \in BOOLEAN

-----------------------------------------------------------------------------

Init ==
  /\ pc = "top"
  /\ scanned = 0
  /\ matched = <<>>
  /\ queue = <<>>
  /\ wait = "absent"
  /\ event = 0
  /\ pending = {}
  /\ thrown = 0
  /\ firings = 0
  /\ protected \in BOOLEAN

(* throw_event by another thread. *)
Throw(key, delayed) ==
  /\ thrown < MaxThrows
  /\ pc # "ended"  \* no one hears them then
  /\ thrown' = thrown + 1
  /\ pending' = pending \union
       {[key |-> key, id |-> thrown + 1, delayed |-> delayed, by |-> 0]}
  /\ UNCHANGED <<pc, scanned, matched, queue, wait, event, firings, protected>>

Activate(p) ==
  /\ p.delayed
  /\ pending' = (pending \ {p}) \union {[p EXCEPT !.delayed = FALSE]}
  /\ UNCHANGED <<pc, scanned, matched, queue, wait, event, thrown, firings, protected>>

(* check_all_expired_events, by this loop or another. *)
Expire(p) ==
  /\ ~p.delayed
  /\ pending' = pending \ {p}
  /\ UNCHANGED <<pc, scanned, matched, queue, wait, event, thrown, firings, protected>>

-----------------------------------------------------------------------------
(* The tick *)

BlockOf(acts, owner) ==
  [i \in 1 .. Len(acts) |-> [act |-> acts[i], fromEvent |-> FALSE, owner |-> owner]]

TriggerData(trigger, owner) ==
  [block |-> BlockOf(trigger.block, owner),
   important |-> trigger.important, urgent |-> trigger.urgent]

StartTick ==
  /\ pc = "top"
  /\ scanned' = 0
  /\ pc' = "scan"
  /\ UNCHANGED <<matched, queue, wait, event, pending, thrown, firings, protected>>

(* An iteration within SCHEDULER_TICK_INTERVAL of the last tick has none. *)
SkipTick ==
  /\ pc = "top"
  /\ pc' = "exec"
  /\ UNCHANGED <<scanned, matched, queue, wait, event, pending, thrown,
                 firings, protected>>

(* resolve_schedule looks at the time triggers first. *)
ScanTimeTrigger ==
  /\ pc = "scan" /\ scanned < Len(TimeTriggers)
  /\ scanned' = scanned + 1
  /\ \/ /\ firings < MaxFirings
        /\ firings' = firings + 1
        /\ matched' = Append(matched, TriggerData(TimeTriggers[scanned + 1], 0))
     \/ UNCHANGED <<firings, matched>>
  /\ UNCHANGED <<pc, queue, wait, event, pending, thrown, protected>>

(* What pop_next_event returns for the key, if anything. *)
Available(key) == {p \in pending : p.key = key /\ ~p.delayed}

First(events) == CHOOSE p \in events : \A r \in events : p.id <= r.id

(* One event trigger: the event it pops goes into _event of the context at *)
(* once, whether or not its instructions will be queued.                   *)
ScanEventTrigger ==
  /\ pc = "scan" /\ Len(TimeTriggers) <= scanned /\ scanned < Triggers
  /\ scanned' = scanned + 1
  /\ LET trigger == EventTriggers[scanned + 1 - Len(TimeTriggers)]
         p == First(Available(trigger.key))
     IN IF Available(trigger.key) = {}
        THEN UNCHANGED <<pending, event, matched>>
        ELSE /\ pending' = pending \ {p}
             /\ event' = p.id
             /\ matched' = Append(matched, TriggerData(trigger, p.id))
  /\ UNCHANGED <<pc, queue, wait, thrown, firings, protected>>

(* Final actions are for ticks in which nothing matched and no delayed     *)
(* event is to come.                                                       *)
NothingToCome == matched = <<>> /\ \A p \in pending : ~p.delayed

EndScan ==
  /\ pc = "scan" /\ scanned = Triggers
  /\ matched' = IF NothingToCome /\ FinalActions # <<>>
                THEN <<TriggerData([block |-> FinalActions, important |-> FALSE,
                                    urgent |-> FALSE], 0)>>
                ELSE matched
  /\ pc' = "push"
  /\ UNCHANGED <<scanned, queue, wait, event, pending, thrown, firings, protected>>

(* Blocks that are neither urgent nor important are skipped during a wait. *)
Skipped(t) == wait # "absent" /\ ~t.urgent /\ ~t.important

Push ==
  /\ pc = "push" /\ matched # <<>>
  /\ queue' = IF Skipped(Head(matched)) THEN queue
              ELSE PushBlock(queue, Head(matched).block, Head(matched).important,
                             Head(matched).urgent)
  /\ matched' = Tail(matched)
  /\ UNCHANGED <<pc, scanned, wait, event, pending, thrown, firings, protected>>

EndPush ==
  /\ pc = "push" /\ matched = <<>>
  /\ pc' = "urgent"
  /\ UNCHANGED <<scanned, matched, queue, wait, event, pending, thrown,
                 firings, protected>>

(* Deviation: the instruction of the event is not marked as such. *)
UrgentBlockUnmarked(p) == <<[act |-> p.key, owner |-> 0]>>

UrgentBlock(p) == <<[act |-> p.key, fromEvent |-> TRUE, owner |-> 0]>>

(* Deviation: the block is pushed as important only. *)
PushUrgentImportant(q, p) == PushBlock(q, UrgentBlock(p), TRUE, FALSE)

PushUrgent(q, p) == PushBlock(q, UrgentBlock(p), TRUE, TRUE)

(* check_urgent_events takes the first event of the first key that has     *)
(* one; it makes a terminate instruction that throws nothing again.        *)
UrgentOrder == <<"normal", "immediate", "block">>

TakeUrgent(p) ==
  /\ pc = "urgent"
  /\ \E k \in 1 .. 3 :
       /\ Available(UrgentOrder[k]) # {}
       /\ \A j \in 1 .. k - 1 : Available(UrgentOrder[j]) = {}
       /\ p = First(Available(UrgentOrder[k]))
  /\ pending' = pending \ {p}
  /\ queue' = PushUrgent(queue, p)
  /\ pc' = "exec"
  /\ UNCHANGED <<scanned, matched, wait, event, thrown, firings, protected>>

NoUrgent ==
  /\ pc = "urgent"
  /\ \A mode \in Modes : Available(mode) = {}
  /\ pc' = "exec"
  /\ UNCHANGED <<scanned, matched, queue, wait, event, pending, thrown,
                 firings, protected>>

-----------------------------------------------------------------------------
(* The execution step *)

(* Deviation: a wait that is not over holds nothing back. *)
RunnableAlways == queue # <<>>

(* Whether there is an instruction to run: any one when there is no wait,  *)
(* or it is over by now, else only an urgent one, which then ends it.      *)
Runnable == IF wait = "ahead" THEN UrgentAt(queue) # {} ELSE queue # <<>>

HasUrgent == wait = "ahead" /\ UrgentAt(queue) # {}

Taken == IF HasUrgent THEN queue[UrgentIndex(queue)] ELSE Head(queue)

Rest == IF HasUrgent THEN PopUrgent(queue) ELSE Tail(queue)

(* Deviation: _event goes after every instruction. *)
EventAfterAlways(act, left) == IF act = "wait" THEN event ELSE 0

(* _event is removed after an instruction that leaves the queue empty,     *)
(* unless it began a wait.                                                 *)
EventAfter(act, left) == IF act # "wait" /\ left = <<>> THEN 0 ELSE event

(* Deviation: a wait instruction stays at the head of the queue. *)
EndIterationWaitStays(e, left, waitState) ==
  /\ queue' = IF e.instr.act = "wait" THEN <<e>> \o left ELSE left
  /\ wait' = waitState
  /\ event' = EventAfter(e.instr.act, left)
  /\ pc' = "top"
  /\ UNCHANGED <<scanned, matched, firings, protected>>

(* The end of an iteration in which e was run, with this left of the queue *)
(* and the wait state.                                                     *)
EndIteration(e, left, waitState) ==
  /\ queue' = left
  /\ wait' = waitState
  /\ event' = EventAfter(e.instr.act, left)
  /\ pc' = "top"
  /\ UNCHANGED <<scanned, matched, firings, protected>>

Stays == UNCHANGED <<pending, thrown>>

(* The loop ends with the last schedule or by stop_scheduler; both clear   *)
(* the queue.                                                              *)
EndLoop(eventLeft) ==
  /\ pc' = "ended"
  /\ queue' = <<>>
  /\ wait' = "absent"
  /\ event' = eventLeft
  /\ UNCHANGED <<scanned, matched, pending, thrown, firings, protected>>

Other(e, rest) ==
  /\ e.instr.act = "other" \/ (e.instr.act = "unload" /\ protected)
  /\ EndIteration(e, rest, "absent")
  /\ Stays

(* handle_wait, called when no wait is in the context. *)
Wait(e, rest) ==
  /\ e.instr.act = "wait"
  /\ EndIteration(e, rest, "ahead")
  /\ Stays

Unload(e, rest) ==
  /\ e.instr.act = "unload" /\ ~protected
  /\ EndLoop(event)

(* handle_terminate.  One that a schedule contains throws the event of its *)
(* mode; block mode also leaves the block.                                 *)
ThrowUrgent(e) ==
  /\ thrown' = thrown + 1
  /\ pending' = pending \union {[key |-> e.instr.act, id |-> thrown + 1,
                                 delayed |-> FALSE, by |-> e.instr.owner]}

Terminate(e, rest) ==
  /\ e.instr.act \in Modes /\ ~e.instr.fromEvent
  /\ ThrowUrgent(e)
  /\ EndIteration(e, IF e.instr.act = "block" THEN RemoveNonImportant(rest) ELSE rest,
                  "absent")

FinalActsHave(act) == \E i \in 1 .. Len(FinalActions) : FinalActions[i] = act

(* The final actions run one after the other within this one instruction;  *)
(* what they return is not looked at.                                      *)
TerminateNormal(e, rest) ==
  /\ e.instr.act = "normal" /\ e.instr.fromEvent
  /\ IF FinalActsHave("unload") /\ ~protected
     THEN EndLoop(0)
     ELSE /\ EndIteration(e, rest, IF FinalActsHave("wait") THEN "ahead" ELSE "absent")
          /\ Stays

(* The queue is cleared, but nothing unloads the schedule. *)
TerminateImmediate(e, rest) ==
  /\ e.instr.act = "immediate" /\ e.instr.fromEvent
  /\ IF protected
     THEN EndLoop(0)
     ELSE EndIteration(e, <<>>, "absent") /\ Stays

ExitBlock(e, rest) ==
  /\ e.instr.act = "block" /\ e.instr.fromEvent
  /\ EndIteration(e, RemoveNonImportant(rest), "absent")
  /\ Stays

Run(e, rest) ==
  \/ Other(e, rest)
  \/ Wait(e, rest)
  \/ Unload(e, rest)
  \/ Terminate(e, rest)
  \/ TerminateNormal(e, rest)
  \/ TerminateImmediate(e, rest)
  \/ ExitBlock(e, rest)

Exec == pc = "exec" /\ Runnable /\ Run(Taken, Rest)

Idle ==
  /\ pc = "exec" /\ ~Runnable
  /\ pc' = "top"
  /\ wait' = IF wait = "reached" THEN "absent" ELSE wait
  /\ UNCHANGED <<scanned, matched, queue, event, pending, thrown, firings, protected>>

(* An iteration reads the time once, when it begins. *)
WaitElapses ==
  /\ pc = "top" /\ wait = "ahead"
  /\ wait' = "reached"
  /\ UNCHANGED <<pc, scanned, matched, queue, event, pending, thrown, firings, protected>>

Tick ==
  \/ ScanTimeTrigger
  \/ ScanEventTrigger
  \/ EndScan
  \/ Push
  \/ EndPush
  \/ \E p \in pending : TakeUrgent(p)
  \/ NoUrgent

Environment ==
  \/ \E key \in ThrownKeys, delayed \in BOOLEAN : Throw(key, delayed)
  \/ \E p \in pending : Activate(p) \/ Expire(p)
  \/ WaitElapses

Next == StartTick \/ SkipTick \/ Tick \/ Exec \/ Idle \/ Environment

Spec == Init /\ [][Next]_vars

(* The coroutine goes on until it sleeps, sleeps for a tenth of a second,  *)
(* and makes a tick every two seconds; waits are finite.                   *)
LiveSpec ==
  /\ Spec
  /\ WF_vars(Tick) /\ WF_vars(Exec) /\ WF_vars(Idle) /\ WF_vars(SkipTick)
  /\ SF_vars(StartTick)
  /\ SF_vars(WaitElapses)

-----------------------------------------------------------------------------
(* Properties *)

(* An instruction that an event brought never runs without event data in   *)
(* the context: _event is not cleaned up while one is still queued or on   *)
(* its way to the queue, whatever other blocks, waits and urgent events    *)
(* came in between.                                                        *)
EventDataIsThere ==
  /\ \A i \in 1 .. Len(queue) : queue[i].instr.owner # 0 => event # 0
  /\ \A i \in 1 .. Len(matched) : \A j \in 1 .. Len(matched[i].block) :
       matched[i].block[j].owner # 0 => event # 0

(* An urgent event that check_urgent_events takes out of the store is      *)
(* acted on in the same iteration, before anything else runs: its          *)
(* instruction never stays in the queue, where an unload, a stop or        *)
(* another block could come first.                                         *)
UrgentEventsActAtOnce ==
  \A i \in 1 .. Len(queue) :
    queue[i].instr.fromEvent => i = 1 /\ pc = "exec" /\ queue[i].urgent

(* A wait holds back everything but urgent instructions: while it lasts    *)
(* and none is queued, the queue only grows, the event data stays, and     *)
(* only time ends the wait.                                                *)
WaitHolds ==
  [][wait = "ahead" /\ pc = "exec" /\ UrgentAt(queue) = {} =>
       /\ queue' = queue
       /\ event' = event
       /\ wait' = "ahead"]_vars

(* An important instruction that is queued is run in the end, or the       *)
(* queue is cleared by an unload or an immediate termination.              *)
ImportantLeaves ==
  \A o \in 1 .. MaxThrows :
    (\E i \in ImportantAt(queue) : queue[i].instr.owner = o)
      ~> ~(\E i \in ImportantAt(queue) : queue[i].instr.owner = o)

(* Every event that is active and that the schedule has a trigger for, or  *)
(* that is one of the urgent events, leaves the store.                     *)
Heard(key) ==
  key \in Modes \/ \E k \in 1 .. Len(EventTriggers) : EventTriggers[k].key = key

EventsAreHeard ==
  \A id \in 1 .. MaxThrows :
    (\E p \in pending : p.id = id /\ ~p.delayed /\ Heard(p.key))
      ~> (pc = "ended" \/ ~\E p \in pending : p.id = id)

(* docs/scheduler_event_context.md: each instruction sees the data of the  *)
(* event that triggered it, even if several are processed in one cycle.    *)
EventIsOwn == [][Exec /\ Taken.instr.owner # 0 => event = Taken.instr.owner]_vars

=============================================================================
