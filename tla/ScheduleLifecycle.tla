------------------------- MODULE ScheduleLifecycle -------------------------
(* The schedules of one destination: the stacks of schedules and contexts, *)
(* the state, the entry in running_schedulers, the coroutines that run the *)
(* schedules, and the state file.  Threads that serve requests load,       *)
(* unload, start, stop, pause and unpause while a coroutine runs           *)
(* instructions, some of which unload or stop as well; the server may      *)
(* restart at any time.  What the instructions do otherwise is             *)
(* SchedulerLoop's.                                                        *)
EXTENDS Naturals, Sequences, SequencesExt, FiniteSets

CONSTANTS
  Requests,    \* threads that serve requests
  Loops,       \* names for coroutines; one that is done is used again
  Schedules,
  Protected,   \* the schedules with prevent_unload
  Bare,        \* the schedules without triggers
  SelfUnload,  \* whether schedules contain unload and terminate instructions
  MaxStack,    \* bound on the height of the stacks when a load begins
  Nothing      \* no coroutine, no schedule

ASSUME ThreadsAssumption == Requests \intersect Loops = {}
ASSUME SchedulesAssumption == Protected \subseteq Schedules /\ Bare \subseteq Schedules
ASSUME SelfUnloadAssumption == SelfUnload \in BOOLEAN
ASSUME MaxStackAssumption == MaxStack \in Nat \ {0}

VARIABLES
  schedules,  \* the stack of schedules, the top one last
  contexts,   \* the stack of contexts; a context goes by its schedule
  state,
  disk,       \* the state file
  entry,      \* in running_schedulers
  pc,         \* where each thread and coroutine is
  inHand,     \* the schedule, context or coroutine that it works with
  after,      \* where it goes on when its instruction is over
  cancelled,  \* coroutines whose future was cancelled
  abandoned   \* coroutines whose event loop was stopped

memory == <<schedules, contexts, state>>
vars == <<memory, disk, entry, pc, inHand, after, cancelled, abandoned>>

Threads == Requests \union Loops
States == {"stopped", "running", "paused"}
Placeholder == "placeholder"  \* the entry before it has its future

ASSUME EntriesAssumption ==
  Nothing \notin Loops /\ Placeholder \notin Loops /\ Nothing # Placeholder

Shared ==
  {"unload", "pop context", "stop", "stop pop", "stop save", "store", "store unloaded"}
RequestPlaces == Shared \union
  {"idle", "push", "first context", "push context", "loaded", "verify", "start",
   "start state", "spawn", "register"}
LoopPlaces == Shared \union
  {"done", "created", "asleep", "check", "bare", "end", "end load",
   "end save"}

TypeOK ==
  /\ schedules \in Seq(Schedules)
  /\ contexts \in Seq(Schedules)
  /\ state \in States
  /\ disk \in [schedules : Seq(Schedules), contexts : Seq(Schedules), state : States]
  /\ entry \in Loops \union {Nothing, Placeholder}
  /\ \A r \in Requests : pc[r] \in RequestPlaces
  /\ \A l \in Loops : pc[l] \in LoopPlaces
  /\ inHand \in [Threads -> Schedules \union Loops \union {Nothing}]
  /\ \A r \in Requests : after[r] \in {"idle", "loaded"}
  /\ \A l \in Loops : after[l] \in {"asleep", "check", "bare"}
  /\ cancelled \subseteq Loops
  /\ abandoned \subseteq Loops

-----------------------------------------------------------------------------

Goto(t, place) == pc' = [pc EXCEPT ![t] = place]

Hold(t, x) == inHand' = [inHand EXCEPT ![t] = x]

(* A coroutine that is done is forgotten. *)
Done(l) ==
  /\ Goto(l, "done")
  /\ Hold(l, Nothing)
  /\ cancelled' = cancelled \ {l}
  /\ abandoned' = abandoned \ {l}

(* save_scheduler_state after a step in memory.                            *)
Save == disk' = [schedules |-> schedules', contexts |-> contexts', state |-> state']

(* load_scheduler_state puts the file in the place of what is in memory.   *)
LoadState ==
  /\ schedules' = disk.schedules
  /\ contexts' = disk.contexts
  /\ state' = disk.state
  /\ UNCHANGED disk

(* update_scheduler_state of the state alone.                              *)
SetState(x) ==
  /\ state' = x
  /\ UNCHANGED <<schedules, contexts>>
  /\ Save

NoInstruction == [t \in Threads |-> IF t \in Requests THEN "idle" ELSE "asleep"]

(* Nothing was ever loaded. *)
Init ==
  /\ schedules = <<>> /\ contexts = <<>> /\ state = "stopped"
  /\ disk = [schedules |-> <<>>, contexts |-> <<>>, state |-> "stopped"]
  /\ entry = Nothing
  /\ pc = [t \in Threads |-> IF t \in Requests THEN "idle" ELSE "done"]
  /\ inHand = [t \in Threads |-> Nothing]
  /\ after = NoInstruction
  /\ cancelled = {} /\ abandoned = {}

(* An initial or final action: an unload or another instruction.           *)
BeginAction(t, next) ==
  /\ after' = [after EXCEPT ![t] = next]
  /\ \/ Goto(t, "store")
     \/ SelfUnload /\ Goto(t, "unload")

-----------------------------------------------------------------------------
(* Unload and stop, by a request or by an instruction *)

(* A request answers; an instruction, which a request may run as well when *)
(* it pushes a schedule with initial actions, goes on to what              *)
(* run_instruction does at its end.                                        *)
Return(t, place) == Goto(t, IF after[t] = "idle" THEN "idle" ELSE place)

CanUnload == schedules # <<>> /\ Last(schedules) \notin Protected

RefuseUnload(t) ==
  /\ pc[t] = "unload" /\ ~CanUnload
  /\ Return(t, "store")
  /\ UNCHANGED <<memory, disk, entry, inHand, after, cancelled, abandoned>>

PopSchedule(t) ==
  /\ pc[t] = "unload" /\ CanUnload
  /\ schedules' = Front(schedules)
  /\ Goto(t, "pop context")
  /\ UNCHANGED <<contexts, state, disk, entry, inHand, after, cancelled, abandoned>>

PopContext(t) ==
  /\ pc[t] = "pop context"
  /\ contexts' = IF contexts = <<>> THEN <<>> ELSE Front(contexts)
  /\ UNCHANGED <<schedules, state>>
  /\ Save
  /\ IF schedules = <<>> THEN Goto(t, "stop") ELSE Return(t, "store unloaded")
  /\ UNCHANGED <<entry, inHand, after, cancelled, abandoned>>

(* The future is neither done nor cancelled. *)
Active(l) == l \in Loops /\ pc[l] # "done" /\ l \notin cancelled

(* Deviation: the entry is dropped but its future not cancelled. *)
StopCancelNothing(t) ==
  /\ pc[t] = "stop"
  /\ Goto(t, "stop pop")
  /\ UNCHANGED <<memory, disk, entry, inHand, after, cancelled, abandoned>>

StopCancel(t) ==
  /\ pc[t] = "stop"
  /\ cancelled' = cancelled \union {l \in {entry} : Active(l)}
  /\ Goto(t, "stop pop")
  /\ UNCHANGED <<memory, disk, entry, inHand, after, abandoned>>

StopPop(t) ==
  /\ pc[t] = "stop pop"
  /\ entry' = Nothing
  /\ Goto(t, "stop save")
  /\ UNCHANGED <<memory, disk, inHand, after, cancelled, abandoned>>

(* The event loop is stopped, too, unless a destination, which may be      *)
(* another one, is active or paused; its coroutines are never resumed.     *)
StopSave(t) ==
  /\ pc[t] = "stop save"
  /\ SetState(IF state = "paused" THEN "paused" ELSE "stopped")
  /\ \/ UNCHANGED abandoned
     \/ /\ state # "paused"
        /\ abandoned' = abandoned \union {l \in Loops : pc[l] # "done"}
  /\ Return(t, "store unloaded")
  /\ UNCHANGED <<entry, inHand, after, cancelled>>

-----------------------------------------------------------------------------
(* start_scheduler *)

(* Its except clause: the state is stopped, in memory only. *)
StartFails(r) ==
  /\ state' = "stopped"
  /\ Goto(r, "idle")
  /\ Hold(r, Nothing)

(* A placeholder has no future that could be asked: an exception as well.  *)
StartCheck(r) ==
  /\ pc[r] = "start"
  /\ IF entry = Placeholder \/ Active(entry)
     THEN StartFails(r)
     ELSE Goto(r, "start state") /\ UNCHANGED <<state, inHand>>
  /\ UNCHANGED <<schedules, contexts, disk, entry, after, cancelled, abandoned>>

(* Deviation: the context of the first schedule is left for later. *)
StartWithoutContext(r) ==
  /\ pc[r] = "start state"
  /\ schedules' = IF schedules = <<>> THEN <<inHand[r]>> ELSE schedules
  /\ contexts' = IF contexts = <<>> THEN <<Nothing>> ELSE contexts
  /\ state' = "running"
  /\ Save
  /\ Goto(r, "spawn")
  /\ UNCHANGED <<entry, inHand, after, cancelled, abandoned>>

StartState(r) ==
  /\ pc[r] = "start state"
  /\ schedules' = IF schedules = <<>> THEN <<inHand[r]>> ELSE schedules
  /\ contexts' = IF contexts = <<>> THEN <<Last(schedules')>> ELSE contexts
  /\ state' = "running"
  /\ Save
  /\ Goto(r, "spawn")
  /\ UNCHANGED <<entry, inHand, after, cancelled, abandoned>>

(* Only the top of the stack is started, which may be gone by now. *)
SpawnFails(r) ==
  /\ pc[r] = "spawn" /\ schedules = <<>>
  /\ entry' = Placeholder
  /\ StartFails(r)
  /\ UNCHANGED <<schedules, contexts, disk, after, cancelled, abandoned>>

Unused(l) == pc[l] = "done" /\ entry # l /\ \A t \in Threads : inHand[t] # l

Spawn(r, l) ==
  /\ pc[r] = "spawn" /\ schedules # <<>> /\ Unused(l)
  /\ entry' = Placeholder
  /\ pc' = [pc EXCEPT ![r] = "register", ![l] = "created"]
  /\ inHand' = [inHand EXCEPT ![r] = l, ![l] = Last(schedules)]
  /\ UNCHANGED <<memory, disk, after, cancelled, abandoned>>

(* Deviation: the entry never gets its future. *)
RegisterNothing(r) ==
  /\ pc[r] = "register"
  /\ Goto(r, "idle")
  /\ Hold(r, Nothing)
  /\ UNCHANGED <<memory, disk, entry, after, cancelled, abandoned>>

Register(r) ==
  /\ pc[r] = "register"
  /\ IF entry = Nothing
     THEN StartFails(r) /\ UNCHANGED entry
     ELSE /\ entry' = inHand[r]
          /\ Goto(r, "idle")
          /\ Hold(r, Nothing)
          /\ UNCHANGED state
  /\ UNCHANGED <<schedules, contexts, disk, after, cancelled, abandoned>>

-----------------------------------------------------------------------------
(* Requests *)

(* api_load_schedule begins with the file. *)
BeginLoad(r, s) ==
  /\ pc[r] = "idle"
  /\ Len(disk.schedules) < MaxStack /\ Len(disk.contexts) < MaxStack
  /\ LoadState
  /\ Goto(r, "push")
  /\ Hold(r, s)
  /\ UNCHANGED <<entry, after, cancelled, abandoned>>

PushSchedule(r) ==
  /\ pc[r] = "push"
  /\ Len(schedules) <= MaxStack /\ Len(contexts) <= MaxStack
  /\ schedules' = Append(schedules, inHand[r])
  /\ Goto(r, IF contexts = <<>> THEN "first context" ELSE "push context")
  /\ UNCHANGED <<contexts, state, disk, entry, inHand, after, cancelled, abandoned>>

(* The new context inherits the variables of the one below.  An initial    *)
(* action, if there is one, runs in the thread of the request.             *)
PushContext(r) ==
  /\ pc[r] \in {"first context", "push context"}
  /\ contexts' = IF pc[r] = "first context" THEN <<inHand[r]>> ELSE Append(contexts, inHand[r])
  /\ UNCHANGED <<schedules, state>>
  /\ Save
  /\ \/ Goto(r, "loaded") /\ UNCHANGED after
     \/ BeginAction(r, "loaded")
  /\ UNCHANGED <<entry, inHand, cancelled, abandoned>>

(* The end of load_schedule_on_stack: what runs already is to pick the new *)
(* schedule up.                                                            *)
CheckRunning(r) ==
  /\ pc[r] = "loaded"
  /\ IF entry # Nothing /\ state = "running"
     THEN Goto(r, "idle") /\ Hold(r, Nothing)
     ELSE Goto(r, "start") /\ UNCHANGED inHand
  /\ UNCHANGED <<memory, disk, entry, after, cancelled, abandoned>>

BeginStart(r, s) ==
  /\ pc[r] = "idle"
  /\ Goto(r, "start")
  /\ Hold(r, s)
  /\ UNCHANGED <<memory, disk, entry, after, cancelled, abandoned>>

(* A start without a schedule is one of what is in the file. *)
BeginStartSaved(r) ==
  /\ pc[r] = "idle"
  /\ LoadState
  /\ IF disk.schedules = <<>>
     THEN UNCHANGED <<pc, inHand>>
     ELSE Goto(r, "start") /\ Hold(r, Last(disk.schedules))
  /\ UNCHANGED <<entry, after, cancelled, abandoned>>

BeginStop(r) ==
  /\ pc[r] = "idle"
  /\ Goto(r, "stop")
  /\ UNCHANGED <<memory, disk, entry, inHand, after, cancelled, abandoned>>

BeginUnload(r) ==
  /\ pc[r] = "idle"
  /\ Goto(r, "unload")
  /\ UNCHANGED <<memory, disk, entry, inHand, after, cancelled, abandoned>>

(* Only the state changes, whether or not a coroutine is there to go on.   *)
Unpause(r) ==
  /\ pc[r] = "idle"
  /\ SetState("running")
  /\ UNCHANGED <<entry, pc, inHand, after, cancelled, abandoned>>

(* With an entry, the file is read back to log what it says. *)
Pause(r) ==
  /\ pc[r] = "idle" /\ state # "paused"
  /\ SetState("paused")
  /\ Goto(r, IF entry = Nothing THEN "idle" ELSE "verify")
  /\ UNCHANGED <<entry, inHand, after, cancelled, abandoned>>

PauseVerify(r) ==
  /\ pc[r] = "verify"
  /\ LoadState
  /\ Goto(r, "idle")
  /\ UNCHANGED <<entry, inHand, after, cancelled, abandoned>>

-----------------------------------------------------------------------------
(* Coroutines *)

(* Those of one event loop take turns at their awaits.  A stopped event    *)
(* loop and its successor have a thread each.                              *)
HasTheThread(l) ==
  \A m \in Loops \ {l} : m \in abandoned \/ pc[m] \in {"created", "asleep", "done"}

Unwound(l) == l \in cancelled \union abandoned

(* The await at the end of an iteration is where a cancellation arrives.   *)
Sleep(l) ==
  /\ Goto(l, IF Unwound(l) THEN "end" ELSE "asleep")
  /\ Hold(l, Nothing)

(* run_scheduler: a schedule unloaded meanwhile is put back on the stack.  *)
(* It runs the initial actions, without an await before the first          *)
(* iteration, and if there are no triggers the final actions, too.         *)
RunScheduler(l) ==
  /\ pc[l] = "created" /\ ~Unwound(l) /\ HasTheThread(l)
  /\ schedules' = IF schedules = <<>> THEN <<inHand[l]>> ELSE schedules
  /\ contexts' = IF contexts = <<>> THEN <<inHand[l]>> ELSE contexts
  /\ LET next == IF Last(schedules') \in Bare THEN "bare" ELSE "check" IN
       \/ Goto(l, next) /\ Hold(l, Nothing) /\ UNCHANGED after
       \/ BeginAction(l, next) /\ Hold(l, Last(contexts'))
  /\ UNCHANGED <<state, disk, entry, cancelled, abandoned>>

NeverRun(l) ==
  /\ pc[l] = "created" /\ Unwound(l)
  /\ Done(l)
  /\ UNCHANGED <<memory, disk, entry, after>>

(* There are no triggers to wait for. *)
EndBare(l) ==
  /\ pc[l] = "bare"
  /\ IF entry = Nothing
     THEN UNCHANGED <<memory, disk, entry>>
     ELSE entry' = Nothing /\ SetState("stopped")
  /\ Done(l)
  /\ UNCHANGED after

(* The first iteration follows at once, the next ones after an await,      *)
(* where a cancelled coroutine may yet be ahead of its cancellation.       *)
AtTop(l) ==
  \/ pc[l] = "check"
  \/ pc[l] = "asleep" /\ l \notin abandoned /\ HasTheThread(l)

(* Deviation: the loop looks at the pause first. *)
EndUnlessPaused(l) ==
  /\ AtTop(l) /\ state # "paused" /\ entry = Nothing
  /\ Goto(l, "end")
  /\ UNCHANGED <<memory, disk, entry, inHand, after, cancelled, abandoned>>

EndUnregistered(l) ==
  /\ AtTop(l) /\ entry = Nothing
  /\ Goto(l, "end")
  /\ UNCHANGED <<memory, disk, entry, inHand, after, cancelled, abandoned>>

(* The stack is read without a look at whether it is empty. *)
EndInError(l) ==
  /\ AtTop(l) /\ entry # Nothing /\ state # "paused"
  /\ schedules = <<>> \/ contexts = <<>>
  /\ Goto(l, "end")
  /\ UNCHANGED <<memory, disk, entry, inHand, after, cancelled, abandoned>>

(* Paused, or there is no tick due and nothing to run. *)
Idle(l) ==
  /\ AtTop(l) /\ entry # Nothing
  /\ Sleep(l)
  /\ UNCHANGED <<memory, disk, entry, after, cancelled, abandoned>>

(* An instruction: one that unloads, or terminates a schedule that cannot  *)
(* be unloaded by a stop of the scheduler, or another one, of which only   *)
(* the end matters here.                                                   *)
BeginInstruction(l) ==
  /\ AtTop(l) /\ entry # Nothing /\ state # "paused"
  /\ schedules # <<>> /\ contexts # <<>>
  /\ Hold(l, Last(contexts))
  /\ \/ Goto(l, "store")
     \/ SelfUnload /\ Goto(l, IF Last(schedules) \in Protected THEN "stop" ELSE "unload")
  /\ UNCHANGED <<memory, disk, entry, after, cancelled, abandoned>>

(* The end of run_instruction: the context it worked with becomes the top  *)
(* of the stack.  A push saves once more after its initial actions.        *)
Store(t) ==
  /\ pc[t] \in {"store", "store unloaded"}
  /\ UNCHANGED <<schedules, state>>
  /\ contexts' = IF contexts = <<>> THEN <<>> ELSE Append(Front(contexts), inHand[t])
  /\ IF contexts = <<>> /\ t \in Loops THEN UNCHANGED disk ELSE Save
  /\ CASE after[t] = "loaded" -> Goto(t, "loaded") /\ UNCHANGED inHand
       [] after[t] \in {"check", "bare"} -> Goto(t, after[t]) /\ Hold(t, Nothing)
       [] after[t] = "asleep" /\ (pc[t] = "store" \/ schedules # <<>>) -> Sleep(t)
       [] OTHER -> Goto(t, "end") /\ Hold(t, Nothing)
  /\ after' = [after EXCEPT ![t] = NoInstruction[t]]
  /\ UNCHANGED <<entry, cancelled, abandoned>>

Cancel(l) ==
  /\ pc[l] = "asleep" /\ Unwound(l)
  /\ l \in abandoned \/ HasTheThread(l)
  /\ Goto(l, "end")
  /\ UNCHANGED <<memory, disk, entry, inHand, after, cancelled, abandoned>>

(* The finally clause of run_scheduler_loop: unless there is an entry,     *)
(* which may be a new one, it reads the file and writes that the           *)
(* destination is stopped.                                                 *)
Finally(l) ==
  /\ pc[l] = "end"
  /\ IF entry = Nothing
     THEN Goto(l, "end load") /\ UNCHANGED <<inHand, cancelled, abandoned>>
     ELSE Done(l)
  /\ UNCHANGED <<memory, disk, entry, after>>

FinallyLoad(l) ==
  /\ pc[l] = "end load"
  /\ LoadState
  /\ Goto(l, "end save")
  /\ UNCHANGED <<entry, inHand, after, cancelled, abandoned>>

FinallySave(l) ==
  /\ pc[l] = "end save"
  /\ SetState("stopped")
  /\ Done(l)
  /\ UNCHANGED <<entry, after>>

-----------------------------------------------------------------------------

(* The server dies and comes back: initialize_schedulers_from_disk resumes *)
(* what was running, without initial actions.                              *)
Resumes == disk.schedules # <<>> /\ disk.state = "running"

Restart(l) ==
  /\ schedules' = disk.schedules
  /\ contexts' = IF disk.schedules = <<>> THEN <<>> ELSE disk.contexts
  /\ state' = IF disk.schedules = <<>> THEN "stopped" ELSE disk.state
  /\ entry' = IF Resumes THEN l ELSE Nothing
  /\ pc' = [t \in Threads |-> CASE t \in Requests -> "idle"
                                [] t = l /\ Resumes -> "check"
                                [] OTHER -> "done"]
  /\ inHand' = [t \in Threads |-> Nothing]
  /\ after' = NoInstruction
  /\ cancelled' = {} /\ abandoned' = {}
  /\ UNCHANGED disk

Request(r) ==
  \/ \E s \in Schedules : BeginLoad(r, s) \/ BeginStart(r, s)
  \/ BeginStartSaved(r) \/ BeginStop(r) \/ BeginUnload(r)
  \/ Pause(r) \/ Unpause(r) \/ PauseVerify(r)
  \/ PushSchedule(r) \/ PushContext(r) \/ CheckRunning(r)
  \/ StartCheck(r) \/ StartState(r) \/ SpawnFails(r) \/ Register(r)
  \/ \E l \in Loops : Spawn(r, l)

UnloadOrStop(t) ==
  \/ RefuseUnload(t) \/ PopSchedule(t) \/ PopContext(t)
  \/ StopCancel(t) \/ StopPop(t) \/ StopSave(t)

Coroutine(l) ==
  \/ RunScheduler(l) \/ NeverRun(l) \/ EndBare(l)
  \/ EndUnregistered(l) \/ EndInError(l) \/ Idle(l) \/ BeginInstruction(l)
  \/ Cancel(l) \/ Finally(l) \/ FinallyLoad(l) \/ FinallySave(l)

Next ==
  \/ \E r \in Requests : Request(r)
  \/ \E l \in Loops : Coroutine(l) \/ Restart(l)
  \/ \E t \in Threads : UnloadOrStop(t) \/ Store(t)

Spec == Init /\ [][Next]_vars

(* A coroutine goes on as long as its event loop does. *)
LiveSpec ==
  /\ Spec
  /\ \A l \in Loops :
       WF_vars(l \notin abandoned /\ (Coroutine(l) \/ UnloadOrStop(l) \/ Store(l)))

-----------------------------------------------------------------------------
(* Properties *)

(* The coroutine has work to go on with, and nobody told it to end.        *)
GoesOn(l) == pc[l] # "done" /\ ~Unwound(l)

(* However soon requests follow each other, and whatever the coroutine is  *)
(* in the middle of, there are never two that go on: a start waits for no  *)
(* old one to end, it relies on the cancellation by the stop before it.    *)
OneLoop == \A l, m \in Loops : GoesOn(l) /\ GoesOn(m) => l = m

(* Once the requests are answered, the coroutine that goes on is the one   *)
(* in running_schedulers, where a stop and a start look for it, never one  *)
(* without an entry or behind the entry of another one.                    *)
StopFindsTheLoop ==
  (\A r \in Requests : pc[r] = "idle") => \A l \in Loops : GoesOn(l) => entry = l

(* Whatever happened before, when the entry is gone for good every         *)
(* coroutine ends, also one that was never cancelled because it had no     *)
(* entry, and one that sits in a pause.                                    *)
StopEndsAll ==
  <>[](entry = Nothing) => <>[](\A l \in Loops : pc[l] = "done" \/ l \in abandoned)

=============================================================================
