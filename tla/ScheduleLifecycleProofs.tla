---------------------- MODULE ScheduleLifecycleProofs ----------------------
(* The schedule lifecycle is well-typed, for any number of requests at a   *)
(* time and any schedules.                                                 *)
EXTENDS ScheduleLifecycle, SequenceTheorems, TLAPS

(* Places at which a thread or coroutine works with a schedule or a        *)
(* context, those of an unload or a stop only in the midst of another call.*)
Storing == {"store", "store unloaded"}
Calling == {"unload", "pop context", "stop", "stop pop", "stop save"}
Holding == Storing \union {"push", "first context", "push context", "loaded",
  "start", "start state", "spawn", "created"}

Shapes ==
  /\ pc \in [Threads -> RequestPlaces \union LoopPlaces]
  /\ after \in [Threads -> {"idle", "loaded", "asleep", "check", "bare"}]

Hands ==
  \A t \in Threads :
    pc[t] \in Holding \/ (pc[t] \in Calling /\ after[t] # "idle") => inHand[t] \in Schedules

Registering == \A r \in Requests : pc[r] = "register" => inHand[r] \in Loops

(* A request is in an instruction only while it stores or calls.           *)
Pushing ==
  \A r \in Requests :
    /\ after[r] = "loaded" => pc[r] \in Storing \union Calling
    /\ pc[r] \in Storing => after[r] = "loaded"

Stacks ==
  /\ schedules \in Seq(Schedules)
  /\ contexts \in Seq(Schedules)
  /\ state \in States
  /\ disk \in [schedules : Seq(Schedules), contexts : Seq(Schedules), state : States]

Handles ==
  /\ entry \in Loops \union {Nothing, Placeholder}
  /\ inHand \in [Threads -> Schedules \union Loops \union {Nothing}]
  /\ cancelled \subseteq Loops
  /\ abandoned \subseteq Loops

Places ==
  /\ \A r \in Requests : pc[r] \in RequestPlaces
  /\ \A l \in Loops : pc[l] \in LoopPlaces
  /\ \A r \in Requests : after[r] \in {"idle", "loaded"}
  /\ \A l \in Loops : after[l] \in {"asleep", "check", "bare"}

IInv == Stacks /\ Handles /\ Shapes /\ Places /\ Hands /\ Registering /\ Pushing

-----------------------------------------------------------------------------

(* The last element and the rest of a sequence. *)
LEMMA LastAndFront ==
  ASSUME NEW S, NEW s \in Seq(S), s # <<>>
  PROVE  Last(s) \in S /\ Front(s) \in Seq(S)
BY DEF Last, Front

(* A destination to which nothing was ever loaded: no thread is anywhere.  *)
THEOREM InitTyped == Init => IInv
<1> SUFFICES ASSUME Init PROVE IInv
  OBVIOUS
<1> USE ThreadsAssumption DEF Init, NoInstruction, Threads
<1>1. Stacks
  BY DEF Stacks, States
<1>2. Handles
  BY DEF Handles
<1>3. Shapes /\ Places
  BY DEF Shapes, Places, RequestPlaces, LoopPlaces
<1>4. Hands /\ Registering /\ Pushing
  BY DEF Hands, Registering, Pushing, Holding, Storing, Calling
<1> QED
  BY <1>1, <1>2, <1>3, <1>4 DEF IInv

(* Thread t goes to a place, with something in hand, in some instruction.  *)
Moves(t, place, x, next) ==
  /\ pc' = [pc EXCEPT ![t] = place]
  /\ inHand' = [inHand EXCEPT ![t] = x]
  /\ after' = [after EXCEPT ![t] = next]

Fits(t, place, x, next) ==
  /\ t \in Requests => place \in RequestPlaces /\ next \in {"idle", "loaded"}
  /\ t \in Loops => place \in LoopPlaces /\ next \in {"asleep", "check", "bare"}
  /\ place \in Holding \/ (place \in Calling /\ next # "idle") => x \in Schedules
  /\ t \in Requests /\ place = "register" => x \in Loops
  /\ t \in Requests /\ next = "loaded" => place \in Storing \union Calling
  /\ t \in Requests /\ place \in Storing => next = "loaded"

Control == Shapes /\ Places /\ Hands /\ Registering /\ Pushing

(* A step of one thread keeps the rest of the invariant if it fits.        *)
LEMMA MovesTyped ==
  ASSUME IInv, NEW t \in Threads, NEW place, NEW x, NEW next,
         Moves(t, place, x, next), Fits(t, place, x, next)
  PROVE  Control'
<1> USE ThreadsAssumption DEF IInv, Moves, Fits, Threads
<1>1. Shapes'
  BY DEF Shapes, Places
<1>2. Places'
  BY DEF Shapes, Places
<1>3. Hands'
  BY DEF Shapes, Hands, Handles
<1>4. Registering' /\ Pushing'
  BY DEF Shapes, Handles, Registering, Pushing
<1> QED
  BY <1>1, <1>2, <1>3, <1>4 DEF Control

(* A schedule pushed on a stack or put on an empty one.                    *)
LEMMA PushTyped ==
  ASSUME NEW S, NEW s \in Seq(S), NEW x \in S
  PROVE  /\ Append(s, x) \in Seq(S) /\ Append(s, x) # <<>>
         /\ <<x>> \in Seq(S) /\ <<x>> # <<>>
<1>1. Append(s, x) \in Seq(S) /\ Append(s, x) # <<>>
  BY AppendProperties
<1>2. <<x>> \in Seq(S)
  OBVIOUS
<1>3. Len(<<x>>) = 1 /\ Len(<<>>) = 0
  OBVIOUS
<1> QED
  BY <1>1, <1>2, <1>3

(* What is saved is as good as what is in memory.                          *)
LEMMA SaveTyped ==
  ASSUME schedules' \in Seq(Schedules), contexts' \in Seq(Schedules), state' \in States, Save
  PROVE  Stacks'
BY DEF Save, Stacks

(* The steps of unload and stop, by a request or by an instruction.        *)
LEMMA UnloadOrStopTyped ==
  ASSUME IInv, NEW t \in Threads, UnloadOrStop(t)
  PROVE  IInv'
<1>1. Stacks'
  <2> USE DEF IInv, Stacks, States, memory
  <2>1. CASE RefuseUnload(t)
    BY <2>1 DEF RefuseUnload
  <2>2. CASE PopSchedule(t)
    BY <2>2, LastAndFront DEF PopSchedule, CanUnload
  <2>3. CASE PopContext(t)
    <3>1. contexts' \in Seq(Schedules) /\ UNCHANGED <<schedules, state>> /\ Save
      BY <2>3, LastAndFront DEF PopContext
    <3> QED
      BY <3>1 DEF Save
  <2>4. CASE StopCancel(t)
    BY <2>4 DEF StopCancel
  <2>5. CASE StopPop(t)
    BY <2>5 DEF StopPop
  <2>6. CASE StopSave(t)
    BY <2>6 DEF StopSave, SetState, Save
  <2> QED
    BY <2>1, <2>2, <2>3, <2>4, <2>5, <2>6 DEF UnloadOrStop
<1>2. Handles'
  BY DEF UnloadOrStop, IInv, Handles, RefuseUnload, PopSchedule, PopContext, StopCancel, StopPop,
     StopSave, Active
<1>3. PICK place \in Calling \union Storing \union {"idle"} :
           /\ UNCHANGED <<inHand, after>>
           /\ pc[t] \in Calling
           /\ pc' = [pc EXCEPT ![t] = place]
           /\ place = "idle" => after[t] = "idle"
           /\ place \in Storing => after[t] # "idle"
  BY DEF UnloadOrStop, RefuseUnload, PopSchedule, PopContext, StopCancel, StopPop, StopSave,
     Goto, Return, Calling, Storing
<1>4. Moves(t, place, inHand[t], after[t])
  BY <1>3 DEF Moves, IInv, Handles, Shapes
<1>5. Fits(t, place, inHand[t], after[t])
  BY <1>3, ThreadsAssumption DEF IInv, Places, Hands, Registering, Pushing, Threads, Fits,
     RequestPlaces, LoopPlaces, Shared, Calling, Storing, Holding
<1> QED
  BY <1>1, <1>2, <1>4, <1>5, MovesTyped DEF IInv, Control

-----------------------------------------------------------------------------

(* The steps of a request, except Spawn. *)
LEMMA RequestTyped ==
  ASSUME IInv, NEW r \in Requests, Request(r), \A l \in Loops : ~Spawn(r, l)
  PROVE  IInv'
<1> USE DEF IInv
<1>1. Handles'
  <2> USE DEF Handles, Threads
  <2>1. CASE StartState(r) \/ SpawnFails(r) \/ StartCheck(r)
    BY <2>1 DEF StartState, SpawnFails, StartCheck, StartFails, Hold
  <2>6. CASE Register(r)
    BY <2>6 DEF Register, StartFails, Hold, Registering
  <2>2. CASE BeginStartSaved(r)
    BY <2>2, LastAndFront DEF BeginStartSaved, Hold, Stacks
  <2>3. CASE \E s \in Schedules : BeginLoad(r, s) \/ BeginStart(r, s)
    BY <2>3 DEF BeginLoad, BeginStart, Hold
  <2>4. CASE PushSchedule(r) \/ PushContext(r) \/ CheckRunning(r)
    BY <2>4 DEF PushSchedule, PushContext, CheckRunning, Hold
  <2>5. CASE BeginStop(r) \/ BeginUnload(r) \/ Pause(r) \/ Unpause(r) \/ PauseVerify(r)
    BY <2>5 DEF BeginStop, BeginUnload, Pause, Unpause, PauseVerify
  <2> QED
    BY <2>1, <2>2, <2>3, <2>4, <2>5, <2>6 DEF Request
<1>2. Stacks'
  <2> USE DEF Stacks, States
  <2>1. CASE (\E s \in Schedules : BeginLoad(r, s)) \/ BeginStartSaved(r) \/ PauseVerify(r)
    BY <2>1 DEF BeginLoad, BeginStartSaved, PauseVerify, LoadState
  <2>2. CASE Pause(r) \/ Unpause(r)
    <3>1. state' \in States /\ UNCHANGED <<schedules, contexts>> /\ Save
      BY <2>2 DEF Pause, Unpause, SetState
    <3> QED
      BY <3>1, SaveTyped
  <2> DEFINE Works == PushSchedule(r) \/ PushContext(r) \/ StartState(r)
  <2>3. Works => inHand[r] \in Schedules
    BY DEF PushSchedule, PushContext, StartState, Hands, Holding, Threads
  <2>4. CASE PushSchedule(r)
    BY <2>3, <2>4, PushTyped DEF PushSchedule
  <2>5. CASE PushContext(r)
    <3>1. contexts' \in Seq(Schedules)
      <4>1. CASE pc[r] = "first context"
        BY <2>3, <2>5, <4>1, PushTyped DEF PushContext
      <4>2. CASE pc[r] # "first context"
        BY <2>3, <2>5, <4>2, PushTyped DEF PushContext
      <4> QED
        BY <4>1, <4>2
    <3>2. UNCHANGED <<schedules, state>> /\ Save
      BY <2>5 DEF PushContext
    <3> QED
      BY <3>1, <3>2, SaveTyped
  <2>6. CASE StartState(r)
    <3>1. schedules' \in Seq(Schedules) /\ schedules' # <<>>
      <4>1. CASE schedules = <<>>
        BY <2>3, <2>6, <4>1, PushTyped DEF StartState
      <4>2. CASE schedules # <<>>
        BY <2>6, <4>2 DEF StartState
      <4> QED
        BY <4>1, <4>2
    <3>2. Last(schedules') \in Schedules
      BY <3>1, LastAndFront
    <3>3. contexts' \in Seq(Schedules)
      <4>1. CASE contexts = <<>>
        BY <2>6, <3>2, <4>1, PushTyped DEF StartState
      <4>2. CASE contexts # <<>>
        BY <2>6, <4>2 DEF StartState
      <4> QED
        BY <4>1, <4>2
    <3>4. state' \in States /\ Save
      BY <2>6 DEF StartState
    <3> QED
      BY <3>1, <3>3, <3>4, SaveTyped
  <2>7. CASE StartCheck(r) \/ SpawnFails(r) \/ Register(r)
    BY <2>7 DEF StartCheck, SpawnFails, Register, StartFails
  <2>8. CASE \/ BeginStop(r) \/ BeginUnload(r) \/ CheckRunning(r)
             \/ \E s \in Schedules : BeginStart(r, s)
    BY <2>8 DEF BeginStop, BeginUnload, CheckRunning, BeginStart, memory
  <2> QED
    BY <2>1, <2>2, <2>4, <2>5, <2>6, <2>7, <2>8 DEF Request
<1>3. after[r] = "idle"
  <2>1. pc[r] \notin Storing \union Calling
    BY DEF Request, BeginLoad, BeginStart, BeginStartSaved, BeginStop, BeginUnload, Pause, Unpause,
       PauseVerify, PushSchedule, PushContext, CheckRunning, StartCheck, StartState, SpawnFails,
       Register, Storing, Calling
  <2> QED
    BY <2>1 DEF Pushing, Places
<1>4. r \in Threads /\ r \notin Loops /\ after = [after EXCEPT ![r] = "idle"]
      /\ inHand = [inHand EXCEPT ![r] = inHand[r]]
  BY <1>3, ThreadsAssumption DEF Threads, Shapes, Handles
<1>5. Control'
  <2> USE <1>3, <1>4 DEF Moves
  <2>1. CASE Unpause(r)
    BY <2>1 DEF Unpause, Control, Shapes, Places, Hands, Registering, Pushing
  <2> DEFINE Goes(place, x) ==
        /\ place \in {"idle", "verify"} \/ (place \in Holding \ (Storing \union {"created"}) /\ x \in Schedules)
           \/ (place \in {"stop", "unload"})
        /\ Moves(r, place, x, "idle")
  <2>2. ASSUME NEW place, NEW x, Goes(place, x)
        PROVE  Control'
    <3>1. Fits(r, place, x, "idle")
      BY <2>2 DEF Fits, RequestPlaces, Shared, Storing, Calling, Holding
    <3> QED
      BY <2>2, <3>1, MovesTyped
  <2> USE DEF Goto, Hold, Holding, Storing
  <2>3. CASE \E s \in Schedules : BeginLoad(r, s) \/ BeginStart(r, s)
    <3>1. PICK s \in Schedules : Goes("push", s) \/ Goes("start", s)
      BY <2>3 DEF BeginLoad, BeginStart
    <3> QED
      BY <3>1, <2>2
  <2>4. CASE BeginStartSaved(r)
    <3>1. CASE disk.schedules = <<>>
      BY <2>4, <3>1 DEF BeginStartSaved, Control, Shapes, Places, Hands, Registering, Pushing
    <3>2. CASE disk.schedules # <<>>
      <4>1. Goes("start", Last(disk.schedules))
        BY <2>4, <3>2, LastAndFront DEF BeginStartSaved, Stacks
      <4> QED
        BY <4>1, <2>2
    <3> QED
      BY <3>1, <3>2
  <2>5. CASE BeginStop(r) \/ BeginUnload(r) \/ Pause(r) \/ PauseVerify(r)
    <3>1. \E place \in {"stop", "unload", "idle", "verify"} : Goes(place, inHand[r])
      BY <2>5 DEF BeginStop, BeginUnload, Pause, PauseVerify
    <3> QED
      BY <3>1, <2>2
  <2>6. CASE PushSchedule(r) \/ StartState(r)
    <3>1. \E place \in {"first context", "push context", "spawn"} : Goes(place, inHand[r])
      BY <2>6 DEF PushSchedule, StartState, Hands
    <3> QED
      BY <3>1, <2>2
  <2>7. CASE CheckRunning(r) \/ StartCheck(r)
    <3>1. Goes("idle", Nothing) \/ Goes("start", inHand[r]) \/ Goes("start state", inHand[r])
      BY <2>7 DEF CheckRunning, StartCheck, StartFails, Hands
    <3> QED
      BY <3>1, <2>2
  <2>8. CASE SpawnFails(r) \/ Register(r)
    <3>1. Goes("idle", Nothing)
      BY <2>8 DEF SpawnFails, Register, StartFails
    <3> QED
      BY <3>1, <2>2
  <2>9. CASE PushContext(r)
    <3>1. inHand[r] \in Schedules
      BY <2>9 DEF PushContext, Hands
    <3>2. \/ Goes("loaded", inHand[r])
          \/ \E place \in {"store", "unload"} : Moves(r, place, inHand[r], "loaded")
      BY <2>9, <3>1 DEF PushContext, BeginAction
    <3>3. \A place \in {"store", "unload"} : Fits(r, place, inHand[r], "loaded")
      BY <3>1 DEF Fits, RequestPlaces, Shared, Calling
    <3> QED
      BY <3>2, <3>3, <2>2, MovesTyped
  <2> QED
    BY <2>1, <2>3, <2>4, <2>5, <2>6, <2>7, <2>8, <2>9 DEF Request
<1> QED
  BY <1>1, <1>2, <1>5 DEF Control

(* A start makes two steps at once: its own and that of a new coroutine.   *)
LEMMA SpawnTyped ==
  ASSUME IInv, NEW r \in Requests, NEW l \in Loops, Spawn(r, l)
  PROVE  IInv'
<1> USE ThreadsAssumption DEF IInv, Spawn, Threads
<1>1. Last(schedules) \in Schedules
  BY LastAndFront DEF Stacks
<1>2. Stacks' /\ Handles'
  BY <1>1 DEF Stacks, Handles, memory
<1>3. Shapes' /\ Places'
  BY DEF Shapes, Places, RequestPlaces, LoopPlaces
<1>4. after[r] = "idle"
  BY DEF Pushing, Places, Storing, Calling
<1>5. Hands' /\ Registering' /\ Pushing'
  BY <1>1, <1>4 DEF Shapes, Handles, Hands, Registering, Pushing, Holding, Storing, Calling
<1> QED
  BY <1>2, <1>3, <1>5

-----------------------------------------------------------------------------

(* The steps of a coroutine that are neither unload, stop nor store. *)
LEMMA CoroutineTyped ==
  ASSUME IInv, NEW l \in Loops, Coroutine(l)
  PROVE  IInv'
<1> USE DEF IInv
<1>1. l \in Threads /\ l \notin Requests /\ after = [after EXCEPT ![l] = after[l]]
      /\ inHand = [inHand EXCEPT ![l] = inHand[l]] /\ pc = [pc EXCEPT ![l] = pc[l]]
      /\ after[l] \in {"asleep", "check", "bare"}
  BY ThreadsAssumption DEF Threads, Shapes, Handles, Places
<1> DEFINE Goes(place, x) ==
      /\ place \in {"done", "end", "end load", "end save", "asleep", "check", "bare"}
         \/ (place \in {"store", "unload", "stop"} /\ x \in Schedules)
      /\ Moves(l, place, x, after[l])
<1>2. ASSUME NEW place, NEW x, Goes(place, x)
      PROVE  Control'
  <2>1. Fits(l, place, x, after[l])
    BY <1>1, <1>2 DEF Fits, LoopPlaces, Shared, Storing, Calling, Holding
  <2> QED
    BY <1>1, <1>2, <2>1, MovesTyped
<1>3. CASE RunScheduler(l)
  <2>1. inHand[l] \in Schedules
    BY <1>1, <1>3 DEF RunScheduler, Hands, Holding
  <2>2. schedules' \in Seq(Schedules)
    <3>1. CASE schedules = <<>>
      BY <1>3, <2>1, <3>1, PushTyped DEF RunScheduler
    <3>2. CASE schedules # <<>>
      BY <1>3, <3>2 DEF RunScheduler, Stacks
    <3> QED
      BY <3>1, <3>2
  <2>3. contexts' \in Seq(Schedules) /\ contexts' # <<>>
    <3>1. CASE contexts = <<>>
      BY <1>3, <2>1, <3>1, PushTyped DEF RunScheduler
    <3>2. CASE contexts # <<>>
      BY <1>3, <3>2 DEF RunScheduler, Stacks
    <3> QED
      BY <3>1, <3>2
  <2>4. Last(contexts') \in Schedules
    BY <2>3, LastAndFront
  <2>5. Stacks'
    BY <1>3, <2>2, <2>3 DEF RunScheduler, Stacks
  <2>6. Handles'
    BY <1>3, <2>4 DEF RunScheduler, Handles, Hold
  <2>7. \/ Goes("check", Nothing) \/ Goes("bare", Nothing)
        \/ \E place \in {"store", "unload"}, next \in {"check", "bare"} :
              Moves(l, place, Last(contexts'), next)
    BY <1>1, <1>3 DEF RunScheduler, BeginAction, Goto, Hold, Moves
  <2>8. \A place \in {"store", "unload"}, next \in {"check", "bare"} :
          Fits(l, place, Last(contexts'), next)
    BY <1>1, <2>4 DEF Fits, LoopPlaces, Shared
  <2>9. Control'
    BY <1>1, <1>2, <2>7, <2>8, MovesTyped
  <2> QED
    BY <2>5, <2>6, <2>9 DEF Control
<1>4. CASE NeverRun(l) \/ EndBare(l) \/ Finally(l) \/ FinallySave(l)
  <2>1. Stacks'
    <3>1. UNCHANGED <<memory, disk>> \/ SetState("stopped")
      BY <1>4 DEF NeverRun, EndBare, Finally, FinallySave
    <3> QED
      BY <3>1, SaveTyped DEF SetState, Stacks, States, memory
  <2>2. Handles'
    BY <1>4 DEF NeverRun, EndBare, Finally, FinallySave, Done, Hold, Handles
  <2>3. Goes("done", Nothing) \/ Goes("end load", inHand[l])
    BY <1>1, <1>4 DEF NeverRun, EndBare, Finally, FinallySave, Done, Goto, Hold, Moves
  <2> QED
    BY <1>2, <2>1, <2>2, <2>3 DEF Control
<1>5. CASE FinallyLoad(l)
  <2>1. Stacks' /\ Handles'
    BY <1>5 DEF FinallyLoad, LoadState, Stacks, Handles
  <2>2. Goes("end save", inHand[l])
    BY <1>1, <1>5 DEF FinallyLoad, Goto, Moves
  <2> QED
    BY <1>2, <2>1, <2>2 DEF Control
<1>6. CASE EndUnregistered(l) \/ EndInError(l) \/ Cancel(l)
  <2>1. Stacks' /\ Handles'
    BY <1>6 DEF EndUnregistered, EndInError, Cancel, Stacks, Handles, memory
  <2>2. Goes("end", inHand[l])
    BY <1>1, <1>6 DEF EndUnregistered, EndInError, Cancel, Goto, Moves
  <2> QED
    BY <1>2, <2>1, <2>2 DEF Control
<1>7. CASE Idle(l)
  <2>1. Stacks' /\ Handles'
    BY <1>7 DEF Idle, Sleep, Hold, Stacks, Handles, memory
  <2>2. Goes("end", Nothing) \/ Goes("asleep", Nothing)
    BY <1>1, <1>7 DEF Idle, Sleep, Goto, Hold, Moves
  <2> QED
    BY <1>2, <2>1, <2>2 DEF Control
<1>8. CASE BeginInstruction(l)
  <2>1. Last(contexts) \in Schedules
    BY <1>8, LastAndFront DEF BeginInstruction, Stacks
  <2>2. Stacks' /\ Handles'
    BY <1>8, <2>1 DEF BeginInstruction, Hold, Stacks, Handles, memory
  <2>3. \E place \in {"store", "unload", "stop"} : Goes(place, Last(contexts))
    BY <1>1, <1>8, <2>1 DEF BeginInstruction, Goto, Hold, Moves
  <2> QED
    BY <1>2, <2>2, <2>3 DEF Control
<1> QED
  BY <1>3, <1>4, <1>5, <1>6, <1>7, <1>8 DEF Coroutine

(* The end of an instruction puts a context, never a hole, on the stack.   *)
LEMMA StoreTyped ==
  ASSUME IInv, NEW t \in Threads, Store(t)
  PROVE  IInv'
<1> USE DEF IInv
<1>1. inHand[t] \in Schedules
  BY DEF Store, Hands, Holding, Storing
<1>2. Stacks'
  <2>1. contexts' \in Seq(Schedules)
    <3>1. CASE contexts = <<>>
      BY <3>1 DEF Store, Stacks
    <3>2. CASE contexts # <<>>
      BY <1>1, <3>2, LastAndFront, PushTyped DEF Store, Stacks
    <3> QED
      BY <3>1, <3>2
  <2>2. UNCHANGED <<schedules, state>> /\ (UNCHANGED disk \/ Save)
    BY DEF Store
  <2> QED
    BY <2>1, <2>2, SaveTyped DEF Stacks
<1>3. Handles'
  BY DEF Store, Sleep, Hold, Handles
<1>4. \/ t \in Requests /\ Moves(t, "loaded", inHand[t], "idle")
      \/ /\ t \in Loops
         /\ \E place \in {"asleep", "check", "bare", "end"} : Moves(t, place, Nothing, "asleep")
  <2>1. CASE t \in Requests
    <3>1. after[t] = "loaded" /\ NoInstruction[t] = "idle"
      BY <2>1 DEF Store, Pushing, Storing, NoInstruction
    <3>2. Goto(t, "loaded") /\ inHand' = inHand /\ after' = [after EXCEPT ![t] = "idle"]
      BY <3>1 DEF Store
    <3>3. inHand' = [inHand EXCEPT ![t] = inHand[t]]
      BY <3>2 DEF Handles
    <3> QED
      BY <2>1, <3>2, <3>3 DEF Moves, Goto
  <2>2. CASE t \in Loops
    <3>1. after[t] \in {"asleep", "check", "bare"} /\ NoInstruction[t] = "asleep"
      BY <2>2, ThreadsAssumption DEF Places, NoInstruction
    <3> QED
      BY <2>2, <3>1 DEF Store, Sleep, Moves, Goto, Hold
  <2> QED
    BY <2>1, <2>2 DEF Threads
<1>5. Control'
  <2>1. CASE t \in Requests
    <3>1. Fits(t, "loaded", inHand[t], "idle")
      BY <1>1, <2>1, ThreadsAssumption DEF Fits, RequestPlaces, Storing, Calling
    <3> QED
      BY <1>4, <2>1, <3>1, MovesTyped, ThreadsAssumption
  <2>2. CASE t \in Loops
    <3>1. \A place \in {"asleep", "check", "bare", "end"} : Fits(t, place, Nothing, "asleep")
      BY <2>2, ThreadsAssumption DEF Fits, LoopPlaces, Holding, Storing, Calling
    <3> QED
      BY <1>4, <2>2, <3>1, MovesTyped, ThreadsAssumption
  <2> QED
    BY <2>1, <2>2 DEF Threads
<1> QED
  BY <1>2, <1>3, <1>5 DEF Control

(* A restart trusts the file, which only ever got what was in memory.      *)
LEMMA RestartTyped ==
  ASSUME IInv, NEW l \in Loops, Restart(l)
  PROVE  IInv'
<1> USE ThreadsAssumption DEF IInv, Restart, Threads
<1>1. Stacks'
  BY DEF Stacks, States
<1>2. Handles'
  BY DEF Handles
<1>3. Shapes' /\ Places'
  BY DEF Shapes, Places, RequestPlaces, LoopPlaces, NoInstruction
<1>4. Hands' /\ Registering' /\ Pushing'
  BY DEF Hands, Registering, Pushing, Holding, Storing, Calling, NoInstruction
<1> QED
  BY <1>1, <1>2, <1>3, <1>4

-----------------------------------------------------------------------------

(* Every step of every thread keeps the invariant.                         *)
LEMMA StepTyped == IInv /\ [Next]_vars => IInv'
<1> SUFFICES ASSUME IInv, [Next]_vars PROVE IInv'
  OBVIOUS
<1>1. CASE \E r \in Requests : Request(r)
  <2>1. PICK r \in Requests : Request(r)
    BY <1>1
  <2>2. CASE \E l \in Loops : Spawn(r, l)
    BY <2>2, SpawnTyped
  <2>3. CASE \A l \in Loops : ~Spawn(r, l)
    BY <2>1, <2>3, RequestTyped
  <2> QED
    BY <2>2, <2>3
<1>2. CASE \E l \in Loops : Coroutine(l) \/ Restart(l)
  BY <1>2, CoroutineTyped, RestartTyped
<1>3. CASE \E t \in Threads : UnloadOrStop(t) \/ Store(t)
  BY <1>3, UnloadOrStopTyped, StoreTyped
<1>4. CASE UNCHANGED vars
  BY <1>4 DEF vars, memory, IInv, Stacks, Handles, Shapes, Places, Hands, Registering, Pushing
<1> QED
  BY <1>1, <1>2, <1>3, <1>4 DEF Next

(* The stacks and the file hold schedules only, every thread is at a place *)
(* it can be at, and what it works with is what that place needs: a        *)
(* context is never left out between the steps of a push or a start.       *)
THEOREM TypeCorrect == Spec => []TypeOK
<1>1. IInv => TypeOK
  BY DEF IInv, Stacks, Handles, Places, TypeOK
<1> QED
  BY <1>1, InitTyped, StepTyped, PTL DEF Spec

-----------------------------------------------------------------------------
(* One request at a time, schedules with triggers that neither unload nor  *)
(* stop themselves: a coroutine then never touches running_schedulers.     *)
Gentle ==
  /\ \A q, r \in Requests : q = r
  /\ ~SelfUnload
  /\ Bare = {}

OnlyRun == \A l \in Loops : pc[l] \notin Calling \union {"bare"} /\ after[l] # "bare"

(* A coroutine that goes on has the entry, or is about to get it from the  *)
(* request that made it.                                                   *)
Registered ==
  \A l \in Loops : GoesOn(l) =>
    entry = l \/ \E r \in Requests : pc[r] = "register" /\ inHand[r] = l

Announced == \A r \in Requests : pc[r] = "register" => entry = Placeholder

(* A start that has looked, and a stop that has cancelled, are alone.      *)
Alone ==
  \A r \in Requests :
    pc[r] \in {"start state", "spawn", "stop pop"} => \A l \in Loops : ~GoesOn(l)

LoopInv == OnlyRun /\ Registered /\ Announced /\ Alone

(* At the beginning there is no coroutine.                                 *)
THEOREM InitAlone == Init => LoopInv
BY ThreadsAssumption
   DEF Init, LoopInv, OnlyRun, Registered, Announced, Alone, GoesOn, Threads, NoInstruction, Calling

(* A coroutine's own steps neither touch the entry nor revive a coroutine. *)
LEMMA CoroutineAlone ==
  ASSUME Gentle, IInv, LoopInv, NEW l \in Loops, Coroutine(l) \/ Store(l)
  PROVE  LoopInv'
<1>1. l \in Threads /\ l \notin Requests /\ after[l] \in {"asleep", "check"}
  BY ThreadsAssumption DEF Threads, IInv, Places, LoopInv, OnlyRun
<1> DEFINE Goes(place) ==
      /\ pc[l] # "done" /\ pc' = [pc EXCEPT ![l] = place]
      /\ \E x : inHand' = [inHand EXCEPT ![l] = x]
      /\ \E next \in {"asleep", "check"} : after' = [after EXCEPT ![l] = next]
      /\ entry' = entry
      /\ \/ place \notin Calling \union {"bare", "done"} /\ UNCHANGED <<cancelled, abandoned>>
         \/ /\ place = "done"
            /\ cancelled' = cancelled \ {l} /\ abandoned' = abandoned \ {l}
<1>2. \E place : Goes(place)
  <2>1. after = [after EXCEPT ![l] = after[l]] /\ inHand = [inHand EXCEPT ![l] = inHand[l]]
    BY <1>1 DEF IInv, Shapes, Handles
  <2>2. CASE RunScheduler(l)
    <3>1. Goes("check") \/ Goes("store")
      BY <1>1, <2>1, <2>2 DEF RunScheduler, BeginAction, Goto, Hold, Gentle, Calling
    <3> QED
      BY <3>1
  <2>3. CASE NeverRun(l) \/ Finally(l) \/ FinallySave(l)
    <3>1. Goes("done") \/ Goes("end load")
      BY <1>1, <2>1, <2>3 DEF NeverRun, Finally, FinallySave, Done, Goto, Hold, Calling
    <3> QED
      BY <3>1
  <2>4. CASE FinallyLoad(l) \/ Cancel(l)
    <3>1. Goes("end save") \/ Goes("end")
      BY <1>1, <2>1, <2>4 DEF FinallyLoad, Cancel, Goto, Calling
    <3> QED
      BY <3>1
  <2>5. CASE EndUnregistered(l) \/ EndInError(l)
    <3>1. Goes("end")
      BY <1>1, <2>1, <2>5 DEF EndUnregistered, EndInError, AtTop, Goto, Calling
    <3> QED
      BY <3>1
  <2>6. CASE Idle(l) \/ BeginInstruction(l)
    <3>1. Goes("end") \/ Goes("asleep") \/ Goes("store")
      BY <1>1, <2>1, <2>6
         DEF Idle, BeginInstruction, AtTop, Sleep, Goto, Hold, Gentle, Calling
    <3> QED
      BY <3>1
  <2>7. CASE Store(l)
    <3>1. NoInstruction[l] = "asleep"
      BY <1>1 DEF NoInstruction
    <3>2. Goes("end") \/ Goes("asleep") \/ Goes("check")
      BY <1>1, <2>1, <2>7, <3>1 DEF Store, Sleep, Goto, Hold, Calling
    <3> QED
      BY <3>2
  <2>8. ~EndBare(l)
    BY DEF EndBare, LoopInv, OnlyRun
  <2> QED
    BY <2>2, <2>3, <2>4, <2>5, <2>6, <2>7, <2>8 DEF Coroutine
<1>3. PICK place : Goes(place)
  BY <1>2
<1>4. OnlyRun'
  BY <1>1, <1>3 DEF LoopInv, OnlyRun, IInv, Shapes, Threads, Calling
<1>5. \A r \in Requests : pc'[r] = pc[r] /\ inHand'[r] = inHand[r]
  BY <1>1, <1>3 DEF IInv, Shapes, Handles, Threads
<1>6. \A m \in Loops : GoesOn(m)' => GoesOn(m)
  BY <1>1, <1>3 DEF GoesOn, Unwound, IInv, Shapes, Threads
<1>7. entry' = entry
  BY <1>3
<1>8. Registered'
  BY <1>5, <1>6, <1>7 DEF LoopInv, Registered
<1>9. Announced' /\ Alone'
  BY <1>5, <1>6, <1>7 DEF LoopInv, Announced, Alone, Placeholder
<1> QED
  BY <1>4, <1>8, <1>9 DEF LoopInv

(* A stop cancels the coroutine that goes on before it takes the entry.    *)
LEMMA StopAlone ==
  ASSUME Gentle, IInv, LoopInv, NEW r \in Requests, UnloadOrStop(r) \/ Store(r)
  PROVE  LoopInv'
<1>1. r \in Threads /\ r \notin Loops /\ \A q \in Requests : q = r
  BY ThreadsAssumption DEF Threads, Gentle
<1>2. \A l \in Loops : pc'[l] = pc[l] /\ after'[l] = after[l]
  BY <1>1 DEF UnloadOrStop, RefuseUnload, PopSchedule, PopContext, StopCancel, StopPop, StopSave,
     Return, Store, Sleep, Goto, Hold, IInv, Shapes, Threads
<1>3. OnlyRun'
  BY <1>2 DEF LoopInv, OnlyRun
<1>4. \A l \in Loops : GoesOn(l)' => GoesOn(l)
  BY <1>2 DEF UnloadOrStop, RefuseUnload, PopSchedule, PopContext, StopCancel, StopPop, StopSave,
     Store, GoesOn, Unwound
<1>5. pc[r] # "register" /\ pc'[r] \notin {"register", "start state", "spawn"}
  BY <1>1 DEF UnloadOrStop, RefuseUnload, PopSchedule, PopContext, StopCancel, StopPop, StopSave,
     Return, Store, Sleep, Goto, Hold, IInv, Shapes, Places, Pushing, Storing
<1>6. Announced'
  BY <1>1, <1>5 DEF Announced
<1>7. CASE StopCancel(r)
  <2>1. \A l \in Loops : GoesOn(l) => entry = l
    BY <1>1, <1>5 DEF LoopInv, Registered
  <2>2. \A l \in Loops : ~GoesOn(l)'
    BY <1>2, <1>7, <2>1 DEF StopCancel, Active, GoesOn, Unwound
  <2> QED
    BY <1>3, <1>6, <2>2 DEF LoopInv, Registered, Alone
<1>8. CASE StopPop(r)
  <2>1. \A l \in Loops : ~GoesOn(l)
    BY <1>8 DEF StopPop, LoopInv, Alone
  <2> QED
    BY <1>3, <1>4, <1>6, <2>1 DEF LoopInv, Registered, Alone
<1>9. CASE ~StopCancel(r) /\ ~StopPop(r)
  <2>1. entry' = entry /\ pc'[r] # "stop pop"
    BY <1>1, <1>9 DEF UnloadOrStop, RefuseUnload, PopSchedule, PopContext, StopSave,
       Return, Store, Sleep, Goto, Hold, IInv, Shapes, Places
  <2>2. Registered'
    BY <1>1, <1>4, <1>5, <2>1 DEF LoopInv, Registered
  <2>3. Alone'
    BY <1>1, <1>5, <2>1 DEF Alone
  <2> QED
    BY <1>3, <1>6, <2>2, <2>3 DEF LoopInv
<1> QED
  BY <1>7, <1>8, <1>9

(* A start that finds no active entry is alone: whoever went on would have *)
(* the entry.                                                              *)
LEMMA RequestAlone ==
  ASSUME Gentle, IInv, LoopInv, NEW r \in Requests, Request(r), \A l \in Loops : ~Spawn(r, l)
  PROVE  LoopInv'
<1>1. r \in Threads /\ r \notin Loops /\ \A q \in Requests : q = r
  BY ThreadsAssumption DEF Threads, Gentle
<1>2. UNCHANGED <<cancelled, abandoned>> /\ \A l \in Loops : pc'[l] = pc[l] /\ after'[l] = after[l]
  <2>1. UNCHANGED <<cancelled, abandoned>>
    BY DEF Request, BeginLoad, BeginStart, BeginStartSaved, BeginStop, BeginUnload, Pause, Unpause,
       PauseVerify, PushSchedule, PushContext, CheckRunning, StartCheck, StartState, SpawnFails,
       Register
  <2>2. UNCHANGED pc \/ \E place : Goto(r, place)
    BY DEF Request, BeginLoad, BeginStart, BeginStartSaved, BeginStop, BeginUnload, Pause, Unpause,
       PauseVerify, PushSchedule, PushContext, CheckRunning, StartCheck, StartState, SpawnFails,
       Register, StartFails, BeginAction, Goto
  <2>3. UNCHANGED after \/ \E next : after' = [after EXCEPT ![r] = next]
    BY DEF Request, BeginLoad, BeginStart, BeginStartSaved, BeginStop, BeginUnload, Pause, Unpause,
       PauseVerify, PushSchedule, PushContext, CheckRunning, StartCheck, StartState, SpawnFails,
       Register, StartFails, BeginAction
  <2>4. \A l \in Loops : pc'[l] = pc[l]
    BY <1>1, <2>2 DEF Goto, IInv, Shapes, Threads
  <2>5. \A l \in Loops : after'[l] = after[l]
    BY <1>1, <2>3 DEF IInv, Shapes, Threads
  <2> QED
    BY <2>1, <2>4, <2>5
<1>3. OnlyRun' /\ \A l \in Loops : GoesOn(l)' => GoesOn(l)
  BY <1>2 DEF LoopInv, OnlyRun, GoesOn, Unwound
<1>4. CASE Register(r)
  <2>a. pc[r] = "register" /\ entry = Placeholder
    BY <1>4 DEF Register, LoopInv, Announced
  <2>b. entry' = inHand[r] /\ Goto(r, "idle")
    BY <1>4, <2>a, EntriesAssumption DEF Register
  <2>1. entry = Placeholder /\ pc[r] = "register" /\ pc'[r] = "idle" /\ entry' = inHand[r]
    BY <1>1, <2>a, <2>b DEF Goto, IInv, Shapes
  <2>2. \A l \in Loops : GoesOn(l) => inHand[r] = l
    BY <1>1, <2>1, EntriesAssumption DEF LoopInv, Registered
  <2> QED
    BY <1>1, <1>3, <2>1, <2>2 DEF LoopInv, Registered, Announced, Alone
<1>5. CASE SpawnFails(r)
  <2>1. pc'[r] = "idle" /\ \A l \in Loops : ~GoesOn(l)
    BY <1>1, <1>5 DEF SpawnFails, StartFails, Goto, LoopInv, Alone, IInv, Shapes
  <2> QED
    BY <1>1, <1>3, <2>1 DEF LoopInv, Registered, Announced, Alone
<1>6. CASE StartCheck(r)
  <2>1. pc[r] = "start" /\ pc'[r] \in {"idle", "start state"} /\ entry' = entry
    BY <1>1, <1>6 DEF StartCheck, StartFails, Goto, IInv, Shapes
  <2>2. \A l \in Loops : GoesOn(l) => entry = l
    BY <1>1, <2>1 DEF LoopInv, Registered
  <2>3. pc'[r] = "start state" => \A l \in Loops : ~GoesOn(l)
    BY <1>1, <1>6, <2>1, <2>2 DEF StartCheck, StartFails, Goto, Active, GoesOn, Unwound, IInv, Shapes
  <2> QED
    BY <1>1, <1>3, <2>1, <2>2, <2>3 DEF LoopInv, Registered, Announced, Alone
<1>7. CASE StartState(r)
  <2>1. pc'[r] = "spawn" /\ \A l \in Loops : ~GoesOn(l)
    BY <1>1, <1>7 DEF StartState, Goto, LoopInv, Alone, IInv, Shapes
  <2> QED
    BY <1>1, <1>3, <2>1 DEF LoopInv, Registered, Announced, Alone
<1>8. CASE ~Register(r) /\ ~SpawnFails(r) /\ ~StartCheck(r) /\ ~StartState(r)
  <2>1. /\ entry' = entry /\ pc[r] # "register"
        /\ pc'[r] \notin {"register", "start state", "spawn", "stop pop"}
    BY <1>1, <1>8 DEF Request, BeginLoad, BeginStart, BeginStartSaved, BeginStop, BeginUnload, Pause,
       Unpause, PauseVerify, PushSchedule, PushContext, CheckRunning, BeginAction, Goto, IInv, Shapes
  <2> QED
    BY <1>1, <1>3, <2>1 DEF LoopInv, Registered, Announced, Alone
<1> QED
  BY <1>4, <1>5, <1>6, <1>7, <1>8

(* A start that got past its check makes the only coroutine that goes on,  *)
(* and is the one to register it.                                          *)
LEMMA SpawnAlone ==
  ASSUME Gentle, IInv, LoopInv, NEW r \in Requests, NEW l \in Loops, Spawn(r, l)
  PROVE  LoopInv'
<1>1. r \in Threads /\ l \in Threads /\ r # l /\ r \notin Loops /\ \A q \in Requests : q = r
  BY ThreadsAssumption DEF Threads, Gentle
<1>2. /\ pc'[r] = "register" /\ pc'[l] = "created" /\ inHand'[r] = l
      /\ \A m \in Loops : m # l => pc'[m] = pc[m]
      /\ UNCHANGED <<after, cancelled, abandoned>> /\ entry' = Placeholder
  <2>1. /\ UNCHANGED <<after, cancelled, abandoned>> /\ entry' = Placeholder
        /\ pc' = [pc EXCEPT ![r] = "register", ![l] = "created"]
        /\ inHand' = [inHand EXCEPT ![r] = l, ![l] = Last(schedules)]
    BY DEF Spawn
  <2>2. pc'[r] = "register" /\ pc'[l] = "created" /\ \A m \in Loops : m # l => pc'[m] = pc[m]
    BY <1>1, <2>1 DEF IInv, Shapes, Threads
  <2>3. inHand'[r] = l
    BY <1>1, <2>1 DEF IInv, Handles
  <2> QED
    BY <2>1, <2>2, <2>3
<1>3. \A m \in Loops : GoesOn(m)' => m = l
  BY <1>1, <1>2 DEF Spawn, LoopInv, Alone, GoesOn, Unwound
<1>4. OnlyRun'
  BY <1>2 DEF LoopInv, OnlyRun, Calling
<1> QED
  BY <1>1, <1>2, <1>3, <1>4 DEF LoopInv, Registered, Announced, Alone

(* What is resumed gets its entry in the same breath.                      *)
LEMMA RestartAlone ==
  ASSUME Gentle, IInv, LoopInv, NEW l \in Loops, Restart(l)
  PROVE  LoopInv'
<1>1. \A r \in Requests : pc'[r] = "idle"
  BY ThreadsAssumption DEF Restart, Threads
<1>2. \A m \in Loops : (GoesOn(m)' => entry' = m) /\ pc'[m] \in {"check", "done"} /\ after'[m] = "asleep"
  BY ThreadsAssumption DEF Restart, Threads, GoesOn, NoInstruction
<1> QED
  BY <1>1, <1>2 DEF LoopInv, OnlyRun, Registered, Announced, Alone, Calling

(* A coroutine that goes on has the entry of running_schedulers or is about *)
(* to get it, at any step of any start, stop, load, unload and restart.    *)
THEOREM LoopInvHolds == ASSUME Gentle PROVE Spec => [](IInv /\ LoopInv)
<1>1. IInv /\ LoopInv /\ [Next]_vars => LoopInv'
  <2> SUFFICES ASSUME IInv, LoopInv, [Next]_vars PROVE LoopInv'
    OBVIOUS
  <2>1. CASE \E r \in Requests : Request(r)
    <3>1. PICK r \in Requests : Request(r)
      BY <2>1
    <3>2. CASE \E l \in Loops : Spawn(r, l)
      BY <3>2, SpawnAlone
    <3>3. CASE \A l \in Loops : ~Spawn(r, l)
      BY <3>1, <3>3, RequestAlone
    <3> QED
      BY <3>2, <3>3
  <2>2. CASE \E l \in Loops : Coroutine(l) \/ Restart(l)
    BY <2>2, CoroutineAlone, RestartAlone
  <2>3. CASE \E t \in Threads : UnloadOrStop(t) \/ Store(t)
    <3>1. PICK t \in Threads : UnloadOrStop(t) \/ Store(t)
      BY <2>3
    <3>2. CASE t \in Requests
      BY <3>1, <3>2, StopAlone
    <3>3. CASE t \in Loops
      <4>1. ~UnloadOrStop(t)
        BY <3>3 DEF UnloadOrStop, RefuseUnload, PopSchedule, PopContext, StopCancel, StopPop, StopSave,
           LoopInv, OnlyRun, Calling
      <4> QED
        BY <3>1, <3>3, <4>1, CoroutineAlone
    <3> QED
      BY <3>2, <3>3 DEF Threads
  <2>4. CASE UNCHANGED vars
    BY <2>4 DEF vars, LoopInv, OnlyRun, Registered, Announced, Alone, GoesOn, Unwound
  <2> QED
    BY <2>1, <2>2, <2>3, <2>4 DEF Next
<1>2. Init => IInv /\ LoopInv
  BY InitTyped, InitAlone
<1> QED
  BY <1>1, <1>2, StepTyped, PTL DEF Spec

(* For any schedules with triggers that neither unload nor stop            *)
(* themselves, any number of coroutines and any restarts: if requests are  *)
(* answered one at a time, no two coroutines go on at the same time.       *)
THEOREM AtMostOneLoop == ASSUME Gentle PROVE Spec => []OneLoop
<1>1. IInv /\ LoopInv => OneLoop
  BY EntriesAssumption DEF LoopInv, Registered, Announced, Gentle, OneLoop
<1> QED
  BY <1>1, LoopInvHolds, PTL

(* For the same schedules, any number of coroutines and any restarts: once *)
(* a request is answered, the coroutine that goes on is the one in         *)
(* running_schedulers.                                                     *)
THEOREM TheLoopIsFound == ASSUME Gentle PROVE Spec => []StopFindsTheLoop
<1>1. IInv /\ LoopInv => StopFindsTheLoop
  BY DEF LoopInv, Registered, StopFindsTheLoop
<1> QED
  BY <1>1, LoopInvHolds, PTL

=============================================================================
