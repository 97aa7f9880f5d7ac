------------------------ MODULE InstructionQueueSpec ------------------------
(***************************************************************************)
(* The instruction queue of one destination under every sequence of calls  *)
(* its callers can make.  The callers are the tick of run_scheduler_loop   *)
(* (push_block), its execution step (pop_next, peek_next_urgent followed   *)
(* by pop_next(urgent_only=True), remove_non_important for an EXIT_BLOCK)  *)
(* and stop/unload (clear).                                                *)
(*                                                                         *)
(* An instruction is named by the push that brought it, its place in its   *)
(* block and the length of that block.                                     *)
(***************************************************************************)
EXTENDS InstructionQueue

CONSTANTS
  BlockLengths, \* the lengths of the blocks the callers push
  MaxPushes     \* bound: how many blocks are pushed in a behaviour

ASSUME BlockLengthsAssumption == BlockLengths \subseteq Nat
ASSUME MaxPushesAssumption == MaxPushes \in Nat

VARIABLES
  held,  \* InstructionQueue.queue
  pushes, \* history: number of push_block calls so far
  done    \* history: done[b] instructions of the b-th block were popped

queueVars == <<held, pushes, done>>

BlockId == 1 .. MaxPushes

Numbered ==
  {x \in [block : BlockId, at : Nat \ {0}, of : Nat \ {0}] : x.at <= x.of}

NumberedEntry == [instr : Numbered, important : BOOLEAN, urgent : BOOLEAN]

QueueTypeOK ==
  /\ held \in Seq(NumberedEntry)
  /\ pushes \in 0 .. MaxPushes
  /\ done \in [BlockId -> Nat]

-----------------------------------------------------------------------------

QueueInit ==
  /\ held = <<>>
  /\ pushes = 0
  /\ done = [b \in BlockId |-> 0]

NumberedBlock(b, len) == [i \in 1 .. len |-> [block |-> b, at |-> i, of |-> len]]

QueuePush(len, important, urgent) ==
  /\ pushes < MaxPushes
  /\ pushes' = pushes + 1
  /\ held' = PushBlock(held, NumberedBlock(pushes + 1, len), important, urgent)
  /\ UNCHANGED done

CountPop(e) == done' = [done EXCEPT ![e.instr.block] = @ + 1]

PopNext ==
  /\ held # <<>>
  /\ held' = Tail(held)
  /\ CountPop(Head(held))
  /\ UNCHANGED pushes

PopNextUrgent ==
  /\ UrgentAt(held) # {}
  /\ held' = PopUrgent(held)
  /\ CountPop(held[UrgentIndex(held)])
  /\ UNCHANGED pushes

DropNonImportant ==
  /\ held' = RemoveNonImportant(held)
  /\ UNCHANGED <<pushes, done>>

Clear ==
  /\ held' = <<>>
  /\ UNCHANGED <<pushes, done>>

QueueNext ==
  \/ \E len \in BlockLengths, important, urgent \in BOOLEAN :
       QueuePush(len, important, urgent)
  \/ PopNext
  \/ PopNextUrgent
  \/ DropNonImportant
  \/ Clear

QueueSpec == QueueInit /\ [][QueueNext]_queueVars

-----------------------------------------------------------------------------
(* Properties *)

(* Entries that urgent preemption may drop stand together at the front and *)
(* all belong to one block, so that remove_non_important always drops the  *)
(* rest of a single block and never an instruction of two.                 *)
NonImportantFirst ==
  \A i, j \in 1 .. Len(held) :
    i < j /\ ~held[j].important =>
      /\ ~held[i].important
      /\ held[i].instr.block = held[j].instr.block

(* Urgent entries stand before all others, so that pop_next(urgent_only),  *)
(* which takes the first urgent entry from wherever it stands, never       *)
(* overtakes anything.                                                     *)
UrgentFirst ==
  \A i, j \in 1 .. Len(held) : i < j /\ held[j].urgent => held[i].urgent

(* What the queue holds of a block is the block's tail in order, without   *)
(* gap and starting after the last instruction popped: a block may be cut  *)
(* short, but it is never resumed in the middle, repeated or interleaved   *)
(* with another block.                                                     *)
Precedes(d, e) == e = [d EXCEPT !.instr.at = @ + 1]

BlocksKeepTheirOrder ==
  \A i \in 1 .. Len(held) :
    LET e == held[i] IN
    /\ \/ i > 1 /\ Precedes(held[i - 1], e)
       \/ /\ e.instr.at = done[e.instr.block] + 1
          /\ \A h \in 1 .. i - 1 : held[h].instr.block # e.instr.block
    /\ e.instr.at < e.instr.of => i < Len(held) /\ Precedes(e, held[i + 1])

(* An important entry leaves the queue only by being popped or by clear(): *)
(* neither a push, of whatever urgency, nor an EXIT_BLOCK loses one or     *)
(* makes one overtake another (push_block: "will not be removed by urgent  *)
(* preemption").                                                           *)
ImportantSurvives ==
  [][DropNonImportant \/ pushes' # pushes =>
       \A i, j \in ImportantAt(held) : i <= j =>
         \E k, l \in 1 .. Len(held') :
           /\ k <= l
           /\ held'[k] = held[i]
           /\ held'[l] = held[j]]_queueVars

=============================================================================
