-------------------------- MODULE InstructionQueue --------------------------
(***************************************************************************)
(* The methods of class InstructionQueue (routes/scheduler_queue.py), the  *)
(* per-destination deque of instructions, as operators on the deque's      *)
(* contents.  A deque is a sequence with its left end first.  An entry     *)
(* pairs an instruction with the two flags of the block it was pushed      *)
(* with; the queue never looks inside the instruction.                     *)
(*                                                                         *)
(* A method returns in the code what it reads and changes self.queue in    *)
(* place; here what it returns and what it leaves are two operators (for   *)
(* instance Head and Tail for pop_next()).                                 *)
(***************************************************************************)
EXTENDS Integers, Sequences, FiniteSets

(* make_instruction_entry *)
MakeEntry(instr, important, urgent) ==
  [instr |-> instr, important |-> important, urgent |-> urgent]

(* Deviation: the instructions are queued as they come. *)
EntriesBare(block, important, urgent) == block

Entries(block, important, urgent) ==
  [i \in 1 .. Len(block) |-> MakeEntry(block[i], important, urgent)]

(* The n-th smallest member of a finite set of integers. *)
Nth(S, n) == CHOOSE i \in S : Cardinality({j \in S : j <= i}) = n

ImportantAt(q) == {i \in 1 .. Len(q) : q[i].important}

(* remove_non_important: the important entries, in the order they had.     *)
(* Written over positions rather than with SelectSeq so that the provers,  *)
(* which have no induction, can work with it.                              *)
RemoveNonImportant(q) ==
  [n \in 1 .. Cardinality(ImportantAt(q)) |-> q[Nth(ImportantAt(q), n)]]

(* Deviations of push_block: a normal block is always appended; the flag   *)
(* important is looked at before urgent; an urgent block is put in front   *)
(* entry by entry without reversing it first; an urgent block drops all    *)
(* that is not urgent.                                                     *)
PushBlockAlways(q, block, important, urgent) ==
  IF urgent THEN Entries(block, important, urgent) \o RemoveNonImportant(q)
  ELSE q \o Entries(block, important, urgent)

PushBlockImportantFirst(q, block, important, urgent) ==
  IF important THEN q \o Entries(block, important, urgent)
  ELSE IF urgent THEN Entries(block, important, urgent) \o RemoveNonImportant(q)
  ELSE IF q = <<>> THEN Entries(block, important, urgent)
  ELSE q

PushBlockUnreversed(q, block, important, urgent) ==
  LET es == Entries(block, important, urgent) IN
  IF urgent
  THEN [i \in 1 .. Len(es) |-> es[Len(es) + 1 - i]] \o RemoveNonImportant(q)
  ELSE IF important \/ q = <<>> THEN q \o es
  ELSE q

PushBlockPreemptsAll(q, block, important, urgent) ==
  IF block = <<>> THEN q
  ELSE IF urgent
  THEN Entries(block, important, urgent) \o SelectSeq(q, LAMBDA e : e.urgent)
  ELSE IF important \/ q = <<>> THEN q \o Entries(block, important, urgent)
  ELSE q

(* push_block.  An urgent block drops what is not important and goes to    *)
(* the front, an important one goes to the back, a normal one is taken     *)
(* only by an empty queue and is otherwise dropped.                        *)
PushBlock(q, block, important, urgent) ==
  IF block = <<>> THEN q
  ELSE IF urgent THEN Entries(block, important, urgent) \o RemoveNonImportant(q)
  ELSE IF important \/ q = <<>> THEN q \o Entries(block, important, urgent)
  ELSE q

UrgentAt(q) == {i \in 1 .. Len(q) : q[i].urgent}

(* The position peek_next_urgent() marks; it has none when UrgentAt is {}. *)
UrgentIndex(q) == CHOOSE i \in UrgentAt(q) : \A j \in UrgentAt(q) : i <= j

(* What pop_next(urgent_only=True) leaves, wherever the entry stands. *)
PopUrgent(q) ==
  SubSeq(q, 1, UrgentIndex(q) - 1) \o SubSeq(q, UrgentIndex(q) + 1, Len(q))

=============================================================================
