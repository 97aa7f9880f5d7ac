------------------------- MODULE MCInstructionQueue -------------------------
(* Model checking of InstructionQueueSpec. *)
EXTENDS InstructionQueueSpec

(* The definition of remove_non_important over positions that the proofs   *)
(* use agrees with the code's list comprehension on every queue of up to   *)
(* five entries.                                                           *)
ASSUME RemoveNonImportantIsAFilter ==
  \A n \in 0 .. 5 :
    \A q \in [1 .. n -> [important : BOOLEAN, at : {n}]] :
      LET numbered == [i \in 1 .. n |-> [q[i] EXCEPT !.at = i]] IN
      RemoveNonImportant(numbered) = SelectSeq(numbered, LAMBDA e : e.important)

=============================================================================
