---------------------------- MODULE MCEventStore ----------------------------
(* Model checking of EventStore.                                           *)
EXTENDS EventStore, TLC

CONSTANTS k1, k2

(* Keys are only compared with each other. *)
KeySymmetry == Permutations(Keys)

=============================================================================
