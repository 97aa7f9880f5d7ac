---------------------------- MODULE MCSchedulerPage ----------------------------
(* Values of the constants of SchedulerPage for TLC.                        *)
EXTENDS SchedulerPage, TLC

CONSTANTS v, w, x, c1, c2

Symmetry == Permutations({c1, c2})
=============================================================================
