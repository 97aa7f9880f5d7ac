------------------------ MODULE MCScheduleLifecycle ------------------------
(* One destination, one thread for requests, two or three coroutines.      *)
EXTENDS ScheduleLifecycle, TLC

Symmetry == Permutations(Loops)

=============================================================================
