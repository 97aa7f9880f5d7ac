-------------------------- MODULE MCSchedulerLoop --------------------------
(* Model checking of SchedulerLoop with a schedule whose triggers have     *)
(* every combination of urgency the loop treats differently.               *)
EXTENDS SchedulerLoop

Trigger(key, block, important, urgent) ==
  [key |-> key, block |-> block, important |-> important, urgent |-> urgent]

Timed(block, important, urgent) ==
  [block |-> block, important |-> important, urgent |-> urgent]

MCTimeTriggers == <<Timed(<<"wait", "other">>, FALSE, FALSE)>>

MCEventTriggers ==
  << Trigger("a", <<"block", "other">>, FALSE, FALSE),
     Trigger("b", <<"wait", "normal">>, TRUE, FALSE),
     Trigger("c", <<"other", "unload">>, FALSE, TRUE) >>

(* Some schedules end with a wait before the next round, others unload     *)
(* themselves.                                                             *)
FinalWait == <<"other", "wait">>
FinalUnload == <<"other", "unload">>

=============================================================================
