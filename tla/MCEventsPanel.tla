---------------------------- MODULE MCEventsPanel ----------------------------
(***************************************************************************)
(* EventsPanel for TLC: one destination, which is the whole of the global  *)
(* scope, and events of one key.  (A second destination multiplies the     *)
(* states by more than ten.)                                               *)
(***************************************************************************)
EXTENDS EventsPanel

CONSTANTS d, k

MCDestOrder == <<d>>
MCGroups == {}
MCFallback == {{d}}
=============================================================================
