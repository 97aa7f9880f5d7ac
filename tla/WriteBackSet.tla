---------------------------- MODULE WriteBackSet ----------------------------
(***************************************************************************)
(* What the event store of a destination promises, whatever its keys,      *)
(* times and callers: a set that lives in memory and is written back to    *)
(* disk from time to time as a whole.  An element is born once.  It may    *)
(* come back from disk, but one that neither memory nor disk holds is gone *)
(* for good, and memory never forgets what the disk holds except by taking *)
(* it out.                                                                 *)
(***************************************************************************)
EXTENDS Naturals

VARIABLES
  born,    \* the elements 1 .. born have been added
  memory,  \* the elements held in memory
  durable  \* the elements in the last write-back

wvars == <<born, memory, durable>>

WInit ==
  /\ born = 0
  /\ memory = {}
  /\ durable = {}

Add ==
  /\ born' = born + 1
  /\ memory' = memory \union {born + 1}
  /\ UNCHANGED durable

Remove ==
  /\ memory' \subseteq memory
  /\ UNCHANGED <<born, durable>>

RemoveAndWriteBack ==
  /\ memory' \subseteq memory
  /\ durable' = memory'
  /\ UNCHANGED born

Restore ==
  /\ durable \subseteq memory'
  /\ memory' \subseteq memory \union durable
  /\ UNCHANGED <<born, durable>>

WNext == Add \/ Remove \/ RemoveAndWriteBack \/ Restore

WSpec == WInit /\ [][WNext]_wvars

=============================================================================
