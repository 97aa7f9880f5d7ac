\* Schedules with triggers that do not unload or stop themselves.
SPECIFICATION Spec

CONSTANTS
  Requests = {r}
  Loops = {l1, l2, l3}
  Schedules = {s, t}
  Protected = {t}
  Bare = {}
  SelfUnload = FALSE
  MaxStack = 1
  Nothing = Nothing

SYMMETRY Symmetry
INVARIANTS
  TypeOK
  
  
CHECK_DEADLOCK FALSE
