\* A schedule without triggers, which unloads itself.
SPECIFICATION LiveSpec

CONSTANTS
  Requests = {r}
  Loops = {l1, l2}
  Schedules = {s}
  Protected = {}
  Bare = {s}
  SelfUnload = TRUE
  MaxStack = 1
  Nothing = Nothing

PROPERTY
  StopEndsAll
CHECK_DEADLOCK FALSE
