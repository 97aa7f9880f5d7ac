CONSTANTS
  TimeTriggers <- MCTimeTriggers
  EventTriggers <- MCEventTriggers
  FinalActions <- FinalWait
  ThrownKeys = {"a", "b", "c"}
  MaxThrows = 2
  MaxFirings = 1
SPECIFICATION Spec
PROPERTIES
  EventIsOwn
CHECK_DEADLOCK FALSE
