CONSTANTS
  TimeTriggers <- MCTimeTriggers
  EventTriggers <- MCEventTriggers
  FinalActions <- FinalWait
  ThrownKeys = {"a", "b", "c", "normal", "immediate"}
  MaxThrows = 2
  MaxFirings = 2
SPECIFICATION LiveSpec
INVARIANTS
  TypeOK
  EventDataIsThere
  UrgentEventsActAtOnce
PROPERTIES
  
  ImportantLeaves
  EventsAreHeard
CHECK_DEADLOCK FALSE
