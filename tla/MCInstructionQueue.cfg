CONSTANTS
  BlockLengths = {0, 1, 2, 3}
  MaxPushes = 4
SPECIFICATION QueueSpec
INVARIANTS
  QueueTypeOK
  NonImportantFirst
  UrgentFirst
  BlocksKeepTheirOrder
PROPERTY ImportantSurvives
