CONSTANTS
  k1 = k1
  k2 = k2
  Keys = {k1, k2}
  Delays = {0, 1}
  Ttls = {1}
  Consumers = {FALSE}
  MaxEvents = 3
  MaxLag = 1
  MaxTime = 2
  MaxLoads = 1
SPECIFICATION LiveSpec
INVARIANTS TypeOK SavedIsKept EndsOncePerLoad
PROPERTIES GoneStaysGone  ImplementsWriteBackSet Drained
CHECK_DEADLOCK FALSE
