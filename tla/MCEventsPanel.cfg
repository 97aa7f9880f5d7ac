SPECIFICATION Spec
CONSTANTS
  d = d
  k = k
  DestOrder <- MCDestOrder
  Keys = {k}
  Groups <- MCGroups
  Fallback <- MCFallback
  DefaultSize = 1
  PageSizes = {1, 2}
  Requests = {r1, r2}
  Nothing = Nothing
  MaxEvents = 2
  MaxFails = 1
  MaxActs = 2
 
PROPERTY PanelCatchesUp
CHECK_DEADLOCK FALSE
