CONSTANTS
    v = v  w = w  x = x  c1 = c1  c2 = c2
    Versions = {v, w}
    Protected = {w}
    Values = {x}
    Requests = {c1, c2}
    Empty = Empty  Broken = Broken  Nothing = Nothing
    MaxLayers = 2
    MaxActs = 4
SPECIFICATION Spec
SYMMETRY Symmetry
CHECK_DEADLOCK FALSE
INVARIANTS
    PageHolds
    PageAgrees
