CONSTANTS
    p1 = p1  p2 = p2  u1 = u1  t1 = t1  d1 = d1  a1 = a1
    Files = {p1, p2}
    Urls = {u1}
    Texts = {t1}
    Destinations = {d1}
    Workflows = {}
    Attempts = {a1}
    MaxImages = 2
    MaxReloads = 1
    Nothing = Nothing
SYMMETRY MCSymmetry
SPECIFICATION Spec
CHECK_DEADLOCK FALSE
INVARIANTS
    FormHolds
    
