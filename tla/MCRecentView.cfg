CONSTANTS
    b1 = b1  b2 = b2  b3 = b3
    Batches = {b1, b2, b3}
    Initial <- MCInitial
    MaxAsked = 1
    MaxCalls = 2
    MaxActs = 1
SPECIFICATION Spec
CHECK_DEADLOCK FALSE
INVARIANTS
    TabHolds
    GenerationsAreAnswered
