CONSTANTS
    f1 = f1  f2 = f2  f3 = f3  today = today  older = older
    Files = {f1, f2, f3}
    Initial <- MCInitial
    Labels = {today, older}
    LabelOf <- MCLabelOf
    MaxCalls = 2
    MaxActs = 2
    Nothing = Nothing
SPECIFICATION Spec
CHECK_DEADLOCK FALSE
INVARIANTS
    GridHolds
    PatchedListAgrees
