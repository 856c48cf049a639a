SPECIFICATION Spec
CONSTANTS
    Requests = {r1, r2}
    Plans = {"free", "enterprise"}
    Limit <- MCLimit
    Values = {1, 3}
    None = None
CHECK_DEADLOCK FALSE
SYMMETRY Symmetry
INVARIANT ActualTtlIsMin
