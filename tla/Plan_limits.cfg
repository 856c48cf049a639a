SPECIFICATION Spec
CONSTANTS
    Requests = {r1, r2, r3, r4}
    Plans = {"free", "enterprise"}
    Limit <- MCLimit
    Values = {1, 3}
    None = None
CHECK_DEADLOCK FALSE
SYMMETRY Symmetry
INVARIANTS TypeOK ExcessNeedsRace CapsOfAPlanHeld
