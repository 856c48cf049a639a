SPECIFICATION Spec
CONSTANTS
    Tokens = {t1, t2, t3, t4}
    Tenants = {n1, n2}
    Entries = {e1, e2}
    Refreshes = {r1, r2, r3}
    None = None
CHECK_DEADLOCK FALSE
SYMMETRY Symmetry
INVARIANTS TypeOK ForkNeedsRace FamilyHasOneTenant TokensNeedPassword
PROPERTY SessionSpec
