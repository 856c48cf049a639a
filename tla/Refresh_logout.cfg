SPECIFICATION Spec
CONSTANTS
    Tokens = {t1, t2}
    Tenants = {n1}
    Entries = {e1}
    Refreshes = {r1}
    None = None
CHECK_DEADLOCK FALSE
INVARIANT LogoutIsFinal
