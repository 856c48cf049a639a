SPECIFICATION FairSpec
CONSTANTS
    Sids = {s1}
    Projects = {p1}
    Runners = {r1}
    Caps = {1}
    Unreliable = {}
    InboxMayFill = FALSE
    None = None
CHECK_DEADLOCK FALSE
PROPERTY ShutdownCompletes
