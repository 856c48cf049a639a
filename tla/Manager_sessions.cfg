SPECIFICATION FairSpec
CONSTANTS
    Sids = {s1, s2}
    Projects = {p1}
    Runners = {r1, r2}
    Caps = {1, 2}
    Unreliable = {s2}
    InboxMayFill = TRUE
    None = None
CHECK_DEADLOCK FALSE
INVARIANTS TypeOK AdmittedWithinCap RegistryConsistent OrphanHasPredecessor StopLeavesOnlyDisplaced AnnouncedIsRecorded
PROPERTY TerminationEnds
