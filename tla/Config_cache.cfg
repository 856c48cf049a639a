SPECIFICATION FairSpec
CONSTANTS
    Edits = {e1, e2}
    Connections = {c1, c2}
    Names = {a, b, c}
    MaxTools = 2
    None = None
CHECK_DEADLOCK FALSE
INVARIANTS TypeOK NamesUnique ToolsWithinPlan StaleIsExplained
PROPERTY CacheSettles
