CONSTANTS
    sk = sk
    none = none
    Handshakes = {h1, h2}
    Mints = {m1}
    Keys = {sk}
    SecretKeys = {sk}
    Rpm <- MCRpm
    TokenBucket = tok
    Plans = {"free", "enterprise"}
    Quota <- MCQuota
    MaxTokens = 1
    LastWindow = 1
    LastDay = 1
    Origins = {o1, o2}
    Allowed = {o1}
    None = none
SPECIFICATION Spec
INVARIANTS TypeOK WindowLimit RefusalsAreEarned NoStandingObstacle
SYMMETRY Symmetry
CHECK_DEADLOCK FALSE
