SPECIFICATION FairSpec
CONSTANTS
    Handlers = {h1, h2}
    Tasks = {t1, t2}
    InboxMax = 1
    OutboxMax = 2
    None = None
CHECK_DEADLOCK FALSE
INVARIANTS TypeOK SingleReceiver SentinelIsLast NoStrayReceiver
PROPERTIES TurnReturns SentinelTaken
