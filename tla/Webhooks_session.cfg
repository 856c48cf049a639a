SPECIFICATION FairSpec
CONSTANTS
    MaxCalls = 3
    None = None
CHECK_DEADLOCK FALSE
INVARIANTS TypeOK RecordMatchesEvent
PROPERTIES QuietAfterClosed SettledIsNotRetried RequestsEnd
