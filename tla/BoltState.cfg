SPECIFICATION FairSpec
CONSTANTS
    Unread = unread
    Blank = blank
    MaxProcs = 3
    MaxFiles = 2
    MaxCalls = 3
    MaxPurges = 1
    MaxKills = 1
INVARIANTS
    TypeOK
    FailsByRival
PROPERTIES
    RecordStable
    AllEnd
CHECK_DEADLOCK FALSE
