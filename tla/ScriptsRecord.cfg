SPECIFICATION Spec
CONSTANTS
    x = x
    b = b
    y = y
    c1 = c1
    c2 = c2
    nil = nil
    white = white
    none = none
    ScriptPaths <- MCScriptPaths
    FilePaths <- MCFilePaths
    Rank <- MCRank
    OrderOf <- MCOrderOf
    Sums <- MCSums
    Empty = nil
    Blank = white
    None = none
    InitialScripts <- MCScripts
    Invocations <- Recording
    Limit <- RecordLimit
INVARIANTS
    TypeOK
    OnceOnly
    RecordedRan
CHECK_DEADLOCK FALSE
