SPECIFICATION Spec
CONSTANTS
    x = x
    b = b
    y = y
    c1 = c1
    c2 = c2
    nil = nil
    white = white
    none = none
    ScriptPaths <- MCScriptPaths
    FilePaths <- MCFilePaths
    Rank <- MCRank
    OrderOf <- MCOrderOf
    Sums <- MCSums
    Empty = nil
    Blank = white
    None = none
    InitialScripts <- OneScript
    Invocations <- Ordering
    Limit <- EditLimit
PROPERTIES
    OnchangeExact
    ScriptOrder
CHECK_DEADLOCK FALSE
