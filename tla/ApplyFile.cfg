SPECIFICATION Spec
CONSTANTS
    d = d
    f = f
    g = g
    rw = rw
    ro = ro
    s1 = s1
    s2 = s2
    blank = blank
    none = none
    Targets <- MCTargets
    Above <- MCAbove
    Perms <- MCPerms
    Sums <- MCSums
    Blank <- MCBlank
    None = none
    Order <- MCOrder
    OptionSets <- FileOptions
    SourceChoices <- FileSource
    FsChoices <- FileFs
    EditWhileRunning = TRUE
    Budget <- FileBudget
INVARIANTS
    TypeOK
    RecordFaithful
    NoSpuriousPrompt
PROPERTIES
    NoSilentOverwrite
    PreExistingAsked
CHECK_DEADLOCK FALSE
