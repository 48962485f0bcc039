SPECIFICATION FairSpec
CONSTANTS
    d = d
    f = f
    g = g
    rw = rw
    ro = ro
    s1 = s1
    s2 = s2
    blank = blank
    none = none
    Targets <- MCTargets
    Above <- MCAbove
    Perms <- MCPerms
    Sums <- MCSums
    Blank <- MCBlank
    None = none
    Order <- MCOrder
    OptionSets <- KindOptions
    SourceChoices <- KindSource
    FsChoices <- KindFs
    EditWhileRunning = FALSE
    Budget <- KindBudget
PROPERTIES
    CleanRunConverges
    RunTerminates
CHECK_DEADLOCK FALSE
