SPECIFICATION Spec
CONSTANTS
    d = d
    f = f
    g = g
    rw = rw
    ro = ro
    s1 = s1
    s2 = s2
    blank = blank
    none = none
    Targets <- MCTargets
    Above <- MCAbove
    Perms <- MCPerms
    Sums <- MCSums
    Blank <- MCBlank
    None = none
    Order <- MCOrder
    OptionSets <- TreeOptions
    SourceChoices <- TreeSource
    FsChoices <- TreeFs
    EditWhileRunning = TRUE
    Budget <- TreeBudget
PROPERTIES
    NoCollateralLoss
    CleanRunConverges
    CleanRunRecorded
    DryRunInert
CHECK_DEADLOCK FALSE
