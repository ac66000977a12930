SPECIFICATION FairSpec
CONSTANTS
    Builds = {b1}
    NoBuild = NoBuild
    NSteps = 1
    MaxAttempts = 2
    MaxRuns = 2
    NWorkers = 1
    Overrun = FALSE
    ForeignKeys = TRUE
    MaxOutages = 0
PROPERTIES
    BuildsEnd
CHECK_DEADLOCK FALSE
