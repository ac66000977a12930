SPECIFICATION FairSpec
CONSTANTS
    Builds = {b1}
    NoBuild = NoBuild
    NSteps = 2
    MaxAttempts = 2
    MaxRuns = 3
    NWorkers = 2
    Overrun = TRUE
    ForeignKeys = TRUE
    MaxOutages = 1
INVARIANTS
    SuccessIsEarned
    NoOrphanSteps
    StepsInOrder
    IdleIsDecided
PROPERTIES
    BuildsIdle
CHECK_DEADLOCK FALSE
