SPECIFICATION FairSpec
CONSTANTS
    Builds = {b1, b2}
    NoBuild = NoBuild
    NSteps = 1
    MaxAttempts = 2
    MaxRuns = 2
    NWorkers = 2
    Overrun = FALSE
    ForeignKeys = TRUE
    MaxOutages = 1
INVARIANTS
    TypeOK
    SuccessIsEarned
    IdleIsDecided
PROPERTIES
    
    ImplementsLifecycle
CHECK_DEADLOCK FALSE
