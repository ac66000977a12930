SPECIFICATION FairSpec
CONSTANTS
    NJobs = 3
    w1 = w1
    w2 = w2
    NoWorker = NoWorker
    Workers <- MCWorkers
    MaxAttempts <- MCMaxAttempts
    Manual = {3}
    Kind <- MCKind
    Tags <- MCTags
    WKinds <- MCWKinds
    WTags <- MCWTags
    Handled <- MCHandled
    Overrun = FALSE
    MaxOutages = 2
INVARIANTS
    TypeOK
    LeaseHeld
    WithinBudget
PROPERTIES
    TerminalFinal
    ImplementsLifecycle
    JobsSettle
