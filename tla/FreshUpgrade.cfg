SPECIFICATION Spec
CONSTANTS
    Declared <- Models
    Undeclared <- MCUndeclared
    Scripts <- Chain
    Plans <- FreshPlans
    MaxRuns = 1
INVARIANTS
    UpgradesCleanly
CHECK_DEADLOCK FALSE
