SPECIFICATION DatabaseSpec
CONSTANTS
    Declared <- Models
    Undeclared <- MCUndeclared
    Scripts <- Chain
    Plans <- MCPlans
    MaxRuns = 4
    Designs <- Designs_
    SharedIn <- MayBeShared
    SilentTo <- Silent
    DoubledIn <- Doubled
    OrphanedIn <- Orphaned
    LostIn <- Lost
    Sessions = {s1, s2}
    MaxRequests = 3
    Starts <- MCStarts
    Classes <- MCClasses
    DistNames = {"tinydesk", "custom"}
    ProfileNames = {"orange-pi-5", "mine"}
INVARIANTS
    SchemaMatchesVersion
    RefsResolve
    EnumerationsFilled
    DesignTypeOK
    CertifiedIsCurrent
    HashMatchesTexts
    OneRowPerKey
    RowsOwned
    ParentsAreOwn
    CatalogueSettles
    PlansComplete
PROPERTIES
    SeedsOnlyAdd
CHECK_DEADLOCK FALSE
