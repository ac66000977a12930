SPECIFICATION Spec
CONSTANTS
    hotKey = hotKey
    stagingKey = stagingKey
    releaseKey = releaseKey
    Keys = {hotKey, releaseKey}
    Blobs = {b1}
    NoBlob = NoBlob
    Class <- MCClass
    Writers = {w1, w2}
    Referenced = {}
    Exclusive = FALSE
INVARIANTS
    RowsWhole
PROPERTIES
    ProtectedKept
    PinnedKept
SYMMETRY WriterSymmetry
CHECK_DEADLOCK FALSE
