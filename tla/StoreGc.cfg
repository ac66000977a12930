SPECIFICATION Spec
CONSTANTS
    hotKey = hotKey
    stagingKey = stagingKey
    releaseKey = releaseKey
    Keys = {hotKey, stagingKey}
    Blobs = {b1, b2}
    NoBlob = NoBlob
    Class <- MCClass
    Writers = {w1, w2}
    Referenced = {stagingKey}
    Exclusive = TRUE
INVARIANTS
    TypeOK
    RowsPresent
    SweepComplete
SYMMETRY WriterSymmetry
CHECK_DEADLOCK FALSE
