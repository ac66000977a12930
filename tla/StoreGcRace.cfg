SPECIFICATION Spec
CONSTANTS
    hotKey = hotKey
    stagingKey = stagingKey
    releaseKey = releaseKey
    Keys = {hotKey, stagingKey}
    Blobs = {b1, b2}
    NoBlob = NoBlob
    Class <- MCClass
    Writers = {w1}
    Referenced = {}
    Exclusive = FALSE
PROPERTIES
    ReferencedKept
CHECK_DEADLOCK FALSE
