SPECIFICATION Spec
CONSTANTS
    Keyword = {1, 2, 3}
    MaxRows = 3
    x = 2
    alpha = 1
    StreamLength = 16
    Streams <- SmallStreams
    FarId = 100
    MaxLost = 1
INVARIANTS
    TypeOK
    SearchExact
    VolumePadded
    OwnPairsOnly
    ThrowsForOwn
CHECK_DEADLOCK FALSE
