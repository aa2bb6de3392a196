SPECIFICATION RangeSpec
CONSTANTS
    MaxRows = 3
    alpha = 1
    StreamLength = 4
    Streams <- SmallStreams
    MaxLost = 1
INVARIANTS
    RangeTypeOK
    CoverComplete
    CoverTight
    SortedExact
    
CHECK_DEADLOCK FALSE
