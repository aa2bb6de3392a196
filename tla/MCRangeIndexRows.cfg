SPECIFICATION RangeSpec
CONSTANTS
    MaxRows = 2
    alpha = 1
    StreamLength = 4
    Streams <- SmallStreams
    MaxLost = 1
INVARIANTS
    RangeExact
CHECK_DEADLOCK FALSE
