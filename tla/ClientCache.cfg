SPECIFICATION FairSpec
CONSTANTS
    Id = {1, 2, 3}
    Value = {v1, v2}
    NoNode = NoNode
    Sizes = {2, 3}
    MaxCalls = 4
    MaxFailures = 1
INVARIANTS
    TypeOK
    TableOfCache
    NodesKept
    NothingBetween
    NothingLost
PROPERTIES
    EvictsOldest
    FlushEnds
