SPECIFICATION FairSpec
CONSTANTS
    num_blocks = 3
    num_levels = 3
    bucket_size = 1
    Address = {0, 5}
    Data = {d1, d2}
    d1 = d1
    d2 = d2
    NoData = NoData
INVARIANTS
    TypeOK
    OnePlace
    BlockOnItsPath
    GreedyEviction
PROPERTIES
    ImplementsMemory
    AccessReturns
