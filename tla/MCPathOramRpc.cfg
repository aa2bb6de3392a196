SPECIFICATION Spec
CONSTANTS
    num_blocks = 2
    num_levels = 2
    bucket_size = 1
    Address = {0, 1}
    Data = {d1, d2}
    d1 = d1
    d2 = d2
    NoData = NoData
    MaxFailures = 2
SYMMETRY DataSymmetry
INVARIANTS
    FailureConfined
    CopiesBounded
PROPERTIES
    ImplementsPathOram
