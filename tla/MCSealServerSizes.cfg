SPECIFICATION Spec
CONSTANTS
    num_blocks = 1
    num_levels = 1
    bucket_size = 1
    A = A
    B = B
    a1 = a1
    aB = aB
    b1 = b1
    bd = bd
    kA = kA
    kB = kB
    dA = dA
    dB = dB
    Client = {A, B}
    Key = {kA, kB}
    Oram = {a1, aB, b1, bd}
    owner <- Owner
    map_key <- MapKey
    is_odict <- IsOdict
    oram_id <- OramId
    size <- Mixed
    Address = {0}
    Data = {dA, dB}
    NoData = NoData
    Content <- Contents
    MaxRestarts = 0
PROPERTIES
    MaxSizeKept
