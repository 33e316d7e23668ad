CONSTANTS
    BlockId = {b1, b2, b3}
    NoBlock = NoBlock
    Buffers = {buf}
    PageSize = 8
    MetaSize = 1
    MaxAlign = 4
    AlignLimit = 16
    MmapLimit = 24
    InitialSlots = 5
    WordMod = 128
    MemoryFails = TRUE
    ShrinkFails = TRUE
    Types = {"SCRATCH", "LINEAR", "POOL", "STACK", "COUNT", "OTHER"}
    Alignments = {0, 2, 3, 4, 16, 32}
    InitialSizes = {0, 2, 110, 123, 127}
    Requests = {0, 1, 3, 127}
    SnapshotBound = 2
    LiveBound = 2
SPECIFICATION Spec
SYMMETRY Headers
CHECK_DEADLOCK FALSE
INVARIANTS
    TypeOK
    HeapIsChain
    TopIsLast
    BlocksWithinRegion
    VerifyPredictsAlloc
