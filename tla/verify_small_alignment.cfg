CONSTANTS
    BlockId = {b1, b2, b3}
    NoBlock = NoBlock
    Buffers = {buf}
    PageSize = 2
    MetaSize = 1
    MaxAlign = 2
    AlignLimit = 4
    MmapLimit = 14
    InitialSlots = 5
    WordMod = 64
    MemoryFails = FALSE
    ShrinkFails = FALSE
    Types = {"LINEAR"}
    Alignments = {1, 2}
    InitialSizes = {2}
    Requests = {1, 3}
    SnapshotBound = 2
    LiveBound = 8
SPECIFICATION Spec
SYMMETRY Headers
CHECK_DEADLOCK FALSE
PROPERTIES
    VerifiedRequestPassesChecks
