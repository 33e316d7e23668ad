CONSTANTS
    BlockId = {b1, b2, b3}
    NoBlock = NoBlock
    Buffers = {buf}
    PageSize = 2
    MetaSize = 1
    MaxAlign = 2
    AlignLimit = 4
    MmapLimit = 14
    InitialSlots = 5
    WordMod = 64
    MemoryFails = TRUE
    ShrinkFails = FALSE
    Types = {"SCRATCH", "LINEAR", "POOL", "STACK"}
    Alignments = {2, 4}
    InitialSizes = {2, 3}
    Requests = {1, 3, 6}
    SnapshotBound = 3
    LiveBound = 8
SPECIFICATION CarefulSpec
SYMMETRY Headers
CHECK_DEADLOCK FALSE
INVARIANTS
    OnlyMemoryExhaustionAborts
    LiveInBounds
    LiveDisjoint
    LiveAligned
    MarksSeparateScopes
    SnapshotSlots
    CapacitiesDouble
PROPERTIES
    ImplementsCheckpoints
    SourceReleasedOnlyWhenStored
