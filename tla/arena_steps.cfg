CONSTANTS
    BlockId = {b1, b2, b3}
    NoBlock = NoBlock
    PageSize = 32
    MetaSize = 2
    MaxAlign = 4
    AlignLimit = 8
    MmapLimit = 32
    InitialSlots = 5
    WordMod = 256
    SpaceEnd = 128
    Types = {"SCRATCH", "LINEAR", "POOL", "STACK", "COUNT", "OTHER"}
    Alignments = {2, 3, 4}
    InitialSizes = {3}
    Requests = {0, 1, 7}
    SnapshotBound = 1
    LiveBound = 2
SPECIFICATION Spec
CHECK_DEADLOCK FALSE
INVARIANTS
    BlocksOwnRegions
    NoDanglingNext
    HandedOutInRegion
PROPERTIES
    ImplementsArena
    CallsEnd
    IterationsCountDown
