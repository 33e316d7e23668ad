CONSTANTS
    WordMod = 128
    PageSize = 4
    MetaSize = 2
    AlignLimit = 8
    MmapLimit = 24
    Sizes = {0, 1, 6}
    Aligns = {1, 3, 8, 16}
    SpaceEnd = 36
SPECIFICATION Spec
CHECK_DEADLOCK FALSE
INVARIANTS
    TypeOK
    RegionInsideMapping
    RegionAligned
    HeaderIntact
