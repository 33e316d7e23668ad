CONSTANTS
    WordMod = 128
    PageSize = 4
    MetaSize = 2
    AlignLimit = 8
    MmapLimit = 24
    Sizes = {6, 122}
    Aligns = {1, 8}
    SpaceEnd = 36
SPECIFICATION Spec
CHECK_DEADLOCK FALSE
INVARIANT RegionInsideMapping
