CONSTANT WordMod = 64
SPECIFICATION Spec
CHECK_DEADLOCK FALSE
INVARIANTS
    PowerOfTwoIsMaskTest
    AlignUpIsMask
