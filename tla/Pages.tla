--------------------------------- MODULE Pages ---------------------------------
(***************************************************************************)
(* The sizes safe_aligned_alloc asks the kernel for.                        *)
(***************************************************************************)
EXTENDS Words

CONSTANTS
    PageSize,       \* sysconf(_SC_PAGESIZE)
    MetaSize,       \* sizeof(Metadata)
    AlignLimit,     \* 1 << 16, the largest alignment safe_aligned_alloc takes
    MmapLimit       \* the largest mapping the kernel grants

ASSUME PagesAssumption ==
    /\ {PageSize, MetaSize, AlignLimit, MmapLimit} \subseteq Word \ {0}
    /\ 2 * MmapLimit + AlignLimit + MetaSize + PageSize < WordMod

\* The length without the slack that aligning the region may cost.
TotalSizeWithoutSlack(size, a) == AlignUp(AddW(size, MetaSize), PageSize)

\* The length mapped: the region, slack to align it and the header, rounded up
\* to whole pages.  Each sum is on size_t.
TotalSize(size, a) == AlignUp(AddW(AddW(size, a), MetaSize), PageSize)

\* safe_aligned_alloc can succeed: it aborts on size zero (E101), and when
\* mmap refuses the mapping (E104).
Mappable(size, a) == /\ size \in Word \ {0}
                     /\ TotalSize(size, a) \in 1..MmapLimit

\* The bytes left in the mapping behind the pointer safe_aligned_alloc returns,
\* at least, wherever the kernel puts it: the pointer is at most AlignUp(MetaSize,
\* a) bytes into the mapping.
RoomBehind(size, a) == TotalSize(size, a) - AlignUp(MetaSize, a)

\* The part of the region certain to lie in its mapping.  It is the whole of it,
\* unless the length of the mapping wrapped.
UsableBytes(size, a) ==
    IF RoomBehind(size, a) < 0 THEN 0
    ELSE IF RoomBehind(size, a) < size THEN RoomBehind(size, a) ELSE size
================================================================================
