------------------------------ MODULE MappedMemory ------------------------------
(***************************************************************************)
(* memory_allocation_internal.c: aligned regions carved out of kernel       *)
(* mappings, each with a Metadata header in front of it that tells          *)
(* safe_aligned_free what to unmap.  Bytes are abstracted to what the       *)
(* headers hold; the kernel's side of mmap and munmap is modelled from its  *)
(* use here.                                                                *)
(***************************************************************************)
EXTENDS Pages, FiniteSets

CONSTANTS
    Sizes,          \* the sizes a caller asks for
    Aligns,         \* the alignments a caller asks for
    SpaceEnd        \* bound of the model: end of the user address space

ASSUME InputAssumption == Sizes \cup Aligns \cup {SpaceEnd} \subseteq Word
ASSUME SpaceAssumption == SpaceEnd + AlignLimit < WordMod

VARIABLES
    state,          \* "running" or the error code of the abort
    mapped,         \* the kernel's mappings
    header,         \* Metadata at each address that holds one
    regions         \* ghost: what callers hold, by returned pointer

mvars == <<state, mapped, header, regions>>

Address == PageSize..(SpaceEnd - 1)
Metadata == [base : Word, total_size : Word]
Mappings == [base : Address, length : 1..MmapLimit]
Regions == [ptr : Address, size : Word \ {0},
            alignment : {a \in 1..AlignLimit : IsPowerOfTwo(a)}]

Bytes(base, length) == base..(base + length - 1)
Footprint(r) == Bytes(r.ptr - MetaSize, MetaSize + r.size)

Init ==
    /\ state = "running"
    /\ mapped = {}
    /\ header = << >>
    /\ regions = {}

Crash(code) == state' = code /\ UNCHANGED <<mapped, header, regions>>

-------------------------------------------------------------------------------
\* Where mmap(NULL, length) may put a mapping: whole pages nothing else uses.
FreeBases(length) ==
    {base \in Address :
        /\ base % PageSize = 0
        /\ base + length <= SpaceEnd
        /\ \A m \in mapped : Bytes(base, length) \cap Bytes(m.base, m.length) = {}}

\* The checks without the upper limit on the alignment.
AllocErrorAnyAlignment(size, a) ==
    IF size = 0 THEN "E101"
    ELSE IF ~IsPowerOfTwo(a) THEN "E102"
    ELSE IF ~Mappable(size, a) \/ FreeBases(TotalSize(size, a)) = {} THEN "E104"
    ELSE "none"

AllocError(size, a) ==
    IF size = 0 THEN "E101"
    ELSE IF ~IsPowerOfTwo(a) THEN "E102"
    ELSE IF a > AlignLimit THEN "E103"
    ELSE IF ~Mappable(size, a) \/ FreeBases(TotalSize(size, a)) = {} THEN "E104"
    ELSE "none"

\* The first address past a header, not aligned.
FirstAddress(base, a) == AddW(base, MetaSize)

\* (addr + alignment - 1) & ~(alignment - 1) of the first address past a header.
AlignedAddress(base, a) == AlignUp(AddW(base, MetaSize), a)

SafeAlignedAlloc(size, a) ==
    /\ state = "running"
    /\ \/ AllocError(size, a) # "none" /\ Crash(AllocError(size, a))
       \/ /\ AllocError(size, a) = "none"
          /\ \E base \in FreeBases(TotalSize(size, a)) :
                LET total == TotalSize(size, a)
                    ptr == AlignedAddress(base, a)
                IN  /\ mapped' = mapped \cup {[base |-> base, length |-> total]}
                    /\ header' = [p \in DOMAIN header \cup {ptr - MetaSize} |->
                                    IF p = ptr - MetaSize
                                    THEN [base |-> base, total_size |-> total]
                                    ELSE header[p]]
                    /\ regions' = regions \cup {[ptr |-> ptr, size |-> size, alignment |-> a]}
                    /\ UNCHANGED state

-------------------------------------------------------------------------------
\* The memset one page too long.
WipedPastEnd(base, length) ==
    [p \in DOMAIN header |->
        IF Bytes(p, MetaSize) \cap Bytes(base, length + PageSize) = {}
        THEN header[p] ELSE [base |-> 0, total_size |-> 0]]

\* memset(base, 0, length) over every header it touches (the DEBUG build, which
\* would write a poison byte, does not compile).
Wiped(base, length) ==
    [p \in DOMAIN header |->
        IF Bytes(p, MetaSize) \cap Bytes(base, length) = {}
        THEN header[p] ELSE [base |-> 0, total_size |-> 0]]

\* munmap(base, length): EINVAL, unreported, unless base is a page boundary
\* and length is positive.
Unmapped(base, length) ==
    IF base % PageSize = 0 /\ length > 0
    THEN {m \in mapped : Bytes(m.base, m.length) \cap Bytes(base, length) = {}}
    ELSE mapped

FreeError(meta) == IF meta.base = 0 THEN "E201"
                   ELSE IF meta.total_size = 0 THEN "E302" ELSE "none"

\* The memset covers the header it took base and total_size from, so munmap is
\* called with what the memset left there.
SafeAlignedFree(r) ==
    LET at == r.ptr - MetaSize
        meta == header[at]
        left == Wiped(meta.base, meta.total_size)
    IN  /\ state = "running"
        /\ \/ FreeError(meta) # "none" /\ Crash(FreeError(meta))
           \/ /\ FreeError(meta) = "none"
              /\ header' = left
              /\ mapped' = Unmapped(left[at].base, left[at].total_size)
              /\ regions' = regions \ {r}
              /\ UNCHANGED state

Next ==
    \/ \E size \in Sizes, a \in Aligns : SafeAlignedAlloc(size, a)
    \/ \E r \in regions : SafeAlignedFree(r)

Spec == Init /\ [][Next]_mvars

-------------------------------------------------------------------------------
TypeOK ==
    /\ state \in {"running", "E101", "E102", "E103", "E104", "E201", "E302"}
    /\ mapped \subseteq Mappings
    /\ DOMAIN header \subseteq Word /\ \A p \in DOMAIN header : header[p] \in Metadata
    /\ regions \subseteq Regions

\* The header and every byte of a region lie in one mapping, whatever the
\* alignment costs (memory_allocation_internal.h promises size usable bytes).
RegionInsideMapping ==
    \A r \in regions : \E m \in mapped : Footprint(r) \subseteq Bytes(m.base, m.length)

\* Every pointer handed out is a multiple of the alignment asked for, also when
\* it is larger than a page: the allocators' offset arithmetic relies on it.
RegionAligned == \A r \in regions : r.ptr % r.alignment = 0

\* Freeing one region leaves the header of every other as safe_aligned_alloc
\* wrote it: it names the mapping its region lies in, and no free crashes.
HeaderIntact ==
    /\ \A r \in regions : \E m \in mapped :
          /\ header[r.ptr - MetaSize] = [base |-> m.base, total_size |-> m.length]
          /\ r.ptr \in Bytes(m.base, m.length)
    /\ state \notin {"E201", "E302"}

\* A region freed is memory returned: every mapping belongs to a region some
\* caller holds (arena.h: destroy frees all memory allocated to the arena).
FreedIsUnmapped ==
    \A m \in mapped : \E r \in regions : r.ptr \in Bytes(m.base, m.length)
================================================================================
