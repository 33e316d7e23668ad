------------------------------ MODULE ArenaState ------------------------------
(***************************************************************************)
(* The structures of arena_internal.h, the memory interface every allocator *)
(* calls (malloc, free, safe_aligned_alloc, safe_aligned_free) and the      *)
(* bookkeeping the properties are stated over.  The allocator modules       *)
(* extend this one; Arena composes them.                                    *)
(***************************************************************************)
EXTENDS Pages, SequencesExt

CONSTANTS
    BlockId,        \* the addresses malloc can give a MemoryBlock header
    NoBlock,        \* the null MemoryBlock pointer
    Buffers,        \* the caller's source pointers (memory_arena_move, _copy)
    MaxAlign,       \* _Alignof(max_align_t)
    InitialSlots,   \* INITIAL_STACK_SNAPSHOT_SIZE
    MemoryFails,    \* may malloc, mmap and a growing realloc fail?
    ShrinkFails     \* may a shrinking realloc fail?

ASSUME BlockAssumption == NoBlock \notin BlockId
\* sizeof(Metadata) is 8 or 16, never more than _Alignof(max_align_t).
ASSUME MaxAlignAssumption == MaxAlign \in Word \ {0} /\ MetaSize <= MaxAlign
ASSUME SlotAssumption == InitialSlots \in Nat \ {0}
ASSUME FailureAssumption == {MemoryFails, ShrinkFails} \subseteq BOOLEAN

VARIABLES
    status,      \* "running", the error code of the abort, or "undefined"
    arena,       \* *arena, or NullArena: type, alignment and pool_size
    heap,        \* the MemoryBlock headers malloc'd and not yet freed
    chain,       \* memory_block and the blocks its next pointers lead to
    block,       \* the fields of each header, and the bytes mapped behind it
    top,         \* stackAllocatorState.top
    snapshots,   \* snapshots[0 .. snapshot_count - 1]
    max_size,    \* stackAllocatorState.max_size
    array,       \* "ok", or "null" when the snapshots pointer is NULL
    ext,         \* the caller's pointers: "held" memory of its own, or "null"
    live         \* ghost: the allocations the client may still use

structure == <<arena, heap, chain, block, top>>
stackState == <<snapshots, max_size, array>>
vars == <<status, structure, stackState, ext, live>>

Strategies == {"SCRATCH", "LINEAR", "STACK", "POOL"}

\* The codes of the checks that can fail here.  Those of safe_aligned_free (E302)
\* are in MappedMemory; the E414 and E415 of create compare fields it has just set.
MemoryErrors == {"E101", "E102", "E103", "E104"}
PointerErrors == {"E201"}
ArenaErrors == {"E401", "E402", "E403"}
StateErrors == {"E501", "E502"}
Statuses == {"running", "undefined"} \cup MemoryErrors \cup PointerErrors
            \cup ArenaErrors \cup StateErrors
NullArena == [allocator_type |-> "NONE", alignment |-> 0, pool_size |-> 0]
Snapshot == [top : BlockId, allocated : Word, capacity : Word]
Blank == [capacity |-> 0, allocated |-> 0, region |-> 0]

Open == arena # NullArena
Running == status = "running"

\* INVARIANT(expr, code) with expr false: log_and_crash, the process is gone.
Abort(code) == /\ status' = code
               /\ UNCHANGED <<structure, stackState, ext, live>>

-------------------------------------------------------------------------------
(* The memory interface.                                                     *)

\* malloc of a header and safe_aligned_alloc of its region, whose mapping may be
\* shorter than the capacity the header is given.
NewBlock(capacity, a, allocated) ==
    [capacity |-> capacity, allocated |-> allocated, region |-> UsableBytes(capacity, a)]

\* A header freed and its region unmapped.
Freed(blocks) == [b \in BlockId |-> IF b \in blocks THEN Blank ELSE block[b]]

-------------------------------------------------------------------------------
(* What the four allocators compute for one block.                           *)

\* The next free offset, not aligned.
FreeOffset(b) == block[b].allocated

\* The first aligned offset at or after the bytes already given out.  The
\* region is aligned, so the offset is aligned exactly when the address is.
AlignedOffset(b) == AlignUp(block[b].allocated, arena.alignment)

\* offset + n, the bytes a request for n takes from b.
TakenBytes(b, n) == AddW(n, Padding(block[b].allocated, arena.alignment))

\* The comparison without the padding.
FitsUnpadded(b, n) == n <= SubW(block[b].capacity, block[b].allocated)

FitsIn(b, n) == TakenBytes(b, n) <= SubW(block[b].capacity, block[b].allocated)

\* The caller gets `size` bytes at offset lo of b; depth is the number of
\* snapshots recorded before it.
Hand(b, lo, size) ==
    live' = live \cup {[block |-> b, lo |-> lo, size |-> size, depth |-> Len(snapshots)]}

\* The fill level advances by the request but not by its padding.
TakeUnpadded(b, n, size) ==
    /\ block' = [block EXCEPT ![b].allocated = AddW(@, n)]
    /\ Hand(b, AlignedOffset(b), size)
    /\ UNCHANGED <<heap, chain>>

\* The request for `size` bytes takes n bytes of b (POOL rounds size up to n).
TakeFrom(b, n, size) ==
    /\ block' = [block EXCEPT ![b].allocated = AddW(@, TakenBytes(b, n))]
    /\ Hand(b, AlignedOffset(b), size)
    /\ UNCHANGED <<heap, chain>>

\* Capacities doubled from the head's instead of the last block's.
GrownFromHead(k) == Doublings(block[Head(chain)].capacity)[k]

\* The capacity of the k-th block appended after the last one: each has twice
\* the capacity of the one before it.
GrownCapacity(k) == Doublings(block[Last(chain)].capacity)[k]

\* A reset that drops the next pointer without freeing what it leads to.
ResetWithoutFree ==
    /\ chain' = <<Head(chain)>>
    /\ block' = [block EXCEPT ![Head(chain)].allocated = 0]
    /\ UNCHANGED heap

\* memset(memory_block->memory, 0, allocated), allocated = 0, and the blocks
\* after the head freed: the four *_reset functions.
ResetToHead ==
    /\ chain' = <<Head(chain)>>
    /\ heap' = {Head(chain)}
    /\ block' = [Freed(heap \ {Head(chain)}) EXCEPT ![Head(chain)].allocated = 0]
===============================================================================
