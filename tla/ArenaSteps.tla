------------------------------ MODULE ArenaSteps ------------------------------
(***************************************************************************)
(* The calls that follow next pointers, one iteration at a time and on      *)
(* absolute addresses: the allocators over headers from malloc and regions  *)
(* from MappedMemory, whose operations are steps of theirs.  Arena does     *)
(* each call in one step and with offsets; this module shows that the loops *)
(* of the code implement it, and that they end.                             *)
(***************************************************************************)
EXTENDS Pages, SequencesExt, FiniteSets

CONSTANTS
    BlockId,        \* the addresses malloc can give a MemoryBlock header
    NoBlock,        \* the null MemoryBlock pointer
    MaxAlign,       \* _Alignof(max_align_t)
    InitialSlots,   \* INITIAL_STACK_SNAPSHOT_SIZE
    Types, Alignments, InitialSizes, Requests,      \* what a caller passes
    SnapshotBound,  \* bound of the model: snapshots outstanding at a time
    LiveBound,      \* bound of the model: allocations outstanding at a time
    SpaceEnd        \* bound of the model: end of the user address space

ASSUME BlockAssumption == NoBlock \notin BlockId /\ IsFiniteSet(BlockId)
ASSUME WidthAssumption == IsPowerOfTwo(WordMod)
ASSUME SpaceAssumption == SpaceEnd + AlignLimit < WordMod
\* More than Arena asks: no initial size wraps the length of its mapping.
ASSUME InputAssumption ==
    /\ Alignments \cup InitialSizes \cup Requests \cup {SpaceEnd} \subseteq Word
    /\ \A n \in InitialSizes, a \in Alignments :
          IsPowerOfTwo(a) => \/ n + 2 * a + MetaSize + PageSize < WordMod
                             \/ AlignUp(n, a) = 0
ASSUME SlotAssumption == InitialSlots \in Nat

VARIABLES
    state, mapped, header, regions,     \* the variables of MappedMemory
    arena,      \* *arena with its stackAllocatorState, or NoArena
    heap,       \* the MemoryBlock headers malloc'd and not yet freed
    block,      \* the fields of each header
    call,       \* where the call in progress is, and its locals
    live        \* ghost: the allocations the client may still use

kernel == <<mapped, header, regions>>
svars == <<state, kernel, arena, heap, block, call, live>>

Memory == INSTANCE MappedMemory WITH Sizes <- InitialSizes, Aligns <- Alignments

NoArena == [allocator_type |-> "NONE", alignment |-> 0, pool_size |-> 0, memory_block |-> NoBlock,
            top |-> NoBlock, snapshots |-> <<>>, max_size |-> 0]
Blank == [memory |-> 0, next |-> NoBlock, capacity |-> 0, allocated |-> 0]

\* at: the statement reached; block: current_block or current; fresh: the
\* headers this call has malloc'd; size and need: the request, and POOL's
\* rounded one.
NoCall == [at |-> "idle", op |-> "none", block |-> NoBlock, fresh |-> <<>>, size |-> 0, need |-> 0]

Init ==
    /\ Memory!Init
    /\ arena = NoArena
    /\ heap = {} /\ block = [b \in BlockId |-> Blank]
    /\ call = NoCall /\ live = {}

Idle == state = "running" /\ call = NoCall
At(place) == state = "running" /\ call.at = place
Open == arena # NoArena
IsType(type) == arena.allocator_type = type

\* A failed INVARIANT leaves everything as it is, the call half way included.
Crash(code) == Memory!Crash(code) /\ UNCHANGED <<arena, heap, block, call, live>>

\* The region a header's memory points to.
RegionOf(b) == CHOOSE r \in regions : r.ptr = block[b].memory

\* What safe_aligned_alloc has just returned.
NewPointer == (CHOOSE r \in regions' \ regions : TRUE).ptr

-------------------------------------------------------------------------------
(* memory_arena_create                                                       *)

ArgumentError(type, a, size) ==
    IF ~IsPowerOfTwo(a) THEN "E102"
    ELSE IF type = "COUNT" THEN "E401"
    ELSE IF size = 0 THEN "E402"
    ELSE "none"

Create(type, a, size) ==
    /\ Idle /\ ~Open
    /\ \/ ArgumentError(type, a, size) # "none" /\ Crash(ArgumentError(type, a, size))
       \/ ArgumentError(type, a, size) = "none" /\ Crash("E104")
       \/ ArgumentError(type, a, size) = "none" /\ type = "OTHER" /\ Crash("E501")
       \/ /\ ArgumentError(type, a, size) = "none" /\ type # "OTHER"
          /\ Memory!SafeAlignedAlloc(AlignUp(size, a), a)
          /\ UNCHANGED <<call, live>>
          /\ IF state' # "running" THEN UNCHANGED <<arena, heap, block>>
             ELSE \E head \in BlockId :
                /\ heap' = {head}
                /\ block' = [block EXCEPT ![head] =
                      [Blank EXCEPT !.memory = NewPointer, !.capacity = AlignUp(size, a)]]
                /\ arena' = [NoArena EXCEPT
                      !.allocator_type = type, !.alignment = a, !.memory_block = head,
                      !.pool_size = IF type = "POOL" THEN size ELSE 0,
                      !.top = IF type = "STACK" THEN head ELSE NoBlock,
                      !.max_size = IF type = "STACK" THEN InitialSlots ELSE 0]

-------------------------------------------------------------------------------
(* memory_arena_alloc: the loop of linear_alloc and pool_alloc, and the two  *)
(* allocators that look at one block only.                                   *)

AllocError(size) ==
    IF ~Open THEN "E201"
    ELSE IF arena.alignment < MaxAlign THEN "E403"
    ELSE IF size = 0 THEN "E101"
    ELSE IF IsType("STACK") /\ block[arena.top].next # NoBlock THEN "E502"
    ELSE "none"

\* pool_alloc rounds the request up to whole pools.
BytesNeeded(size) ==
    IF ~IsType("POOL") THEN size
    ELSE LET whole == (size \div arena.pool_size) * arena.pool_size
         IN  IF whole < size THEN AddW(whole, arena.pool_size) ELSE whole

AllocCall(size) ==
    /\ Idle
    /\ \/ AllocError(size) # "none" /\ Crash(AllocError(size))
       \/ /\ AllocError(size) = "none"
          /\ call' = [NoCall EXCEPT
                !.at = "visit", !.op = "alloc", !.size = size, !.need = BytesNeeded(size),
                !.block = IF IsType("STACK") THEN arena.top ELSE arena.memory_block]
          /\ UNCHANGED <<state, kernel, arena, heap, block, live>>

CurrentAddress(b) == AddW(block[b].memory, block[b].allocated)
AlignedAddress(b) == AlignUp(CurrentAddress(b), arena.alignment)

\* allocation_size + (aligned - current)
BytesTaken(b) == AddW(call.need, SubW(AlignedAddress(b), CurrentAddress(b)))

\* The comparison without the padding.
HasUnpaddedRoom(b) == call.need <= SubW(block[b].capacity, block[b].allocated)

HasRoom(b) == BytesTaken(b) <= SubW(block[b].capacity, block[b].allocated)

\* The caller gets the address, kept as an offset from the region's start.
Hand(b, offset) ==
    live' = live \cup {[block |-> b, lo |-> offset, size |-> call.size,
                        depth |-> Len(arena.snapshots)]}

Take ==
    /\ At("visit") /\ HasRoom(call.block)
    /\ block' = [block EXCEPT ![call.block].allocated = AddW(@, BytesTaken(call.block))]
    /\ Hand(call.block, SubW(AlignedAddress(call.block), block[call.block].memory))
    /\ call' = NoCall
    /\ UNCHANGED <<state, kernel, arena, heap>>

RefuseScratch ==
    /\ At("visit") /\ ~HasRoom(call.block) /\ IsType("SCRATCH")
    /\ call' = NoCall
    /\ UNCHANGED <<state, kernel, arena, heap, block, live>>

\* The loop without current_block = current_block->next.
SameBlock(b) == b

NextToVisit(b) == block[b].next

Advance ==
    /\ At("visit") /\ ~HasRoom(call.block)
    /\ ~IsType("SCRATCH") /\ block[call.block].next # NoBlock
    /\ call' = [call EXCEPT !.block = NextToVisit(call.block)]
    /\ UNCHANGED <<state, kernel, arena, heap, block, live>>

\* malloc of a header at the end of the chain.  linear_alloc and pool_alloc link
\* it before any field of it is set, stack_alloc only when it is complete.
MallocHeader ==
    /\ At("visit") /\ ~HasRoom(call.block)
    /\ ~IsType("SCRATCH") /\ block[call.block].next = NoBlock
    /\ \/ Crash("E104")
       \/ \E fresh \in BlockId \ heap :
            /\ heap' = heap \cup {fresh}
            /\ block' = IF IsType("STACK") THEN block
                        ELSE [block EXCEPT ![call.block].next = fresh]
            /\ call' = [call EXCEPT !.at = "map", !.fresh = Append(@, fresh)]
            /\ UNCHANGED <<state, kernel, arena, live>>

\* The capacity of the block before it.
SameCapacity == block[call.block].capacity

GrownCapacity == DoubleW(block[call.block].capacity)

\* The region of the new header; safe_aligned_alloc may abort with the header
\* in place and its fields unset.
MapRegion == At("map") /\ Memory!SafeAlignedAlloc(GrownCapacity, arena.alignment)

MapAppended ==
    /\ MapRegion /\ ~IsType("STACK")
    /\ UNCHANGED <<arena, heap, live>>
    /\ IF state' # "running" THEN UNCHANGED <<block, call>>
       ELSE /\ block' = [block EXCEPT ![Last(call.fresh)] =
                  [Blank EXCEPT !.memory = NewPointer, !.capacity = GrownCapacity]]
            /\ call' = [call EXCEPT !.at = "visit", !.block = NextToVisit(call.block)]

\* stack_alloc computes the offset in the new block again and does not compare.
MapPushed ==
    /\ MapRegion /\ IsType("STACK")
    /\ UNCHANGED heap
    /\ IF state' # "running" THEN UNCHANGED <<arena, block, call, live>>
       ELSE LET new == Last(call.fresh)
                offset == SubW(AlignUp(NewPointer, arena.alignment), NewPointer)
            IN  /\ block' = [block EXCEPT
                      ![new] = [Blank EXCEPT !.memory = NewPointer, !.capacity = GrownCapacity,
                                             !.allocated = AddW(call.need, offset)],
                      ![call.block].next = new]
                /\ arena' = [arena EXCEPT !.top = new]
                /\ Hand(new, offset)
                /\ call' = NoCall

-------------------------------------------------------------------------------
(* The callers of the free loop: reset, destroy and unwind.                  *)

FreeFrom(op, b) == call' = [NoCall EXCEPT !.at = "free", !.op = op, !.block = b]

\* The memset of a reset stays inside the head's region.
ResetInRegion == LET head == arena.memory_block IN block[head].allocated <= RegionOf(head).size

ResetCall ==
    /\ Idle
    /\ \/ ~Open /\ Crash("E201")
       \/ /\ Open
          /\ block' = [block EXCEPT ![arena.memory_block].allocated = 0]
          /\ FreeFrom("reset", block[arena.memory_block].next)
          /\ live' = {}
          /\ state' = IF ResetInRegion THEN state ELSE "undefined"
          /\ UNCHANGED <<kernel, arena, heap>>

DestroyCall ==
    /\ Idle
    /\ \/ ~Open /\ Crash("E201")
       \/ /\ Open
          /\ FreeFrom("destroy", arena.memory_block)
          /\ live' = {}
          /\ UNCHANGED <<state, kernel, arena, heap, block>>

ArrayFull == Len(arena.snapshots) = arena.max_size

\* What record may abort with; a full array has to be reallocated.
RecordErrors == IF ~Open THEN {"E201"} ELSE IF ~IsType("STACK") THEN {"E502"}
                ELSE IF ArrayFull THEN {"E104"} ELSE {}

RecordCall ==
    /\ Idle
    /\ \/ \E code \in RecordErrors : Crash(code)
       \/ /\ Open /\ IsType("STACK")
          /\ arena' = [arena EXCEPT
                !.max_size = IF ArrayFull THEN 2 * @ ELSE @,
                !.snapshots = Append(@, [top |-> arena.top,
                                         allocated |-> block[arena.top].allocated,
                                         capacity |-> block[arena.top].capacity])]
          /\ UNCHANGED <<state, kernel, heap, block, call, live>>

UnwindError == IF ~Open THEN "E201"
               ELSE IF ~IsType("STACK") \/ arena.snapshots = <<>> THEN "E502"
               ELSE "none"

\* Up to the test of target_snapshot.top->next.
UnwindCall ==
    /\ Idle
    /\ \/ UnwindError # "none" /\ Crash(UnwindError)
       \/ /\ UnwindError = "none" /\ Last(arena.snapshots).top \notin heap
          /\ Crash("undefined")
       \/ /\ UnwindError = "none" /\ Last(arena.snapshots).top \in heap
          /\ LET target == Last(arena.snapshots)
             IN  /\ arena' = [arena EXCEPT !.top = target.top]
                 /\ block' = [block EXCEPT ![target.top].capacity = target.capacity,
                                           ![target.top].allocated = target.allocated]
                 /\ FreeFrom("unwind", block[target.top].next)
          /\ live' = {r \in live : r.depth < Len(arena.snapshots)}
          /\ UNCHANGED <<state, kernel, heap>>

-------------------------------------------------------------------------------
(* linear_free, pool_free, scratch_free and stack_free, and what their       *)
(* callers do when they return.                                              *)

\* next read from the header after it is freed.
NextAfterFree(b) == block'[b].next

\* n = current->next, read before the body of the loop frees current.
NextToFree(b) == block[b].next

\* safe_aligned_free(memory_block->memory) in every iteration.
RegionOfFirst(b) == RegionOf(arena.memory_block)

\* safe_aligned_free(current->memory)
RegionToFree(b) == RegionOf(b)

FreeBlock ==
    /\ At("free") /\ call.block # NoBlock
    /\ Memory!SafeAlignedFree(RegionToFree(call.block))
    /\ UNCHANGED <<arena, live>>
    /\ IF state' # "running" THEN UNCHANGED <<heap, block, call>>
       ELSE /\ heap' = heap \ {call.block}
            /\ block' = [block EXCEPT ![call.block] = Blank]
            /\ call' = [call EXCEPT !.block = NextToFree(call.block)]

\* *arena once the blocks are freed: unwind drops the snapshot and halves the
\* size of an array less than a quarter full.  The realloc that follows, and its
\* result when it fails, are in Arena only.
ArenaAfterFree ==
    CASE call.op = "destroy" -> NoArena
      [] call.op = "reset" -> [arena EXCEPT !.top = IF IsType("STACK") THEN arena.memory_block ELSE @]
      [] call.op = "unwind" -> [arena EXCEPT
            !.snapshots = Front(@),
            !.max_size = IF Len(arena.snapshots) - 1 < @ \div 4 THEN @ \div 2 ELSE @]

\* The caller forgets next = NULL.
StillLinked(b) == block

Unlinked(b) == [block EXCEPT ![b].next = NoBlock]

FreeReturn ==
    /\ At("free") /\ call.block = NoBlock
    /\ arena' = ArenaAfterFree
    /\ block' = CASE call.op = "destroy" -> block
                  [] call.op = "reset" -> Unlinked(arena.memory_block)
                  [] call.op = "unwind" -> Unlinked(arena.top)
    /\ call' = NoCall
    /\ UNCHANGED <<state, kernel, heap, live>>

-------------------------------------------------------------------------------
MayRequest == Cardinality(live) < LiveBound
MayRecord == Len(arena.snapshots) < SnapshotBound

Call ==
    \/ \E type \in Types, a \in Alignments, size \in InitialSizes : Create(type, a, size)
    \/ \E size \in Requests : MayRequest /\ AllocCall(size)
    \/ ResetCall
    \/ DestroyCall
    \/ MayRecord /\ RecordCall
    \/ UnwindCall

Step ==
    \/ Take \/ RefuseScratch \/ Advance
    \/ MallocHeader \/ MapAppended \/ MapPushed
    \/ FreeBlock \/ FreeReturn

Next == Call \/ Step

\* A call in progress goes on: one sequential thread, nothing it waits for.
Fairness == WF_svars(Step)

Spec == Init /\ [][Next]_svars /\ Fairness

-------------------------------------------------------------------------------
(* The refinement of Arena.  A call takes effect in Arena at one of its      *)
(* steps: an allocation when it returns, so the headers it has appended so   *)
(* far are hidden; a reset, destroy or unwind when it starts, so the blocks  *)
(* it has still to free are hidden and *arena is seen as it will be left.    *)

\* The blocks from b along next, as far as they lie in `among`; the length is
\* bounded so that a cycle has a value too.
Path(b, among) ==
    LET path[n \in 0..Cardinality(BlockId)] ==
            IF n = 0 THEN <<b>>
            ELSE LET before == path[n - 1]
                     next == block[Last(before)].next
                 IN  IF next \in among THEN Append(before, next) ELSE before
    IN  IF b \in among THEN path[Cardinality(BlockId)] ELSE <<>>

Doomed == IF call.at = "free" THEN Range(Path(call.block, heap)) ELSE {}
Visible == heap \ (Range(call.fresh) \cup Doomed)
VisibleArena == IF call.at = "free" THEN ArenaAfterFree ELSE arena

ArenaView == [allocator_type |-> VisibleArena.allocator_type,
              alignment |-> VisibleArena.alignment, pool_size |-> VisibleArena.pool_size]
ChainView == Path(VisibleArena.memory_block, Visible)
BlockView == [b \in BlockId |->
    IF b \in Visible
    THEN [capacity |-> block[b].capacity, allocated |-> block[b].allocated,
          region |-> RegionOf(b).size]
    ELSE [capacity |-> 0, allocated |-> 0, region |-> 0]]
ArrayView == IF VisibleArena.top = NoBlock THEN "null" ELSE "ok"

Whole == INSTANCE Arena WITH
    status <- state, arena <- ArenaView, heap <- Visible, chain <- ChainView, block <- BlockView,
    top <- VisibleArena.top, snapshots <- VisibleArena.snapshots,
    max_size <- VisibleArena.max_size, array <- ArrayView,
    Buffers <- {}, ext <- << >>, MemoryFails <- TRUE, ShrinkFails <- FALSE

\* The loops do what Arena says a call does in one step, for every client and
\* wherever malloc and mmap place things or fail: first fit along next pointers
\* and doubling one block at a time amount to FirstFit and Grow, and freeing
\* along next pointers frees all that Reset, Destroy and Unwind free.  Initial
\* sizes that wrap the length of their mapping are excluded by InputAssumption,
\* and the shrinking realloc is Arena's with ShrinkFails = FALSE.
ImplementsArena == Whole!Spec

\* Every call comes to an end: no loop over next pointers goes round in a chain,
\* and growing stops at a block that is large enough or at an abort.
CallsEnd == call # NoCall ~> call = NoCall \/ state # "running"

\* How far the capacity of b is below the largest mapping.
Headroom(b) == MmapLimit - block[b].capacity

\* A bound on the iterations a call has left.  A walk visits the blocks ahead, and
\* from the last of them the chain can grow as long as the doubled capacities stay
\* within the largest mapping, each with a malloc and a mapping; a free loop takes
\* one for each header left, and one to return.
Remaining ==
    CASE call.at = "idle" -> 0
      [] call.at = "visit" -> LET ahead == Path(call.block, heap)
                              IN  2 * (Headroom(Last(ahead)) + Len(ahead)) + 1
      [] call.at = "map" -> 2 * (Headroom(call.block) + 1)
      [] call.at = "free" -> Cardinality(heap) + 1

\* Every iteration of every loop brings a natural number down, or aborts, however
\* many headers malloc has: while (current_block) walks to the end of a chain that
\* gets longer meanwhile, and it does not get longer for ever because each block
\* appended is larger than the one before.
IterationsCountDown ==
    [][Step => state' # "running" \/ Remaining' \in 0..(Remaining - 1)]_svars

\* The headers malloc'd and the regions not yet passed to safe_aligned_free are
\* paired one to one at every step of every call, but for the header that is about
\* to get its region: no header is freed without its region or the other way
\* round, and neither twice.  (What munmap leaves of a region passed to
\* safe_aligned_free is the subject of MappedMemory!FreedIsUnmapped.)
BlocksOwnRegions ==
    LET mapping == IF call.at = "map" THEN {Last(call.fresh)} ELSE {}
    IN  /\ {block[b].memory : b \in heap \ mapping} = {r.ptr : r \in regions}
        /\ Cardinality(heap \ mapping) = Cardinality(regions)

\* Between calls no next pointer is left on a freed header, where the next
\* loop, or a header malloc'd at the same address, would be reached through it.
NoDanglingNext == call = NoCall => \A b \in heap : block[b].next \in heap \cup {NoBlock}

\* What SCRATCH, LINEAR and POOL hand out is memory of one block's region and
\* starts at an aligned absolute address, wherever the kernel put the mapping.
HandedOutInRegion ==
    ~IsType("STACK") =>
        \A given \in live :
            LET r == RegionOf(given.block)
            IN  /\ Memory!Bytes(r.ptr + given.lo, given.size) \subseteq Memory!Bytes(r.ptr, r.size)
                /\ (r.ptr + given.lo) % arena.alignment = 0
===============================================================================
