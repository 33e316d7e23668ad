--------------------------------- MODULE Arena ---------------------------------
(***************************************************************************)
(* arena.c: the public operations on one arena handle, each dispatching on  *)
(* the allocator type.  Spec lets the caller do anything the signatures     *)
(* allow; CarefulClient adds the caller that keeps the library's rules.     *)
(***************************************************************************)
EXTENDS ScratchAllocator, ChainAllocator, StackAllocator

CONSTANTS
    Types,            \* the AllocatorType values a caller passes
    Alignments,       \* the alignments a caller passes
    InitialSizes,     \* the initial sizes a caller passes
    Requests,         \* the request sizes a caller passes
    SnapshotBound,    \* bound of the model: snapshots outstanding at a time
    LiveBound         \* bound of the model: allocations outstanding at a time

\* "OTHER" is an integer that is no AllocatorType.
ASSUME TypesAssumption == Types \subseteq Strategies \cup {"COUNT", "OTHER"}
ASSUME InputAssumption == Alignments \cup InitialSizes \cup Requests \subseteq Word

Init ==
    /\ status = "running"
    /\ arena = NullArena
    /\ heap = {} /\ chain = <<>> /\ top = NoBlock
    /\ block = [b \in BlockId |-> Blank]
    /\ snapshots = <<>> /\ max_size = 0 /\ array = "null"
    /\ ext = [b \in Buffers |-> "held"]
    /\ live = {}

-------------------------------------------------------------------------------
(* memory_arena_create                                                       *)

\* The checks with the alignment tested for zero only.
CreateErrorNonZero(type, a, size) ==
    IF a = 0 THEN "E102"
    ELSE IF type = "COUNT" THEN "E401"
    ELSE IF size = 0 THEN "E402"
    ELSE IF type = "OTHER" THEN "E501"
    ELSE IF AlignUp(size, a) = 0 THEN "E101"
    ELSE IF a > AlignLimit THEN "E103"
    ELSE IF ~Mappable(AlignUp(size, a), a) THEN "E104"
    ELSE "none"

\* The checks of memory_arena_create and of the safe_aligned_alloc it ends in,
\* in the order they run; a capacity rounded up past the last word is 0.
CreateError(type, a, size) ==
    IF ~IsPowerOfTwo(a) THEN "E102"
    ELSE IF type = "COUNT" THEN "E401"
    ELSE IF size = 0 THEN "E402"
    ELSE IF type = "OTHER" THEN "E501"
    ELSE IF AlignUp(size, a) = 0 THEN "E101"
    ELSE IF a > AlignLimit THEN "E103"
    ELSE IF ~Mappable(AlignUp(size, a), a) THEN "E104"
    ELSE "none"

\* The aborts ahead of the first malloc.
ArgumentErrors == {"E102", "E401", "E402"}

\* The length of the mapping wrapped, and the kernel may place it so that the
\* Metadata safe_aligned_alloc writes lies outside.
HeaderMayMiss(a, size) == RoomBehind(AlignUp(size, a), a) < 0

Create(type, a, size) ==
    /\ Running /\ ~Open
    /\ \/ CreateError(type, a, size) # "none" /\ Abort(CreateError(type, a, size))
       \/ CreateError(type, a, size) \notin ArgumentErrors /\ MemoryFails /\ Abort("E104")
       \/ CreateError(type, a, size) = "none" /\ HeaderMayMiss(a, size) /\ Abort("undefined")
       \/ /\ CreateError(type, a, size) = "none"
          /\ arena' = [allocator_type |-> type, alignment |-> a,
                       pool_size |-> IF type = "POOL" THEN size ELSE 0]
          /\ \E head \in BlockId :
                /\ heap' = {head}
                /\ chain' = <<head>>
                /\ block' = [block EXCEPT ![head] = NewBlock(AlignUp(size, a), a, 0)]
                /\ top' = IF type = "STACK" THEN head ELSE NoBlock
          /\ snapshots' = <<>>
          /\ max_size' = IF type = "STACK" THEN InitialSlots ELSE 0
          /\ array' = IF type = "STACK" THEN "ok" ELSE "null"
          /\ UNCHANGED <<status, ext, live>>

-------------------------------------------------------------------------------
(* memory_arena_destroy and memory_arena_reset                               *)

Destroy ==
    /\ Running
    /\ \/ ~Open /\ Abort("E201")
       \/ /\ Open
          /\ arena' = NullArena
          /\ heap' = heap \ Range(chain)
          /\ chain' = <<>>
          /\ block' = Freed(Range(chain))
          /\ top' = NoBlock
          /\ snapshots' = <<>> /\ max_size' = 0 /\ array' = "null"
          /\ live' = {}
          /\ UNCHANGED <<status, ext>>

\* The top left where it was.
StaleTop == top

\* A STACK arena's top goes back to the head.
ResetTop == IF arena.allocator_type = "STACK" THEN Head(chain) ELSE top

\* The snapshots of a STACK arena stay.
Reset ==
    /\ Running
    /\ \/ ~Open /\ Abort("E201")
       \/ /\ Open
          /\ ResetToHead
          /\ top' = ResetTop
          /\ live' = {}
          /\ status' = IF block[Head(chain)].allocated <= block[Head(chain)].region
                       THEN status ELSE "undefined"
          /\ UNCHANGED <<arena, stackState, ext>>

-------------------------------------------------------------------------------
(* memory_arena_alloc and memory_arena_alloc_verify                          *)

\* The checks every allocator starts with; the stack also checks that its top
\* is the last block.
AllocError(size) ==
    IF ~Open THEN "E201"
    ELSE IF arena.alignment < MaxAlign THEN "E403"
    ELSE IF size = 0 THEN "E101"
    ELSE IF arena.allocator_type = "STACK" /\ top # Last(chain) THEN "E502"
    ELSE "none"

AllocGranted(size) ==
    /\ CASE arena.allocator_type = "SCRATCH" -> ScratchGrants(size)
         [] arena.allocator_type = "STACK" -> StackGrants(size)
         [] OTHER -> ChainGrants(size)
    /\ UNCHANGED <<arena, stackState>>

AllocRefused(size) == arena.allocator_type = "SCRATCH" /\ ScratchRefuses(size)

AllocExhausted(size) ==
    CASE arena.allocator_type = "SCRATCH" -> FALSE
      [] arena.allocator_type = "STACK" -> StackExhausted(size)
      [] OTHER -> ChainExhausted(size)

AllocAborts(size) ==
    \/ AllocError(size) # "none" /\ Abort(AllocError(size))
    \/ AllocError(size) = "none" /\ AllocExhausted(size) /\ Abort("E104")

Alloc(size) ==
    /\ Running
    /\ \/ AllocAborts(size)
       \/ AllocError(size) = "none" /\ AllocGranted(size) /\ UNCHANGED <<status, ext>>
       \/ AllocError(size) = "none" /\ AllocRefused(size) /\ UNCHANGED vars

VerifyError(size) == IF ~Open THEN "E201" ELSE IF size = 0 THEN "E101" ELSE "none"

\* The answer of memory_arena_alloc_verify.
CanAlloc(size) == arena.allocator_type = "SCRATCH" => ScratchVerify(size)

AllocVerify(size) ==
    /\ Running
    /\ \/ VerifyError(size) # "none" /\ Abort(VerifyError(size))
       \/ VerifyError(size) = "none" /\ UNCHANGED vars

-------------------------------------------------------------------------------
(* memory_arena_move and memory_arena_copy                                   *)

\* The checks before the allocation: handle, source, size.
SourceError(b, size) == IF ~Open \/ ext[b] = "null" THEN "E201"
                        ELSE IF size = 0 THEN "E101" ELSE "none"

\* memcpy into the allocation just handed out stays inside its region.
CopyFits == /\ live' # live
            /\ \A r \in live' \ live : r.lo + r.size <= block'[r.block].region

\* The allocation and the memcpy both operations make.
CopyIn(b, size) ==
    /\ SourceError(b, size) = "none" /\ AllocError(size) = "none"
    /\ AllocGranted(size)
    /\ status' = IF CopyFits THEN status ELSE "undefined"

CopyAborts(b, size) ==
    \/ SourceError(b, size) # "none" /\ Abort(SourceError(b, size))
    \/ SourceError(b, size) = "none" /\ AllocAborts(size)

\* The early return on a refused allocation after the source was released.
RefusedAfterRelease(b, size) ==
    /\ SourceError(b, size) = "none" /\ AllocError(size) = "none"
    /\ AllocRefused(size)
    /\ ext' = [ext EXCEPT ![b] = "null"]
    /\ UNCHANGED <<status, structure, stackState, live>>

CopyRefused(b, size) ==
    /\ SourceError(b, size) = "none" /\ AllocError(size) = "none"
    /\ AllocRefused(size) /\ UNCHANGED vars

\* The source is freed through free_fptr and the caller's pointer cleared only
\* after the copy.
Move(b, size) ==
    /\ Running
    /\ \/ CopyAborts(b, size)
       \/ CopyRefused(b, size)
       \/ CopyIn(b, size) /\ ext' = [ext EXCEPT ![b] = "null"]

\* memory_arena_move with a NULL free_fptr: the last of three pointer checks,
\* all with the same code and ahead of the size's.
MoveWithoutFree == Running /\ Abort("E201")

Copy(b, size) ==
    /\ Running
    /\ \/ CopyAborts(b, size)
       \/ CopyRefused(b, size)
       \/ CopyIn(b, size) /\ UNCHANGED ext

\* The caller points b at memory of its own again.
Acquire(b) ==
    /\ Running
    /\ ext[b] = "null"
    /\ ext' = [ext EXCEPT ![b] = "held"]
    /\ UNCHANGED <<status, structure, stackState, live>>

\* The bound on allocations keeps the states finite once sizes wrap and the
\* fill level of a block no longer limits them.
MayRequest == Cardinality(live) < LiveBound

StackRecord == Running /\ Len(snapshots) < SnapshotBound /\ Record
StackUnwind == Running /\ Unwind

-------------------------------------------------------------------------------
Next ==
    \/ \E type \in Types, a \in Alignments, size \in InitialSizes : Create(type, a, size)
    \/ Destroy
    \/ Reset
    \/ \E size \in Requests : MayRequest /\ Alloc(size)
    \/ \E size \in Requests : AllocVerify(size)
    \/ StackRecord
    \/ StackUnwind
    \/ \E b \in Buffers, size \in Requests : MayRequest /\ Move(b, size)
    \/ MoveWithoutFree
    \/ \E b \in Buffers, size \in Requests : MayRequest /\ Copy(b, size)
    \/ \E b \in Buffers : Acquire(b)

Spec == Init /\ [][Next]_vars

-------------------------------------------------------------------------------
(* What holds for every client, up to the step that aborts or is undefined.  *)

Allocations == [block : BlockId, lo : Word, size : Word, depth : Nat]

\* Every variable has the type its C declaration gives it.
TypeOK ==
    /\ status \in Statuses
    /\ arena \in [allocator_type : Strategies, pool_size : Word,
                  alignment : {a \in 1..AlignLimit : IsPowerOfTwo(a)}] \cup {NullArena}
    /\ arena.allocator_type = "POOL" => arena.pool_size # 0
    /\ heap \subseteq BlockId
    /\ chain \in Seq(BlockId)
    /\ block \in [BlockId -> [capacity : Word, allocated : Word, region : Word]]
    /\ top \in BlockId \cup {NoBlock}
    /\ snapshots \in Seq(Snapshot)
    /\ max_size \in Nat
    /\ array \in {"ok", "null"}
    /\ ext \in [Buffers -> {"held", "null"}]
    /\ live \subseteq Allocations

\* No header is leaked and none is reachable twice: the headers malloc'd and
\* not freed are exactly the ones memory_block leads to, through every append,
\* reset, unwind and destroy.
HeapIsChain == heap = Range(chain) /\ IsInjective(chain) /\ (Open <=> chain # <<>>)

\* A stack's top is the last block of its chain, so the check in stack_alloc
\* that top->next is NULL (E502) cannot fail, even after a reset with
\* snapshots outstanding or an unwind to a recycled header.
TopIsLast == Open /\ arena.allocator_type = "STACK" => top = Last(chain)

\* The snapshot written by record is inside the array, and the halving in
\* unwind never cuts a slot in use nor reaches 0, which doubling cannot grow.
SnapshotSlots ==
    Open /\ arena.allocator_type = "STACK" => Len(snapshots) <= max_size /\ max_size > 0

\* Whatever requests wrap, the head block and every block of the other three
\* strategies keep allocated <= capacity, and a capacity that fits in a mapping is
\* mapped in full: the memset of a reset stays inside the region.  A capacity no
\* mapping can have comes from an initial size whose mapping's length wrapped.
BlocksWithinRegion ==
    \A b \in heap : b = Head(chain) \/ arena.allocator_type # "STACK" =>
        /\ block[b].allocated <= block[b].capacity
        /\ block[b].capacity <= MmapLimit => block[b].capacity = block[b].region

\* memory_arena_alloc_verify answers true exactly when memory_arena_alloc would
\* not return NULL, wrapping sizes included, although it looks at every block
\* of the chain and scratch_alloc at the head only.
VerifyPredictsAlloc ==
    Open => \A size \in Requests : CanAlloc(size) <=> ~AllocRefused(size)

\* The caller's pointer is cleared (and its memory freed) only in a step that
\* also put the data into the arena or was undefined: a refused move keeps the
\* source.
SourceReleasedOnlyWhenStored ==
    [][\A b \in Buffers : ext[b] = "held" /\ ext'[b] = "null"
          => live' # live \/ status' = "undefined"]_vars

-------------------------------------------------------------------------------
(* What the headers promise and the code does not keep.                      *)

\* arena_internal.h:24: a block's allocated is less than or equal to its
\* capacity.
AllocatedWithinCapacity == \A b \in heap : block[b].allocated <= block[b].capacity

\* arena_internal.h:55 and :57: a snapshot's top points to the block that was
\* active when it was taken, and its capacity is that block's.  So as long as the
\* snapshot is kept its header is not freed, nor one that malloc has given to a
\* block of another size, whose capacity an unwind would set beyond its region.
SnapshotsMatchTops ==
    \A i \in DOMAIN snapshots :
        /\ snapshots[i].top \in heap
        /\ block[snapshots[i].top].capacity = snapshots[i].capacity

\* scratch_allocator_internal.h:78: a pointer to allocated memory, or NULL if
\* there is not enough space; what it returns fits in the block.
ScratchNullWhenFull ==
    arena.allocator_type = "SCRATCH" =>
        \A r \in live : r.lo + r.size <= block[r.block].capacity

\* arena.h:119: verify asserts whether an allocation would succeed; after it
\* answered true the allocation may run out of memory but not fail a check.
VerifiedRequestPassesChecks ==
    [][\A size \in Requests :
          VerifyError(size) = "none" /\ CanAlloc(size) /\ Alloc(size)
             => status' \in {"running", "E104"}]_vars
================================================================================
