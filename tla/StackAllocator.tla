---------------------------- MODULE StackAllocator ----------------------------
(***************************************************************************)
(* stack_allocator_internal.c and the record and unwind operations of       *)
(* arena.c: allocation from the top block only, and snapshots that roll the *)
(* stack back.                                                              *)
(***************************************************************************)
EXTENDS ArenaState

StackHasRoom(size) == FitsIn(top, size)

PushedCapacity == DoubleW(block[top].capacity)

\* A block of twice the top's capacity is pushed and takes the request
\* whatever its size: the code makes no second comparison.
PushBlock(size) ==
    \E fresh \in BlockId \ heap :
        /\ Mappable(PushedCapacity, arena.alignment)
        /\ block' = [block EXCEPT ![fresh] = NewBlock(PushedCapacity, arena.alignment, size)]
        /\ chain' = Append(chain, fresh)
        /\ heap' = heap \cup {fresh}
        /\ top' = fresh
        /\ Hand(fresh, 0, size)

StackGrants(size) ==
    \/ StackHasRoom(size) /\ TakeFrom(top, size, size) /\ UNCHANGED top
    \/ ~StackHasRoom(size) /\ PushBlock(size)

StackExhausted(size) ==
    /\ ~StackHasRoom(size)
    /\ MemoryFails \/ heap = BlockId \/ ~Mappable(PushedCapacity, arena.alignment)

-------------------------------------------------------------------------------
RecordError == IF ~Open THEN "E201"
               ELSE IF arena.allocator_type # "STACK" THEN "E502" ELSE "none"

ArrayFull == Len(snapshots) = max_size

\* A snapshot of memory_block instead of the top.
HeadMark == [top |-> Head(chain), allocated |-> block[Head(chain)].allocated,
             capacity |-> block[Head(chain)].capacity]

\* The snapshot record writes.
Mark == [top |-> top, allocated |-> block[top].allocated, capacity |-> block[top].capacity]

\* memory_stack_arena_record.  Writing through a NULL array is undefined.
Record ==
    \/ RecordError # "none" /\ Abort(RecordError)
    \/ RecordError = "none" /\ ArrayFull /\ MemoryFails /\ Abort("E104")
    \/ RecordError = "none" /\ array = "null" /\ Abort("undefined")
    \/ /\ RecordError = "none"
       /\ array = "ok"
       /\ snapshots' = Append(snapshots, Mark)
       /\ max_size' = IF ArrayFull THEN 2 * max_size ELSE max_size
       /\ UNCHANGED <<status, structure, array, ext, live>>

UnwindError == IF RecordError # "none" THEN RecordError
               ELSE IF snapshots = <<>> THEN "E502" ELSE "none"

\* The target is read from the array and its top dereferenced: undefined when
\* the array is NULL or the header has been freed since.
TargetDangles == array = "null" \/ Last(snapshots).top \notin heap

\* The part of the chain up to block b.
ChainUpTo(b) == SubSeq(chain, 1, CHOOSE i \in DOMAIN chain : chain[i] = b)

\* The array is halved at a quarter already.
ShrinkAtQuarter(count) ==
    IF count <= max_size \div 4
    THEN /\ max_size' = max_size \div 2
         /\ array' \in IF ShrinkFails THEN {"ok", "null"} ELSE {"ok"}
    ELSE UNCHANGED <<max_size, array>>

\* The array is halved when fewer than a quarter of its slots are used; the
\* result of realloc is stored unchecked.
ShrinkArray(count) ==
    IF count < max_size \div 4
    THEN /\ max_size' = max_size \div 2
         /\ array' \in IF ShrinkFails THEN {"ok", "null"} ELSE {"ok"}
    ELSE UNCHANGED <<max_size, array>>

\* The blocks after the target's top are freed and its capacity, but not its
\* fill level, is put back.
CapacityRestored(target, kept) ==
    [Freed(heap \ Range(kept)) EXCEPT ![target.top].capacity = target.capacity]

\* The blocks after the target's top are freed and its numbers put back.
Restored(target, kept) ==
    [Freed(heap \ Range(kept)) EXCEPT
        ![target.top] = [capacity |-> target.capacity, allocated |-> target.allocated,
                         region |-> @.region]]

\* memory_stack_arena_unwind.
Unwind ==
    \/ UnwindError # "none" /\ Abort(UnwindError)
    \/ UnwindError = "none" /\ TargetDangles /\ Abort("undefined")
    \/ /\ UnwindError = "none"
       /\ ~TargetDangles
       /\ LET target == Last(snapshots)
              kept == ChainUpTo(target.top)
          IN  /\ top' = target.top
              /\ chain' = kept
              /\ heap' = Range(kept)
              /\ block' = Restored(target, kept)
       /\ snapshots' = Front(snapshots)
       /\ ShrinkArray(Len(snapshots) - 1)
       /\ live' = {r \in live : r.depth < Len(snapshots)}
       /\ UNCHANGED <<status, arena, ext>>
===============================================================================
