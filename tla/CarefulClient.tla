---------------------------- MODULE CarefulClient ----------------------------
(***************************************************************************)
(* The arena under a client that keeps the rules the code relies on without *)
(* checking them.  For that client the arena is correct until memory runs   *)
(* out.                                                                     *)
(***************************************************************************)
EXTENDS Arena

\* create: arguments the checks of create pass, an alignment the allocators
\* accept later, and a size that does not wrap the length of its mapping.
CarefulCreate(type, a, size) ==
    /\ a >= MaxAlign
    /\ size + 2 * a + MetaSize + PageSize < WordMod
    /\ CreateError(type, a, size) \in {"none", "E104"}
    /\ Create(type, a, size)

\* A request for one byte or more whose padding and rounding do not wrap.
ModestRequest(size) == size > 0 /\ size + arena.alignment + arena.pool_size < WordMod

\* A stack request fits in the top block or in one of twice its capacity.
StackServes(size) ==
    arena.allocator_type = "STACK" => StackHasRoom(size) \/ size <= PushedCapacity

CarefulRequest(size) == MayRequest /\ Open /\ ModestRequest(size) /\ StackServes(size)

\* reset of a stack only with no snapshot outstanding.
CarefulReset == Open /\ snapshots = <<>> /\ Reset

CarefulRecord == RecordError = "none" /\ StackRecord
CarefulUnwind == UnwindError = "none" /\ StackUnwind

CarefulNext ==
    \/ \E type \in Types, a \in Alignments, size \in InitialSizes : CarefulCreate(type, a, size)
    \/ Open /\ Destroy
    \/ CarefulReset
    \/ \E size \in Requests : CarefulRequest(size) /\ Alloc(size)
    \/ CarefulRecord
    \/ CarefulUnwind
    \/ \E b \in Buffers, size \in Requests : CarefulRequest(size) /\ ext[b] = "held" /\ Move(b, size)
    \/ \E b \in Buffers, size \in Requests : CarefulRequest(size) /\ ext[b] = "held" /\ Copy(b, size)
    \/ \E b \in Buffers : Acquire(b)

CarefulSpec == Init /\ [][CarefulNext]_vars

-------------------------------------------------------------------------------
\* The process stops only because malloc, mmap or realloc had no memory: no
\* other check fails and no step is undefined (fail-fast on OOM is what the
\* comment in stack_alloc_verify promises).
OnlyMemoryExhaustionAborts == status \in {"running", "E104"}

\* Every live allocation lies in a block of the arena, below the bytes that
\* block counts as allocated, inside the capacity and the region behind it.
LiveInBounds ==
    \A r \in live :
        /\ r.block \in heap
        /\ r.lo + r.size <= block[r.block].allocated
        /\ block[r.block].allocated <= block[r.block].capacity
        /\ block[r.block].capacity <= block[r.block].region

\* No byte belongs to two live allocations: resets, unwinds and blocks reused
\* by malloc never hand out memory the client still holds.
LiveDisjoint ==
    \A r, s \in live : r = s \/ r.block # s.block
                       \/ r.lo + r.size <= s.lo \/ s.lo + s.size <= r.lo

\* Every live allocation starts at a multiple of the arena's alignment.
LiveAligned == \A r \in live : r.lo % arena.alignment = 0

\* A position in the stack: block b, offset n.  Positions are ordered by the
\* place of the block in the chain, then by offset.
Place(b) == CHOOSE i \in DOMAIN chain : chain[i] = b
Below(b, n, c, m) == Place(b) < Place(c) \/ (b = c /\ n <= m)

\* The mark of snapshot i separates the allocations made before it from those
\* made after it, so an unwind gives back all of the later and none of the
\* earlier, however many blocks were pushed in between.
MarksSeparateScopes ==
    \A i \in DOMAIN snapshots, r \in live :
        LET mark == snapshots[i]
        IN  IF r.depth < i THEN Below(r.block, r.lo + r.size, mark.top, mark.allocated)
                           ELSE Below(mark.top, mark.allocated, r.block, r.lo)

\* Along the chain every capacity is twice the one before, unwrapped, so the
\* growth loop of linear_alloc and pool_alloc terminates.
CapacitiesDouble ==
    \A i \in 1..(Len(chain) - 1) : block[chain[i + 1]].capacity = 2 * block[chain[i]].capacity

-------------------------------------------------------------------------------
(* A stack arena implements whole-state checkpoints.                         *)

\* Only a STACK arena counts as one.
Contents ==
    IF arena.allocator_type # "STACK" THEN <<>>
    ELSE [i \in DOMAIN chain |-> [block |-> chain[i], capacity |-> block[chain[i]].capacity,
                                  used |-> block[chain[i]].allocated]]

\* The contents snapshot s stands for: the blocks below its top as they are
\* now, and the top with the two numbers in the snapshot.
SnapshotContents(s) ==
    Append(SubSeq(Contents, 1, Place(s.top) - 1),
           [block |-> s.top, capacity |-> s.capacity, used |-> s.allocated])

Stack == INSTANCE Checkpoints WITH
    Block <- BlockId, Size <- Word, contents <- Contents,
    saved <- [i \in DOMAIN snapshots |-> SnapshotContents(snapshots[i])]

\* Unwind restores exactly the blocks, capacities and fill levels record saw,
\* although record saves only the top block's.
ImplementsCheckpoints == Stack!Spec
===============================================================================
