---------------------------- MODULE ChainAllocator ----------------------------
(***************************************************************************)
(* linear_allocator.c and pool_allocator_internal.c.  Both run the same     *)
(* loop: take the first block of the chain the request fits in, appending   *)
(* blocks of doubled capacity until there is one.  They differ in the       *)
(* number of bytes a request takes.                                         *)
(***************************************************************************)
EXTENDS ArenaState, FiniteSets

\* pool_alloc rounds a request up to whole pools.
PoolAlignedSize(size) ==
    LET whole == (size \div arena.pool_size) * arena.pool_size
    IN  IF whole < size THEN AddW(whole, arena.pool_size) ELSE whole

\* The bytes the request takes apart from padding.
ChainSize(size) == IF arena.allocator_type = "POOL" THEN PoolAlignedSize(size) ELSE size

ChainIsFull(n) == \A b \in Range(chain) : ~FitsIn(b, n)

FirstFit(n, size) ==
    \E i \in DOMAIN chain :
        /\ FitsIn(chain[i], n)
        /\ \A j \in 1..(i - 1) : ~FitsIn(chain[j], n)
        /\ TakeFrom(chain[i], n, size)

\* The loop stops at the k-th appended block; the earlier ones are too small
\* and stay in the chain empty.  Every one of them has to be mapped.
GrowthStopsAt(k, n) ==
    /\ n <= GrownCapacity(k)
    /\ \A j \in 1..(k - 1) : GrownCapacity(j) < n
    /\ \A j \in 1..k : Mappable(GrownCapacity(j), arena.alignment)

Growths == 1..Cardinality(BlockId)

Grow(n, size) ==
    \E k \in Growths :
        /\ GrowthStopsAt(k, n)
        /\ \E fresh \in Injection(1..k, BlockId \ heap) :
            /\ chain' = chain \o fresh
            /\ heap' = heap \cup Range(fresh)
            /\ block' = [b \in BlockId |->
                  IF b \in Range(fresh)
                  THEN LET j == CHOOSE i \in 1..k : fresh[i] = b
                       IN  NewBlock(GrownCapacity(j), arena.alignment, IF j = k THEN n ELSE 0)
                  ELSE block[b]]
            /\ Hand(fresh[k], 0, size)

ChainGrants(size) ==
    /\ FirstFit(ChainSize(size), size) \/ (ChainIsFull(ChainSize(size)) /\ Grow(ChainSize(size), size))
    /\ UNCHANGED top

\* A header or a region cannot be had on the way: INVARIANT fails with E104.
ChainExhausted(size) ==
    /\ ChainIsFull(ChainSize(size))
    /\ \/ MemoryFails
       \/ ~\E k \in Growths : GrowthStopsAt(k, ChainSize(size)) /\ k <= Cardinality(BlockId \ heap)
===============================================================================
