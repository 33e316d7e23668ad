-------------------------- MODULE CarefulClient_proofs --------------------------
(***************************************************************************)
(* Theorems about the arena under the careful client: what it holds stays   *)
(* in bounds, apart and aligned, snapshots separate what was allocated      *)
(* before them from what came after, only memory exhaustion ends the        *)
(* process, and capacities double along every chain.                        *)
(***************************************************************************)
EXTENDS CarefulClient, Arena_proofs

-------------------------------------------------------------------------------
(* The inductive invariant.                                                  *)

\* No block is filled past its capacity, the pushed ones included, and a
\* capacity the kernel can map is mapped in full.
BlocksSound ==
    \A b \in heap : /\ block[b].allocated <= block[b].capacity
                    /\ block[b].capacity <= MmapLimit => block[b].capacity = block[b].region

\* A live allocation lies below the fill level of a block of the chain, and no
\* more snapshots were outstanding when it was made than are now.
LiveSound ==
    \A r \in live : /\ r.block \in heap /\ r.size > 0
                    /\ r.lo + r.size <= block[r.block].allocated
                    /\ r.depth <= Len(snapshots)

\* A snapshot's block is still there, with the capacity it had and at least the
\* bytes it had.
SnapshotsSound ==
    \A i \in DOMAIN snapshots :
        /\ snapshots[i].top \in heap
        /\ snapshots[i].capacity = block[snapshots[i].top].capacity
        /\ snapshots[i].allocated <= block[snapshots[i].top].allocated

\* A later snapshot marks a place at or above an earlier one.
SnapshotsNested ==
    \A i, j \in DOMAIN snapshots :
        i < j => Below(snapshots[i].top, snapshots[i].allocated,
                       snapshots[j].top, snapshots[j].allocated)

\* Only a stack has snapshots, and every alignment is one alloc accepts.
ArenaSound ==
    /\ snapshots # <<>> => Open /\ arena.allocator_type = "STACK"
    /\ Open => arena.alignment >= MaxAlign

CarefulInv ==
    /\ IInv
    /\ BlocksSound
    /\ LiveSound
    /\ LiveDisjoint
    /\ LiveAligned
    /\ SnapshotsSound
    /\ SnapshotsNested
    /\ MarksSeparateScopes
    /\ ArenaSound

-------------------------------------------------------------------------------
(* Places in the chain.                                                      *)

Pos(s, b) == CHOOSE i \in DOMAIN s : s[i] = b

\* A block is at one place of a chain without duplicates.
LEMMA PosFacts ==
    ASSUME NEW s \in Seq(BlockId), IsInjective(s), NEW b \in Range(s)
    PROVE  /\ Pos(s, b) \in 1..Len(s) /\ s[Pos(s, b)] = b
           /\ \A i \in 1..Len(s) : s[i] = b => i = Pos(s, b)
<1>1. DOMAIN s = 1..Len(s)
  OBVIOUS
<1>2. \E i \in DOMAIN s : s[i] = b
  BY DEF Range
<1>3. Pos(s, b) \in DOMAIN s /\ s[Pos(s, b)] = b
  BY <1>2 DEF Pos
<1> QED
  BY <1>1, <1>3 DEF IsInjective

\* A block keeps its place in every longer chain.
LEMMA PosPrefix ==
    ASSUME NEW s \in Seq(BlockId), NEW t \in Seq(BlockId),
           IsInjective(s), IsInjective(t), Len(s) <= Len(t),
           \A i \in 1..Len(s) : t[i] = s[i],
           NEW b \in Range(s)
    PROVE  b \in Range(t) /\ Pos(t, b) = Pos(s, b)
<1>1. Pos(s, b) \in 1..Len(s) /\ s[Pos(s, b)] = b
  BY PosFacts
<1>2. Pos(s, b) \in 1..Len(t) /\ t[Pos(s, b)] = b /\ DOMAIN t = 1..Len(t)
  BY <1>1
<1>3. b \in Range(t)
  BY <1>2 DEF Range
<1> QED
  BY <1>2, <1>3, PosFacts

\* The places of an open arena's blocks: each has one, the last block's is the
\* highest.
LEMMA Places ==
    ASSUME IInv, Open, NEW b \in heap
    PROVE  /\ Place(b) = Pos(chain, b)
           /\ chain \in Seq(BlockId) /\ IsInjective(chain) /\ b \in Range(chain)
           /\ Place(b) \in 1..Len(chain) /\ chain[Place(b)] = b
           /\ b = Last(chain) \/ Place(b) < Place(Last(chain))
<1>1. chain \in Seq(BlockId) /\ IsInjective(chain) /\ heap = Range(chain)
  BY DEF IInv, TypeOK, HeapIsChain
<1>2. Len(chain) \in Nat \ {0} /\ Last(chain) = chain[Len(chain)] /\ Last(chain) \in Range(chain)
  BY <1>1, OpenFacts
<1>3. Pos(chain, b) \in 1..Len(chain) /\ chain[Pos(chain, b)] = b
  BY <1>1, PosFacts
<1>4. Len(chain) = Pos(chain, Last(chain))
  BY <1>1, <1>2, PosFacts
<1>5. Place(b) = Pos(chain, b) /\ Place(Last(chain)) = Pos(chain, Last(chain))
  BY DEF Place, Pos
<1> QED
  BY <1>1, <1>2, <1>3, <1>4, <1>5

\* Everything in the arena is below the fill level of the last block.
LEMMA BelowLast ==
    ASSUME IInv, Open, NEW b \in heap, NEW n \in Nat, NEW m \in Nat,
           b = Last(chain) => n <= m
    PROVE  Below(b, n, Last(chain), m)
BY Places DEF Below

-------------------------------------------------------------------------------
(* Steps that change little.                                                 *)

\* Nothing but status, the caller's pointers and the array changes.
LEMMA QuietSound ==
    ASSUME CarefulInv, IInv', UNCHANGED <<structure, snapshots, live>>
    PROVE  CarefulInv'
<1>1. UNCHANGED <<arena, heap, chain, block, top, snapshots, live>>
  BY DEF structure
<1>2. BlocksSound' /\ LiveSound' /\ LiveDisjoint' /\ LiveAligned' /\ SnapshotsSound'
  BY <1>1 DEF CarefulInv, BlocksSound, LiveSound, LiveDisjoint, LiveAligned, SnapshotsSound
<1>3. SnapshotsNested' /\ MarksSeparateScopes'
  BY <1>1 DEF CarefulInv, SnapshotsNested, MarksSeparateScopes, Below, Place
<1>4. ArenaSound'
  BY <1>1 DEF CarefulInv, ArenaSound, Open
<1> QED
  BY <1>2, <1>3, <1>4 DEF CarefulInv

\* Nothing is allocated and no snapshot outstanding afterwards.
LEMMA ClearSound ==
    ASSUME IInv', BlocksSound', ArenaSound', live' = {}, snapshots' = <<>>
    PROVE  CarefulInv'
BY DEF CarefulInv, LiveSound, LiveDisjoint, LiveAligned, SnapshotsSound, SnapshotsNested,
       MarksSeparateScopes

-------------------------------------------------------------------------------
(* Allocation.                                                               *)

\* The types of what an open arena holds.
LEMMA BlockFacts ==
    ASSUME CarefulInv, NEW b \in heap
    PROVE  /\ b \in BlockId
           /\ block[b].allocated \in Word /\ block[b].capacity \in Word
           /\ block[b].allocated \in Nat /\ block[b].capacity \in Nat
           /\ block[b].allocated <= block[b].capacity
           /\ block[b].capacity <= MmapLimit => block[b].capacity = block[b].region
<1>1. b \in BlockId /\ block[b] \in [capacity : Word, allocated : Word, region : Word]
  BY DEF CarefulInv, IInv, TypeOK
<1> QED
  BY <1>1, WordModAssumption DEF Word, CarefulInv, BlocksSound

\* The types of a live allocation, and what the invariant says of it.
LEMMA LiveFacts ==
    ASSUME CarefulInv, NEW r \in live
    PROVE  /\ r.block \in heap /\ r.lo \in Nat /\ r.size \in Nat /\ r.depth \in Nat
           /\ r.size > 0 /\ r.lo + r.size <= block[r.block].allocated
           /\ r.depth <= Len(snapshots) /\ r.lo % arena.alignment = 0
<1>1. r \in Allocations
  BY DEF CarefulInv, IInv, TypeOK
<1> QED
  BY <1>1, WordModAssumption DEF Allocations, Word, CarefulInv, LiveSound, LiveAligned

\* The types of a snapshot, and what the invariant says of it.
LEMMA SnapshotFacts ==
    ASSUME CarefulInv, NEW i \in DOMAIN snapshots
    PROVE  /\ snapshots[i].top \in heap /\ snapshots[i].allocated \in Nat
           /\ snapshots[i].capacity = block[snapshots[i].top].capacity
           /\ snapshots[i].allocated <= block[snapshots[i].top].allocated
           /\ Open /\ arena.allocator_type = "STACK" /\ i \in 1..Len(snapshots)
           /\ Len(snapshots) \in Nat
<1>1. snapshots \in Seq(Snapshot)
  BY DEF CarefulInv, IInv, TypeOK
<1>2. DOMAIN snapshots = 1..Len(snapshots) /\ Len(snapshots) \in Nat /\ snapshots[i] \in Snapshot
  BY <1>1
<1>3. snapshots[i].allocated \in Nat
  BY <1>2, WordModAssumption DEF Snapshot, Word
<1>4. snapshots # <<>>
  BY <1>2
<1> QED
  BY <1>2, <1>3, <1>4 DEF CarefulInv, SnapshotsSound, ArenaSound

\* A request that fits in a block starts aligned, past the bytes given out, and
\* ends where the fill level is put.
LEMMA TakeFacts ==
    ASSUME CarefulInv, Open, NEW b \in heap, NEW n \in Word,
           n + arena.alignment < WordMod, FitsIn(b, n)
    PROVE  /\ AlignedOffset(b) \in Nat /\ block[b].allocated <= AlignedOffset(b)
           /\ AlignedOffset(b) % arena.alignment = 0
           /\ AddW(block[b].allocated, TakenBytes(b, n)) = AlignedOffset(b) + n
           /\ AlignedOffset(b) + n <= block[b].capacity
<1>1. arena.alignment \in Word \ {0}
  BY OpenFacts DEF CarefulInv
<1>2. /\ block[b].allocated \in Word /\ block[b].capacity \in Word
      /\ block[b].allocated <= block[b].capacity
  BY BlockFacts
<1>3. AddW(n, Padding(block[b].allocated, arena.alignment))
        <= SubW(block[b].capacity, block[b].allocated)
  BY DEF FitsIn, TakenBytes
<1> QED
  BY <1>1, <1>2, <1>3, AlignedPiece DEF TakenBytes, AlignedOffset

\* An allocation from the room left in a block, on a stack the top.
LEMMA TakeSound ==
    ASSUME CarefulInv, IInv', Open, NEW b \in heap, NEW n \in Word, NEW size \in Word \ {0},
           size <= n, n + arena.alignment < WordMod,
           arena.allocator_type = "STACK" => b = Last(chain),
           FitsIn(b, n), TakeFrom(b, n, size), UNCHANGED <<arena, snapshots>>
    PROVE  CarefulInv' /\ live' # live
<1> DEFINE old == block[b].allocated
           taken == AddW(block[b].allocated, TakenBytes(b, n))
           lo == AlignedOffset(b)
           new == [block |-> b, lo |-> lo, size |-> size, depth |-> Len(snapshots)]
<1>1. /\ lo \in Nat /\ old <= lo /\ lo % arena.alignment = 0
      /\ taken = lo + n /\ lo + n <= block[b].capacity
  BY TakeFacts
<1>2. /\ block' = [block EXCEPT ![b].allocated = taken]
      /\ live' = live \cup {new}
      /\ UNCHANGED <<heap, chain, arena, snapshots>>
  BY DEF TakeFrom, Hand
<1>3. block \in [BlockId -> [capacity : Word, allocated : Word, region : Word]] /\ heap \subseteq BlockId
  BY DEF CarefulInv, IInv, TypeOK
<1>4. old \in Nat /\ n \in Nat /\ size \in Nat /\ size > 0 /\ Len(snapshots) \in Nat
  <2>1. old \in Nat
    BY BlockFacts
  <2>2. n \in Nat /\ size \in Nat /\ size > 0
    BY WordModAssumption DEF Word
  <2>3. Len(snapshots) \in Nat
    BY DEF CarefulInv, IInv, TypeOK
  <2> QED
    BY <2>1, <2>2, <2>3
<1> HIDE DEF taken, lo
<1>5. /\ \A c \in heap : block'[c].capacity = block[c].capacity /\ block'[c].region = block[c].region
      /\ \A c \in heap : c # b => block'[c] = block[c]
      /\ block'[b].allocated = taken
  BY <1>2, <1>3
<1>6. taken \in Nat /\ old <= taken /\ lo + size <= taken /\ taken <= block[b].capacity
  BY <1>1, <1>4
<1>7. \A c \in heap : block[c].allocated <= block'[c].allocated
  BY <1>5, <1>6, BlockFacts
<1>8. BlocksSound'
  BY <1>2, <1>5, <1>6 DEF CarefulInv, BlocksSound
<1>9. ASSUME NEW r \in live PROVE r # new /\ r.lo + r.size <= block'[r.block].allocated
  <2>1. block[r.block].allocated \in Nat /\ block'[r.block].allocated \in Nat
    BY <1>5, <1>6, LiveFacts, BlockFacts
  <2>2. r.lo + r.size <= block'[r.block].allocated
    BY <2>1, <1>7, LiveFacts
  <2> QED
    BY <2>2, <1>1, <1>4, LiveFacts
<1>10. LiveSound'
  <2>1. \A r \in live : r.block \in heap /\ r.size > 0 /\ r.depth <= Len(snapshots)
    BY LiveFacts
  <2>2. new.block \in heap /\ new.size > 0 /\ new.depth <= Len(snapshots)
        /\ new.lo + new.size <= block'[new.block].allocated
    BY <1>4, <1>5, <1>6
  <2> QED
    BY <2>1, <2>2, <1>2, <1>9 DEF LiveSound
<1>11. LiveDisjoint'
  <2>1. ASSUME NEW r \in live PROVE r.block # b \/ r.lo + r.size <= new.lo
    BY <1>1, <1>4, LiveFacts
  <2>2. \A r, s \in live : \/ r = s \/ r.block # s.block
                           \/ r.lo + r.size <= s.lo \/ s.lo + s.size <= r.lo
    BY DEF CarefulInv, LiveDisjoint
  <2> QED
    BY <2>1, <2>2, <1>2 DEF LiveDisjoint
<1>12. LiveAligned'
  BY <1>1, <1>2, LiveFacts DEF LiveAligned
<1>13. SnapshotsSound'
  <2> SUFFICES ASSUME NEW i \in DOMAIN snapshots
               PROVE  /\ snapshots[i].top \in heap
                      /\ snapshots[i].capacity = block'[snapshots[i].top].capacity
                      /\ snapshots[i].allocated <= block'[snapshots[i].top].allocated
    BY <1>2 DEF SnapshotsSound
  <2>1. block[snapshots[i].top].allocated \in Nat /\ block'[snapshots[i].top].allocated \in Nat
    BY <1>5, <1>6, SnapshotFacts, BlockFacts
  <2> QED
    BY <2>1, <1>5, <1>7, SnapshotFacts
<1>14. SnapshotsNested'
  BY <1>2 DEF CarefulInv, SnapshotsNested, Below, Place
<1>15. MarksSeparateScopes'
  <2>1. ASSUME NEW i \in DOMAIN snapshots, NEW r \in live
        PROVE  IF r.depth < i THEN Below(r.block, r.lo + r.size, snapshots[i].top, snapshots[i].allocated)
               ELSE Below(snapshots[i].top, snapshots[i].allocated, r.block, r.lo)
    BY DEF CarefulInv, MarksSeparateScopes
  <2>2. ASSUME NEW i \in DOMAIN snapshots
        PROVE  /\ ~(new.depth < i)
               /\ Below(snapshots[i].top, snapshots[i].allocated, new.block, new.lo)
    <3>1. b = Last(chain) /\ i \in 1..Len(snapshots)
      BY SnapshotFacts
    <3>2. snapshots[i].top = Last(chain) => snapshots[i].allocated <= lo
      BY <3>1, <1>1, <1>4, SnapshotFacts
    <3>3. Below(snapshots[i].top, snapshots[i].allocated, Last(chain), lo)
      BY <3>2, <1>1, SnapshotFacts, BelowLast DEF CarefulInv
    <3> QED
      BY <3>1, <3>3, <1>4
  <2>3. \A i \in DOMAIN snapshots, r \in live' :
          IF r.depth < i THEN Below(r.block, r.lo + r.size, snapshots[i].top, snapshots[i].allocated)
          ELSE Below(snapshots[i].top, snapshots[i].allocated, r.block, r.lo)
    BY <1>2, <2>1, <2>2
  <2>4. chain' = chain /\ snapshots' = snapshots
    BY <1>2
  <2> HIDE DEF new
  <2> QED
    BY <2>3, <2>4 DEF MarksSeparateScopes, Below, Place
<1>16. ArenaSound'
  BY <1>2 DEF CarefulInv, ArenaSound, Open
<1>17. live' # live
  BY <1>2, <1>9
<1> QED
  BY <1>8, <1>10, <1>11, <1>12, <1>13, <1>14, <1>15, <1>16, <1>17 DEF CarefulInv

\* An allocation from the last of the blocks appended to the chain.
LEMMA AppendSound ==
    ASSUME CarefulInv, IInv', Open, UNCHANGED <<arena, snapshots>>,
           NEW fresh \in SUBSET (BlockId \ heap), heap' = heap \cup fresh,
           \A c \in heap : block'[c] = block[c],
           \A c \in fresh :
              /\ block'[c].allocated <= block'[c].capacity
              /\ block'[c].capacity <= MmapLimit => block'[c].capacity = block'[c].region,
           Len(chain) < Len(chain'), \A i \in 1..Len(chain) : chain'[i] = chain[i],
           NEW b \in fresh, b = Last(chain'),
           NEW size \in Word \ {0}, size <= block'[b].allocated, Hand(b, 0, size)
    PROVE  CarefulInv' /\ live' # live
<1> DEFINE new == [block |-> b, lo |-> 0, size |-> size, depth |-> Len(snapshots)]
<1>1. live' = live \cup {new}
  BY DEF Hand
<1>2. size \in Nat /\ size > 0 /\ Len(snapshots) \in Nat
  BY WordModAssumption DEF Word, CarefulInv, IInv, TypeOK
<1>3. Open' /\ arena' = arena /\ snapshots' = snapshots
  BY DEF Open
<1>4. BlocksSound'
  BY DEF CarefulInv, BlocksSound
<1>5. LiveSound'
  <2>1. \A r \in live : /\ r.block \in heap' /\ r.size > 0 /\ r.depth <= Len(snapshots)
                        /\ r.lo + r.size <= block'[r.block].allocated
    BY LiveFacts
  <2>2. new.block \in heap' /\ new.size > 0 /\ new.depth <= Len(snapshots)
        /\ new.lo + new.size <= block'[new.block].allocated
    BY <1>2
  <2> QED
    BY <2>1, <2>2, <1>1, <1>3 DEF LiveSound
<1>6. LiveDisjoint'
  <2>1. \A r \in live : r.block # b
    BY LiveFacts
  <2>2. \A r, s \in live : \/ r = s \/ r.block # s.block
                           \/ r.lo + r.size <= s.lo \/ s.lo + s.size <= r.lo
    BY DEF CarefulInv, LiveDisjoint
  <2> QED
    BY <2>1, <2>2, <1>1 DEF LiveDisjoint
<1>7. LiveAligned'
  <2>1. arena.alignment \in Nat \ {0}
    BY OpenFacts, WordModAssumption DEF CarefulInv, Word
  <2>2. 0 % arena.alignment = 0
    BY <2>1
  <2> QED
    BY <2>2, <1>1, <1>3, LiveFacts DEF LiveAligned
<1>8. SnapshotsSound'
  BY <1>3, SnapshotFacts DEF SnapshotsSound
<1>9. ASSUME NEW c \in heap
      PROVE  Place(c)' = Place(c) /\ Place(c)' \in Nat /\ Place(c)' < Place(b)' /\ c # b
  <2>1. /\ chain \in Seq(BlockId) /\ IsInjective(chain) /\ c \in Range(chain)
        /\ Place(c) = Pos(chain, c) /\ Place(c) \in 1..Len(chain) /\ Len(chain) \in Nat
    BY Places DEF CarefulInv
  <2>2. chain' \in Seq(BlockId) /\ IsInjective(chain') /\ heap' = Range(chain') /\ Len(chain') \in Nat
    BY DEF IInv, TypeOK, HeapIsChain
  <2>3. Pos(chain', c) = Pos(chain, c)
    BY <2>1, <2>2, PosPrefix
  <2>4. Pos(chain', b) = Len(chain')
    <3>1. b \in Range(chain') /\ b = chain'[Len(chain')] /\ Len(chain') \in 1..Len(chain')
      BY <2>1, <2>2 DEF Last
    <3> QED
      BY <3>1, <2>2, PosFacts
  <2>5. Place(c)' = Pos(chain', c) /\ Place(b)' = Pos(chain', b)
    BY DEF Place, Pos
  <2> QED
    BY <2>1, <2>2, <2>3, <2>4, <2>5
<1>10. ASSUME NEW c \in heap, NEW m, NEW d \in heap, NEW k
       PROVE  Below(c, m, d, k)' <=> Below(c, m, d, k)
  BY <1>9 DEF Below
<1>11. SnapshotsNested'
  <2>1. \A i, j \in DOMAIN snapshots :
          i < j => Below(snapshots[i].top, snapshots[i].allocated,
                         snapshots[j].top, snapshots[j].allocated)'
    BY <1>10, SnapshotFacts DEF CarefulInv, SnapshotsNested
  <2> QED
    BY <2>1, <1>3 DEF SnapshotsNested, Below
<1>12. MarksSeparateScopes'
  <2>1. ASSUME NEW i \in DOMAIN snapshots, NEW r \in live
        PROVE  IF r.depth < i
               THEN Below(r.block, r.lo + r.size, snapshots[i].top, snapshots[i].allocated)'
               ELSE Below(snapshots[i].top, snapshots[i].allocated, r.block, r.lo)'
    BY <1>10, SnapshotFacts, LiveFacts DEF CarefulInv, MarksSeparateScopes
  <2>2. ASSUME NEW i \in DOMAIN snapshots
        PROVE  /\ ~(new.depth < i)
               /\ Below(snapshots[i].top, snapshots[i].allocated, new.block, new.lo)'
    BY <1>2, <1>9, SnapshotFacts DEF Below
  <2>3. \A i \in DOMAIN snapshots, r \in live' :
          IF r.depth < i
          THEN Below(r.block, r.lo + r.size, snapshots[i].top, snapshots[i].allocated)'
          ELSE Below(snapshots[i].top, snapshots[i].allocated, r.block, r.lo)'
    BY <1>1, <2>1, <2>2
  <2> QED
    BY <1>3, <2>3 DEF MarksSeparateScopes, Below
<1>13. ArenaSound'
  BY <1>3 DEF CarefulInv, ArenaSound
<1>14. live' # live
  <2>1. new.block = b /\ b \notin heap
    OBVIOUS
  <2>2. new \notin live
    BY <2>1, LiveFacts
  <2> QED
    BY <2>2, <1>1
<1> QED
  BY <1>4, <1>5, <1>6, <1>7, <1>8, <1>11, <1>12, <1>13, <1>14 DEF CarefulInv

\* POOL rounds a request up by less than a pool.
LEMMA ChainSizeBounds ==
    ASSUME CarefulInv, Open, NEW size \in Word, ModestRequest(size)
    PROVE  /\ ChainSize(size) \in Word /\ size <= ChainSize(size)
           /\ ChainSize(size) + arena.alignment < WordMod
           /\ size \in Word \ {0}
<1>1. /\ size \in Nat /\ size > 0 /\ arena.alignment \in Nat /\ arena.pool_size \in Nat
      /\ size + arena.alignment + arena.pool_size < WordMod
  BY OpenFacts, WordModAssumption DEF ModestRequest, CarefulInv, Word
<1>2. CASE arena.allocator_type # "POOL"
  BY <1>1, <1>2, WordModAssumption DEF ChainSize, Word
<1>3. CASE arena.allocator_type = "POOL"
  <2> DEFINE p == arena.pool_size
             whole == (size \div p) * p
  <2>1. p \in Word \ {0}
    BY <1>3, OpenFacts DEF CarefulInv, IInv, TypeOK
  <2>2. whole \in Word /\ whole <= size /\ size < whole + p
    BY <2>1, WholePools
  <2>3. PoolAlignedSize(size) = IF whole < size THEN AddW(whole, p) ELSE whole
    BY DEF PoolAlignedSize
  <2> HIDE DEF whole
  <2>4. p \in Nat /\ whole \in Nat /\ WordMod \in Nat /\ size + arena.alignment + p < WordMod
    BY <1>1, <2>1, <2>2, WordModAssumption DEF Word
  <2> HIDE DEF p
  <2>5. AddW(whole, p) = whole + p
    BY <2>2, <2>4, <1>1 DEF AddW
  <2>6. /\ PoolAlignedSize(size) \in Nat /\ size <= PoolAlignedSize(size)
        /\ PoolAlignedSize(size) <= size + p
    BY <2>2, <2>3, <2>4, <2>5, <1>1
  <2>7. PoolAlignedSize(size) + arena.alignment < WordMod /\ PoolAlignedSize(size) < WordMod
    BY <2>4, <2>6, <1>1
  <2> QED
    BY <2>4, <2>6, <2>7, <1>1, <1>3 DEF ChainSize, Word
<1> QED
  BY <1>2, <1>3

\* The alignment of an open arena is one safe_aligned_alloc takes.
LEMMA AlignmentInRange ==
    ASSUME CarefulInv, Open
    PROVE  arena.alignment \in 1..AlignLimit
BY OpenFacts DEF CarefulInv

\* linear_alloc and pool_alloc when they append blocks.
LEMMA GrowSound ==
    ASSUME CarefulInv, IInv', Open, NEW n \in Word, NEW size \in Word \ {0}, size <= n,
           Grow(n, size), UNCHANGED <<arena, snapshots>>
    PROVE  CarefulInv' /\ live' # live
<1>1. PICK k \in Growths : GrowthStopsAt(k, n) /\
        \E fresh \in Injection(1..k, BlockId \ heap) :
            /\ chain' = chain \o fresh
            /\ heap' = heap \cup Range(fresh)
            /\ block' = [b \in BlockId |->
                  IF b \in Range(fresh)
                  THEN LET j == CHOOSE i \in 1..k : fresh[i] = b
                       IN  NewBlock(GrownCapacity(j), arena.alignment, IF j = k THEN n ELSE 0)
                  ELSE block[b]]
            /\ Hand(fresh[k], 0, size)
  BY DEF Grow
<1>2. PICK fresh \in Injection(1..k, BlockId \ heap) :
            /\ chain' = chain \o fresh
            /\ heap' = heap \cup Range(fresh)
            /\ block' = [b \in BlockId |->
                  IF b \in Range(fresh)
                  THEN LET j == CHOOSE i \in 1..k : fresh[i] = b
                       IN  NewBlock(GrownCapacity(j), arena.alignment, IF j = k THEN n ELSE 0)
                  ELSE block[b]]
            /\ Hand(fresh[k], 0, size)
  BY <1>1
<1>3. k \in Nat \ {0}
  BY DEF Growths
<1>4. fresh \in [1..k -> BlockId \ heap] /\ IsInjective(fresh)
  BY DEF Injection
<1>5. fresh \in Seq(BlockId) /\ Len(fresh) = k /\ Range(fresh) \subseteq BlockId \ heap
      /\ fresh[k] \in Range(fresh) /\ fresh[k] \in BlockId
  <2>1. fresh \in [1..k -> BlockId]
    BY <1>4
  <2> QED
    BY <2>1, <1>3, <1>4, SeqDef, LenProperties DEF Range
<1>6. chain \in Seq(BlockId) /\ heap \subseteq BlockId
  BY DEF CarefulInv, IInv, TypeOK
<1>7. /\ Len(chain') = Len(chain) + k /\ Len(chain) \in Nat
      /\ \A i \in 1..Len(chain) : chain'[i] = chain[i]
      /\ chain'[Len(chain) + k] = fresh[k]
  <2>1. Len(chain) \in Nat /\ chain' = chain \o fresh
    BY <1>2, <1>6
  <2>2. /\ Len(chain \o fresh) = Len(chain) + Len(fresh)
        /\ \A i \in 1..(Len(chain) + Len(fresh)) :
              (chain \o fresh)[i] = IF i <= Len(chain) THEN chain[i] ELSE fresh[i - Len(chain)]
    BY <1>5, <1>6, ConcatProperties
  <2>3. /\ Len(chain') = Len(chain) + k
        /\ \A i \in 1..(Len(chain) + k) :
              chain'[i] = IF i <= Len(chain) THEN chain[i] ELSE fresh[i - Len(chain)]
    BY <2>1, <2>2, <1>5
  <2>4. Len(chain) + k \in 1..(Len(chain) + k) /\ ~(Len(chain) + k <= Len(chain))
        /\ (Len(chain) + k) - Len(chain) = k
    BY <2>1, <1>3
  <2>5. chain'[Len(chain) + k] = fresh[k]
    BY <2>3, <2>4
  <2>6. \A i \in 1..Len(chain) : i \in 1..(Len(chain) + k) /\ i <= Len(chain)
    BY <2>1, <1>3
  <2> QED
    BY <2>1, <2>3, <2>5, <2>6
<1>8. \A c \in heap : block'[c] = block[c]
  BY <1>2, <1>5, <1>6
<1>9. ASSUME NEW c \in Range(fresh)
      PROVE  \E j \in 1..k : /\ fresh[j] = c
                             /\ block'[c] = NewBlock(GrownCapacity(j), arena.alignment, IF j = k THEN n ELSE 0)
  <2>1. \E i \in 1..k : fresh[i] = c
    BY <1>4 DEF Range
  <2> QED
    BY <2>1, <1>2, <1>5
<1>10. ASSUME NEW c \in Range(fresh)
       PROVE  /\ block'[c].allocated <= block'[c].capacity
              /\ block'[c].capacity <= MmapLimit => block'[c].capacity = block'[c].region
  <2>1. PICK j \in 1..k : block'[c] = NewBlock(GrownCapacity(j), arena.alignment, IF j = k THEN n ELSE 0)
    BY <1>9
  <2>2. GrownCapacity(j) \in Word /\ (j = k => n <= GrownCapacity(j))
    BY <1>1 DEF GrowthStopsAt, Mappable
  <2>3. /\ GrownCapacity(j) <= MmapLimit
             => UsableBytes(GrownCapacity(j), arena.alignment) = GrownCapacity(j)
    BY <2>2, AlignmentInRange, UsableMapped
  <2> QED
    BY <2>1, <2>2, <2>3, WordModAssumption DEF NewBlock, Word
<1>11. block'[fresh[k]].allocated = n
  <2>1. PICK j \in 1..k : /\ fresh[j] = fresh[k]
                          /\ block'[fresh[k]] = NewBlock(GrownCapacity(j), arena.alignment, IF j = k THEN n ELSE 0)
    BY <1>5, <1>9
  <2>2. j = k
    BY <2>1, <1>3, <1>4 DEF IsInjective
  <2> QED
    BY <2>1, <2>2 DEF NewBlock
<1>12. fresh[k] = Last(chain')
  BY <1>7 DEF Last
<1>13. Len(chain) < Len(chain')
  BY <1>3, <1>7
<1>14. size <= block'[fresh[k]].allocated
  BY <1>11
<1>15. Range(fresh) \in SUBSET (BlockId \ heap) /\ fresh[k] \in Range(fresh)
  BY <1>5
<1>16. /\ heap' = heap \cup Range(fresh) /\ Hand(fresh[k], 0, size)
       /\ \A i \in 1..Len(chain) : chain'[i] = chain[i]
  BY <1>2, <1>7
<1>17. \A c \in Range(fresh) :
          /\ block'[c].allocated <= block'[c].capacity
          /\ block'[c].capacity <= MmapLimit => block'[c].capacity = block'[c].region
  BY <1>10
<1> QED
  BY <1>8, <1>12, <1>13, <1>14, <1>15, <1>16, <1>17, AppendSound

\* stack_alloc when it pushes a block large enough for the request.
LEMMA PushSound ==
    ASSUME CarefulInv, IInv', Open, NEW size \in Word \ {0}, size <= PushedCapacity,
           PushBlock(size), UNCHANGED <<arena, snapshots>>
    PROVE  CarefulInv' /\ live' # live
<1>1. PICK fresh \in BlockId \ heap :
        /\ Mappable(PushedCapacity, arena.alignment)
        /\ block' = [block EXCEPT ![fresh] = NewBlock(PushedCapacity, arena.alignment, size)]
        /\ chain' = Append(chain, fresh)
        /\ heap' = heap \cup {fresh}
        /\ Hand(fresh, 0, size)
  BY DEF PushBlock
<1>2. /\ chain \in Seq(BlockId) /\ heap \subseteq BlockId
      /\ block \in [BlockId -> [capacity : Word, allocated : Word, region : Word]]
  BY DEF CarefulInv, IInv, TypeOK
<1>3. /\ Len(chain') = Len(chain) + 1 /\ Len(chain) \in Nat
      /\ \A i \in 1..Len(chain) : chain'[i] = chain[i]
      /\ fresh = Last(chain')
  BY <1>1, <1>2, AppendProperties DEF Last
<1>4. (\A c \in heap : block'[c] = block[c]) /\ block'[fresh] = NewBlock(PushedCapacity, arena.alignment, size)
  BY <1>1, <1>2
<1>5. /\ block'[fresh].allocated = size /\ block'[fresh].capacity = PushedCapacity
      /\ PushedCapacity <= MmapLimit => block'[fresh].region = PushedCapacity
  <2>1. PushedCapacity <= MmapLimit => UsableBytes(PushedCapacity, arena.alignment) = PushedCapacity
    BY <1>1, AlignmentInRange, UsableMapped DEF Mappable
  <2> QED
    BY <1>4, <2>1 DEF NewBlock
<1>6. size <= block'[fresh].allocated
  BY <1>5, WordModAssumption DEF Word
<1>7. {fresh} \in SUBSET (BlockId \ heap) /\ fresh \in {fresh} /\ heap' = heap \cup {fresh}
  BY <1>1
<1>8. \A c \in {fresh} :
         /\ block'[c].allocated <= block'[c].capacity
         /\ block'[c].capacity <= MmapLimit => block'[c].capacity = block'[c].region
  BY <1>5
<1>9. Len(chain) < Len(chain') /\ Hand(fresh, 0, size)
  BY <1>1, <1>3
<1> QED
  BY <1>3, <1>4, <1>6, <1>7, <1>8, <1>9, AppendSound

\* A request the careful client makes and the arena grants, whatever the
\* strategy.
LEMMA GrantedSound ==
    ASSUME CarefulInv, IInv', Open, NEW size \in Word, ModestRequest(size), StackServes(size),
           AllocGranted(size)
    PROVE  CarefulInv' /\ live' # live
<1>1. UNCHANGED <<arena, snapshots>>
  BY DEF AllocGranted, stackState
<1>2. /\ ChainSize(size) \in Word /\ size <= ChainSize(size)
      /\ ChainSize(size) + arena.alignment < WordMod
      /\ size \in Word \ {0}
  BY ChainSizeBounds
<1>3. Head(chain) \in heap /\ \A i \in DOMAIN chain : chain[i] \in heap
  BY OpenFacts DEF CarefulInv
<1>4. CASE arena.allocator_type \notin {"SCRATCH", "STACK"}
  <2>1. CASE FirstFit(ChainSize(size), size)
    <3>1. PICK i \in DOMAIN chain : /\ FitsIn(chain[i], ChainSize(size))
                                   /\ TakeFrom(chain[i], ChainSize(size), size)
      BY <2>1 DEF FirstFit
    <3> QED
      BY <1>1, <1>2, <1>3, <1>4, <3>1, TakeSound
  <2>2. CASE Grow(ChainSize(size), size)
    BY <1>1, <1>2, <2>2, GrowSound
  <2> QED
    BY <1>4, <2>1, <2>2 DEF AllocGranted, ChainGrants
<1>5. size <= size /\ size + arena.alignment < WordMod
  <2>1. /\ size \in Nat /\ arena.alignment \in Nat /\ arena.pool_size \in Nat
        /\ WordMod \in Nat
        /\ size + arena.alignment + arena.pool_size < WordMod
    BY OpenFacts, WordModAssumption DEF ModestRequest, CarefulInv, Word
  <2> QED
    BY <2>1
<1>6. CASE arena.allocator_type = "SCRATCH"
  <2>1. FitsIn(Head(chain), size) /\ TakeFrom(Head(chain), size, size)
    BY <1>6 DEF AllocGranted, ScratchGrants
  <2> QED
    BY <1>1, <1>2, <1>3, <1>5, <1>6, <2>1, TakeSound
<1>7. CASE arena.allocator_type = "STACK"
  <2>1. top = Last(chain) /\ top \in heap
    BY <1>7, OpenFacts DEF CarefulInv, IInv, TopIsLast
  <2>2. CASE StackHasRoom(size) /\ TakeFrom(top, size, size)
    <3>1. FitsIn(top, size)
      BY <2>2 DEF StackHasRoom
    <3> QED
      BY <1>1, <1>2, <1>5, <2>1, <2>2, <3>1, TakeSound
  <2>3. CASE ~StackHasRoom(size) /\ PushBlock(size)
    <3>1. size <= PushedCapacity
      BY <1>7, <2>3 DEF StackServes
    <3> QED
      BY <1>1, <1>2, <2>3, <3>1, PushSound
  <2> QED
    BY <1>7, <2>2, <2>3 DEF AllocGranted, StackGrants
<1> QED
  BY <1>4, <1>6, <1>7

-------------------------------------------------------------------------------
(* Lifecycle.                                                                *)

\* An arena that is not open holds nothing.
LEMMA ClosedFacts ==
    ASSUME CarefulInv, ~Open
    PROVE  heap = {} /\ live = {} /\ snapshots = <<>>
<1>1. heap = {}
  BY DEF CarefulInv, IInv, HeapIsChain, Range
<1> QED
  BY <1>1, LiveFacts DEF CarefulInv, ArenaSound

\* create leaves an arena with one empty block.
LEMMA CreateSound ==
    ASSUME CarefulInv, IInv', NEW type, NEW a \in Alignments, NEW size,
           CarefulCreate(type, a, size)
    PROVE  CarefulInv'
<1>1. ASSUME NEW code, Abort(code) PROVE CarefulInv'
  BY <1>1, QuietSound DEF Abort, stackState
<1>2. CASE /\ ~Open
           /\ arena' = [allocator_type |-> type, alignment |-> a,
                        pool_size |-> IF type = "POOL" THEN size ELSE 0]
           /\ \E head \in BlockId : heap' = {head} /\ chain' = <<head>>
           /\ snapshots' = <<>> /\ live' = live
  <2>1. live' = {} /\ snapshots' = <<>>
    BY <1>2, ClosedFacts
  <2>2. heap' = {Head(chain')}
    BY <1>2, SingleChain
  <2>3. BlocksSound'
    BY <2>2 DEF IInv, BlocksWithinRegion, BlocksSound
  <2>4. ArenaSound'
    BY <1>2 DEF ArenaSound, CarefulCreate
  <2> QED
    BY <2>1, <2>3, <2>4, ClearSound
<1> QED
  BY <1>1, <1>2 DEF CarefulCreate, Create

\* destroy leaves nothing.
LEMMA DestroySound ==
    ASSUME CarefulInv, IInv', Open, Destroy
    PROVE  CarefulInv'
<1>1. ~Open' /\ live' = {} /\ snapshots' = <<>> /\ heap' = {}
  BY DEF Destroy, Open, CarefulInv, IInv, HeapIsChain
<1>2. BlocksSound' /\ ArenaSound'
  BY <1>1 DEF BlocksSound, ArenaSound
<1> QED
  BY <1>1, <1>2, ClearSound

\* reset leaves the head, empty.
LEMMA ResetSound ==
    ASSUME CarefulInv, IInv', CarefulReset
    PROVE  CarefulInv'
<1>1. Open /\ live' = {} /\ snapshots' = <<>> /\ UNCHANGED arena /\ ResetToHead
  BY DEF CarefulReset, Reset, stackState
<1>2. heap' = {Head(chain)} /\ chain' = <<Head(chain)>>
  BY <1>1 DEF ResetToHead
<1>3. BlocksSound'
  BY <1>2 DEF IInv, BlocksWithinRegion, BlocksSound
<1>4. ArenaSound'
  BY <1>1 DEF CarefulInv, ArenaSound, Open
<1> QED
  BY <1>1, <1>3, <1>4, ClearSound

-------------------------------------------------------------------------------
(* Record and unwind.                                                        *)

\* record puts a mark above everything the arena holds.
LEMMA RecordSound ==
    ASSUME CarefulInv, IInv', CarefulRecord
    PROVE  CarefulInv'
<1>1. CASE snapshots' = Append(snapshots, Mark) /\ UNCHANGED <<structure, live>>
  <2> DEFINE n == Len(snapshots)
  <2>1. Open /\ arena.allocator_type = "STACK"
    BY DEF CarefulRecord, RecordError
  <2>2. UNCHANGED <<arena, heap, chain, block, top, live>>
    BY <1>1 DEF structure
  <2>3. top = Last(chain) /\ top \in heap /\ Mark \in Snapshot
    <3>1. top = Last(chain) /\ top \in heap
      BY <2>1, OpenFacts DEF CarefulInv, IInv, TopIsLast
    <3> QED
      BY <3>1, BlockFacts DEF Mark, Snapshot
  <2>4. snapshots \in Seq(Snapshot) /\ n \in Nat /\ DOMAIN snapshots = 1..n
    BY DEF CarefulInv, IInv, TypeOK
  <2>5. /\ Len(snapshots') = n + 1 /\ DOMAIN snapshots' = 1..(n + 1)
        /\ \A i \in 1..n : snapshots'[i] = snapshots[i]
        /\ snapshots'[n + 1] = Mark
    BY <1>1, <2>3, <2>4, AppendProperties
  <2>6. /\ Mark.top = Last(chain) /\ Mark.allocated = block[Last(chain)].allocated
        /\ Mark.capacity = block[Last(chain)].capacity /\ Last(chain) \in heap
    BY <2>3 DEF Mark
  <2> HIDE DEF n
  <2>7. \A i \in 1..(n + 1) : i \in 1..n \/ i = n + 1
    BY <2>4
  <2>8. block[Last(chain)].allocated \in Nat
    BY <2>6, BlockFacts
  <2>9. BlocksSound' /\ LiveDisjoint' /\ LiveAligned' /\ ArenaSound'
    BY <2>1, <2>2 DEF CarefulInv, BlocksSound, LiveDisjoint, LiveAligned, ArenaSound, Open
  <2>10. LiveSound'
    <3>1. \A r \in live : r.depth <= n + 1
      BY <2>4, LiveFacts DEF n
    <3> QED
      BY <2>2, <2>5, <3>1, LiveFacts DEF LiveSound
  <2>11. SnapshotsSound'
    <3>1. ASSUME NEW i \in 1..n
          PROVE  /\ snapshots'[i].top \in heap
                 /\ snapshots'[i].capacity = block[snapshots'[i].top].capacity
                 /\ snapshots'[i].allocated <= block[snapshots'[i].top].allocated
      BY <2>4, <2>5, SnapshotFacts
    <3>2. ASSUME NEW i, i = n + 1
          PROVE  /\ snapshots'[i].top \in heap
                 /\ snapshots'[i].capacity = block[snapshots'[i].top].capacity
                 /\ snapshots'[i].allocated <= block[snapshots'[i].top].allocated
      BY <2>5, <2>6, <2>8, <3>2
    <3> QED
      BY <2>2, <2>5, <2>7, <3>1, <3>2 DEF SnapshotsSound
  <2>12. SnapshotsNested'
    <3>1. ASSUME NEW i \in 1..n, NEW j \in 1..n, i < j
          PROVE  Below(snapshots[i].top, snapshots[i].allocated,
                       snapshots[j].top, snapshots[j].allocated)
      BY <2>4, <3>1 DEF CarefulInv, SnapshotsNested
    <3>2. ASSUME NEW i \in 1..n
          PROVE  Below(snapshots[i].top, snapshots[i].allocated, Mark.top, Mark.allocated)
      <4>1. /\ snapshots[i].top \in heap /\ snapshots[i].allocated \in Nat
            /\ snapshots[i].allocated <= block[snapshots[i].top].allocated
        BY <2>4, SnapshotFacts
      <4> QED
        BY <2>1, <2>6, <2>8, <4>1, BelowLast DEF CarefulInv
    <3>3. ASSUME NEW i \in 1..(n + 1), NEW j \in 1..(n + 1), i < j
          PROVE  Below(snapshots'[i].top, snapshots'[i].allocated,
                       snapshots'[j].top, snapshots'[j].allocated)
      <4>1. i \in 1..n
        BY <2>4, <3>3
      <4>2. CASE j \in 1..n
        BY <2>5, <3>1, <3>3, <4>1, <4>2
      <4>3. CASE j = n + 1
        BY <2>5, <3>2, <4>1, <4>3
      <4> QED
        BY <2>7, <4>2, <4>3
    <3> QED
      BY <2>2, <2>5, <3>3 DEF SnapshotsNested, Below, Place
  <2>13. MarksSeparateScopes'
    <3>1. ASSUME NEW i \in 1..n, NEW r \in live
          PROVE  IF r.depth < i
                 THEN Below(r.block, r.lo + r.size, snapshots[i].top, snapshots[i].allocated)
                 ELSE Below(snapshots[i].top, snapshots[i].allocated, r.block, r.lo)
      BY <2>4 DEF CarefulInv, MarksSeparateScopes
    <3>2. ASSUME NEW r \in live
          PROVE  r.depth < n + 1 /\ Below(r.block, r.lo + r.size, Mark.top, Mark.allocated)
      <4>1. /\ r.block \in heap /\ r.lo + r.size \in Nat /\ r.depth < n + 1
            /\ r.lo + r.size <= block[r.block].allocated
        BY <2>4, LiveFacts DEF n
      <4> QED
        BY <2>1, <2>6, <2>8, <4>1, BelowLast DEF CarefulInv
    <3>3. \A i \in 1..(n + 1), r \in live :
            IF r.depth < i
            THEN Below(r.block, r.lo + r.size, snapshots'[i].top, snapshots'[i].allocated)
            ELSE Below(snapshots'[i].top, snapshots'[i].allocated, r.block, r.lo)
      BY <2>5, <2>7, <3>1, <3>2
    <3> QED
      BY <2>2, <2>5, <3>3 DEF MarksSeparateScopes, Below, Place
  <2> QED
    BY <2>9, <2>10, <2>11, <2>12, <2>13 DEF CarefulInv
<1>2. ASSUME NEW code, Abort(code) PROVE CarefulInv'
  BY <1>2, QuietSound DEF Abort, stackState
<1> QED
  BY <1>1, <1>2 DEF CarefulRecord, StackRecord, Record

\* What is left of the chain when the blocks after b are freed: every block at
\* or before b, at the place it had.
LEMMA KeptBlocks ==
    ASSUME IInv, Open, NEW b \in heap
    PROVE  /\ \A c \in heap : Place(c) <= Place(b) => c \in Range(ChainUpTo(b))
           /\ \A c \in Range(ChainUpTo(b)) : c \in heap /\ Pos(ChainUpTo(b), c) = Place(c)
<1> DEFINE k == Place(b)
           kept == SubSeq(chain, 1, k)
<1>1. /\ chain \in Seq(BlockId) /\ IsInjective(chain) /\ Len(chain) \in Nat
      /\ DOMAIN chain = 1..Len(chain) /\ heap = Range(chain)
  BY OpenFacts DEF IInv, TypeOK, HeapIsChain
<1>2. k \in 1..Len(chain) /\ chain[k] = b
  BY Places
<1>3. ChainUpTo(b) = kept
  BY DEF ChainUpTo, Place
<1> HIDE DEF k
<1>4. /\ kept \in Seq(BlockId) /\ Len(kept) = k
      /\ \A i \in 1..k : kept[i] = chain[i]
  <2>1. \A i \in 1..k : chain[i] \in BlockId
    BY <1>1, <1>2
  <2> QED
    BY <2>1, <1>1, <1>2, SubSeqProperties
<1>5. IsInjective(kept)
  BY <1>3, ChainPrefix
<1> HIDE DEF kept
<1>6. DOMAIN kept = 1..k
  BY <1>4
<1>7. ASSUME NEW c \in heap, Place(c) <= k PROVE c \in Range(kept)
  <2>1. Place(c) \in 1..k /\ chain[Place(c)] = c
    BY <1>1, <1>2, <1>7, Places
  <2> QED
    BY <2>1, <1>4, <1>6 DEF Range
<1>8. ASSUME NEW c \in Range(kept) PROVE c \in heap /\ Pos(kept, c) = Place(c)
  <2>1. Len(kept) <= Len(chain) /\ \A i \in 1..Len(kept) : chain[i] = kept[i]
    BY <1>1, <1>2, <1>4
  <2>2. c \in Range(chain) /\ Pos(chain, c) = Pos(kept, c)
    BY <1>1, <1>4, <1>5, <2>1, PosPrefix
  <2> QED
    BY <1>1, <2>2, Places
<1> QED
  BY <1>3, <1>7, <1>8 DEF k

\* What unwind leaves in the arena: the blocks up to the target's top, with the
\* numbers they have, and the top with the target's.
LEMMA UnwindFacts ==
    ASSUME CarefulInv, NEW target \in Snapshot, NEW kept, Range(kept) \subseteq heap,
           target.top \in Range(kept), block' = Restored(target, kept)
    PROVE  /\ \A c \in Range(kept) : c # target.top => block'[c] = block[c]
           /\ block'[target.top] = [capacity |-> target.capacity, allocated |-> target.allocated,
                                    region |-> block[target.top].region]
<1> DEFINE fields == [capacity : Word, allocated : Word, region : Word]
           numbers == [capacity |-> target.capacity, allocated |-> target.allocated,
                       region |-> block[target.top].region]
<1>1. heap \subseteq BlockId /\ block \in [BlockId -> fields]
  BY DEF CarefulInv, IInv, TypeOK
<1>2. \A c \in Range(kept) : Freed(heap \ Range(kept))[c] = block[c]
  BY <1>1 DEF Freed
<1>3. block' = [Freed(heap \ Range(kept)) EXCEPT ![target.top] = numbers]
  BY <1>2 DEF Restored
<1>4. DOMAIN Freed(heap \ Range(kept)) = BlockId
  BY DEF Freed
<1> HIDE DEF numbers
<1> QED
  BY <1>1, <1>2, <1>3, <1>4 DEF numbers

\* unwind gives back what was allocated since the last snapshot and nothing
\* else.
LEMMA UnwindSound ==
    ASSUME CarefulInv, IInv', CarefulUnwind
    PROVE  CarefulInv'
<1>1. ASSUME NEW code, Abort(code) PROVE CarefulInv'
  BY <1>1, QuietSound DEF Abort, stackState
<1>2. CASE /\ ~TargetDangles
           /\ LET target == Last(snapshots)
                  kept == ChainUpTo(target.top)
              IN  /\ chain' = kept
                  /\ heap' = Range(kept)
                  /\ block' = Restored(target, kept)
           /\ snapshots' = Front(snapshots)
           /\ live' = {r \in live : r.depth < Len(snapshots)}
           /\ UNCHANGED arena
  <2> DEFINE n == Len(snapshots)
             target == snapshots[n]
             kept == ChainUpTo(target.top)
  <2>1. Open /\ arena.allocator_type = "STACK" /\ snapshots # <<>>
    BY DEF CarefulUnwind, UnwindError, RecordError
  <2>2. snapshots \in Seq(Snapshot)
    BY DEF CarefulInv, IInv, TypeOK
  <2>3. /\ n \in Nat \ {0} /\ DOMAIN snapshots = 1..n /\ n \in 1..n
        /\ target = Last(snapshots) /\ target \in Snapshot
    <3>1. n \in Nat \ {0} /\ DOMAIN snapshots = 1..n
      BY <2>1, <2>2
    <3> QED
      BY <2>2, <3>1, ElementOfSeq DEF Last
  <2>4. /\ chain' = kept /\ heap' = Range(kept) /\ block' = Restored(target, kept)
        /\ live' = {r \in live : r.depth < n} /\ arena' = arena
    BY <1>2, <2>3
  <2>5. /\ Len(snapshots') = n - 1 /\ DOMAIN snapshots' = 1..(n - 1)
        /\ \A i \in 1..(n - 1) : snapshots'[i] = snapshots[i]
    <3>1. \A i \in 1..(n - 1) : snapshots[i] \in Snapshot
      BY <2>2, <2>3, ElementOfSeq
    <3> QED
      BY <1>2, <2>3, <3>1, SubSeqProperties DEF Front
  <2> HIDE DEF n
  <2>6. /\ target.top \in heap /\ target.allocated \in Nat
        /\ target.capacity = block[target.top].capacity
        /\ target.allocated <= block[target.top].allocated
    BY <2>3, SnapshotFacts
  <2> HIDE DEF target
  <2>7. /\ \A c \in heap : Place(c) <= Place(target.top) => c \in Range(kept)
        /\ \A c \in Range(kept) : c \in heap /\ Pos(kept, c) = Place(c)
    BY <2>1, <2>6, KeptBlocks DEF CarefulInv
  <2>8. \A c \in heap : Place(c) \in Nat
    BY <2>1, Places DEF CarefulInv
  <2>9. \A c \in Range(kept) : Place(c)' = Place(c)
    BY <2>4, <2>7 DEF Place, Pos
  <2> HIDE DEF kept
  <2>10. target.top \in Range(kept) /\ Range(kept) \subseteq heap
    BY <2>6, <2>7, <2>8
  <2>11. /\ \A c \in Range(kept) : c # target.top => block'[c] = block[c]
         /\ block'[target.top] = [capacity |-> target.capacity, allocated |-> target.allocated,
                                  region |-> block[target.top].region]
    BY <2>3, <2>4, <2>10, UnwindFacts
  <2>12. ASSUME NEW c \in heap, NEW m \in Nat, Below(c, m, target.top, target.allocated)
         PROVE  c \in Range(kept) /\ (c = target.top => m <= target.allocated)
    BY <2>6, <2>7, <2>8, <2>12 DEF Below
  <2>13. ASSUME NEW c \in Range(kept), NEW m, NEW d \in Range(kept), NEW k
         PROVE  Below(c, m, d, k)' <=> Below(c, m, d, k)
    BY <2>9 DEF Below
  <2>14. BlocksSound'
    <3>1. /\ block[target.top].allocated <= block[target.top].capacity
          /\ block[target.top].capacity <= MmapLimit
                => block[target.top].capacity = block[target.top].region
          /\ block[target.top].allocated \in Nat /\ block[target.top].capacity \in Nat
      BY <2>6, BlockFacts
    <3>2. target.allocated <= block[target.top].capacity
      BY <2>6, <3>1
    <3>3. /\ block'[target.top].allocated <= block'[target.top].capacity
          /\ block'[target.top].capacity <= MmapLimit
                => block'[target.top].capacity = block'[target.top].region
      BY <2>6, <2>11, <3>1, <3>2
    <3> QED
      BY <2>4, <2>10, <2>11, <3>3 DEF CarefulInv, BlocksSound
  <2>15. ASSUME NEW r \in live, r.depth < n
         PROVE  r.block \in Range(kept) /\ r.lo + r.size <= block'[r.block].allocated
    <3>1. /\ r.block \in heap /\ r.lo + r.size \in Nat
          /\ r.lo + r.size <= block[r.block].allocated
      BY LiveFacts
    <3>2. Below(r.block, r.lo + r.size, target.top, target.allocated)
      BY <2>3, <2>15 DEF CarefulInv, MarksSeparateScopes, target
    <3>3. r.block \in Range(kept) /\ (r.block = target.top => r.lo + r.size <= target.allocated)
      BY <3>1, <3>2, <2>12
    <3> QED
      BY <2>11, <3>1, <3>3
  <2>16. LiveSound'
    <3>1. ASSUME NEW r \in live, r.depth < n PROVE r.depth <= n - 1
      BY <2>3, <3>1, LiveFacts
    <3> QED
      BY <2>4, <2>5, <2>15, <3>1, LiveFacts DEF LiveSound
  <2>17. LiveDisjoint' /\ LiveAligned'
    BY <2>4 DEF CarefulInv, LiveDisjoint, LiveAligned
  <2>18. ASSUME NEW i \in 1..(n - 1)
         PROVE  /\ i \in DOMAIN snapshots /\ snapshots[i].top \in Range(kept)
                /\ snapshots[i].top = target.top => snapshots[i].allocated <= target.allocated
    <3>1. i \in DOMAIN snapshots /\ i < n
      BY <2>3
    <3>2. Below(snapshots[i].top, snapshots[i].allocated, target.top, target.allocated)
      BY <2>3, <3>1 DEF CarefulInv, SnapshotsNested, target
    <3>3. snapshots[i].top \in heap /\ snapshots[i].allocated \in Nat
      BY <3>1, SnapshotFacts
    <3> QED
      BY <3>1, <3>2, <3>3, <2>12
  <2>19. SnapshotsSound'
    <3>1. ASSUME NEW i \in 1..(n - 1)
          PROVE  /\ snapshots[i].capacity = block'[snapshots[i].top].capacity
                 /\ snapshots[i].allocated <= block'[snapshots[i].top].allocated
      <4>1. /\ snapshots[i].capacity = block[snapshots[i].top].capacity
            /\ snapshots[i].allocated <= block[snapshots[i].top].allocated
        BY <2>18, SnapshotFacts
      <4> QED
        BY <2>6, <2>11, <2>18, <4>1
    <3> QED
      BY <2>4, <2>5, <2>18, <3>1 DEF SnapshotsSound
  <2>20. SnapshotsNested'
    <3>1. ASSUME NEW i \in 1..(n - 1), NEW j \in 1..(n - 1), i < j
          PROVE  Below(snapshots[i].top, snapshots[i].allocated,
                       snapshots[j].top, snapshots[j].allocated)'
      <4>1. Below(snapshots[i].top, snapshots[i].allocated,
                  snapshots[j].top, snapshots[j].allocated)
        BY <2>18, <3>1 DEF CarefulInv, SnapshotsNested
      <4>2. snapshots'[i] = snapshots[i] /\ snapshots'[j] = snapshots[j]
        BY <2>5
      <4> QED
        BY <2>13, <2>18, <4>1, <4>2
    <3> QED
      BY <2>5, <3>1 DEF SnapshotsNested, Below
  <2>21. MarksSeparateScopes'
    <3>1. ASSUME NEW i \in 1..(n - 1), NEW r \in live'
          PROVE  IF r.depth < i
                 THEN Below(r.block, r.lo + r.size, snapshots[i].top, snapshots[i].allocated)'
                 ELSE Below(snapshots[i].top, snapshots[i].allocated, r.block, r.lo)'
      <4>1. r \in live /\ r.block \in Range(kept)
        BY <2>4, <2>15
      <4>2. IF r.depth < i
            THEN Below(r.block, r.lo + r.size, snapshots[i].top, snapshots[i].allocated)
            ELSE Below(snapshots[i].top, snapshots[i].allocated, r.block, r.lo)
        BY <2>18, <4>1 DEF CarefulInv, MarksSeparateScopes
      <4>3. snapshots'[i] = snapshots[i]
        BY <2>5
      <4> QED
        BY <2>13, <2>18, <4>1, <4>2, <4>3
    <3> QED
      BY <2>5, <3>1 DEF MarksSeparateScopes, Below
  <2>22. ArenaSound'
    BY <2>1, <2>4 DEF CarefulInv, ArenaSound, Open
  <2> QED
    BY <2>14, <2>16, <2>17, <2>19, <2>20, <2>21, <2>22 DEF CarefulInv
<1> QED
  BY <1>1, <1>2 DEF CarefulUnwind, StackUnwind, Unwind

-------------------------------------------------------------------------------
(* The invariant.                                                            *)

\* The careful client's steps are steps of the arena.
LEMMA CarefulStepIsStep == [CarefulNext]_vars => [Next]_vars
BY DEF CarefulNext, Next, CarefulCreate, CarefulReset, CarefulRecord, CarefulUnwind,
       CarefulRequest

\* What an allocation, a move and a copy leave alone or abort with keeps the
\* invariant.
LEMMA AllocAbortSound ==
    ASSUME CarefulInv, IInv', NEW size, AllocAborts(size) \/ UNCHANGED vars
    PROVE  CarefulInv'
BY QuietSound DEF AllocAborts, Abort, stackState, vars

\* Every operation in the careful client's hands keeps the invariant.
LEMMA CarefulNextInv ==
    ASSUME CarefulInv, [CarefulNext]_vars
    PROVE  CarefulInv'
<1>1. IInv'
  BY CarefulStepIsStep, NextInv DEF CarefulInv
<1>2. Requests \subseteq Word
  BY InputAssumption
<1>3. ASSUME NEW size \in Requests, CarefulRequest(size), AllocGranted(size)
      PROVE  CarefulInv'
  BY <1>1, <1>2, <1>3, GrantedSound DEF CarefulRequest
<1>4. CASE \E type \in Types, a \in Alignments, size \in InitialSizes : CarefulCreate(type, a, size)
  BY <1>1, <1>4, CreateSound
<1>5. CASE Open /\ Destroy
  BY <1>1, <1>5, DestroySound
<1>6. CASE CarefulReset
  BY <1>1, <1>6, ResetSound
<1>7. CASE \E size \in Requests : CarefulRequest(size) /\ Alloc(size)
  <2>1. PICK size \in Requests : CarefulRequest(size) /\ Alloc(size)
    BY <1>7
  <2> QED
    BY <1>1, <1>3, <2>1, AllocAbortSound DEF Alloc
<1>8. CASE CarefulRecord
  BY <1>1, <1>8, RecordSound
<1>9. CASE CarefulUnwind
  BY <1>1, <1>9, UnwindSound
<1>10. CASE \E b \in Buffers, size \in Requests :
                CarefulRequest(size) /\ (Move(b, size) \/ Copy(b, size))
  <2>1. PICK b \in Buffers, size \in Requests :
                CarefulRequest(size) /\ (Move(b, size) \/ Copy(b, size))
    BY <1>10
  <2>2. CASE CopyIn(b, size)
    BY <1>3, <2>1, <2>2 DEF CopyIn
  <2>3. CASE CopyAborts(b, size)
    <3>1. CASE Abort(SourceError(b, size))
      BY <1>1, <3>1, QuietSound DEF Abort, stackState
    <3> QED
      BY <1>1, <2>3, <3>1, AllocAbortSound DEF CopyAborts
  <2>4. CASE CopyRefused(b, size)
    BY <1>1, <2>4, AllocAbortSound DEF CopyRefused
  <2> QED
    BY <2>1, <2>2, <2>3, <2>4 DEF Move, Copy
<1>11. CASE \E b \in Buffers : Acquire(b)
  BY <1>1, <1>11, QuietSound DEF Acquire, stackState
<1>12. CASE UNCHANGED vars
  BY <1>1, <1>12, QuietSound DEF vars, stackState
<1> QED
  BY <1>4, <1>5, <1>6, <1>7, <1>8, <1>9, <1>10, <1>11, <1>12 DEF CarefulNext

\* No arena, no allocation, no snapshot.
LEMMA CarefulInitInv == Init => CarefulInv
<1> SUFFICES ASSUME Init PROVE CarefulInv
  OBVIOUS
<1>1. IInv /\ heap = {} /\ live = {} /\ snapshots = <<>> /\ ~Open
  BY InitInv DEF Init, Open
<1> QED
  BY <1>1 DEF CarefulInv, BlocksSound, LiveSound, LiveDisjoint, LiveAligned, SnapshotsSound,
              SnapshotsNested, MarksSeparateScopes, ArenaSound

-------------------------------------------------------------------------------
(* The theorems.                                                             *)

\* The inductive invariant holds in every state the careful client reaches.
THEOREM CarefulInvariance == CarefulSpec => []CarefulInv
BY CarefulInitInv, CarefulNextInv, PTL DEF CarefulSpec

\* No two allocations the client holds share a byte.
THEOREM AllocationsDisjoint == CarefulSpec => []LiveDisjoint
BY CarefulInvariance, PTL DEF CarefulInv

\* Every allocation the client holds is aligned.
THEOREM AllocationsAligned == CarefulSpec => []LiveAligned
BY CarefulInvariance, PTL DEF CarefulInv

\* Every mark has the allocations made before it below and the others above.
THEOREM SnapshotsSeparate == CarefulSpec => []MarksSeparateScopes
BY CarefulInvariance, PTL DEF CarefulInv

-------------------------------------------------------------------------------
(* The blocks of a chain: each has exactly twice the capacity of the one      *)
(* before, because no capacity the kernel maps can wrap when it is doubled.    *)

\* Every capacity was mapped, so it is at most the largest mapping, and along
\* the chain capacities double.
DoublingInv ==
    /\ \A b \in heap : block[b].capacity <= MmapLimit
    /\ CapacitiesDouble

\* The alignment of an open arena, and the capacity of the block it grows from.
LEMMA OpenCapacities ==
    ASSUME CarefulInv, DoublingInv, Open
    PROVE  /\ arena.alignment \in 1..AlignLimit
           /\ Last(chain) \in heap
           /\ block[Last(chain)].capacity \in Word /\ block[Last(chain)].capacity \in Nat
           /\ block[Last(chain)].capacity <= MmapLimit
<1>1. /\ arena \in [allocator_type : Strategies, pool_size : Word,
                    alignment : {a \in 1..AlignLimit : IsPowerOfTwo(a)}]
      /\ Last(chain) \in heap
  BY OpenFacts DEF CarefulInv
<1> QED
  BY <1>1, BlockFacts DEF DoublingInv

\* As far as the growth loop gets, the capacities are unwrapped doublings.
LEMMA GrowthDoubles ==
    ASSUME CarefulInv, DoublingInv, Open, NEW k \in Nat, NEW n, GrowthStopsAt(k, n)
    PROVE  /\ GrownCapacity(0) = block[Last(chain)].capacity
           /\ \A j \in 1..k : /\ GrownCapacity(j) = 2 * GrownCapacity(j - 1)
                              /\ GrownCapacity(j) <= MmapLimit
<1> DEFINE c == block[Last(chain)].capacity
           S == {j \in Nat : j <= k => GrownCapacity(j) \in Nat /\ GrownCapacity(j) <= MmapLimit}
<1>1. c \in Word /\ c \in Nat /\ c <= MmapLimit /\ arena.alignment \in 1..AlignLimit
  BY OpenCapacities
<1>2. \A j \in Nat : GrownCapacity(j) = Doublings(c)[j]
  BY DEF GrownCapacity
<1> HIDE DEF c
<1>3. GrownCapacity(0) = c /\ \A j \in Nat : GrownCapacity(j + 1) = DoubleW(GrownCapacity(j))
  BY <1>1, <1>2, DoublingsStep
<1>4. ASSUME NEW j \in Nat, j + 1 <= k, GrownCapacity(j) \in Nat, GrownCapacity(j) <= MmapLimit
      PROVE  /\ GrownCapacity(j + 1) = 2 * GrownCapacity(j)
             /\ GrownCapacity(j + 1) \in Nat /\ GrownCapacity(j + 1) <= MmapLimit
  <2>1. j + 1 \in 1..k
    BY <1>4
  <2>2. Mappable(GrownCapacity(j + 1), arena.alignment)
    BY <2>1 DEF GrowthStopsAt
  <2>3. Mappable(DoubleW(GrownCapacity(j)), arena.alignment)
    BY <1>3, <2>2
  <2>4. /\ DoubleW(GrownCapacity(j)) = 2 * GrownCapacity(j)
        /\ DoubleW(GrownCapacity(j)) <= MmapLimit
    BY <1>1, <1>4, <2>3, DoubledMapped
  <2>5. 2 * GrownCapacity(j) \in Nat
    BY <1>4
  <2>6. GrownCapacity(j + 1) = DoubleW(GrownCapacity(j))
    BY <1>3
  <2> QED
    BY <2>4, <2>5, <2>6
<1>5. 0 \in S
  BY <1>1, <1>3
<1>6. ASSUME NEW j \in Nat, j \in S PROVE j + 1 \in S
  <2>1. SUFFICES ASSUME j + 1 <= k
                 PROVE  GrownCapacity(j + 1) \in Nat /\ GrownCapacity(j + 1) <= MmapLimit
    OBVIOUS
  <2>2. j <= k
    BY <2>1
  <2> QED
    BY <1>4, <1>6, <2>1, <2>2
<1> HIDE DEF S
<1>7. \A j \in Nat : j \in S
  BY <1>5, <1>6, SetInduction
<1>8. ASSUME NEW j \in 1..k
      PROVE  GrownCapacity(j) = 2 * GrownCapacity(j - 1) /\ GrownCapacity(j) <= MmapLimit
  <2>1. j - 1 \in Nat /\ j - 1 <= k /\ (j - 1) + 1 = j /\ j <= k
    OBVIOUS
  <2>2. GrownCapacity(j - 1) \in Nat /\ GrownCapacity(j - 1) <= MmapLimit
    BY <1>7, <2>1 DEF S
  <2>3. (j - 1) + 1 <= k
    BY <2>1
  <2>4. /\ GrownCapacity((j - 1) + 1) = 2 * GrownCapacity(j - 1)
        /\ GrownCapacity((j - 1) + 1) <= MmapLimit
    BY <1>4, <2>1, <2>2, <2>3
  <2> QED
    BY <2>1, <2>4
<1> QED
  BY <1>3, <1>8 DEF c

-------------------------------------------------------------------------------
(* Steps.                                                                    *)

\* A step that leaves some first part of the chain, its capacities unchanged.
LEMMA ShortenedDoubles ==
    ASSUME CarefulInv, CarefulInv', DoublingInv, Len(chain') <= Len(chain),
           \A i \in 1..Len(chain') : chain'[i] = chain[i],
           \A c \in heap' : c \in heap /\ block'[c].capacity = block[c].capacity
    PROVE  DoublingInv'
<1>1. /\ chain \in Seq(BlockId) /\ chain' \in Seq(BlockId)
      /\ heap' = Range(chain')
  BY DEF CarefulInv, IInv, TypeOK, HeapIsChain
<1>2. Len(chain) \in Nat /\ Len(chain') \in Nat /\ \A i \in 1..Len(chain') : chain'[i] \in heap'
  BY <1>1 DEF Range
<1>3. \A b \in heap' : block'[b].capacity <= MmapLimit
  BY DEF DoublingInv
<1>4. ASSUME NEW i \in 1..(Len(chain') - 1)
      PROVE  block'[chain'[i + 1]].capacity = 2 * block'[chain'[i]].capacity
  <2>1. i \in 1..Len(chain') /\ i + 1 \in 1..Len(chain') /\ i \in 1..(Len(chain) - 1)
    BY <1>2
  <2>2. /\ chain'[i] = chain[i] /\ chain'[i + 1] = chain[i + 1]
        /\ chain'[i] \in heap' /\ chain'[i + 1] \in heap'
    BY <1>2, <2>1
  <2>3. block[chain[i + 1]].capacity = 2 * block[chain[i]].capacity
    BY <2>1 DEF DoublingInv, CapacitiesDouble
  <2> QED
    BY <2>2, <2>3
<1> QED
  BY <1>3, <1>4 DEF DoublingInv, CapacitiesDouble

\* A step that changes no block's capacity.
LEMMA SameDoubles ==
    ASSUME CarefulInv, CarefulInv', DoublingInv, UNCHANGED <<chain, heap>>,
           \A c \in heap : block'[c].capacity = block[c].capacity
    PROVE  DoublingInv'
<1>1. Len(chain) \in Nat
  BY DEF CarefulInv, IInv, TypeOK
<1> QED
  BY <1>1, ShortenedDoubles

\* A step that appends blocks, each of twice the capacity of the one before.
LEMMA AppendedDoubles ==
    ASSUME CarefulInv, CarefulInv', DoublingInv, Open, Len(chain) <= Len(chain'),
           \A i \in 1..Len(chain) : chain'[i] = chain[i],
           \A c \in heap : block'[c] = block[c],
           \A i \in (Len(chain) + 1)..Len(chain') :
              /\ block'[chain'[i]].capacity = 2 * block'[chain'[i - 1]].capacity
              /\ block'[chain'[i]].capacity <= MmapLimit
    PROVE  DoublingInv'
<1>1. /\ Len(chain) \in Nat \ {0} /\ \A i \in 1..Len(chain) : chain[i] \in heap
  BY OpenFacts DEF CarefulInv
<1>2. Len(chain') \in Nat /\ heap' = {chain'[i] : i \in 1..Len(chain')}
  <2>1. chain' \in Seq(BlockId) /\ heap' = Range(chain')
    BY DEF CarefulInv, IInv, TypeOK, HeapIsChain
  <2> QED
    BY <2>1 DEF Range
<1>3. ASSUME NEW i \in 1..Len(chain') PROVE block'[chain'[i]].capacity <= MmapLimit
  <2>1. CASE i \in 1..Len(chain)
    BY <1>1, <2>1 DEF DoublingInv
  <2>2. CASE i \notin 1..Len(chain)
    <3>1. i \in (Len(chain) + 1)..Len(chain')
      BY <1>1, <1>2, <2>2
    <3> QED
      BY <3>1
  <2> QED
    BY <2>1, <2>2
<1>4. ASSUME NEW i \in 1..(Len(chain') - 1)
      PROVE  block'[chain'[i + 1]].capacity = 2 * block'[chain'[i]].capacity
  <2>1. CASE i < Len(chain)
    <3>1. i \in 1..(Len(chain) - 1) /\ i \in 1..Len(chain) /\ i + 1 \in 1..Len(chain)
      BY <1>1, <2>1
    <3>2. /\ chain'[i] = chain[i] /\ chain'[i + 1] = chain[i + 1]
          /\ chain[i] \in heap /\ chain[i + 1] \in heap
      BY <1>1, <3>1
    <3>3. block[chain[i + 1]].capacity = 2 * block[chain[i]].capacity
      BY <3>1 DEF DoublingInv, CapacitiesDouble
    <3> QED
      BY <3>2, <3>3
  <2>2. CASE ~(i < Len(chain))
    <3>1. i + 1 \in (Len(chain) + 1)..Len(chain') /\ (i + 1) - 1 = i
      BY <1>1, <1>2, <2>2
    <3>2. block'[chain'[i + 1]].capacity = 2 * block'[chain'[(i + 1) - 1]].capacity
      BY <3>1
    <3> QED
      BY <3>1, <3>2
  <2> QED
    BY <2>1, <2>2
<1>5. \A b \in heap' : block'[b].capacity <= MmapLimit
  BY <1>2, <1>3
<1> QED
  BY <1>4, <1>5 DEF DoublingInv, CapacitiesDouble

\* linear_alloc and pool_alloc when they append blocks.
LEMMA GrowDoubles ==
    ASSUME CarefulInv, CarefulInv', DoublingInv, Open, NEW n, NEW size, Grow(n, size)
    PROVE  DoublingInv'
<1>1. PICK k \in Growths : GrowthStopsAt(k, n) /\
        \E fresh \in Injection(1..k, BlockId \ heap) :
            /\ chain' = chain \o fresh
            /\ block' = [b \in BlockId |->
                  IF b \in Range(fresh)
                  THEN LET j == CHOOSE i \in 1..k : fresh[i] = b
                       IN  NewBlock(GrownCapacity(j), arena.alignment, IF j = k THEN n ELSE 0)
                  ELSE block[b]]
  BY DEF Grow
<1>2. PICK fresh \in Injection(1..k, BlockId \ heap) :
            /\ chain' = chain \o fresh
            /\ block' = [b \in BlockId |->
                  IF b \in Range(fresh)
                  THEN LET j == CHOOSE i \in 1..k : fresh[i] = b
                       IN  NewBlock(GrownCapacity(j), arena.alignment, IF j = k THEN n ELSE 0)
                  ELSE block[b]]
  BY <1>1
<1>3. k \in Nat \ {0}
  BY DEF Growths
<1>4. fresh \in [1..k -> BlockId \ heap] /\ IsInjective(fresh)
  BY DEF Injection
<1>5. /\ fresh \in Seq(BlockId) /\ Len(fresh) = k /\ Range(fresh) \subseteq BlockId \ heap
      /\ \A j \in 1..k : fresh[j] \in Range(fresh) /\ fresh[j] \in BlockId
  <2>1. fresh \in [1..k -> BlockId]
    BY <1>4
  <2> QED
    BY <2>1, <1>3, <1>4, SeqDef, LenProperties DEF Range
<1>6. chain \in Seq(BlockId) /\ heap \subseteq BlockId /\ Len(chain) \in Nat \ {0}
  BY OpenFacts DEF CarefulInv, IInv, TypeOK
<1>7. /\ Len(chain') = Len(chain) + k
      /\ \A i \in 1..(Len(chain) + k) :
            chain'[i] = IF i <= Len(chain) THEN chain[i] ELSE fresh[i - Len(chain)]
  <2>1. /\ Len(chain \o fresh) = Len(chain) + Len(fresh)
        /\ \A i \in 1..(Len(chain) + Len(fresh)) :
              (chain \o fresh)[i] = IF i <= Len(chain) THEN chain[i] ELSE fresh[i - Len(chain)]
    BY <1>5, <1>6, ConcatProperties
  <2> QED
    BY <1>2, <1>5, <2>1
<1>8. \A c \in heap : block'[c] = block[c]
  BY <1>2, <1>5, <1>6
<1>9. ASSUME NEW j \in 1..k PROVE block'[fresh[j]].capacity = GrownCapacity(j)
  <2>1. (CHOOSE i \in 1..k : fresh[i] = fresh[j]) = j
    BY <1>4 DEF IsInjective
  <2>2. block'[fresh[j]] = NewBlock(GrownCapacity(j), arena.alignment, IF j = k THEN n ELSE 0)
    BY <1>2, <1>5, <2>1
  <2> QED
    BY <2>2 DEF NewBlock
<1>10. /\ GrownCapacity(0) = block[Last(chain)].capacity
       /\ \A j \in 1..k : /\ GrownCapacity(j) = 2 * GrownCapacity(j - 1)
                          /\ GrownCapacity(j) <= MmapLimit
  BY <1>1, <1>3, GrowthDoubles
<1>11. Last(chain) = chain[Len(chain)] /\ Last(chain) \in heap
  BY OpenFacts DEF CarefulInv
<1>12. ASSUME NEW j \in 0..k
       PROVE  block'[chain'[Len(chain) + j]].capacity = GrownCapacity(j)
  <2>1. CASE j = 0
    <3>1. Len(chain) + j \in 1..(Len(chain) + k) /\ Len(chain) + j = Len(chain)
      BY <1>3, <1>6, <2>1
    <3>2. chain'[Len(chain) + j] = Last(chain)
      BY <1>6, <1>7, <1>11, <3>1
    <3> QED
      BY <1>8, <1>10, <1>11, <2>1, <3>2
  <2>2. CASE j # 0
    <3>1. /\ j \in 1..k /\ Len(chain) + j \in 1..(Len(chain) + k)
          /\ ~(Len(chain) + j <= Len(chain)) /\ (Len(chain) + j) - Len(chain) = j
      BY <1>3, <1>6, <2>2
    <3>2. chain'[Len(chain) + j] = fresh[j]
      BY <1>7, <3>1
    <3> QED
      BY <1>9, <3>1, <3>2
  <2> QED
    BY <2>1, <2>2
<1>13. ASSUME NEW i \in (Len(chain) + 1)..Len(chain')
       PROVE  /\ block'[chain'[i]].capacity = 2 * block'[chain'[i - 1]].capacity
              /\ block'[chain'[i]].capacity <= MmapLimit
  <2> DEFINE j == i - Len(chain)
  <2>1. /\ j \in 1..k /\ j \in 0..k /\ j - 1 \in 0..k
        /\ Len(chain) + j = i /\ Len(chain) + (j - 1) = i - 1
    BY <1>3, <1>6, <1>7
  <2> HIDE DEF j
  <2>2. /\ block'[chain'[Len(chain) + j]].capacity = GrownCapacity(j)
        /\ block'[chain'[Len(chain) + (j - 1)]].capacity = GrownCapacity(j - 1)
    BY <1>12, <2>1
  <2>3. /\ block'[chain'[i]].capacity = GrownCapacity(j)
        /\ block'[chain'[i - 1]].capacity = GrownCapacity(j - 1)
    BY <2>1, <2>2
  <2> QED
    BY <1>10, <2>1, <2>3
<1>14. Len(chain) <= Len(chain') /\ \A i \in 1..Len(chain) : chain'[i] = chain[i]
  <2>1. Len(chain) <= Len(chain')
    BY <1>3, <1>6, <1>7
  <2>2. \A i \in 1..Len(chain) : i \in 1..(Len(chain) + k) /\ i <= Len(chain)
    BY <1>3, <1>6
  <2> QED
    BY <1>7, <2>1, <2>2
<1> QED
  BY <1>8, <1>13, <1>14, AppendedDoubles

\* stack_alloc when it pushes a block.
LEMMA PushDoubles ==
    ASSUME CarefulInv, CarefulInv', DoublingInv, Open, arena.allocator_type = "STACK",
           NEW size, PushBlock(size)
    PROVE  DoublingInv'
<1>1. PICK fresh \in BlockId \ heap :
        /\ Mappable(PushedCapacity, arena.alignment)
        /\ block' = [block EXCEPT ![fresh] = NewBlock(PushedCapacity, arena.alignment, size)]
        /\ chain' = Append(chain, fresh)
  BY DEF PushBlock
<1>2. /\ chain \in Seq(BlockId) /\ heap \subseteq BlockId /\ Len(chain) \in Nat \ {0}
      /\ block \in [BlockId -> [capacity : Word, allocated : Word, region : Word]]
  BY OpenFacts DEF CarefulInv, IInv, TypeOK
<1>3. /\ Len(chain') = Len(chain) + 1
      /\ \A i \in 1..Len(chain) : chain'[i] = chain[i]
      /\ chain'[Len(chain) + 1] = fresh
  BY <1>1, <1>2, AppendProperties
<1>4. (\A c \in heap : block'[c] = block[c]) /\ block'[fresh] = NewBlock(PushedCapacity, arena.alignment, size)
  BY <1>1, <1>2
<1>5. /\ top = chain[Len(chain)] /\ top \in heap
      /\ block[top].capacity \in Nat /\ block[top].capacity <= MmapLimit
      /\ arena.alignment \in 1..AlignLimit
  <2>1. top = Last(chain)
    BY DEF CarefulInv, IInv, TopIsLast
  <2> QED
    BY <2>1, OpenCapacities, OpenFacts DEF CarefulInv
<1>6. PushedCapacity = 2 * block[top].capacity /\ PushedCapacity <= MmapLimit
  BY <1>1, <1>5, DoubledMapped DEF PushedCapacity
<1>7. /\ block'[chain'[Len(chain) + 1]].capacity = 2 * block'[chain'[Len(chain)]].capacity
      /\ block'[chain'[Len(chain) + 1]].capacity <= MmapLimit
  <2>1. chain'[Len(chain)] = top
    BY <1>2, <1>3, <1>5
  <2> QED
    BY <1>3, <1>4, <1>5, <1>6, <2>1 DEF NewBlock
<1>8. ASSUME NEW i \in (Len(chain) + 1)..Len(chain')
      PROVE  /\ block'[chain'[i]].capacity = 2 * block'[chain'[i - 1]].capacity
             /\ block'[chain'[i]].capacity <= MmapLimit
  <2>1. i = Len(chain) + 1 /\ i - 1 = Len(chain)
    BY <1>2, <1>3
  <2> QED
    BY <1>7, <2>1
<1>9. Len(chain) <= Len(chain')
  BY <1>2, <1>3
<1> QED
  BY <1>3, <1>4, <1>8, <1>9, AppendedDoubles

\* A granted request.
LEMMA GrantedDoubles ==
    ASSUME CarefulInv, CarefulInv', DoublingInv, Open, NEW size, AllocGranted(size)
    PROVE  DoublingInv'
<1>1. ASSUME NEW b, NEW n, TakeFrom(b, n, size) PROVE DoublingInv'
  <2>1. /\ UNCHANGED <<chain, heap>> /\ heap \subseteq BlockId
        /\ block' = [block EXCEPT ![b].allocated = AddW(@, TakenBytes(b, n))]
        /\ block \in [BlockId -> [capacity : Word, allocated : Word, region : Word]]
    BY <1>1 DEF TakeFrom, CarefulInv, IInv, TypeOK
  <2>2. \A c \in heap : block'[c].capacity = block[c].capacity
    BY <2>1
  <2> QED
    BY <2>1, <2>2, SameDoubles
<1>2. CASE arena.allocator_type = "SCRATCH"
  BY <1>1, <1>2 DEF AllocGranted, ScratchGrants
<1>3. CASE arena.allocator_type = "STACK"
  BY <1>1, <1>3, PushDoubles DEF AllocGranted, StackGrants
<1>4. CASE arena.allocator_type \notin {"SCRATCH", "STACK"}
  BY <1>1, <1>4, GrowDoubles DEF AllocGranted, ChainGrants, FirstFit
<1> QED
  BY <1>2, <1>3, <1>4

\* A careful create maps its first block in full, header included.
LEMMA CreateFits ==
    ASSUME NEW type, NEW a \in Alignments, NEW size \in InitialSizes,
           CarefulCreate(type, a, size), CreateError(type, a, size) = "none"
    PROVE  AlignUp(size, a) <= MmapLimit /\ RoomBehind(AlignUp(size, a), a) \in Nat
<1>1. /\ IsPowerOfTwo(a) /\ AlignUp(size, a) # 0 /\ Mappable(AlignUp(size, a), a)
  BY DEF CreateError
<1>2. /\ a \in Word \ {0} /\ size \in Word
      /\ size + 2 * a + MetaSize + PageSize < WordMod
  BY <1>1, InputAssumption DEF IsPowerOfTwo, CarefulCreate
<1>3. /\ a \in Nat \ {0} /\ size \in Nat /\ WordMod \in Nat /\ MetaSize \in Nat
      /\ PageSize \in Nat
  BY <1>2, WordModAssumption, PagesAssumption DEF Word
<1>4. size + a < WordMod
  BY <1>2, <1>3
<1>5. AlignUp(size, a) \in size..(size + a - 1)
  BY <1>2, <1>4, AlignUpNoWrap
<1>6. AlignUp(size, a) \in Word
  BY <1>2, AlignUpWord
<1>7. AlignUp(size, a) + a + MetaSize + PageSize < WordMod
  BY <1>2, <1>3, <1>5
<1>8. AlignUp(size, a) <= MmapLimit
  BY <1>1, <1>2, <1>6, <1>7, MappableBound
<1> QED
  BY <1>2, <1>6, <1>7, <1>8, UsableWhole

\* create makes a chain of one block the kernel mapped.
LEMMA CreateDoubles ==
    ASSUME CarefulInv, CarefulInv', DoublingInv, NEW type \in Types, NEW a \in Alignments,
           NEW size \in InitialSizes, CarefulCreate(type, a, size)
    PROVE  DoublingInv'
<1>1. CASE UNCHANGED structure
  BY <1>1, SameDoubles DEF structure
<1>2. CASE /\ CreateError(type, a, size) = "none"
           /\ \E head \in BlockId :
                /\ heap' = {head}
                /\ chain' = <<head>>
                /\ block' = [block EXCEPT ![head] = NewBlock(AlignUp(size, a), a, 0)]
  <2>1. PICK head \in BlockId :
                /\ heap' = {head}
                /\ chain' = <<head>>
                /\ block' = [block EXCEPT ![head] = NewBlock(AlignUp(size, a), a, 0)]
    BY <1>2
  <2>2. AlignUp(size, a) <= MmapLimit
    BY <1>2, CreateFits
  <2>3. block'[head].capacity = AlignUp(size, a)
    BY <2>1 DEF NewBlock, CarefulInv, IInv, TypeOK
  <2>4. Len(chain') = 1
    BY <2>1
  <2> QED
    BY <2>1, <2>2, <2>3, <2>4 DEF DoublingInv, CapacitiesDouble
<1> QED
  BY <1>1, <1>2 DEF CarefulCreate, Create, Abort

\* reset keeps the head and its capacity.
LEMMA ResetDoubles ==
    ASSUME CarefulInv, CarefulInv', DoublingInv, CarefulReset
    PROVE  DoublingInv'
<1>1. /\ Open /\ chain' = <<Head(chain)>> /\ heap' = {Head(chain)}
      /\ block' = [Freed(heap \ {Head(chain)}) EXCEPT ![Head(chain)].allocated = 0]
  BY DEF CarefulReset, Reset, ResetToHead
<1>2. /\ Len(chain) \in Nat \ {0} /\ Head(chain) = chain[1] /\ Head(chain) \in heap
      /\ heap \subseteq BlockId
      /\ block \in [BlockId -> [capacity : Word, allocated : Word, region : Word]]
  BY <1>1, OpenFacts DEF CarefulInv, IInv, TypeOK
<1>3. block'[Head(chain)].capacity = block[Head(chain)].capacity
  <2>1. Freed(heap \ {Head(chain)})[Head(chain)] = block[Head(chain)]
    BY <1>2 DEF Freed
  <2>2. Head(chain) \in DOMAIN Freed(heap \ {Head(chain)})
    BY <1>2 DEF Freed
  <2>3. block'[Head(chain)] = [Freed(heap \ {Head(chain)})[Head(chain)] EXCEPT !.allocated = 0]
    BY <1>1, <2>2
  <2>4. block[Head(chain)] \in [capacity : Word, allocated : Word, region : Word]
    BY <1>2
  <2> QED
    BY <2>1, <2>3, <2>4
<1>4. Len(chain') = 1 /\ chain'[1] = Head(chain)
  BY <1>1
<1> QED
  BY <1>1, <1>2, <1>3, <1>4, ShortenedDoubles

\* unwind keeps the blocks up to the target's top, and puts back a capacity that
\* never changed.
LEMMA UnwindDoubles ==
    ASSUME CarefulInv, CarefulInv', DoublingInv, CarefulUnwind
    PROVE  DoublingInv'
<1>1. CASE UNCHANGED structure
  BY <1>1, SameDoubles DEF structure
<1>2. CASE /\ chain' = ChainUpTo(Last(snapshots).top)
           /\ heap' = Range(ChainUpTo(Last(snapshots).top))
           /\ block' = Restored(Last(snapshots), ChainUpTo(Last(snapshots).top))
  <2> DEFINE target == Last(snapshots)
             kept == ChainUpTo(target.top)
  <2>1. Open /\ snapshots # <<>> /\ snapshots \in Seq(Snapshot)
    BY DEF CarefulUnwind, UnwindError, RecordError, CarefulInv, IInv, TypeOK
  <2>2. Len(snapshots) \in 1..Len(snapshots) /\ target = snapshots[Len(snapshots)]
    BY <2>1 DEF Last
  <2>3. target \in Snapshot /\ Len(snapshots) \in DOMAIN snapshots
    BY <2>1, <2>2, ElementOfSeq
  <2>4. target.top \in heap /\ target.capacity = block[target.top].capacity
    BY <2>2, <2>3, SnapshotFacts
  <2> HIDE DEF target
  <2>5. chain' = kept /\ heap' = Range(kept) /\ block' = Restored(target, kept)
    BY <1>2 DEF target
  <2>6. Range(kept) \subseteq heap /\ target.top \in Range(kept)
    BY <2>1, <2>4, ChainPrefix DEF CarefulInv
  <2> DEFINE k == CHOOSE i \in DOMAIN chain : chain[i] = target.top
  <2>7. Place(target.top) = k /\ kept = SubSeq(chain, 1, k)
    BY DEF Place, ChainUpTo
  <2>8. k \in 1..Len(chain) /\ chain \in Seq(BlockId)
    BY <2>1, <2>4, <2>7, Places DEF CarefulInv
  <2> HIDE DEF k
  <2>9. Len(kept) = k /\ \A i \in 1..k : kept[i] = chain[i]
    <3>1. \A i \in 1..k : chain[i] \in BlockId
      BY <2>8
    <3>2. k \in Nat
      BY <2>8
    <3> QED
      BY <2>7, <2>8, <3>1, <3>2, SubSeqProperties
  <2> HIDE DEF kept
  <2>10. /\ \A c \in Range(kept) : c # target.top => block'[c] = block[c]
         /\ block'[target.top] = [capacity |-> target.capacity, allocated |-> target.allocated,
                                  region |-> block[target.top].region]
    BY <2>3, <2>5, <2>6, UnwindFacts
  <2>11. \A c \in heap' : c \in heap /\ block'[c].capacity = block[c].capacity
    BY <2>4, <2>5, <2>6, <2>10
  <2>12. Len(chain') <= Len(chain) /\ \A i \in 1..Len(chain') : chain'[i] = chain[i]
    BY <2>5, <2>8, <2>9
  <2> QED
    BY <2>11, <2>12, ShortenedDoubles
<1> QED
  BY <1>1, <1>2 DEF CarefulUnwind, StackUnwind, Unwind, Abort

\* Every operation in the careful client's hands keeps capacities doubling.
LEMMA DoublingNext ==
    ASSUME CarefulInv, DoublingInv, [CarefulNext]_vars
    PROVE  DoublingInv'
<1>1. CarefulInv'
  BY CarefulNextInv
<1>2. CASE UNCHANGED structure
  BY <1>1, <1>2, SameDoubles DEF structure
<1>3. CASE \E type \in Types, a \in Alignments, size \in InitialSizes : CarefulCreate(type, a, size)
  BY <1>1, <1>3, CreateDoubles
<1>4. CASE Open /\ Destroy
  <2>1. chain' = <<>> /\ heap' = {}
    BY <1>4 DEF Destroy, CarefulInv, IInv, HeapIsChain
  <2> QED
    BY <2>1 DEF DoublingInv, CapacitiesDouble
<1>5. CASE CarefulReset
  BY <1>1, <1>5, ResetDoubles
<1>6. CASE \E size \in Requests : CarefulRequest(size) /\ Alloc(size)
  BY <1>1, <1>2, <1>6, GrantedDoubles DEF CarefulRequest, Alloc, AllocAborts, Abort, vars
<1>7. CASE CarefulRecord
  BY <1>2, <1>7 DEF CarefulRecord, StackRecord, Record, Abort
<1>8. CASE CarefulUnwind
  BY <1>1, <1>8, UnwindDoubles
<1>9. CASE \E b \in Buffers, size \in Requests :
                CarefulRequest(size) /\ (Move(b, size) \/ Copy(b, size))
  <2>1. PICK b \in Buffers, size \in Requests :
                CarefulRequest(size) /\ (Move(b, size) \/ Copy(b, size))
    BY <1>9
  <2>2. CASE CopyIn(b, size)
    BY <1>1, <2>1, <2>2, GrantedDoubles DEF CopyIn, CarefulRequest
  <2>3. CASE CopyAborts(b, size) \/ CopyRefused(b, size)
    BY <1>2, <2>3 DEF CopyAborts, CopyRefused, AllocAborts, Abort, vars
  <2> QED
    BY <2>1, <2>2, <2>3 DEF Move, Copy
<1>10. CASE \E b \in Buffers : Acquire(b)
  BY <1>2, <1>10 DEF Acquire
<1>11. CASE UNCHANGED vars
  BY <1>2, <1>11 DEF vars
<1> QED
  BY <1>3, <1>4, <1>5, <1>6, <1>7, <1>8, <1>9, <1>10, <1>11 DEF CarefulNext

-------------------------------------------------------------------------------
\* Every capacity the careful client reaches was mapped, and is the double of
\* the one before it.
LEMMA DoublingInvariance == CarefulSpec => []DoublingInv
<1>1. Init => DoublingInv
  BY DEF Init, DoublingInv, CapacitiesDouble
<1>2. CarefulInv /\ DoublingInv /\ [CarefulNext]_vars => DoublingInv'
  BY DoublingNext
<1> QED
  BY <1>1, <1>2, CarefulInvariance, PTL DEF CarefulSpec

\* Along every chain capacities double, exactly: the growth loop of linear_alloc
\* and pool_alloc gets a larger block each time round and never a wrapped one.
THEOREM CapacityDoubling == CarefulSpec => []CapacitiesDouble
<1>1. DoublingInv => CapacitiesDouble
  BY DEF DoublingInv
<1> QED
  BY <1>1, DoublingInvariance, PTL

-------------------------------------------------------------------------------
(* What the client holds is in the region.                                   *)

\* What a granted request hands out lies in the region, so the memcpy of move
\* and copy does too.
LEMMA GrantedFits ==
    ASSUME CarefulInv', DoublingInv', live' # live
    PROVE  CopyFits
<1> SUFFICES ASSUME NEW r \in live' PROVE r.lo + r.size <= block'[r.block].region
  BY DEF CopyFits
<1>1. /\ r.block \in heap' /\ r.lo \in Nat /\ r.size \in Nat
      /\ r.lo + r.size <= block'[r.block].allocated
  <2>1. r \in Allocations
    BY DEF CarefulInv, IInv, TypeOK
  <2> QED
    BY <2>1, WordModAssumption DEF Allocations, Word, CarefulInv, LiveSound
<1>2. /\ block'[r.block].allocated \in Nat /\ block'[r.block].capacity \in Nat
      /\ block'[r.block].allocated <= block'[r.block].capacity
      /\ block'[r.block].capacity = block'[r.block].region
  <2>1. r.block \in BlockId
    BY <1>1 DEF CarefulInv, IInv, TypeOK
  <2>2. block'[r.block] \in [capacity : Word, allocated : Word, region : Word]
    BY <2>1 DEF CarefulInv, IInv, TypeOK
  <2> QED
    BY <1>1, <2>2, WordModAssumption DEF Word, CarefulInv, BlocksSound, DoublingInv
<1> QED
  BY <1>1, <1>2

\* Whatever the sequence of pushes, resets, records and unwinds, what the client
\* holds stays inside the bytes the block counts as given out, the block's
\* capacity and its region.
THEOREM AllocationsInBounds == CarefulSpec => []LiveInBounds
<1>1. ASSUME CarefulInv, DoublingInv PROVE LiveInBounds
  <2> SUFFICES ASSUME NEW r \in live
               PROVE  /\ r.block \in heap
                      /\ r.lo + r.size <= block[r.block].allocated
                      /\ block[r.block].allocated <= block[r.block].capacity
                      /\ block[r.block].capacity <= block[r.block].region
    BY DEF LiveInBounds
  <2>1. r.block \in heap /\ r.lo + r.size <= block[r.block].allocated
    BY <1>1, LiveFacts
  <2> QED
    BY <1>1, <2>1, BlockFacts DEF DoublingInv
<1> QED
  BY <1>1, CarefulInvariance, DoublingInvariance, PTL

-------------------------------------------------------------------------------
(* What ends the process.                                                    *)

\* Only memory exhaustion has ended the process, and a stack has its array.
ProcessSound ==
    /\ status \in {"running", "E104"}
    /\ Open /\ arena.allocator_type = "STACK" => array = "ok"

\* A step with no effect on the array ends the process only for want of memory.
LEMMA ProcessStep ==
    ASSUME ProcessSound, UNCHANGED <<arena, array>>, status' \in {status, "running", "E104"}
    PROVE  ProcessSound'
BY DEF ProcessSound, Open

\* No check of the allocator fails a careful request.
LEMMA RequestPasses ==
    ASSUME CarefulInv, NEW size \in Word, CarefulRequest(size)
    PROVE  AllocError(size) = "none"
<1>1. Open /\ size > 0
  BY DEF CarefulRequest, ModestRequest
<1>2. arena.alignment \in Int /\ MaxAlign \in Int /\ arena.alignment >= MaxAlign
  BY <1>1, OpenFacts, MaxAlignAssumption, WordModAssumption DEF CarefulInv, ArenaSound, Word
<1>3. arena.allocator_type = "STACK" => top = Last(chain)
  BY <1>1 DEF CarefulInv, IInv, TopIsLast
<1>4. size # 0
  BY <1>1
<1> QED
  BY <1>1, <1>2, <1>3, <1>4 DEF AllocError

\* Neither does one of move or copy, and their memcpy is defined.
LEMMA RequestEnds ==
    ASSUME CarefulInv, ProcessSound, CarefulInv', NEW size \in Word, CarefulRequest(size)
    PROVE  /\ AllocAborts(size) => ProcessSound'
           /\ UNCHANGED vars => ProcessSound'
           /\ AllocGranted(size) /\ UNCHANGED status => ProcessSound'
<1>1. AllocError(size) = "none"
  BY RequestPasses
<1>2. CASE AllocAborts(size)
  BY <1>1, <1>2, ProcessStep DEF AllocAborts, Abort, structure, stackState
<1>3. CASE UNCHANGED vars
  BY <1>3, ProcessStep DEF vars, structure, stackState
<1>4. CASE AllocGranted(size) /\ UNCHANGED status
  BY <1>4, ProcessStep DEF AllocGranted, stackState
<1> QED
  BY <1>2, <1>3, <1>4

\* Every operation ends the process only for want of memory.
LEMMA ProcessNext ==
    ASSUME ShrinkFails = FALSE, CarefulInv, DoublingInv, ProcessSound, [CarefulNext]_vars
    PROVE  ProcessSound'
<1>1. CarefulInv' /\ DoublingInv'
  BY CarefulNextInv, DoublingNext
<1>2. Requests \subseteq Word
  BY InputAssumption
<1>3. ASSUME Abort("E104") PROVE ProcessSound'
  BY <1>3, ProcessStep DEF Abort, structure, stackState
<1>4. CASE \E type \in Types, a \in Alignments, size \in InitialSizes : CarefulCreate(type, a, size)
  <2>1. PICK type \in Types, a \in Alignments, size \in InitialSizes : CarefulCreate(type, a, size)
    BY <1>4
  <2>2. CASE CreateError(type, a, size) # "none" /\ Abort(CreateError(type, a, size))
    BY <1>3, <2>1, <2>2 DEF CarefulCreate
  <2>4. CASE CreateError(type, a, size) = "none" /\ HeaderMayMiss(a, size)
    BY <2>1, <2>4, CreateFits DEF HeaderMayMiss
  <2>3. CASE /\ arena' = [allocator_type |-> type, alignment |-> a,
                          pool_size |-> IF type = "POOL" THEN size ELSE 0]
             /\ array' = IF type = "STACK" THEN "ok" ELSE "null"
             /\ UNCHANGED status
    BY <2>3 DEF ProcessSound
  <2> QED
    BY <1>3, <2>1, <2>2, <2>3, <2>4 DEF CarefulCreate, Create
<1>5. CASE Open /\ Destroy
  BY <1>5 DEF Destroy, ProcessSound, Open
<1>6. CASE CarefulReset
  <2>1. Open /\ block[Head(chain)].allocated <= block[Head(chain)].region
    <3>1. Open /\ Head(chain) \in heap
      BY <1>6, OpenFacts DEF CarefulReset, CarefulInv
    <3> QED
      BY <3>1, BlockFacts DEF DoublingInv
  <2> QED
    BY <1>6, <2>1, ProcessStep DEF CarefulReset, Reset, stackState
<1>7. CASE \E size \in Requests : CarefulRequest(size) /\ Alloc(size)
  BY <1>1, <1>2, <1>7, RequestEnds DEF Alloc
<1>8. CASE CarefulRecord
  <2>1. RecordError = "none" /\ array = "ok"
    BY <1>8 DEF CarefulRecord, RecordError, ProcessSound
  <2>2. CASE UNCHANGED <<status, structure, array>>
    BY <2>2, ProcessStep DEF structure
  <2> QED
    BY <1>3, <1>8, <2>1, <2>2 DEF CarefulRecord, StackRecord, Record
<1>9. CASE CarefulUnwind
  <2>1. UnwindError = "none" /\ array = "ok" /\ snapshots # <<>>
    BY <1>9 DEF CarefulUnwind, UnwindError, RecordError, ProcessSound
  <2>2. Last(snapshots).top \in heap
    <3>1. Len(snapshots) \in DOMAIN snapshots
      BY <2>1 DEF CarefulInv, IInv, TypeOK
    <3> QED
      BY <3>1, SnapshotFacts DEF Last
  <2>3. UNCHANGED <<status, arena>> /\ ShrinkArray(Len(snapshots) - 1)
    BY <1>9, <2>1, <2>2 DEF CarefulUnwind, StackUnwind, Unwind, TargetDangles
  <2>4. array' = "ok"
    BY <2>1, <2>3 DEF ShrinkArray
  <2> QED
    BY <2>1, <2>3, <2>4, ProcessStep
<1>10. CASE \E b \in Buffers, size \in Requests :
                CarefulRequest(size) /\ ext[b] = "held" /\ (Move(b, size) \/ Copy(b, size))
  <2>1. PICK b \in Buffers, size \in Requests :
                CarefulRequest(size) /\ ext[b] = "held" /\ (Move(b, size) \/ Copy(b, size))
    BY <1>10
  <2>2. SourceError(b, size) = "none"
    BY <2>1 DEF SourceError, CarefulRequest, ModestRequest
  <2>3. CASE CopyIn(b, size)
    <3>1. CopyFits
      BY <1>1, <1>2, <2>1, <2>3, GrantedSound, GrantedFits DEF CopyIn, CarefulRequest, CarefulInv
    <3> QED
      BY <1>1, <1>2, <2>1, <2>3, <3>1, RequestEnds DEF CopyIn
  <2>4. CASE CopyAborts(b, size) \/ CopyRefused(b, size)
    BY <1>1, <1>2, <2>1, <2>2, <2>4, RequestEnds DEF CopyAborts, CopyRefused
  <2> QED
    BY <2>1, <2>3, <2>4 DEF Move, Copy
<1>11. CASE \E b \in Buffers : Acquire(b)
  BY <1>11, ProcessStep DEF Acquire, structure, stackState
<1>12. CASE UNCHANGED vars
  BY <1>12, ProcessStep DEF vars, structure, stackState
<1> QED
  BY <1>4, <1>5, <1>6, <1>7, <1>8, <1>9, <1>10, <1>11, <1>12 DEF CarefulNext

\* Where realloc can always shrink the array, only memory exhaustion ends the
\* process: no check fails for the careful client and no step is undefined.
THEOREM OnlyOutOfMemoryAborts ==
    ASSUME ShrinkFails = FALSE
    PROVE  CarefulSpec => []OnlyMemoryExhaustionAborts
<1>1. Init => ProcessSound
  BY DEF Init, ProcessSound, Open
<1>2. CarefulInv /\ DoublingInv /\ ProcessSound /\ [CarefulNext]_vars => ProcessSound'
  BY ProcessNext
<1>3. ProcessSound => OnlyMemoryExhaustionAborts
  BY DEF ProcessSound, OnlyMemoryExhaustionAborts
<1> QED
  BY <1>1, <1>2, <1>3, CarefulInvariance, DoublingInvariance, PTL DEF CarefulSpec
==================================================================================
