------------------------------ MODULE Arena_proofs ------------------------------
(***************************************************************************)
(* Theorems about the arena under any client.                               *)
(***************************************************************************)
EXTENDS Arena, Words_proofs, SequenceTheorems

-------------------------------------------------------------------------------
(* The inductive invariant.                                                  *)

\* A snapshot of the head block holds the head's capacity and a fill level
\* within it, so an unwind to it keeps BlocksWithinRegion.
HeadSnapshots ==
    \A i \in DOMAIN snapshots :
        snapshots[i].top = Head(chain) =>
            /\ snapshots[i].allocated <= snapshots[i].capacity
            /\ snapshots[i].capacity = block[Head(chain)].capacity

IInv == /\ TypeOK
        /\ HeapIsChain
        /\ TopIsLast
        /\ SnapshotSlots
        /\ BlocksWithinRegion
        /\ HeadSnapshots

\* What IInv says of an open arena, in the form the steps use.
LEMMA OpenFacts ==
    ASSUME IInv, Open
    PROVE  /\ arena \in [allocator_type : Strategies, pool_size : Word,
                         alignment : {a \in 1..AlignLimit : IsPowerOfTwo(a)}]
           /\ arena.alignment \in Word \ {0}
           /\ Len(chain) \in Nat \ {0} /\ DOMAIN chain = 1..Len(chain)
           /\ chain[1] \in BlockId /\ Head(chain) = chain[1]
           /\ Last(chain) = chain[Len(chain)] /\ Last(chain) \in heap
           /\ chain[1] \in heap
           /\ heap = {chain[i] : i \in 1..Len(chain)}
<1>1. arena \in [allocator_type : Strategies, pool_size : Word,
                 alignment : {a \in 1..AlignLimit : IsPowerOfTwo(a)}]
  BY DEF IInv, TypeOK, Open
<1>2. arena.alignment \in Word \ {0}
  BY <1>1, PagesAssumption, WordModAssumption DEF Word
<1>3. chain \in Seq(BlockId) /\ chain # <<>> /\ heap = Range(chain)
  BY DEF IInv, TypeOK, HeapIsChain
<1>4. Len(chain) \in Nat \ {0} /\ DOMAIN chain = 1..Len(chain)
  BY <1>3
<1>5. heap = {chain[i] : i \in 1..Len(chain)}
  BY <1>3, <1>4 DEF Range
<1> QED
  BY <1>1, <1>2, <1>3, <1>4, <1>5 DEF Last

\* A step that leaves the arena alone, aborting or moving the caller's pointer.
LEMMA QuietStep ==
    ASSUME IInv, status' \in Statuses, ext' \in [Buffers -> {"held", "null"}],
           UNCHANGED <<structure, stackState, live>>
    PROVE  IInv'
BY DEF IInv, TypeOK, HeapIsChain, TopIsLast, SnapshotSlots, BlocksWithinRegion,
       HeadSnapshots, structure, stackState, Open

\* An abort changes the status and nothing else.
LEMMA AbortStep ==
    ASSUME IInv, NEW code \in Statuses, Abort(code)
    PROVE  IInv'
<1>1. ext \in [Buffers -> {"held", "null"}] /\ ext' = ext
  BY DEF IInv, TypeOK, Abort
<1> QED
  BY <1>1, QuietStep DEF Abort

-------------------------------------------------------------------------------
(* Allocation.                                                               *)

\* A request that fits in a block takes its bytes from it without wrapping.
LEMMA FittingRequest ==
    ASSUME IInv, Open, NEW b \in heap, NEW n \in Word, FitsIn(b, n)
    PROVE  /\ TakenBytes(b, n) \in Word
           /\ AlignedOffset(b) \in Word
           /\ AddW(block[b].allocated, TakenBytes(b, n)) \in Word
           /\ block[b].allocated <= block[b].capacity =>
                AddW(block[b].allocated, TakenBytes(b, n)) <= block[b].capacity
<1>1. b \in BlockId /\ block[b] \in [capacity : Word, allocated : Word, region : Word]
  BY DEF IInv, TypeOK
<1>2. arena.alignment \in Word \ {0}
  BY OpenFacts
<1>3. TakenBytes(b, n) \in Word /\ AlignedOffset(b) \in Word
  BY <1>1, <1>2, PaddingBound, WordSums, AlignUpWord DEF TakenBytes, AlignedOffset
<1>4. AddW(block[b].allocated, TakenBytes(b, n)) \in Word
  BY <1>1, <1>3, WordSums
<1>5. ASSUME block[b].allocated <= block[b].capacity
      PROVE  AddW(block[b].allocated, TakenBytes(b, n)) <= block[b].capacity
  <2>1. TakenBytes(b, n) <= block[b].capacity - block[b].allocated
    BY <1>5 DEF FitsIn, SubW
  <2> QED
    BY <2>1, <1>1, <1>3, WordModAssumption DEF AddW, Word
<1> QED
  BY <1>3, <1>4, <1>5

\* An allocation from a block of the chain keeps the invariant.
LEMMA TakeFromStep ==
    ASSUME IInv, Open, NEW b \in heap, NEW n \in Word, NEW size \in Word,
           FitsIn(b, n), TakeFrom(b, n, size),
           UNCHANGED <<arena, top, stackState>>,
           status' \in Statuses, ext' \in [Buffers -> {"held", "null"}]
    PROVE  IInv'
<1> DEFINE taken == AddW(block[b].allocated, TakenBytes(b, n))
<1>1. /\ taken \in Word /\ AlignedOffset(b) \in Word
      /\ block[b].allocated <= block[b].capacity => taken <= block[b].capacity
  BY FittingRequest
<1>2. /\ block' = [block EXCEPT ![b].allocated = taken]
      /\ UNCHANGED <<heap, chain, arena, top, snapshots, max_size, array>>
  BY DEF TakeFrom, stackState
<1>3. b \in BlockId /\ block \in [BlockId -> [capacity : Word, allocated : Word, region : Word]]
  BY DEF IInv, TypeOK
<1> HIDE DEF taken
<1>4. block' \in [BlockId -> [capacity : Word, allocated : Word, region : Word]]
  BY <1>1, <1>2, <1>3
<1>5. /\ \A c \in BlockId : block'[c].capacity = block[c].capacity /\ block'[c].region = block[c].region
      /\ \A c \in BlockId \ {b} : block'[c] = block[c]
      /\ block'[b].allocated = taken
  BY <1>2, <1>3
<1>6. live' \subseteq Allocations
  <2>1. Len(snapshots) \in Nat /\ live \subseteq Allocations
    BY DEF IInv, TypeOK
  <2> QED
    BY <2>1, <1>1, <1>3 DEF TakeFrom, Hand, Allocations
<1>7. TypeOK'
  BY <1>2, <1>4, <1>6 DEF IInv, TypeOK
<1>8. HeapIsChain' /\ TopIsLast' /\ SnapshotSlots'
  BY <1>2 DEF IInv, HeapIsChain, TopIsLast, SnapshotSlots, Open
<1>9. BlocksWithinRegion'
  <2>1. heap \subseteq BlockId
    BY DEF IInv, TypeOK
  <2> QED
    BY <2>1, <1>1, <1>2, <1>5 DEF IInv, BlocksWithinRegion
<1>10. HeadSnapshots'
  <2>1. Head(chain) \in BlockId
    BY OpenFacts
  <2> QED
    BY <2>1, <1>2, <1>5 DEF IInv, HeadSnapshots
<1> QED
  BY <1>7, <1>8, <1>9, <1>10 DEF IInv

\* scratch_alloc keeps the invariant.
LEMMA ScratchStep ==
    ASSUME IInv, Open, NEW size \in Word, ScratchGrants(size),
           UNCHANGED <<arena, stackState>>,
           status' \in Statuses, ext' \in [Buffers -> {"held", "null"}]
    PROVE  IInv'
BY OpenFacts, TakeFromStep DEF ScratchGrants

\* The first fit of linear_alloc and pool_alloc keeps the invariant.
LEMMA FirstFitStep ==
    ASSUME IInv, Open, NEW n \in Word, NEW size \in Word, FirstFit(n, size),
           UNCHANGED <<arena, top, stackState>>,
           status' \in Statuses, ext' \in [Buffers -> {"held", "null"}]
    PROVE  IInv'
<1>1. PICK i \in DOMAIN chain : FitsIn(chain[i], n) /\ TakeFrom(chain[i], n, size)
  BY DEF FirstFit
<1>2. chain[i] \in heap
  BY <1>1, OpenFacts
<1> QED
  BY <1>1, <1>2, TakeFromStep

\* The bytes a chain request takes are a word.
LEMMA ChainSizeWord ==
    ASSUME IInv, Open, NEW size \in Word
    PROVE  ChainSize(size) \in Word
<1>1. CASE arena.allocator_type = "POOL"
  <2>1. arena.pool_size \in Word \ {0}
    BY <1>1, OpenFacts DEF IInv, TypeOK
  <2>2. (size \div arena.pool_size) * arena.pool_size \in Word
    BY <2>1, WholePools
  <2> QED
    BY <1>1, <2>1, <2>2, WordSums DEF ChainSize, PoolAlignedSize
<1>2. CASE arena.allocator_type # "POOL"
  BY <1>2 DEF ChainSize
<1> QED
  BY <1>1, <1>2

\* Appending distinct new headers keeps the chain duplicate-free and adds
\* exactly those headers to it.
LEMMA ChainAppend ==
    ASSUME NEW s \in Seq(BlockId), NEW t \in Seq(BlockId),
           IsInjective(s), IsInjective(t), Range(s) \cap Range(t) = {}
    PROVE  /\ s \o t \in Seq(BlockId)
           /\ IsInjective(s \o t)
           /\ Range(s \o t) = Range(s) \cup Range(t)
<1> DEFINE u == s \o t
<1>1. /\ u \in Seq(BlockId) /\ Len(u) = Len(s) + Len(t)
      /\ \A i \in 1..(Len(s) + Len(t)) : u[i] = IF i <= Len(s) THEN s[i] ELSE t[i - Len(s)]
  BY ConcatProperties
<1>2. /\ DOMAIN s = 1..Len(s) /\ DOMAIN t = 1..Len(t) /\ DOMAIN u = 1..Len(u)
      /\ Len(s) \in Nat /\ Len(t) \in Nat
  BY <1>1
<1>3. Range(u) = Range(s) \cup Range(t)
  BY RangeConcatenation
<1>4. ASSUME NEW i \in 1..Len(u), NEW j \in 1..Len(u), u[i] = u[j], i < j
      PROVE  FALSE
  <2>1. CASE j <= Len(s)
    BY <2>1, <1>1, <1>2, <1>4 DEF IsInjective
  <2>2. CASE i > Len(s)
    <3>1. u[i] = t[i - Len(s)] /\ u[j] = t[j - Len(s)]
      BY <2>2, <1>1, <1>2, <1>4
    <3>2. i - Len(s) \in DOMAIN t /\ j - Len(s) \in DOMAIN t /\ i - Len(s) # j - Len(s)
      BY <2>2, <1>1, <1>2, <1>4
    <3> QED
      BY <3>1, <3>2, <1>4 DEF IsInjective
  <2>3. CASE i <= Len(s) /\ j > Len(s)
    <3>1. u[i] = s[i] /\ u[j] = t[j - Len(s)] /\ i \in DOMAIN s /\ j - Len(s) \in DOMAIN t
      BY <2>3, <1>1, <1>2, <1>4
    <3> QED
      BY <3>1, <1>4 DEF Range
  <2> QED
    BY <2>1, <2>2, <2>3, <1>1, <1>2
<1>5. IsInjective(u)
  <2> HIDE DEF u
  <2> QED
    BY <1>1, <1>2, <1>4 DEF IsInjective
<1> QED
  BY <1>1, <1>3, <1>5

\* An allocation from appended blocks keeps the invariant.
LEMMA GrowStep ==
    ASSUME IInv, Open, NEW n \in Word, NEW size \in Word, Grow(n, size),
           arena.allocator_type # "STACK",
           UNCHANGED <<arena, top, stackState>>,
           status' \in Statuses, ext' \in [Buffers -> {"held", "null"}]
    PROVE  IInv'
<1>1. PICK k \in Growths : GrowthStopsAt(k, n) /\
        \E fresh \in Injection(1..k, BlockId \ heap) :
            /\ chain' = chain \o fresh
            /\ heap' = heap \cup Range(fresh)
            /\ block' = [b \in BlockId |->
                  IF b \in Range(fresh)
                  THEN LET j == CHOOSE i \in 1..k : fresh[i] = b
                       IN  NewBlock(GrownCapacity(j), arena.alignment, IF j = k THEN n ELSE 0)
                  ELSE block[b]]
            /\ Hand(fresh[k], 0, size)
  BY DEF Grow
<1>2. PICK fresh \in Injection(1..k, BlockId \ heap) :
            /\ chain' = chain \o fresh
            /\ heap' = heap \cup Range(fresh)
            /\ block' = [b \in BlockId |->
                  IF b \in Range(fresh)
                  THEN LET j == CHOOSE i \in 1..k : fresh[i] = b
                       IN  NewBlock(GrownCapacity(j), arena.alignment, IF j = k THEN n ELSE 0)
                  ELSE block[b]]
            /\ Hand(fresh[k], 0, size)
  BY <1>1
<1>3. k \in Nat \ {0}
  BY DEF Growths
<1>4. fresh \in [1..k -> BlockId \ heap] /\ IsInjective(fresh)
  BY DEF Injection
<1>5. fresh \in Seq(BlockId) /\ Range(fresh) \subseteq BlockId \ heap
  <2>1. fresh \in [1..k -> BlockId]
    BY <1>4
  <2> QED
    BY <2>1, <1>3, <1>4, SeqDef DEF Range
<1>6. chain \in Seq(BlockId) /\ IsInjective(chain) /\ heap = Range(chain)
  BY DEF IInv, TypeOK, HeapIsChain
<1>7. chain' \in Seq(BlockId) /\ IsInjective(chain') /\ heap' = Range(chain')
  BY <1>2, <1>4, <1>5, <1>6, ChainAppend
<1>8. chain'[1] = chain[1] /\ Len(chain') # 0 /\ Head(chain') = Head(chain)
  BY <1>2, <1>5, <1>6, OpenFacts, ConcatProperties
<1>9. ASSUME NEW b \in Range(fresh)
      PROVE  \E j \in 1..k : block'[b] = NewBlock(GrownCapacity(j), arena.alignment, IF j = k THEN n ELSE 0)
  <2>1. \E i \in 1..k : fresh[i] = b
    BY <1>4 DEF Range
  <2> QED
    BY <2>1, <1>2, <1>5
<1>10. ASSUME NEW j \in 1..k
       PROVE  /\ NewBlock(GrownCapacity(j), arena.alignment, IF j = k THEN n ELSE 0)
                   \in [capacity : Word, allocated : Word, region : Word]
              /\ (IF j = k THEN n ELSE 0) <= GrownCapacity(j)
  <2>1. GrownCapacity(j) \in Word /\ (j = k => n <= GrownCapacity(j))
    BY <1>1 DEF GrowthStopsAt, Mappable
  <2>2. UsableBytes(GrownCapacity(j), arena.alignment) \in Word
    BY <2>1, OpenFacts, UsableWord
  <2> QED
    BY <2>1, <2>2, WordModAssumption DEF NewBlock, Word
<1>11. \A b \in BlockId \ Range(fresh) : block'[b] = block[b]
  BY <1>2
<1>12. block' \in [BlockId -> [capacity : Word, allocated : Word, region : Word]]
  <2>1. block \in [BlockId -> [capacity : Word, allocated : Word, region : Word]]
    BY DEF IInv, TypeOK
  <2>2. \A b \in BlockId : block'[b] \in [capacity : Word, allocated : Word, region : Word]
    BY <2>1, <1>9, <1>10, <1>11
  <2>3. block' = [b \in BlockId |-> block'[b]]
    BY <1>2
  <2> QED
    BY <2>2, <2>3
<1>13. live' \subseteq Allocations
  <2>1. Len(snapshots) \in Nat /\ live \subseteq Allocations /\ 0 \in Word /\ fresh[k] \in BlockId
    BY <1>3, <1>4, WordModAssumption DEF IInv, TypeOK, Word
  <2> QED
    BY <2>1, <1>2 DEF Hand, Allocations
<1>14. TypeOK'
  <2>1. heap' \subseteq BlockId
    BY <1>2, <1>5 DEF IInv, TypeOK
  <2> QED
    BY <2>1, <1>7, <1>12, <1>13 DEF IInv, TypeOK, stackState
<1>15. HeapIsChain'
  BY <1>7, <1>8 DEF IInv, HeapIsChain, Open
<1>16. TopIsLast' /\ SnapshotSlots'
  BY DEF TopIsLast, SnapshotSlots
<1>17. BlocksWithinRegion'
  <2> SUFFICES ASSUME NEW b \in heap'
               PROVE  /\ block'[b].allocated <= block'[b].capacity
                      /\ block'[b].capacity <= MmapLimit => block'[b].capacity = block'[b].region
    BY DEF BlocksWithinRegion
  <2>1. CASE b \in Range(fresh)
    <3>1. PICK j \in 1..k : block'[b] = NewBlock(GrownCapacity(j), arena.alignment, IF j = k THEN n ELSE 0)
      BY <2>1, <1>9
    <3>2. (IF j = k THEN n ELSE 0) <= GrownCapacity(j) /\ GrownCapacity(j) \in Word
      BY <1>10 DEF NewBlock
    <3>3. GrownCapacity(j) <= MmapLimit => UsableBytes(GrownCapacity(j), arena.alignment) = GrownCapacity(j)
      BY <3>2, OpenFacts, UsableMapped
    <3> QED
      BY <3>1, <3>2, <3>3 DEF NewBlock
  <2>2. CASE b \notin Range(fresh)
    BY <2>2, <1>2, <1>11 DEF IInv, BlocksWithinRegion, TypeOK
  <2> QED
    BY <2>1, <2>2
<1>18. HeadSnapshots'
  <2>1. block'[Head(chain)] = block[Head(chain)]
    BY <1>5, <1>11, OpenFacts
  <2> QED
    BY <2>1, <1>8 DEF IInv, HeadSnapshots, stackState
<1> QED
  BY <1>14, <1>15, <1>16, <1>17, <1>18 DEF IInv

\* linear_alloc and pool_alloc keep the invariant.
LEMMA ChainStep ==
    ASSUME IInv, Open, NEW size \in Word, ChainGrants(size),
           arena.allocator_type # "STACK",
           UNCHANGED <<arena, stackState>>,
           status' \in Statuses, ext' \in [Buffers -> {"held", "null"}]
    PROVE  IInv'
<1>1. ChainSize(size) \in Word
  BY ChainSizeWord
<1>2. CASE FirstFit(ChainSize(size), size)
  BY <1>1, <1>2, FirstFitStep DEF ChainGrants
<1>3. CASE Grow(ChainSize(size), size)
  BY <1>1, <1>3, GrowStep DEF ChainGrants
<1> QED
  BY <1>2, <1>3 DEF ChainGrants

\* Pushing a block onto the stack keeps the invariant: the pushed block may be
\* filled past its capacity, but it is not the head.
LEMMA PushStep ==
    ASSUME IInv, Open, NEW size \in Word, PushBlock(size),
           arena.allocator_type = "STACK",
           UNCHANGED <<arena, stackState>>,
           status' \in Statuses, ext' \in [Buffers -> {"held", "null"}]
    PROVE  IInv'
<1>1. PICK fresh \in BlockId \ heap :
        /\ Mappable(PushedCapacity, arena.alignment)
        /\ block' = [block EXCEPT ![fresh] = NewBlock(PushedCapacity, arena.alignment, size)]
        /\ chain' = Append(chain, fresh)
        /\ heap' = heap \cup {fresh}
        /\ top' = fresh
        /\ Hand(fresh, 0, size)
  BY DEF PushBlock
<1>2. chain \in Seq(BlockId) /\ IsInjective(chain) /\ heap = Range(chain)
  BY DEF IInv, TypeOK, HeapIsChain
<1>3. /\ chain' \in Seq(BlockId) /\ Len(chain') = Len(chain) + 1
      /\ \A i \in 1..Len(chain) : chain'[i] = chain[i]
      /\ chain'[Len(chain')] = fresh
  BY <1>1, <1>2, AppendProperties
<1>4. Len(chain) \in Nat \ {0} /\ DOMAIN chain = 1..Len(chain) /\ heap = {chain[i] : i \in 1..Len(chain)}
  BY OpenFacts
<1>5. IsInjective(chain') /\ heap' = Range(chain')
  <2>1. DOMAIN chain' = 1..(Len(chain) + 1)
    BY <1>3, <1>4
  <2>2. heap' = Range(chain')
    <3>1. heap' = heap \cup {fresh}
      BY <1>1
    <3>2. \A i \in 1..(Len(chain) + 1) : i \in 1..Len(chain) \/ i = Len(chain')
      BY <1>3, <1>4
    <3>3. Range(chain') = {chain'[i] : i \in 1..(Len(chain) + 1)}
      BY <2>1 DEF Range
    <3>4. Len(chain') \in 1..(Len(chain) + 1) /\ 1..Len(chain) \subseteq 1..(Len(chain) + 1)
      BY <1>3, <1>4
    <3> QED
      BY <3>1, <3>2, <3>3, <3>4, <1>3, <1>4
  <2>3. IsInjective(chain')
    BY <2>1, <1>1, <1>2, <1>3, <1>4 DEF IsInjective
  <2> QED
    BY <2>2, <2>3
<1>6. Head(chain') = Head(chain) /\ Head(chain) \in heap /\ Last(chain') = fresh
  BY <1>3, <1>4, OpenFacts DEF Last
<1>7. NewBlock(PushedCapacity, arena.alignment, size) \in [capacity : Word, allocated : Word, region : Word]
  <2>1. PushedCapacity \in Word
    BY <1>1 DEF Mappable
  <2> QED
    BY <2>1, OpenFacts, UsableWord DEF NewBlock
<1>8. live' \subseteq Allocations
  <2>1. Len(snapshots) \in Nat /\ live \subseteq Allocations /\ 0 \in Word
    BY WordModAssumption DEF IInv, TypeOK, Word
  <2> QED
    BY <2>1, <1>1 DEF Hand, Allocations
<1>9. TypeOK'
  BY <1>1, <1>3, <1>7, <1>8 DEF IInv, TypeOK, stackState
<1>10. HeapIsChain' /\ TopIsLast'
  BY <1>1, <1>3, <1>4, <1>5, <1>6 DEF HeapIsChain, TopIsLast, IInv, Open
<1>11. SnapshotSlots'
  BY DEF IInv, SnapshotSlots, Open, stackState
<1>12. block'[Head(chain)] = block[Head(chain)]
  BY <1>1, <1>6 DEF IInv, TypeOK
<1>13. BlocksWithinRegion' /\ HeadSnapshots'
  BY <1>6, <1>12 DEF IInv, BlocksWithinRegion, HeadSnapshots, stackState
<1> QED
  BY <1>9, <1>10, <1>11, <1>13 DEF IInv

\* stack_alloc keeps the invariant.
LEMMA StackStep ==
    ASSUME IInv, Open, NEW size \in Word, StackGrants(size),
           arena.allocator_type = "STACK",
           UNCHANGED <<arena, stackState>>,
           status' \in Statuses, ext' \in [Buffers -> {"held", "null"}]
    PROVE  IInv'
<1>1. top \in heap
  BY OpenFacts DEF IInv, TopIsLast
<1> QED
  BY <1>1, TakeFromStep, PushStep DEF StackGrants, StackHasRoom

\* Whatever the strategy, an allocation that is granted keeps the invariant.
LEMMA GrantedStep ==
    ASSUME IInv, Open, NEW size \in Word, AllocGranted(size),
           status' \in Statuses, ext' \in [Buffers -> {"held", "null"}]
    PROVE  IInv'
<1>1. UNCHANGED <<arena, stackState>>
  BY DEF AllocGranted
<1>2. CASE arena.allocator_type = "SCRATCH"
  BY <1>1, <1>2, ScratchStep DEF AllocGranted
<1>3. CASE arena.allocator_type = "STACK"
  BY <1>1, <1>3, StackStep DEF AllocGranted
<1>4. CASE arena.allocator_type \notin {"SCRATCH", "STACK"}
  BY <1>1, <1>4, ChainStep DEF AllocGranted
<1> QED
  BY <1>2, <1>3, <1>4

\* The checks of an allocation abort with an error code.
LEMMA AllocAbortStep ==
    ASSUME IInv, NEW size \in Word, AllocAborts(size)
    PROVE  IInv'
BY AbortStep DEF AllocAborts, AllocError, Statuses, MemoryErrors, PointerErrors, ArenaErrors, StateErrors

\* memory_arena_alloc keeps the invariant.
LEMMA AllocStep ==
    ASSUME IInv, NEW size \in Word, Alloc(size)
    PROVE  IInv'
<1>1. CASE AllocAborts(size)
  BY <1>1, AllocAbortStep
<1>2. CASE AllocError(size) = "none" /\ AllocGranted(size) /\ UNCHANGED <<status, ext>>
  <2>1. Open
    BY <1>2 DEF AllocError
  <2>2. status' \in Statuses /\ ext' \in [Buffers -> {"held", "null"}]
    BY <1>2 DEF IInv, TypeOK
  <2> QED
    BY <1>2, <2>1, <2>2, GrantedStep
<1>3. CASE UNCHANGED vars
  BY <1>3, QuietStep DEF vars, IInv, TypeOK
<1> QED
  BY <1>1, <1>2, <1>3 DEF Alloc

\* memory_arena_move and memory_arena_copy keep the invariant.
LEMMA CopyStep ==
    ASSUME IInv, NEW b \in Buffers, NEW size \in Word, Move(b, size) \/ Copy(b, size)
    PROVE  IInv'
<1>1. CASE CopyAborts(b, size)
  <2>1. CASE SourceError(b, size) # "none" /\ Abort(SourceError(b, size))
    BY <2>1, AbortStep DEF SourceError, Statuses, MemoryErrors, PointerErrors, ArenaErrors, StateErrors
  <2>2. CASE AllocAborts(size)
    BY <2>2, AllocAbortStep
  <2> QED
    BY <1>1, <2>1, <2>2 DEF CopyAborts
<1>2. CASE CopyRefused(b, size)
  <2>1. UNCHANGED vars
    BY <1>2 DEF CopyRefused
  <2> QED
    BY <2>1, QuietStep DEF vars, IInv, TypeOK
<1>3. CASE CopyIn(b, size) /\ (ext' = [ext EXCEPT ![b] = "null"] \/ UNCHANGED ext)
  <2>1. Open /\ AllocGranted(size)
    BY <1>3 DEF CopyIn, AllocError
  <2>2. status' \in Statuses
    BY <1>3 DEF CopyIn, IInv, TypeOK, Statuses
  <2>3. ext' \in [Buffers -> {"held", "null"}]
    BY <1>3 DEF IInv, TypeOK
  <2> QED
    BY <2>1, <2>2, <2>3, GrantedStep
<1> QED
  BY <1>1, <1>2, <1>3 DEF Move, Copy

-------------------------------------------------------------------------------
(* Lifecycle.                                                                *)

\* The initial state satisfies the invariant.
LEMMA InitInv == Init => IInv
<1> SUFFICES ASSUME Init PROVE IInv
  OBVIOUS
<1>1. arena = NullArena /\ ~Open
  BY DEF Init, Open
<1>2. TypeOK
  <2>1. Blank \in [capacity : Word, allocated : Word, region : Word]
    BY WordModAssumption DEF Blank, Word
  <2>2. block \in [BlockId -> [capacity : Word, allocated : Word, region : Word]]
    BY <2>1 DEF Init
  <2>3. arena.allocator_type # "POOL"
    BY <1>1 DEF NullArena
  <2> QED
    BY <1>1, <2>2, <2>3 DEF Init, TypeOK, Statuses
<1>3. HeapIsChain
  BY <1>1 DEF Init, HeapIsChain, Range, IsInjective
<1> QED
  BY <1>1, <1>2, <1>3 DEF Init, IInv, TopIsLast, SnapshotSlots, BlocksWithinRegion, HeadSnapshots

\* A one-block chain.
LEMMA SingleChain ==
    ASSUME NEW b \in BlockId
    PROVE  /\ <<b>> \in Seq(BlockId) /\ Range(<<b>>) = {b} /\ IsInjective(<<b>>)
           /\ Head(<<b>>) = b /\ Last(<<b>>) = b /\ <<b>> # <<>>
BY DEF Range, IsInjective, Last

\* memory_arena_create keeps the invariant.
LEMMA CreateStep ==
    ASSUME IInv, NEW type \in Types, NEW a \in Alignments, NEW size \in InitialSizes,
           Create(type, a, size)
    PROVE  IInv'
<1>1. CASE CreateError(type, a, size) # "none" /\ Abort(CreateError(type, a, size))
  BY <1>1, AbortStep DEF CreateError, Statuses, MemoryErrors, PointerErrors, ArenaErrors, StateErrors
<1>2. CASE Abort("E104") \/ Abort("undefined")
  BY <1>2, AbortStep DEF Statuses, MemoryErrors, PointerErrors, ArenaErrors, StateErrors
<1>3. CASE /\ CreateError(type, a, size) = "none"
           /\ arena' = [allocator_type |-> type, alignment |-> a,
                        pool_size |-> IF type = "POOL" THEN size ELSE 0]
           /\ \E head \in BlockId :
                /\ heap' = {head}
                /\ chain' = <<head>>
                /\ block' = [block EXCEPT ![head] = NewBlock(AlignUp(size, a), a, 0)]
                /\ top' = IF type = "STACK" THEN head ELSE NoBlock
           /\ snapshots' = <<>>
           /\ max_size' = IF type = "STACK" THEN InitialSlots ELSE 0
           /\ array' = IF type = "STACK" THEN "ok" ELSE "null"
           /\ UNCHANGED <<status, ext, live>>
  <2>1. PICK head \in BlockId :
                /\ heap' = {head}
                /\ chain' = <<head>>
                /\ block' = [block EXCEPT ![head] = NewBlock(AlignUp(size, a), a, 0)]
                /\ top' = IF type = "STACK" THEN head ELSE NoBlock
    BY <1>3
  <2>2. type \in Strategies /\ a \in Word \ {0} /\ a <= AlignLimit /\ IsPowerOfTwo(a) /\ size \in Word \ {0}
    <3>1. IsPowerOfTwo(a) /\ type \notin {"COUNT", "OTHER"} /\ size # 0 /\ ~(a > AlignLimit)
      BY <1>3 DEF CreateError
    <3>2. a # 0
      BY <3>1 DEF IsPowerOfTwo
    <3>3. type \in Strategies /\ a \in Word /\ size \in Word
      BY <3>1, TypesAssumption, InputAssumption
    <3>4. a \in Int /\ AlignLimit \in Int
      BY <3>3, PagesAssumption, WordModAssumption DEF Word
    <3> QED
      BY <3>1, <3>2, <3>3, <3>4
  <2>3. AlignUp(size, a) \in Word
    BY <2>2, AlignUpWord
  <2>4. 0 \in Word
    BY WordModAssumption DEF Word
  <2>5. arena' \in [allocator_type : Strategies, pool_size : Word,
                    alignment : {x \in 1..AlignLimit : IsPowerOfTwo(x)}]
    <3>1. a \in {x \in 1..AlignLimit : IsPowerOfTwo(x)}
      BY <2>2, PagesAssumption, WordModAssumption DEF Word
    <3> QED
      BY <1>3, <2>2, <2>4, <3>1
  <2>6. arena'.allocator_type = type /\ (type = "POOL" => arena'.pool_size # 0)
    BY <1>3, <2>2
  <2>7. Open'
    BY <2>2, <2>6 DEF Open, NullArena, Strategies
  <2>8. block' \in [BlockId -> [capacity : Word, allocated : Word, region : Word]]
    <3>1. UsableBytes(AlignUp(size, a), a) \in Word
      BY <2>2, <2>3, UsableWord
    <3> QED
      BY <2>1, <2>3, <2>4, <3>1 DEF NewBlock, IInv, TypeOK
  <2>9. block'[head] = NewBlock(AlignUp(size, a), a, 0)
    BY <2>1 DEF IInv, TypeOK
  <2>10. TypeOK'
    BY <1>3, <2>1, <2>5, <2>6, <2>8, SingleChain, SlotAssumption DEF IInv, TypeOK
  <2>11. HeapIsChain'
    BY <2>1, <2>7, SingleChain DEF HeapIsChain
  <2>12. TopIsLast' /\ SnapshotSlots'
    BY <1>3, <2>1, <2>6, SingleChain, SlotAssumption DEF TopIsLast, SnapshotSlots
  <2>13. BlocksWithinRegion'
    <3>1. AlignUp(size, a) <= MmapLimit => UsableBytes(AlignUp(size, a), a) = AlignUp(size, a)
      <4>1. a \in 1..AlignLimit
        BY <2>2, PagesAssumption, WordModAssumption DEF Word
      <4> QED
        BY <2>3, <4>1, UsableMapped
    <3>2. 0 <= AlignUp(size, a)
      BY <2>3 DEF Word
    <3> QED
      BY <2>1, <2>9, <3>1, <3>2 DEF BlocksWithinRegion, NewBlock
  <2>14. HeadSnapshots'
    BY <1>3 DEF HeadSnapshots
  <2> QED
    BY <2>10, <2>11, <2>12, <2>13, <2>14 DEF IInv
<1> QED
  BY <1>1, <1>2, <1>3 DEF Create

\* memory_arena_destroy keeps the invariant: the whole chain is freed.
LEMMA DestroyStep ==
    ASSUME IInv, Destroy
    PROVE  IInv'
<1>1. CASE Abort("E201")
  BY <1>1, AbortStep DEF Statuses, MemoryErrors, PointerErrors, ArenaErrors, StateErrors
<1>2. CASE Open /\ arena' = NullArena /\ heap' = heap \ Range(chain) /\ chain' = <<>>
           /\ block' = Freed(Range(chain)) /\ top' = NoBlock
           /\ snapshots' = <<>> /\ max_size' = 0 /\ array' = "null"
           /\ live' = {} /\ UNCHANGED <<status, ext>>
  <2>1. ~Open' /\ heap' = {}
    BY <1>2 DEF IInv, HeapIsChain, Open
  <2>2. Blank \in [capacity : Word, allocated : Word, region : Word]
    BY WordModAssumption DEF Blank, Word
  <2>3. block' \in [BlockId -> [capacity : Word, allocated : Word, region : Word]]
    BY <1>2, <2>2 DEF Freed, IInv, TypeOK
  <2>4. arena'.allocator_type # "POOL"
    BY <1>2 DEF NullArena
  <2>5. TypeOK'
    BY <1>2, <2>1, <2>3, <2>4 DEF IInv, TypeOK
  <2>6. HeapIsChain'
    BY <1>2, <2>1 DEF HeapIsChain, Range, IsInjective
  <2> QED
    BY <1>2, <2>1, <2>5, <2>6 DEF IInv, TopIsLast, SnapshotSlots, BlocksWithinRegion, HeadSnapshots
<1> QED
  BY <1>1, <1>2 DEF Destroy

\* memory_arena_reset keeps the invariant, whatever snapshots are outstanding.
LEMMA ResetStep ==
    ASSUME IInv, Reset
    PROVE  IInv'
<1>1. CASE Abort("E201")
  BY <1>1, AbortStep DEF Statuses, MemoryErrors, PointerErrors, ArenaErrors, StateErrors
<1>2. CASE /\ Open /\ ResetToHead /\ top' = ResetTop /\ live' = {}
           /\ status' = IF block[Head(chain)].allocated <= block[Head(chain)].region
                        THEN status ELSE "undefined"
           /\ UNCHANGED <<arena, stackState, ext>>
  <2> DEFINE h == Head(chain)
  <2>1. h \in BlockId /\ h \in heap
    BY <1>2, OpenFacts
  <2>2. chain' = <<h>> /\ heap' = {h} /\ block' = [Freed(heap \ {h}) EXCEPT ![h].allocated = 0]
    BY <1>2 DEF ResetToHead
  <2>3. block \in [BlockId -> [capacity : Word, allocated : Word, region : Word]]
    BY DEF IInv, TypeOK
  <2> HIDE DEF h
  <2>4. Blank \in [capacity : Word, allocated : Word, region : Word] /\ 0 \in Word
    BY WordModAssumption DEF Blank, Word
  <2>5. Freed(heap \ {h}) \in [BlockId -> [capacity : Word, allocated : Word, region : Word]]
    BY <2>3, <2>4 DEF Freed
  <2>6. Freed(heap \ {h})[h] = block[h]
    BY <2>1 DEF Freed
  <2>7. block' \in [BlockId -> [capacity : Word, allocated : Word, region : Word]]
    BY <2>2, <2>4, <2>5
  <2>8. /\ block'[h].allocated = 0 /\ block'[h].capacity = block[h].capacity
        /\ block'[h].region = block[h].region
    BY <2>1, <2>2, <2>5, <2>6, <2>3
  <2>9. top' \in BlockId \cup {NoBlock}
    BY <1>2, <2>1 DEF ResetTop, IInv, TypeOK, h
  <2>10. status' \in Statuses
    BY <1>2 DEF IInv, TypeOK, Statuses
  <2>11. TypeOK'
    BY <1>2, <2>1, <2>2, <2>7, <2>9, <2>10, SingleChain DEF IInv, TypeOK, stackState
  <2>12. HeapIsChain'
    BY <1>2, <2>1, <2>2, SingleChain DEF HeapIsChain, Open
  <2>13. TopIsLast' /\ SnapshotSlots'
    BY <1>2, <2>1, <2>2, SingleChain DEF TopIsLast, SnapshotSlots, Open, ResetTop, stackState, IInv, h
  <2>14. BlocksWithinRegion'
    <3>1. /\ block[h].capacity <= MmapLimit => block[h].capacity = block[h].region
          /\ block[h].capacity \in Word
      BY <2>1, <2>3 DEF IInv, BlocksWithinRegion, h
    <3> QED
      BY <2>2, <2>8, <3>1, WordModAssumption DEF BlocksWithinRegion, Word
  <2>15. HeadSnapshots'
    BY <1>2, <2>1, <2>2, <2>8, SingleChain DEF HeadSnapshots, IInv, stackState, h
  <2> QED
    BY <2>11, <2>12, <2>13, <2>14, <2>15 DEF IInv
<1> QED
  BY <1>1, <1>2 DEF Reset

-------------------------------------------------------------------------------
(* Record and unwind.                                                        *)

\* memory_stack_arena_record keeps the invariant.
LEMMA RecordStep ==
    ASSUME IInv, Record
    PROVE  IInv'
<1>1. ASSUME NEW code \in {RecordError, "E104", "undefined"}, code # "none", Abort(code)
      PROVE  IInv'
  BY <1>1, AbortStep DEF RecordError, Statuses, MemoryErrors, PointerErrors, ArenaErrors, StateErrors
<1>2. CASE /\ RecordError = "none" /\ array = "ok" /\ snapshots' = Append(snapshots, Mark)
           /\ max_size' = IF ArrayFull THEN 2 * max_size ELSE max_size
           /\ UNCHANGED <<status, structure, array, ext, live>>
  <2>1. Open /\ arena.allocator_type = "STACK"
    BY <1>2 DEF RecordError
  <2>2. UNCHANGED <<status, arena, heap, chain, block, top, array, ext, live>>
    BY <1>2 DEF structure
  <2>3. top \in heap /\ top \in BlockId /\ block[top] \in [capacity : Word, allocated : Word, region : Word]
    BY <2>1, OpenFacts DEF IInv, TopIsLast, TypeOK
  <2>4. Mark \in Snapshot
    BY <2>3 DEF Mark, Snapshot
  <2>5. /\ snapshots \in Seq(Snapshot)
        /\ Len(snapshots) \in Nat /\ max_size \in Nat
    BY DEF IInv, TypeOK
  <2>6. /\ snapshots' \in Seq(Snapshot)
        /\ Len(snapshots') = Len(snapshots) + 1
        /\ \A i \in 1..Len(snapshots) : snapshots'[i] = snapshots[i]
        /\ snapshots'[Len(snapshots) + 1] = Mark
    BY <1>2, <2>4, <2>5, AppendProperties
  <2>7. max_size' \in Nat
    BY <1>2, <2>5
  <2>8. TypeOK'
    BY <2>2, <2>6, <2>7 DEF IInv, TypeOK
  <2>9. HeapIsChain' /\ TopIsLast' /\ BlocksWithinRegion'
    BY <2>2 DEF IInv, HeapIsChain, TopIsLast, BlocksWithinRegion, Open
  <2>10. SnapshotSlots'
    BY <1>2, <2>1, <2>2, <2>5, <2>6 DEF IInv, SnapshotSlots, ArrayFull, Open
  <2>11. HeadSnapshots'
    <3> SUFFICES ASSUME NEW i \in 1..(Len(snapshots) + 1), snapshots'[i].top = Head(chain)
                 PROVE  /\ snapshots'[i].allocated <= snapshots'[i].capacity
                        /\ snapshots'[i].capacity = block[Head(chain)].capacity
      BY <2>2, <2>6 DEF HeadSnapshots
    <3>1. CASE i \in 1..Len(snapshots)
      BY <3>1, <2>5, <2>6 DEF IInv, HeadSnapshots
    <3>2. CASE i = Len(snapshots) + 1
      BY <3>2, <2>3, <2>6 DEF IInv, BlocksWithinRegion, Mark
    <3> QED
      BY <3>1, <3>2, <2>5
  <2> QED
    BY <2>8, <2>9, <2>10, <2>11 DEF IInv
<1> QED
  BY <1>1, <1>2 DEF Record

\* The part of the chain up to a block that is in it.
LEMMA ChainPrefix ==
    ASSUME IInv, Open, NEW b \in heap
    PROVE  /\ ChainUpTo(b) \in Seq(BlockId) /\ IsInjective(ChainUpTo(b))
           /\ ChainUpTo(b) # <<>> /\ Last(ChainUpTo(b)) = b
           /\ Head(ChainUpTo(b)) = Head(chain)
           /\ Range(ChainUpTo(b)) \subseteq heap
           /\ b \in Range(ChainUpTo(b)) /\ Head(chain) \in Range(ChainUpTo(b))
<1> DEFINE k == CHOOSE i \in DOMAIN chain : chain[i] = b
           kept == SubSeq(chain, 1, k)
<1>1. /\ chain \in Seq(BlockId) /\ IsInjective(chain)
      /\ DOMAIN chain = 1..Len(chain) /\ Len(chain) \in Nat
      /\ heap = {chain[i] : i \in 1..Len(chain)} /\ Head(chain) = chain[1]
  BY OpenFacts DEF IInv, TypeOK, HeapIsChain
<1>2. k \in 1..Len(chain) /\ chain[k] = b
  BY <1>1
<1> HIDE DEF k
<1>3. /\ kept \in Seq(BlockId) /\ Len(kept) = k
      /\ \A i \in 1..k : kept[i] = chain[i]
  <2>1. \A i \in 1..k : chain[i] \in BlockId
    BY <1>1, <1>2
  <2> QED
    BY <2>1, <1>1, <1>2, SubSeqProperties
<1>4. ChainUpTo(b) = kept
  BY DEF ChainUpTo, k
<1> HIDE DEF kept
<1>5. DOMAIN kept = 1..k /\ k \in Nat \ {0}
  BY <1>1, <1>2, <1>3
<1>6. IsInjective(kept)
  BY <1>1, <1>2, <1>3, <1>5 DEF IsInjective
<1>7. kept # <<>> /\ Last(kept) = b /\ Head(kept) = chain[1]
  BY <1>2, <1>3, <1>5 DEF Last
<1>8. Range(kept) = {chain[i] : i \in 1..k}
  BY <1>3, <1>5 DEF Range
<1>9. Range(kept) \subseteq heap /\ b \in Range(kept) /\ chain[1] \in Range(kept)
  BY <1>1, <1>2, <1>5, <1>8
<1> QED
  BY <1>1, <1>3, <1>4, <1>6, <1>7, <1>9

\* Halving the snapshot array leaves room for the snapshots that remain.
LEMMA ShrinkKeepsSlots ==
    ASSUME NEW count \in Nat, max_size \in Nat, max_size > 0, count <= max_size,
           array \in {"ok", "null"}, ShrinkArray(count)
    PROVE  /\ max_size' \in Nat /\ max_size' > 0 /\ count <= max_size'
           /\ array' \in {"ok", "null"}
BY DEF ShrinkArray

\* memory_stack_arena_unwind keeps the invariant, also when the target's header
\* has been freed and reused since the snapshot.
LEMMA UnwindStep ==
    ASSUME IInv, Unwind
    PROVE  IInv'
<1>1. ASSUME NEW code \in {UnwindError, "undefined"}, code # "none", Abort(code)
      PROVE  IInv'
  BY <1>1, AbortStep DEF UnwindError, RecordError, Statuses, MemoryErrors, PointerErrors, ArenaErrors, StateErrors
<1>2. CASE /\ UnwindError = "none" /\ ~TargetDangles
           /\ LET target == Last(snapshots)
                  kept == ChainUpTo(target.top)
              IN  /\ top' = target.top
                  /\ chain' = kept
                  /\ heap' = Range(kept)
                  /\ block' = Restored(target, kept)
           /\ snapshots' = Front(snapshots)
           /\ ShrinkArray(Len(snapshots) - 1)
           /\ live' = {r \in live : r.depth < Len(snapshots)}
           /\ UNCHANGED <<status, arena, ext>>
  <2> DEFINE target == Last(snapshots)
             kept == ChainUpTo(target.top)
             fields == [capacity : Word, allocated : Word, region : Word]
  <2>1. Open /\ arena.allocator_type = "STACK" /\ snapshots # <<>>
    BY <1>2 DEF UnwindError, RecordError
  <2>2. snapshots \in Seq(Snapshot)
    BY DEF IInv, TypeOK
  <2>3. /\ Len(snapshots) \in Nat \ {0} /\ DOMAIN snapshots = 1..Len(snapshots)
        /\ target = snapshots[Len(snapshots)]
        /\ target \in Snapshot
    <3>1. Len(snapshots) \in Nat \ {0} /\ DOMAIN snapshots = 1..Len(snapshots)
      BY <2>1, <2>2
    <3>2. snapshots[Len(snapshots)] \in Snapshot
      BY <2>2, <3>1, ElementOfSeq
    <3> QED
      BY <3>1, <3>2 DEF Last
  <2>4. target.top \in heap
    BY <1>2 DEF TargetDangles
  <2>5. /\ top' = target.top /\ chain' = kept /\ heap' = Range(kept)
        /\ block' = Restored(target, kept)
    BY <1>2
  <2> HIDE DEF target
  <2>6. /\ kept \in Seq(BlockId) /\ IsInjective(kept) /\ kept # <<>>
        /\ Last(kept) = target.top /\ Head(kept) = Head(chain)
        /\ Range(kept) \subseteq heap /\ target.top \in Range(kept)
        /\ Head(chain) \in Range(kept)
    BY <2>1, <2>4, ChainPrefix
  <2> HIDE DEF kept
  <2>7. heap \subseteq BlockId /\ block \in [BlockId -> fields]
    BY DEF IInv, TypeOK
  <2>8. Blank \in fields
    BY WordModAssumption DEF Blank, Word
  <2>9. Freed(heap \ Range(kept)) \in [BlockId -> fields]
    BY <2>7, <2>8 DEF Freed
  <2>10. \A b \in Range(kept) : Freed(heap \ Range(kept))[b] = block[b]
    BY <2>6, <2>7 DEF Freed
  <2>11. /\ block' \in [BlockId -> fields]
         /\ \A b \in BlockId \ {target.top} : block'[b] = Freed(heap \ Range(kept))[b]
         /\ block'[target.top] = [capacity |-> target.capacity,
                                  allocated |-> target.allocated,
                                  region |-> block[target.top].region]
    <3>1. block[target.top].region \in Word
      BY <2>3, <2>7 DEF Snapshot
    <3>2. Freed(heap \ Range(kept))[target.top] = block[target.top]
      BY <2>6, <2>10
    <3>3. [capacity |-> target.capacity, allocated |-> target.allocated,
           region |-> block[target.top].region] \in fields /\ target.top \in BlockId
      BY <2>3, <3>1 DEF Snapshot
    <3> QED
      BY <2>5, <2>9, <3>2, <3>3 DEF Restored
  <2>12. /\ snapshots' \in Seq(Snapshot)
         /\ Len(snapshots') = Len(snapshots) - 1
         /\ \A i \in 1..(Len(snapshots) - 1) : snapshots'[i] = snapshots[i]
    <3>1. \A i \in 1..(Len(snapshots) - 1) :
            snapshots[i] \in Snapshot
      BY <2>2, <2>3, ElementOfSeq
    <3> QED
      BY <1>2, <2>3, <3>1, SubSeqProperties DEF Front
  <2>13. /\ max_size' \in Nat /\ max_size' > 0 /\ Len(snapshots) - 1 <= max_size'
         /\ array' \in {"ok", "null"}
    BY <1>2, <2>1, <2>3, ShrinkKeepsSlots DEF IInv, TypeOK, SnapshotSlots
  <2>14. TypeOK'
    BY <1>2, <2>3, <2>5, <2>6, <2>7, <2>11, <2>12, <2>13 DEF IInv, TypeOK
  <2>15. HeapIsChain' /\ TopIsLast'
    BY <1>2, <2>1, <2>5, <2>6 DEF HeapIsChain, TopIsLast, Open
  <2>16. SnapshotSlots'
    BY <2>12, <2>13 DEF SnapshotSlots
  <2>17. /\ block'[Head(chain)].allocated <= block'[Head(chain)].capacity
         /\ block'[Head(chain)].capacity = block[Head(chain)].capacity
         /\ block'[Head(chain)].region = block[Head(chain)].region
    <3>1. CASE Head(chain) = target.top
      <4>1. /\ target.allocated <= target.capacity
            /\ target.capacity = block[Head(chain)].capacity
        BY <3>1, <2>3 DEF IInv, HeadSnapshots
      <4> QED
        BY <3>1, <4>1, <2>11
    <3>2. CASE Head(chain) # target.top
      <4>1. Head(chain) \in BlockId /\ Head(chain) \in heap
        BY <2>6, <2>7
      <4>2. block'[Head(chain)] = block[Head(chain)]
        BY <3>2, <4>1, <2>6, <2>10, <2>11
      <4> QED
        BY <4>1, <4>2 DEF IInv, BlocksWithinRegion
    <3> QED
      BY <3>1, <3>2
  <2>18. BlocksWithinRegion'
    <3>1. Head(chain) \in heap
      BY <2>6
    <3>2. block[Head(chain)].capacity <= MmapLimit
             => block[Head(chain)].capacity = block[Head(chain)].region
      BY <3>1 DEF IInv, BlocksWithinRegion
    <3> QED
      BY <1>2, <2>1, <2>5, <2>6, <2>17, <3>2 DEF BlocksWithinRegion
  <2>19. HeadSnapshots'
    <3>1. DOMAIN snapshots' = 1..(Len(snapshots) - 1) /\ Head(chain') = Head(chain)
      BY <2>3, <2>5, <2>6, <2>12
    <3>2. 1..(Len(snapshots) - 1) \subseteq DOMAIN snapshots
      BY <2>3
    <3> QED
      BY <2>12, <2>17, <3>1, <3>2 DEF IInv, HeadSnapshots
  <2> QED
    BY <2>14, <2>15, <2>16, <2>18, <2>19 DEF IInv
<1> QED
  BY <1>1, <1>2 DEF Unwind

-------------------------------------------------------------------------------
(* The theorems.                                                             *)

\* Every operation, in the hands of any client, keeps the invariant.
LEMMA NextInv ==
    ASSUME IInv, [Next]_vars
    PROVE  IInv'
<1>1. Requests \subseteq Word
  BY InputAssumption
<1>2. CASE \E type \in Types, a \in Alignments, size \in InitialSizes : Create(type, a, size)
  BY <1>2, CreateStep
<1>3. CASE Destroy
  BY <1>3, DestroyStep
<1>4. CASE Reset
  BY <1>4, ResetStep
<1>5. CASE \E size \in Requests : MayRequest /\ Alloc(size)
  BY <1>1, <1>5, AllocStep
<1>6. CASE \E size \in Requests : AllocVerify(size)
  <2>1. PICK size \in Requests : AllocVerify(size)
    BY <1>6
  <2>2. CASE VerifyError(size) # "none" /\ Abort(VerifyError(size))
    BY <2>2, AbortStep DEF VerifyError, Statuses, MemoryErrors, PointerErrors, ArenaErrors, StateErrors
  <2>3. CASE UNCHANGED vars
    BY <2>3, QuietStep DEF vars, IInv, TypeOK
  <2> QED
    BY <2>1, <2>2, <2>3 DEF AllocVerify
<1>7. CASE StackRecord
  BY <1>7, RecordStep DEF StackRecord
<1>8. CASE StackUnwind
  BY <1>8, UnwindStep DEF StackUnwind
<1>9. CASE \E b \in Buffers, size \in Requests : MayRequest /\ (Move(b, size) \/ Copy(b, size))
  BY <1>1, <1>9, CopyStep
<1>10. CASE \E b \in Buffers : Acquire(b)
  BY <1>10, QuietStep DEF Acquire, IInv, TypeOK
<1>11. CASE MoveWithoutFree
  BY <1>11, AbortStep DEF MoveWithoutFree, Statuses, MemoryErrors, PointerErrors, ArenaErrors, StateErrors
<1>12. CASE UNCHANGED vars
  BY <1>12, QuietStep DEF vars, IInv, TypeOK
<1> QED
  BY <1>2, <1>3, <1>4, <1>5, <1>6, <1>7, <1>8, <1>9, <1>10, <1>11, <1>12 DEF Next

\* The inductive invariant holds in every state the arena reaches.
THEOREM Invariance == Spec => []IInv
BY InitInv, NextInv, PTL DEF Spec

\* Every variable keeps its type, in particular the fields of every header stay
\* words and the alignment a power of two.
THEOREM TypeCorrectness == Spec => []TypeOK
BY Invariance, PTL DEF IInv

\* No sequence of calls leaks a header or links one twice.
THEOREM NoHeaderLeaks == Spec => []HeapIsChain
BY Invariance, PTL DEF IInv

\* The E502 check of stack_alloc never fails.
THEOREM StackTopIsLast == Spec => []TopIsLast
BY Invariance, PTL DEF IInv

\* There are never more snapshots than slots, and never no slot at all, which
\* doubling could not change: record always has, or makes, a slot.
THEOREM SnapshotsFitArray == Spec => []SnapshotSlots
BY Invariance, PTL DEF IInv

\* For every client, requests that wrap included, the head block and every block
\* of a SCRATCH, LINEAR or POOL arena keep allocated within the capacity, and a
\* capacity up to MmapLimit is mapped in full, so that the memset of a reset stays
\* inside the region.  Left open are the blocks a stack pushes after its head and a
\* capacity no mapping can have, which create accepts when its mapping's length
\* wraps.
THEOREM ResetStaysInRegion == Spec => []BlocksWithinRegion
BY Invariance, PTL DEF IInv

\* Only Move clears a caller's pointer, and only with the data stored.
THEOREM SourceKept == Spec => SourceReleasedOnlyWhenStored
<1> DEFINE Kept == \A b \in Buffers : ext[b] = "held" /\ ext'[b] = "null"
                      => live' # live \/ status' = "undefined"
<1>1. ASSUME UNCHANGED ext PROVE Kept
  BY <1>1
<1>2. ASSUME IInv, [Next]_vars PROVE Kept
  <2>1. CASE UNCHANGED vars
    BY <1>1, <2>1 DEF vars
  <2>2. CASE \E type \in Types, a \in Alignments, size \in InitialSizes : Create(type, a, size)
    BY <1>1, <2>2 DEF Create, Abort
  <2>3. CASE Destroy \/ Reset
    BY <1>1, <2>3 DEF Destroy, Reset, Abort
  <2>4. CASE \E size \in Requests : (MayRequest /\ Alloc(size)) \/ AllocVerify(size)
    BY <1>1, <2>4 DEF Alloc, AllocAborts, AllocVerify, Abort, vars
  <2>5. CASE StackRecord \/ StackUnwind
    BY <1>1, <2>5 DEF StackRecord, StackUnwind, Record, Unwind, Abort
  <2>6. CASE \E b \in Buffers, size \in Requests : MayRequest /\ Copy(b, size)
    BY <1>1, <2>6 DEF Copy, CopyAborts, CopyRefused, AllocAborts, Abort, vars
  <2>7. CASE \E b \in Buffers, size \in Requests : MayRequest /\ Move(b, size)
    <3>1. PICK b \in Buffers, size \in Requests : Move(b, size)
      BY <2>7
    <3>2. CASE CopyAborts(b, size) \/ CopyRefused(b, size)
      BY <1>1, <3>2 DEF CopyAborts, CopyRefused, AllocAborts, Abort, vars
    <3>3. CASE CopyIn(b, size)
      <4>1. live' # live \/ status' = "undefined"
        BY <3>3 DEF CopyIn, CopyFits
      <4> QED
        BY <4>1
    <3> QED
      BY <3>1, <3>2, <3>3 DEF Move
  <2>8. CASE \E b \in Buffers : Acquire(b)
    BY <1>2, <2>8 DEF Acquire, IInv, TypeOK
  <2>9. CASE MoveWithoutFree
    BY <1>1, <2>9 DEF MoveWithoutFree, Abort
  <2> QED
    BY <1>2, <2>1, <2>2, <2>3, <2>4, <2>5, <2>6, <2>7, <2>8, <2>9 DEF Next
<1> QED
  BY <1>2, Invariance, PTL DEF Spec, SourceReleasedOnlyWhenStored

\* A scratch arena never grows, so verify, which walks the chain, looks at the
\* same block as scratch_alloc.
LEMMA ScratchStaysSingle ==
    Spec => [](arena.allocator_type = "SCRATCH" => Len(chain) = 1)
<1> DEFINE Single == arena.allocator_type = "SCRATCH" => Len(chain) = 1
<1>1. Init => Single
  BY DEF Init, NullArena
<1>2. ASSUME Single, UNCHANGED <<arena, chain>> PROVE Single'
  BY <1>2
<1>3. ASSUME Single, NEW code, Abort(code) PROVE Single'
  BY <1>2, <1>3 DEF Abort, structure
<1>4. ASSUME Single, NEW size, AllocGranted(size) PROVE Single'
  <2>1. arena' = arena
    BY <1>4 DEF AllocGranted
  <2>2. CASE arena.allocator_type = "SCRATCH"
    BY <1>2, <1>4, <2>1, <2>2 DEF AllocGranted, ScratchGrants, TakeFrom
  <2> QED
    BY <2>1, <2>2
<1>5. ASSUME Single, NEW size, AllocAborts(size) PROVE Single'
  BY <1>3, <1>5 DEF AllocAborts
<1>6. ASSUME Single, [Next]_vars PROVE Single'
  <2>1. CASE UNCHANGED vars
    BY <1>2, <1>6, <2>1 DEF vars, structure
  <2>2. CASE \E type \in Types, a \in Alignments, size \in InitialSizes : Create(type, a, size)
    <3>1. CASE \E head \in BlockId : chain' = <<head>>
      BY <3>1
    <3> QED
      BY <1>3, <1>6, <2>2, <3>1 DEF Create
  <2>3. CASE Destroy
    BY <1>3, <1>6, <2>3 DEF Destroy, NullArena
  <2>4. CASE Reset
    <3>1. CASE ResetToHead
      BY <3>1 DEF ResetToHead
    <3> QED
      BY <1>3, <1>6, <2>4, <3>1 DEF Reset
  <2>5. CASE \E size \in Requests : (MayRequest /\ Alloc(size)) \/ AllocVerify(size)
    BY <1>2, <1>3, <1>4, <1>5, <1>6, <2>5 DEF Alloc, AllocVerify, vars, structure
  <2>6. CASE \E b \in Buffers, size \in Requests : MayRequest /\ (Move(b, size) \/ Copy(b, size))
    BY <1>2, <1>3, <1>4, <1>5, <1>6, <2>6
    DEF Move, Copy, CopyAborts, CopyRefused, CopyIn, vars, structure
  <2>7. CASE StackRecord
    BY <1>2, <1>3, <1>6, <2>7 DEF StackRecord, Record, structure
  <2>8. CASE StackUnwind
    <3>1. CASE UnwindError = "none" /\ arena' = arena
      BY <3>1 DEF UnwindError, RecordError
    <3> QED
      BY <1>3, <1>6, <2>8, <3>1 DEF StackUnwind, Unwind
  <2>9. CASE \E b \in Buffers : Acquire(b)
    BY <1>2, <1>6, <2>9 DEF Acquire, structure
  <2>10. CASE MoveWithoutFree
    BY <1>3, <1>6, <2>10 DEF MoveWithoutFree
  <2> QED
    BY <1>6, <2>1, <2>2, <2>3, <2>4, <2>5, <2>6, <2>7, <2>8, <2>9, <2>10 DEF Next
<1> QED
  BY <1>1, <1>6, PTL DEF Spec

\* The answer of verify is the outcome of alloc, whatever wraps.
THEOREM VerifyIsExact == Spec => []VerifyPredictsAlloc
<1>1. ASSUME IInv, arena.allocator_type = "SCRATCH" => Len(chain) = 1
      PROVE  VerifyPredictsAlloc
  <2> SUFFICES ASSUME Open, NEW size \in Requests
               PROVE  CanAlloc(size) <=> ~AllocRefused(size)
    BY DEF VerifyPredictsAlloc
  <2>1. CASE arena.allocator_type # "SCRATCH"
    BY <2>1 DEF CanAlloc, AllocRefused
  <2>2. CASE arena.allocator_type = "SCRATCH"
    <3>1. Range(chain) = {Head(chain)}
      BY <1>1, <2>2, OpenFacts DEF Range
    <3> QED
      BY <2>2, <3>1 DEF CanAlloc, AllocRefused, ScratchVerify, ScratchRefuses
  <2> QED
    BY <2>1, <2>2
<1> QED
  BY <1>1, Invariance, ScratchStaysSingle, PTL
=================================================================================
