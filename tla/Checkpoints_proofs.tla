--------------------------- MODULE Checkpoints_proofs ---------------------------
(***************************************************************************)
(* The careful client's arena implements Checkpoints: record and unwind     *)
(* save and restore the whole stack although a snapshot is a pointer and    *)
(* two numbers.                                                             *)
(***************************************************************************)
EXTENDS CarefulClient_proofs

\* The values the module Checkpoints speaks of.
Filled == [block : BlockId, capacity : Word, used : Word]
Headers == [BlockId -> [capacity : Word, allocated : Word, region : Word]]

\* A block of Contents, the whole of it, and the image of a snapshot, for any
\* chain c and headers h.
Entry(h, b) == [block |-> b, capacity |-> h[b].capacity, used |-> h[b].allocated]
EntryOf(s) == [block |-> s.top, capacity |-> s.capacity, used |-> s.allocated]
ContentsOf(c, h) == [i \in DOMAIN c |-> Entry(h, c[i])]
ImageOf(c, h, s) == Append(SubSeq(ContentsOf(c, h), 1, Pos(c, s.top) - 1), EntryOf(s))

\* What the refinement mapping puts for saved.
Saved == [i \in DOMAIN snapshots |-> SnapshotContents(snapshots[i])]

-------------------------------------------------------------------------------
(* Contents and images, element by element.                                  *)

\* The contents of a chain are a sequence as long as it.
LEMMA ContentsElements ==
    ASSUME NEW c \in Seq(BlockId), NEW h \in Headers
    PROVE  /\ ContentsOf(c, h) \in Seq(Filled)
           /\ Len(ContentsOf(c, h)) = Len(c) /\ Len(c) \in Nat
           /\ \A i \in 1..Len(c) : ContentsOf(c, h)[i] = Entry(h, c[i])
<1>1. DOMAIN c = 1..Len(c) /\ Len(c) \in Nat
  OBVIOUS
<1>2. ASSUME NEW i \in 1..Len(c) PROVE Entry(h, c[i]) \in Filled
  <2>1. c[i] \in BlockId
    BY ElementOfSeq
  <2>2. h[c[i]] \in [capacity : Word, allocated : Word, region : Word]
    BY <2>1 DEF Headers
  <2> QED
    BY <2>1, <2>2 DEF Entry, Filled
<1>3. ContentsOf(c, h) \in [1..Len(c) -> Filled]
  BY <1>1, <1>2 DEF ContentsOf
<1> QED
  BY <1>1, <1>3, SeqDef, LenProperties DEF ContentsOf

\* The image of a snapshot: the contents below its top, then its own numbers.
LEMMA ImageElements ==
    ASSUME NEW c \in Seq(BlockId), IsInjective(c), NEW h \in Headers,
           NEW s \in Snapshot, s.top \in Range(c)
    PROVE  /\ ImageOf(c, h, s) \in Seq(Filled)
           /\ Pos(c, s.top) \in 1..Len(c) /\ Len(ImageOf(c, h, s)) = Pos(c, s.top)
           /\ ImageOf(c, h, s)[Pos(c, s.top)] = EntryOf(s)
           /\ \A j \in 1..(Pos(c, s.top) - 1) : ImageOf(c, h, s)[j] = Entry(h, c[j])
<1> DEFINE p == Pos(c, s.top)
           low == SubSeq(ContentsOf(c, h), 1, p - 1)
<1>1. p \in 1..Len(c) /\ Len(c) \in Nat
  BY PosFacts
<1>2. /\ ContentsOf(c, h) \in Seq(Filled)
      /\ Len(ContentsOf(c, h)) = Len(c)
      /\ \A i \in 1..Len(c) : ContentsOf(c, h)[i] = Entry(h, c[i])
  BY ContentsElements
<1> HIDE DEF p
<1>3. \A i \in 1..(p - 1) : i \in 1..Len(c) /\ ContentsOf(c, h)[i] \in Filled
  <2>1. \A i \in 1..(p - 1) : i \in 1..Len(c)
    BY <1>1
  <2> QED
    BY <1>2, <2>1, ElementOfSeq
<1>4. /\ low \in Seq(Filled) /\ Len(low) = p - 1
      /\ \A i \in 1..(p - 1) : low[i] = ContentsOf(c, h)[i]
  <2>1. \A i \in 1..(p - 1) : ContentsOf(c, h)[i] \in Filled
    BY <1>3
  <2>2. 1 \in Int /\ p - 1 \in Int
    BY <1>1
  <2>3. /\ low \in Seq(Filled) /\ Len(low) = IF 1 <= p - 1 THEN p - 1 - 1 + 1 ELSE 0
        /\ \A i \in 1..(p - 1 - 1 + 1) : low[i] = ContentsOf(c, h)[1 + i - 1]
    BY <2>1, <2>2, SubSeqProperties
  <2> QED
    BY <1>1, <2>3
<1>5. EntryOf(s) \in Filled
  BY DEF EntryOf, Filled, Snapshot
<1> HIDE DEF low
<1>6. /\ Append(low, EntryOf(s)) \in Seq(Filled)
      /\ Len(Append(low, EntryOf(s))) = p
      /\ \A i \in 1..(p - 1) : Append(low, EntryOf(s))[i] = low[i]
      /\ Append(low, EntryOf(s))[p] = EntryOf(s)
  <2>1. p - 1 + 1 = p
    BY <1>1
  <2> QED
    BY <1>4, <1>5, <2>1, AppendProperties
<1>7. ImageOf(c, h, s) = Append(low, EntryOf(s))
  BY DEF ImageOf, low, p
<1>8. \A i \in 1..(p - 1) : ImageOf(c, h, s)[i] = Entry(h, c[i])
  BY <1>2, <1>3, <1>4, <1>6, <1>7
<1> QED
  BY <1>1, <1>6, <1>7, <1>8 DEF p

\* A snapshot stands for the same contents while its top keeps its place and
\* the blocks below stay as they are.
LEMMA SameImage ==
    ASSUME NEW c \in Seq(BlockId), NEW d \in Seq(BlockId), IsInjective(c), IsInjective(d),
           NEW g \in Headers, NEW h \in Headers,
           NEW s \in Snapshot, s.top \in Range(c), s.top \in Range(d),
           Pos(c, s.top) = Pos(d, s.top),
           \A j \in 1..(Pos(c, s.top) - 1) : Entry(g, c[j]) = Entry(h, d[j])
    PROVE  ImageOf(c, g, s) = ImageOf(d, h, s)
<1> DEFINE p == Pos(c, s.top)
           u == ImageOf(c, g, s)
           v == ImageOf(d, h, s)
<1>1. /\ u \in Seq(Filled) /\ Len(u) = p /\ p \in Nat /\ u[p] = EntryOf(s)
      /\ \A j \in 1..(p - 1) : u[j] = Entry(g, c[j])
  BY ImageElements
<1>2. /\ v \in Seq(Filled) /\ Len(v) = p /\ v[p] = EntryOf(s)
      /\ \A j \in 1..(p - 1) : v[j] = Entry(h, d[j])
  BY ImageElements
<1> HIDE DEF u, v, p
<1>3. \A j \in 1..p : j = p \/ j \in 1..(p - 1)
  BY <1>1
<1>4. \A j \in 1..(p - 1) : Entry(g, c[j]) = Entry(h, d[j])
  BY DEF p
<1>5. \A j \in 1..Len(u) : u[j] = v[j]
  BY <1>1, <1>2, <1>3, <1>4
<1>6. u = v
  BY <1>1, <1>2, <1>5, SeqEqual
<1> QED
  BY <1>6 DEF u, v

-------------------------------------------------------------------------------
(* The mapping.                                                              *)

\* The arena is a stack.
Stacked == Open /\ arena.allocator_type = "STACK"

\* What the mapping gives for a stack.
MappedStack ==
    CarefulInv /\ Stacked =>
        /\ Contents = ContentsOf(chain, block)
        /\ Saved = [i \in 1..Len(snapshots) |-> ImageOf(chain, block, snapshots[i])]
        /\ chain \in Seq(BlockId) /\ IsInjective(chain) /\ heap = Range(chain)
        /\ Len(chain) \in Nat \ {0}
        /\ block \in Headers /\ Len(snapshots) \in Nat
        /\ \A i \in 1..Len(snapshots) : /\ snapshots[i] \in Snapshot
                                        /\ snapshots[i].top \in Range(chain)
        /\ Contents \in Seq(Filled) /\ Saved \in Seq(Seq(Filled))

\* The mapping gives it in every state of the careful client.
LEMMA StackMapping == MappedStack
<1> SUFFICES ASSUME CarefulInv, Stacked
             PROVE  /\ Contents = ContentsOf(chain, block)
                    /\ Saved = [i \in 1..Len(snapshots) |-> ImageOf(chain, block, snapshots[i])]
                    /\ chain \in Seq(BlockId) /\ IsInjective(chain) /\ heap = Range(chain)
                    /\ Len(chain) \in Nat \ {0}
                    /\ block \in Headers /\ Len(snapshots) \in Nat
                    /\ \A i \in 1..Len(snapshots) : /\ snapshots[i] \in Snapshot
                                                    /\ snapshots[i].top \in Range(chain)
                    /\ Contents \in Seq(Filled) /\ Saved \in Seq(Seq(Filled))
  BY DEF MappedStack
<1>1. /\ chain \in Seq(BlockId) /\ IsInjective(chain) /\ heap = Range(chain)
      /\ Len(chain) \in Nat \ {0} /\ block \in Headers
  BY OpenFacts DEF CarefulInv, IInv, TypeOK, HeapIsChain, Headers, Stacked
<1>2. /\ snapshots \in Seq(Snapshot) /\ Len(snapshots) \in Nat
      /\ DOMAIN snapshots = 1..Len(snapshots)
  BY DEF CarefulInv, IInv, TypeOK
<1>3. \A i \in 1..Len(snapshots) : snapshots[i] \in Snapshot /\ snapshots[i].top \in Range(chain)
  BY <1>1, <1>2, ElementOfSeq, SnapshotFacts
<1>4. Contents = ContentsOf(chain, block)
  BY DEF Contents, ContentsOf, Entry, Stacked
<1>5. Saved = [i \in 1..Len(snapshots) |-> ImageOf(chain, block, snapshots[i])]
  <2>1. \A s : SnapshotContents(s) = ImageOf(chain, block, s)
    BY <1>4 DEF SnapshotContents, ImageOf, EntryOf, Place, Pos
  <2> QED
    BY <1>2, <2>1 DEF Saved
<1>6. Contents \in Seq(Filled)
  BY <1>1, <1>4, ContentsElements
<1>7. Saved \in Seq(Seq(Filled))
  <2>1. \A i \in 1..Len(snapshots) : ImageOf(chain, block, snapshots[i]) \in Seq(Filled)
    BY <1>1, <1>3, ImageElements
  <2> QED
    BY <1>2, <1>5, <2>1, SeqDef
<1> QED
  BY <1>1, <1>2, <1>3, <1>4, <1>5, <1>6, <1>7

\* An arena that is no stack maps to nothing.
MappedNothing == CarefulInv /\ ~Stacked => Contents = <<>> /\ Saved = <<>>

\* The arena is no stack, and has no snapshots.
LEMMA NothingMapping == MappedNothing
<1> SUFFICES ASSUME CarefulInv, ~Stacked PROVE Contents = <<>> /\ Saved = <<>>
  BY DEF MappedNothing
<1>1. snapshots = <<>>
  BY DEF CarefulInv, ArenaSound, Stacked
<1>2. arena.allocator_type # "STACK"
  BY DEF Stacked, Open, NullArena
<1> QED
  BY <1>1, <1>2 DEF Contents, Saved

\* The saved contents stay when no place is lost and no block but the last
\* changes.
LEMMA SavedKept ==
    ASSUME CarefulInv, CarefulInv', Stacked, Stacked', snapshots' = snapshots,
           \A b \in heap : b \in heap' /\ Pos(chain', b) = Pos(chain, b),
           \A j \in 1..(Len(chain) - 1) : Entry(block', chain'[j]) = Entry(block, chain[j])
    PROVE  Saved' = Saved
<1>1. /\ Saved = [i \in 1..Len(snapshots) |-> ImageOf(chain, block, snapshots[i])]
      /\ chain \in Seq(BlockId) /\ IsInjective(chain) /\ heap = Range(chain)
      /\ block \in Headers /\ Len(chain) \in Nat \ {0}
      /\ \A i \in 1..Len(snapshots) : /\ snapshots[i] \in Snapshot
                                      /\ snapshots[i].top \in Range(chain)
  BY StackMapping DEF MappedStack
<1>2. MappedStack'
  BY StackMapping, PTL
<1>3. /\ Saved' = [i \in 1..Len(snapshots) |-> ImageOf(chain', block', snapshots[i])]
      /\ chain' \in Seq(BlockId) /\ IsInjective(chain') /\ heap' = Range(chain')
      /\ block' \in Headers
  BY <1>2 DEF MappedStack
<1>4. ASSUME NEW i \in 1..Len(snapshots)
      PROVE  ImageOf(chain', block', snapshots[i]) = ImageOf(chain, block, snapshots[i])
  <2>1. /\ snapshots[i] \in Snapshot /\ snapshots[i].top \in Range(chain)
        /\ snapshots[i].top \in Range(chain')
        /\ Pos(chain', snapshots[i].top) = Pos(chain, snapshots[i].top)
    BY <1>1, <1>3
  <2>2. Pos(chain, snapshots[i].top) \in 1..Len(chain)
    BY <1>1, <2>1, PosFacts
  <2>3. \A j \in 1..(Pos(chain, snapshots[i].top) - 1) : j \in 1..(Len(chain) - 1)
    BY <1>1, <2>2
  <2>4. \A j \in 1..(Pos(chain, snapshots[i].top) - 1) :
          Entry(block', chain'[j]) = Entry(block, chain[j])
    BY <2>3
  <2> QED
    BY <1>1, <1>3, <2>1, <2>4, SameImage
<1> QED
  BY <1>1, <1>3, <1>4

-------------------------------------------------------------------------------
(* The steps.                                                                *)

\* Two sequences that differ in the last element at most.
LEMMA LastReplaced ==
    ASSUME NEW u \in Seq(Filled), NEW v \in Seq(Filled), Len(u) # 0, Len(v) = Len(u),
           \A j \in 1..(Len(u) - 1) : v[j] = u[j]
    PROVE  v = Append(Front(u), Last(v)) /\ Last(v) \in Filled
<1> DEFINE n == Len(u)
           w == SubSeq(u, 1, n - 1)
<1>1. n \in Nat \ {0} /\ Last(v) = v[n] /\ v[n] \in Filled /\ Front(u) = w
  BY ElementOfSeq DEF Last, Front
<1>2. \A j \in 1..(n - 1) : u[j] \in Filled
  BY <1>1, ElementOfSeq
<1>3. w \in Seq(Filled) /\ Len(w) = n - 1 /\ \A j \in 1..(n - 1) : w[j] = u[j]
  BY <1>1, <1>2, SubSeqProperties
<1> HIDE DEF w
<1>4. /\ Append(w, v[n]) \in Seq(Filled) /\ Len(Append(w, v[n])) = n
      /\ \A j \in 1..(n - 1) : Append(w, v[n])[j] = u[j]
      /\ Append(w, v[n])[n] = v[n]
  <2>1. n - 1 + 1 = n
    BY <1>1
  <2> QED
    BY <1>1, <1>3, <2>1, AppendProperties
<1>5. \A j \in 1..n : v[j] = Append(w, v[n])[j]
  BY <1>1, <1>4
<1>6. v = Append(w, v[n])
  BY <1>4, <1>5, SeqEqual
<1> QED
  BY <1>1, <1>6

\* A sequence with one element more.
LEMMA LastAdded ==
    ASSUME NEW u \in Seq(Filled), NEW v \in Seq(Filled), Len(v) = Len(u) + 1,
           \A j \in 1..Len(u) : v[j] = u[j]
    PROVE  v = Append(u, Last(v)) /\ Last(v) \in Filled
<1> DEFINE n == Len(u)
<1>1. n \in Nat /\ Last(v) = v[n + 1] /\ v[n + 1] \in Filled
  BY ElementOfSeq DEF Last
<1>2. /\ Append(u, v[n + 1]) \in Seq(Filled) /\ Len(Append(u, v[n + 1])) = n + 1
      /\ \A j \in 1..n : Append(u, v[n + 1])[j] = u[j]
      /\ Append(u, v[n + 1])[n + 1] = v[n + 1]
  BY <1>1, AppendProperties
<1>3. \A j \in 1..(n + 1) : v[j] = Append(u, v[n + 1])[j]
  BY <1>1, <1>2
<1>4. v = Append(u, v[n + 1])
  BY <1>2, <1>3, SeqEqual
<1> QED
  BY <1>1, <1>4

\* An allocation from the top of a stack fills the last block.
LEMMA TakeFills ==
    ASSUME CarefulInv, CarefulInv', Stacked, NEW size \in Word \ {0},
           size + arena.alignment < WordMod,
           FitsIn(top, size), TakeFrom(top, size, size), UNCHANGED <<arena, snapshots>>
    PROVE  Stack!Take
<1> DEFINE k == Len(chain)
<1>1. /\ Contents = ContentsOf(chain, block) /\ Contents \in Seq(Filled)
      /\ chain \in Seq(BlockId) /\ IsInjective(chain) /\ heap = Range(chain)
      /\ block \in Headers /\ k \in Nat \ {0}
  BY StackMapping DEF MappedStack
<1>2. MappedStack' /\ Stacked'
  <2>1. MappedStack'
    BY StackMapping, PTL
  <2> QED
    BY <2>1 DEF Stacked, Open
<1>3. /\ Contents' = ContentsOf(chain, block') /\ Contents' \in Seq(Filled)
      /\ block' \in Headers /\ chain' = chain /\ heap' = heap
  BY <1>2 DEF MappedStack, TakeFrom
<1>4. top = Last(chain) /\ top = chain[k] /\ top \in heap /\ top \in BlockId
  <2>1. top = Last(chain) /\ top \in heap
    BY OpenFacts DEF CarefulInv, IInv, TopIsLast, Stacked
  <2> QED
    BY <2>1, BlockFacts DEF Last
<1>5. /\ block' = [block EXCEPT ![top].allocated = AddW(@, TakenBytes(top, size))]
      /\ AddW(block[top].allocated, TakenBytes(top, size)) > block[top].allocated
  <2>1. /\ AlignedOffset(top) \in Nat /\ block[top].allocated <= AlignedOffset(top)
        /\ AddW(block[top].allocated, TakenBytes(top, size)) = AlignedOffset(top) + size
    BY <1>4, TakeFacts DEF Stacked
  <2>2. block[top].allocated \in Nat /\ size \in Nat \ {0}
    BY <1>4, BlockFacts, WordModAssumption DEF Word
  <2> QED
    BY <2>1, <2>2 DEF TakeFrom
<1>6. /\ block'[top].capacity = block[top].capacity
      /\ block'[top].allocated > block[top].allocated
      /\ \A b \in BlockId \ {top} : block'[b] = block[b]
  BY <1>1, <1>4, <1>5 DEF Headers
<1>7. \A j \in 1..(k - 1) : Entry(block', chain[j]) = Entry(block, chain[j])
  <2>1. \A j \in 1..(k - 1) : chain[j] \in BlockId /\ chain[j] # chain[k]
    BY <1>1 DEF IsInjective
  <2> QED
    BY <1>4, <1>6, <2>1 DEF Entry
<1>8. /\ Len(Contents) = k /\ Len(Contents') = k
      /\ \A j \in 1..k : Contents[j] = Entry(block, chain[j])
      /\ \A j \in 1..k : Contents'[j] = Entry(block', chain[j])
  BY <1>1, <1>3, ContentsElements
<1> HIDE DEF k
<1>9. \A j \in 1..(k - 1) : Contents'[j] = Contents[j]
  BY <1>1, <1>7, <1>8
<1>10. Last(Contents) = Entry(block, top) /\ Last(Contents') = Entry(block', top)
  BY <1>1, <1>4, <1>8 DEF Last
<1>11. Contents' = Append(Front(Contents), Last(Contents')) /\ Last(Contents') \in Filled
  BY <1>1, <1>3, <1>8, <1>9, LastReplaced
<1>12. Saved' = Saved
  BY <1>2, <1>3, <1>7, SavedKept DEF k
<1>13. Contents # <<>> /\ Contents' # <<>>
  BY <1>1, <1>8
<1>14. /\ Last(Contents').block = Last(Contents).block
       /\ Last(Contents').capacity = Last(Contents).capacity
       /\ Last(Contents').used > Last(Contents).used
  BY <1>6, <1>10 DEF Entry
<1> QED
  BY <1>11, <1>12, <1>13, <1>14
  DEF Stack!Take, Stack!Fill, Stack!Filled, Stack!Last, Stack!Front, Last, Front, Filled, Saved

\* An allocation that pushes a block adds it to the contents.
LEMMA PushPushes ==
    ASSUME CarefulInv, CarefulInv', Stacked, NEW size \in Word \ {0},
           PushBlock(size), UNCHANGED <<arena, snapshots>>
    PROVE  Stack!Take
<1> DEFINE k == Len(chain)
<1>1. /\ Contents = ContentsOf(chain, block) /\ Contents \in Seq(Filled)
      /\ chain \in Seq(BlockId) /\ IsInjective(chain) /\ heap = Range(chain)
      /\ block \in Headers /\ k \in Nat \ {0}
  BY StackMapping DEF MappedStack
<1>2. MappedStack' /\ Stacked'
  <2>1. MappedStack'
    BY StackMapping, PTL
  <2> QED
    BY <2>1 DEF Stacked, Open
<1>3. /\ Contents' = ContentsOf(chain', block') /\ Contents' \in Seq(Filled)
      /\ block' \in Headers /\ chain' \in Seq(BlockId) /\ IsInjective(chain')
  BY <1>2 DEF MappedStack
<1>4. PICK fresh \in BlockId \ heap :
        /\ block' = [block EXCEPT ![fresh] = NewBlock(PushedCapacity, arena.alignment, size)]
        /\ chain' = Append(chain, fresh)
        /\ heap' = heap \cup {fresh}
  BY DEF PushBlock
<1>5. /\ Len(chain') = k + 1 /\ chain'[k + 1] = fresh
      /\ \A i \in 1..k : chain'[i] = chain[i]
  BY <1>1, <1>4, AppendProperties
<1>6. \A j \in 1..k : chain[j] \in BlockId /\ chain[j] \in heap /\ chain[j] # fresh
  <2>1. DOMAIN chain = 1..k
    BY <1>1
  <2> QED
    BY <1>1, <1>4, <2>1 DEF Range
<1>7. \A j \in 1..k : Entry(block', chain'[j]) = Entry(block, chain[j])
  BY <1>1, <1>4, <1>5, <1>6 DEF Entry, Headers
<1>8. block'[fresh].allocated = size
  BY <1>1, <1>4 DEF Headers, NewBlock
<1>9. /\ Len(Contents) = k /\ Len(Contents') = k + 1
      /\ \A j \in 1..k : Contents[j] = Entry(block, chain[j])
      /\ \A j \in 1..(k + 1) : Contents'[j] = Entry(block', chain'[j])
  BY <1>1, <1>3, <1>5, ContentsElements
<1>10. \A b \in heap : b \in heap' /\ Pos(chain', b) = Pos(chain, b)
  <2>1. Len(chain) <= Len(chain')
    BY <1>1, <1>5
  <2> QED
    BY <1>1, <1>3, <1>4, <1>5, <2>1, PosPrefix
<1>11. Saved' = Saved
  <2>1. \A j \in 1..(Len(chain) - 1) : Entry(block', chain'[j]) = Entry(block, chain[j])
    BY <1>1, <1>7
  <2> QED
    BY <1>2, <1>10, <2>1, SavedKept
<1> HIDE DEF k
<1>12. \A j \in 1..k : Contents'[j] = Contents[j]
  BY <1>1, <1>7, <1>9
<1>13. Contents' = Append(Contents, Last(Contents')) /\ Last(Contents') \in Filled
  BY <1>1, <1>3, <1>9, <1>12, LastAdded
<1>14. Last(Contents') = Entry(block', fresh)
  BY <1>1, <1>5, <1>9 DEF Last
<1>15. /\ \A i \in DOMAIN Contents : Contents[i].block # Last(Contents').block
       /\ Last(Contents').used > 0
  <2>1. DOMAIN Contents = 1..k /\ \A i \in 1..k : Contents[i].block = chain[i]
    BY <1>1, <1>9 DEF Entry
  <2>2. Last(Contents').block = fresh /\ Last(Contents').used = size
    BY <1>8, <1>14 DEF Entry
  <2>3. size > 0
    BY WordModAssumption DEF Word
  <2> QED
    BY <1>6, <2>1, <2>2, <2>3
<1>16. Contents # <<>> /\ Contents' # <<>>
  BY <1>1, <1>9
<1> QED
  BY <1>11, <1>13, <1>15, <1>16
  DEF Stack!Take, Stack!Push, Stack!Filled, Stack!Last, Last, Filled, Saved

\* What the step of a checkpointed store is, or nothing.
CheckpointStep == Stack!Next \/ (Contents' = Contents /\ Saved' = Saved)

\* An allocation is a Take of a stack and invisible otherwise.
LEMMA GrantedTakes ==
    ASSUME CarefulInv, CarefulInv', Open, NEW size \in Word, ModestRequest(size),
           AllocGranted(size)
    PROVE  CheckpointStep
<1>1. UNCHANGED <<arena, snapshots>>
  BY DEF AllocGranted, stackState
<1>2. CASE ~Stacked
  <2>1. MappedNothing /\ MappedNothing'
    BY NothingMapping, PTL
  <2>2. ~Stacked'
    BY <1>1, <1>2 DEF Stacked, Open
  <2> QED
    BY <1>2, <2>1, <2>2 DEF MappedNothing, CheckpointStep
<1>3. CASE Stacked
  <2>1. size \in Word \ {0} /\ size + arena.alignment < WordMod
    <3>1. /\ size \in Nat /\ arena.alignment \in Nat /\ arena.pool_size \in Nat
          /\ WordMod \in Nat /\ size > 0
          /\ size + arena.alignment + arena.pool_size < WordMod
      BY OpenFacts, WordModAssumption DEF ModestRequest, CarefulInv, Word
    <3> QED
      BY <3>1
  <2>2. arena.allocator_type = "STACK"
    BY <1>3 DEF Stacked
  <2>3. CASE StackHasRoom(size) /\ TakeFrom(top, size, size)
    <3>1. FitsIn(top, size)
      BY <2>3 DEF StackHasRoom
    <3>2. Stack!Take
      BY <1>1, <1>3, <2>1, <2>3, <3>1, TakeFills
    <3> QED
      BY <3>2 DEF CheckpointStep, Stack!Next
  <2>4. CASE PushBlock(size)
    <3>1. Stack!Take
      BY <1>1, <1>3, <2>1, <2>4, PushPushes
    <3> QED
      BY <3>1 DEF CheckpointStep, Stack!Next
  <2> QED
    BY <2>2, <2>3, <2>4 DEF AllocGranted, StackGrants
<1> QED
  BY <1>2, <1>3

\* A step that leaves the chain, the headers and the snapshots alone is
\* invisible.
LEMMA QuietStutters ==
    ASSUME UNCHANGED <<structure, snapshots>>
    PROVE  CheckpointStep
<1>1. UNCHANGED <<arena, chain, block, snapshots>>
  BY DEF structure
<1>2. Contents' = Contents
  BY <1>1 DEF Contents
<1>3. Saved' = Saved
  BY <1>1, <1>2 DEF Saved, SnapshotContents, Place
<1> QED
  BY <1>2, <1>3 DEF CheckpointStep

\* create of a stack opens the store.
LEMMA CreateOpens ==
    ASSUME CarefulInv, CarefulInv', NEW type, NEW a \in Alignments, NEW size,
           CarefulCreate(type, a, size)
    PROVE  CheckpointStep
<1>1. ASSUME NEW code, Abort(code) PROVE CheckpointStep
  BY <1>1, QuietStutters DEF Abort, stackState
<1>2. CASE /\ ~Open
           /\ \E head \in BlockId :
                /\ chain' = <<head>>
                /\ block' = [block EXCEPT ![head] = NewBlock(AlignUp(size, a), a, 0)]
           /\ snapshots' = <<>>
  <2>1. Contents = <<>> /\ Saved = <<>>
    BY <1>2, NothingMapping DEF MappedNothing, Stacked
  <2>2. CASE ~Stacked'
    <3>1. MappedNothing'
      BY NothingMapping, PTL
    <3> QED
      BY <2>1, <2>2, <3>1 DEF MappedNothing, CheckpointStep
  <2>3. CASE Stacked'
    <3>1. MappedStack'
      BY StackMapping, PTL
    <3>2. /\ Contents' = ContentsOf(chain', block') /\ Contents' \in Seq(Filled)
          /\ chain' \in Seq(BlockId) /\ block' \in Headers
      BY <2>3, <3>1 DEF MappedStack
    <3>3. PICK head \in BlockId :
                /\ chain' = <<head>>
                /\ block' = [block EXCEPT ![head] = NewBlock(AlignUp(size, a), a, 0)]
      BY <1>2
    <3>4. Len(chain') = 1 /\ chain'[1] = head
      BY <3>3
    <3>5. Len(Contents') = 1 /\ Contents'[1] = Entry(block', head)
      BY <3>2, <3>4, ContentsElements
    <3>6. block'[head].allocated = 0
      BY <3>3 DEF CarefulInv, IInv, TypeOK, NewBlock
    <3>7. Contents'[1] \in Filled /\ Contents'[1].used = 0
      <4>1. 1 \in 1..Len(Contents')
        BY <3>5
      <4>2. Contents'[1] \in Filled
        BY <3>2, <4>1, ElementOfSeq
      <4> QED
        BY <3>5, <3>6, <4>2 DEF Entry
    <3>8. Saved' = <<>>
      BY <1>2 DEF Saved
    <3> QED
      BY <2>1, <3>5, <3>7, <3>8
      DEF CheckpointStep, Stack!Next, Stack!Open, Stack!Filled, Filled, Saved
  <2> QED
    BY <2>2, <2>3
<1> QED
  BY <1>1, <1>2 DEF CarefulCreate, Create

\* destroy closes the store.
LEMMA DestroyCloses ==
    ASSUME CarefulInv, CarefulInv', Open, Destroy
    PROVE  CheckpointStep
<1>1. ~Stacked'
  BY DEF Destroy, Stacked, Open
<1>2. MappedNothing'
  BY NothingMapping, PTL
<1>3. Contents' = <<>> /\ Saved' = <<>>
  BY <1>1, <1>2 DEF MappedNothing
<1>4. CASE Stacked
  <2>1. /\ Contents = ContentsOf(chain, block) /\ chain \in Seq(BlockId) /\ block \in Headers
        /\ Len(chain) \in Nat \ {0}
    BY <1>4, StackMapping DEF MappedStack
  <2>2. Len(Contents) # 0
    BY <2>1, ContentsElements
  <2>3. Contents # <<>>
    BY <2>2
  <2> QED
    BY <1>3, <2>3 DEF CheckpointStep, Stack!Next, Stack!Close, Saved
<1>5. CASE ~Stacked
  BY <1>3, <1>5, NothingMapping DEF MappedNothing, CheckpointStep
<1> QED
  BY <1>4, <1>5

\* reset of a stack clears the store.
LEMMA ResetClears ==
    ASSUME CarefulInv, CarefulInv', CarefulReset
    PROVE  CheckpointStep
<1>1. Open /\ snapshots = <<>> /\ snapshots' = <<>> /\ arena' = arena /\ ResetToHead
  BY DEF CarefulReset, Reset, stackState
<1>2. CASE ~Stacked
  <2>1. MappedNothing /\ MappedNothing'
    BY NothingMapping, PTL
  <2>2. ~Stacked'
    BY <1>1, <1>2 DEF Stacked, Open
  <2> QED
    BY <1>2, <2>1, <2>2 DEF MappedNothing, CheckpointStep
<1>3. CASE Stacked
  <2> DEFINE h == Head(chain)
  <2>1. MappedStack /\ MappedStack'
    BY StackMapping, PTL
  <2>2. /\ Contents = ContentsOf(chain, block) /\ Contents \in Seq(Filled)
        /\ chain \in Seq(BlockId) /\ block \in Headers /\ Len(chain) \in Nat \ {0}
    BY <1>3, <2>1 DEF MappedStack
  <2>3. /\ Contents' = ContentsOf(chain', block') /\ Contents' \in Seq(Filled)
        /\ chain' \in Seq(BlockId) /\ block' \in Headers
    BY <1>1, <1>3, <2>1 DEF MappedStack, Stacked, Open
  <2>4. h = chain[1] /\ h \in BlockId /\ h \in heap
    BY <1>1, OpenFacts DEF CarefulInv
  <2>5. chain' = <<h>> /\ block' = [Freed(heap \ {h}) EXCEPT ![h].allocated = 0]
    BY <1>1 DEF ResetToHead
  <2> HIDE DEF h
  <2>6. Freed(heap \ {h})[h] = block[h] /\ DOMAIN Freed(heap \ {h}) = BlockId
    BY <2>4 DEF Freed
  <2>7. block'[h] = [block[h] EXCEPT !.allocated = 0]
    BY <2>4, <2>5, <2>6
  <2>8. block[h] \in [capacity : Word, allocated : Word, region : Word]
    BY <2>2, <2>4 DEF Headers
  <2>9. block'[h].capacity = block[h].capacity /\ block'[h].allocated = 0
    BY <2>7, <2>8
  <2>10. /\ Len(Contents) # 0 /\ Contents[1] = Entry(block, h)
    BY <2>2, <2>4, ContentsElements
  <2>11. Len(Contents') = 1 /\ Contents'[1] = Entry(block', h)
    <3>1. Len(chain') = 1 /\ chain'[1] = h
      BY <2>5
    <3> QED
      BY <2>3, <3>1, ContentsElements
  <2>12. Contents'[1] = [Contents[1] EXCEPT !.used = 0]
    BY <2>9, <2>10, <2>11 DEF Entry
  <2>13. Contents' = <<[Contents[1] EXCEPT !.used = 0]>>
    <3>1. Contents'[1] \in Filled
      <4>1. 1 \in 1..Len(Contents')
        BY <2>11
      <4> QED
        BY <2>3, <4>1, ElementOfSeq
    <3>2. <<Contents'[1]>> \in Seq(Filled) /\ Len(<<Contents'[1]>>) = 1
      BY <3>1
    <3>3. \A i \in 1..Len(Contents') : Contents'[i] = <<Contents'[1]>>[i]
      BY <2>11
    <3>4. Contents' = <<Contents'[1]>>
      BY <2>3, <2>11, <3>2, <3>3, SeqEqual
    <3> QED
      BY <2>12, <3>4
  <2>14. Saved = <<>> /\ Saved' = <<>>
    BY <1>1 DEF Saved
  <2>15. Contents # <<>>
    BY <2>10
  <2> QED
    BY <2>13, <2>14, <2>15 DEF CheckpointStep, Stack!Next, Stack!Clear, Saved
<1> QED
  BY <1>2, <1>3

\* record saves the whole contents.
LEMMA RecordSaves ==
    ASSUME CarefulInv, CarefulInv', CarefulRecord
    PROVE  CheckpointStep
<1>1. CASE snapshots' = Append(snapshots, Mark) /\ UNCHANGED structure
  <2> DEFINE n == Len(snapshots)
  <2>1. Stacked /\ Stacked' /\ UNCHANGED <<arena, heap, chain, block, top>>
    BY <1>1 DEF CarefulRecord, RecordError, structure, Stacked, Open
  <2>2. MappedStack /\ MappedStack'
    BY StackMapping, PTL
  <2>3. /\ Contents = ContentsOf(chain, block) /\ Contents \in Seq(Filled)
        /\ Saved = [i \in 1..n |-> ImageOf(chain, block, snapshots[i])]
        /\ Saved \in Seq(Seq(Filled))
        /\ chain \in Seq(BlockId) /\ IsInjective(chain) /\ heap = Range(chain)
        /\ Len(chain) \in Nat \ {0} /\ block \in Headers /\ n \in Nat
        /\ snapshots \in Seq(Snapshot)
    BY <2>1, <2>2 DEF MappedStack, CarefulInv, IInv, TypeOK
  <2>4. /\ Contents' = Contents
        /\ Saved' = [i \in 1..Len(snapshots') |-> ImageOf(chain, block, snapshots'[i])]
        /\ Saved' \in Seq(Seq(Filled))
    <3>1. Contents' = Contents
      BY <2>1 DEF Contents
    <3> QED
      BY <2>1, <2>2, <3>1 DEF MappedStack
  <2>5. top = Last(chain) /\ top = chain[Len(chain)] /\ top \in Range(chain)
    <3>1. top = Last(chain) /\ top \in heap
      BY <2>1, OpenFacts DEF CarefulInv, IInv, TopIsLast, Stacked
    <3> QED
      BY <2>3, <3>1 DEF Last
  <2>6. Mark \in Snapshot /\ Mark.top = top /\ EntryOf(Mark) = Entry(block, top)
    <3>1. top \in BlockId
      BY <2>3, <2>5, RangeOfSeq
    <3> QED
      BY <2>3, <3>1 DEF Mark, Snapshot, Headers, EntryOf, Entry
  <2>7. /\ Len(snapshots') = n + 1 /\ snapshots'[n + 1] = Mark
        /\ \A i \in 1..n : snapshots'[i] = snapshots[i]
    BY <1>1, <2>3, <2>6, AppendProperties
  <2>8. ImageOf(chain, block, Mark) = Contents
    <3> DEFINE k == Len(chain)
               u == ImageOf(chain, block, Mark)
    <3>1. k \in 1..k /\ k \in Nat
      BY <2>3
    <3>2. Pos(chain, top) = k
      BY <2>3, <2>5, <3>1, PosFacts
    <3>3. /\ u \in Seq(Filled) /\ Len(u) = k
          /\ u[k] = Entry(block, top)
          /\ \A j \in 1..(k - 1) : u[j] = Entry(block, chain[j])
      BY <2>3, <2>5, <2>6, <3>2, ImageElements
    <3>4. /\ Len(Contents) = k
          /\ \A j \in 1..k : Contents[j] = Entry(block, chain[j])
      BY <2>3, ContentsElements
    <3> HIDE DEF u
    <3>5. \A j \in 1..k : j = k \/ j \in 1..(k - 1)
      BY <3>1
    <3>6. \A j \in 1..k : u[j] = Contents[j]
      BY <2>5, <3>1, <3>3, <3>4, <3>5
    <3>7. u = Contents
      BY <2>3, <3>3, <3>4, <3>6, SeqEqual
    <3> QED
      BY <3>7 DEF u
  <2> HIDE DEF n
  <2>9. Saved' = Append(Saved, Contents)
    <3>1. DOMAIN Saved = 1..n /\ Len(Saved) = n
      BY <2>3
    <3>2. /\ Append(Saved, Contents) \in Seq(Seq(Filled))
          /\ Len(Append(Saved, Contents)) = n + 1
          /\ \A i \in 1..n : Append(Saved, Contents)[i] = Saved[i]
          /\ Append(Saved, Contents)[n + 1] = Contents
      BY <2>3, <3>1, AppendProperties
    <3>3. Len(Saved') = n + 1
      <4>1. DOMAIN Saved' = 1..(n + 1)
        BY <2>4, <2>7
      <4> QED
        BY <2>3, <2>4, <4>1, LenProperties
    <3>4. \A i \in 1..(n + 1) : i \in 1..n \/ i = n + 1
      BY <2>3
    <3>5. \A i \in 1..n : i \in 1..(n + 1)
      BY <2>3
    <3>6. \A i \in 1..n : Saved'[i] = Saved[i]
      BY <2>3, <2>4, <2>7, <3>5
    <3>7. Saved'[n + 1] = Contents
      BY <2>3, <2>4, <2>7, <2>8
    <3>8. \A i \in 1..(n + 1) : Saved'[i] = Append(Saved, Contents)[i]
      BY <3>2, <3>4, <3>6, <3>7
    <3> QED
      BY <2>4, <3>2, <3>3, <3>8, SeqEqual
  <2>10. Contents # <<>>
    <3>1. Len(Contents) # 0
      BY <2>3, ContentsElements
    <3> QED
      BY <3>1
  <2> QED
    BY <2>4, <2>9, <2>10 DEF CheckpointStep, Stack!Next, Stack!Save, Saved
<1>2. ASSUME NEW code, Abort(code) PROVE CheckpointStep
  BY <1>2, QuietStutters DEF Abort, stackState
<1> QED
  BY <1>1, <1>2 DEF CarefulRecord, StackRecord, Record

\* unwind puts the last saved contents back.
LEMMA UnwindRestores ==
    ASSUME CarefulInv, CarefulInv', CarefulUnwind
    PROVE  CheckpointStep
<1>1. ASSUME NEW code, Abort(code) PROVE CheckpointStep
  BY <1>1, QuietStutters DEF Abort, stackState
<1>2. CASE /\ LET target == Last(snapshots)
                  kept == ChainUpTo(target.top)
              IN  /\ chain' = kept
                  /\ heap' = Range(kept)
                  /\ block' = Restored(target, kept)
           /\ snapshots' = Front(snapshots)
           /\ UNCHANGED arena
  <2> DEFINE n == Len(snapshots)
             target == snapshots[n]
             k == Pos(chain, target.top)
  <2>1. Stacked /\ snapshots # <<>> /\ Stacked'
    BY <1>2 DEF CarefulUnwind, UnwindError, RecordError, Stacked, Open
  <2>2. MappedStack /\ MappedStack'
    BY StackMapping, PTL
  <2>3. /\ Saved = [i \in 1..n |-> ImageOf(chain, block, snapshots[i])]
        /\ Saved \in Seq(Seq(Filled))
        /\ chain \in Seq(BlockId) /\ IsInjective(chain) /\ heap = Range(chain)
        /\ Len(chain) \in Nat \ {0} /\ block \in Headers /\ n \in Nat
        /\ \A i \in 1..n : snapshots[i] \in Snapshot /\ snapshots[i].top \in Range(chain)
        /\ snapshots \in Seq(Snapshot)
    BY <2>1, <2>2 DEF MappedStack, CarefulInv, IInv, TypeOK
  <2>4. /\ Contents' = ContentsOf(chain', block') /\ Contents' \in Seq(Filled)
        /\ Saved' = [i \in 1..Len(snapshots') |-> ImageOf(chain', block', snapshots'[i])]
        /\ Saved' \in Seq(Seq(Filled))
        /\ chain' \in Seq(BlockId) /\ IsInjective(chain') /\ heap' = Range(chain')
        /\ block' \in Headers
        /\ \A i \in 1..Len(snapshots') : snapshots'[i].top \in Range(chain')
    BY <2>1, <2>2 DEF MappedStack
  <2>5. /\ n \in Nat \ {0} /\ DOMAIN snapshots = 1..n /\ n \in 1..n
        /\ target = Last(snapshots) /\ target \in Snapshot /\ target.top \in heap
    <3>1. n \in Nat \ {0} /\ DOMAIN snapshots = 1..n
      BY <2>1, <2>3
    <3> QED
      BY <2>3, <3>1 DEF Last
  <2>6. /\ Len(snapshots') = n - 1
        /\ \A i \in 1..(n - 1) : snapshots'[i] = snapshots[i]
    <3>1. \A i \in 1..(n - 1) : snapshots[i] \in Snapshot
      BY <2>3, <2>5
    <3> QED
      BY <1>2, <2>5, <3>1, SubSeqProperties DEF Front
  <2>7. /\ chain' = ChainUpTo(target.top) /\ heap' = Range(chain')
        /\ block' = Restored(target, chain')
    BY <1>2, <2>5
  <2>8. k \in 1..Len(chain) /\ chain[k] = target.top
    BY <2>3, <2>5, PosFacts
  <2> HIDE DEF n, target
  <2>9. Len(chain') = k /\ \A i \in 1..k : chain'[i] = chain[i]
    <3>1. \A i \in 1..k : chain[i] \in BlockId
      BY <2>3, <2>8
    <3>2. chain' = SubSeq(chain, 1, k)
      BY <2>7 DEF ChainUpTo, Pos
    <3> QED
      BY <2>3, <2>8, <3>1, <3>2, SubSeqProperties
  <2> HIDE DEF k
  <2>10. target.top \in Range(chain') /\ Range(chain') \subseteq heap
    BY <2>1, <2>5, <2>7, ChainPrefix DEF CarefulInv, Stacked
  <2>11. /\ \A c \in Range(chain') : c # target.top => block'[c] = block[c]
         /\ block'[target.top] = [capacity |-> target.capacity, allocated |-> target.allocated,
                                  region |-> block[target.top].region]
    BY <2>5, <2>7, <2>10, UnwindFacts
  <2>12. \A j \in 1..(k - 1) : Entry(block', chain'[j]) = Entry(block, chain[j])
    <3>1. ASSUME NEW j \in 1..(k - 1) PROVE chain[j] \in Range(chain') /\ chain[j] # target.top
      <4>1. j \in 1..k /\ j \in 1..Len(chain) /\ j # k
        BY <2>3, <2>8
      <4>2. chain'[j] = chain[j] /\ j \in DOMAIN chain'
        BY <2>4, <2>9, <4>1
      <4> QED
        BY <2>3, <2>8, <4>1, <4>2 DEF Range, IsInjective
    <3>2. \A j \in 1..(k - 1) : chain'[j] = chain[j]
      BY <2>3, <2>8, <2>9
    <3> QED
      BY <2>11, <3>1, <3>2 DEF Entry
  <2>13. chain'[k] = target.top /\ Entry(block', target.top) = EntryOf(target)
    BY <2>3, <2>8, <2>9, <2>11 DEF Entry, EntryOf
  <2>14. Contents' = ImageOf(chain, block, target)
    <3> DEFINE u == ImageOf(chain, block, target)
    <3>1. /\ u \in Seq(Filled) /\ Len(u) = k /\ u[k] = EntryOf(target)
          /\ \A j \in 1..(k - 1) : u[j] = Entry(block, chain[j])
      BY <2>3, <2>5, ImageElements DEF k
    <3>2. /\ Len(Contents') = k
          /\ \A j \in 1..k : Contents'[j] = Entry(block', chain'[j])
      BY <2>4, <2>9, ContentsElements
    <3> HIDE DEF u
    <3>3. \A j \in 1..k : j = k \/ j \in 1..(k - 1)
      BY <2>3, <2>8
    <3>4. \A j \in 1..k : Contents'[j] = u[j]
      BY <2>12, <2>13, <3>1, <3>2, <3>3
    <3>5. Contents' = u
      BY <2>4, <3>1, <3>2, <3>4, SeqEqual
    <3> QED
      BY <3>5 DEF u
  <2>15. ASSUME NEW i \in 1..(n - 1)
         PROVE  ImageOf(chain', block', snapshots'[i]) = ImageOf(chain, block, snapshots[i])
    <3>1. /\ snapshots[i] \in Snapshot /\ snapshots[i].top \in Range(chain)
          /\ snapshots'[i] = snapshots[i] /\ snapshots[i].top \in Range(chain')
      BY <2>3, <2>4, <2>5, <2>6
    <3>2. Len(chain') <= Len(chain) /\ \A j \in 1..Len(chain') : chain[j] = chain'[j]
      BY <2>3, <2>8, <2>9
    <3> DEFINE s == snapshots[i]
               d == chain'
               g == block'
    <3>a. /\ chain \in Seq(BlockId) /\ IsInjective(chain) /\ d \in Seq(BlockId) /\ IsInjective(d)
          /\ block \in Headers /\ g \in Headers
      BY <2>3, <2>4
    <3>b. s \in Snapshot /\ s.top \in Range(chain) /\ s.top \in Range(d)
      BY <3>1
    <3>3. Pos(chain, s.top) = Pos(d, s.top)
      <4>1. Len(d) <= Len(chain) /\ \A j \in 1..Len(d) : chain[j] = d[j]
        BY <3>2
      <4> HIDE DEF s, d
      <4> QED
        BY <3>a, <3>b, <4>1, PosPrefix
    <3>4. Pos(chain', snapshots[i].top) \in 1..k
      BY <2>4, <2>9, <3>1, PosFacts
    <3>5. \A j \in 1..(Pos(chain', snapshots[i].top) - 1) :
            Entry(block', chain'[j]) = Entry(block, chain[j])
      <4>1. \A j \in 1..(Pos(chain', snapshots[i].top) - 1) : j \in 1..(k - 1)
        BY <2>3, <2>8, <3>4
      <4> QED
        BY <2>12, <4>1
    <3>6. ImageOf(chain', block', snapshots[i]) = ImageOf(chain, block, snapshots[i])
      <4>1. Pos(d, s.top) = Pos(chain, s.top)
        BY <3>3
      <4>2. \A j \in 1..(Pos(d, s.top) - 1) : Entry(g, d[j]) = Entry(block, chain[j])
        BY <3>5
      <4>3. ImageOf(d, g, s) = ImageOf(chain, block, s)
        <5> HIDE DEF s, d, g
        <5> QED
          BY <3>a, <3>b, <4>1, <4>2, SameImage
      <4> QED
        BY <4>3
    <3> QED
      BY <3>1, <3>6
  <2>16. Len(Saved) = n /\ Saved[n] = ImageOf(chain, block, target) /\ Saved # <<>>
    <3>1. DOMAIN Saved = 1..n
      BY <2>3
    <3>2. Len(Saved) = n
      BY <2>3, <3>1, LenProperties
    <3> QED
      BY <2>3, <2>5, <3>2 DEF target
  <2>17. Saved' = SubSeq(Saved, 1, n - 1)
    <3>1. \A i \in 1..(n - 1) : i \in 1..n
      BY <2>5
    <3>2. \A i \in 1..(n - 1) : Saved[i] \in Seq(Filled)
      BY <2>3, <2>16, <3>1, ElementOfSeq
    <3> DEFINE w == SubSeq(Saved, 1, n - 1)
    <3>3. w \in Seq(Seq(Filled)) /\ Len(w) = n - 1 /\ \A i \in 1..(n - 1) : w[i] = Saved[i]
      BY <2>5, <3>2, SubSeqProperties
    <3> HIDE DEF w
    <3>4. Len(Saved') = n - 1
      <4>1. DOMAIN Saved' = 1..(n - 1) /\ n - 1 \in Nat
        BY <2>4, <2>5, <2>6
      <4> QED
        BY <2>4, <4>1, LenProperties
    <3>5. \A i \in 1..(n - 1) : Saved'[i] = w[i]
      BY <2>3, <2>4, <2>6, <2>15, <3>1, <3>3
    <3>6. Saved' = w
      BY <2>4, <3>3, <3>4, <3>5, SeqEqual
    <3> QED
      BY <3>6 DEF w
  <2> QED
    BY <2>14, <2>16, <2>17
    DEF CheckpointStep, Stack!Next, Stack!Restore, Stack!Last, Stack!Front, Last, Front, Saved
<1> QED
  BY <1>1, <1>2 DEF CarefulUnwind, StackUnwind, Unwind

-------------------------------------------------------------------------------
(* The theorem.                                                              *)

\* Every operation is a step of the checkpointed store or invisible.
LEMMA CheckpointNext ==
    ASSUME CarefulInv, CarefulInv', [CarefulNext]_vars
    PROVE  CheckpointStep
<1>1. Requests \subseteq Word
  BY InputAssumption
<1>2. ASSUME NEW size \in Requests, CarefulRequest(size), AllocGranted(size)
      PROVE  CheckpointStep
  BY <1>1, <1>2, GrantedTakes DEF CarefulRequest
<1>3. ASSUME NEW size, AllocAborts(size) \/ UNCHANGED vars PROVE CheckpointStep
  BY <1>3, QuietStutters DEF AllocAborts, Abort, stackState, vars
<1>4. CASE \E type \in Types, a \in Alignments, size \in InitialSizes : CarefulCreate(type, a, size)
  BY <1>4, CreateOpens
<1>5. CASE Open /\ Destroy
  BY <1>5, DestroyCloses
<1>6. CASE CarefulReset
  BY <1>6, ResetClears
<1>7. CASE \E size \in Requests : CarefulRequest(size) /\ Alloc(size)
  BY <1>2, <1>3, <1>7 DEF Alloc
<1>8. CASE CarefulRecord
  BY <1>8, RecordSaves
<1>9. CASE CarefulUnwind
  BY <1>9, UnwindRestores
<1>10. CASE \E b \in Buffers, size \in Requests :
                CarefulRequest(size) /\ (Move(b, size) \/ Copy(b, size))
  <2>1. PICK b \in Buffers, size \in Requests :
                CarefulRequest(size) /\ (Move(b, size) \/ Copy(b, size))
    BY <1>10
  <2>2. CASE CopyIn(b, size)
    BY <1>2, <2>1, <2>2 DEF CopyIn
  <2>3. CASE CopyAborts(b, size)
    <3>1. CASE Abort(SourceError(b, size))
      BY <3>1, QuietStutters DEF Abort, stackState
    <3> QED
      BY <1>3, <2>3, <3>1 DEF CopyAborts
  <2>4. CASE CopyRefused(b, size)
    BY <1>3, <2>4 DEF CopyRefused
  <2> QED
    BY <2>1, <2>2, <2>3, <2>4 DEF Move, Copy
<1>11. CASE \E b \in Buffers : Acquire(b)
  BY <1>11, QuietStutters DEF Acquire, stackState
<1>12. CASE UNCHANGED vars
  BY <1>3, <1>12
<1> QED
  BY <1>4, <1>5, <1>6, <1>7, <1>8, <1>9, <1>10, <1>11, <1>12 DEF CarefulNext

\* record and unwind save and restore whole stacks: however many blocks were
\* pushed in between, unwind puts back every block, capacity and fill level
\* that record saw, from a pointer and two numbers.
THEOREM CheckpointsImplemented == CarefulSpec => ImplementsCheckpoints
<1>1. Init => Stack!Init
  <2> SUFFICES ASSUME Init PROVE Contents = <<>> /\ Saved = <<>>
    BY DEF Stack!Init, Saved
  <2>1. CarefulInv /\ ~Stacked
    BY CarefulInitInv DEF Init, Stacked, Open
  <2> QED
    BY <2>1, NothingMapping DEF MappedNothing
<1>2. CarefulInv /\ CarefulInv' /\ [CarefulNext]_vars => [Stack!Next]_(Stack!cvars)
  BY CheckpointNext DEF CheckpointStep, Stack!cvars, Saved
<1> QED
  BY <1>1, <1>2, CarefulInvariance, PTL DEF CarefulSpec, ImplementsCheckpoints, Stack!Spec
================================================================================
