---------------------------- MODULE Refinement_proofs ----------------------------
(***************************************************************************)
(* The refinement theorem: the loops of the code, one iteration at a time   *)
(* and on absolute addresses (ArenaSteps), implement the calls that take    *)
(* one step on offsets (Arena).  EffectInv says what has to hold half way   *)
(* of a call for that; after it every action has a lemma that names the     *)
(* step of Arena it is, or says that it shows nothing.  The same invariant  *)
(* shows that every iteration brings a call nearer to its end.              *)
(***************************************************************************)
EXTENDS ArenaSteps_proofs

-------------------------------------------------------------------------------
(* Absolute addresses and offsets.                                           *)

\* What is left of a multiple of a and a rest below a.
LEMMA RemainderOf ==
    ASSUME NEW a \in Nat \ {0}, NEW k \in Int, NEW r \in 0..(a - 1),
           NEW z \in Nat, z = a * k + r
    PROVE  z % a = r
BY Remainder

\* An offset from an aligned base, and the address it stands for, wrapped round
\* or not, are equally far from being aligned.
LEMMA ShiftedPadding ==
    ASSUME NEW a \in Word \ {0}, WordMod % a = 0,
           NEW m \in Word, m % a = 0, NEW x \in Word
    PROVE  Padding(AddW(m, x), a) = Padding(x, a)
<1>1. a \in Nat \ {0} /\ m \in Nat /\ x \in Nat /\ WordMod \in Nat
  BY WordModAssumption DEF Word
<1>2. PICK q \in Nat : m = a * q
  BY <1>1, Multiple
<1>3. PICK w \in Nat : WordMod = a * w
  BY <1>1, Multiple
<1> DEFINE s == x \div a
           y == x % a
<1>4. s \in Nat /\ y \in 0..(a - 1) /\ x = a * s + y
  BY <1>1
<1> HIDE DEF s, y
<1>5. a * (q + s) = a * q + a * s /\ a * (q + s - w) = a * q + a * s - a * w
  BY <1>1, <1>2, <1>3, <1>4
<1>6. CASE m + x < WordMod
  <2>1. AddW(m, x) = a * (q + s) + y /\ q + s \in Int /\ AddW(m, x) \in Nat
    BY <1>1, <1>2, <1>4, <1>5, <1>6 DEF AddW
  <2>2. AddW(m, x) % a = y
    <3>1. PICK k \in Int, z \in Nat : z = AddW(m, x) /\ z = a * k + y
      BY <2>1
    <3>2. y \in 0..(a - 1)
      BY <1>4
    <3> QED
      BY <1>1, <3>1, <3>2, RemainderOf
  <2> QED
    BY <2>2 DEF Padding, y
<1>7. CASE ~(m + x < WordMod)
  <2>1. AddW(m, x) = a * (q + s - w) + y /\ q + s - w \in Int /\ AddW(m, x) \in Nat
    BY <1>1, <1>2, <1>3, <1>4, <1>5, <1>7 DEF AddW
  <2>2. AddW(m, x) % a = y
    <3>1. PICK k \in Int, z \in Nat : z = AddW(m, x) /\ z = a * k + y
      BY <2>1
    <3>2. y \in 0..(a - 1)
      BY <1>4
    <3> QED
      BY <1>1, <3>1, <3>2, RemainderOf
  <2> QED
    BY <2>2 DEF Padding, y
<1> QED
  BY <1>6, <1>7

\* An aligned word needs no padding.
LEMMA AlignedPadding ==
    ASSUME NEW a \in Word \ {0}, NEW x \in Word, x % a = 0
    PROVE  Padding(x, a) = 0 /\ AlignUp(x, a) = x
<1>1. a \in Nat \ {0} /\ x \in Nat /\ x < WordMod /\ WordMod \in Nat
  BY WordModAssumption DEF Word
<1>2. a - 0 = a /\ a % a = 0
  BY <1>1
<1>3. Padding(x, a) = 0
  BY <1>2 DEF Padding
<1> QED
  BY <1>1, <1>3 DEF AlignUp, AddW

\* The alignment of an open arena divides the number of words.
LEMMA AlignmentDivides ==
    ASSUME NEW a \in 1..AlignLimit, IsPowerOfTwo(a)
    PROVE  WordMod % a = 0 /\ a \in Word \ {0}
<1>1. a \in Nat /\ WordMod \in Nat /\ a <= WordMod /\ a \in Word \ {0}
  BY Constants
<1> QED
  BY <1>1, PowersDivide, WidthAssumption
-------------------------------------------------------------------------------
(* The operators of the instance.                                            *)

\* What Arena computes with words is what the steps compute.
LEMMA SameSums ==
    /\ Whole!Word = Word
    /\ \A x, y : Whole!AddW(x, y) = AddW(x, y) /\ Whole!SubW(x, y) = SubW(x, y)
    /\ \A x : Whole!DoubleW(x) = DoubleW(x) /\ Whole!Doublings(x) = Doublings(x)
    /\ \A x, a : Whole!Padding(x, a) = Padding(x, a) /\ Whole!AlignUp(x, a) = AlignUp(x, a)
    /\ \A x : Whole!IsPowerOfTwo(x) <=> IsPowerOfTwo(x)
    /\ \A x, a : Whole!Mappable(x, a) <=> Mappable(x, a)
    /\ \A x, a : Whole!UsableBytes(x, a) = UsableBytes(x, a)
<1>1. Whole!Word = Word
  BY DEF Word, Whole!Word
<1>2. \A x, y : Whole!AddW(x, y) = AddW(x, y) /\ Whole!SubW(x, y) = SubW(x, y)
  BY DEF AddW, SubW, Whole!AddW, Whole!SubW
<1>3. \A x : Whole!DoubleW(x) = DoubleW(x)
  BY DEF DoubleW, Whole!DoubleW
<1>4. \A x : Whole!Doublings(x) = Doublings(x)
  BY DEF Doublings, Whole!Doublings, DoubleW, Whole!DoubleW
<1>5. \A x, a : Whole!Padding(x, a) = Padding(x, a)
  BY DEF Padding, Whole!Padding
<1>6. \A x, a : Whole!AlignUp(x, a) = AlignUp(x, a)
  BY <1>2, <1>5 DEF AlignUp, Whole!AlignUp
<1>7. \A x : Whole!IsPowerOfTwo(x) <=> IsPowerOfTwo(x)
  BY DEF IsPowerOfTwo, Whole!IsPowerOfTwo
<1>8. \A x, a : Whole!TotalSize(x, a) = TotalSize(x, a)
  BY <1>2, <1>6 DEF TotalSize, Whole!TotalSize
<1>9. \A x, a : Whole!Mappable(x, a) <=> Mappable(x, a)
  BY <1>1, <1>8 DEF Mappable, Whole!Mappable
<1>10. \A x, a : Whole!UsableBytes(x, a) = UsableBytes(x, a)
  BY <1>6, <1>8 DEF RoomBehind, Whole!RoomBehind, UsableBytes, Whole!UsableBytes
<1> QED
  BY <1>1, <1>2, <1>3, <1>4, <1>5, <1>6, <1>7, <1>9, <1>10

\* The block Arena sees malloc'd is mapped in full.
LEMMA NewBlockShown ==
    ASSUME NEW capacity \in 0..MmapLimit, NEW a \in 1..AlignLimit, NEW filled
    PROVE  Whole!NewBlock(capacity, a, filled) =
              [capacity |-> capacity, allocated |-> filled, region |-> capacity]
<1>1. capacity \in Word /\ capacity <= MmapLimit
  BY PagesAssumption, WordModAssumption DEF Word
<1> QED
  BY <1>1, UsableMapped, SameSums DEF Whole!NewBlock

\* So are its operators on sequences and functions.
LEMMA SameSequences ==
    /\ \A s : Whole!Last(s) = Last(s) /\ Whole!Front(s) = Front(s)
    /\ \A f : Whole!Range(f) = Range(f)
    /\ \A S, T : Whole!Injection(S, T) = Injection(S, T)
    /\ \A S : Whole!Cardinality(S) = Cardinality(S)
<1>1. \A s : Whole!Last(s) = Last(s) /\ Whole!Front(s) = Front(s)
  BY DEF Last, Front, Whole!Last, Whole!Front
<1>2. \A f : Whole!Range(f) = Range(f)
  BY DEF Range, Whole!Range
<1>3. \A S, T : Whole!Injection(S, T) = Injection(S, T)
  BY DEF Injection, Whole!Injection, IsInjective, Whole!IsInjective
<1>4. \A S : Whole!Cardinality(S) = Cardinality(S)
  BY DEF Cardinality, Whole!Cardinality
<1> QED
  BY <1>1, <1>2, <1>3, <1>4
-------------------------------------------------------------------------------
(* The chain that next pointers lead through.                                *)

\* The first m of a sequence.
First(c, m) == [i \in 1..m |-> c[i]]

\* The first m of c follow each other in `among`, and then next leaves it.
Leads(c, m, among) ==
    /\ \A i, j \in 1..m : c[i] = c[j] => i = j
    /\ \A i \in 1..m : c[i] \in among
    /\ \A i \in 1..m : i # m => block[c[i]].next = c[i + 1]
    /\ block[c[m]].next \notin among

\* A chain is no longer than there are headers.
LEMMA ChainLength ==
    ASSUME NEW n \in Nat, NEW c \in [1..n -> BlockId], \A i, j \in 1..n : c[i] = c[j] => i = j
    PROVE  n <= Cardinality(BlockId) /\ Cardinality(BlockId) \in Nat
<1>1. IsFiniteSet(BlockId)
  BY BlockAssumption
<1>2. c \in Injection(1..n, BlockId)
  BY DEF Injection, IsInjective
<1>3. Cardinality(1..n) = n
  <2>1. 1 \in Int /\ n \in Int
    OBVIOUS
  <2>2. Cardinality(1..n) = IF 1 > n THEN 0 ELSE n - 1 + 1
    BY <2>1, FS_Interval
  <2> QED
    BY <2>2
<1>4. Cardinality(1..n) <= Cardinality(BlockId)
  BY <1>1, <1>2, FS_Injection
<1>5. Cardinality(BlockId) \in Nat
  BY <1>1, FS_CardinalityType
<1> QED
  BY <1>3, <1>4, <1>5

\* One more of a sequence's first.
LEMMA FirstAppend ==
    ASSUME NEW n \in Nat, NEW c \in [1..n -> BlockId], NEW m \in 1..n
    PROVE  /\ First(c, m) \in Seq(BlockId) /\ Len(First(c, m)) = m
           /\ Last(First(c, m)) = c[m]
           /\ m < n => First(c, m + 1) = Append(First(c, m), c[m + 1])
<1>1. m \in Nat /\ \A i \in 1..m : i \in 1..n /\ c[i] \in BlockId
  OBVIOUS
<1>2. First(c, m) \in Seq(BlockId) /\ Len(First(c, m)) = m /\ DOMAIN First(c, m) = 1..m
      /\ \A i \in 1..m : First(c, m)[i] = c[i]
  BY <1>1 DEF First
<1>3. Last(First(c, m)) = c[m]
  BY <1>2 DEF Last
<1>4. ASSUME m < n PROVE First(c, m + 1) = Append(First(c, m), c[m + 1])
  <2> DEFINE t == Append(First(c, m), c[m + 1])
  <2>1. m + 1 \in 1..n /\ c[m + 1] \in BlockId
    BY <1>4
  <2>2. DOMAIN t = 1..(m + 1)
    BY <1>2, <2>1
  <2>3. \A i \in 1..(m + 1) : t[i] = IF i = m + 1 THEN c[m + 1] ELSE First(c, m)[i]
    BY <1>2, <2>1
  <2>4. \A i \in 1..(m + 1) : t[i] = c[i]
    <3> SUFFICES ASSUME NEW i \in 1..(m + 1)
                 PROVE  t[i] = c[i]
      OBVIOUS
    <3>1. i = m + 1 \/ i \in 1..m
      OBVIOUS
    <3> QED
      BY <1>2, <2>3, <3>1
  <2>5. t = [i \in 1..(m + 1) |-> t[i]]
    BY <2>2
  <2> HIDE DEF t
  <2>6. First(c, m + 1) = t
    BY <2>4, <2>5 DEF First
  <2> QED
    BY <2>6 DEF t
<1> QED
  BY <1>2, <1>3, <1>4

\* Path finds the blocks that follow each other.
LEMMA PathFrom ==
    \A n \in Nat : \A m \in 1..n : \A c \in [1..n -> BlockId] : \A among \in SUBSET BlockId :
        Leads(c, m, among) => Path(c[1], among) = First(c, m)
<1> SUFFICES ASSUME NEW n \in Nat, NEW m \in 1..n, NEW c \in [1..n -> BlockId],
                    NEW among \in SUBSET BlockId, Leads(c, m, among)
             PROVE  Path(c[1], among) = First(c, m)
  OBVIOUS
<1> DEFINE N == Cardinality(BlockId)
           b == c[1]
           Grown(s) == LET next == block[Last(s)].next
                       IN  IF next \in among THEN Append(s, next) ELSE s
           Rule(f) == f = [k \in 0..N |-> IF k = 0 THEN <<b>> ELSE Grown(f[k - 1])]
           G == [k \in 0..N |-> First(c, IF k < m THEN k + 1 ELSE m)]
<1>1. m <= N /\ N \in Nat
  <2>1. First(c, m) \in [1..m -> BlockId] /\ \A i \in 1..m : First(c, m)[i] = c[i]
    BY DEF First
  <2>2. \A i, j \in 1..m : First(c, m)[i] = First(c, m)[j] => i = j
    BY <2>1 DEF Leads
  <2> QED
    BY <2>1, <2>2, ChainLength
<1>2. ASSUME NEW k \in 1..m
      PROVE  Grown(First(c, k)) = First(c, IF k < m THEN k + 1 ELSE m)
  <2>1. Last(First(c, k)) = c[k] /\ (k < n => First(c, k + 1) = Append(First(c, k), c[k + 1]))
    BY FirstAppend
  <2>2. CASE k < m
    <3>1. block[c[k]].next = c[k + 1] /\ c[k + 1] \in among
      BY <2>2 DEF Leads
    <3> QED
      BY <2>1, <2>2, <3>1
  <2>3. CASE k = m
    <3>1. block[c[k]].next \notin among
      BY <2>3 DEF Leads
    <3> QED
      BY <2>1, <2>3, <3>1
  <2> QED
    BY <2>2, <2>3
<1>3. First(c, 1) = <<b>>
  BY DEF First
<1> HIDE DEF Grown
<1>4. \A k \in 0..N : G[k] = IF k = 0 THEN <<b>> ELSE Grown(G[k - 1])
  <2> SUFFICES ASSUME NEW k \in 0..N
               PROVE  G[k] = IF k = 0 THEN <<b>> ELSE Grown(G[k - 1])
    OBVIOUS
  <2>1. CASE k = 0
    <3>1. G[0] = First(c, 1)
      BY <1>1
    <3> QED
      BY <1>3, <2>1, <3>1
  <2>2. CASE k # 0 /\ k <= m
    <3>1. k - 1 \in 0..N /\ k - 1 < m /\ (k - 1) + 1 = k /\ k \in 1..m
      BY <1>1, <2>2
    <3>2. G[k - 1] = First(c, k)
      BY <3>1
    <3> QED
      BY <1>2, <2>2, <3>1, <3>2
  <2>3. CASE k # 0 /\ m < k
    <3>1. k - 1 \in 0..N /\ ~(k - 1 < m) /\ ~(k < m) /\ m \in 1..m
      BY <1>1, <2>3
    <3>2. G[k - 1] = First(c, m) /\ G[k] = First(c, m)
      BY <3>1
    <3>3. Grown(First(c, m)) = First(c, m)
      BY <1>2, <3>1
    <3> QED
      BY <2>3, <3>2, <3>3
  <2> QED
    BY <2>1, <2>2, <2>3
<1>5. G[N] = First(c, m) /\ DOMAIN G = 0..N
  BY <1>1
<1>6. Rule(G)
  <2>1. G = [k \in 0..N |-> G[k]]
    OBVIOUS
  <2> HIDE DEF G
  <2> QED
    BY <1>4, <2>1
<1> HIDE DEF G
<1>7. PICK f : Rule(f) /\ Path(b, among) = IF b \in among THEN f[N] ELSE <<>>
  BY <1>6, ZenonT(60) DEF Path, Grown
<1>8. \A k \in 0..N : f[k] = IF k = 0 THEN <<b>> ELSE Grown(f[k - 1])
  BY <1>7
<1> DEFINE S == {k \in Nat : k <= N => f[k] = G[k]}
<1>9. 0 \in S
  BY <1>1, <1>4, <1>8
<1>10. ASSUME NEW k \in Nat, k \in S PROVE k + 1 \in S
  <2>1. CASE k + 1 <= N
    <3>1. k + 1 \in 0..N /\ k + 1 # 0 /\ (k + 1) - 1 = k /\ k <= N
      BY <1>1, <2>1
    <3>2. f[k] = G[k]
      BY <1>10, <3>1
    <3>3. f[k + 1] = Grown(f[k]) /\ G[k + 1] = Grown(G[k])
      BY <1>4, <1>8, <3>1
    <3> QED
      BY <3>2, <3>3
  <2> QED
    BY <2>1
<1> HIDE DEF S
<1>11. N \in S
  BY <1>1, <1>9, <1>10, SetInduction
<1>12. f[N] = G[N]
  BY <1>11 DEF S
<1>13. b \in among
  <2>1. 1 \in 1..m
    OBVIOUS
  <2> QED
    BY <2>1 DEF Leads
<1> QED
  BY <1>5, <1>7, <1>12, <1>13

\* From a header outside it finds nothing.
LEMMA NoPath ==
    \A b, among : b \notin among => Path(b, among) = <<>>
BY DEF Path
-------------------------------------------------------------------------------
(* What the refinement needs to know of a call half way.                     *)

\* A call of alloc is under way.
Searching == call.at \in {"visit", "map"}

\* Alignments are powers of two that the headers' regions start at a multiple
\* of, and no capacity is 0, that of a snapshot included.
Filled ==
    /\ Open => IsPowerOfTwo(arena.alignment)
    /\ \A b \in Held : block[b].capacity # 0 /\ block[b].memory % arena.alignment = 0
    /\ \A i \in DOMAIN arena.snapshots : arena.snapshots[i].capacity # 0

\* The request in progress has passed the checks of alloc.
Asked ==
    Searching =>
        /\ call.size \in Requests /\ Cardinality(live) < LiveBound
        /\ call.need = BytesNeeded(call.size)
        /\ ~(arena.alignment < MaxAlign) /\ call.size # 0

\* c[1], ..., c[n] is the chain along next, from memory_block.
Linked(c, n) ==
    /\ arena.memory_block = c[1]
    /\ \A i, j \in 1..n : c[i] = c[j] => i = j
    /\ \A i \in 1..n : block[c[i]].next = IF i = n THEN NoBlock ELSE c[i + 1]

\* b is the j-th block appended after `last`, mapped and empty.
Appended(b, last, j) ==
    /\ block[b].capacity = Doublings(block[last].capacity)[j]
    /\ block[b].allocated = 0
    /\ Mappable(block[b].capacity, arena.alignment)
    /\ RegionOf(b).size = block[b].capacity

\* The loop has come to the i-th block, past ones without room.
Reached(c, n, m, i) ==
    /\ call.block = c[i]
    /\ \A j \in 1..(i - 1) : ~HasRoom(c[j])
    /\ m < n => i = n
    /\ IsType("SCRATCH") => i = 1
    /\ \A j \in 1..(n - m) : Appended(c[m + j], c[m], j)

\* The n-th block is the one to be mapped, and no other has room.
Mapping(c, n, m) ==
    /\ m < n /\ call.block = c[n - 1]
    /\ ~IsType("SCRATCH")
    /\ \A j \in 1..(n - 1) : ~HasRoom(c[j])
    /\ \A j \in 1..(n - m - 1) : Appended(c[m + j], c[m], j)

\* A chain of m blocks when the call began has n by now.
Growing(c, n, m) ==
    /\ Linked(c, n)
    /\ heap = {c[i] : i \in 1..n}
    /\ call.fresh = [j \in 1..(n - m) |-> c[m + j]]
    /\ IF call.at = "visit" THEN \E i \in 1..n : Reached(c, n, m, i) ELSE Mapping(c, n, m)

\* LINEAR, POOL and SCRATCH walk such a chain.
GrowthInv ==
    Searching /\ ~IsType("STACK") =>
        \E n \in Nat \ {0} : \E m \in 1..n : \E c \in [1..n -> BlockId] : Growing(c, n, m)

\* A stack looks at its top, the last block, and pushes one at most.
PushInv ==
    Searching /\ IsType("STACK") =>
        /\ call.block = arena.top /\ block[arena.top].next = NoBlock
        /\ IF call.at = "visit" THEN call.fresh = <<>>
           ELSE Len(call.fresh) = 1 /\ ~HasRoom(arena.top)

\* The last block the free loop keeps.
KeptLast == IF call.op = "reset" THEN arena.memory_block ELSE arena.top

\* It leads to none of those the loop keeps.
LoopInv ==
    call.at = "free" =>
        /\ call.fresh = <<>>
        /\ call.op # "destroy" => block[KeptLast].next \notin Visible

\* What the steps of Arena are shown from.
EffectInv == Filled /\ Asked /\ GrowthInv /\ PushInv /\ LoopInv

-------------------------------------------------------------------------------
(* What the refinement shows.                                                *)

\* The refinement shows the first m of c.
Shown(c, m) ==
    /\ Visible = {c[i] : i \in 1..m}
    /\ m > 0 => Leads(c, m, Visible) /\ VisibleArena.memory_block = c[1]

\* The sequence it shows.
LEMMA ShownChain ==
    \A n \in Nat : \A m \in 0..n : \A c \in [1..n -> BlockId] :
        Shown(c, m) => /\ ChainView = First(c, m)
                       /\ Range(ChainView) = Visible
                       /\ Len(ChainView) = m /\ DOMAIN ChainView = 1..m
                       /\ \A i \in 1..m : ChainView[i] = c[i]
                       /\ m > 0 => Head(ChainView) = c[1] /\ Last(ChainView) = c[m]
<1> SUFFICES ASSUME NEW n \in Nat, NEW m \in 0..n, NEW c \in [1..n -> BlockId], Shown(c, m)
             PROVE  /\ ChainView = First(c, m)
                    /\ Range(ChainView) = Visible
                    /\ Len(ChainView) = m /\ DOMAIN ChainView = 1..m
                    /\ \A i \in 1..m : ChainView[i] = c[i]
                    /\ m > 0 => Head(ChainView) = c[1] /\ Last(ChainView) = c[m]
  OBVIOUS
<1>1. ChainView = First(c, m)
  <2>1. CASE m = 0
    <3>1. 1..m = {}
      BY <2>1
    <3>2. Visible = {}
      BY <3>1 DEF Shown
    <3>3. ChainView = <<>>
      BY <3>2, NoPath DEF ChainView
    <3>4. First(c, m) = <<>>
      BY <3>1 DEF First
    <3> QED
      BY <3>3, <3>4
  <2>2. CASE m > 0
    <3>1. m \in 1..n /\ Leads(c, m, Visible) /\ VisibleArena.memory_block = c[1]
      BY <2>2 DEF Shown
    <3>2. \A i \in 1..m : c[i] \in BlockId
      OBVIOUS
    <3>3. Visible \in SUBSET BlockId
      BY <3>2 DEF Shown
    <3> QED
      BY <3>1, <3>3, PathFrom DEF ChainView
  <2> QED
    BY <2>1, <2>2
<1>2. DOMAIN ChainView = 1..m /\ \A i \in 1..m : ChainView[i] = c[i]
  BY <1>1 DEF First
<1>3. Range(ChainView) = Visible
  <2>1. Range(ChainView) = {ChainView[i] : i \in 1..m}
    BY <1>2 DEF Range
  <2> QED
    BY <1>2, <2>1 DEF Shown
<1>4. Len(ChainView) = m
  <2>1. \A i \in 1..m : c[i] \in BlockId
    OBVIOUS
  <2>2. ChainView \in Seq(BlockId)
    BY <1>1, <2>1 DEF First
  <2> QED
    BY <1>2, <2>2
<1>5. ASSUME m > 0 PROVE Head(ChainView) = c[1] /\ Last(ChainView) = c[m]
  <2>1. 1 \in 1..m /\ m \in 1..m
    BY <1>5
  <2>2. Head(ChainView) = ChainView[1]
    <3>1. ChainView \in Seq(BlockId) /\ ChainView # <<>>
      <4>1. ChainView \in Seq(BlockId)
        BY <1>1, <2>1, FirstAppend, m \in 1..n
      <4> QED
        BY <4>1, <1>4, <1>5
    <3> QED
      BY <3>1
  <2> QED
    BY <1>2, <1>4, <2>1, <2>2 DEF Last
<1> QED
  BY <1>1, <1>2, <1>3, <1>4, <1>5

\* The same of the next state.
LEMMA ShownChainNext ==
    \A n \in Nat : \A m \in 0..n : \A c \in [1..n -> BlockId] :
        Shown(c, m)' => /\ ChainView' = First(c, m)
                        /\ Range(ChainView)' = Visible'
                        /\ Len(ChainView)' = m /\ DOMAIN ChainView' = 1..m
                        /\ \A i \in 1..m : ChainView'[i] = c[i]
                        /\ m > 0 => Head(ChainView)' = c[1] /\ Last(ChainView)' = c[m]
<1> DEFINE Facts == \A n \in Nat : \A m \in 0..n : \A c \in [1..n -> BlockId] :
        Shown(c, m) => /\ ChainView = First(c, m)
                       /\ Range(ChainView) = Visible
                       /\ Len(ChainView) = m /\ DOMAIN ChainView = 1..m
                       /\ \A i \in 1..m : ChainView[i] = c[i]
                       /\ m > 0 => Head(ChainView) = c[1] /\ Last(ChainView) = c[m]
<1>1. Facts
  BY ShownChain
<1> HIDE DEF Facts
<1>2. Facts'
  BY <1>1, PTL
<1> QED
  BY <1>2 DEF Facts, First

\* Between calls the whole chain.
LEMMA ShownIdle ==
    ASSUME StepsInv, call = NoCall
    PROVE  /\ Visible = heap /\ VisibleArena = arena
           /\ \E n \in Nat : \E c \in [1..n -> BlockId] :
                 /\ Shown(c, n) /\ heap = {c[i] : i \in 1..n}
                 /\ \A i, j \in 1..n : c[i] = c[j] => i = j
                 /\ \A i \in 1..n : block[c[i]].next = IF i = n THEN NoBlock ELSE c[i + 1]
                 /\ Open <=> n > 0
                 /\ Open => arena.memory_block = c[1]
                 /\ Open /\ IsType("STACK") => \E i \in 1..n : arena.top = c[i]
<1>1. call.at = "idle" /\ call.fresh = <<>>
  BY DEF NoCall
<1>2. VisibleArena = arena
  BY <1>1 DEF VisibleArena
<1>3. Visible = heap
  BY <1>1 DEF Visible, Doomed, Range
<1>4. PICK n \in Nat : \E c \in [1..n -> BlockId] :
              /\ WholeChain(c, n, 0, 1)
              /\ heap = {c[i] : i \in 1..n}
              /\ \A i, j \in 1..n : c[i] = c[j] => i = j
              /\ \A i \in 1..n : block[c[i]].next = IF i = n THEN NoBlock ELSE c[i + 1]
  BY <1>1, IdleChain
<1>5. PICK c \in [1..n -> BlockId] :
              /\ WholeChain(c, n, 0, 1)
              /\ heap = {c[i] : i \in 1..n}
              /\ \A i, j \in 1..n : c[i] = c[j] => i = j
              /\ \A i \in 1..n : block[c[i]].next = IF i = n THEN NoBlock ELSE c[i + 1]
  BY <1>4
<1>6. /\ Open <=> n > 0
      /\ Open => arena.memory_block = c[1]
      /\ Open /\ IsType("STACK") => \E i \in 1..n : arena.top = c[i]
  BY <1>5 DEF WholeChain
<1>7. ASSUME n > 0 PROVE Leads(c, n, Visible)
  <2>1. n \in 1..n
    BY <1>7
  <2>2. NoBlock \notin heap
    BY <1>5, BlockAssumption
  <2>3. block[c[n]].next \notin heap
    BY <1>5, <2>1, <2>2
  <2>4. \A i \in 1..n : c[i] \in heap
    BY <1>5
  <2> QED
    BY <1>3, <1>5, <2>3, <2>4 DEF Leads
<1>8. Shown(c, n)
  BY <1>2, <1>3, <1>5, <1>6, <1>7 DEF Shown
<1> QED
  BY <1>2, <1>3, <1>5, <1>6, <1>8

\* What is shown stays so where the pointers between its blocks do.
LEMMA ShownKept ==
    ASSUME NEW n \in Nat, NEW m \in 0..n, NEW c \in [1..n -> BlockId], Shown(c, m),
           Visible' = Visible, VisibleArena'.memory_block = VisibleArena.memory_block,
           \A i \in 1..m : i # m => block'[c[i]].next = block[c[i]].next,
           m > 0 => block'[c[m]].next \notin Visible
    PROVE  Shown(c, m)'
<1>1. ASSUME m > 0 PROVE Leads(c, m, Visible)'
  BY <1>1 DEF Shown, Leads
<1> QED
  BY <1>1 DEF Shown

\* While a call looks for room it shows the chain without what it has appended.
LEMMA ShownGrowing ==
    ASSUME Searching, NEW n \in Nat \ {0}, NEW m \in 1..n, NEW c \in [1..n -> BlockId],
           Growing(c, n, m)
    PROVE  Shown(c, m) /\ VisibleArena = arena /\ Visible = heap \ {c[m + j] : j \in 1..(n - m)}
<1>1. call.at # "free" /\ VisibleArena = arena
  BY DEF Searching, VisibleArena
<1>2. /\ arena.memory_block = c[1]
      /\ \A i, j \in 1..n : c[i] = c[j] => i = j
      /\ \A i \in 1..n : block[c[i]].next = IF i = n THEN NoBlock ELSE c[i + 1]
      /\ heap = {c[i] : i \in 1..n}
      /\ call.fresh = [j \in 1..(n - m) |-> c[m + j]]
  BY DEF Growing, Linked
<1>3. Range(call.fresh) = {c[m + j] : j \in 1..(n - m)}
  <2>1. DOMAIN call.fresh = 1..(n - m) /\ \A j \in 1..(n - m) : call.fresh[j] = c[m + j]
    BY <1>2
  <2> QED
    BY <2>1 DEF Range
<1>4. Visible = heap \ {c[m + j] : j \in 1..(n - m)}
  BY <1>1, <1>3 DEF Visible, Doomed
<1>5. \A i \in 1..n : i \in 1..m \/ (i - m \in 1..(n - m) /\ i = m + (i - m))
  OBVIOUS
<1>6. \A i \in 1..m, j \in 1..(n - m) : i \in 1..n /\ m + j \in 1..n /\ i # m + j
  OBVIOUS
<1>7. Visible = {c[i] : i \in 1..m}
  <2>1. ASSUME NEW b \in Visible PROVE b \in {c[i] : i \in 1..m}
    <3>1. PICK i \in 1..n : b = c[i]
      BY <1>2, <1>4, <2>1
    <3> QED
      BY <1>4, <1>5, <2>1, <3>1
  <2>2. ASSUME NEW i \in 1..m PROVE c[i] \in Visible
    <3>1. \A j \in 1..(n - m) : c[i] # c[m + j]
      BY <1>2, <1>6
    <3>2. c[i] \in heap
      BY <1>2, <1>6
    <3> QED
      BY <1>4, <3>1, <3>2
  <2> QED
    BY <2>1, <2>2
<1>8. block[c[m]].next \notin Visible
  <2>1. CASE m = n
    <3>1. block[c[m]].next = NoBlock /\ \A i \in 1..m : c[i] \in BlockId
      BY <1>2, <2>1
    <3> QED
      BY <1>7, <3>1, BlockAssumption
  <2>2. CASE m < n
    <3>1. block[c[m]].next = c[m + 1] /\ 1 \in 1..(n - m)
      BY <1>2, <2>2
    <3> QED
      BY <1>4, <3>1
  <2> QED
    BY <2>1, <2>2
<1>9. Leads(c, m, Visible)
  <2>1. \A i \in 1..m : i # m => block[c[i]].next = c[i + 1]
    BY <1>2
  <2> QED
    BY <1>2, <1>6, <1>7, <1>8, <2>1 DEF Leads
<1> QED
  BY <1>1, <1>2, <1>4, <1>7, <1>9 DEF Shown

\* A stack that is about to push shows the chain without the new block.
LEMMA ShownStack ==
    ASSUME StepsInv, PushInv, Searching, IsType("STACK")
    PROVE  /\ VisibleArena = arena
           /\ \E n \in Nat \ {0} : \E c \in [1..n -> BlockId] :
                 /\ Shown(c, n) /\ arena.top = c[n]
                 /\ heap = Visible \cup Pending
                 /\ \A b \in Pending : b \notin Visible /\ call.fresh = <<b>>
<1>1. call.at # "free" /\ VisibleArena = arena /\ Open
  BY DEF Searching, VisibleArena, StepsInv, CallInv
<1>2. call.fresh \in Seq(BlockId) /\ call.block = arena.top /\ block[arena.top].next = NoBlock
  BY DEF StepsInv, TypeInv, Locals, PushInv
<1>3. Range(call.fresh) = Pending /\ \A b \in Pending : call.fresh = <<b>>
  <2>1. CASE call.at = "visit"
    BY <2>1 DEF PushInv, Pending, Range, Searching
  <2>2. CASE call.at = "map"
    <3>1. Len(call.fresh) = 1
      BY <2>2 DEF PushInv, Searching
    <3>2. call.fresh = <<Last(call.fresh)>>
      BY <1>2, <3>1 DEF Last
    <3>3. Range(call.fresh) = {Last(call.fresh)}
      <4>1. PICK b : call.fresh = <<b>> /\ b = Last(call.fresh)
        BY <3>2
      <4>2. DOMAIN <<b>> = {1} /\ <<b>>[1] = b
        OBVIOUS
      <4> QED
        BY <4>1, <4>2 DEF Range
    <3> QED
      BY <2>2, <3>2, <3>3 DEF Pending
  <2> QED
    BY <2>1, <2>2 DEF Searching
<1>4. Visible = heap \ Pending
  BY <1>1, <1>3 DEF Visible, Doomed
<1>5. \E n \in Nat \ {0} : \E c \in [1..n -> BlockId] :
         /\ Visible = {c[i] : i \in 1..n} /\ heap = Visible \cup Pending
         /\ \A i, j \in 1..n : c[i] = c[j] => i = j
         /\ \A i \in 1..n : block[c[i]].next = IF i = n THEN NoBlock ELSE c[i + 1]
         /\ arena.memory_block = c[1] /\ arena.top = c[n]
  <2>1. CASE call.at = "visit"
    <3>1. PICK n \in Nat \ {0} : \E c \in [1..n -> BlockId] :
              /\ WholeChain(c, n, 0, 1)
              /\ heap = {c[i] : i \in 1..n}
              /\ \A i, j \in 1..n : c[i] = c[j] => i = j
              /\ \A i \in 1..n : block[c[i]].next = IF i = n THEN NoBlock ELSE c[i + 1]
              /\ call.block = c[n]
      BY <1>2, <2>1, AtLastBlock
    <3>2. PICK c \in [1..n -> BlockId] :
              /\ WholeChain(c, n, 0, 1)
              /\ heap = {c[i] : i \in 1..n}
              /\ \A i, j \in 1..n : c[i] = c[j] => i = j
              /\ \A i \in 1..n : block[c[i]].next = IF i = n THEN NoBlock ELSE c[i + 1]
              /\ call.block = c[n]
      BY <3>1
    <3>3. Pending = {} /\ arena.memory_block = c[1]
      BY <1>1, <2>1, <3>2 DEF Pending, WholeChain
    <3> QED
      BY <1>2, <1>4, <3>2, <3>3
  <2>2. CASE call.at = "map"
    <3>1. PICK n \in Nat \ {0} : \E c \in [1..n -> BlockId] :
              /\ WholeChain(c, n, 0, 1) /\ Open /\ arena.memory_block = c[1]
              /\ heap = {c[i] : i \in 1..n} \cup (IF IsType("STACK") THEN Pending ELSE {})
              /\ \A i, j \in 1..n : c[i] = c[j] => i = j
              /\ \A i \in 1..n : block[c[i]].next = IF i = n THEN NoBlock ELSE c[i + 1]
      BY <2>2, PendingChain
    <3>2. PICK c \in [1..n -> BlockId] :
              /\ WholeChain(c, n, 0, 1) /\ Open /\ arena.memory_block = c[1]
              /\ heap = {c[i] : i \in 1..n} \cup Pending
              /\ \A i, j \in 1..n : c[i] = c[j] => i = j
              /\ \A i \in 1..n : block[c[i]].next = IF i = n THEN NoBlock ELSE c[i + 1]
      BY <3>1
    <3>3. Pending = {Last(call.fresh)} /\ call.block = c[n] /\ \A i \in 1..n : Last(call.fresh) # c[i]
      BY <2>2, <3>2 DEF Pending, WholeChain
    <3>4. Visible = {c[i] : i \in 1..n}
      BY <1>4, <3>2, <3>3
    <3> QED
      BY <1>2, <3>2, <3>3, <3>4
  <2> QED
    BY <2>1, <2>2 DEF Searching
<1>6. PICK n \in Nat \ {0} : \E c \in [1..n -> BlockId] :
         /\ Visible = {c[i] : i \in 1..n} /\ heap = Visible \cup Pending
         /\ \A i, j \in 1..n : c[i] = c[j] => i = j
         /\ \A i \in 1..n : block[c[i]].next = IF i = n THEN NoBlock ELSE c[i + 1]
         /\ arena.memory_block = c[1] /\ arena.top = c[n]
  BY <1>5
<1>7. PICK c \in [1..n -> BlockId] :
         /\ Visible = {c[i] : i \in 1..n} /\ heap = Visible \cup Pending
         /\ \A i, j \in 1..n : c[i] = c[j] => i = j
         /\ \A i \in 1..n : block[c[i]].next = IF i = n THEN NoBlock ELSE c[i + 1]
         /\ arena.memory_block = c[1] /\ arena.top = c[n]
  BY <1>6
<1>8. Leads(c, n, Visible)
  <2>1. n \in 1..n /\ \A i \in 1..n : c[i] \in BlockId
    OBVIOUS
  <2>2. block[c[n]].next = NoBlock /\ NoBlock \notin Visible
    BY <1>7, <2>1, BlockAssumption
  <2>3. \A i \in 1..n : c[i] \in Visible
    BY <1>7
  <2> QED
    BY <1>7, <2>2, <2>3 DEF Leads
<1>9. Shown(c, n)
  BY <1>1, <1>7, <1>8 DEF Shown
<1> QED
  BY <1>1, <1>3, <1>4, <1>7, <1>9

\* The free loop is at the f-th of n blocks and keeps k.
LoopAt(c, n, k, f) ==
    /\ call.at = "free" /\ call.fresh = <<>>
    /\ call.block = IF f = n + 1 THEN NoBlock ELSE c[f]
    /\ f \in (k + 1)..(n + 1)
    /\ \A i, j \in 1..n : c[i] = c[j] => i = j
    /\ \A i \in f..n : block[c[i]].next = IF i = n THEN NoBlock ELSE c[i + 1]
    /\ heap = {c[i] : i \in (1..k) \cup (f..n)}

\* It shows what it keeps.
LEMMA LoopShows ==
    \A n, k, f \in Nat : \A c \in [1..n -> BlockId] :
        LoopAt(c, n, k, f) => Visible = {c[i] : i \in 1..k}
<1> SUFFICES ASSUME NEW n \in Nat, NEW k \in Nat, NEW f \in Nat, NEW c \in [1..n -> BlockId],
                    LoopAt(c, n, k, f)
             PROVE  Visible = {c[i] : i \in 1..k}
  OBVIOUS
<1>1. /\ f \in (k + 1)..(n + 1)
      /\ \A i, j \in 1..n : c[i] = c[j] => i = j
      /\ \A i \in f..n : block[c[i]].next = IF i = n THEN NoBlock ELSE c[i + 1]
      /\ heap = {c[i] : i \in (1..k) \cup (f..n)}
  BY DEF LoopAt
<1>2. \A i \in (1..k) \cup (f..n) : i \in 1..n /\ c[i] \in BlockId
  BY <1>1
<1>3. heap \in SUBSET BlockId
  BY <1>1, <1>2
<1>4. Doomed = {c[i] : i \in f..n}
  <2>1. Doomed = Range(Path(call.block, heap))
    BY DEF Doomed, LoopAt
  <2>2. CASE f = n + 1
    <3>1. call.block \notin heap
      BY <1>3, <2>2, BlockAssumption DEF LoopAt
    <3>2. Path(call.block, heap) = <<>>
      BY <3>1, NoPath
    <3>3. f..n = {}
      BY <2>2
    <3>4. Range(<<>>) = {}
      BY DEF Range
    <3> QED
      BY <2>1, <3>2, <3>3, <3>4
  <2>3. CASE f \in 1..n
    <3> DEFINE left == n - f + 1
               d == [i \in 1..left |-> c[f - 1 + i]]
    <3>1. /\ left \in Nat /\ left \in 1..left /\ 1 \in 1..left
          /\ \A i \in 1..left : f - 1 + i \in f..n /\ f - 1 + i \in 1..n /\ f - 1 + i \in Nat
          /\ \A i \in f..n : i - f + 1 \in 1..left /\ i = f - 1 + (i - f + 1)
      BY <2>3
    <3>2. d \in [1..left -> BlockId] /\ \A i \in 1..left : d[i] = c[f - 1 + i]
      BY <3>1
    <3>3. \A i \in 1..left : f - 1 + i = n <=> i = left
      BY <2>3
    <3> HIDE DEF left, d
    <3>4. \A i, j \in 1..left : d[i] = d[j] => i = j
      <4> SUFFICES ASSUME NEW i \in 1..left, NEW j \in 1..left, d[i] = d[j]
                   PROVE  i = j
        OBVIOUS
      <4>1. c[f - 1 + i] = c[f - 1 + j]
        BY <3>2
      <4>2. f - 1 + i = f - 1 + j
        BY <1>1, <3>1, <4>1
      <4> QED
        BY <3>1, <4>2
    <3>5. \A i \in 1..left : d[i] \in heap
      BY <1>1, <3>1, <3>2
    <3>6. \A i \in 1..left : i # left => block[d[i]].next = d[i + 1]
      <4> SUFFICES ASSUME NEW i \in 1..left, i # left
                   PROVE  block[d[i]].next = d[i + 1]
        OBVIOUS
      <4>1. i + 1 \in 1..left /\ f - 1 + (i + 1) = (f - 1 + i) + 1
        BY <3>1
      <4>2. block[c[f - 1 + i]].next = c[(f - 1 + i) + 1]
        BY <1>1, <3>1, <3>3
      <4> QED
        BY <3>2, <4>1, <4>2
    <3>7. block[d[left]].next \notin heap
      <4>1. block[c[f - 1 + left]].next = NoBlock
        BY <1>1, <3>1, <3>3
      <4> QED
        BY <1>3, <3>1, <3>2, <4>1, BlockAssumption
    <3>8. Leads(d, left, heap)
      BY <3>4, <3>5, <3>6, <3>7 DEF Leads
    <3>9. Path(d[1], heap) = First(d, left)
      BY <1>3, <3>1, <3>2, <3>8, PathFrom
    <3>10. d[1] = call.block
      <4>1. f - 1 + 1 = f /\ f # n + 1
        BY <2>3
      <4>2. d[1] = c[f]
        BY <3>1, <3>2, <4>1
      <4> QED
        BY <4>1, <4>2 DEF LoopAt
    <3>11. Range(First(d, left)) = {d[i] : i \in 1..left}
      BY DEF Range, First
    <3>12. {d[i] : i \in 1..left} = {c[i] : i \in f..n}
      <4>1. \A i \in 1..left : d[i] \in {c[j] : j \in f..n}
        BY <3>1, <3>2
      <4>2. \A i \in f..n : c[i] = d[i - f + 1] /\ i - f + 1 \in 1..left
        BY <3>1, <3>2
      <4> QED
        BY <4>1, <4>2
    <3> QED
      BY <2>1, <3>9, <3>10, <3>11, <3>12
  <2> QED
    BY <1>1, <2>2, <2>3
<1>5. Visible = heap \ {c[i] : i \in f..n}
  BY <1>4 DEF Visible, LoopAt, Range
<1>6. \A i \in 1..k, j \in f..n : c[i] # c[j]
  <2>1. \A i \in 1..k, j \in f..n : i # j
    BY <1>1
  <2> QED
    BY <1>1, <1>2, <2>1
<1> QED
  BY <1>1, <1>5, <1>6

\* The same of the next state.
LEMMA LoopShowsNext ==
    \A n, k, f \in Nat : \A c \in [1..n -> BlockId] :
        LoopAt(c, n, k, f)' => Visible' = {c[i] : i \in 1..k}
<1> DEFINE Facts == \A n, k, f \in Nat : \A c \in [1..n -> BlockId] :
        LoopAt(c, n, k, f) => Visible = {c[i] : i \in 1..k}
<1>1. Facts
  BY LoopShows
<1> HIDE DEF Facts
<1>2. Facts'
  BY <1>1, PTL
<1> QED
  BY <1>2 DEF Facts

\* What the free loop is at, and what it shows.
LEMMA ShownLoop ==
    ASSUME StepsInv, LoopInv, call.at = "free"
    PROVE  \E n, k, f \in Nat : \E c \in [1..n -> BlockId] :
              /\ LoopAt(c, n, k, f) /\ FreedUpTo(c, n, k, f)
              /\ \A i \in 1..n : i < k => block[c[i]].next = c[i + 1]
              /\ k <= n /\ Shown(c, k)
              /\ k > 0 => KeptLast = c[k]
<1>1. PICK n \in Nat, k \in Nat, f \in Nat : \E c \in [1..n -> BlockId] :
              /\ f \in (k + 1)..(n + 1)
              /\ \A i, j \in 1..n : c[i] = c[j] => i = j
              /\ \A i \in 1..n : i < k \/ f <= i => block[c[i]].next = IF i = n THEN NoBlock ELSE c[i + 1]
              /\ heap = {c[i] : i \in (1..k) \cup (f..n)}
              /\ FreedUpTo(c, n, k, f)
  BY LoopChain
<1>2. PICK c \in [1..n -> BlockId] :
              /\ f \in (k + 1)..(n + 1)
              /\ \A i, j \in 1..n : c[i] = c[j] => i = j
              /\ \A i \in 1..n : i < k \/ f <= i => block[c[i]].next = IF i = n THEN NoBlock ELSE c[i + 1]
              /\ heap = {c[i] : i \in (1..k) \cup (f..n)}
              /\ FreedUpTo(c, n, k, f)
  BY <1>1
<1>3. \A i \in f..n : i \in 1..n /\ f <= i
  BY <1>2
<1>4. LoopAt(c, n, k, f)
  BY <1>2, <1>3 DEF LoopAt, LoopInv, FreedUpTo
<1>5. Visible = {c[i] : i \in 1..k}
  BY <1>4, LoopShows
<1>6. k <= n /\ \A i \in 1..n : i < k => i # n /\ block[c[i]].next = c[i + 1]
  BY <1>2
<1>7. ASSUME k > 0
      PROVE  KeptLast = c[k] /\ Leads(c, k, Visible) /\ VisibleArena.memory_block = c[1]
  <2>1. call.op \in {"reset", "unwind"} /\ arena.memory_block = c[1]
    BY <1>2, <1>7 DEF FreedUpTo, StepsInv, CallInv
  <2>2. KeptLast = c[k]
    BY <1>2, <2>1 DEF KeptLast, FreedUpTo
  <2>3. VisibleArena.memory_block = arena.memory_block
    <3>1. TypeInv
      BY DEF StepsInv
    <3>2. ArenaAfterFree.memory_block = arena.memory_block
      BY <2>1, <3>1 DEF ArenaAfterFree, TypeInv, Handle
    <3> QED
      BY <3>2 DEF VisibleArena
  <2>4. block[c[k]].next \notin Visible
    BY <2>1, <2>2 DEF LoopInv
  <2>5. \A i, j \in 1..k : i \in 1..n /\ (i # k => i < k)
    BY <1>6
  <2>6. Leads(c, k, Visible)
    BY <1>2, <1>5, <1>6, <2>4, <2>5 DEF Leads
  <2> QED
    BY <2>1, <2>2, <2>3, <2>6
<1>8. Shown(c, k)
  BY <1>5, <1>7 DEF Shown
<1>9. /\ LoopAt(c, n, k, f) /\ FreedUpTo(c, n, k, f)
      /\ \A i \in 1..n : i < k => block[c[i]].next = c[i + 1]
      /\ k <= n /\ Shown(c, k)
      /\ k > 0 => KeptLast = c[k]
  BY <1>2, <1>4, <1>6, <1>7, <1>8
<1> QED
  BY <1>9

-------------------------------------------------------------------------------
(* Room in a block, by addresses and by offsets.                             *)

\* The alignment of an open arena divides the words.
LEMMA OpenAligned ==
    ASSUME StepsInv, Filled, Open
    PROVE  /\ arena.alignment \in 1..AlignLimit /\ arena.alignment \in Word \ {0}
           /\ WordMod % arena.alignment = 0 /\ IsPowerOfTwo(arena.alignment)
<1>1. arena.alignment \in 0..AlignLimit /\ arena.alignment # 0
  BY DEF StepsInv, TypeInv, Handle
<1>2. arena.alignment \in 1..AlignLimit
  BY <1>1, Constants
<1>3. IsPowerOfTwo(arena.alignment)
  BY DEF Filled
<1> QED
  BY <1>2, <1>3, AlignmentDivides

\* The loops compute with addresses what Arena computes with offsets.
LEMMA RoomOf ==
    ASSUME StepsInv, Filled, Open, NEW b \in Held
    PROVE  /\ BytesTaken(b) = AddW(call.need, Padding(block[b].allocated, arena.alignment))
           /\ SubW(AlignedAddress(b), block[b].memory) = AlignUp(block[b].allocated, arena.alignment)
<1> DEFINE a == arena.alignment
           memory == block[b].memory
           x == block[b].allocated
           p == Padding(x, a)
<1>1. a \in Word \ {0} /\ WordMod % a = 0
  BY OpenAligned
<1>2. memory \in Word /\ x \in Word /\ memory % a = 0
  <2>1. b \in BlockId /\ block[b] \in Header
    BY DEF StepsInv, TypeInv, Held
  <2> QED
    BY <2>1 DEF Header, Filled
<1>3. CurrentAddress(b) = AddW(memory, x) /\ AddW(memory, x) \in Word
  BY <1>2, WordSums DEF CurrentAddress
<1>4. Padding(AddW(memory, x), a) = p /\ p \in Word
  BY <1>1, <1>2, ShiftedPadding, PaddingBound
<1>5. AlignedAddress(b) = AddW(AddW(memory, x), p)
  BY <1>3, <1>4 DEF AlignedAddress, AlignUp
<1>6. AlignUp(x, a) = AddW(x, p)
  BY DEF AlignUp
<1> HIDE DEF a, memory, x, p
<1>7. SubW(AddW(AddW(memory, x), p), AddW(memory, x)) = p
  BY <1>3, <1>4, SumsCancel
<1>8. SubW(AddW(AddW(memory, x), p), memory) = AddW(x, p)
  BY <1>2, <1>4, SumsCancel
<1>9. BytesTaken(b) = AddW(call.need, p)
  BY <1>3, <1>5, <1>7 DEF BytesTaken
<1>10. SubW(AlignedAddress(b), memory) = AlignUp(x, a)
  BY <1>5, <1>6, <1>8
<1> QED
  BY <1>9, <1>10 DEF a, memory, x, p

\* An empty block takes a request that is no larger than it, at its start.
LEMMA EmptyRoom ==
    ASSUME StepsInv, Filled, Open, NEW b \in Held, block[b].allocated = 0
    PROVE  /\ HasRoom(b) <=> call.need <= block[b].capacity
           /\ BytesTaken(b) = call.need
           /\ SubW(AlignedAddress(b), block[b].memory) = 0
           /\ AddW(0, call.need) = call.need
<1>1. arena.alignment \in Word \ {0} /\ arena.alignment \in Nat \ {0} /\ 0 \in Word
  BY OpenAligned, Constants
<1>2. 0 % arena.alignment = 0
  BY <1>1
<1>3. Padding(0, arena.alignment) = 0 /\ AlignUp(0, arena.alignment) = 0
  BY <1>1, <1>2, AlignedPadding
<1>4. call.need \in Word /\ call.need \in Nat /\ call.need < WordMod /\ WordMod \in Nat
  BY Constants DEF StepsInv, TypeInv, Locals
<1>5. block[b].capacity \in Nat
  <2>1. b \in BlockId /\ block[b] \in Header
    BY DEF StepsInv, TypeInv, Held
  <2>2. block[b].capacity \in 0..MmapLimit
    BY <2>1 DEF Header
  <2> QED
    BY <2>2, Constants
<1>6. AddW(call.need, 0) = call.need /\ AddW(0, call.need) = call.need
  BY <1>4 DEF AddW
<1>7. SubW(block[b].capacity, 0) = block[b].capacity
  BY <1>5 DEF SubW
<1>8. BytesTaken(b) = call.need /\ SubW(AlignedAddress(b), block[b].memory) = 0
  BY <1>3, <1>6, RoomOf
<1> QED
  BY <1>6, <1>7, <1>8 DEF HasRoom

\* A step that leaves a block's numbers leaves its room.
LEMMA RoomKept ==
    ASSUME NEW b, block'[b].memory = block[b].memory, block'[b].capacity = block[b].capacity,
           block'[b].allocated = block[b].allocated,
           arena'.alignment = arena.alignment, call'.need = call.need
    PROVE  HasRoom(b)' <=> HasRoom(b)
BY DEF HasRoom, BytesTaken, AlignedAddress, CurrentAddress

\* A region stays a block's as long as both are there.
LEMMA RegionKept ==
    ASSUME StepsInv, StepsInv', NEW b \in Held, b \in Held', block'[b].memory = block[b].memory,
           regions \subseteq regions' \/ regions' \subseteq regions
    PROVE  RegionOf(b)' = RegionOf(b)
<1>1. Paired /\ Paired'
  BY DEF StepsInv
<1>2. RegionOf(b) \in regions /\ RegionOf(b).ptr = block[b].memory
  BY <1>1, OwnRegion
<1>3. RegionOf(b)' \in regions' /\ RegionOf(b)'.ptr = block'[b].memory
  <2>1. \E r \in regions' : r.ptr = block'[b].memory
    BY <1>1 DEF Paired
  <2> QED
    BY <2>1 DEF RegionOf
<1>4. \A r, s \in regions : r.ptr = s.ptr => r = s
  BY <1>1 DEF Paired
<1>5. \A r, s \in regions' : r.ptr = s.ptr => r = s
  BY <1>1 DEF Paired
<1> QED
  BY <1>2, <1>3, <1>4, <1>5

\* So is an appended block.
LEMMA AppendedKept ==
    ASSUME StepsInv, StepsInv', NEW b \in Held, b \in Held',
           regions \subseteq regions' \/ regions' \subseteq regions,
           block'[b].memory = block[b].memory, block'[b].capacity = block[b].capacity,
           block'[b].allocated = block[b].allocated,
           NEW last, block'[last].capacity = block[last].capacity,
           arena'.alignment = arena.alignment,
           NEW j, Appended(b, last, j)
    PROVE  Appended(b, last, j)'
<1>1. RegionOf(b)' = RegionOf(b)
  BY RegionKept
<1> QED
  BY <1>1 DEF Appended

-------------------------------------------------------------------------------
(* The invariant of the refinement, step by step.                            *)

\* Where a step changes neither the structures nor the call.
LEMMA QuietEffect ==
    ASSUME EffectInv, UNCHANGED <<kernel, arena, heap, block, call, live>>
    PROVE  EffectInv'
<1>1. Held' = Held /\ (Open' <=> Open) /\ (Searching' <=> Searching) /\ \A t : IsType(t)' <=> IsType(t)
  BY DEF Held, Pending, Open, Searching, IsType
<1>2. \A b : HasRoom(b)' <=> HasRoom(b)
  BY DEF HasRoom, BytesTaken, AlignedAddress, CurrentAddress
<1>3. \A b : RegionOf(b)' = RegionOf(b)
  BY DEF RegionOf, kernel
<1>4. Visible' = Visible
  <2>1. Doomed' = Doomed
    BY DEF Doomed, Path
  <2> QED
    BY <2>1 DEF Visible
<1>5. \A c, n, m : Growing(c, n, m)' <=> Growing(c, n, m)
  <2>1. \A b, d, j : Appended(b, d, j)' <=> Appended(b, d, j)
    BY <1>3 DEF Appended
  <2>2. \A c, n, m, i : Reached(c, n, m, i)' <=> Reached(c, n, m, i)
    BY <1>1, <1>2, <2>1 DEF Reached
  <2>3. \A c, n, m : Mapping(c, n, m)' <=> Mapping(c, n, m)
    BY <1>1, <1>2, <2>1 DEF Mapping
  <2>4. \A c, n : Linked(c, n)' <=> Linked(c, n)
    BY DEF Linked
  <2> QED
    BY <2>2, <2>3, <2>4 DEF Growing
<1>6. Filled'
  BY <1>1 DEF EffectInv, Filled
<1>7. Asked'
  BY <1>1 DEF EffectInv, Asked, BytesNeeded, IsType
<1>8. GrowthInv'
  BY <1>1, <1>5 DEF EffectInv, GrowthInv
<1>9. PushInv'
  BY <1>1, <1>2 DEF EffectInv, PushInv
<1>10. LoopInv'
  BY <1>4 DEF EffectInv, LoopInv, KeptLast
<1> QED
  BY <1>6, <1>7, <1>8, <1>9, <1>10 DEF EffectInv

\* An abort.
LEMMA CrashEffect ==
    ASSUME EffectInv, NEW code, Crash(code)
    PROVE  EffectInv'
BY QuietEffect DEF Crash, Memory!Crash, kernel

\* After a call only the structures matter.
LEMMA IdleEffect ==
    ASSUME Filled', call'.at = "idle"
    PROVE  EffectInv'
BY DEF EffectInv, Asked, GrowthInv, PushInv, LoopInv, Searching

\* Headers that are filled stay so.
LEMMA FilledKept ==
    ASSUME Filled, Open' => Open, arena'.alignment = arena.alignment,
           \A i \in DOMAIN arena'.snapshots : arena'.snapshots[i].capacity # 0,
           Held' \subseteq Held,
           \A b \in Held' : block'[b].memory = block[b].memory /\ block'[b].capacity # 0
    PROVE  Filled'
BY DEF Filled

\* A region that safe_aligned_alloc has mapped.
LEMMA AllocMapped ==
    ASSUME NEW size, NEW a, Memory!SafeAlignedAlloc(size, a), state' = "running"
    PROVE  Mappable(size, a) /\ size # 0
<1>1. \A n, b : Memory!TotalSize(n, b) = TotalSize(n, b)
  BY SameWords DEF TotalSize, Memory!TotalSize
<1>2. Memory!Mappable(size, a) <=> Mappable(size, a)
  BY <1>1, SameWords DEF Mappable, Memory!Mappable
<1>3. Memory!AllocError(size, a) # "running"
  BY DEF Memory!AllocError
<1>4. Memory!AllocError(size, a) = "none"
  BY <1>3 DEF Memory!SafeAlignedAlloc, Memory!Crash
<1> QED
  BY <1>2, <1>4 DEF Memory!AllocError

\* Creating an arena.
LEMMA CreateEffect ==
    ASSUME StepsInv, EffectInv, NEW type \in Types, NEW a \in Alignments, NEW size \in InitialSizes,
           Create(type, a, size)
    PROVE  EffectInv'
<1>1. ASSUME NEW code, Crash(code) PROVE EffectInv'
  BY <1>1, CrashEffect
<1>2. CASE /\ Memory!SafeAlignedAlloc(AlignUp(size, a), a)
           /\ state' # "running" /\ UNCHANGED <<arena, heap, block, call, live>>
  BY <1>2, AllocCrash, QuietEffect
<1>3. CASE /\ ArgumentError(type, a, size) = "none"
           /\ Memory!SafeAlignedAlloc(AlignUp(size, a), a)
           /\ state' = "running" /\ UNCHANGED <<call, live>>
           /\ \E head \in BlockId :
                /\ heap' = {head}
                /\ block' = [block EXCEPT ![head] =
                      [Blank EXCEPT !.memory = NewPointer, !.capacity = AlignUp(size, a)]]
                /\ arena' = [NoArena EXCEPT
                      !.allocator_type = type, !.alignment = a, !.memory_block = head,
                      !.pool_size = IF type = "POOL" THEN size ELSE 0,
                      !.top = IF type = "STACK" THEN head ELSE NoBlock,
                      !.max_size = IF type = "STACK" THEN InitialSlots ELSE 0]
  <2>1. PICK head \in BlockId :
                /\ heap' = {head}
                /\ block' = [block EXCEPT ![head] =
                      [Blank EXCEPT !.memory = NewPointer, !.capacity = AlignUp(size, a)]]
                /\ arena' = [NoArena EXCEPT
                      !.allocator_type = type, !.alignment = a, !.memory_block = head,
                      !.pool_size = IF type = "POOL" THEN size ELSE 0,
                      !.top = IF type = "STACK" THEN head ELSE NoBlock,
                      !.max_size = IF type = "STACK" THEN InitialSlots ELSE 0]
    BY <1>3
  <2>2. PICK p \in Nat : NewPointer = p /\ p % a = 0
    BY <1>3, CreateResult DEF Create
  <2>3. AlignUp(size, a) # 0 /\ IsPowerOfTwo(a)
    BY <1>3, AllocMapped DEF ArgumentError
  <2>4. block'[head] = [memory |-> p, next |-> NoBlock, capacity |-> AlignUp(size, a), allocated |-> 0]
    <3>1. block \in [BlockId -> Header]
      BY DEF StepsInv, TypeInv
    <3>2. block'[head] = [Blank EXCEPT !.memory = p, !.capacity = AlignUp(size, a)]
      BY <2>1, <2>2, <3>1
    <3> QED
      BY <3>2, FilledHeader
  <2>5. arena'.alignment = a /\ arena'.snapshots = <<>>
    BY <2>1 DEF NoArena
  <2>6. Held' \subseteq {head}
    BY <2>1 DEF Held
  <2>7. block'[head].memory % a = 0 /\ block'[head].capacity # 0
    BY <2>2, <2>3, <2>4
  <2>8. \A i \in DOMAIN arena'.snapshots : arena'.snapshots[i].capacity # 0
    BY <2>5
  <2>9. Filled'
    BY <2>3, <2>5, <2>6, <2>7, <2>8 DEF Filled
  <2>10. call'.at = "idle"
    BY <1>3 DEF Create, Idle, NoCall
  <2> QED
    BY <2>9, <2>10, IdleEffect
<1> QED
  BY <1>1, <1>2, <1>3 DEF Create

\* Starting to look for room.
LEMMA AllocCallEffect ==
    ASSUME StepsInv, EffectInv, NEW size \in Requests, MayRequest, AllocCall(size)
    PROVE  EffectInv'
<1>1. ASSUME NEW code, Crash(code) PROVE EffectInv'
  BY <1>1, CrashEffect
<1>2. CASE /\ AllocError(size) = "none"
           /\ call' = [NoCall EXCEPT
                 !.at = "visit", !.op = "alloc", !.size = size, !.need = BytesNeeded(size),
                 !.block = IF IsType("STACK") THEN arena.top ELSE arena.memory_block]
           /\ UNCHANGED <<state, kernel, arena, heap, block, live>>
  <2>1. /\ call'.at = "visit" /\ call'.size = size /\ call'.need = BytesNeeded(size)
        /\ call'.block = IF IsType("STACK") THEN arena.top ELSE arena.memory_block
        /\ call'.fresh = <<>> /\ call = NoCall /\ call.at = "idle"
    BY <1>2 DEF NoCall, AllocCall, Idle
  <2>2. /\ Open /\ ~(arena.alignment < MaxAlign) /\ size # 0
        /\ IsType("STACK") => block[arena.top].next = NoBlock
    BY <1>2 DEF AllocError
  <2>3. Held' = Held /\ (Open' <=> Open) /\ \A t : IsType(t)' <=> IsType(t)
    BY <1>2, <2>1 DEF Held, Pending, Open, IsType
  <2>4. Filled'
    BY <1>2, <2>3 DEF EffectInv, Filled
  <2>5. Asked'
    <3>1. BytesNeeded(size)' = BytesNeeded(size)
      BY <1>2 DEF BytesNeeded, IsType
    <3> QED
      BY <1>2, <2>1, <2>2, <3>1 DEF Asked, MayRequest
  <2>6. PushInv'
    BY <1>2, <2>1, <2>2, <2>3 DEF PushInv
  <2>7. LoopInv'
    BY <2>1 DEF LoopInv
  <2>8. ASSUME ~IsType("STACK")
        PROVE  \E n \in Nat \ {0} : \E m \in 1..n : \E c \in [1..n -> BlockId] : Growing(c, n, m)'
    <3>1. PICK n \in Nat : \E c \in [1..n -> BlockId] :
              /\ WholeChain(c, n, 0, 1)
              /\ heap = {c[i] : i \in 1..n}
              /\ \A i, j \in 1..n : c[i] = c[j] => i = j
              /\ \A i \in 1..n : block[c[i]].next = IF i = n THEN NoBlock ELSE c[i + 1]
      BY <2>1, IdleChain
    <3>2. PICK c \in [1..n -> BlockId] :
              /\ WholeChain(c, n, 0, 1)
              /\ heap = {c[i] : i \in 1..n}
              /\ \A i, j \in 1..n : c[i] = c[j] => i = j
              /\ \A i \in 1..n : block[c[i]].next = IF i = n THEN NoBlock ELSE c[i + 1]
      BY <3>1
    <3>3. n \in Nat \ {0} /\ n \in 1..n /\ 1 \in 1..n /\ arena.memory_block = c[1]
      BY <2>2, <3>2 DEF WholeChain
    <3>4. Linked(c, n)'
      BY <1>2, <3>2, <3>3 DEF Linked
    <3>5. 1..(1 - 1) = {} /\ 1..(n - n) = {} /\ ~(n < n)
      OBVIOUS
    <3>6. call'.block = c[1]
      BY <2>1, <2>8, <3>3
    <3>7. Reached(c, n, n, 1)'
      BY <3>5, <3>6 DEF Reached
    <3>8. call'.fresh = [j \in 1..(n - n) |-> c[n + j]]
      BY <2>1, <3>5
    <3>9. Growing(c, n, n)'
      BY <1>2, <2>1, <3>2, <3>3, <3>4, <3>7, <3>8 DEF Growing
    <3> QED
      BY <3>3, <3>9
  <2>9. GrowthInv'
    BY <2>3, <2>8 DEF GrowthInv
  <2> QED
    BY <2>4, <2>5, <2>6, <2>7, <2>9 DEF EffectInv
<1> QED
  BY <1>1, <1>2 DEF AllocCall

\* Handing out memory or refusing to.
LEMMA ReturnEffect ==
    ASSUME StepsInv, EffectInv, Take \/ RefuseScratch
    PROVE  EffectInv'
<1>1. call.at = "visit" /\ call' = NoCall /\ UNCHANGED <<arena, heap>> /\ call'.at = "idle"
  BY DEF Take, RefuseScratch, At, NoCall
<1>2. Held' = Held
  BY <1>1 DEF Held, Pending, NoCall
<1>3. \A b \in Held : block'[b].memory = block[b].memory /\ block'[b].capacity = block[b].capacity
  <2>1. block \in [BlockId -> Header] /\ Held \subseteq BlockId
    BY DEF StepsInv, TypeInv, Held
  <2>2. CASE RefuseScratch
    BY <2>2 DEF RefuseScratch
  <2>3. CASE Take
    <3>1. block' = [block EXCEPT ![call.block].allocated = AddW(@, BytesTaken(call.block))]
      BY <2>3 DEF Take
    <3> QED
      BY <2>1, <3>1 DEF Header
  <2> QED
    BY <2>2, <2>3
<1>4. Filled'
  BY <1>1, <1>2, <1>3 DEF EffectInv, Filled, Open
<1> QED
  BY <1>1, <1>4, IdleEffect

\* Going to the next block.
LEMMA AdvanceEffect ==
    ASSUME StepsInv, StepsInv', EffectInv, Advance
    PROVE  EffectInv'
<1>1. /\ call.at = "visit" /\ ~HasRoom(call.block) /\ block[call.block].next # NoBlock
      /\ call' = [call EXCEPT !.block = NextToVisit(call.block)]
      /\ UNCHANGED <<state, kernel, arena, heap, block, live>>
      /\ ~IsType("SCRATCH")
  BY DEF Advance, At
<1>2. /\ call'.at = "visit" /\ call'.size = call.size /\ call'.need = call.need
      /\ call'.fresh = call.fresh /\ call'.block = block[call.block].next
  BY <1>1 DEF NextToVisit, StepsInv, TypeInv, Locals
<1>3. ~IsType("STACK")
  BY <1>1 DEF EffectInv, PushInv, Searching
<1>4. Held' = Held /\ (Open' <=> Open) /\ \A t : IsType(t)' <=> IsType(t)
  BY <1>1, <1>2 DEF Held, Pending, Open, IsType
<1>5. Filled'
  BY <1>1, <1>4 DEF EffectInv, Filled
<1>6. Asked'
  BY <1>1, <1>2 DEF EffectInv, Asked, Searching, BytesNeeded, IsType
<1>7. PushInv' /\ LoopInv'
  BY <1>2, <1>3, <1>4 DEF PushInv, LoopInv
<1>8. PICK n \in Nat \ {0} : \E m \in 1..n : \E c \in [1..n -> BlockId] : Growing(c, n, m)
  BY <1>1, <1>3 DEF EffectInv, GrowthInv, Searching
<1>17. PICK m \in 1..n : \E c \in [1..n -> BlockId] : Growing(c, n, m)
  BY <1>8
<1>9. PICK c \in [1..n -> BlockId] : Growing(c, n, m)
  BY <1>17
<1>10. PICK i \in 1..n : Reached(c, n, m, i)
  BY <1>1, <1>9 DEF Growing
<1>11. i # n /\ ~(m < n) /\ m = n /\ i + 1 \in 1..n /\ block[call.block].next = c[i + 1]
  BY <1>1, <1>9, <1>10 DEF Growing, Linked, Reached
<1>12. \A b : HasRoom(b)' <=> HasRoom(b)
  BY <1>1, <1>2 DEF HasRoom, BytesTaken, AlignedAddress, CurrentAddress
<1>13. Reached(c, n, m, i + 1)'
  <2>1. \A j \in 1..(i + 1 - 1) : j = i \/ j \in 1..(i - 1)
    BY <1>11
  <2>2. \A j \in 1..(i + 1 - 1) : ~HasRoom(c[j])
    BY <1>1, <1>10, <2>1 DEF Reached
  <2>3. 1..(n - m) = {}
    BY <1>11
  <2> QED
    BY <1>1, <1>2, <1>4, <1>11, <1>12, <2>2, <2>3 DEF Reached
<1>14. Linked(c, n)'
  BY <1>1, <1>9 DEF Growing, Linked
<1>15. Growing(c, n, m)'
  BY <1>1, <1>2, <1>9, <1>11, <1>13, <1>14 DEF Growing
<1>16. GrowthInv'
  BY <1>15 DEF GrowthInv
<1> QED
  BY <1>5, <1>6, <1>7, <1>16 DEF EffectInv

\* b is not in the chain, and e is the chain with b at its end.
Apart(c, n, b) ==
    /\ \A i, j \in 1..n : c[i] = c[j] => i = j
    /\ \A i \in 1..n : c[i] # b

\* e is c with b after it.
Longer(e, c, n, b) ==
    /\ e[n + 1] = b
    /\ \A i \in 1..n : e[i] = c[i]
    /\ \A i, j \in 1..(n + 1) : e[i] = e[j] => i = j
    /\ \A x : (\E i \in 1..(n + 1) : x = e[i]) <=> x = b \/ \E i \in 1..n : x = c[i]

\* There is a longer chain for any chain and any other block.
LEMMA LongerChain ==
    \A n \in Nat : \A c \in [1..n -> BlockId] : \A b \in BlockId :
        Apart(c, n, b) => \E e \in [1..(n + 1) -> BlockId] : Longer(e, c, n, b)
<1> SUFFICES ASSUME NEW n \in Nat, NEW c \in [1..n -> BlockId], NEW b \in BlockId,
                    Apart(c, n, b)
             PROVE  \E e \in [1..(n + 1) -> BlockId] : Longer(e, c, n, b)
  OBVIOUS
<1>0. /\ \A i, j \in 1..n : c[i] = c[j] => i = j
      /\ \A i \in 1..n : c[i] # b
  BY DEF Apart
<1> DEFINE e == Extended(c, n, b)
<1>1. (\A i \in 1..(n + 1) : i = n + 1 \/ i \in 1..n) /\ n + 1 \in 1..(n + 1)
  OBVIOUS
<1>2. \A i \in 1..n : i \in 1..(n + 1) /\ i # n + 1
  OBVIOUS
<1>4. e \in [1..(n + 1) -> BlockId] /\ e[n + 1] = b /\ \A i \in 1..n : e[i] = c[i]
  BY <1>1, <1>2 DEF Extended
<1> HIDE DEF e
<1>5. \A i, j \in 1..(n + 1) : e[i] = e[j] => i = j
  BY <1>0, <1>1, <1>2, <1>4
<1>6. \A x : (\E i \in 1..(n + 1) : x = e[i]) <=> x = b \/ \E i \in 1..n : x = c[i]
  BY <1>1, <1>2, <1>4
<1>7. Longer(e, c, n, b)
  BY <1>4, <1>5, <1>6 DEF Longer
<1> QED
  BY <1>7, <1>4

\* Appending a header.
LEMMA MallocHeaderEffect ==
    ASSUME StepsInv, StepsInv', EffectInv, MallocHeader
    PROVE  EffectInv'
<1>1. CASE Crash("E104")
  BY <1>1, CrashEffect
<1>2. CASE \E new \in BlockId \ heap :
            /\ heap' = heap \cup {new}
            /\ block' = IF IsType("STACK") THEN block
                        ELSE [block EXCEPT ![call.block].next = new]
            /\ call' = [call EXCEPT !.at = "map", !.fresh = Append(@, new)]
            /\ UNCHANGED <<state, kernel, arena, live>>
  <2>1. PICK new \in BlockId \ heap :
            /\ heap' = heap \cup {new}
            /\ block' = IF IsType("STACK") THEN block
                        ELSE [block EXCEPT ![call.block].next = new]
            /\ call' = [call EXCEPT !.at = "map", !.fresh = Append(@, new)]
            /\ UNCHANGED <<state, kernel, arena, live>>
    BY <1>2
  <2>2. /\ call.at = "visit" /\ ~HasRoom(call.block) /\ block[call.block].next = NoBlock
        /\ ~IsType("SCRATCH")
    BY DEF MallocHeader, At
  <2>3. /\ call \in Locals /\ block \in [BlockId -> Header] /\ heap \subseteq BlockId
        /\ \A b \in BlockId \ heap : block[b].next = NoBlock
    BY DEF StepsInv, TypeInv
  <2>4. /\ call'.at = "map" /\ call'.size = call.size /\ call'.need = call.need
        /\ call'.fresh = Append(call.fresh, new) /\ call'.block = call.block
        /\ call.fresh \in Seq(BlockId)
    BY <2>1, <2>3 DEF Locals
  <2>5. Held = heap /\ Held' = heap
    <3>1. Last(call'.fresh) = new
      BY <2>4 DEF Last
    <3> QED
      BY <2>1, <2>2, <2>4, <3>1 DEF Held, Pending
  <2>6. (Open' <=> Open) /\ \A t : IsType(t)' <=> IsType(t)
    BY <2>1 DEF Open, IsType
  <2>7. call.block \in heap
    BY <2>2, IdleFacts
  <2>8. \A b \in BlockId : /\ block'[b].memory = block[b].memory
                           /\ block'[b].capacity = block[b].capacity
                           /\ block'[b].allocated = block[b].allocated
                           /\ ~IsType("STACK") =>
                                 block'[b].next = IF b = call.block THEN new ELSE block[b].next
    BY <2>1, <2>3, <2>7 DEF Header
  <2>9. \A b \in BlockId : HasRoom(b)' <=> HasRoom(b)
    BY <2>1, <2>4, <2>8, RoomKept
  <2>10. Filled'
    BY <2>1, <2>3, <2>5, <2>6, <2>8 DEF EffectInv, Filled
  <2>11. Asked'
    BY <2>1, <2>2, <2>4 DEF EffectInv, Asked, Searching, BytesNeeded, IsType
  <2>12. LoopInv'
    BY <2>4 DEF LoopInv
  <2>13. PushInv'
    <3>1. CASE IsType("STACK")
      <4>1. call.block = arena.top /\ block[arena.top].next = NoBlock /\ call.fresh = <<>>
        BY <2>2, <3>1 DEF EffectInv, PushInv, Searching
      <4>2. Len(call'.fresh) = 1
        BY <2>4, <4>1
      <4>3. block' = block /\ arena' = arena /\ arena.top \in BlockId
        BY <2>1, <2>3, <2>7, <3>1, <4>1
      <4>4. ~HasRoom(arena.top)'
        BY <2>2, <2>9, <4>1, <4>3
      <4> QED
        BY <2>4, <4>1, <4>2, <4>3, <4>4 DEF PushInv
    <3>2. CASE ~IsType("STACK")
      BY <2>6, <3>2 DEF PushInv
    <3> QED
      BY <3>1, <3>2
  <2>14. ASSUME ~IsType("STACK")
         PROVE  \E n \in Nat \ {0} : \E m \in 1..n : \E c \in [1..n -> BlockId] : Growing(c, n, m)'
    <3>1. PICK n \in Nat \ {0} : \E m \in 1..n : \E c \in [1..n -> BlockId] : Growing(c, n, m)
      BY <2>2, <2>14 DEF EffectInv, GrowthInv, Searching
    <3>2. PICK m \in 1..n : \E c \in [1..n -> BlockId] : Growing(c, n, m)
      BY <3>1
    <3>3. PICK c \in [1..n -> BlockId] : Growing(c, n, m)
      BY <3>2
    <3>4. PICK r \in 1..n : Reached(c, n, m, r)
      BY <2>2, <3>3 DEF Growing
    <3>5. /\ arena.memory_block = c[1] /\ heap = {c[j] : j \in 1..n}
          /\ \A j, k \in 1..n : c[j] = c[k] => j = k
          /\ \A j \in 1..n : block[c[j]].next = IF j = n THEN NoBlock ELSE c[j + 1]
          /\ call.fresh = [j \in 1..(n - m) |-> c[m + j]]
      BY <3>3 DEF Growing, Linked
    <3>6. r = n /\ call.block = c[n]
      <4>1. r # n => r + 1 \in 1..n /\ block[call.block].next = c[r + 1]
        BY <3>4, <3>5 DEF Reached
      <4> QED
        BY <2>2, <3>4, <4>1, BlockAssumption DEF Reached
    <3>7. \A j \in 1..n : c[j] # new /\ c[j] \in heap
      BY <3>5
    <3>15. PICK e \in [1..(n + 1) -> BlockId] : Longer(e, c, n, new)
      <4>1. Apart(c, n, new)
        BY <3>5, <3>7 DEF Apart
      <4> QED
        BY <4>1, LongerChain
    <3>8. /\ e[n + 1] = new
          /\ \A j \in 1..n : e[j] = c[j]
          /\ \A j, k \in 1..(n + 1) : e[j] = e[k] => j = k
          /\ \A x : (\E j \in 1..(n + 1) : x = e[j]) <=> x = new \/ \E j \in 1..n : x = c[j]
      BY <3>15 DEF Longer
    <3>9. n + 1 \in Nat \ {0} /\ m \in 1..(n + 1) /\ m < n + 1 /\ (n + 1) - 1 = n /\ 1 \in 1..n
      OBVIOUS
    <3>10. Linked(e, n + 1)'
      <4>1. arena'.memory_block = e[1]
        BY <2>1, <3>5, <3>8, <3>9
      <4>2. ASSUME NEW j \in 1..(n + 1)
            PROVE  block'[e[j]].next = IF j = n + 1 THEN NoBlock ELSE e[j + 1]
        <5>1. CASE j = n + 1
          <6>1. block[new].next = NoBlock /\ new # call.block
            BY <2>3, <2>7
          <6> QED
            BY <2>8, <2>14, <3>8, <5>1, <6>1
        <5>2. CASE j = n
          BY <2>8, <2>14, <3>6, <3>8, <3>9, <5>2
        <5>3. CASE j \in 1..n /\ j # n
          <6>1. j + 1 \in 1..n /\ c[j] # c[n] /\ n \in 1..n
            BY <3>5, <5>3
          <6>2. block'[c[j]].next = c[j + 1]
            BY <2>8, <2>14, <3>5, <3>6, <5>3, <6>1
          <6> QED
            BY <3>8, <5>3, <6>1, <6>2
        <5> QED
          BY <5>1, <5>2, <5>3
      <4> QED
        BY <3>8, <4>1, <4>2 DEF Linked
    <3>11. heap' = {e[j] : j \in 1..(n + 1)}
      BY <2>1, <3>5, <3>8
    <3>12. call'.fresh = [j \in 1..(n + 1 - m) |-> e[m + j]]
      <4>1. call.fresh \in Seq(BlockId) /\ Len(call.fresh) = n - m /\ n - m \in Nat
        <5>1. DOMAIN call.fresh = 1..(n - m) /\ n - m \in Nat
          BY <3>5
        <5>2. call.fresh \in Seq(BlockId)
          BY <2>4
        <5>3. Len(call.fresh) \in Nat /\ DOMAIN call.fresh = 1..Len(call.fresh)
          BY <5>2
        <5>4. \A p, q \in Nat : 1..p = 1..q => p = q
          OBVIOUS
        <5>5. Len(call.fresh) = n - m
          BY <5>1, <5>3, <5>4
        <5> QED
          BY <5>1, <5>2, <5>5
      <4>2. DOMAIN call'.fresh = 1..(n + 1 - m)
        <5>1. Len(call'.fresh) = Len(call.fresh) + 1 /\ call'.fresh \in Seq(BlockId)
          <6>1. \A s \in Seq(BlockId) : \A b \in BlockId :
                    Len(Append(s, b)) = Len(s) + 1 /\ Append(s, b) \in Seq(BlockId)
            OBVIOUS
          <6>2. new \in BlockId
            OBVIOUS
          <6> QED
            BY <2>4, <6>1, <6>2
        <5>2. DOMAIN call'.fresh = 1..(n - m + 1)
          BY <4>1, <5>1
        <5>3. n - m + 1 = n + 1 - m
          OBVIOUS
        <5> QED
          BY <5>2, <5>3
      <4>3. ASSUME NEW j \in 1..(n + 1 - m) PROVE call'.fresh[j] = e[m + j]
        <5>1. CASE j = n - m + 1
          <6>1. \A s \in Seq(BlockId) : \A b \in BlockId : Append(s, b)[Len(s) + 1] = b
            OBVIOUS
          <6>2. new \in BlockId
            OBVIOUS
          <6>3. call'.fresh[n - m + 1] = new
            BY <2>4, <4>1, <6>1, <6>2
          <6>4. m + j = n + 1
            BY <5>1
          <6> QED
            BY <3>8, <5>1, <6>3, <6>4
        <5>2. CASE j \in 1..(n - m)
          <6>1. call'.fresh[j] = call.fresh[j] /\ call.fresh[j] = c[m + j] /\ m + j \in 1..n
            BY <2>4, <3>5, <4>1, <5>2
          <6> QED
            BY <3>8, <6>1
        <5> QED
          BY <5>1, <5>2
      <4>4. call'.fresh = [j \in 1..(n + 1 - m) |-> call'.fresh[j]]
        BY <2>4, <4>2
      <4> QED
        BY <4>3, <4>4
    <3>13. Mapping(e, n + 1, m)'
      <4>1. ASSUME NEW j \in 1..n PROVE ~HasRoom(e[j])'
        <5>1. j = n \/ j \in 1..(r - 1)
          BY <3>6
        <5>2. ~HasRoom(c[j])
          BY <2>2, <3>4, <3>6, <5>1 DEF Reached
        <5>3. ~HasRoom(c[j])'
          BY <2>9, <5>2
        <5>4. e[j] = c[j]
          BY <3>8
        <5> QED
          BY <5>3, <5>4
      <4>2. ASSUME NEW j \in 1..(n - m) PROVE Appended(e[m + j], e[m], j)'
        <5>1. Appended(c[m + j], c[m], j)
          BY <3>4 DEF Reached
        <5>2. m + j \in 1..n /\ e[m + j] = c[m + j] /\ e[m] = c[m]
          BY <3>8
        <5>3. PICK b : b = c[m + j]
          OBVIOUS
        <5>4. PICK last : last = c[m]
          OBVIOUS
        <5>5. b \in Held /\ b \in Held' /\ b \in BlockId /\ last \in BlockId
          BY <2>5, <3>7, <5>2, <5>3, <5>4
        <5>6. regions \subseteq regions' /\ arena'.alignment = arena.alignment
          BY <2>1 DEF kernel
        <5>7. /\ block'[b].memory = block[b].memory /\ block'[b].capacity = block[b].capacity
              /\ block'[b].allocated = block[b].allocated /\ block'[last].capacity = block[last].capacity
          BY <2>8, <5>5
        <5>8. Appended(b, last, j)
          BY <5>1, <5>3, <5>4
        <5>9. Appended(b, last, j)'
          BY <5>5, <5>6, <5>7, <5>8, AppendedKept
        <5> QED
          BY <5>2, <5>3, <5>4, <5>9
      <4>3. call'.block = e[n] /\ ~IsType("SCRATCH")'
        BY <2>2, <2>4, <2>6, <3>6, <3>8, <3>9
      <4>4. n + 1 - m - 1 = n - m
        OBVIOUS
      <4> QED
        BY <3>9, <4>1, <4>2, <4>3, <4>4 DEF Mapping
    <3>14. Growing(e, n + 1, m)'
      BY <2>4, <3>10, <3>11, <3>12, <3>13 DEF Growing
    <3> QED
      BY <3>8, <3>9, <3>14
  <2>15. GrowthInv'
    BY <2>6, <2>14 DEF GrowthInv
  <2> QED
    BY <2>10, <2>11, <2>12, <2>13, <2>15 DEF EffectInv
<1> QED
  BY <1>1, <1>2 DEF MallocHeader

\* The region just mapped for a block is the block's.
LEMMA NewRegion ==
    ASSUME NEW b, NEW p, NEW size, NEW a,
           regions' = regions \cup {[ptr |-> p, size |-> size, alignment |-> a]},
           \A r \in regions : r.ptr # p,
           block'[b].memory = p
    PROVE  RegionOf(b)'.size = size
<1>1. PICK new : new = [ptr |-> p, size |-> size, alignment |-> a]
  OBVIOUS
<1>2. new.ptr = p /\ new.size = size
  BY <1>1
<1>3. new \in regions' /\ \A r \in regions' : r.ptr = p => r = new
  BY <1>1
<1>4. RegionOf(b)' = CHOOSE r \in regions' : r.ptr = p
  BY DEF RegionOf
<1>5. (CHOOSE r \in regions' : r.ptr = p) \in regions' /\ (CHOOSE r \in regions' : r.ptr = p).ptr = p
  BY <1>2, <1>3
<1>6. (CHOOSE r \in regions' : r.ptr = p) = new
  BY <1>3, <1>5
<1> QED
  BY <1>2, <1>4, <1>6

\* The appended headers in the order they were malloc'd.
LEMMA FreshLast ==
    ASSUME NEW n \in Nat, NEW m \in 1..n, NEW c \in [1..n -> BlockId], m < n,
           call.fresh \in Seq(BlockId), call.fresh = [j \in 1..(n - m) |-> c[m + j]]
    PROVE  Len(call.fresh) = n - m /\ Last(call.fresh) = c[n]
<1>1. DOMAIN call.fresh = 1..(n - m) /\ n - m \in Nat
  OBVIOUS
<1>2. Len(call.fresh) \in Nat /\ DOMAIN call.fresh = 1..Len(call.fresh)
  OBVIOUS
<1>3. \A p, q \in Nat : 1..p = 1..q => p = q
  OBVIOUS
<1>4. Len(call.fresh) = n - m
  BY <1>1, <1>2, <1>3
<1>5. n - m \in 1..(n - m) /\ m + (n - m) = n
  OBVIOUS
<1>6. call.fresh[n - m] = c[n]
  BY <1>5
<1> QED
  BY <1>4, <1>6 DEF Last

\* A capacity is a word.
LEMMA CapacityWord ==
    \A x \in 0..MmapLimit : x \in Word
<1>1. MmapLimit \in Nat /\ MmapLimit < WordMod /\ WordMod \in Nat
  BY Constants
<1> QED
  BY <1>1 DEF Word

\* Mapping the region of an appended header.
LEMMA MapAppendedEffect ==
    ASSUME StepsInv, StepsInv', EffectInv, MapAppended
    PROVE  EffectInv'
<1>1. /\ call.at = "map" /\ ~IsType("STACK") /\ UNCHANGED <<arena, heap, live>>
      /\ Memory!SafeAlignedAlloc(GrownCapacity, arena.alignment)
  BY DEF MapAppended, MapRegion, At
<1>2. CASE state' # "running"
  BY <1>1, <1>2, AllocCrash, QuietEffect DEF MapAppended
<1>3. CASE state' = "running"
  <2>1. PICK n \in Nat \ {0} : \E m \in 1..n : \E c \in [1..n -> BlockId] : Growing(c, n, m)
    BY <1>1 DEF EffectInv, GrowthInv, Searching
  <2>2. PICK m \in 1..n : \E c \in [1..n -> BlockId] : Growing(c, n, m)
    BY <2>1
  <2>3. PICK c \in [1..n -> BlockId] : Growing(c, n, m)
    BY <2>2
  <2>4. /\ Mapping(c, n, m) /\ Linked(c, n) /\ heap = {c[i] : i \in 1..n}
        /\ call.fresh = [j \in 1..(n - m) |-> c[m + j]]
    BY <1>1, <2>3 DEF Growing
  <2>5. /\ m < n /\ call.block = c[n - 1] /\ ~IsType("SCRATCH")
        /\ n - 1 \in 1..n /\ n \in 1..n /\ n - 1 # n
    BY <2>4 DEF Mapping
  <2>6. /\ \A i, j \in 1..n : c[i] = c[j] => i = j
        /\ \A j \in 1..n : block[c[j]].next = IF j = n THEN NoBlock ELSE c[j + 1]
    BY <2>4 DEF Linked
  <2>7. call \in Locals /\ block \in [BlockId -> Header] /\ call.fresh \in Seq(BlockId)
    BY DEF StepsInv, TypeInv, Locals
  <2>8. Last(call.fresh) = c[n]
    BY <2>4, <2>5, <2>7, FreshLast
  <2>9. PICK p \in Word : /\ regions' = regions \cup
                               {[ptr |-> p, size |-> GrownCapacity, alignment |-> arena.alignment]}
                          /\ \A r \in regions : r.ptr # p
                          /\ NewPointer = p
                          /\ p % arena.alignment = 0
    BY <1>3, <2>5, GrowResult DEF MapAppended
  <2>10. Mappable(GrownCapacity, arena.alignment) /\ GrownCapacity # 0
    BY <1>1, <1>3, AllocMapped
  <2>11. /\ call'.at = "visit" /\ call'.size = call.size /\ call'.need = call.need
         /\ call'.fresh = call.fresh /\ call'.block = c[n]
    <3>1. call' = [call EXCEPT !.at = "visit", !.block = NextToVisit(call.block)]
      BY <1>3 DEF MapAppended
    <3>2. NextToVisit(call.block) = c[n]
      BY <2>5, <2>6 DEF NextToVisit
    <3> QED
      BY <2>7, <3>1, <3>2 DEF Locals
  <2>12. /\ block'[c[n]].memory = p /\ block'[c[n]].capacity = GrownCapacity
         /\ block'[c[n]].allocated = 0 /\ block'[c[n]].next = NoBlock
         /\ \A b \in BlockId : b # c[n] => block'[b] = block[b]
    <3>1. PICK h : h = [memory |-> p, next |-> NoBlock, capacity |-> GrownCapacity, allocated |-> 0]
      OBVIOUS
    <3>2. h.memory = p /\ h.capacity = GrownCapacity /\ h.allocated = 0 /\ h.next = NoBlock
      BY <3>1
    <3>3. block' = [block EXCEPT ![c[n]] = h]
      <4>1. block' = [block EXCEPT ![Last(call.fresh)] =
                        [Blank EXCEPT !.memory = NewPointer, !.capacity = GrownCapacity]]
        BY <1>3 DEF MapAppended
      <4>2. [Blank EXCEPT !.memory = NewPointer, !.capacity = GrownCapacity] = h
        BY <2>9, <3>1, FilledHeader
      <4> QED
        BY <2>8, <4>1, <4>2
    <3>4. c[n] \in BlockId
      BY <2>5
    <3> QED
      BY <2>7, <3>2, <3>3, <3>4
  <2>13. /\ Held = heap \ {c[n]} /\ Held' = heap
         /\ (Open' <=> Open) /\ \A t : IsType(t)' <=> IsType(t)
    BY <1>1, <2>8, <2>11 DEF Held, Pending, Open, IsType
  <2>14. Filled'
    <3>1. \A b \in Held' : block'[b].capacity # 0 /\ block'[b].memory % arena'.alignment = 0
      <4>1. \A b \in Held' : b \in BlockId /\ (b = c[n] \/ b \in Held)
        BY <2>4, <2>13
      <4>2. \A b \in Held : block[b].capacity # 0 /\ block[b].memory % arena.alignment = 0
        BY DEF EffectInv, Filled
      <4> QED
        BY <1>1, <2>9, <2>10, <2>12, <2>13, <4>1, <4>2
    <3> QED
      BY <1>1, <2>13, <3>1 DEF EffectInv, Filled
  <2>15. Asked'
    BY <1>1, <2>11 DEF EffectInv, Asked, Searching, BytesNeeded, IsType
  <2>16. PushInv' /\ LoopInv'
    BY <1>1, <2>11, <2>13 DEF PushInv, LoopInv
  <2>17. Linked(c, n)'
    <3>1. ASSUME NEW j \in 1..n PROVE block'[c[j]].next = IF j = n THEN NoBlock ELSE c[j + 1]
      <4>1. CASE j = n
        BY <2>12, <4>1
      <4>2. CASE j # n
        <5>1. c[j] # c[n] /\ c[j] \in BlockId
          BY <2>5, <2>6, <4>2
        <5> QED
          BY <2>6, <2>12, <4>2, <5>1
      <4> QED
        BY <4>1, <4>2
    <3> QED
      BY <1>1, <2>4, <2>6, <3>1 DEF Linked
  <2>18. ASSUME NEW j \in 1..(n - 1) PROVE ~HasRoom(c[j])'
    <3>1. j \in 1..n /\ c[j] # c[n] /\ c[j] \in BlockId
      BY <2>5, <2>6
    <3>2. ~HasRoom(c[j])
      BY <2>4 DEF Mapping
    <3>3. PICK b : b = c[j]
      OBVIOUS
    <3>4. block'[b] = block[b] /\ ~HasRoom(b)
      BY <2>12, <3>1, <3>2, <3>3
    <3>5. ~HasRoom(b)'
      BY <1>1, <2>11, <3>4, RoomKept
    <3> QED
      BY <3>3, <3>5
  <2>19. ASSUME NEW j \in 1..(n - m) PROVE Appended(c[m + j], c[m], j)'
    <3>1. PICK last : last = c[m]
      OBVIOUS
    <3>2. last \in BlockId /\ last # c[n] /\ block'[last] = block[last]
      BY <2>5, <2>6, <2>12, <3>1
    <3>3. CASE j # n - m
      <4>1. j \in 1..(n - m - 1) /\ m + j \in 1..n /\ m + j # n
        BY <3>3
      <4>2. PICK b : b = c[m + j]
        OBVIOUS
      <4>3. Appended(b, last, j)
        BY <2>4, <3>1, <4>1, <4>2 DEF Mapping
      <4>4. b # c[n] /\ b \in BlockId /\ b \in heap
        BY <2>4, <2>5, <2>6, <4>1, <4>2
      <4>5. b \in Held /\ b \in Held' /\ block'[b] = block[b]
        BY <2>12, <2>13, <4>4
      <4>6. regions \subseteq regions' /\ arena'.alignment = arena.alignment
        BY <1>1, <2>9
      <4>7. Appended(b, last, j)'
        BY <3>2, <4>3, <4>5, <4>6, AppendedKept
      <4> QED
        BY <3>1, <4>2, <4>7
    <3>4. CASE j = n - m
      <4>1. m + j = n /\ m + (j - 1) = n - 1 /\ j - 1 \in Nat /\ (j - 1) + 1 = j
        BY <3>4
      <4>2. block[c[n - 1]].capacity = Doublings(block[last].capacity)[j - 1]
        <5>1. block[last].capacity \in Word
          <6>1. block[last] \in Header
            BY <2>7, <3>2
          <6>2. block[last].capacity \in 0..MmapLimit
            BY <6>1 DEF Header
          <6> QED
            BY <6>2, CapacityWord
        <5>2. CASE j = 1
          <6>1. n - 1 = m /\ j - 1 = 0
            BY <3>4, <5>2
          <6>2. Doublings(block[last].capacity)[0] = block[last].capacity
            BY <5>1, DoublingsStep
          <6> QED
            BY <3>1, <6>1, <6>2
        <5>3. CASE j # 1
          <6>1. j - 1 \in 1..(n - m - 1)
            BY <3>4, <5>3
          <6>2. Appended(c[m + (j - 1)], c[m], j - 1)
            BY <2>4, <6>1 DEF Mapping
          <6> QED
            BY <3>1, <4>1, <6>2 DEF Appended
        <5> QED
          BY <5>2, <5>3
      <4>3. GrownCapacity = Doublings(block[last].capacity)[j]
        <5>1. block[last].capacity \in Word
          <6>1. block[last] \in Header
            BY <2>7, <3>2
          <6>2. block[last].capacity \in 0..MmapLimit
            BY <6>1 DEF Header
          <6> QED
            BY <6>2, CapacityWord
        <5>2. Doublings(block[last].capacity)[j] = DoubleW(Doublings(block[last].capacity)[j - 1])
          BY <4>1, <5>1, DoublingsStep
        <5> QED
          BY <2>5, <4>2, <5>2 DEF GrownCapacity
      <4>4. PICK b : b = c[n]
        OBVIOUS
      <4>5. RegionOf(b)'.size = GrownCapacity
        BY <2>9, <2>12, <4>4, NewRegion
      <4>6. block'[b].capacity = Doublings(block'[last].capacity)[j] /\ block'[b].allocated = 0
        BY <2>12, <3>2, <4>3, <4>4
      <4>7. Mappable(block'[b].capacity, arena'.alignment) /\ RegionOf(b)'.size = block'[b].capacity
        BY <1>1, <2>10, <2>12, <4>4, <4>5
      <4>8. Appended(b, last, j)'
        BY <4>6, <4>7 DEF Appended
      <4> QED
        BY <3>1, <4>1, <4>4, <4>8
    <3> QED
      BY <3>3, <3>4
  <2>20. Reached(c, n, m, n)'
    BY <2>5, <2>11, <2>13, <2>18, <2>19 DEF Reached
  <2>21. Growing(c, n, m)'
    BY <1>1, <2>4, <2>5, <2>11, <2>17, <2>20 DEF Growing
  <2>22. GrowthInv'
    BY <2>21 DEF GrowthInv
  <2> QED
    BY <2>14, <2>15, <2>16, <2>22 DEF EffectInv
<1> QED
  BY <1>2, <1>3

\* Pushing a block.
LEMMA MapPushedEffect ==
    ASSUME StepsInv, StepsInv', EffectInv, MapPushed
    PROVE  EffectInv'
<1>1. /\ call.at = "map" /\ IsType("STACK") /\ heap' = heap
      /\ Memory!SafeAlignedAlloc(GrownCapacity, arena.alignment)
  BY DEF MapPushed, MapRegion, At
<1>2. CASE state' # "running"
  BY <1>1, <1>2, AllocCrash, QuietEffect DEF MapPushed
<1>3. CASE state' = "running"
  <2>1. PICK new : new = Last(call.fresh)
    OBVIOUS
  <2>2. PICK offset : offset = SubW(AlignUp(NewPointer, arena.alignment), NewPointer)
    OBVIOUS
  <2>3. /\ block' = [block EXCEPT
              ![new] = [Blank EXCEPT !.memory = NewPointer, !.capacity = GrownCapacity,
                                     !.allocated = AddW(call.need, offset)],
              ![call.block].next = new]
        /\ arena' = [arena EXCEPT !.top = new]
        /\ call' = NoCall
    BY <1>3, <2>1, <2>2 DEF MapPushed
  <2>4. call.block \in heap /\ call.block # new /\ new \in BlockId /\ call.block \in BlockId
    <3>1. PICK n \in Nat \ {0} : \E c \in [1..n -> BlockId] :
              /\ WholeChain(c, n, 0, 1)
              /\ heap = {c[i] : i \in 1..n} \cup (IF IsType("STACK") THEN Pending ELSE {})
      BY <1>1, PendingChain
    <3>2. PICK c \in [1..n -> BlockId] :
              /\ WholeChain(c, n, 0, 1)
              /\ heap = {c[i] : i \in 1..n} \cup Pending
      BY <1>1, <3>1
    <3>3. call.block = c[n] /\ (\A i \in 1..n : new # c[i]) /\ Pending = {new} /\ n \in 1..n
      BY <1>1, <2>1, <3>2 DEF WholeChain, Pending
    <3>4. heap \subseteq BlockId
      BY DEF StepsInv, TypeInv
    <3> QED
      BY <3>2, <3>3, <3>4
  <2>5. PICK p \in Word : NewPointer = p /\ p % arena.alignment = 0
    BY <1>3, <2>4, GrowResult DEF MapPushed
  <2>6. GrownCapacity # 0
    BY <1>1, <1>3, AllocMapped
  <2>7. Held' = Held \cup {new} /\ Held \subseteq BlockId
    <3>1. Held = heap \ {new} /\ Held' = heap /\ new \in heap
      <4>1. call.fresh \in Seq(BlockId) /\ call'.at = "idle"
        BY <2>3 DEF StepsInv, TypeInv, Locals, NoCall
      <4>2. Pending = {new} /\ Pending' = {}
        BY <1>1, <2>1, <4>1 DEF Pending
      <4>3. new \in heap
        BY <1>1, <4>2, PendingChain
      <4> QED
        BY <1>1, <4>2, <4>3 DEF Held
    <3> QED
      BY <3>1 DEF StepsInv, TypeInv
  <2>8. block \in [BlockId -> Header]
    BY DEF StepsInv, TypeInv
  <2>9. block'[new].memory = p /\ block'[new].capacity = GrownCapacity
    <3>1. PICK h : h = [Blank EXCEPT !.memory = NewPointer, !.capacity = GrownCapacity,
                                     !.allocated = AddW(call.need, offset)]
      OBVIOUS
    <3>2. h.memory = p /\ h.capacity = GrownCapacity
      BY <2>5, <3>1 DEF Blank
    <3>3. block' = [block EXCEPT ![new] = h, ![call.block].next = new]
      BY <2>3, <3>1
    <3>4. block'[new] = h
      BY <2>4, <2>8, <3>3
    <3> QED
      BY <3>2, <3>4
  <2>10. \A d \in Held : block'[d].memory = block[d].memory /\ block'[d].capacity = block[d].capacity
    <3>1. \A d \in BlockId : d # new => block'[d].memory = block[d].memory
                                         /\ block'[d].capacity = block[d].capacity
      BY <2>3, <2>4, <2>8 DEF Header
    <3>2. new \notin Held
      BY <1>1, <2>1 DEF Held, Pending
    <3> QED
      BY <2>7, <3>1, <3>2
  <2>11. arena'.alignment = arena.alignment /\ arena'.snapshots = arena.snapshots /\ Open
    BY <1>1, <2>3 DEF StepsInv, TypeInv, CallInv, Handle
  <2>12. Filled'
    <3>1. \A b \in Held' : block'[b].capacity # 0 /\ block'[b].memory % arena'.alignment = 0
      BY <2>5, <2>6, <2>7, <2>9, <2>10, <2>11 DEF EffectInv, Filled
    <3> QED
      BY <2>11, <3>1 DEF EffectInv, Filled
  <2>13. call'.at = "idle"
    BY <2>3 DEF NoCall
  <2> QED
    BY <2>12, <2>13, IdleEffect
<1> QED
  BY <1>2, <1>3

\* Recording.
LEMMA RecordCallEffect ==
    ASSUME StepsInv, StepsInv', EffectInv, RecordCall
    PROVE  EffectInv'
<1>1. ASSUME NEW code, Crash(code) PROVE EffectInv'
  BY <1>1, CrashEffect
<1>2. CASE /\ Open /\ IsType("STACK")
           /\ arena' = [arena EXCEPT
                 !.max_size = IF ArrayFull THEN 2 * @ ELSE @,
                 !.snapshots = Append(@, [top |-> arena.top,
                                          allocated |-> block[arena.top].allocated,
                                          capacity |-> block[arena.top].capacity])]
           /\ UNCHANGED <<state, kernel, heap, block, call, live>>
  <2>1. call.at = "idle" /\ call'.at = "idle"
    BY <1>2 DEF RecordCall, Idle, NoCall
  <2>2. arena.top \in Held
    BY <1>2, <2>1, IdleFacts
  <2>3. PICK mark : mark = [top |-> arena.top, allocated |-> block[arena.top].allocated,
                            capacity |-> block[arena.top].capacity]
    OBVIOUS
  <2>4. mark.capacity # 0
    BY <2>2, <2>3 DEF EffectInv, Filled
  <2>5. arena.snapshots \in Seq(Snapshot) /\ arena \in Handle /\ arena'.snapshots \in Seq(Snapshot)
    BY DEF StepsInv, TypeInv, Handle
  <2>6. arena'.snapshots = Append(arena.snapshots, mark) /\ arena'.alignment = arena.alignment
    BY <1>2, <2>3, <2>5 DEF Handle
  <2>7. \A i \in DOMAIN arena'.snapshots : arena'.snapshots[i].capacity # 0
    <3>1. PICK s : s = arena.snapshots
      OBVIOUS
    <3>2. s \in Seq(Snapshot)
      BY <2>5, <3>1
    <3>3. DOMAIN Append(s, mark) = 1..(Len(s) + 1) /\ Append(s, mark)[Len(s) + 1] = mark
          /\ \A i \in 1..Len(s) : Append(s, mark)[i] = s[i]
      BY <3>2
    <3>4. \A i \in 1..Len(s) : s[i].capacity # 0
      BY <3>1, <3>2 DEF EffectInv, Filled
    <3>5. \A i \in 1..(Len(s) + 1) : i = Len(s) + 1 \/ i \in 1..Len(s)
      BY <3>2
    <3> QED
      BY <2>4, <2>6, <3>1, <3>3, <3>4, <3>5
  <2>8. Held' = Held
    BY <1>2, <2>1 DEF Held, Pending
  <2>9. Filled'
    <3>1. \A b \in Held' : block'[b].memory = block[b].memory /\ block'[b].capacity # 0
      BY <1>2, <2>8 DEF EffectInv, Filled
    <3> QED
      BY <1>2, <2>6, <2>7, <2>8, <3>1, FilledKept DEF EffectInv
  <2> QED
    BY <2>1, <2>9, IdleEffect
<1> QED
  BY <1>1, <1>2 DEF RecordCall

-------------------------------------------------------------------------------
(* Where the free loop starts, goes on and ends.                             *)

\* A loop starts that keeps the first k blocks of the chain c.
LoopStarts(c, n, k) ==
    /\ heap = {c[i] : i \in 1..n} /\ Shown(c, n)
    /\ \A i, j \in 1..n : c[i] = c[j] => i = j
    /\ Open /\ arena.memory_block = c[1]
    /\ LoopAt(c, n, k, k + 1)'
    /\ Visible' = {c[i] : i \in 1..k}
    /\ k > 0 => Leads(c, k, Visible)' /\ block'[c[k]].next \notin Visible'

\* A call that frees starts it after the blocks it keeps.
LEMMA LoopStart ==
    ASSUME StepsInv, call = NoCall, Open,
           heap' = heap, \A b \in BlockId : block'[b].next = block[b].next,
           call'.at = "free", call'.fresh = <<>>,
           NEW n \in Nat, NEW c \in [1..n -> BlockId], NEW k \in 0..n,
           Shown(c, n), heap = {c[i] : i \in 1..n},
           \A i, j \in 1..n : c[i] = c[j] => i = j,
           \A i \in 1..n : block[c[i]].next = IF i = n THEN NoBlock ELSE c[i + 1],
           arena.memory_block = c[1],
           call'.block = IF k = n THEN NoBlock ELSE c[k + 1]
    PROVE  LoopStarts(c, n, k)
<1>1. k \in Nat /\ k + 1 \in Nat /\ k + 1 \in (k + 1)..(n + 1)
      /\ (1..k) \cup ((k + 1)..n) = 1..n /\ (k + 1 = n + 1 <=> k = n)
      /\ (\A i \in (k + 1)..n : i \in 1..n) /\ \A i \in 1..k : i \in 1..n
  OBVIOUS
<1>2. heap' = {c[i] : i \in (1..k) \cup ((k + 1)..n)}
  BY <1>1
<1>3. \A i \in (k + 1)..n : block'[c[i]].next = IF i = n THEN NoBlock ELSE c[i + 1]
  BY <1>1
<1>4. LoopAt(c, n, k, k + 1)'
  BY <1>1, <1>2, <1>3 DEF LoopAt
<1>5. Visible' = {c[i] : i \in 1..k}
  <2>1. PICK f \in Nat : f = k + 1
    BY <1>1
  <2>2. LoopAt(c, n, k, f)' /\ k \in Nat
    BY <1>1, <1>4, <2>1
  <2> HIDE <1>1, <1>2, <1>3, <1>4
  <2> QED
    BY <2>2, LoopShowsNext
<1>6. ASSUME k > 0 PROVE Leads(c, k, Visible)' /\ block'[c[k]].next \notin Visible'
  <2>1. k \in 1..n /\ block'[c[k]].next = IF k = n THEN NoBlock ELSE c[k + 1]
    BY <1>6
  <2>2. \A i \in 1..k : c[i] \in BlockId /\ (k # n => c[i] # c[k + 1])
    BY <1>1
  <2>3. block'[c[k]].next \notin Visible'
    BY <1>5, <2>1, <2>2, BlockAssumption
  <2>4. \A i \in 1..k : i # k => i # n /\ block'[c[i]].next = c[i + 1]
    <3> SUFFICES ASSUME NEW i \in 1..k, i # k
                 PROVE  i # n /\ block'[c[i]].next = c[i + 1]
      OBVIOUS
    <3>1. i \in 1..n /\ i # n /\ c[i] \in BlockId
      OBVIOUS
    <3> QED
      BY <3>1
  <2>5. \A i, j \in 1..k : c[i] = c[j] => i = j
    BY <1>1
  <2> QED
    BY <1>5, <2>3, <2>4, <2>5 DEF Leads
<1> QED
  BY <1>4, <1>5, <1>6 DEF LoopStarts

\* What the invariant asks of a call that frees.
LEMMA LoopEffect ==
    ASSUME Filled', call'.at = "free", call'.fresh = <<>>,
           call'.op # "destroy" => block'[KeptLast'].next \notin Visible'
    PROVE  EffectInv'
BY DEF EffectInv, Asked, GrowthInv, PushInv, LoopInv, Searching

\* Starting a reset.
LEMMA ResetStarts ==
    ASSUME StepsInv, Idle, Open,
           block' = [block EXCEPT ![arena.memory_block].allocated = 0],
           FreeFrom("reset", block[arena.memory_block].next),
           UNCHANGED <<kernel, arena, heap>>
    PROVE  /\ call'.at = "free" /\ call'.op = "reset" /\ call'.fresh = <<>>
           /\ arena.memory_block \in BlockId
           /\ \A b \in BlockId :
                 /\ block'[b].next = block[b].next /\ block'[b].memory = block[b].memory
                 /\ block'[b].capacity = block[b].capacity
                 /\ block'[b].allocated = IF b = arena.memory_block THEN 0 ELSE block[b].allocated
           /\ \E n \in Nat \ {0} : \E c \in [1..n -> BlockId] : LoopStarts(c, n, 1)
<1>1. call = NoCall /\ block \in [BlockId -> Header]
  BY DEF Idle, StepsInv, TypeInv
<1>2. PICK n \in Nat : \E c \in [1..n -> BlockId] :
                 /\ Shown(c, n) /\ heap = {c[i] : i \in 1..n}
                 /\ \A i, j \in 1..n : c[i] = c[j] => i = j
                 /\ \A i \in 1..n : block[c[i]].next = IF i = n THEN NoBlock ELSE c[i + 1]
                 /\ Open <=> n > 0
                 /\ Open => arena.memory_block = c[1]
  BY <1>1, ShownIdle
<1>3. PICK c \in [1..n -> BlockId] :
                 /\ Shown(c, n) /\ heap = {c[i] : i \in 1..n}
                 /\ \A i, j \in 1..n : c[i] = c[j] => i = j
                 /\ \A i \in 1..n : block[c[i]].next = IF i = n THEN NoBlock ELSE c[i + 1]
                 /\ n > 0 /\ arena.memory_block = c[1]
  BY <1>2
<1>4. n \in Nat \ {0} /\ 1 \in 1..n /\ 1 \in 0..n /\ c[1] \in BlockId
  BY <1>3
<1>5. PICK first : first = block[arena.memory_block].next
  OBVIOUS
<1>6. first = IF 1 = n THEN NoBlock ELSE c[1 + 1]
  BY <1>3, <1>4, <1>5
<1>7. call'.at = "free" /\ call'.op = "reset" /\ call'.fresh = <<>> /\ call'.block = first
  BY <1>5 DEF FreeFrom, NoCall
<1>8. \A b \in BlockId :
                 /\ block'[b].next = block[b].next /\ block'[b].memory = block[b].memory
                 /\ block'[b].capacity = block[b].capacity
                 /\ block'[b].allocated = IF b = arena.memory_block THEN 0 ELSE block[b].allocated
  BY <1>1, <1>3, <1>4 DEF Header
<1>9. LoopStarts(c, n, 1)
  <2>1. PICK k \in 0..n : k = 1
    BY <1>4
  <2>2. call'.block = IF k = n THEN NoBlock ELSE c[k + 1]
    BY <1>6, <1>7, <2>1
  <2>3. LoopStarts(c, n, k)
    BY <1>1, <1>3, <1>7, <1>8, <2>2, LoopStart
  <2> QED
    BY <2>1, <2>3
<1> QED
  BY <1>3, <1>4, <1>7, <1>8, <1>9

\* Starting a reset keeps the invariant.
LEMMA ResetCallEffect ==
    ASSUME StepsInv, StepsInv', EffectInv, ResetCall
    PROVE  EffectInv'
<1>1. CASE Crash("E201")
  BY <1>1, CrashEffect
<1>2. CASE ~Crash("E201")
  <2>1. /\ Idle /\ Open /\ block' = [block EXCEPT ![arena.memory_block].allocated = 0]
        /\ FreeFrom("reset", block[arena.memory_block].next)
        /\ UNCHANGED <<kernel, arena, heap>>
    BY <1>2 DEF ResetCall
  <2>2. /\ call'.at = "free" /\ call'.op = "reset" /\ call'.fresh = <<>>
        /\ \A b \in BlockId : block'[b].memory = block[b].memory /\ block'[b].capacity = block[b].capacity
        /\ \E n \in Nat \ {0} : \E c \in [1..n -> BlockId] : LoopStarts(c, n, 1)
    BY <2>1, ResetStarts
  <2>3. PICK n \in Nat \ {0} : \E c \in [1..n -> BlockId] : LoopStarts(c, n, 1)
    BY <2>2
  <2>4. PICK c \in [1..n -> BlockId] : LoopStarts(c, n, 1)
    BY <2>3
  <2>5. KeptLast' = c[1] /\ block'[c[1]].next \notin Visible'
    BY <2>1, <2>2, <2>4 DEF KeptLast, LoopStarts
  <2>6. Filled'
    <3>1. Held' = Held /\ Held \subseteq BlockId /\ Open'
      BY <2>1, <2>2 DEF Held, Pending, Idle, NoCall, StepsInv, TypeInv, Open
    <3>2. \A b \in Held' : block'[b].memory = block[b].memory /\ block'[b].capacity # 0
      BY <2>2, <3>1 DEF EffectInv, Filled
    <3> QED
      BY <2>1, <3>1, <3>2, FilledKept DEF EffectInv, Filled
  <2> QED
    BY <2>2, <2>5, <2>6, LoopEffect
<1> QED
  BY <1>1, <1>2

\* Starting a destroy.
LEMMA DestroyStarts ==
    ASSUME StepsInv, Idle, Open,
           FreeFrom("destroy", arena.memory_block),
           UNCHANGED <<kernel, arena, heap, block>>
    PROVE  /\ call'.at = "free" /\ call'.op = "destroy" /\ call'.fresh = <<>>
           /\ \E n \in Nat \ {0} : \E c \in [1..n -> BlockId] : LoopStarts(c, n, 0)
<1>1. call = NoCall
  BY DEF Idle
<1>2. PICK n \in Nat : \E c \in [1..n -> BlockId] :
                 /\ Shown(c, n) /\ heap = {c[i] : i \in 1..n}
                 /\ \A i, j \in 1..n : c[i] = c[j] => i = j
                 /\ \A i \in 1..n : block[c[i]].next = IF i = n THEN NoBlock ELSE c[i + 1]
                 /\ Open <=> n > 0
                 /\ Open => arena.memory_block = c[1]
  BY <1>1, ShownIdle
<1>3. PICK c \in [1..n -> BlockId] :
                 /\ Shown(c, n) /\ heap = {c[i] : i \in 1..n}
                 /\ \A i, j \in 1..n : c[i] = c[j] => i = j
                 /\ \A i \in 1..n : block[c[i]].next = IF i = n THEN NoBlock ELSE c[i + 1]
                 /\ n > 0 /\ arena.memory_block = c[1]
  BY <1>2
<1>4. n \in Nat \ {0} /\ 0 \in 0..n
  BY <1>3
<1>5. call'.at = "free" /\ call'.op = "destroy" /\ call'.fresh = <<>> /\ call'.block = c[1]
  BY <1>3 DEF FreeFrom, NoCall
<1>6. PICK k \in 0..n : k = 0
  BY <1>4
<1>7. call'.block = IF k = n THEN NoBlock ELSE c[k + 1]
  BY <1>4, <1>5, <1>6
<1>8. LoopStarts(c, n, k)
  BY <1>1, <1>3, <1>5, <1>7, LoopStart
<1> QED
  BY <1>4, <1>5, <1>6, <1>8

\* Starting a destroy keeps it.
LEMMA DestroyCallEffect ==
    ASSUME StepsInv, StepsInv', EffectInv, DestroyCall
    PROVE  EffectInv'
<1>1. CASE Crash("E201")
  BY <1>1, CrashEffect
<1>2. CASE ~Crash("E201")
  <2>1. /\ Idle /\ Open /\ FreeFrom("destroy", arena.memory_block)
        /\ UNCHANGED <<kernel, arena, heap, block>>
    BY <1>2 DEF DestroyCall
  <2>2. call'.at = "free" /\ call'.op = "destroy" /\ call'.fresh = <<>>
    BY <2>1, DestroyStarts
  <2>3. Held' = Held
    BY <2>1, <2>2 DEF Held, Pending, Idle, NoCall
  <2>4. Filled'
    BY <2>1, <2>3 DEF EffectInv, Filled, Open
  <2> QED
    BY <2>2, <2>4, LoopEffect
<1> QED
  BY <1>1, <1>2

\* Starting an unwind.
UnwindTo(target) ==
    /\ arena' = [arena EXCEPT !.top = target.top]
    /\ block' = [block EXCEPT ![target.top].capacity = target.capacity,
                              ![target.top].allocated = target.allocated]
    /\ FreeFrom("unwind", block[target.top].next)

\* An unwind starts after the block of the target.
LEMMA UnwindStarts ==
    ASSUME StepsInv, Idle, UnwindError = "none", Last(arena.snapshots).top \in heap,
           UnwindTo(Last(arena.snapshots)), UNCHANGED <<state, kernel, heap>>,
           NEW target, target = Last(arena.snapshots)
    PROVE  /\ call'.at = "free" /\ call'.op = "unwind" /\ call'.fresh = <<>>
           /\ Open /\ IsType("STACK") /\ arena.snapshots # <<>>
           /\ target.top \in heap /\ target \in Snapshot
           /\ arena'.allocator_type = arena.allocator_type /\ arena'.alignment = arena.alignment
           /\ arena'.pool_size = arena.pool_size /\ arena'.memory_block = arena.memory_block
           /\ arena'.snapshots = arena.snapshots /\ arena'.max_size = arena.max_size
           /\ arena'.top = target.top
           /\ \A b \in BlockId :
                 /\ block'[b].next = block[b].next /\ block'[b].memory = block[b].memory
                 /\ block'[b].capacity = IF b = target.top THEN target.capacity ELSE block[b].capacity
                 /\ block'[b].allocated = IF b = target.top THEN target.allocated ELSE block[b].allocated
           /\ \E n \in Nat \ {0} : \E c \in [1..n -> BlockId] : \E k \in 1..n :
                 target.top = c[k] /\ LoopStarts(c, n, k)
<1>1. /\ call = NoCall /\ block \in [BlockId -> Header] /\ arena \in Handle
      /\ Open /\ IsType("STACK") /\ arena.snapshots # <<>>
  BY DEF Idle, StepsInv, TypeInv, UnwindError
<1>2. target \in Snapshot /\ target.top \in heap
  BY <1>1, LastSnapshot DEF StepsInv
<1>3. PICK b \in BlockId : b = target.top
  BY <1>2 DEF Snapshot
<1>4. /\ arena'.allocator_type = arena.allocator_type /\ arena'.alignment = arena.alignment
      /\ arena'.pool_size = arena.pool_size /\ arena'.memory_block = arena.memory_block
      /\ arena'.snapshots = arena.snapshots /\ arena'.max_size = arena.max_size
      /\ arena'.top = b
  <2>1. arena' = [arena EXCEPT !.top = b]
    BY <1>3 DEF UnwindTo
  <2> QED
    BY <1>1, <2>1 DEF Handle
<1>5. /\ \A d \in BlockId : /\ block'[d].next = block[d].next /\ block'[d].memory = block[d].memory
                            /\ d # b => block'[d] = block[d]
      /\ block'[b].capacity = target.capacity /\ block'[b].allocated = target.allocated
  <2>1. block' = [block EXCEPT ![b].capacity = target.capacity, ![b].allocated = target.allocated]
    BY <1>3 DEF UnwindTo
  <2>2. PICK h : h = [block[b] EXCEPT !.capacity = target.capacity, !.allocated = target.allocated]
    OBVIOUS
  <2>3. block' = [block EXCEPT ![b] = h]
    BY <1>1, <2>1, <2>2
  <2>4. h.next = block[b].next /\ h.memory = block[b].memory
        /\ h.capacity = target.capacity /\ h.allocated = target.allocated
    BY <1>1, <2>2 DEF Header
  <2> QED
    BY <1>1, <2>3, <2>4
<1>6. PICK first : first = block[b].next
  OBVIOUS
<1>7. call'.at = "free" /\ call'.op = "unwind" /\ call'.fresh = <<>> /\ call'.block = first
  BY <1>3, <1>6 DEF UnwindTo, FreeFrom, NoCall
<1>8. PICK n \in Nat : \E c \in [1..n -> BlockId] :
                 /\ Shown(c, n) /\ heap = {c[i] : i \in 1..n}
                 /\ \A i, j \in 1..n : c[i] = c[j] => i = j
                 /\ \A i \in 1..n : block[c[i]].next = IF i = n THEN NoBlock ELSE c[i + 1]
                 /\ Open <=> n > 0
                 /\ Open => arena.memory_block = c[1]
  BY <1>1, ShownIdle
<1>9. PICK c \in [1..n -> BlockId] :
                 /\ Shown(c, n) /\ heap = {c[i] : i \in 1..n}
                 /\ \A i, j \in 1..n : c[i] = c[j] => i = j
                 /\ \A i \in 1..n : block[c[i]].next = IF i = n THEN NoBlock ELSE c[i + 1]
                 /\ n > 0 /\ arena.memory_block = c[1]
  BY <1>1, <1>8
<1>10. n \in Nat \ {0}
  BY <1>9
<1>11. PICK k \in 1..n : b = c[k]
  BY <1>2, <1>3, <1>9
<1>12. k \in 0..n /\ call'.block = IF k = n THEN NoBlock ELSE c[k + 1]
  BY <1>6, <1>7, <1>9, <1>11
<1>13. \A d \in BlockId : block'[d].next = block[d].next
  BY <1>5
<1>14. LoopStarts(c, n, k)
  BY <1>1, <1>7, <1>9, <1>12, <1>13, LoopStart
<1>15. \A d \in BlockId :
                 /\ block'[d].next = block[d].next /\ block'[d].memory = block[d].memory
                 /\ block'[d].capacity = IF d = target.top THEN target.capacity ELSE block[d].capacity
                 /\ block'[d].allocated = IF d = target.top THEN target.allocated ELSE block[d].allocated
  BY <1>3, <1>5
<1>16. \E m \in Nat \ {0} : \E d \in [1..m -> BlockId] : \E j \in 1..m :
                 target.top = d[j] /\ LoopStarts(d, m, j)
  BY <1>3, <1>10, <1>11, <1>14
<1> QED
  BY <1>1, <1>2, <1>3, <1>4, <1>7, <1>15, <1>16

\* Starting an unwind keeps the invariant.
LEMMA UnwindCallEffect ==
    ASSUME StepsInv, StepsInv', EffectInv, UnwindCall
    PROVE  EffectInv'
<1>1. ASSUME NEW code, Crash(code) PROVE EffectInv'
  BY <1>1, CrashEffect
<1>2. CASE /\ Idle /\ UnwindError = "none" /\ Last(arena.snapshots).top \in heap
           /\ UnwindTo(Last(arena.snapshots)) /\ UNCHANGED <<state, kernel, heap>>
  <2>1. PICK target : target = Last(arena.snapshots)
    OBVIOUS
  <2>2. /\ call'.at = "free" /\ call'.op = "unwind" /\ call'.fresh = <<>> /\ arena.snapshots # <<>>
        /\ arena'.alignment = arena.alignment /\ arena'.snapshots = arena.snapshots
        /\ arena'.top = target.top /\ Open
        /\ \A b \in BlockId :
              /\ block'[b].memory = block[b].memory
              /\ block'[b].capacity = IF b = target.top THEN target.capacity ELSE block[b].capacity
        /\ \E n \in Nat \ {0} : \E c \in [1..n -> BlockId] : \E k \in 1..n :
                 target.top = c[k] /\ LoopStarts(c, n, k)
    BY <1>2, <2>1, UnwindStarts
  <2>3. PICK n \in Nat \ {0} : \E c \in [1..n -> BlockId] : \E k \in 1..n :
                 target.top = c[k] /\ LoopStarts(c, n, k)
    BY <2>2
  <2>4. PICK c \in [1..n -> BlockId] : \E k \in 1..n : target.top = c[k] /\ LoopStarts(c, n, k)
    BY <2>3
  <2>5. PICK k \in 1..n : target.top = c[k] /\ LoopStarts(c, n, k)
    BY <2>4
  <2>6. KeptLast' = c[k] /\ block'[c[k]].next \notin Visible'
    BY <2>2, <2>5 DEF KeptLast, LoopStarts
  <2>7. target.capacity # 0
    <3>1. arena.snapshots \in Seq(Snapshot)
      BY DEF StepsInv, TypeInv, Handle
    <3>2. Len(arena.snapshots) \in DOMAIN arena.snapshots
      BY <2>2, <3>1
    <3> QED
      BY <2>1, <3>2 DEF EffectInv, Filled, Last
  <2>8. Filled'
    <3>1. Held' = Held /\ Held \subseteq BlockId
      BY <1>2, <2>2 DEF Held, Pending, Idle, NoCall, StepsInv, TypeInv
    <3>2. \A b \in Held' : block'[b].memory = block[b].memory /\ block'[b].capacity # 0
      BY <2>2, <2>7, <3>1 DEF EffectInv, Filled
    <3> QED
      BY <2>2, <3>1, <3>2, FilledKept DEF EffectInv, Filled
  <2> QED
    BY <2>2, <2>6, <2>8, LoopEffect
<1> QED
  BY <1>1, <1>2 DEF UnwindCall, UnwindTo

\* One iteration of the free loop takes c[f] away.
Frees(c, n, k, f) ==
    /\ LoopAt(c, n, k, f) /\ FreedUpTo(c, n, k, f) /\ k <= n
    /\ Shown(c, k) /\ (k > 0 => KeptLast = c[k])
    /\ LoopAt(c, n, k, f + 1)'
    /\ Visible' = Visible /\ Visible = {c[i] : i \in 1..k}
    /\ \A b \in BlockId : b # c[f] => block'[b] = block[b]
    /\ f \in (k + 1)..n
    /\ \A i, j \in 1..n : c[i] = c[j] => i = j

\* Freeing one block of those the loop frees.
LEMMA FreeBlockShows ==
    ASSUME StepsInv, LoopInv, FreeBlock
    PROVE  /\ state' = "running" /\ call'.at = "free" /\ call'.op = call.op /\ call'.fresh = <<>>
           /\ regions' \subseteq regions
           /\ heap' \subseteq heap /\ UNCHANGED <<arena, live>>
           /\ \E n, k, f \in Nat : \E c \in [1..n -> BlockId] : Frees(c, n, k, f)
<1>1. /\ call.at = "free" /\ call.block # NoBlock /\ UNCHANGED <<arena, live>>
      /\ Memory!SafeAlignedFree(RegionOf(call.block))
  BY DEF FreeBlock, At, RegionToFree
<1>2. PICK n \in Nat, k \in Nat, f \in Nat : \E c \in [1..n -> BlockId] :
              /\ LoopAt(c, n, k, f) /\ FreedUpTo(c, n, k, f)
              /\ \A i \in 1..n : i < k => block[c[i]].next = c[i + 1]
              /\ k <= n /\ Shown(c, k)
              /\ k > 0 => KeptLast = c[k]
  BY <1>1, ShownLoop
<1>3. PICK c \in [1..n -> BlockId] :
              /\ LoopAt(c, n, k, f) /\ FreedUpTo(c, n, k, f)
              /\ k <= n /\ Shown(c, k)
              /\ k > 0 => KeptLast = c[k]
  BY <1>2
<1>4. /\ f \in (k + 1)..(n + 1)
      /\ call.block = IF f = n + 1 THEN NoBlock ELSE c[f]
      /\ \A i, j \in 1..n : c[i] = c[j] => i = j
      /\ \A i \in f..n : block[c[i]].next = IF i = n THEN NoBlock ELSE c[i + 1]
      /\ heap = {c[i] : i \in (1..k) \cup (f..n)}
      /\ call.fresh = <<>>
  BY <1>3 DEF LoopAt
<1>5. f \in (k + 1)..n /\ f \in 1..n /\ f \in f..n /\ call.block = c[f]
  BY <1>1, <1>4
<1>6. c[f] \in BlockId /\ c[f] \in heap
  BY <1>4, <1>5
<1>7. c[f] \in Held
  BY <1>1, <1>6 DEF Held, Pending
<1>8. state' = "running" /\ regions' \subseteq regions
  <2>1. RegionOf(call.block) \in regions
    BY <1>5, <1>7, OwnRegion DEF StepsInv
  <2> QED
    BY <1>1, <2>1, FreeResult DEF StepsInv
<1>9. /\ heap' = heap \ {c[f]}
      /\ block' = [block EXCEPT ![c[f]] = Blank]
      /\ call' = [call EXCEPT !.block = NextToFree(call.block)]
  BY <1>5, <1>8 DEF FreeBlock
<1>10. PICK next : next = block[c[f]].next
  OBVIOUS
<1>11. /\ call'.at = "free" /\ call'.op = call.op /\ call'.fresh = <<>> /\ call'.block = next
  BY <1>1, <1>4, <1>5, <1>9, <1>10 DEF NextToFree, StepsInv, TypeInv, Locals
<1>12. \A b \in BlockId : b # c[f] => block'[b] = block[b]
  BY <1>6, <1>9 DEF StepsInv, TypeInv
<1>13. next = IF f + 1 = n + 1 THEN NoBlock ELSE c[f + 1]
  BY <1>4, <1>5, <1>10
<1>14. \A i \in (1..k) \cup ((f + 1)..n) : i \in 1..n /\ i # f /\ c[i] # c[f] /\ c[i] \in BlockId
  <2>1. \A i \in (1..k) \cup ((f + 1)..n) : i \in 1..n /\ i # f
    BY <1>5
  <2> QED
    BY <1>4, <1>5, <2>1
<1>15. heap' = {c[i] : i \in (1..k) \cup ((f + 1)..n)}
  <2>1. \A i \in (1..k) \cup (f..n) : i = f \/ i \in (1..k) \cup ((f + 1)..n)
    BY <1>5
  <2>2. \A i \in (1..k) \cup ((f + 1)..n) : i \in (1..k) \cup (f..n)
    BY <1>5
  <2> QED
    BY <1>4, <1>9, <1>14, <2>1, <2>2
<1>16. \A i \in (f + 1)..n : block'[c[i]].next = IF i = n THEN NoBlock ELSE c[i + 1]
  <2>1. \A i \in (f + 1)..n : i \in f..n
    BY <1>5
  <2> QED
    BY <1>4, <1>12, <1>14, <2>1
<1>17. f + 1 \in Nat /\ f + 1 \in (k + 1)..(n + 1)
  BY <1>5
<1>18. LoopAt(c, n, k, f + 1)'
  BY <1>4, <1>11, <1>13, <1>15, <1>16, <1>17 DEF LoopAt
<1>19. Visible = {c[i] : i \in 1..k}
  BY <1>3, LoopShows
<1>20. Visible' = {c[i] : i \in 1..k}
  <2>1. PICK g \in Nat : g = f + 1
    BY <1>17
  <2>2. LoopAt(c, n, k, g)'
    BY <1>18, <2>1
  <2> QED
    BY <2>2, LoopShowsNext
<1>21. Frees(c, n, k, f)
  BY <1>3, <1>4, <1>5, <1>12, <1>18, <1>19, <1>20 DEF Frees
<1>22. heap' \subseteq heap
  BY <1>9
<1> QED
  BY <1>1, <1>8, <1>11, <1>21, <1>22

\* Freeing one block of those the loop frees leaves the others as they were.
LEMMA FreeBlockEffect ==
    ASSUME StepsInv, StepsInv', EffectInv, FreeBlock
    PROVE  EffectInv'
<1>1. LoopInv /\ Filled /\ call.at = "free"
  BY DEF EffectInv, FreeBlock, At
<1>2. /\ call'.at = "free" /\ call'.op = call.op /\ call'.fresh = <<>>
      /\ heap' \subseteq heap /\ UNCHANGED arena
      /\ \E n, k, f \in Nat : \E c \in [1..n -> BlockId] : Frees(c, n, k, f)
  BY <1>1, FreeBlockShows
<1>3. PICK n \in Nat, k \in Nat, f \in Nat : \E c \in [1..n -> BlockId] : Frees(c, n, k, f)
  BY <1>2
<1>4. PICK c \in [1..n -> BlockId] : Frees(c, n, k, f)
  BY <1>3
<1>5. /\ k <= n /\ (k > 0 => KeptLast = c[k]) /\ Visible' = Visible
      /\ \A b \in BlockId : b # c[f] => block'[b] = block[b]
      /\ f \in (k + 1)..n
      /\ \A i, j \in 1..n : c[i] = c[j] => i = j
      /\ FreedUpTo(c, n, k, f) /\ LoopAt(c, n, k, f + 1)'
  BY <1>4 DEF Frees
<1>6. ASSUME call'.op # "destroy" PROVE block'[KeptLast'].next \notin Visible'
  <2>1. call.op \in {"reset", "unwind"}
    BY <1>1, <1>2, <1>6 DEF StepsInv, CallInv
  <2>2. k > 0
    BY <1>5, <2>1 DEF FreedUpTo
  <2>3. KeptLast = c[k] /\ KeptLast' = c[k]
    BY <1>2, <1>5, <2>2 DEF KeptLast
  <2>4. k \in 1..n /\ f \in 1..n /\ k # f
    BY <1>5, <2>2
  <2>5. c[k] \in BlockId /\ c[k] # c[f]
    BY <1>5, <2>4
  <2>6. block[c[k]].next \notin Visible
    BY <1>1, <2>1, <2>3 DEF LoopInv
  <2> QED
    BY <1>5, <2>3, <2>5, <2>6
<1>7. Held = heap /\ Held' = heap'
  BY <1>1, <1>2 DEF Held, Pending
<1>8. \A b \in heap' : b \in BlockId /\ b # c[f]
  <2>1. heap' = {c[i] : i \in (1..k) \cup ((f + 1)..n)}
    BY <1>5 DEF LoopAt
  <2>2. \A i \in (1..k) \cup ((f + 1)..n) : i \in 1..n /\ f \in 1..n /\ i # f
    BY <1>5
  <2> QED
    BY <1>5, <2>1, <2>2
<1>9. Filled'
  <2>1. \A b \in Held' : block'[b].memory = block[b].memory /\ block'[b].capacity # 0
    BY <1>1, <1>2, <1>5, <1>7, <1>8 DEF Filled
  <2>2. \A i \in DOMAIN arena'.snapshots : arena'.snapshots[i].capacity # 0
    BY <1>1, <1>2 DEF Filled
  <2>3. (Open' => Open) /\ arena'.alignment = arena.alignment /\ Held' \subseteq Held
    BY <1>2, <1>7 DEF Open
  <2> QED
    BY <1>1, <2>1, <2>2, <2>3, FilledKept
<1> QED
  BY <1>2, <1>6, <1>9, LoopEffect

\* The header the caller unlinks keeps its other fields.
LEMMA UnlinkedFields ==
    ASSUME block \in [BlockId -> Header], NEW b
    PROVE  \A d \in BlockId : /\ Unlinked(b)[d].memory = block[d].memory
                              /\ Unlinked(b)[d].capacity = block[d].capacity
                              /\ Unlinked(b)[d].allocated = block[d].allocated
BY DEF Unlinked, Header

\* What the callers of the free loop leave when they return.
LEMMA FreeReturnEffect ==
    ASSUME StepsInv, StepsInv', EffectInv, FreeReturn
    PROVE  EffectInv'
<1>1. /\ call.at = "free" /\ call.block = NoBlock /\ arena' = ArenaAfterFree
      /\ call' = NoCall /\ call'.at = "idle" /\ heap' = heap
      /\ block' = CASE call.op = "destroy" -> block
                    [] call.op = "reset" -> Unlinked(arena.memory_block)
                    [] call.op = "unwind" -> Unlinked(arena.top)
  BY DEF FreeReturn, At, NoCall
<1>2. /\ TypeInv /\ CallInv /\ Filled /\ call.op \in {"reset", "destroy", "unwind"} /\ Open
      /\ call.op = "unwind" => arena.snapshots # <<>>
  BY <1>1 DEF StepsInv, CallInv, EffectInv
<1>3. Held = heap /\ Held' = heap /\ heap \subseteq BlockId
  BY <1>1, <1>2 DEF Held, Pending, TypeInv
<1>4. CASE call.op = "destroy"
  <2>1. arena' = NoArena
    BY <1>1, <1>2, <1>4, LeftArena
  <2>2. heap = {}
    <3>1. PICK n \in Nat, k \in Nat, f \in Nat : \E c \in [1..n -> BlockId] :
              /\ f \in (k + 1)..(n + 1)
              /\ heap = {c[i] : i \in (1..k) \cup (f..n)}
              /\ FreedUpTo(c, n, k, f)
      BY <1>1, LoopChain
    <3>2. PICK c \in [1..n -> BlockId] :
              /\ f \in (k + 1)..(n + 1)
              /\ heap = {c[i] : i \in (1..k) \cup (f..n)}
              /\ FreedUpTo(c, n, k, f)
      BY <3>1
    <3>3. k = 0 /\ f \in 1..(n + 1) /\ NoBlock = IF f = n + 1 THEN NoBlock ELSE c[f]
      BY <1>1, <1>4, <3>2 DEF FreedUpTo
    <3>4. f = n + 1
      BY <3>3, BlockAssumption
    <3>5. (1..k) \cup (f..n) = {}
      BY <3>3, <3>4
    <3> QED
      BY <3>2, <3>5
  <2>3. ~Open' /\ arena'.snapshots = <<>>
    BY <2>1 DEF Open, NoArena
  <2>4. Filled'
    BY <1>3, <2>2, <2>3 DEF Filled
  <2> QED
    BY <1>1, <2>4, IdleEffect
<1>5. CASE call.op # "destroy"
  <2>1. arena'.alignment = arena.alignment
    BY <1>1, <1>2, <1>5, LeftArena
  <2>2. \A b \in BlockId : block'[b].memory = block[b].memory /\ block'[b].capacity = block[b].capacity
    <3>1. block \in [BlockId -> Header]
      BY <1>2 DEF TypeInv
    <3>2. \/ block' = Unlinked(arena.memory_block)
          \/ block' = Unlinked(arena.top)
      BY <1>1, <1>2, <1>5
    <3> QED
      BY <3>1, <3>2, UnlinkedFields
  <2>3. \A i \in DOMAIN arena'.snapshots : arena'.snapshots[i].capacity # 0
    <3>1. arena \in Handle /\ arena.snapshots \in Seq(Snapshot)
      BY <1>2 DEF TypeInv, Handle
    <3>2. CASE call.op = "reset"
      <4>1. arena' = [arena EXCEPT !.top = IF IsType("STACK") THEN arena.memory_block ELSE @]
        BY <1>1, <3>2 DEF ArenaAfterFree
      <4>2. arena'.snapshots = arena.snapshots
        BY <3>1, <4>1 DEF Handle
      <4> QED
        BY <1>2, <4>2 DEF Filled
    <3>3. CASE call.op = "unwind"
      <4>1. arena' = [arena EXCEPT
              !.snapshots = Front(@),
              !.max_size = IF Len(arena.snapshots) - 1 < @ \div 4 THEN @ \div 2 ELSE @]
        BY <1>1, <3>3 DEF ArenaAfterFree
      <4>2. arena'.snapshots = Front(arena.snapshots)
        BY <3>1, <4>1 DEF Handle
      <4>3. \A i \in DOMAIN Front(arena.snapshots) :
               i \in DOMAIN arena.snapshots /\ Front(arena.snapshots)[i] = arena.snapshots[i]
        BY <1>2, <3>1, <3>3 DEF Front
      <4> QED
        BY <1>2, <4>2, <4>3 DEF Filled
    <3> QED
      BY <1>2, <1>5, <3>2, <3>3
  <2>4. \A b \in Held' : block'[b].memory = block[b].memory /\ block'[b].capacity # 0
    BY <1>2, <1>3, <2>2 DEF Filled
  <2>5. Filled'
    BY <1>2, <1>3, <2>1, <2>3, <2>4, FilledKept
  <2> QED
    BY <1>1, <2>5, IdleEffect
<1> QED
  BY <1>4, <1>5

\* The invariant holds at first.
LEMMA EffectInit ==
    ASSUME Init
    PROVE  EffectInv
<1>1. ~Open /\ arena.snapshots = <<>> /\ heap = {} /\ call.at = "idle"
  BY DEF Init, Open, NoArena, NoCall
<1>2. Filled
  BY <1>1 DEF Filled, Held
<1> QED
  BY <1>1, <1>2 DEF EffectInv, Asked, GrowthInv, PushInv, LoopInv, Searching

\* Every step keeps it.
LEMMA EffectNext ==
    ASSUME StepsInv, EffectInv, [Next]_svars
    PROVE  EffectInv'
<1>1. StepsInv'
  BY StepsNext
<1>2. CASE UNCHANGED svars
  BY <1>2, QuietEffect DEF svars
<1>3. ASSUME NEW type \in Types, NEW a \in Alignments, NEW size \in InitialSizes,
             Create(type, a, size)
      PROVE  EffectInv'
  BY <1>3, CreateEffect
<1>4. ASSUME NEW size \in Requests, MayRequest, AllocCall(size)
      PROVE  EffectInv'
  BY <1>4, AllocCallEffect
<1>5. CASE Step
  BY <1>1, <1>5, ReturnEffect, AdvanceEffect, MallocHeaderEffect, MapAppendedEffect,
     MapPushedEffect, FreeBlockEffect, FreeReturnEffect DEF Step
<1>6. CASE ResetCall \/ DestroyCall \/ RecordCall \/ UnwindCall
  BY <1>1, <1>6, ResetCallEffect, DestroyCallEffect, RecordCallEffect, UnwindCallEffect
<1> QED
  BY <1>2, <1>3, <1>4, <1>5, <1>6 DEF Next, Call

\* At every step of every call the chain is what the code has appended to it
\* and has still to free: what the refinement shows is well defined.
THEOREM EffectInvariance == Spec => []EffectInv
<1>1. Spec => []StepsInv
  BY StepsInvariance
<1> QED
  BY <1>1, EffectInit, EffectNext, PTL DEF Spec

-------------------------------------------------------------------------------
(* What the refinement shows, step by step.                                  *)

\* What does not change when the refinement shows the same.
LEMMA SameView ==
    ASSUME Visible' = Visible, VisibleArena' = VisibleArena, ChainView' = ChainView,
           \A b \in Visible : /\ block'[b].capacity = block[b].capacity
                              /\ block'[b].allocated = block[b].allocated
                              /\ RegionOf(b)' = RegionOf(b)
    PROVE  UNCHANGED <<Whole!structure, Whole!stackState>>
<1>1. ArenaView' = ArenaView
  BY DEF ArenaView
<1>2. BlockView' = BlockView
  BY DEF BlockView
<1>3. ArrayView' = ArrayView
  BY DEF ArrayView
<1> QED
  BY <1>1, <1>2, <1>3 DEF Whole!structure, Whole!stackState

\* Nor does it where only state and the allocations change.
LEMMA QuietView ==
    ASSUME UNCHANGED <<kernel, arena, heap, block, call>>
    PROVE  UNCHANGED <<Whole!structure, Whole!stackState>>
<1>1. Doomed' = Doomed
  BY DEF Doomed, Path
<1>2. Visible' = Visible
  BY <1>1 DEF Visible
<1>3. VisibleArena' = VisibleArena
  BY DEF VisibleArena, ArenaAfterFree, IsType
<1>4. ChainView' = ChainView
  BY <1>2, <1>3 DEF ChainView, Path
<1>5. \A b : RegionOf(b)' = RegionOf(b)
  BY DEF RegionOf, kernel
<1> QED
  BY <1>2, <1>3, <1>4, <1>5, SameView

\* An abort is one of Arena's.
LEMMA CrashShown ==
    ASSUME NEW code, Crash(code)
    PROVE  Whole!Abort(code)
<1>1. state' = code /\ UNCHANGED <<kernel, arena, heap, block, call, live>>
  BY DEF Crash, Memory!Crash, kernel
<1> QED
  BY <1>1, QuietView DEF Whole!Abort

\* A step that shows nothing.
LEMMA Stutter ==
    ASSUME UNCHANGED <<state, live, Whole!structure, Whole!stackState>>
    PROVE  UNCHANGED Whole!vars
BY DEF Whole!vars

\* The same chain shown before and after a step.
LEMMA SameChain ==
    ASSUME NEW n \in Nat, NEW m \in 0..n, NEW c \in [1..n -> BlockId], Shown(c, m), Shown(c, m)',
           VisibleArena' = VisibleArena,
           \A b \in Visible : /\ block'[b].capacity = block[b].capacity
                              /\ block'[b].allocated = block[b].allocated
                              /\ RegionOf(b)' = RegionOf(b)
    PROVE  UNCHANGED <<Whole!structure, Whole!stackState>>
<1>1. Visible' = Visible
  BY DEF Shown
<1>2. ChainView = First(c, m)
  BY ShownChain
<1>3. ChainView' = First(c, m)
  BY ShownChainNext
<1> QED
  BY <1>1, <1>2, <1>3, SameView

\* An arena is open in Arena exactly when it is here.
LEMMA OpenShown ==
    ASSUME TypeInv, VisibleArena = arena
    PROVE  /\ Whole!Open <=> Open
           /\ ArenaView.allocator_type = arena.allocator_type
           /\ ArenaView.alignment = arena.alignment
           /\ ArenaView.pool_size = arena.pool_size
<1>1. ArenaView = [allocator_type |-> arena.allocator_type, alignment |-> arena.alignment,
                   pool_size |-> arena.pool_size]
  BY DEF ArenaView
<1>2. ASSUME Open PROVE Whole!Open
  <2>1. arena.alignment # 0
    BY <1>2 DEF TypeInv
  <2>2. ArenaView.alignment # 0
    BY <1>1, <2>1
  <2>3. Whole!NullArena.alignment = 0
    BY DEF Whole!NullArena
  <2> QED
    BY <2>2, <2>3 DEF Whole!Open
<1>3. ASSUME ~Open PROVE ~Whole!Open
  BY <1>1, <1>3 DEF Open, NoArena, Whole!Open, Whole!NullArena
<1> QED
  BY <1>1, <1>2, <1>3

\* The fields of a header shown.
LEMMA BlockShown ==
    \A b \in BlockId : /\ b \in Visible => /\ BlockView[b].capacity = block[b].capacity
                                           /\ BlockView[b].allocated = block[b].allocated
                                           /\ BlockView[b].region = RegionOf(b).size
                       /\ b \notin Visible => BlockView[b] = Whole!Blank
BY DEF BlockView, Whole!Blank

\* The room in a block shown.
LEMMA RoomShown ==
    ASSUME StepsInv, Filled, Open, VisibleArena = arena, NEW b \in Held, b \in Visible
    PROVE  /\ Whole!FitsIn(b, call.need) <=> HasRoom(b)
           /\ Whole!TakenBytes(b, call.need) = BytesTaken(b)
           /\ Whole!AlignedOffset(b) = SubW(AlignedAddress(b), block[b].memory)
<1>1. b \in BlockId
  BY DEF Held, StepsInv, TypeInv
<1>2. BlockView[b].capacity = block[b].capacity /\ BlockView[b].allocated = block[b].allocated
  BY <1>1, BlockShown
<1>3. ArenaView.alignment = arena.alignment
  BY OpenShown DEF StepsInv
<1>4. Whole!TakenBytes(b, call.need) = BytesTaken(b)
  BY <1>2, <1>3, RoomOf, SameSums DEF Whole!TakenBytes
<1>5. Whole!AlignedOffset(b) = SubW(AlignedAddress(b), block[b].memory)
  BY <1>2, <1>3, RoomOf, SameSums DEF Whole!AlignedOffset
<1>6. Whole!FitsIn(b, call.need) <=> HasRoom(b)
  BY <1>2, <1>4, SameSums DEF Whole!FitsIn, HasRoom
<1> QED
  BY <1>4, <1>5, <1>6

-------------------------------------------------------------------------------
(* The steps that show nothing.                                              *)

\* A call that looks for room shows the chain it started with.
LEMMA ShownSearching ==
    ASSUME StepsInv, EffectInv, Searching
    PROVE  /\ VisibleArena = arena /\ Visible = heap \ Range(call.fresh)
           /\ Visible \subseteq Held /\ Held \subseteq BlockId
           /\ \E n \in Nat \ {0} : \E m \in 1..n : \E c \in [1..n -> BlockId] : Shown(c, m)
<1>1. VisibleArena = arena /\ Visible = heap \ Range(call.fresh)
  BY DEF Searching, VisibleArena, Visible, Doomed
<1>2. Visible \subseteq Held /\ Held \subseteq BlockId
  <2>1. heap \subseteq BlockId /\ call.fresh \in Seq(BlockId)
    BY DEF StepsInv, TypeInv, Locals
  <2>2. ASSUME call.at = "map" PROVE Last(call.fresh) \in Range(call.fresh)
    <3>1. call.fresh # <<>>
      BY <2>2 DEF StepsInv, CallInv
    <3>2. Len(call.fresh) \in DOMAIN call.fresh
      BY <2>1, <3>1
    <3> QED
      BY <3>2 DEF Last, Range
  <2> QED
    BY <1>1, <2>1, <2>2 DEF Held, Pending
<1>3. CASE IsType("STACK")
  <2>1. \E n \in Nat \ {0} : \E c \in [1..n -> BlockId] : Shown(c, n)
    BY <1>3, ShownStack DEF EffectInv
  <2>2. \A n \in Nat \ {0} : n \in 1..n
    OBVIOUS
  <2>3. \E n \in Nat \ {0} : \E m \in 1..n : \E c \in [1..n -> BlockId] : Shown(c, m)
    BY <2>1, <2>2
  <2> QED
    BY <1>1, <1>2, <2>3
<1>4. CASE ~IsType("STACK")
  <2>1. \E n \in Nat \ {0} : \E m \in 1..n : \E c \in [1..n -> BlockId] : Growing(c, n, m)
    BY <1>4 DEF EffectInv, GrowthInv
  <2>2. \A n \in Nat \ {0} : \A m \in 1..n : \A c \in [1..n -> BlockId] :
           Growing(c, n, m) => Shown(c, m)
    BY ShownGrowing
  <2>3. \E n \in Nat \ {0} : \E m \in 1..n : \E c \in [1..n -> BlockId] : Shown(c, m)
    BY <2>1, <2>2
  <2> QED
    BY <1>1, <1>2, <2>3
<1> QED
  BY <1>3, <1>4

\* The step leaves b, but for a link to a hidden block.
Kept(b) ==
    /\ b \notin Range(call'.fresh)
    /\ block'[b].capacity = block[b].capacity /\ block'[b].allocated = block[b].allocated
    /\ block'[b].memory = block[b].memory
    /\ \/ block'[b].next = block[b].next
       \/ block[b].next = NoBlock /\ block'[b].next \notin Visible

\* A step of a call that looks for room shows nothing when it leaves the blocks
\* shown and links only blocks that are hidden.
LEMMA SearchStutter ==
    ASSUME StepsInv, StepsInv', EffectInv, Searching, Searching',
           UNCHANGED <<state, arena, live>>, regions \subseteq regions',
           Visible \subseteq heap', heap' \subseteq Visible \cup Range(call'.fresh),
           \A b \in Visible : Kept(b)
    PROVE  UNCHANGED Whole!vars
<1>0. \A b \in Visible : /\ b \notin Range(call'.fresh)
                         /\ block'[b].capacity = block[b].capacity
                         /\ block'[b].allocated = block[b].allocated
                         /\ block'[b].memory = block[b].memory
                         /\ \/ block'[b].next = block[b].next
                            \/ block[b].next = NoBlock /\ block'[b].next \notin Visible
  BY DEF Kept
<1>1. VisibleArena' = VisibleArena
  BY DEF Searching, VisibleArena
<1>2. Visible' = Visible /\ Visible' = heap' \ Range(call'.fresh)
  <2>1. Visible' = heap' \ Range(call'.fresh)
    BY DEF Searching, Visible, Doomed
  <2> QED
    BY <1>0, <2>1
<1>3. PICK n \in Nat \ {0} : \E m \in 1..n : \E c \in [1..n -> BlockId] : Shown(c, m)
  BY ShownSearching
<1>4. PICK m \in 1..n : \E c \in [1..n -> BlockId] : Shown(c, m)
  BY <1>3
<1>5. PICK c \in [1..n -> BlockId] : Shown(c, m)
  BY <1>4
<1>6. m > 0 /\ m \in 0..n /\ m \in 1..m /\ \A i \in 1..m : i \in 1..n /\ (i # m => i + 1 \in 1..n)
  OBVIOUS
<1>7. /\ \A i \in 1..m : c[i] \in Visible
      /\ \A i \in 1..m : i # m => block[c[i]].next = c[i + 1]
      /\ block[c[m]].next \notin Visible
  BY <1>5, <1>6 DEF Shown, Leads
<1>8. \A i \in 1..m : i # m => block'[c[i]].next = block[c[i]].next
  BY <1>0, <1>6, <1>7, BlockAssumption
<1>9. block'[c[m]].next \notin Visible
  BY <1>0, <1>6, <1>7
<1>10. Shown(c, m)'
  BY <1>1, <1>2, <1>5, <1>6, <1>8, <1>9, ShownKept
<1>11. ASSUME NEW b \in Visible PROVE RegionOf(b)' = RegionOf(b)
  <2>1. b \in Held
    BY ShownSearching
  <2>2. b \in Held'
    <3>1. call'.at = "map" => Last(call'.fresh) \in Range(call'.fresh)
      <4>1. ASSUME call'.at = "map" PROVE Last(call'.fresh) \in Range(call'.fresh)
        <5>1. call'.fresh \in Seq(BlockId) /\ call'.fresh # <<>>
          BY <4>1 DEF StepsInv, TypeInv, Locals, CallInv
        <5>2. Len(call'.fresh) \in DOMAIN call'.fresh
          BY <5>1
        <5> QED
          BY <5>2 DEF Last, Range
      <4> QED
        BY <4>1
    <3> QED
      BY <1>2, <3>1 DEF Held, Pending
  <2> QED
    BY <1>0, <2>1, <2>2, RegionKept
<1>12. UNCHANGED <<Whole!structure, Whole!stackState>>
  BY <1>0, <1>1, <1>5, <1>6, <1>10, <1>11, SameChain
<1> QED
  BY <1>12, Stutter

\* Looking at the next block.
LEMMA AdvanceShown ==
    ASSUME StepsInv, StepsInv', EffectInv, Advance
    PROVE  UNCHANGED Whole!vars
<1>1. /\ call.at = "visit" /\ call' = [call EXCEPT !.block = NextToVisit(call.block)]
      /\ UNCHANGED <<state, kernel, arena, heap, block, live>>
  BY DEF Advance, At
<1>2. call'.at = "visit" /\ call'.fresh = call.fresh
  BY <1>1 DEF StepsInv, TypeInv, Locals
<1>3. Searching /\ Searching' /\ regions' = regions
  BY <1>1, <1>2 DEF Searching, kernel
<1>4. Visible = heap \ Range(call.fresh)
  BY <1>3, ShownSearching
<1>5. \A b \in Visible : Kept(b)
  BY <1>1, <1>2, <1>4 DEF Kept
<1>6. Visible \subseteq heap' /\ heap' \subseteq Visible \cup Range(call'.fresh)
  BY <1>1, <1>2, <1>4
<1> QED
  BY <1>1, <1>3, <1>5, <1>6, SearchStutter

\* A header appended is hidden as long as the call goes on.
LEMMA MallocHeaderShown ==
    ASSUME StepsInv, StepsInv', EffectInv,
           call.at = "visit", block[call.block].next = NoBlock, NEW new \in BlockId \ heap,
           heap' = heap \cup {new},
           block' = IF IsType("STACK") THEN block
                    ELSE [block EXCEPT ![call.block].next = new],
           call' = [call EXCEPT !.at = "map", !.fresh = Append(@, new)],
           UNCHANGED <<state, kernel, arena, live>>
    PROVE  UNCHANGED Whole!vars
<1>1. block \in [BlockId -> Header] /\ call \in Locals
  BY DEF StepsInv, TypeInv
<1>2. call'.at = "map" /\ call'.fresh = Append(call.fresh, new) /\ call.fresh \in Seq(BlockId)
  BY <1>1 DEF Locals
<1>3. Searching /\ Searching' /\ regions' = regions
  BY <1>2 DEF Searching, kernel
<1>4. Visible = heap \ Range(call.fresh) /\ heap \subseteq BlockId
  BY <1>3, ShownSearching DEF StepsInv, TypeInv
<1>5. Range(call'.fresh) = Range(call.fresh) \cup {new}
  <2>1. \A s \in Seq(BlockId) : \A b \in BlockId :
           /\ DOMAIN Append(s, b) = DOMAIN s \cup {Len(s) + 1}
           /\ Append(s, b)[Len(s) + 1] = b
           /\ \A i \in DOMAIN s : Append(s, b)[i] = s[i]
    OBVIOUS
  <2> QED
    BY <1>2, <2>1 DEF Range
<1>6. \A b \in BlockId : /\ block'[b].capacity = block[b].capacity
                         /\ block'[b].allocated = block[b].allocated
                         /\ block'[b].memory = block[b].memory
                         /\ \/ block'[b].next = block[b].next
                            \/ b = call.block /\ block'[b].next = new
  BY <1>1 DEF Header
<1>7. \A b \in Visible : b \notin Range(call'.fresh) /\ b \in BlockId
  BY <1>4, <1>5
<1>8. heap' \subseteq Visible \cup Range(call'.fresh) /\ Visible \subseteq heap' /\ new \notin Visible
  BY <1>4, <1>5
<1>9. \A b \in Visible : \/ block'[b].next = block[b].next
                         \/ block[b].next = NoBlock /\ block'[b].next \notin Visible
  BY <1>6, <1>7, <1>8
<1>10. \A b \in Visible : Kept(b)
  BY <1>6, <1>7, <1>9 DEF Kept
<1> QED
  BY <1>3, <1>8, <1>10, SearchStutter

\* So is the region it gets.
LEMMA MapAppendedShown ==
    ASSUME StepsInv, StepsInv', EffectInv, MapAppended, state' = "running"
    PROVE  UNCHANGED Whole!vars
<1>1. /\ call.at = "map" /\ state = "running" /\ UNCHANGED <<arena, heap, live>>
      /\ block' = [block EXCEPT ![Last(call.fresh)] =
            [Blank EXCEPT !.memory = NewPointer, !.capacity = GrownCapacity]]
      /\ call' = [call EXCEPT !.at = "visit", !.block = NextToVisit(call.block)]
  BY DEF MapAppended, MapRegion, At
<1>2. block \in [BlockId -> Header] /\ call \in Locals
  BY DEF StepsInv, TypeInv
<1>3. call'.at = "visit" /\ call'.fresh = call.fresh /\ call.fresh \in Seq(BlockId)
  BY <1>1, <1>2 DEF Locals
<1>4. Searching /\ Searching'
  BY <1>1, <1>3 DEF Searching
<1>5. regions \subseteq regions'
  <2>1. call.block \in BlockId
    <3>1. ~IsType("STACK")
      BY DEF MapAppended
    <3>2. PICK n \in Nat \ {0} : \E c \in [1..n -> BlockId] : WholeChain(c, n, 0, 1)
      BY <1>1, PendingChain
    <3>3. PICK c \in [1..n -> BlockId] : WholeChain(c, n, 0, 1)
      BY <3>2
    <3>4. call.block = c[n - 1] /\ n - 1 \in 1..n
      BY <1>1, <3>1, <3>3 DEF WholeChain
    <3> QED
      BY <3>4
  <2> QED
    BY <2>1, GrowResult DEF MapAppended
<1>6. Visible = heap \ Range(call.fresh) /\ heap \subseteq BlockId
  BY <1>4, ShownSearching DEF StepsInv, TypeInv
<1>7. Last(call.fresh) \in Range(call.fresh)
  <2>1. call.fresh # <<>>
    BY <1>1 DEF StepsInv, CallInv
  <2>2. Len(call.fresh) \in DOMAIN call.fresh
    BY <1>3, <2>1
  <2> QED
    BY <2>2 DEF Last, Range
<1>8. \A b \in Visible : b \in BlockId /\ b \notin Range(call'.fresh) /\ b # Last(call.fresh)
  BY <1>3, <1>6, <1>7
<1>9. \A b \in Visible : block'[b] = block[b]
  BY <1>1, <1>2, <1>8
<1>10. heap' \subseteq Visible \cup Range(call'.fresh) /\ Visible \subseteq heap'
  BY <1>1, <1>3, <1>6
<1>11. \A b \in Visible : Kept(b)
  BY <1>8, <1>9 DEF Kept
<1>12. UNCHANGED <<state, arena, live>>
  BY <1>1
<1> QED
  BY <1>4, <1>5, <1>10, <1>11, <1>12, SearchStutter

\* Freeing a block that is hidden already shows nothing.
LEMMA FreeBlockShown ==
    ASSUME StepsInv, StepsInv', EffectInv, FreeBlock
    PROVE  UNCHANGED Whole!vars
<1>1. LoopInv /\ call.at = "free" /\ state = "running"
  BY DEF EffectInv, FreeBlock, At
<1>2. /\ state' = "running" /\ call'.at = "free" /\ call'.op = call.op
      /\ regions' \subseteq regions /\ UNCHANGED <<arena, live>>
      /\ heap' \subseteq heap
      /\ \E n, k, f \in Nat : \E c \in [1..n -> BlockId] : Frees(c, n, k, f)
  BY <1>1, FreeBlockShows
<1>3. PICK n \in Nat, k \in Nat, f \in Nat : \E c \in [1..n -> BlockId] : Frees(c, n, k, f)
  BY <1>2
<1>4. PICK c \in [1..n -> BlockId] : Frees(c, n, k, f)
  BY <1>3
<1>5. /\ k <= n /\ Shown(c, k) /\ (k > 0 => KeptLast = c[k])
      /\ Visible' = Visible /\ Visible = {c[i] : i \in 1..k}
      /\ \A b \in BlockId : b # c[f] => block'[b] = block[b]
      /\ f \in (k + 1)..n
      /\ \A i, j \in 1..n : c[i] = c[j] => i = j
      /\ LoopAt(c, n, k, f + 1)'
  BY <1>4 DEF Frees
<1>6. VisibleArena' = VisibleArena
  BY <1>1, <1>2 DEF VisibleArena, ArenaAfterFree, IsType
<1>7. \A i \in 1..k : i \in 1..n /\ c[i] \in BlockId /\ c[i] # c[f] /\ block'[c[i]] = block[c[i]]
  <2>1. \A i \in 1..k : i \in 1..n /\ f \in 1..n /\ i # f
    BY <1>5
  <2> QED
    BY <1>5, <2>1
<1>8. k \in 0..n /\ (k > 0 => k \in 1..k)
  BY <1>5
<1>9. k > 0 => block'[c[k]].next \notin Visible
  BY <1>5, <1>7, <1>8 DEF Shown, Leads
<1>10. Shown(c, k)'
  BY <1>5, <1>6, <1>7, <1>8, <1>9, ShownKept
<1>11. Held = heap /\ Held' = heap'
  BY <1>1, <1>2 DEF Held, Pending
<1>12. heap' = {c[i] : i \in (1..k) \cup ((f + 1)..n)}
  BY <1>5 DEF LoopAt
<1>13. \A b \in Visible : b \in Held /\ b \in Held' /\ block'[b] = block[b]
  <2>1. \A i \in 1..k : c[i] \in heap'
    BY <1>12
  <2> QED
    BY <1>2, <1>5, <1>7, <1>11, <2>1
<1>14. \A b \in Visible : RegionOf(b)' = RegionOf(b)
  BY <1>2, <1>13, RegionKept
<1>15. UNCHANGED <<Whole!structure, Whole!stackState>>
  BY <1>5, <1>6, <1>8, <1>10, <1>13, <1>14, SameChain
<1> QED
  BY <1>1, <1>2, <1>15, Stutter

\* What the caller of the loop leaves in *arena and in the last block it keeps
\* is what the refinement has shown since the call began.
LEMMA FreeReturnShown ==
    ASSUME StepsInv, StepsInv', EffectInv, FreeReturn
    PROVE  UNCHANGED Whole!vars
<1>1. /\ call.at = "free" /\ call.block = NoBlock /\ arena' = ArenaAfterFree
      /\ call'.at = "idle" /\ call'.fresh = <<>> /\ UNCHANGED <<state, kernel, heap, live>>
      /\ block' = CASE call.op = "destroy" -> block
                    [] call.op = "reset" -> Unlinked(arena.memory_block)
                    [] call.op = "unwind" -> Unlinked(arena.top)
  BY DEF FreeReturn, At, NoCall
<1>2. /\ block \in [BlockId -> Header] /\ LoopInv /\ NoBlock \notin heap /\ heap \subseteq BlockId
      /\ call.op \in {"reset", "destroy", "unwind"} /\ call.fresh = <<>>
  BY <1>1, BlockAssumption DEF StepsInv, TypeInv, CallInv, EffectInv, LoopInv
<1>3. Visible = heap /\ Visible' = heap /\ VisibleArena' = VisibleArena
  <2>1. Doomed = {} /\ Doomed' = {}
    <3>1. Path(call.block, heap) = <<>>
      BY <1>1, <1>2, NoPath
    <3> QED
      BY <1>1, <3>1 DEF Doomed, Range
  <2>2. Range(<<>>) = {}
    BY DEF Range
  <2>3. VisibleArena' = VisibleArena
    BY <1>1 DEF VisibleArena
  <2> QED
    BY <1>1, <1>2, <2>1, <2>2, <2>3 DEF Visible
<1>4. PICK n \in Nat, k \in Nat, f \in Nat : \E c \in [1..n -> BlockId] :
              /\ FreedUpTo(c, n, k, f)
              /\ k <= n /\ Shown(c, k)
              /\ k > 0 => KeptLast = c[k]
  BY <1>1, <1>2, ShownLoop
<1>5. PICK c \in [1..n -> BlockId] :
              /\ FreedUpTo(c, n, k, f)
              /\ k <= n /\ Shown(c, k)
              /\ k > 0 => KeptLast = c[k]
  BY <1>4
<1>6. \A b \in BlockId : /\ block'[b].memory = block[b].memory
                         /\ block'[b].capacity = block[b].capacity
                         /\ block'[b].allocated = block[b].allocated
  <2>1. \/ block' = block
        \/ block' = Unlinked(arena.memory_block)
        \/ block' = Unlinked(arena.top)
    BY <1>1, <1>2
  <2> QED
    BY <1>2, <2>1, UnlinkedFields
<1>7. \A b \in BlockId : k > 0 => /\ b # c[k] => block'[b].next = block[b].next
                                  /\ b = c[k] => block'[b].next = NoBlock
  <2>1. ASSUME k > 0 PROVE block' = Unlinked(c[k]) /\ c[k] \in BlockId
    <3>1. call.op \in {"reset", "unwind"} /\ KeptLast = c[k] /\ k \in 1..n
      BY <1>2, <1>5, <2>1 DEF FreedUpTo
    <3>2. block' = Unlinked(KeptLast)
      BY <1>1, <3>1 DEF KeptLast
    <3> QED
      BY <3>1, <3>2
  <2> QED
    BY <1>2, <2>1 DEF Unlinked, Header
<1>8. k \in 0..n /\ \A i \in 1..k : i \in 1..n /\ k \in 1..k /\ c[i] \in BlockId
  BY <1>5
<1>9. \A i \in 1..k : i # k => c[i] # c[k]
  BY <1>5, <1>8 DEF Shown, Leads
<1>10. Shown(c, k)'
  <2>1. \A i \in 1..k : i # k => block'[c[i]].next = block[c[i]].next
    BY <1>7, <1>8, <1>9
  <2>2. k > 0 => block'[c[k]].next \notin Visible
    <3>1. k > 0 => k \in 1..k
      BY <1>8
    <3> QED
      BY <1>2, <1>3, <1>7, <1>8, <3>1
  <2> QED
    BY <1>3, <1>5, <1>8, <2>1, <2>2, ShownKept
<1>11. Held = heap /\ Held' = heap /\ regions' = regions
  BY <1>1 DEF Held, Pending, kernel
<1>12. \A b \in Visible : b \in BlockId /\ RegionOf(b)' = RegionOf(b)
  BY <1>2, <1>3, <1>6, <1>11, RegionKept
<1>13. UNCHANGED <<Whole!structure, Whole!stackState>>
  BY <1>3, <1>5, <1>6, <1>8, <1>10, <1>12, SameChain
<1> QED
  BY <1>1, <1>13, Stutter

-------------------------------------------------------------------------------
(* The steps at which a call takes effect in Arena.                          *)

\* What safe_aligned_alloc aborts with.
LEMMA AllocCrashCode ==
    ASSUME NEW size, NEW a, Memory!SafeAlignedAlloc(size, a), state' # "running"
    PROVE  /\ UNCHANGED kernel
           /\ \/ state' = "E101" /\ size = 0
              \/ state' = "E102" /\ ~IsPowerOfTwo(a)
              \/ state' = "E103" /\ size # 0 /\ IsPowerOfTwo(a) /\ a > AlignLimit
              \/ state' = "E104" /\ size # 0 /\ IsPowerOfTwo(a) /\ ~(a > AlignLimit)
<1>1. UNCHANGED kernel
  BY AllocCrash
<1>2. state' = Memory!AllocError(size, a) /\ Memory!AllocError(size, a) # "none"
  BY DEF Memory!SafeAlignedAlloc, Memory!Crash
<1>3. Memory!IsPowerOfTwo(a) <=> IsPowerOfTwo(a)
  BY SameWords
<1> QED
  BY <1>1, <1>2, <1>3 DEF Memory!AllocError

\* Where Arena may run out of memory.
LEMMA CreateMayFail ==
    ASSUME NEW type, NEW a, NEW size, ArgumentError(type, a, size) = "none"
    PROVE  Whole!CreateError(type, a, size) \notin Whole!ArgumentErrors
BY SameSums DEF ArgumentError, Whole!CreateError, Whole!ArgumentErrors

\* memory_arena_create.
LEMMA CreateShown ==
    ASSUME StepsInv, StepsInv', NEW type \in Types, NEW a \in Alignments, NEW size \in InitialSizes,
           Create(type, a, size)
    PROVE  Whole!Create(type, a, size)
<1>1. /\ call = NoCall /\ state = "running" /\ ~Open /\ TypeInv
      /\ call.at = "idle" /\ call.fresh = <<>>
  BY DEF Create, Idle, StepsInv, NoCall
<1>2. Visible = heap /\ VisibleArena = arena /\ heap = {}
  BY <1>1, ShownIdle, IdleFacts
<1>3. ~Whole!Open /\ Whole!Running
  BY <1>1, <1>2, OpenShown DEF Whole!Running
<1>4. CASE ArgumentError(type, a, size) # "none" /\ Crash(ArgumentError(type, a, size))
  <2>1. Whole!CreateError(type, a, size) = ArgumentError(type, a, size)
    BY <1>4, SameSums DEF ArgumentError, Whole!CreateError
  <2>2. Whole!Abort(Whole!CreateError(type, a, size))
    BY <1>4, <2>1, CrashShown
  <2> QED
    BY <1>3, <1>4, <2>1, <2>2 DEF Whole!Create
<1>5. CASE ArgumentError(type, a, size) = "none" /\ Crash("E104")
  BY <1>3, <1>5, CreateMayFail, CrashShown DEF Whole!Create
<1>6. CASE ArgumentError(type, a, size) = "none" /\ type = "OTHER" /\ Crash("E501")
  <2>1. Whole!CreateError(type, a, size) = "E501"
    BY <1>6, SameSums DEF ArgumentError, Whole!CreateError
  <2>2. Whole!Abort(Whole!CreateError(type, a, size))
    BY <1>6, <2>1, CrashShown
  <2> QED
    BY <1>3, <2>1, <2>2 DEF Whole!Create
<1>7. CASE /\ ArgumentError(type, a, size) = "none" /\ type # "OTHER"
           /\ Memory!SafeAlignedAlloc(AlignUp(size, a), a) /\ state' # "running"
           /\ UNCHANGED <<arena, heap, block, call, live>>
  <2>1. Crash(state')
    BY <1>7, AllocCrashCode DEF Crash, Memory!Crash, kernel
  <2>2. PICK code : code = state' /\ Whole!Abort(code)
    BY <2>1, CrashShown
  <2>3. IsPowerOfTwo(a)
    BY <1>7 DEF ArgumentError
  <2>4. CASE code = "E104"
    BY <1>3, <1>7, <2>2, <2>4, CreateMayFail DEF Whole!Create
  <2>5. CASE code # "E104"
    <3>1. Whole!CreateError(type, a, size) = code /\ code # "none"
      BY <1>7, <2>2, <2>3, <2>5, AllocCrashCode, SameSums DEF ArgumentError, Whole!CreateError
    <3> QED
      BY <1>3, <2>2, <3>1 DEF Whole!Create
  <2> QED
    BY <2>4, <2>5
<1>8. CASE /\ ArgumentError(type, a, size) = "none" /\ type # "OTHER"
           /\ Memory!SafeAlignedAlloc(AlignUp(size, a), a) /\ state' = "running"
           /\ UNCHANGED <<call, live>>
           /\ \E head \in BlockId :
                /\ heap' = {head}
                /\ block' = [block EXCEPT ![head] =
                      [Blank EXCEPT !.memory = NewPointer, !.capacity = AlignUp(size, a)]]
                /\ arena' = [NoArena EXCEPT
                      !.allocator_type = type, !.alignment = a, !.memory_block = head,
                      !.pool_size = IF type = "POOL" THEN size ELSE 0,
                      !.top = IF type = "STACK" THEN head ELSE NoBlock,
                      !.max_size = IF type = "STACK" THEN InitialSlots ELSE 0]
  <2> DEFINE capacity == AlignUp(size, a)
  <2>1. PICK head \in BlockId :
                /\ heap' = {head}
                /\ block' = [block EXCEPT ![head] =
                      [Blank EXCEPT !.memory = NewPointer, !.capacity = capacity]]
                /\ arena' = [NoArena EXCEPT
                      !.allocator_type = type, !.alignment = a, !.memory_block = head,
                      !.pool_size = IF type = "POOL" THEN size ELSE 0,
                      !.top = IF type = "STACK" THEN head ELSE NoBlock,
                      !.max_size = IF type = "STACK" THEN InitialSlots ELSE 0]
    BY <1>8
  <2>2. PICK p \in Nat : /\ NewPointer = p
                         /\ regions' = {[ptr |-> p, size |-> capacity, alignment |-> a]}
    BY <1>1, <1>8, CreateResult DEF Create
  <2>3. a \in 1..AlignLimit /\ Mappable(capacity, a) /\ capacity # 0 /\ size # 0 /\ IsPowerOfTwo(a)
    BY <1>1, <1>8, CreateResult, AllocMapped DEF Create, ArgumentError
  <2>4. Whole!CreateError(type, a, size) = "none"
    <3>1. ~(a > AlignLimit)
      BY <2>3, Constants
    <3> QED
      BY <1>8, <2>3, <3>1, SameSums DEF ArgumentError, Whole!CreateError
  <2>5. block'[head] = [memory |-> p, next |-> NoBlock, capacity |-> capacity, allocated |-> 0]
    <3>1. block \in [BlockId -> Header]
      BY <1>1 DEF TypeInv
    <3>2. block'[head] = [Blank EXCEPT !.memory = p, !.capacity = capacity]
      BY <2>1, <2>2, <3>1
    <3> QED
      BY <3>2, FilledHeader
  <2>6. /\ arena'.allocator_type = type /\ arena'.alignment = a /\ arena'.memory_block = head
        /\ arena'.pool_size = (IF type = "POOL" THEN size ELSE 0)
        /\ arena'.top = (IF type = "STACK" THEN head ELSE NoBlock)
        /\ arena'.max_size = (IF type = "STACK" THEN InitialSlots ELSE 0)
        /\ arena'.snapshots = <<>>
    BY <2>1 DEF NoArena
  <2>7. Visible' = {head} /\ VisibleArena' = arena'
    <3>1. call'.at = "idle" /\ call'.fresh = <<>>
      BY <1>1, <1>8
    <3>2. Range(<<>>) = {}
      BY DEF Range
    <3> QED
      BY <2>1, <3>1, <3>2 DEF Visible, Doomed, VisibleArena
  <2>8. ChainView' = <<head>>
    <3>1. PICK c \in [1..1 -> BlockId] : c = [i \in 1..1 |-> head] /\ c[1] = head
      <4> DEFINE e == [i \in 1..1 |-> head]
      <4>1. e \in [1..1 -> BlockId] /\ e[1] = head
        OBVIOUS
      <4> QED
        BY <4>1
    <3>2. block'[head].next \notin {head}
      BY <2>5, BlockAssumption
    <3>3. Visible' = {c[i] : i \in 1..1}
      BY <2>7, <3>1
    <3>4. Leads(c, 1, Visible)'
      BY <2>7, <3>1, <3>2 DEF Leads
    <3>5. Shown(c, 1)'
      BY <2>6, <2>7, <3>1, <3>3, <3>4 DEF Shown
    <3>6. 1 \in 0..1 /\ 1 \in Nat
      OBVIOUS
    <3>7. ChainView' = First(c, 1)
      BY <3>5, <3>6, ShownChainNext
    <3> QED
      BY <3>1, <3>7 DEF First
  <2>9. BlockView' = [BlockView EXCEPT ![head] = Whole!NewBlock(capacity, a, 0)]
    <3>1. RegionOf(head)'.size = capacity
      <4>1. regions = {}
        <5>1. Held = {}
          BY <1>2 DEF Held
        <5> QED
          BY <5>1 DEF StepsInv, Paired
      <4>2. regions' = regions \cup {[ptr |-> p, size |-> capacity, alignment |-> a]}
        BY <2>2, <4>1
      <4>3. block'[head].memory = p
        BY <2>5
      <4> QED
        BY <4>1, <4>2, <4>3, NewRegion
    <3>2. \A b \in BlockId : BlockView'[b] =
             IF b = head THEN [capacity |-> capacity, allocated |-> 0, region |-> capacity]
             ELSE [capacity |-> 0, allocated |-> 0, region |-> 0]
      BY <2>5, <2>7, <3>1 DEF BlockView
    <3>3. \A b \in BlockId : BlockView[b] = [capacity |-> 0, allocated |-> 0, region |-> 0]
      BY <1>2 DEF BlockView
    <3>4. DOMAIN BlockView = BlockId /\ DOMAIN BlockView' = BlockId
      BY DEF BlockView
    <3>5. BlockView' = [b \in BlockId |-> BlockView'[b]]
      BY DEF BlockView
    <3>6. BlockView = [b \in BlockId |-> BlockView[b]]
      BY DEF BlockView
    <3>7. Whole!NewBlock(capacity, a, 0) = [capacity |-> capacity, allocated |-> 0, region |-> capacity]
      <4>1. capacity \in Nat /\ capacity <= MmapLimit
        BY <1>1, <1>8, CreateResult DEF Create
      <4>2. capacity \in 0..MmapLimit
        BY <4>1, Constants
      <4> QED
        BY <2>3, <4>2, NewBlockShown
    <3> QED
      BY <3>2, <3>3, <3>4, <3>5, <3>6, <3>7
  <2>10. ArrayView' = IF type = "STACK" THEN "ok" ELSE "null"
    BY <2>6, <2>7, BlockAssumption DEF ArrayView
  <2>11. ArenaView' = [allocator_type |-> type, alignment |-> a,
                       pool_size |-> IF type = "POOL" THEN size ELSE 0]
    BY <2>6, <2>7 DEF ArenaView
  <2>12. /\ VisibleArena'.top = (IF type = "STACK" THEN head ELSE NoBlock)
         /\ VisibleArena'.snapshots = <<>>
         /\ VisibleArena'.max_size = IF type = "STACK" THEN InitialSlots ELSE 0
    BY <2>6, <2>7
  <2>13. \E h \in BlockId :
            /\ Visible' = {h} /\ ChainView' = <<h>>
            /\ BlockView' = [BlockView EXCEPT ![h] = Whole!NewBlock(Whole!AlignUp(size, a), a, 0)]
            /\ VisibleArena'.top = IF type = "STACK" THEN h ELSE NoBlock
    BY <2>7, <2>8, <2>9, <2>12, SameSums
  <2> QED
    BY <1>1, <1>3, <1>8, <2>4, <2>10, <2>11, <2>12, <2>13 DEF Whole!Create
<1> QED
  BY <1>4, <1>5, <1>6, <1>7, <1>8 DEF Create

\* The checks ahead of an allocation are Arena's.
LEMMA AllocErrorShown ==
    ASSUME StepsInv, Idle, NEW size
    PROVE  Whole!AllocError(size) = AllocError(size)
<1>1. /\ call = NoCall /\ TypeInv
  BY DEF Idle, StepsInv
<1>2. VisibleArena = arena
  BY <1>1, ShownIdle
<1>3. /\ Whole!Open <=> Open
      /\ ArenaView.allocator_type = arena.allocator_type /\ ArenaView.alignment = arena.alignment
  BY <1>1, <1>2, OpenShown
<1>4. ASSUME Open, IsType("STACK")
      PROVE  block[arena.top].next # NoBlock <=> arena.top # Whole!Last(ChainView)
  <2>1. PICK n \in Nat : \E c \in [1..n -> BlockId] :
                 /\ Shown(c, n)
                 /\ \A i, j \in 1..n : c[i] = c[j] => i = j
                 /\ \A i \in 1..n : block[c[i]].next = IF i = n THEN NoBlock ELSE c[i + 1]
                 /\ Open <=> n > 0
                 /\ Open /\ IsType("STACK") => \E i \in 1..n : arena.top = c[i]
    BY <1>1, ShownIdle
  <2>2. PICK c \in [1..n -> BlockId] :
                 /\ Shown(c, n)
                 /\ \A i, j \in 1..n : c[i] = c[j] => i = j
                 /\ \A i \in 1..n : block[c[i]].next = IF i = n THEN NoBlock ELSE c[i + 1]
                 /\ Open <=> n > 0
                 /\ Open /\ IsType("STACK") => \E i \in 1..n : arena.top = c[i]
    BY <2>1
  <2>3. n > 0 /\ n \in 0..n /\ n \in 1..n
    BY <1>4, <2>2
  <2>4. PICK i \in 1..n : arena.top = c[i]
    BY <1>4, <2>2
  <2>5. Whole!Last(ChainView) = c[n]
    BY <2>2, <2>3, ShownChain, SameSequences
  <2>6. i # n => c[i + 1] \in BlockId /\ c[i] # c[n]
    BY <2>2, <2>3
  <2> QED
    BY <2>2, <2>4, <2>5, <2>6, BlockAssumption
<1> QED
  BY <1>2, <1>3, <1>4 DEF AllocError, Whole!AllocError, IsType

\* The head of a memory_arena_alloc: an abort, or nothing to be seen yet.
LEMMA AllocCallShown ==
    ASSUME StepsInv, NEW size \in Requests, MayRequest, AllocCall(size)
    PROVE  (Whole!MayRequest /\ Whole!Alloc(size)) \/ UNCHANGED Whole!vars
<1>1. Idle /\ call = NoCall /\ call.at = "idle" /\ call.fresh = <<>> /\ Whole!Running
  BY DEF AllocCall, Idle, NoCall, Whole!Running
<1>2. Whole!MayRequest
  BY SameSequences DEF MayRequest, Whole!MayRequest
<1>3. CASE AllocError(size) # "none" /\ Crash(AllocError(size))
  <2>1. Whole!AllocError(size) = AllocError(size)
    BY <1>1, AllocErrorShown
  <2>2. Whole!Abort(Whole!AllocError(size))
    BY <1>3, <2>1, CrashShown
  <2> QED
    BY <1>1, <1>2, <1>3, <2>1, <2>2 DEF Whole!Alloc, Whole!AllocAborts
<1>4. CASE /\ call' = [NoCall EXCEPT
                 !.at = "visit", !.op = "alloc", !.size = size, !.need = BytesNeeded(size),
                 !.block = IF IsType("STACK") THEN arena.top ELSE arena.memory_block]
           /\ UNCHANGED <<state, kernel, arena, heap, block, live>>
  <2>1. call'.at = "visit" /\ call'.fresh = <<>>
    BY <1>4 DEF NoCall
  <2>2. Visible' = Visible /\ VisibleArena' = VisibleArena
    BY <1>1, <1>4, <2>1 DEF Visible, Doomed, VisibleArena
  <2>3. ChainView' = ChainView
    BY <1>4, <2>2 DEF ChainView, Path
  <2>4. \A b : RegionOf(b)' = RegionOf(b)
    BY <1>4 DEF RegionOf, kernel
  <2>5. UNCHANGED <<Whole!structure, Whole!stackState>>
    BY <1>4, <2>2, <2>3, <2>4, SameView
  <2> QED
    BY <1>4, <2>5, Stutter
<1> QED
  BY <1>3, <1>4 DEF AllocCall

\* A request being served has passed Arena's checks.
LEMMA SearchAllowed ==
    ASSUME StepsInv, EffectInv, Searching, state = "running"
    PROVE  /\ Whole!Running /\ Whole!MayRequest /\ call.size \in Requests
           /\ Whole!AllocError(call.size) = "none"
           /\ Whole!ChainSize(call.size) = call.need
           /\ ~IsType("POOL") => call.need = call.size
           /\ ArenaView.allocator_type = arena.allocator_type
           /\ ArenaView.alignment = arena.alignment
           /\ Open /\ VisibleArena = arena
<1>1. Open /\ VisibleArena = arena /\ TypeInv
  BY ShownSearching DEF Searching, StepsInv, CallInv
<1>2. /\ Whole!Open
      /\ ArenaView.allocator_type = arena.allocator_type /\ ArenaView.alignment = arena.alignment
      /\ ArenaView.pool_size = arena.pool_size
  BY <1>1, OpenShown
<1>3. /\ call.size \in Requests /\ Cardinality(live) < LiveBound
      /\ call.need = BytesNeeded(call.size)
      /\ ~(arena.alignment < MaxAlign) /\ call.size # 0
  BY DEF EffectInv, Asked
<1>4. ASSUME IsType("STACK") PROVE arena.top = Whole!Last(ChainView)
  <2>1. PICK n \in Nat \ {0} : \E c \in [1..n -> BlockId] : Shown(c, n) /\ arena.top = c[n]
    BY <1>4, ShownStack DEF EffectInv
  <2>2. PICK c \in [1..n -> BlockId] : Shown(c, n) /\ arena.top = c[n]
    BY <2>1
  <2>3. n \in 0..n /\ n > 0 /\ n \in Nat
    OBVIOUS
  <2> QED
    BY <2>2, <2>3, ShownChain, SameSequences
<1>5. Whole!AllocError(call.size) = "none"
  BY <1>1, <1>2, <1>3, <1>4 DEF Whole!AllocError, IsType
<1>6. Whole!ChainSize(call.size) = call.need
  BY <1>2, <1>3, SameSums DEF Whole!ChainSize, Whole!PoolAlignedSize, BytesNeeded, IsType
<1>7. ~IsType("POOL") => call.need = call.size
  BY <1>3 DEF BytesNeeded
<1>8. Whole!MayRequest /\ Whole!Running
  BY <1>3, SameSequences DEF Whole!MayRequest, Whole!Running
<1> QED
  BY <1>1, <1>2, <1>3, <1>5, <1>6, <1>7, <1>8

\* A call that has come to the end of its chain may run out of memory in Arena.
LEMMA Exhausted ==
    ASSUME StepsInv, EffectInv, Searching, state = "running", ~IsType("SCRATCH"),
           call.at = "visit" => ~HasRoom(call.block) /\ block[call.block].next = NoBlock
    PROVE  Whole!AllocExhausted(call.size)
<1>1. /\ Open /\ VisibleArena = arena /\ Filled
      /\ ArenaView.allocator_type = arena.allocator_type
      /\ Whole!ChainSize(call.size) = call.need
      /\ ~IsType("POOL") => call.need = call.size
  BY SearchAllowed DEF EffectInv
<1>2. Visible \subseteq Held
  BY ShownSearching
<1>3. CASE IsType("STACK")
  <2>1. ~HasRoom(arena.top)
    BY <1>3 DEF EffectInv, PushInv, Searching
  <2>2. arena.top \in Visible
    <3>1. PICK n \in Nat \ {0} : \E c \in [1..n -> BlockId] : Shown(c, n) /\ arena.top = c[n]
      BY <1>3, ShownStack DEF EffectInv
    <3>2. PICK c \in [1..n -> BlockId] : Shown(c, n) /\ arena.top = c[n]
      BY <3>1
    <3>3. n \in 1..n
      OBVIOUS
    <3> QED
      BY <3>2, <3>3 DEF Shown
  <2>3. PICK b \in Held : b = arena.top /\ b \in Visible
    BY <1>2, <2>2
  <2>4. ~Whole!FitsIn(b, call.need)
    BY <1>1, <2>1, <2>3, RoomShown
  <2>5. call.need = call.size
    BY <1>1, <1>3 DEF IsType
  <2>6. ~Whole!StackHasRoom(call.size)
    BY <1>1, <2>3, <2>4, <2>5 DEF Whole!StackHasRoom
  <2> QED
    BY <1>1, <1>3, <2>6 DEF Whole!AllocExhausted, Whole!StackExhausted, IsType
<1>4. CASE ~IsType("STACK")
  <2>1. PICK n \in Nat \ {0} : \E m \in 1..n : \E c \in [1..n -> BlockId] : Growing(c, n, m)
    BY <1>4 DEF EffectInv, GrowthInv
  <2>2. PICK m \in 1..n : \E c \in [1..n -> BlockId] : Growing(c, n, m)
    BY <2>1
  <2>3. PICK c \in [1..n -> BlockId] : Growing(c, n, m)
    BY <2>2
  <2>4. \A i \in 1..m : ~HasRoom(c[i])
    <3>1. CASE call.at = "visit"
      <4>1. PICK i \in 1..n : Reached(c, n, m, i)
        BY <2>3, <3>1 DEF Growing
      <4>2. call.block = c[i] /\ \A j \in 1..(i - 1) : ~HasRoom(c[j])
        BY <4>1 DEF Reached
      <4>3. i = n
        <5>1. block[c[i]].next = IF i = n THEN NoBlock ELSE c[i + 1]
          BY <2>3 DEF Growing, Linked
        <5>2. i # n => i + 1 \in 1..n
          OBVIOUS
        <5> QED
          BY <3>1, <4>2, <5>1, <5>2, BlockAssumption
      <4>4. \A j \in 1..m : j = n \/ j \in 1..(n - 1)
        OBVIOUS
      <4> QED
        BY <3>1, <4>2, <4>3, <4>4
    <3>2. CASE call.at = "map"
      <4>1. m < n /\ \A j \in 1..(n - 1) : ~HasRoom(c[j])
        BY <2>3, <3>2 DEF Growing, Mapping
      <4>2. \A j \in 1..m : j \in 1..(n - 1)
        BY <4>1
      <4> QED
        BY <4>1, <4>2
    <3> QED
      BY <3>1, <3>2 DEF Searching
  <2>5. Shown(c, m) /\ m \in 0..n
    BY <2>3, ShownGrowing
  <2>6. Whole!Range(ChainView) = Visible
    BY <2>5, ShownChain, SameSequences
  <2>7. \A b \in Visible : ~Whole!FitsIn(b, call.need)
    <3>1. \A b \in Visible : ~HasRoom(b)
      BY <2>4, <2>5 DEF Shown
    <3> QED
      BY <1>1, <1>2, <3>1, RoomShown
  <2>8. Whole!ChainIsFull(Whole!ChainSize(call.size))
    BY <1>1, <2>6, <2>7 DEF Whole!ChainIsFull
  <2> QED
    BY <1>1, <1>4, <2>8 DEF Whole!AllocExhausted, Whole!ChainExhausted, IsType
<1> QED
  BY <1>3, <1>4

\* An abort of such a call.
LEMMA ExhaustedShown ==
    ASSUME StepsInv, EffectInv, Searching, state = "running", ~IsType("SCRATCH"),
           call.at = "visit" => ~HasRoom(call.block) /\ block[call.block].next = NoBlock,
           Crash("E104")
    PROVE  Whole!Alloc(call.size)
<1>1. Whole!AllocExhausted(call.size)
  BY Exhausted
<1>2. Whole!AllocError(call.size) = "none" /\ Whole!Running
  BY SearchAllowed
<1>3. Whole!Abort("E104")
  BY CrashShown
<1> QED
  BY <1>1, <1>2, <1>3 DEF Whole!Alloc, Whole!AllocAborts

\* Mapping the region of a header can only fail in mmap.
LEMMA MapCrash ==
    ASSUME StepsInv, EffectInv, MapRegion, state' # "running",
           call.block \in Held, UNCHANGED <<arena, heap, block, call, live>>
    PROVE  Crash("E104")
<1>1. Memory!SafeAlignedAlloc(GrownCapacity, arena.alignment) /\ call.at = "map"
  BY DEF MapRegion, At
<1>2. Open /\ Filled
  BY <1>1 DEF StepsInv, CallInv, EffectInv
<1>3. IsPowerOfTwo(arena.alignment) /\ arena.alignment \in 1..AlignLimit
  BY <1>2, OpenAligned
<1>4. GrownCapacity # 0
  <2>1. PICK capacity : capacity = block[call.block].capacity
    OBVIOUS
  <2>2. capacity \in 0..MmapLimit /\ capacity # 0
    BY <1>2, <2>1 DEF Filled, StepsInv, TypeInv, Held, Header
  <2>3. MmapLimit \in Nat /\ WordMod \in Nat /\ 2 * MmapLimit < WordMod
    BY Constants, PagesAssumption DEF Word
  <2>4. (2 * capacity) % WordMod = 2 * capacity
    BY <2>2, <2>3
  <2>5. DoubleW(capacity) # 0
    BY <2>2, <2>4 DEF DoubleW
  <2> QED
    BY <2>1, <2>5 DEF GrownCapacity
<1>5. ~(arena.alignment > AlignLimit)
  BY <1>3, Constants
<1>6. state' = "E104" /\ UNCHANGED kernel
  BY <1>1, <1>3, <1>4, <1>5, AllocCrashCode
<1> QED
  BY <1>6 DEF Crash, Memory!Crash, kernel

\* What granting a request does to the headers.
LEMMA Taken ==
    ASSUME StepsInv, EffectInv, Take, NEW b, b = call.block
    PROVE  /\ Searching /\ state = "running" /\ call.at = "visit" /\ HasRoom(b)
           /\ b \in Held /\ b \in BlockId
           /\ Visible' = heap /\ VisibleArena = arena /\ VisibleArena' = arena
           /\ heap' = heap /\ state' = state /\ regions' = regions
           /\ \A d \in BlockId :
                 /\ block'[d].next = block[d].next /\ block'[d].capacity = block[d].capacity
                 /\ block'[d].allocated = IF d = b THEN AddW(block[b].allocated, BytesTaken(b))
                                          ELSE block[d].allocated
                 /\ RegionOf(d)' = RegionOf(d)
           /\ live' = live \cup {[block |-> b, lo |-> SubW(AlignedAddress(b), block[b].memory),
                                  size |-> call.size, depth |-> Len(arena.snapshots)]}
<1>1. /\ state = "running" /\ call.at = "visit" /\ HasRoom(b)
      /\ block' = [block EXCEPT ![b].allocated = AddW(@, BytesTaken(b))]
      /\ Hand(b, SubW(AlignedAddress(b), block[b].memory))
      /\ call' = NoCall /\ UNCHANGED <<state, kernel, arena, heap>>
  BY DEF Take, At
<1>2. Searching /\ block \in [BlockId -> Header] /\ call'.at = "idle" /\ call'.fresh = <<>>
  BY <1>1 DEF Searching, StepsInv, TypeInv, NoCall
<1>3. b \in Held /\ b \in BlockId
  BY <1>1, IdleFacts
<1>4. VisibleArena = arena /\ VisibleArena' = arena /\ Visible' = heap
  <2>1. Range(<<>>) = {}
    BY DEF Range
  <2> QED
    BY <1>1, <1>2, <2>1 DEF VisibleArena, Visible, Doomed
<1>5. \A d \in BlockId :
                 /\ block'[d].next = block[d].next /\ block'[d].capacity = block[d].capacity
                 /\ block'[d].memory = block[d].memory
                 /\ block'[d].allocated = IF d = b THEN AddW(block[b].allocated, BytesTaken(b))
                                          ELSE block[d].allocated
  BY <1>1, <1>2, <1>3 DEF Header
<1>6. \A d \in BlockId : RegionOf(d)' = RegionOf(d)
  BY <1>1, <1>5 DEF RegionOf, kernel
<1>7. live' = live \cup {[block |-> b, lo |-> SubW(AlignedAddress(b), block[b].memory),
                          size |-> call.size, depth |-> Len(arena.snapshots)]}
  BY <1>1 DEF Hand
<1> QED
  BY <1>1, <1>2, <1>3, <1>4, <1>5, <1>6, <1>7 DEF kernel

\* Where no header was appended it is what Arena says of the block it takes.
LEMMA TakenFrom ==
    ASSUME StepsInv, EffectInv, Take, NEW b, b = call.block, call.fresh = <<>>
    PROVE  /\ b \in Visible /\ Whole!FitsIn(b, call.need)
           /\ Whole!TakeFrom(b, call.need, call.size)
           /\ UNCHANGED <<ArenaView, VisibleArena, Whole!stackState>>
<1>1. /\ Searching /\ state = "running" /\ HasRoom(b)
      /\ b \in Held /\ b \in BlockId
      /\ Visible' = heap /\ VisibleArena = arena /\ VisibleArena' = arena
      /\ \A d \in BlockId :
            /\ block'[d].next = block[d].next /\ block'[d].capacity = block[d].capacity
            /\ block'[d].allocated = IF d = b THEN AddW(block[b].allocated, BytesTaken(b))
                                     ELSE block[d].allocated
            /\ RegionOf(d)' = RegionOf(d)
      /\ live' = live \cup {[block |-> b, lo |-> SubW(AlignedAddress(b), block[b].memory),
                             size |-> call.size, depth |-> Len(arena.snapshots)]}
  BY Taken
<1>2. Visible = heap /\ Visible' = Visible /\ b \in Visible
  <2>1. Range(<<>>) = {}
    BY DEF Range
  <2>2. Visible = heap
    BY <1>1, <2>1, ShownSearching
  <2> QED
    BY <1>1, <2>2 DEF Held
<1>3. Open /\ Filled /\ Visible \subseteq BlockId
  BY <1>1, <1>2, SearchAllowed DEF EffectInv, StepsInv, TypeInv
<1>4. /\ Whole!FitsIn(b, call.need)
      /\ Whole!TakenBytes(b, call.need) = BytesTaken(b)
      /\ Whole!AlignedOffset(b) = SubW(AlignedAddress(b), block[b].memory)
  BY <1>1, <1>2, <1>3, RoomShown
<1>5. ChainView' = ChainView
  <2>1. PICK n \in Nat \ {0} : \E m \in 1..n : \E c \in [1..n -> BlockId] : Shown(c, m)
    BY <1>1, ShownSearching
  <2>2. PICK m \in 1..n : \E c \in [1..n -> BlockId] : Shown(c, m)
    BY <2>1
  <2>3. PICK c \in [1..n -> BlockId] : Shown(c, m)
    BY <2>2
  <2>4. m \in 0..n /\ \A i \in 1..m : i \in 1..n /\ m \in 1..m
    OBVIOUS
  <2>5. /\ \A i \in 1..m : i # m => block'[c[i]].next = block[c[i]].next
        /\ m > 0 => block'[c[m]].next \notin Visible
    BY <1>1, <2>3, <2>4 DEF Shown, Leads
  <2>6. Shown(c, m)'
    BY <1>1, <1>2, <2>3, <2>4, <2>5, ShownKept
  <2> QED
    BY <2>3, <2>4, <2>6, ShownChain, ShownChainNext
<1>6. BlockView' = [BlockView EXCEPT ![b].allocated = AddW(@, BytesTaken(b))]
  <2>1. PICK level : level = AddW(block[b].allocated, BytesTaken(b))
    OBVIOUS
  <2>2. BlockView[b] = [capacity |-> block[b].capacity, allocated |-> block[b].allocated,
                        region |-> RegionOf(b).size]
    BY <1>1, <1>2 DEF BlockView
  <2>3. PICK old : old = BlockView[b]
    OBVIOUS
  <2>4. [old EXCEPT !.allocated = level] =
           [capacity |-> block[b].capacity, allocated |-> level, region |-> RegionOf(b).size]
    BY <2>2, <2>3
  <2>5. old.allocated = block[b].allocated
    BY <2>2, <2>3
  <2>6. BlockView'[b] = [old EXCEPT !.allocated = level]
    <3>1. BlockView'[b] =
             [capacity |-> block'[b].capacity, allocated |-> block'[b].allocated,
              region |-> RegionOf(b)'.size]
      BY <1>1, <1>2 DEF BlockView
    <3> QED
      BY <1>1, <2>1, <2>4, <3>1
  <2>7. \A d \in BlockId : d # b => BlockView'[d] = BlockView[d]
    BY <1>1, <1>2 DEF BlockView
  <2>8. BlockView' = [d \in BlockId |-> BlockView'[d]] /\ BlockView = [d \in BlockId |-> BlockView[d]]
    BY DEF BlockView
  <2>9. BlockView' = [BlockView EXCEPT ![b] = [old EXCEPT !.allocated = level]]
    BY <1>1, <2>6, <2>7, <2>8
  <2> QED
    BY <1>1, <2>1, <2>3, <2>5, <2>9
<1>7. Whole!TakeFrom(b, call.need, call.size)
  BY <1>1, <1>2, <1>4, <1>5, <1>6, SameSums DEF Whole!TakeFrom, Whole!Hand
<1>8. UNCHANGED <<ArenaView, VisibleArena, Whole!stackState>>
  BY <1>1 DEF ArenaView, ArrayView, Whole!stackState
<1> QED
  BY <1>2, <1>4, <1>7, <1>8

\* A chain and what follows it.
LEMMA FirstExtended ==
    ASSUME NEW n \in Nat, NEW m \in 1..n, NEW c \in [1..n -> BlockId]
    PROVE  First(c, n) = First(c, m) \o [j \in 1..(n - m) |-> c[m + j]]
<1> DEFINE s == First(c, m)
           t == [j \in 1..(n - m) |-> c[m + j]]
<1>1. /\ \A i \in 1..m : i \in 1..n
      /\ \A j \in 1..(n - m) : m + j \in 1..n
      /\ m \in Nat /\ n - m \in Nat /\ m + (n - m) = n
  OBVIOUS
<1>2. /\ s \in Seq(BlockId) /\ Len(s) = m /\ DOMAIN s = 1..m /\ \A i \in 1..m : s[i] = c[i]
  BY <1>1 DEF First
<1>3. t \in Seq(BlockId) /\ Len(t) = n - m /\ \A j \in 1..(n - m) : t[j] = c[m + j]
  BY <1>1
<1> HIDE DEF s, t
<1>4. PICK u : u = s \o t
  OBVIOUS
<1>5. u \in Seq(BlockId) /\ Len(u) = n
  <2>1. \A v, w \in Seq(BlockId) : v \o w \in Seq(BlockId) /\ Len(v \o w) = Len(v) + Len(w)
    OBVIOUS
  <2>2. u \in Seq(BlockId) /\ Len(u) = m + (n - m)
    BY <1>2, <1>3, <1>4, <2>1
  <2> QED
    BY <1>1, <2>2
<1>6. \A i \in 1..n : u[i] = c[i]
  <2> SUFFICES ASSUME NEW i \in 1..n
               PROVE  u[i] = c[i]
    OBVIOUS
  <2>1. CASE i <= m
    BY <1>2, <1>3, <1>4, <2>1
  <2>2. CASE m < i
    <3>1. i - m \in 1..(n - m) /\ m + (i - m) = i
      BY <2>2
    <3>2. u[i] = t[i - m]
      BY <1>2, <1>3, <1>4, <2>2
    <3> QED
      BY <1>3, <3>1, <3>2
  <2> QED
    BY <2>1, <2>2
<1>7. u = [i \in 1..n |-> u[i]]
  BY <1>5
<1>8. First(c, n) = u
  BY <1>6, <1>7 DEF First
<1> QED
  BY <1>4, <1>8 DEF s, t

\* The headers appended to a chain whose first m blocks are shown.
Hidden(fresh, c, n, m) ==
    /\ fresh = [j \in 1..(n - m) |-> c[m + j]]
    /\ fresh \in Whole!Injection(1..(n - m), BlockId \ Visible)
    /\ Whole!Range(fresh) = heap \ Visible
    /\ \A j \in 1..(n - m) : (CHOOSE i \in 1..(n - m) : fresh[i] = c[m + j]) = j
    /\ First(c, n) = First(c, m) \o fresh

\* They are blocks Arena may append.
LEMMA HiddenFresh ==
    ASSUME NEW n \in Nat, NEW m \in 1..n, NEW c \in [1..n -> BlockId],
           \A i, j \in 1..n : c[i] = c[j] => i = j,
           Visible = {c[i] : i \in 1..m}, heap = {c[i] : i \in 1..n}
    PROVE  \E fresh : Hidden(fresh, c, n, m)
<1>1. PICK fresh : fresh = [j \in 1..(n - m) |-> c[m + j]]
  OBVIOUS
<1>2. /\ \A j \in 1..(n - m) : m + j \in 1..n /\ m + j \notin 1..m
      /\ \A i \in 1..n : i \notin 1..m => i - m \in 1..(n - m) /\ m + (i - m) = i
      /\ \A i \in 1..m : i \in 1..n
      /\ \A i, j \in 1..(n - m) : m + i = m + j => i = j
  OBVIOUS
<1>3. DOMAIN fresh = 1..(n - m) /\ \A j \in 1..(n - m) : fresh[j] = c[m + j]
  BY <1>1
<1>4. \A j \in 1..(n - m) : fresh[j] \in BlockId /\ fresh[j] \notin Visible /\ fresh[j] \in heap
  <2>1. \A j \in 1..(n - m), i \in 1..m : c[m + j] # c[i]
    BY <1>2
  <2> QED
    BY <1>2, <1>3, <2>1
<1>5. \A i, j \in 1..(n - m) : fresh[i] = fresh[j] => i = j
  <2>1. \A i, j \in 1..(n - m) : c[m + i] = c[m + j] => m + i = m + j
    BY <1>2
  <2> QED
    BY <1>2, <1>3, <2>1
<1>6. fresh \in Whole!Injection(1..(n - m), BlockId \ Visible)
  <2>1. fresh \in [1..(n - m) -> BlockId \ Visible]
    BY <1>1, <1>3, <1>4
  <2>2. fresh \in Injection(1..(n - m), BlockId \ Visible)
    BY <1>3, <1>5, <2>1 DEF Injection, IsInjective
  <2> QED
    BY <2>2, SameSequences
<1>7. Range(fresh) = heap \ Visible
  <2>1. \A x \in heap \ Visible : \E j \in 1..(n - m) : x = fresh[j]
    <3>1. \A i \in 1..n : c[i] \notin Visible => i \notin 1..m
      OBVIOUS
    <3> QED
      BY <1>2, <1>3, <3>1
  <2>2. \A x : x \in Range(fresh) <=> \E j \in 1..(n - m) : x = fresh[j]
    BY <1>3 DEF Range
  <2>3. ASSUME NEW x \in Range(fresh) PROVE x \in heap \ Visible
    <3>1. PICK j \in 1..(n - m) : x = fresh[j]
      BY <2>2
    <3>2. fresh[j] \in heap /\ fresh[j] \notin Visible
      BY <1>4, Zenon
    <3> QED
      BY <3>1, <3>2, Zenon
  <2>4. \A x \in heap \ Visible : x \in Range(fresh)
    BY <2>1, <2>2, Zenon
  <2> QED
    BY <2>3, <2>4, Zenon
<1>8. \A j \in 1..(n - m) : (CHOOSE i \in 1..(n - m) : fresh[i] = c[m + j]) = j
  <2> SUFFICES ASSUME NEW j \in 1..(n - m)
               PROVE  (CHOOSE i \in 1..(n - m) : fresh[i] = c[m + j]) = j
    OBVIOUS
  <2>1. fresh[j] = c[m + j]
    BY <1>3
  <2>2. \A i \in 1..(n - m) : fresh[i] = c[m + j] => i = j
    BY <1>5, <2>1
  <2>3. \E i \in 1..(n - m) : fresh[i] = c[m + j]
    BY <2>1
  <2>4. PICK x : x = CHOOSE i \in 1..(n - m) : fresh[i] = c[m + j]
    OBVIOUS
  <2>5. x \in 1..(n - m) /\ fresh[x] = c[m + j]
    BY <2>3, <2>4
  <2> QED
    BY <2>2, <2>4, <2>5
<1>9. First(c, n) = First(c, m) \o fresh
  BY <1>1, FirstExtended
<1>10. Whole!Range(fresh) = heap \ Visible
  BY <1>7, SameSequences, Zenon
<1>11. Hidden(fresh, c, n, m)
  BY <1>1, <1>6, <1>8, <1>9, <1>10, Zenon DEF Hidden
<1> QED
  BY <1>11

\* A request that was granted in the last of the headers appended.
LEMMA GrownTaken ==
    ASSUME StepsInv, EffectInv, Take, NEW n \in Nat \ {0}, NEW m \in 1..n, NEW c \in [1..n -> BlockId],
           Growing(c, n, m), m < n
    PROVE  /\ Whole!ChainIsFull(call.need) /\ Whole!Grow(call.need, call.size)
           /\ UNCHANGED <<ArenaView, VisibleArena, Whole!stackState>>
<1> DEFINE k == n - m
           need == call.need
           G(j) == Doublings(block[c[m]].capacity)[j]
<1>1. PICK b : b = call.block
  OBVIOUS
<1>2. /\ Searching /\ call.at = "visit" /\ state = "running" /\ HasRoom(b)
      /\ b \in Held /\ b \in BlockId
      /\ Visible' = heap /\ VisibleArena = arena /\ VisibleArena' = arena
      /\ \A d \in BlockId :
            /\ block'[d].next = block[d].next /\ block'[d].capacity = block[d].capacity
            /\ block'[d].allocated = IF d = b THEN AddW(block[b].allocated, BytesTaken(b))
                                     ELSE block[d].allocated
            /\ RegionOf(d)' = RegionOf(d)
      /\ live' = live \cup {[block |-> b, lo |-> SubW(AlignedAddress(b), block[b].memory),
                             size |-> call.size, depth |-> Len(arena.snapshots)]}
  BY <1>1, Taken
<1>3. /\ Shown(c, m) /\ Visible = {c[i] : i \in 1..m} /\ heap = {c[i] : i \in 1..n} /\ Held = heap
      /\ \A i, j \in 1..n : c[i] = c[j] => i = j
      /\ \A i \in 1..n : block[c[i]].next = IF i = n THEN NoBlock ELSE c[i + 1]
      /\ arena.memory_block = c[1]
  <2>1. Shown(c, m)
    BY <1>2, ShownGrowing
  <2>2. /\ heap = {c[i] : i \in 1..n}
        /\ \A i, j \in 1..n : c[i] = c[j] => i = j
        /\ \A i \in 1..n : block[c[i]].next = IF i = n THEN NoBlock ELSE c[i + 1]
        /\ arena.memory_block = c[1]
    BY DEF Growing, Linked
  <2>3. Held = heap
    BY <1>2 DEF Held, Pending
  <2> QED
    BY <2>1, <2>2, <2>3 DEF Shown
<1>4. PICK r \in 1..n : Reached(c, n, m, r)
  BY <1>2 DEF Growing
<1>5. /\ b = c[n] /\ \A j \in 1..(n - 1) : ~HasRoom(c[j])
      /\ \A j \in 1..k : Appended(c[m + j], c[m], j)
  BY <1>1, <1>4 DEF Reached
<1>6. /\ \A i \in 1..m : i \in 1..(n - 1) /\ i \in 1..n
      /\ \A j \in 1..k : m + j \in 1..n /\ (j # k => m + j \in 1..(n - 1)) /\ (m + j = n <=> j = k)
      /\ \A j \in 1..(k - 1) : j \in 1..k /\ j # k
      /\ m \in 1..m /\ m \in 0..n /\ n \in 0..n /\ n \in 1..n /\ 1 \in 1..n /\ k \in 1..k /\ k \in Nat /\ n \in Nat
      /\ m > 0 /\ n > 0
  OBVIOUS
<1>7. Open /\ Filled
  BY <1>2, SearchAllowed DEF EffectInv
<1>8. \A j \in 1..k : /\ c[m + j] \in Held /\ c[m + j] \in BlockId
                      /\ block[c[m + j]].capacity = G(j) /\ block[c[m + j]].allocated = 0
                      /\ Mappable(G(j), arena.alignment) /\ RegionOf(c[m + j]).size = G(j)
  BY <1>3, <1>5, <1>6 DEF Appended
<1>9. \A j \in 1..k : /\ HasRoom(c[m + j]) <=> need <= G(j)
                      /\ BytesTaken(c[m + j]) = need
                      /\ SubW(AlignedAddress(c[m + j]), block[c[m + j]].memory) = 0
                      /\ AddW(0, need) = need
  BY <1>7, <1>8, EmptyRoom
<1>10. need \in Nat /\ \A j \in 1..k : G(j) \in Nat
  <2>1. call \in Locals /\ block \in [BlockId -> Header]
    BY DEF StepsInv, TypeInv
  <2>2. need \in Nat
    BY <2>1, Constants DEF Locals, Word
  <2>3. MmapLimit \in Nat /\ \A d \in BlockId : block[d].capacity \in 0..MmapLimit
    BY <2>1, Constants DEF Header
  <2>4. \A j \in 1..k : G(j) \in 0..MmapLimit
    BY <1>8, <2>3
  <2>5. \A x \in 0..MmapLimit : x \in Nat
    BY <2>3
  <2> HIDE DEF G, k, need
  <2> QED
    BY <2>2, <2>4, <2>5
<1>11. \A j : Whole!GrownCapacity(j) = G(j)
  <2>1. Whole!Last(ChainView) = c[m]
    <3>1. n \in Nat /\ m \in 0..n /\ m > 0 /\ Shown(c, m)
      BY <1>3, <1>6
    <3> HIDE DEF k, need, G
    <3>2. Last(ChainView) = c[m]
      BY <3>1, ShownChain
    <3> QED
      BY <3>2, SameSequences
  <2>2. c[m] \in Visible /\ c[m] \in BlockId
    BY <1>3, <1>6
  <2>3. BlockView[c[m]].capacity = block[c[m]].capacity
    BY <2>2, BlockShown
  <2> QED
    BY <2>1, <2>3, SameSums DEF Whole!GrownCapacity
<1>12. Whole!GrowthStopsAt(k, need)
  <2>1. need <= G(k)
    BY <1>2, <1>5, <1>6, <1>9
  <2>2. \A j \in 1..(k - 1) : G(j) < need
    <3>1. \A j \in 1..(k - 1) : ~(need <= G(j)) /\ G(j) \in Nat
      BY <1>5, <1>6, <1>9, <1>10
    <3> HIDE DEF G, need
    <3> QED
      BY <1>10, <3>1
  <2>3. \A j \in 1..k : Whole!Mappable(G(j), ArenaView.alignment)
    BY <1>2, <1>8, SearchAllowed, SameSums
  <2> HIDE DEF G, need, k
  <2> QED
    BY <1>11, <2>1, <2>2, <2>3 DEF Whole!GrowthStopsAt
<1>13. Whole!ChainIsFull(need)
  <2>1. Whole!Range(ChainView) = Visible
    BY <1>3, <1>6, ShownChain, SameSequences
  <2>2. \A d \in Visible : d \in Held /\ ~HasRoom(d)
    BY <1>3, <1>5, <1>6
  <2> QED
    BY <1>2, <1>7, <2>1, <2>2, RoomShown DEF Whole!ChainIsFull
<1>14. PICK fresh : Hidden(fresh, c, n, m)
  BY <1>3, HiddenFresh
<1>15. /\ fresh = [j \in 1..k |-> c[m + j]]
       /\ fresh \in Whole!Injection(1..k, BlockId \ Visible)
       /\ Whole!Range(fresh) = heap \ Visible
       /\ \A j \in 1..k : (CHOOSE i \in 1..k : fresh[i] = c[m + j]) = j
       /\ First(c, n) = First(c, m) \o fresh
  BY <1>14 DEF Hidden
<1>16. Visible' = Visible \cup Whole!Range(fresh)
  <2>1. Visible \subseteq heap
    BY <1>3, <1>6
  <2> QED
    BY <1>2, <1>15, <2>1
<1>17. ChainView' = ChainView \o fresh
  <2>1. \A i \in 1..n : c[i] \in heap
    BY <1>3
  <2>2. NoBlock \notin heap
    BY BlockAssumption DEF StepsInv, TypeInv
  <2>3. \A i \in 1..n : block'[c[i]].next = IF i = n THEN NoBlock ELSE c[i + 1]
    BY <1>2, <1>3
  <2>4. Leads(c, n, Visible)'
    BY <1>2, <1>3, <1>6, <2>1, <2>2, <2>3 DEF Leads
  <2>5. Shown(c, n)'
    BY <1>2, <1>3, <2>4 DEF Shown
  <2>6. ChainView' = First(c, n)
    BY <1>6, <2>5, ShownChainNext
  <2>7. ChainView = First(c, m)
    BY <1>3, <1>6, ShownChain
  <2> QED
    BY <1>15, <2>6, <2>7
<1>18. BlockView' = [d \in BlockId |->
                        IF d \in Whole!Range(fresh)
                        THEN LET j == CHOOSE i \in 1..k : fresh[i] = d
                             IN  Whole!NewBlock(Whole!GrownCapacity(j), ArenaView.alignment, IF j = k THEN need ELSE 0)
                        ELSE BlockView[d]]
  <2> DEFINE New(d) == LET j == CHOOSE i \in 1..k : fresh[i] = d
                       IN  Whole!NewBlock(Whole!GrownCapacity(j), ArenaView.alignment, IF j = k THEN need ELSE 0)
  <2>1. ASSUME NEW j \in 1..k
        PROVE  BlockView'[c[m + j]] = New(c[m + j])
    <3>1. New(c[m + j]) = Whole!NewBlock(G(j), ArenaView.alignment, IF j = k THEN need ELSE 0)
      BY <1>11, <1>15
    <3>2. c[m + j] = b <=> j = k
      BY <1>3, <1>5, <1>6
    <3>3. block'[c[m + j]].allocated = IF j = k THEN need ELSE 0
      <4>1. block[c[m + j]].allocated = 0 /\ BytesTaken(c[m + j]) = need /\ AddW(0, need) = need
        BY <1>8, <1>9
      <4>2. block'[c[m + j]].allocated =
               IF c[m + j] = b THEN AddW(block[b].allocated, BytesTaken(b))
               ELSE block[c[m + j]].allocated
        BY <1>2, <1>8
      <4> QED
        BY <3>2, <4>1, <4>2
    <3>4. BlockView'[c[m + j]] = [capacity |-> block'[c[m + j]].capacity,
                                  allocated |-> block'[c[m + j]].allocated,
                                  region |-> RegionOf(c[m + j])'.size]
      BY <1>2, <1>3, <1>8 DEF BlockView
    <3>5. Whole!NewBlock(G(j), ArenaView.alignment, IF j = k THEN need ELSE 0)
             = [capacity |-> G(j), allocated |-> IF j = k THEN need ELSE 0, region |-> G(j)]
      <4>1. G(j) \in 0..MmapLimit
        BY <1>8 DEF StepsInv, TypeInv, Header
      <4>2. ArenaView.alignment \in 1..AlignLimit
        BY <1>2, <1>7, SearchAllowed DEF StepsInv, TypeInv, Handle, Open
      <4> QED
        BY <4>1, <4>2, NewBlockShown
    <3> QED
      BY <1>2, <1>8, <3>1, <3>3, <3>4, <3>5
  <2>2. \A d \in Whole!Range(fresh) : \E j \in 1..k : d = c[m + j]
    <3>1. \A d \in heap \ Visible : \E j \in 1..k : d = c[m + j]
      <4>1. \A i \in 1..n : i \notin 1..m => i - m \in 1..k /\ m + (i - m) = i
        OBVIOUS
      <4>2. \A i \in 1..n : c[i] \notin Visible => i \notin 1..m
        BY <1>3
      <4> QED
        BY <1>3, <4>1, <4>2
    <3> QED
      BY <1>15, <3>1
  <2>3. \A d \in BlockId : d \notin Whole!Range(fresh) => BlockView'[d] = BlockView[d]
    <3>1. \A d \in BlockId : d \notin Whole!Range(fresh) => (d \in Visible' <=> d \in Visible)
      BY <1>16
    <3>2. b \notin Visible
      <4>1. \A i \in 1..m : i # n
        OBVIOUS
      <4> QED
        BY <1>3, <1>5, <1>6, <4>1
    <3> QED
      BY <1>2, <3>1, <3>2 DEF BlockView
  <2>4. \A d \in BlockId : BlockView'[d] = IF d \in Whole!Range(fresh) THEN New(d) ELSE BlockView[d]
    <3> HIDE DEF New
    <3> QED
      BY <2>1, <2>2, <2>3
  <2>5. BlockView' = [d \in BlockId |-> BlockView'[d]]
    BY DEF BlockView
  <2> QED
    BY <2>4, <2>5
<1>19. Whole!Hand(fresh[k], 0, call.size)
  <2>1. fresh[k] = b
    BY <1>5, <1>6, <1>15
  <2>2. SubW(AlignedAddress(b), block[b].memory) = 0
    BY <1>5, <1>6, <1>9
  <2> QED
    BY <1>2, <2>1, <2>2 DEF Whole!Hand
<1>20. k \in Whole!Growths
  <2>1. n <= Cardinality(BlockId) /\ Cardinality(BlockId) \in Nat
    BY <1>3, ChainLength
  <2>2. k \in 1..Cardinality(BlockId)
    BY <2>1
  <2> QED
    BY <2>2, SameSequences DEF Whole!Growths
<1>21. Whole!Grow(need, call.size)
  <2> HIDE DEF k, need, G
  <2> QED
    BY <1>12, <1>15, <1>16, <1>17, <1>18, <1>19, <1>20 DEF Whole!Grow
<1>22. UNCHANGED <<ArenaView, VisibleArena, Whole!stackState>>
  BY <1>2 DEF ArenaView, ArrayView, Whole!stackState
<1> QED
  BY <1>13, <1>21, <1>22

\* A request that was granted is one Arena grants, by first fit or by growing.
LEMMA TakeShown ==
    ASSUME StepsInv, EffectInv, Take
    PROVE  Whole!MayRequest /\ Whole!Alloc(call.size)
<1>1. PICK b : b = call.block
  OBVIOUS
<1>2. PICK need, size : need = call.need /\ size = call.size
  OBVIOUS
<1>3. /\ Searching /\ call.at = "visit" /\ state = "running" /\ HasRoom(b) /\ state' = state
      /\ b \in Held /\ b \in BlockId /\ VisibleArena = arena
  BY <1>1, Taken
<1>4. /\ Whole!Running /\ Whole!MayRequest /\ Whole!AllocError(size) = "none"
      /\ Whole!ChainSize(size) = need
      /\ ~IsType("POOL") => need = size
      /\ ArenaView.allocator_type = arena.allocator_type
      /\ Open
  BY <1>2, <1>3, SearchAllowed
<1>5. ASSUME call.fresh = <<>>
      PROVE  /\ b \in Visible /\ Whole!FitsIn(b, need)
             /\ Whole!TakeFrom(b, need, size)
             /\ UNCHANGED <<ArenaView, VisibleArena, Whole!stackState>>
  BY <1>1, <1>2, <1>5, TakenFrom
<1>6. CASE IsType("STACK")
  <2>1. call.block = arena.top /\ call.fresh = <<>>
    BY <1>3, <1>6 DEF EffectInv, PushInv
  <2>2. b = VisibleArena.top /\ need = size
    BY <1>1, <1>3, <1>4, <1>6, <2>1 DEF IsType
  <2>3. Whole!StackGrants(size)
    BY <1>5, <2>1, <2>2 DEF Whole!StackGrants, Whole!StackHasRoom
  <2>4. Whole!AllocGranted(size)
    BY <1>4, <1>5, <1>6, <2>1, <2>3 DEF Whole!AllocGranted, IsType
  <2> QED
    BY <1>2, <1>3, <1>4, <2>4 DEF Whole!Alloc
<1>7. CASE ~IsType("STACK")
  <2>1. PICK n \in Nat \ {0} : \E m \in 1..n : \E c \in [1..n -> BlockId] : Growing(c, n, m)
    BY <1>3, <1>7 DEF EffectInv, GrowthInv
  <2>2. PICK m \in 1..n : \E c \in [1..n -> BlockId] : Growing(c, n, m)
    BY <2>1
  <2>3. PICK c \in [1..n -> BlockId] : Growing(c, n, m)
    BY <2>2
  <2>4. PICK i \in 1..n : Reached(c, n, m, i)
    BY <1>3, <2>3 DEF Growing
  <2>5. /\ Shown(c, m) /\ heap = {c[j] : j \in 1..n}
        /\ call.fresh = [j \in 1..(n - m) |-> c[m + j]]
    BY <1>3, <2>3, ShownGrowing DEF Growing
  <2>6. /\ b = c[i] /\ (IsType("SCRATCH") => i = 1) /\ (m < n => i = n)
        /\ \A j \in 1..(i - 1) : ~HasRoom(c[j])
    BY <1>1, <2>4 DEF Reached
  <2>7. /\ DOMAIN ChainView = 1..m /\ \A j \in 1..m : ChainView[j] = c[j]
        /\ Head(ChainView) = c[1]
    <3>1. n \in Nat /\ m \in 0..n /\ m > 0
      OBVIOUS
    <3> QED
      BY <2>5, <3>1, ShownChain
  <2>8. CASE m = n
    <3>1. call.fresh = <<>>
      <4>1. 1..(n - m) = {}
        BY <2>8
      <4> QED
        BY <2>5, <4>1
    <3>2. CASE IsType("SCRATCH")
      <4>1. b = Head(ChainView) /\ need = size
        BY <1>4, <2>6, <2>7, <3>2 DEF IsType
      <4>2. Whole!ScratchGrants(size)
        BY <1>5, <3>1, <4>1 DEF Whole!ScratchGrants
      <4>3. Whole!AllocGranted(size)
        BY <1>4, <1>5, <3>1, <3>2, <4>2 DEF Whole!AllocGranted, IsType
      <4> QED
        BY <1>2, <1>3, <1>4, <4>3 DEF Whole!Alloc
    <3>3. CASE ~IsType("SCRATCH")
      <4>1. \A j \in 1..(i - 1) : ~Whole!FitsIn(ChainView[j], need)
        <5>1. \A j \in 1..(i - 1) : j \in 1..m /\ c[j] \in Visible /\ ~HasRoom(c[j])
          BY <2>5, <2>6, <2>8 DEF Shown
        <5>2. Visible \subseteq Held
          BY <1>3, ShownSearching
        <5>3. Filled
          BY DEF EffectInv
        <5> QED
          BY <1>2, <1>3, <1>4, <2>7, <5>1, <5>2, <5>3, RoomShown
      <4>2. i \in DOMAIN ChainView /\ ChainView[i] = b
        BY <2>6, <2>7, <2>8
      <4>3. Whole!FirstFit(need, size)
        BY <1>5, <3>1, <4>1, <4>2 DEF Whole!FirstFit
      <4>4. Whole!ChainGrants(size)
        BY <1>4, <1>5, <3>1, <4>3 DEF Whole!ChainGrants
      <4>5. Whole!AllocGranted(size)
        BY <1>4, <1>5, <1>7, <3>1, <3>3, <4>4 DEF Whole!AllocGranted, IsType
      <4> QED
        BY <1>2, <1>3, <1>4, <4>5 DEF Whole!Alloc
    <3> QED
      BY <3>2, <3>3
  <2>9. CASE m < n
    <3>1. ~IsType("SCRATCH")
      BY <2>6, <2>9
    <3>2. /\ Whole!ChainIsFull(need) /\ Whole!Grow(need, size)
          /\ UNCHANGED <<ArenaView, VisibleArena, Whole!stackState>>
      BY <1>2, <2>3, <2>9, GrownTaken
    <3>3. Whole!ChainGrants(size)
      BY <1>4, <3>2 DEF Whole!ChainGrants
    <3>4. Whole!AllocGranted(size)
      BY <1>4, <1>7, <3>1, <3>2, <3>3 DEF Whole!AllocGranted, IsType
    <3> QED
      BY <1>2, <1>3, <1>4, <3>4 DEF Whole!Alloc
  <2> QED
    BY <2>8, <2>9
<1> QED
  BY <1>6, <1>7

\* SCRATCH refuses a request: nothing is shown of it.
LEMMA RefuseScratchShown ==
    ASSUME StepsInv, EffectInv, RefuseScratch
    PROVE  UNCHANGED Whole!vars
<1>1. Searching /\ call.at = "visit" /\ IsType("SCRATCH")
  BY DEF RefuseScratch, At, Searching
<1>2. PICK n \in Nat \ {0} : \E m \in 1..n : \E c \in [1..n -> BlockId] : Growing(c, n, m)
  BY <1>1 DEF EffectInv, GrowthInv, IsType
<1>3. PICK m \in 1..n : \E c \in [1..n -> BlockId] : Growing(c, n, m)
  BY <1>2
<1>4. PICK c \in [1..n -> BlockId] : Growing(c, n, m)
  BY <1>3
<1>5. PICK i \in 1..n : Reached(c, n, m, i)
  BY <1>1, <1>4 DEF Growing
<1>6. m = n
  BY <1>1, <1>5 DEF Reached
<1>7. call.fresh = <<>>
  <2>1. 1..(n - m) = {}
    BY <1>6
  <2> QED
    BY <1>4, <2>1 DEF Growing
<1>8. call'.at = "idle" /\ call'.fresh = <<>>
      /\ UNCHANGED <<state, kernel, arena, heap, block, live>>
  BY DEF RefuseScratch, NoCall
<1>9. /\ Visible' = Visible /\ VisibleArena' = VisibleArena
      /\ VisibleArena = arena /\ Visible = heap
  BY <1>1, <1>7, <1>8 DEF Visible, Doomed, VisibleArena, Range
<1>10. Shown(c, m)
  BY <1>1, <1>4, ShownGrowing
<1>11. Shown(c, m)'
  BY <1>8, <1>9, <1>10 DEF Shown, Leads
<1>12. UNCHANGED <<Whole!structure, Whole!stackState>>
  <2>1. n \in Nat /\ m \in 0..n
    OBVIOUS
  <2>2. \A b \in Visible : /\ block'[b].capacity = block[b].capacity
                           /\ block'[b].allocated = block[b].allocated
                           /\ RegionOf(b)' = RegionOf(b)
    BY <1>8 DEF RegionOf, kernel
  <2> QED
    BY <1>9, <1>10, <1>11, <2>1, <2>2, SameChain
<1> QED
  BY <1>8, <1>12, Stutter

\* What the step that pushes a block does to the headers.
Pushes(new, old, need, size) ==
    /\ new \in BlockId /\ old \in BlockId /\ new # old /\ new \in heap
    /\ block'[new].next = NoBlock /\ block'[new].capacity = GrownCapacity
    /\ block'[new].allocated = need /\ RegionOf(new)'.size = GrownCapacity
    /\ block'[old].next = new
    /\ \A d \in BlockId : d \notin {new, old} => block'[d].next = block[d].next
    /\ \A d \in BlockId : d # new => /\ block'[d].capacity = block[d].capacity
                                     /\ block'[d].allocated = block[d].allocated
                                     /\ block'[d].memory = block[d].memory
    /\ heap' = heap /\ regions \subseteq regions' /\ state' = state
    /\ VisibleArena = arena /\ VisibleArena' = arena' /\ Visible' = heap
    /\ arena'.allocator_type = arena.allocator_type /\ arena'.alignment = arena.alignment
    /\ arena'.pool_size = arena.pool_size /\ arena'.memory_block = arena.memory_block
    /\ arena'.snapshots = arena.snapshots /\ arena'.max_size = arena.max_size
    /\ arena'.top = new
    /\ live' = live \cup {[block |-> new, lo |-> 0, size |-> size, depth |-> Len(arena.snapshots)]}
    /\ Mappable(GrownCapacity, arena.alignment)

\* It appends an empty block to the top, and the request starts it.
LEMMA PushResult ==
    ASSUME StepsInv, EffectInv, MapPushed, state' = "running", NEW new, Pending = {new},
           call.block \in BlockId, call.block # new, new \in heap
    PROVE  Pushes(new, call.block, call.need, call.size)
<1>1. /\ TypeInv /\ CallInv /\ call.at = "map" /\ IsType("STACK") /\ heap' = heap /\ state = "running"
      /\ Memory!SafeAlignedAlloc(GrownCapacity, arena.alignment) /\ Open /\ Filled
  BY DEF StepsInv, CallInv, EffectInv, MapPushed, MapRegion, At
<1>2. new = Last(call.fresh) /\ new \in BlockId
  BY <1>1 DEF Pending, TypeInv
<1>3. PICK p \in Word : /\ regions' = regions \cup
                               {[ptr |-> p, size |-> GrownCapacity, alignment |-> arena.alignment]}
                        /\ \A r \in regions : r.ptr # p
                        /\ NewPointer = p /\ p % arena.alignment = 0
  BY GrowResult DEF MapPushed
<1>4. AddW(call.need, SubW(AlignUp(p, arena.alignment), p)) = call.need
      /\ SubW(AlignUp(p, arena.alignment), p) = 0
  <2>1. arena.alignment \in Word \ {0}
    BY <1>1, OpenAligned
  <2>2. AlignUp(p, arena.alignment) = p
    BY <1>3, <2>1, AlignedPadding
  <2>3. WordMod \in Nat \ {0} /\ Word = 0..(WordMod - 1)
    BY Constants DEF Word
  <2>4. SubW(p, p) = 0
    BY <2>3 DEF SubW
  <2>5. call.need \in Word
    BY <1>1 DEF TypeInv, Locals
  <2>6. AddW(call.need, 0) = call.need
    BY <2>3, <2>5 DEF AddW
  <2> QED
    BY <2>2, <2>4, <2>6
<1>5. /\ block' = [block EXCEPT
            ![new] = [Blank EXCEPT !.memory = p, !.capacity = GrownCapacity, !.allocated = call.need],
            ![call.block].next = new]
      /\ arena' = [arena EXCEPT !.top = new]
      /\ call' = NoCall
      /\ live' = live \cup {[block |-> new, lo |-> 0, size |-> call.size, depth |-> Len(arena.snapshots)]}
  BY <1>2, <1>3, <1>4 DEF MapPushed, Hand
<1>6. block \in [BlockId -> Header]
  BY <1>1 DEF TypeInv
<1>7. /\ block'[new].memory = p
      /\ block'[new].next = NoBlock /\ block'[new].capacity = GrownCapacity
      /\ block'[new].allocated = call.need
  <2>1. PICK h : h = [Blank EXCEPT !.memory = p, !.capacity = GrownCapacity, !.allocated = call.need]
    OBVIOUS
  <2>2. h.memory = p /\ h.next = NoBlock /\ h.capacity = GrownCapacity /\ h.allocated = call.need
    BY <2>1 DEF Blank
  <2>3. block' = [block EXCEPT ![new] = h, ![call.block].next = new]
    BY <1>5, <2>1
  <2>4. block'[new] = h
    BY <1>2, <1>6, <2>3
  <2> QED
    BY <2>2, <2>4
<1>8. /\ block'[call.block].next = new
      /\ \A d \in BlockId : d \notin {new, call.block} => block'[d].next = block[d].next
      /\ \A d \in BlockId : d # new => /\ block'[d].capacity = block[d].capacity
                                       /\ block'[d].allocated = block[d].allocated
                                       /\ block'[d].memory = block[d].memory
  <2>1. PICK old : old = call.block
    OBVIOUS
  <2>2. \A d \in BlockId : d # new =>
           block'[d] = IF d = old THEN [block[old] EXCEPT !.next = new] ELSE block[d]
    BY <1>2, <1>5, <1>6, <2>1
  <2>3. block[old] \in Header /\ block'[old] = [block[old] EXCEPT !.next = new]
    BY <1>2, <1>6, <2>1, <2>2
  <2>4. /\ block'[old].next = new /\ block'[old].capacity = block[old].capacity
        /\ block'[old].allocated = block[old].allocated /\ block'[old].memory = block[old].memory
    BY <2>3 DEF Header
  <2> QED
    BY <2>1, <2>2, <2>4
<1>9. RegionOf(new)'.size = GrownCapacity
  BY <1>3, <1>7, NewRegion
<1>10. /\ VisibleArena = arena /\ VisibleArena' = arena' /\ Visible' = heap
  <2>1. call'.at = "idle" /\ call'.fresh = <<>>
    BY <1>5 DEF NoCall
  <2>2. Range(<<>>) = {}
    BY DEF Range
  <2> QED
    BY <1>1, <2>1, <2>2 DEF VisibleArena, Visible, Doomed
<1>11. /\ arena'.allocator_type = arena.allocator_type /\ arena'.alignment = arena.alignment
       /\ arena'.pool_size = arena.pool_size /\ arena'.memory_block = arena.memory_block
       /\ arena'.snapshots = arena.snapshots /\ arena'.max_size = arena.max_size
       /\ arena'.top = new
  BY <1>1, <1>5 DEF TypeInv, Handle, NoArena
<1>12. Mappable(GrownCapacity, arena.alignment)
  BY <1>1, AllocMapped
<1> QED
  BY <1>1, <1>2, <1>3, <1>5, <1>7, <1>8, <1>9, <1>10, <1>11, <1>12 DEF Pushes

\* A block pushed is pushed in Arena.
LEMMA MapPushedShown ==
    ASSUME StepsInv, StepsInv', EffectInv, MapPushed, state' = "running"
    PROVE  Whole!MayRequest /\ Whole!Alloc(call.size)
<1>1. Searching /\ call.at = "map" /\ IsType("STACK") /\ state = "running"
  BY DEF MapPushed, MapRegion, At, Searching
<1>2. PICK n \in Nat \ {0} : \E c \in [1..n -> BlockId] :
         /\ Shown(c, n) /\ arena.top = c[n]
         /\ heap = Visible \cup Pending
         /\ \A b \in Pending : b \notin Visible /\ call.fresh = <<b>>
  BY <1>1, ShownStack DEF EffectInv
<1>3. PICK c \in [1..n -> BlockId] :
         /\ Shown(c, n) /\ arena.top = c[n]
         /\ heap = Visible \cup Pending
         /\ \A b \in Pending : b \notin Visible /\ call.fresh = <<b>>
  BY <1>2
<1>4. PICK new : Pending = {new}
  BY <1>1 DEF Pending
<1>5. PICK need, size, old : need = call.need /\ size = call.size /\ old = call.block
  OBVIOUS
<1>6. /\ old = c[n] /\ old \in BlockId /\ old \in Visible /\ ~HasRoom(old)
      /\ new \notin Visible /\ new # old /\ new \in heap /\ Visible \subseteq heap
      /\ heap = Visible \cup {new}
  <2>1. n \in 1..n
    OBVIOUS
  <2>2. old = arena.top /\ ~HasRoom(arena.top)
    BY <1>1, <1>5 DEF EffectInv, PushInv
  <2>3. c[n] \in Visible /\ c[n] \in BlockId
    BY <1>3, <2>1 DEF Shown
  <2> QED
    BY <1>3, <1>4, <2>2, <2>3
<1>7. Pushes(new, old, need, size)
  BY <1>4, <1>5, <1>6, PushResult
<1>8. /\ Whole!Running /\ Whole!MayRequest /\ Whole!AllocError(size) = "none"
      /\ need = size
      /\ ArenaView.allocator_type = "STACK" /\ ArenaView.alignment = arena.alignment
      /\ Open /\ VisibleArena = arena /\ Filled
  BY <1>1, <1>5, SearchAllowed DEF IsType, EffectInv
<1>9. Visible \subseteq Held
  BY <1>1, ShownSearching
<1>10. ~Whole!StackHasRoom(size)
  <2>1. ~Whole!FitsIn(old, need)
    BY <1>5, <1>6, <1>8, <1>9, RoomShown
  <2>2. VisibleArena.top = old
    BY <1>3, <1>6, <1>8
  <2> QED
    BY <1>8, <2>1, <2>2 DEF Whole!StackHasRoom
<1>11. Whole!PushedCapacity = GrownCapacity
  <2>1. BlockView[old].capacity = block[old].capacity /\ VisibleArena.top = old
    BY <1>3, <1>6, <1>8, BlockShown
  <2> QED
    BY <1>5, <2>1, SameSums DEF Whole!PushedCapacity, GrownCapacity
<1>12. Visible' = Visible \cup {new} /\ new \in BlockId \ Visible
  BY <1>6, <1>7 DEF Pushes
<1>13. ChainView' = Append(ChainView, new)
  <2>1. Apart(c, n, new)
    <3>1. \A i, j \in 1..n : c[i] = c[j] => i = j
      BY <1>3 DEF Shown, Leads
    <3>2. \A i \in 1..n : c[i] # new
      BY <1>3, <1>6 DEF Shown
    <3> QED
      BY <3>1, <3>2 DEF Apart
  <2>2. PICK e \in [1..(n + 1) -> BlockId] : Longer(e, c, n, new)
    BY <1>12, <2>1, LongerChain
  <2>3. /\ e[n + 1] = new /\ \A i \in 1..n : e[i] = c[i]
        /\ \A i, j \in 1..(n + 1) : e[i] = e[j] => i = j
        /\ \A x : (\E i \in 1..(n + 1) : x = e[i]) <=> x = new \/ \E i \in 1..n : x = c[i]
    BY <2>2 DEF Longer
  <2>4. /\ n \in Nat /\ n + 1 \in Nat /\ n + 1 \in 0..(n + 1) /\ n + 1 > 0 /\ 1 \in 1..n
        /\ n \in 1..n /\ n + 1 \in 1..(n + 1) /\ n \in 0..n /\ n > 0 /\ n < n + 1 /\ n \in 1..(n + 1)
    OBVIOUS
  <2>5. Visible' = {e[i] : i \in 1..(n + 1)}
    <3>1. Visible = {c[i] : i \in 1..n}
      BY <1>3 DEF Shown
    <3>2. \A x : x \in Visible' <=> \E i \in 1..(n + 1) : x = e[i]
      BY <1>12, <2>3, <3>1
    <3> QED
      BY <3>2
  <2>6. \A i \in 1..(n + 1) : i # n + 1 => block'[e[i]].next = e[i + 1]
    <3> SUFFICES ASSUME NEW i \in 1..n
                 PROVE  block'[e[i]].next = e[i + 1]
      <4>1. \A i \in 1..(n + 1) : i # n + 1 => i \in 1..n
        OBVIOUS
      <4> QED
        BY <4>1
    <3>1. e[i] = c[i]
      BY <2>3
    <3>2. CASE i = n
      BY <1>6, <1>7, <2>3, <3>1, <3>2 DEF Pushes
    <3>3. CASE i # n
      <4>1. i + 1 \in 1..n /\ e[i + 1] = c[i + 1]
        BY <2>3, <3>3
      <4>2. block[c[i]].next = c[i + 1]
        BY <1>3, <2>4, <3>3 DEF Shown, Leads
      <4>3. c[i] # old /\ c[i] # new /\ c[i] \in BlockId
        BY <1>3, <1>6, <2>4, <3>3 DEF Shown, Leads
      <4> QED
        BY <1>7, <3>1, <4>1, <4>2, <4>3 DEF Pushes
    <3> QED
      BY <3>2, <3>3
  <2>7. block'[e[n + 1]].next \notin Visible'
    <3>1. NoBlock \notin Visible'
      BY <1>6, <1>12, BlockAssumption DEF StepsInv, TypeInv
    <3> QED
      BY <1>7, <2>3, <3>1 DEF Pushes
  <2>8. Leads(e, n + 1, Visible)'
    BY <2>3, <2>5, <2>6, <2>7 DEF Leads
  <2>9. VisibleArena'.memory_block = e[1]
    <3>1. VisibleArena.memory_block = c[1]
      BY <1>3, <2>4 DEF Shown
    <3> QED
      BY <1>7, <2>3, <2>4, <3>1 DEF Pushes
  <2>10. Shown(e, n + 1)'
    BY <2>5, <2>8, <2>9 DEF Shown
  <2>11. ChainView' = First(e, n + 1)
    BY <2>4, <2>10, ShownChainNext
  <2>12. First(e, n + 1) = Append(First(e, n), new)
    BY <2>3, <2>4, FirstAppend
  <2>13. First(e, n) = First(c, n)
    BY <2>3 DEF First
  <2>14. ChainView = First(c, n)
    BY <1>3, <2>4, ShownChain
  <2> QED
    BY <2>11, <2>12, <2>13, <2>14
<1>14. BlockView' = [BlockView EXCEPT ![new] = Whole!NewBlock(Whole!PushedCapacity, ArenaView.alignment, size)]
  <2>1. BlockView'[new] = Whole!NewBlock(Whole!PushedCapacity, ArenaView.alignment, size)
    <3>1. GrownCapacity \in 0..MmapLimit
      BY <1>4, <1>7, <1>12 DEF Pushes, StepsInv, TypeInv, Header
    <3>2. ArenaView.alignment \in 1..AlignLimit
      BY <1>1, <1>8 DEF StepsInv, TypeInv, Handle, Open
    <3>3. Whole!NewBlock(GrownCapacity, ArenaView.alignment, size)
             = [capacity |-> GrownCapacity, allocated |-> size, region |-> GrownCapacity]
      BY <3>1, <3>2, NewBlockShown
    <3> QED
      BY <1>7, <1>8, <1>11, <1>12, <3>3 DEF Pushes, BlockView
  <2>2. ASSUME NEW d \in BlockId, d # new PROVE BlockView'[d] = BlockView[d]
    <3>1. CASE d \in Visible
      <4>1. d \in Held /\ d \in Held'
        <5>1. Pending' = {}
          BY DEF MapPushed, Pending, NoCall
        <5> QED
          BY <1>7, <1>9, <3>1, <5>1 DEF Held, Pushes
      <4>2. RegionOf(d)' = RegionOf(d)
        BY <1>7, <2>2, <4>1, RegionKept DEF Pushes
      <4> QED
        BY <1>7, <1>12, <2>2, <3>1, <4>2 DEF Pushes, BlockView
    <3>2. CASE d \notin Visible
      BY <1>12, <2>2, <3>2 DEF BlockView
    <3> QED
      BY <3>1, <3>2
  <2>3. BlockView' = [d \in BlockId |-> BlockView'[d]] /\ BlockView = [d \in BlockId |-> BlockView[d]]
    BY DEF BlockView
  <2> QED
    BY <2>1, <2>2, <2>3
<1>15. VisibleArena'.top = new /\ Whole!Hand(new, 0, size)
  BY <1>7 DEF Pushes, Whole!Hand
<1>16. Whole!Mappable(Whole!PushedCapacity, ArenaView.alignment)
  BY <1>7, <1>8, <1>11, SameSums DEF Pushes
<1>17. UNCHANGED <<ArenaView, Whole!stackState>> /\ state' = state
  <2>1. VisibleArena.top # NoBlock /\ new # NoBlock
    BY <1>3, <1>6, <1>8, <1>12, BlockAssumption
  <2>2. ArrayView' = ArrayView
    BY <1>15, <2>1 DEF ArrayView
  <2> QED
    BY <1>7, <2>2 DEF Pushes, ArenaView, Whole!stackState
<1>18. Whole!PushBlock(size)
  BY <1>12, <1>13, <1>14, <1>15, <1>16 DEF Whole!PushBlock
<1>19. Whole!AllocGranted(size)
  BY <1>8, <1>10, <1>17, <1>18 DEF Whole!AllocGranted, Whole!StackGrants
<1> QED
  BY <1>5, <1>8, <1>17, <1>19 DEF Whole!Alloc

\* A header malloc'd for the end of the chain is hidden; a failing malloc is an
\* abort of Alloc.
LEMMA MallocHeaderImplements ==
    ASSUME StepsInv, StepsInv', EffectInv, MallocHeader
    PROVE  (Whole!MayRequest /\ Whole!Alloc(call.size)) \/ UNCHANGED Whole!vars
<1>1. /\ Searching /\ call.at = "visit" /\ state = "running"
      /\ ~HasRoom(call.block) /\ ~IsType("SCRATCH") /\ block[call.block].next = NoBlock
  BY DEF MallocHeader, At, Searching
<1>2. CASE Crash("E104")
  BY <1>1, <1>2, ExhaustedShown, SearchAllowed
<1>3. CASE \E fresh \in BlockId \ heap :
            /\ heap' = heap \cup {fresh}
            /\ block' = IF IsType("STACK") THEN block
                        ELSE [block EXCEPT ![call.block].next = fresh]
            /\ call' = [call EXCEPT !.at = "map", !.fresh = Append(@, fresh)]
            /\ UNCHANGED <<state, kernel, arena, live>>
  BY <1>1, <1>3, MallocHeaderShown
<1> QED
  BY <1>2, <1>3 DEF MallocHeader

\* Where the header waiting for its region is, the call is at the block before.
LEMMA MapAtBlock ==
    ASSUME StepsInv, EffectInv, call.at = "map"
    PROVE  call.block \in Held /\ ~IsType("SCRATCH") /\ Searching
<1>1. Searching
  BY DEF Searching
<1>2. CASE IsType("STACK")
  <2>1. call.block = arena.top
    BY <1>1, <1>2 DEF EffectInv, PushInv
  <2>2. PICK n \in Nat \ {0} : \E c \in [1..n -> BlockId] : Shown(c, n) /\ arena.top = c[n]
    BY <1>1, <1>2, ShownStack DEF EffectInv
  <2>3. PICK c \in [1..n -> BlockId] : Shown(c, n) /\ arena.top = c[n]
    BY <2>2
  <2>4. n \in 1..n
    OBVIOUS
  <2>5. call.block \in Visible
    BY <2>1, <2>3, <2>4 DEF Shown
  <2>6. Visible \subseteq Held
    BY <1>1, ShownSearching
  <2> QED
    BY <1>1, <1>2, <2>5, <2>6 DEF IsType
<1>3. CASE ~IsType("STACK")
  <2>1. PICK n \in Nat \ {0} : \E m \in 1..n : \E c \in [1..n -> BlockId] : Growing(c, n, m)
    BY <1>1, <1>3 DEF EffectInv, GrowthInv
  <2>2. PICK m \in 1..n : \E c \in [1..n -> BlockId] : Growing(c, n, m)
    BY <2>1
  <2>3. PICK c \in [1..n -> BlockId] : Growing(c, n, m)
    BY <2>2
  <2>4. m < n /\ call.block = c[n - 1] /\ ~IsType("SCRATCH")
    BY <2>3 DEF Growing, Mapping
  <2>5. Last(call.fresh) = c[n]
    <3>1. call.fresh \in Seq(BlockId)
      BY DEF StepsInv, TypeInv, Locals
    <3>2. call.fresh = [j \in 1..(n - m) |-> c[m + j]]
      BY <2>3 DEF Growing
    <3> QED
      BY <2>4, <3>1, <3>2, FreshLast
  <2>6. n - 1 \in 1..n /\ n \in 1..n /\ n - 1 # n
    BY <2>4
  <2>7. c[n - 1] \in heap /\ c[n - 1] # c[n]
    BY <2>3, <2>6 DEF Growing, Linked
  <2> QED
    BY <1>1, <2>4, <2>5, <2>7 DEF Held, Pending
<1> QED
  BY <1>2, <1>3

\* A region mapped is hidden or completes a push; a failing mmap is an abort of
\* Alloc.
LEMMA MapImplements ==
    ASSUME StepsInv, StepsInv', EffectInv, MapAppended \/ MapPushed
    PROVE  (Whole!MayRequest /\ Whole!Alloc(call.size)) \/ UNCHANGED Whole!vars
<1>1. MapRegion /\ call.at = "map" /\ state = "running"
  BY DEF MapAppended, MapPushed, MapRegion, At
<1>2. call.block \in Held /\ ~IsType("SCRATCH") /\ Searching
  BY <1>1, MapAtBlock
<1>3. CASE state' # "running"
  <2>1. UNCHANGED <<arena, heap, block, call, live>>
    BY <1>3 DEF MapAppended, MapPushed
  <2>2. Crash("E104")
    BY <1>1, <1>2, <1>3, <2>1, MapCrash
  <2> QED
    BY <1>1, <1>2, <2>2, ExhaustedShown, SearchAllowed
<1>4. CASE state' = "running"
  BY <1>4, MapAppendedShown, MapPushedShown
<1> QED
  BY <1>3, <1>4

\* *arena as a call that frees will leave it.
Remains ==
    call.at = "free" =>
        /\ call.op = "destroy" => VisibleArena = NoArena
        /\ call.op # "destroy" =>
             /\ VisibleArena.allocator_type = arena.allocator_type
             /\ VisibleArena.alignment = arena.alignment
             /\ VisibleArena.pool_size = arena.pool_size
             /\ VisibleArena.memory_block = arena.memory_block
        /\ call.op = "reset" =>
             /\ VisibleArena.top = IF IsType("STACK") THEN arena.memory_block ELSE arena.top
             /\ VisibleArena.snapshots = arena.snapshots /\ VisibleArena.max_size = arena.max_size
        /\ call.op = "unwind" =>
             /\ VisibleArena.top = arena.top
             /\ VisibleArena.snapshots = Front(arena.snapshots)
             /\ VisibleArena.max_size = IF Len(arena.snapshots) - 1 < arena.max_size \div 4
                                        THEN arena.max_size \div 2 ELSE arena.max_size

\* So it is.
LEMMA RemainsHolds == StepsInv => Remains
<1> SUFFICES ASSUME StepsInv, call.at = "free"
             PROVE  Remains
  BY DEF Remains
<1>1. arena \in Handle /\ VisibleArena = ArenaAfterFree /\ call.op \in {"reset", "destroy", "unwind"}
  BY DEF StepsInv, TypeInv, CallInv, VisibleArena
<1>2. CASE call.op = "destroy"
  <2>1. VisibleArena = NoArena
    BY <1>1, <1>2 DEF ArenaAfterFree
  <2> QED
    BY <1>2, <2>1 DEF Remains
<1>3. CASE call.op = "reset"
  <2>1. PICK top : top = IF IsType("STACK") THEN arena.memory_block ELSE arena.top
    OBVIOUS
  <2>2. VisibleArena = [arena EXCEPT !.top = top]
    BY <1>1, <1>3, <2>1 DEF ArenaAfterFree
  <2>3. PICK old : old = arena
    OBVIOUS
  <2>4. PICK left : left = VisibleArena
    OBVIOUS
  <2>5. /\ left.top = top /\ left.allocator_type = old.allocator_type
        /\ left.alignment = old.alignment /\ left.pool_size = old.pool_size
        /\ left.memory_block = old.memory_block /\ left.snapshots = old.snapshots
        /\ left.max_size = old.max_size
    BY <1>1, <2>2, <2>3, <2>4 DEF Handle
  <2> QED
    BY <1>3, <2>1, <2>3, <2>4, <2>5 DEF Remains
<1>4. CASE call.op = "unwind"
  <2>1. PICK size, kept : /\ size = IF Len(arena.snapshots) - 1 < arena.max_size \div 4
                                    THEN arena.max_size \div 2 ELSE arena.max_size
                          /\ kept = Front(arena.snapshots)
    OBVIOUS
  <2>2. VisibleArena = [arena EXCEPT !.snapshots = kept, !.max_size = size]
    BY <1>1, <1>4, <2>1 DEF ArenaAfterFree
  <2>3. PICK old : old = arena
    OBVIOUS
  <2>4. PICK left : left = VisibleArena
    OBVIOUS
  <2>5. /\ left.top = old.top /\ left.allocator_type = old.allocator_type
        /\ left.alignment = old.alignment /\ left.pool_size = old.pool_size
        /\ left.memory_block = old.memory_block /\ left.snapshots = kept
        /\ left.max_size = size
    BY <1>1, <2>2, <2>3, <2>4 DEF Handle
  <2> QED
    BY <1>4, <2>1, <2>3, <2>4, <2>5 DEF Remains
<1> QED
  BY <1>1, <1>2, <1>3, <1>4

\* And so it is in the next state.
LEMMA RemainsNext == StepsInv' => Remains'
<1> DEFINE Holds == StepsInv => Remains
<1>1. Holds
  BY RemainsHolds
<1> HIDE DEF Holds
<1>2. Holds'
  BY <1>1, PTL
<1> QED
  BY <1>2 DEF Holds

\* What is shown before and after the first step of a call that frees.
LEMMA LoopView ==
    ASSUME StepsInv, Idle, NEW n \in Nat \ {0}, NEW c \in [1..n -> BlockId], NEW k \in 0..n,
           LoopStarts(c, n, k), k > 0 => VisibleArena'.memory_block = c[1],
           \A b \in BlockId : block'[b].memory = block[b].memory, UNCHANGED kernel
    PROVE  /\ Visible = heap /\ VisibleArena = arena /\ heap \subseteq BlockId
           /\ Visible = {c[i] : i \in 1..n} /\ Visible' = {c[i] : i \in 1..k}
           /\ ChainView = First(c, n) /\ ChainView' = First(c, k)
           /\ Whole!Range(ChainView) = Visible /\ Whole!Range(ChainView') = Visible'
           /\ Head(ChainView) = c[1]
           /\ \A b \in BlockId : RegionOf(b)' = RegionOf(b)
<1>1. /\ Shown(c, n) /\ Visible' = {c[i] : i \in 1..k}
      /\ k > 0 => Leads(c, k, Visible)'
  BY DEF LoopStarts
<1>2. Shown(c, k)'
  BY <1>1 DEF Shown
<1>3. n \in 0..n /\ n > 0 /\ n \in Nat
  OBVIOUS
<1>4. ChainView = First(c, n) /\ Head(ChainView) = c[1] /\ Range(ChainView) = Visible
  BY <1>1, <1>3, ShownChain
<1>5. ChainView' = First(c, k) /\ Range(ChainView)' = Visible'
  BY <1>2, <1>3, ShownChainNext
<1>6. Visible = heap /\ VisibleArena = arena
  BY ShownIdle DEF Idle
<1>7. heap \subseteq BlockId
  BY DEF StepsInv, TypeInv
<1>8. \A b \in BlockId : RegionOf(b)' = RegionOf(b)
  BY DEF RegionOf, kernel
<1>9. Whole!Range(ChainView) = Visible /\ Whole!Range(ChainView') = Visible'
  BY <1>4, <1>5, SameSequences DEF Range
<1>10. Visible = {c[i] : i \in 1..n}
  BY <1>1 DEF Shown
<1> QED
  BY <1>1, <1>4, <1>5, <1>6, <1>7, <1>8, <1>9, <1>10

\* A destroy takes effect in Arena when it starts.
LEMMA DestroyShown ==
    ASSUME StepsInv, StepsInv', EffectInv, DestroyCall
    PROVE  Whole!Destroy
<1>1. Whole!Running /\ Idle /\ call = NoCall
  BY DEF DestroyCall, Idle, Whole!Running
<1>2. Whole!Open <=> Open
  BY <1>1, ShownIdle, OpenShown DEF StepsInv
<1>3. CASE ~Open /\ Crash("E201")
  BY <1>1, <1>2, <1>3, CrashShown DEF Whole!Destroy
<1>4. CASE /\ Open
           /\ FreeFrom("destroy", arena.memory_block)
           /\ live' = {}
           /\ UNCHANGED <<state, kernel, arena, heap, block>>
  <2>1. /\ call'.at = "free" /\ call'.op = "destroy"
        /\ \E n \in Nat \ {0} : \E c \in [1..n -> BlockId] : LoopStarts(c, n, 0)
    BY <1>1, <1>4, DestroyStarts
  <2>2. PICK n \in Nat \ {0} : \E c \in [1..n -> BlockId] : LoopStarts(c, n, 0)
    BY <2>1
  <2>3. PICK c \in [1..n -> BlockId] : LoopStarts(c, n, 0)
    BY <2>2
  <2>4. VisibleArena' = NoArena
    BY <2>1, RemainsNext DEF Remains
  <2>5. 0 \in 0..n /\ ~(0 > 0) /\ 1..0 = {}
    OBVIOUS
  <2>6. \A b \in BlockId : block'[b].memory = block[b].memory
    BY <1>4
  <2>7. /\ heap \subseteq BlockId
        /\ Visible' = {c[i] : i \in 1..0} /\ ChainView' = First(c, 0)
        /\ Whole!Range(ChainView) = Visible
    BY <1>1, <1>4, <2>3, <2>5, <2>6, LoopView
  <2>8. Visible' = {} /\ ChainView' = <<>>
    BY <2>5, <2>7 DEF First
  <2>9. BlockView' = Whole!Freed(Whole!Range(ChainView))
    <3>1. \A b \in BlockId : BlockView'[b] = Whole!Blank
      BY <2>8 DEF BlockView, Whole!Blank
    <3>2. \A b \in BlockId : b \notin Visible => BlockView[b] = Whole!Blank
      BY BlockShown
    <3>3. BlockView' = [b \in BlockId |-> BlockView'[b]]
      BY DEF BlockView
    <3> QED
      BY <2>7, <3>1, <3>2, <3>3 DEF Whole!Freed
  <2>10. /\ ArenaView' = Whole!NullArena
         /\ VisibleArena'.top = NoBlock /\ VisibleArena'.snapshots = <<>>
         /\ VisibleArena'.max_size = 0 /\ ArrayView' = "null"
    BY <2>4 DEF ArenaView, ArrayView, NoArena, Whole!NullArena
  <2>11. Visible' = Visible \ Whole!Range(ChainView)
    BY <2>7, <2>8
  <2> QED
    BY <1>1, <1>2, <1>4, <2>8, <2>9, <2>10, <2>11 DEF Whole!Destroy
<1> QED
  BY <1>3, <1>4 DEF DestroyCall

\* So does a reset.
LEMMA ResetShown ==
    ASSUME StepsInv, StepsInv', EffectInv, ResetCall
    PROVE  Whole!Reset
<1>1. Whole!Running /\ Idle /\ call = NoCall
  BY DEF ResetCall, Idle, Whole!Running
<1>2. /\ Whole!Open <=> Open
      /\ ArenaView.allocator_type = arena.allocator_type
      /\ ArenaView.alignment = arena.alignment
      /\ ArenaView.pool_size = arena.pool_size
      /\ VisibleArena = arena
  BY <1>1, ShownIdle, OpenShown DEF StepsInv
<1>3. CASE ~Open /\ Crash("E201")
  BY <1>1, <1>2, <1>3, CrashShown DEF Whole!Reset
<1>4. CASE /\ Open
           /\ block' = [block EXCEPT ![arena.memory_block].allocated = 0]
           /\ FreeFrom("reset", block[arena.memory_block].next)
           /\ live' = {}
           /\ state' = IF ResetInRegion THEN state ELSE "undefined"
           /\ UNCHANGED <<kernel, arena, heap>>
  <2>1. /\ call'.at = "free" /\ call'.op = "reset" /\ call'.op # "destroy"
        /\ arena.memory_block \in BlockId
        /\ \A b \in BlockId :
              /\ block'[b].memory = block[b].memory
              /\ block'[b].capacity = block[b].capacity
              /\ block'[b].allocated = IF b = arena.memory_block THEN 0 ELSE block[b].allocated
        /\ \E n \in Nat \ {0} : \E c \in [1..n -> BlockId] : LoopStarts(c, n, 1)
    BY <1>1, <1>4, ResetStarts
  <2>2. PICK n \in Nat \ {0} : \E c \in [1..n -> BlockId] : LoopStarts(c, n, 1)
    BY <2>1
  <2>3. PICK c \in [1..n -> BlockId] : LoopStarts(c, n, 1)
    BY <2>2
  <2>4. PICK head \in BlockId : head = arena.memory_block
    BY <2>1
  <2>5. /\ VisibleArena'.allocator_type = arena.allocator_type
        /\ VisibleArena'.alignment = arena.alignment
        /\ VisibleArena'.pool_size = arena.pool_size
        /\ VisibleArena'.memory_block = head
        /\ VisibleArena'.top = IF IsType("STACK") THEN head ELSE arena.top
        /\ VisibleArena'.snapshots = arena.snapshots /\ VisibleArena'.max_size = arena.max_size
    BY <1>4, <2>1, <2>4, RemainsNext DEF Remains, IsType
  <2>6. head = c[1] /\ 1 \in 0..n /\ 1 \in 1..n
    BY <2>3, <2>4 DEF LoopStarts
  <2>7. /\ heap \subseteq BlockId
        /\ Visible = heap /\ Visible = {c[i] : i \in 1..n}
        /\ Visible' = {c[i] : i \in 1..1} /\ ChainView' = First(c, 1)
        /\ Head(ChainView) = c[1]
        /\ \A b \in BlockId : RegionOf(b)' = RegionOf(b)
    BY <1>1, <1>4, <2>1, <2>3, <2>5, <2>6, LoopView, SMTT(30)
  <2>8. Visible' = {head} /\ ChainView' = <<head>> /\ Head(ChainView) = head /\ head \in Visible
    <3>1. 1..1 = {1}
      OBVIOUS
    <3>2. First(c, 1) = <<c[1]>>
      BY DEF First
    <3> QED
      BY <2>6, <2>7, <3>1, <3>2
  <2>9. BlockView' = [Whole!Freed(Visible \ {head}) EXCEPT ![head].allocated = 0]
    <3>1. PICK old : old = BlockView[head]
      OBVIOUS
    <3>2. old = [capacity |-> block[head].capacity, allocated |-> block[head].allocated,
                 region |-> RegionOf(head).size]
      BY <2>8, <3>1 DEF BlockView
    <3>3. BlockView'[head] = [old EXCEPT !.allocated = 0]
      <4>1. BlockView'[head] = [capacity |-> block[head].capacity, allocated |-> 0,
                                region |-> RegionOf(head).size]
        BY <2>1, <2>4, <2>7, <2>8 DEF BlockView
      <4> QED
        BY <3>2, <4>1
    <3>4. \A b \in BlockId : b # head => BlockView'[b] = Whole!Blank
      BY <2>8 DEF BlockView, Whole!Blank
    <3>5. PICK freed : freed = Whole!Freed(Visible \ {head})
      OBVIOUS
    <3>6. /\ freed[head] = old
          /\ \A b \in BlockId : b # head => freed[b] = Whole!Blank
          /\ freed = [b \in BlockId |-> freed[b]]
      <4>1. \A b \in BlockId : b \notin Visible => BlockView[b] = Whole!Blank
        BY BlockShown
      <4> QED
        BY <3>1, <3>5, <4>1 DEF Whole!Freed
    <3>7. BlockView' = [b \in BlockId |-> BlockView'[b]]
      BY DEF BlockView
    <3>8. [freed EXCEPT ![head].allocated = 0] =
             [b \in BlockId |-> IF b = head THEN [old EXCEPT !.allocated = 0] ELSE Whole!Blank]
      BY <3>6
    <3> QED
      BY <3>3, <3>4, <3>5, <3>7, <3>8
  <2>10. Whole!ResetToHead
    BY <2>8, <2>9 DEF Whole!ResetToHead
  <2>11. VisibleArena'.top = Whole!ResetTop
    BY <1>2, <2>5, <2>8 DEF Whole!ResetTop, IsType
  <2>12. state' = IF BlockView[Head(ChainView)].allocated <= BlockView[Head(ChainView)].region
                  THEN state ELSE "undefined"
    <3>1. BlockView[head].allocated = block[head].allocated /\ BlockView[head].region = RegionOf(head).size
      BY <2>8, BlockShown
    <3> QED
      BY <1>4, <2>4, <2>8, <3>1 DEF ResetInRegion
  <2>13. UNCHANGED <<ArenaView, Whole!stackState>>
    <3>1. head # NoBlock
      BY BlockAssumption
    <3>2. IsType("STACK") => arena.top # NoBlock
      <4>1. Open /\ IsType("STACK") => arena.top \in heap
        BY <1>1, ShownIdle
      <4>2. heap \subseteq BlockId
        BY <2>7
      <4> QED
        BY <1>4, <4>1, <4>2, BlockAssumption
    <3>3. ArrayView' = ArrayView
      BY <1>2, <2>5, <3>1, <3>2 DEF ArrayView
    <3> QED
      BY <1>2, <2>5, <3>3 DEF ArenaView, Whole!stackState
  <2> QED
    BY <1>1, <1>2, <1>4, <2>10, <2>11, <2>12, <2>13 DEF Whole!Reset
<1> QED
  BY <1>3, <1>4 DEF ResetCall

\* A stack between calls: its top is a block of the chain and its array there.
LEMMA IdleStack ==
    ASSUME StepsInv, call = NoCall, Open, IsType("STACK")
    PROVE  /\ arena.top \in Visible /\ arena.top \in BlockId /\ Visible = heap
           /\ VisibleArena = arena /\ ArrayView = "ok"
<1>1. /\ VisibleArena = arena /\ Visible = heap
      /\ arena.top \in heap
  BY ShownIdle
<1>2. heap \subseteq BlockId
  BY DEF StepsInv, TypeInv
<1>3. arena.top # NoBlock
  BY <1>1, <1>2, BlockAssumption
<1> QED
  BY <1>1, <1>2, <1>3 DEF ArrayView

\* Recording is recording in Arena.
LEMMA RecordShown ==
    ASSUME StepsInv, StepsInv', EffectInv, MayRecord, RecordCall
    PROVE  Whole!StackRecord
<1>1. Whole!Running /\ Idle /\ call = NoCall
  BY DEF RecordCall, Idle, Whole!Running
<1>2. /\ Whole!Open <=> Open
      /\ ArenaView.allocator_type = arena.allocator_type
      /\ ArenaView.alignment = arena.alignment
      /\ ArenaView.pool_size = arena.pool_size
      /\ VisibleArena = arena
  BY <1>1, ShownIdle, OpenShown DEF StepsInv
<1>3. Len(VisibleArena.snapshots) < SnapshotBound
  BY <1>2 DEF MayRecord
<1>4. Whole!ArrayFull <=> ArrayFull
  BY <1>2 DEF Whole!ArrayFull, ArrayFull
<1>5. Whole!RecordError = IF ~Open THEN "E201" ELSE IF ~IsType("STACK") THEN "E502" ELSE "none"
  BY <1>2 DEF Whole!RecordError, IsType
<1>6. CASE \E code \in RecordErrors : Crash(code)
  <2>1. PICK code \in RecordErrors : Crash(code)
    BY <1>6
  <2>2. Whole!Abort(code)
    BY <2>1, CrashShown
  <2>3. \/ Whole!RecordError # "none" /\ code = Whole!RecordError
        \/ Whole!RecordError = "none" /\ ArrayFull /\ code = "E104"
    BY <1>5, <2>1 DEF RecordErrors
  <2>4. Whole!Record
    BY <1>4, <2>2, <2>3 DEF Whole!Record
  <2> QED
    BY <1>1, <1>3, <2>4 DEF Whole!StackRecord
<1>7. CASE /\ Open /\ IsType("STACK")
           /\ arena' = [arena EXCEPT
                !.max_size = IF ArrayFull THEN 2 * @ ELSE @,
                !.snapshots = Append(@, [top |-> arena.top,
                                         allocated |-> block[arena.top].allocated,
                                         capacity |-> block[arena.top].capacity])]
           /\ UNCHANGED <<state, kernel, heap, block, call, live>>
  <2>1. /\ arena.top \in Visible /\ arena.top \in BlockId /\ Visible = heap
        /\ ArrayView = "ok"
    BY <1>1, <1>7, IdleStack
  <2>2. PICK size, marks : /\ size = IF ArrayFull THEN 2 * arena.max_size ELSE arena.max_size
                           /\ marks = Append(arena.snapshots, [top |-> arena.top,
                                                               allocated |-> block[arena.top].allocated,
                                                               capacity |-> block[arena.top].capacity])
    OBVIOUS
  <2>3. arena' = [arena EXCEPT !.max_size = size, !.snapshots = marks]
    BY <1>7, <2>2
  <2>4. /\ arena'.allocator_type = arena.allocator_type /\ arena'.alignment = arena.alignment
        /\ arena'.pool_size = arena.pool_size /\ arena'.memory_block = arena.memory_block
        /\ arena'.top = arena.top /\ arena'.snapshots = marks /\ arena'.max_size = size
    BY <2>3 DEF StepsInv, TypeInv, Handle
  <2>5. call'.at = "idle" /\ call'.fresh = <<>>
    BY <1>1, <1>7 DEF NoCall
  <2>6. VisibleArena' = arena' /\ Visible' = Visible
    <3>1. Range(<<>>) = {}
      BY DEF Range
    <3> QED
      BY <1>7, <2>1, <2>5, <3>1 DEF VisibleArena, Visible, Doomed
  <2>7. ChainView' = ChainView
    <3>1. PICK n \in Nat : \E c \in [1..n -> BlockId] : Shown(c, n)
      BY <1>1, ShownIdle
    <3>2. PICK c \in [1..n -> BlockId] : Shown(c, n)
      BY <3>1
    <3>3. Shown(c, n)'
      BY <1>2, <1>7, <2>4, <2>6, <3>2 DEF Shown, Leads
    <3>4. n \in 0..n
      OBVIOUS
    <3> QED
      BY <3>2, <3>3, <3>4, ShownChain, ShownChainNext
  <2>8. BlockView' = BlockView
    BY <1>7, <2>6 DEF BlockView, RegionOf, kernel
  <2>9. UNCHANGED <<ArenaView, ArrayView>>
    BY <1>2, <2>4, <2>6 DEF ArenaView, ArrayView
  <2>10. UNCHANGED Whole!structure
    BY <1>2, <2>4, <2>6, <2>7, <2>8, <2>9 DEF Whole!structure
  <2>11. Whole!Mark = [top |-> arena.top, allocated |-> block[arena.top].allocated,
                       capacity |-> block[arena.top].capacity]
    <3>1. BlockView[arena.top].allocated = block[arena.top].allocated
          /\ BlockView[arena.top].capacity = block[arena.top].capacity
      BY <2>1, BlockShown
    <3> QED
      BY <1>2, <3>1 DEF Whole!Mark
  <2>12. VisibleArena'.snapshots = Append(VisibleArena.snapshots, Whole!Mark)
    BY <1>2, <2>2, <2>4, <2>6, <2>11
  <2>13. VisibleArena'.max_size = IF Whole!ArrayFull THEN 2 * VisibleArena.max_size ELSE VisibleArena.max_size
    BY <1>2, <1>4, <2>2, <2>4, <2>6
  <2>14. Whole!RecordError = "none"
    BY <1>5, <1>7
  <2>15. Whole!Record
    BY <1>7, <2>1, <2>9, <2>10, <2>12, <2>13, <2>14 DEF Whole!Record
  <2> QED
    BY <1>1, <1>3, <2>15 DEF Whole!StackRecord
<1> QED
  BY <1>6, <1>7 DEF RecordCall

\* The part of a chain up to its k-th block.
LEMMA UpTo ==
    ASSUME NEW n \in Nat \ {0}, NEW c \in [1..n -> BlockId], NEW k \in 1..n,
           \A i, j \in 1..n : c[i] = c[j] => i = j,
           ChainView = First(c, n)
    PROVE  Whole!ChainUpTo(c[k]) = First(c, k)
<1>1. PICK s : s = ChainView
  OBVIOUS
<1>2. s \in Seq(BlockId) /\ Len(s) = n /\ DOMAIN s = 1..n /\ \A i \in 1..n : s[i] = c[i]
  <2>1. n \in 1..n /\ n \in Nat
    OBVIOUS
  <2>2. s \in Seq(BlockId) /\ Len(s) = n
    BY <1>1, <2>1, FirstAppend
  <2> QED
    BY <1>1, <2>2 DEF First
<1>3. PICK p : p = CHOOSE i \in DOMAIN s : s[i] = c[k]
  OBVIOUS
<1>4. p \in 1..n /\ s[p] = c[k]
  <2>1. \E i \in DOMAIN s : s[i] = c[k]
    BY <1>2
  <2> QED
    BY <1>2, <1>3, <2>1
<1>5. p = k
  BY <1>2, <1>4
<1>6. SubSeq(s, 1, k) = First(c, k)
  <2>1. \A i \in 1..k : i \in 1..n /\ s[i] = c[i]
    BY <1>2
  <2>2. SubSeq(s, 1, k) = [i \in 1..k |-> s[i]]
    <3>1. 1 \in 1..(n + 1) /\ k \in 0..n
      OBVIOUS
    <3>2. SubSeq(s, 1, k) \in Seq(BlockId) /\ Len(SubSeq(s, 1, k)) = k
          /\ \A i \in 1..k : SubSeq(s, 1, k)[i] = s[i]
      BY <1>2, <3>1
    <3> QED
      BY <3>2
  <2> QED
    BY <2>1, <2>2 DEF First
<1> QED
  BY <1>1, <1>3, <1>5, <1>6 DEF Whole!ChainUpTo

\* An unwind takes effect in Arena when it starts.
LEMMA UnwindShown ==
    ASSUME StepsInv, StepsInv', EffectInv, UnwindCall
    PROVE  Whole!StackUnwind
<1>1. Whole!Running /\ Idle /\ call = NoCall
  BY DEF UnwindCall, Idle, Whole!Running
<1>2. /\ Whole!Open <=> Open
      /\ ArenaView.allocator_type = arena.allocator_type
      /\ ArenaView.alignment = arena.alignment
      /\ ArenaView.pool_size = arena.pool_size
      /\ VisibleArena = arena /\ Visible = heap
  BY <1>1, ShownIdle, OpenShown DEF StepsInv
<1>3. Whole!UnwindError = UnwindError
  BY <1>2 DEF Whole!UnwindError, Whole!RecordError, UnwindError, IsType
<1>4. Whole!Last(VisibleArena.snapshots) = Last(arena.snapshots)
  BY <1>2, SameSequences
<1>5. CASE UnwindError # "none" /\ Crash(UnwindError)
  <2>1. Whole!Abort(Whole!UnwindError) /\ Whole!UnwindError # "none"
    BY <1>3, <1>5, CrashShown
  <2> QED
    BY <1>1, <2>1 DEF Whole!StackUnwind, Whole!Unwind
<1>6. CASE UnwindError = "none" /\ Last(arena.snapshots).top \notin heap /\ Crash("undefined")
  <2>1. Whole!TargetDangles
    BY <1>2, <1>4, <1>6 DEF Whole!TargetDangles
  <2>2. Whole!Abort("undefined") /\ Whole!UnwindError = "none"
    BY <1>3, <1>6, CrashShown
  <2> QED
    BY <1>1, <2>1, <2>2 DEF Whole!StackUnwind, Whole!Unwind
<1>7. CASE /\ UnwindError = "none" /\ Last(arena.snapshots).top \in heap
           /\ UnwindTo(Last(arena.snapshots))
           /\ live' = {r \in live : r.depth < Len(arena.snapshots)}
           /\ UNCHANGED <<state, kernel, heap>>
  <2>1. PICK target : target = Last(arena.snapshots)
    OBVIOUS
  <2>2. /\ call'.at = "free" /\ call'.op = "unwind" /\ call'.op # "destroy"
        /\ Open /\ IsType("STACK") /\ arena.snapshots # <<>>
        /\ target.top \in heap
        /\ arena'.allocator_type = arena.allocator_type /\ arena'.alignment = arena.alignment
        /\ arena'.pool_size = arena.pool_size /\ arena'.memory_block = arena.memory_block
        /\ arena'.snapshots = arena.snapshots /\ arena'.max_size = arena.max_size
        /\ arena'.top = target.top
        /\ \A b \in BlockId :
              /\ block'[b].next = block[b].next /\ block'[b].memory = block[b].memory
              /\ block'[b].capacity = IF b = target.top THEN target.capacity ELSE block[b].capacity
              /\ block'[b].allocated = IF b = target.top THEN target.allocated ELSE block[b].allocated
        /\ \E n \in Nat \ {0} : \E c \in [1..n -> BlockId] : \E k \in 1..n :
              target.top = c[k] /\ LoopStarts(c, n, k)
    BY <1>1, <1>7, <2>1, UnwindStarts
  <2>3. PICK n \in Nat \ {0} : \E c \in [1..n -> BlockId] : \E k \in 1..n :
                 target.top = c[k] /\ LoopStarts(c, n, k)
    BY <2>2
  <2>4. PICK c \in [1..n -> BlockId] : \E k \in 1..n : target.top = c[k] /\ LoopStarts(c, n, k)
    BY <2>3
  <2>5. PICK k \in 1..n : target.top = c[k] /\ LoopStarts(c, n, k)
    BY <2>4
  <2>6. PICK size, marks : /\ size = IF Len(arena.snapshots) - 1 < arena.max_size \div 4
                                     THEN arena.max_size \div 2 ELSE arena.max_size
                           /\ marks = Front(arena.snapshots)
    OBVIOUS
  <2>7. /\ VisibleArena'.allocator_type = arena.allocator_type
        /\ VisibleArena'.alignment = arena.alignment
        /\ VisibleArena'.pool_size = arena.pool_size
        /\ VisibleArena'.memory_block = arena.memory_block
        /\ VisibleArena'.top = target.top
        /\ VisibleArena'.snapshots = marks /\ VisibleArena'.max_size = size
    BY <2>2, <2>6, RemainsNext DEF Remains
  <2>8. /\ k \in 0..n /\ arena.memory_block = c[1]
        /\ \A i, j \in 1..n : c[i] = c[j] => i = j
    BY <2>5 DEF LoopStarts
  <2>9. /\ heap \subseteq BlockId
        /\ Visible = {c[i] : i \in 1..n}
        /\ ChainView = First(c, n) /\ ChainView' = First(c, k)
        /\ Whole!Range(ChainView') = Visible'
        /\ Visible' = {c[i] : i \in 1..k}
        /\ \A b \in BlockId : RegionOf(b)' = RegionOf(b)
    BY <1>1, <1>7, <2>2, <2>5, <2>7, <2>8, LoopView
  <2>10. Whole!ChainUpTo(target.top) = ChainView'
    BY <2>5, <2>8, <2>9, UpTo
  <2>11. PICK b \in BlockId : b = target.top /\ b \in Visible /\ b \in Visible'
    <3>1. k \in 1..k
      OBVIOUS
    <3>2. target.top \in Visible /\ target.top \in Visible'
      BY <1>2, <2>2, <2>5, <2>9, <3>1
    <3> QED
      BY <1>2, <2>2, <2>9, <3>2
  <2>12. Visible' \subseteq Visible
    <3>1. \A i \in 1..k : i \in 1..n
      OBVIOUS
    <3> QED
      BY <2>9, <3>1
  <2>13. BlockView' = Whole!Restored(target, ChainView')
    <3>1. PICK old : old = BlockView[b]
      OBVIOUS
    <3>2. old.region = RegionOf(b).size
      BY <2>11, <3>1, BlockShown
    <3>3. PICK new : new = [capacity |-> target.capacity, allocated |-> target.allocated,
                            region |-> old.region]
      OBVIOUS
    <3>4. BlockView'[b] = new
      BY <2>2, <2>9, <2>11, <3>2, <3>3 DEF BlockView
    <3>5. PICK freed : freed = Whole!Freed(Visible \ Visible')
      OBVIOUS
    <3>6. \A d \in BlockId : freed[d] = IF d \in Visible \ Visible' THEN Whole!Blank ELSE BlockView[d]
      BY <3>5 DEF Whole!Freed
    <3>7. \A d \in BlockId : d # b => BlockView'[d] = freed[d]
      <4> SUFFICES ASSUME NEW d \in BlockId, d # b
                   PROVE  BlockView'[d] = freed[d]
        OBVIOUS
      <4>1. CASE d \in Visible'
        <5>1. BlockView'[d] = BlockView[d]
          BY <2>2, <2>9, <2>11, <2>12, <4>1 DEF BlockView
        <5> QED
          BY <3>6, <4>1, <5>1
      <4>2. CASE d \notin Visible'
        <5>1. BlockView'[d] = Whole!Blank
          BY <4>2 DEF BlockView, Whole!Blank
        <5>2. d \notin Visible => BlockView[d] = Whole!Blank
          BY BlockShown
        <5> QED
          BY <3>6, <4>2, <5>1, <5>2
      <4> QED
        BY <4>1, <4>2
    <3>8. freed[b] = old
      BY <2>11, <3>1, <3>6
    <3>9. /\ BlockView' = [d \in BlockId |-> BlockView'[d]]
          /\ freed = [d \in BlockId |-> freed[d]]
      BY <3>5 DEF BlockView, Whole!Freed
    <3>10. Whole!Restored(target, ChainView') =
              [freed EXCEPT ![b] = [capacity |-> target.capacity, allocated |-> target.allocated,
                                    region |-> @.region]]
      BY <2>9, <2>11, <3>5 DEF Whole!Restored
    <3>11. Whole!Restored(target, ChainView') = [d \in BlockId |-> IF d = b THEN new ELSE freed[d]]
      BY <3>3, <3>8, <3>9, <3>10
    <3> QED
      BY <3>4, <3>7, <3>9, <3>11
  <2>14. ArrayView = "ok" /\ ArrayView' = "ok"
    <3>1. VisibleArena'.top # NoBlock
      BY <2>7, <2>11, BlockAssumption
    <3> QED
      BY <1>1, <2>2, <3>1, IdleStack DEF ArrayView
  <2>15. ~Whole!TargetDangles /\ Whole!UnwindError = "none"
    BY <1>2, <1>3, <1>4, <1>7, <2>14 DEF Whole!TargetDangles
  <2>16. Whole!ShrinkArray(Len(VisibleArena.snapshots) - 1)
    BY <1>2, <2>6, <2>7, <2>14 DEF Whole!ShrinkArray
  <2>17. VisibleArena'.snapshots = Whole!Front(VisibleArena.snapshots)
    BY <1>2, <2>6, <2>7, SameSequences
  <2>18. UNCHANGED ArenaView
    BY <1>2, <2>7 DEF ArenaView
  <2>19. live' = {r \in live : r.depth < Len(VisibleArena.snapshots)}
    BY <1>2, <1>7
  <2>20. Whole!Last(VisibleArena.snapshots) = target
    BY <1>4, <2>1
  <2>21. /\ VisibleArena'.top = target.top
         /\ Visible' = Whole!Range(Whole!ChainUpTo(target.top))
         /\ ChainView' = Whole!ChainUpTo(target.top)
         /\ BlockView' = Whole!Restored(target, Whole!ChainUpTo(target.top))
    BY <2>7, <2>9, <2>10, <2>13
  <2>22. Whole!Unwind
    BY <1>7, <2>15, <2>16, <2>17, <2>18, <2>19, <2>20, <2>21 DEF Whole!Unwind
  <2> QED
    BY <1>1, <2>22 DEF Whole!StackUnwind
<1> QED
  BY <1>5, <1>6, <1>7 DEF UnwindCall, UnwindTo

-------------------------------------------------------------------------------
(* The refinement.                                                           *)

\* The headers before the first call.
LEMMA InitShown ==
    ASSUME Init
    PROVE  Whole!Init
<1>1. /\ state = "running" /\ arena = NoArena /\ heap = {} /\ live = {} /\ call = NoCall
  BY DEF Init, Memory!Init
<1>2. call.at = "idle" /\ call.fresh = <<>>
  BY <1>1 DEF NoCall
<1>3. VisibleArena = NoArena /\ Visible = {}
  BY <1>1, <1>2 DEF VisibleArena, Visible
<1>4. ChainView = <<>>
  BY <1>3, NoPath DEF ChainView
<1>5. BlockView = [b \in BlockId |-> Whole!Blank]
  BY <1>3 DEF BlockView, Whole!Blank
<1>6. ArenaView = Whole!NullArena
  BY <1>3 DEF ArenaView, NoArena, Whole!NullArena
<1>7. /\ VisibleArena.top = NoBlock /\ VisibleArena.snapshots = <<>>
      /\ VisibleArena.max_size = 0 /\ ArrayView = "null"
  BY <1>3 DEF NoArena, ArrayView
<1>8. << >> = [b \in {} |-> "held"]
  OBVIOUS
<1> QED
  BY <1>1, <1>3, <1>4, <1>5, <1>6, <1>7, <1>8 DEF Whole!Init

\* A step inside a call that looks for room is the allocation of Arena or
\* shows nothing.
LEMMA SearchShown ==
    ASSUME StepsInv, StepsInv', EffectInv,
           Take \/ RefuseScratch \/ Advance \/ MallocHeader \/ MapAppended \/ MapPushed
    PROVE  (\E size \in Requests : Whole!MayRequest /\ Whole!Alloc(size)) \/ UNCHANGED Whole!vars
<1>1. Searching /\ state = "running"
  BY DEF Take, RefuseScratch, Advance, MallocHeader, MapAppended, MapPushed, MapRegion, At, Searching
<1>2. call.size \in Requests
  BY <1>1, SearchAllowed
<1>3. (Whole!MayRequest /\ Whole!Alloc(call.size)) \/ UNCHANGED Whole!vars
  BY TakeShown, RefuseScratchShown, AdvanceShown, MallocHeaderImplements, MapImplements
<1> QED
  BY <1>2, <1>3

\* Every step is a step of Arena or shows nothing.
LEMMA NextShown ==
    ASSUME StepsInv, StepsInv', EffectInv, [Next]_svars
    PROVE  [Whole!Next]_Whole!vars
<1>1. ASSUME NEW type \in Types, NEW a \in Alignments, NEW size \in InitialSizes,
             Create(type, a, size)
      PROVE  Whole!Next
  BY <1>1, CreateShown DEF Whole!Next
<1>2. ASSUME NEW size \in Requests, MayRequest, AllocCall(size)
      PROVE  Whole!Next \/ UNCHANGED Whole!vars
  BY <1>2, AllocCallShown DEF Whole!Next
<1>3. CASE ResetCall
  BY <1>3, ResetShown DEF Whole!Next
<1>4. CASE DestroyCall
  BY <1>4, DestroyShown DEF Whole!Next
<1>5. CASE MayRecord /\ RecordCall
  BY <1>5, RecordShown DEF Whole!Next
<1>6. CASE UnwindCall
  BY <1>6, UnwindShown DEF Whole!Next
<1>7. CASE Take \/ RefuseScratch \/ Advance \/ MallocHeader \/ MapAppended \/ MapPushed
  BY <1>7, SearchShown DEF Whole!Next
<1>8. CASE FreeBlock \/ FreeReturn
  BY <1>8, FreeBlockShown, FreeReturnShown
<1>9. CASE UNCHANGED svars
  <2>1. UNCHANGED <<state, kernel, arena, heap, block, call, live>>
    BY <1>9 DEF svars
  <2> QED
    BY <2>1, QuietView, Stutter
<1> QED
  BY <1>1, <1>2, <1>3, <1>4, <1>5, <1>6, <1>7, <1>8, <1>9 DEF Next, Call, Step

\* The loops implement Arena: whatever the client asks and wherever memory is
\* given or refused, each call amounts to its one step there.
THEOREM ArenaImplemented == Spec => ImplementsArena
<1>1. Init => Whole!Init
  BY InitShown
<1>2. StepsInv /\ StepsInv' /\ EffectInv /\ [Next]_svars => [Whole!Next]_Whole!vars
  BY NextShown
<1>3. Spec => []StepsInv
  BY StepsInvariance
<1>4. Spec => []EffectInv
  BY EffectInvariance
<1> QED
  BY <1>1, <1>2, <1>3, <1>4, PTL DEF Spec, ImplementsArena, Whole!Spec

-------------------------------------------------------------------------------
(* The calls end: what each iteration leaves to do.                          *)

\* The blocks still to be visited, and the last of them.
Ahead == Len(Path(call.block, heap))
Furthest == Last(Path(call.block, heap))

\* From the i-th block of a chain as many are ahead as follow it, up to the last.
LEMMA TailPath ==
    ASSUME NEW n \in Nat \ {0}, NEW i \in 1..n, NEW c \in [1..n -> BlockId],
           Linked(c, n), heap = {c[j] : j \in 1..n}
    PROVE  Len(Path(c[i], heap)) = n - i + 1 /\ Last(Path(c[i], heap)) = c[n]
<1> DEFINE left == n - i + 1
           d == [j \in 1..left |-> c[i - 1 + j]]
<1>1. /\ left \in Nat /\ left \in 1..left /\ 1 \in 1..left
      /\ \A j \in 1..left : i - 1 + j \in 1..n
      /\ \A j \in 1..left : i - 1 + j = n <=> j = left
      /\ \A j, k \in 1..left : i - 1 + j = i - 1 + k => j = k
      /\ \A j \in 1..left : j # left => j + 1 \in 1..left /\ i - 1 + (j + 1) = (i - 1 + j) + 1
      /\ i - 1 + 1 = i
  OBVIOUS
<1>2. d \in [1..left -> BlockId] /\ \A j \in 1..left : d[j] = c[i - 1 + j]
  BY <1>1
<1> HIDE DEF left, d
<1>3. /\ \A j, k \in 1..n : c[j] = c[k] => j = k
      /\ \A j \in 1..n : block[c[j]].next = IF j = n THEN NoBlock ELSE c[j + 1]
      /\ \A j \in 1..n : c[j] \in BlockId
  BY DEF Linked
<1>4. \A j, k \in 1..left : d[j] = d[k] => j = k
  <2> SUFFICES ASSUME NEW j \in 1..left, NEW k \in 1..left, d[j] = d[k]
               PROVE  j = k
    OBVIOUS
  <2>1. i - 1 + j \in 1..n /\ i - 1 + k \in 1..n /\ c[i - 1 + j] = c[i - 1 + k]
    BY <1>1, <1>2
  <2>2. i - 1 + j = i - 1 + k
    BY <1>3, <2>1
  <2> QED
    BY <1>1, <2>2
<1>5. \A j \in 1..left : d[j] \in heap
  BY <1>1, <1>2
<1>6. \A j \in 1..left : j # left => block[d[j]].next = d[j + 1]
  <2> SUFFICES ASSUME NEW j \in 1..left, j # left
               PROVE  block[d[j]].next = d[j + 1]
    OBVIOUS
  <2>1. block[c[i - 1 + j]].next = c[(i - 1 + j) + 1]
    BY <1>1, <1>3
  <2> QED
    BY <1>1, <1>2, <2>1
<1>7. heap \in SUBSET BlockId
  BY <1>3
<1>8. block[d[left]].next \notin heap
  <2>1. block[d[left]].next = NoBlock
    BY <1>1, <1>2, <1>3
  <2> QED
    BY <1>7, <2>1, BlockAssumption
<1>9. Leads(d, left, heap)
  BY <1>4, <1>5, <1>6, <1>8 DEF Leads
<1>10. Path(d[1], heap) = First(d, left)
  BY <1>1, <1>2, <1>7, <1>9, PathFrom
<1>11. d[1] = c[i]
  BY <1>1, <1>2
<1>12. Len(First(d, left)) = left /\ Last(First(d, left)) = d[left]
  <2>1. \A k \in Nat : \A e \in [1..k -> BlockId] :
              k \in 1..k => Len(First(e, k)) = k /\ Last(First(e, k)) = e[k]
    BY FirstAppend
  <2> QED
    BY <1>1, <1>2, <2>1
<1>13. i - 1 + left = n
  BY <1>1 DEF left
<1>14. d[left] = c[n]
  BY <1>1, <1>2, <1>13
<1> QED
  BY <1>10, <1>11, <1>12, <1>14 DEF left

\* From a block that leads to no other only it is ahead.
LEMMA SinglePath ==
    ASSUME NEW b \in BlockId, heap \in SUBSET BlockId, b \in heap, block[b].next = NoBlock
    PROVE  Len(Path(b, heap)) = 1 /\ Last(Path(b, heap)) = b
<1> DEFINE c == [j \in 1..1 |-> b]
<1>1. c \in [1..1 -> BlockId] /\ c[1] = b /\ 1 \in 1..1 /\ 1 \in Nat /\ \A j \in 1..1 : j = 1
  OBVIOUS
<1> HIDE DEF c
<1>2. Leads(c, 1, heap)
  BY <1>1, BlockAssumption DEF Leads
<1>3. Path(c[1], heap) = First(c, 1)
  BY <1>1, <1>2, PathFrom
<1>4. Len(First(c, 1)) = 1 /\ Last(First(c, 1)) = c[1]
  <2>1. \A k \in Nat : \A e \in [1..k -> BlockId] :
              k \in 1..k => Len(First(e, k)) = k /\ Last(First(e, k)) = e[k]
    BY FirstAppend
  <2> QED
    BY <1>1, <2>1
<1> QED
  BY <1>1, <1>3, <1>4

\* What is left to do in each place, in numbers.
LEMMA Counted ==
    StepsInv /\ EffectInv =>
        /\ Cardinality(heap) \in Nat
        /\ Searching => call.block \in BlockId
        /\ \A b \in BlockId : Headroom(b) \in Nat
        /\ call.at = "visit" => Ahead \in Nat \ {0} /\ Furthest \in BlockId
        /\ Searching /\ block[call.block].next = NoBlock => Ahead = 1 /\ Furthest = call.block
<1> SUFFICES ASSUME StepsInv, EffectInv
             PROVE  /\ Cardinality(heap) \in Nat
                    /\ Searching => call.block \in BlockId
                    /\ \A b \in BlockId : Headroom(b) \in Nat
                    /\ call.at = "visit" => Ahead \in Nat \ {0} /\ Furthest \in BlockId
                    /\ Searching /\ block[call.block].next = NoBlock
                          => Ahead = 1 /\ Furthest = call.block
  OBVIOUS
<1>1. heap \in SUBSET BlockId /\ IsFiniteSet(heap) /\ block \in [BlockId -> Header]
  BY DEF StepsInv, TypeInv
<1>2. Cardinality(heap) \in Nat
  BY <1>1, FS_CardinalityType
<1>3. \A b \in BlockId : Headroom(b) \in Nat
  <2>1. \A b \in BlockId : block[b].capacity \in 0..MmapLimit
    BY <1>1 DEF Header
  <2>2. MmapLimit \in Nat
    BY Constants
  <2> QED
    BY <2>1, <2>2 DEF Headroom
<1>4. ASSUME Searching PROVE call.block \in heap
  <2>1. CASE call.at = "visit"
    BY <2>1, IdleFacts
  <2>2. CASE call.at = "map" /\ IsType("STACK")
    <3>1. call.block = arena.top /\ PushInv
      BY <1>4, <2>2 DEF EffectInv, PushInv
    <3>2. PICK n \in Nat \ {0} : \E c \in [1..n -> BlockId] :
                 Shown(c, n) /\ arena.top = c[n] /\ heap = Visible \cup Pending
      BY <1>4, <2>2, <3>1, ShownStack
    <3>3. n \in 1..n
      OBVIOUS
    <3> QED
      BY <3>1, <3>2, <3>3 DEF Shown
  <2>3. CASE call.at = "map" /\ ~IsType("STACK")
    <3>1. PICK n \in Nat \ {0} : \E m \in 1..n : \E c \in [1..n -> BlockId] : Growing(c, n, m)
      BY <1>4, <2>3 DEF EffectInv, GrowthInv
    <3>2. PICK m \in 1..n : \E c \in [1..n -> BlockId] : Growing(c, n, m)
      BY <3>1
    <3>3. PICK c \in [1..n -> BlockId] : Growing(c, n, m)
      BY <3>2
    <3> QED
      BY <2>3, <3>3 DEF Growing, Mapping
  <2> QED
    BY <1>4, <2>1, <2>2, <2>3 DEF Searching
<1>5. ASSUME Searching, block[call.block].next = NoBlock
      PROVE  Ahead = 1 /\ Furthest = call.block
  BY <1>1, <1>4, <1>5, SinglePath DEF Ahead, Furthest
<1>6. ASSUME call.at = "visit", ~IsType("STACK")
      PROVE  Ahead \in Nat \ {0} /\ Furthest \in BlockId
  <2>1. PICK n \in Nat \ {0} : \E m \in 1..n : \E c \in [1..n -> BlockId] : Growing(c, n, m)
    BY <1>6 DEF EffectInv, GrowthInv, Searching
  <2>2. PICK m \in 1..n : \E c \in [1..n -> BlockId] : Growing(c, n, m)
    BY <2>1
  <2>3. PICK c \in [1..n -> BlockId] : Growing(c, n, m)
    BY <2>2
  <2>4. PICK i \in 1..n : call.block = c[i]
    BY <1>6, <2>3 DEF Growing, Reached
  <2>5. Ahead = n - i + 1 /\ Furthest = c[n]
    <3>1. Linked(c, n) /\ heap = {c[j] : j \in 1..n}
      BY <2>3 DEF Growing
    <3>2. Len(Path(c[i], heap)) = n - i + 1 /\ Last(Path(c[i], heap)) = c[n]
      BY <3>1, TailPath
    <3> QED
      BY <2>4, <3>2 DEF Ahead, Furthest
  <2> QED
    BY <2>5
<1>7. ASSUME call.at = "visit", IsType("STACK")
      PROVE  Ahead \in Nat \ {0} /\ Furthest \in BlockId
  <2>1. Searching /\ block[call.block].next = NoBlock
    BY <1>7 DEF EffectInv, PushInv, Searching
  <2> QED
    BY <1>1, <1>4, <1>5, <2>1
<1> QED
  BY <1>1, <1>2, <1>3, <1>4, <1>5, <1>6, <1>7

\* The same of the next state.
LEMMA CountedNext ==
    StepsInv' /\ EffectInv' =>
        /\ Cardinality(heap') \in Nat
        /\ Searching' => call'.block \in BlockId
        /\ \A b \in BlockId : Headroom(b)' \in Nat
        /\ call'.at = "visit" => Ahead' \in Nat \ {0} /\ Furthest' \in BlockId
        /\ Searching' /\ block'[call'.block].next = NoBlock
              => Ahead' = 1 /\ Furthest' = call'.block
<1> DEFINE Holds ==
      StepsInv /\ EffectInv =>
        /\ Cardinality(heap) \in Nat
        /\ Searching => call.block \in BlockId
        /\ \A b \in BlockId : Headroom(b) \in Nat
        /\ call.at = "visit" => Ahead \in Nat \ {0} /\ Furthest \in BlockId
        /\ Searching /\ block[call.block].next = NoBlock => Ahead = 1 /\ Furthest = call.block
<1>1. Holds
  BY Counted
<1> HIDE DEF Holds
<1>2. Holds'
  BY <1>1, PTL
<1> QED
  BY <1>2 DEF Holds

\* What Remaining is in each place.
LEMMA RemainingIs ==
    /\ call.at = "idle" => Remaining = 0
    /\ call.at = "visit" => Remaining = 2 * (Headroom(Furthest) + Ahead) + 1
    /\ call.at = "map" => Remaining = 2 * (Headroom(call.block) + 1)
    /\ call.at = "free" => Remaining = Cardinality(heap) + 1
BY DEF Remaining, Furthest, Ahead

\* The same of the next state.
LEMMA RemainingIsNext ==
    /\ call'.at = "idle" => Remaining' = 0
    /\ call'.at = "visit" => Remaining' = 2 * (Headroom(Furthest)' + Ahead') + 1
    /\ call'.at = "map" => Remaining' = 2 * (Headroom(call.block)' + 1)
    /\ call'.at = "free" => Remaining' = Cardinality(heap') + 1
BY DEF Remaining, Furthest, Ahead

\* A call that returns has nothing left to do.
LEMMA ReturnCounts ==
    ASSUME StepsInv, EffectInv, call.at # "idle", call' = NoCall
    PROVE  Remaining' \in 0..(Remaining - 1)
<1>1. Remaining' = 0
  BY RemainingIsNext DEF NoCall
<1>2. call.at \in {"visit", "map", "free"}
  BY DEF StepsInv, TypeInv, Locals
<1>3. CASE call.at = "free"
  <2>1. Remaining = Cardinality(heap) + 1 /\ Cardinality(heap) \in Nat
    BY <1>3, RemainingIs, Counted
  <2> QED
    BY <1>1, <2>1
<1>4. CASE call.at = "visit"
  <2>1. /\ Remaining = 2 * (Headroom(Furthest) + Ahead) + 1
        /\ Headroom(Furthest) \in Nat /\ Ahead \in Nat
    BY <1>4, RemainingIs, Counted
  <2> QED
    BY <1>1, <2>1
<1>5. CASE call.at = "map"
  <2>1. Remaining = 2 * (Headroom(call.block) + 1) /\ Headroom(call.block) \in Nat
    BY <1>5, RemainingIs, Counted DEF Searching
  <2> QED
    BY <1>1, <2>1
<1> QED
  BY <1>2, <1>3, <1>4, <1>5

\* One block fewer ahead.
LEMMA AdvanceCounts ==
    ASSUME StepsInv, EffectInv, Advance
    PROVE  Remaining' \in 0..(Remaining - 1)
<1>1. /\ call.at = "visit" /\ block[call.block].next # NoBlock
      /\ call' = [call EXCEPT !.block = NextToVisit(call.block)]
      /\ UNCHANGED <<heap, block>> /\ call \in Locals
  BY DEF Advance, At, StepsInv, TypeInv
<1>2. call'.at = "visit" /\ call'.block = block[call.block].next
  BY <1>1 DEF NextToVisit, Locals
<1>3. ~IsType("STACK")
  BY <1>1 DEF EffectInv, PushInv, Searching
<1>4. PICK n \in Nat \ {0} : \E m \in 1..n : \E c \in [1..n -> BlockId] : Growing(c, n, m)
  BY <1>1, <1>3 DEF EffectInv, GrowthInv, Searching
<1>5. PICK m \in 1..n : \E c \in [1..n -> BlockId] : Growing(c, n, m)
  BY <1>4
<1>6. PICK c \in [1..n -> BlockId] : Growing(c, n, m)
  BY <1>5
<1>7. PICK i \in 1..n : call.block = c[i]
  BY <1>1, <1>6 DEF Growing, Reached
<1>8. i # n /\ i + 1 \in 1..n /\ call'.block = c[i + 1]
  BY <1>1, <1>2, <1>6, <1>7 DEF Growing, Linked
<1>9. Ahead = n - i + 1 /\ Furthest = c[n]
  <2>1. Linked(c, n) /\ heap = {c[j] : j \in 1..n}
    BY <1>6 DEF Growing
  <2>2. Len(Path(c[i], heap)) = n - i + 1 /\ Last(Path(c[i], heap)) = c[n]
    BY <2>1, TailPath
  <2> QED
    BY <1>7, <2>2 DEF Ahead, Furthest
<1>10. Ahead' = n - i /\ Furthest' = c[n]
  <2>1. \A b : Path(b, heap)' = Path(b, heap)
    BY <1>1 DEF Path
  <2>2. Len(Path(c[i + 1], heap)) = n - (i + 1) + 1 /\ Last(Path(c[i + 1], heap)) = c[n]
    BY <1>6, <1>8, TailPath DEF Growing
  <2>3. Ahead' = Len(Path(c[i + 1], heap)) /\ Furthest' = Last(Path(c[i + 1], heap))
    BY <1>1, <1>8, <2>1 DEF Ahead, Furthest
  <2> QED
    BY <2>2, <2>3
<1>11. Headroom(Furthest)' = Headroom(Furthest) /\ Headroom(Furthest) \in Nat
  <2>1. Headroom(Furthest) \in Nat
    BY <1>1, Counted
  <2>2. Headroom(Furthest)' = MmapLimit - block[c[n]].capacity
    BY <1>1, <1>10 DEF Headroom
  <2>3. Headroom(Furthest) = MmapLimit - block[c[n]].capacity
    BY <1>9 DEF Headroom
  <2> QED
    BY <2>1, <2>2, <2>3
<1>12. /\ Remaining = 2 * (Headroom(Furthest) + Ahead) + 1
       /\ Remaining' = 2 * (Headroom(Furthest)' + Ahead') + 1
  BY <1>1, <1>2, RemainingIs, RemainingIsNext
<1> QED
  BY <1>9, <1>10, <1>11, <1>12

\* At the last block, nothing is ahead but what its capacity leaves room for.
LEMMA MallocHeaderCounts ==
    ASSUME StepsInv, StepsInv', EffectInv, EffectInv', MallocHeader
    PROVE  state' # "running" \/ Remaining' \in 0..(Remaining - 1)
<1>1. CASE Crash("E104")
  BY <1>1 DEF Crash, Memory!Crash
<1>2. CASE \E new \in BlockId \ heap :
            /\ heap' = heap \cup {new}
            /\ block' = IF IsType("STACK") THEN block
                        ELSE [block EXCEPT ![call.block].next = new]
            /\ call' = [call EXCEPT !.at = "map", !.fresh = Append(@, new)]
            /\ UNCHANGED <<state, kernel, arena, live>>
  <2>1. PICK new \in BlockId \ heap :
            /\ block' = IF IsType("STACK") THEN block
                        ELSE [block EXCEPT ![call.block].next = new]
            /\ call' = [call EXCEPT !.at = "map", !.fresh = Append(@, new)]
    BY <1>2
  <2>2. /\ call.at = "visit" /\ block[call.block].next = NoBlock
        /\ call \in Locals /\ block \in [BlockId -> Header]
    BY DEF MallocHeader, At, StepsInv, TypeInv
  <2>3. call'.at = "map" /\ call'.block = call.block
    BY <2>1, <2>2 DEF Locals
  <2>4. Ahead = 1 /\ Furthest = call.block /\ call.block \in BlockId /\ Headroom(call.block) \in Nat
    BY <2>2, Counted DEF Searching
  <2>5. block'[call.block].capacity = block[call.block].capacity
    BY <2>1, <2>2, <2>4 DEF Header
  <2>6. Headroom(call.block)' = Headroom(call.block)
    BY <2>3, <2>5 DEF Headroom
  <2>7. Headroom(Furthest) = Headroom(call.block)
    BY <2>4
  <2>8. /\ Remaining = 2 * (Headroom(call.block) + 1) + 1
        /\ Remaining' = 2 * (Headroom(call.block)' + 1)
    BY <2>2, <2>3, <2>4, <2>7, RemainingIs, RemainingIsNext
  <2> QED
    BY <2>4, <2>6, <2>8
<1> QED
  BY <1>1, <1>2 DEF MallocHeader

\* The appended block is the only one ahead, and has twice the capacity.
LEMMA MapAppendedCounts ==
    ASSUME StepsInv, StepsInv', EffectInv, EffectInv', MapAppended
    PROVE  state' # "running" \/ Remaining' \in 0..(Remaining - 1)
<1> SUFFICES ASSUME state' = "running"
             PROVE  Remaining' \in 0..(Remaining - 1)
  OBVIOUS
<1>1. /\ call.at = "map" /\ ~IsType("STACK") /\ heap' = heap /\ call \in Locals
      /\ block' = [block EXCEPT ![Last(call.fresh)] =
              [Blank EXCEPT !.memory = NewPointer, !.capacity = GrownCapacity]]
      /\ call' = [call EXCEPT !.at = "visit", !.block = NextToVisit(call.block)]
      /\ block \in [BlockId -> Header]
  BY DEF MapAppended, MapRegion, At, StepsInv, TypeInv
<1>2. call'.at = "visit" /\ call'.block = block[call.block].next
  BY <1>1 DEF NextToVisit, Locals
<1>3. PICK n \in Nat \ {0} : \E m \in 1..n : \E c \in [1..n -> BlockId] : Growing(c, n, m)
  BY <1>1 DEF EffectInv, GrowthInv, Searching
<1>4. PICK m \in 1..n : \E c \in [1..n -> BlockId] : Growing(c, n, m)
  BY <1>3
<1>5. PICK c \in [1..n -> BlockId] : Growing(c, n, m)
  BY <1>4
<1>6. m < n /\ n - 1 \in 1..n /\ n \in 1..n /\ call.block = c[n - 1] /\ n - 1 # n /\ (n - 1) + 1 = n
  BY <1>1, <1>5 DEF Growing, Mapping
<1>7. call'.block = c[n] /\ c[n] \in BlockId
  BY <1>2, <1>5, <1>6 DEF Growing, Linked
<1>8. Last(call.fresh) = c[n]
  <2>1. call.fresh \in Seq(BlockId) /\ call.fresh = [j \in 1..(n - m) |-> c[m + j]]
    BY <1>1, <1>5 DEF Growing, Locals
  <2> QED
    BY <1>6, <2>1, FreshLast
<1>9. block'[c[n]].next = NoBlock /\ block'[c[n]].capacity = GrownCapacity
  <2>1. block'[c[n]] = [Blank EXCEPT !.memory = NewPointer, !.capacity = GrownCapacity]
    BY <1>1, <1>7, <1>8
  <2> QED
    BY <2>1 DEF Blank
<1>10. Ahead' = 1 /\ Furthest' = c[n]
  BY <1>2, <1>7, <1>9, CountedNext DEF Searching
<1> DEFINE filled == block[call.block].capacity
<1>11. filled \in Nat /\ filled # 0 /\ MmapLimit \in Nat
  <2>1. call.block # c[n] /\ call.block \in heap
    BY <1>5, <1>6 DEF Growing, Linked
  <2>2. call.block \in Held
    BY <1>1, <1>8, <2>1 DEF Held, Pending
  <2>3. MmapLimit \in Nat /\ call.block \in BlockId
    BY <1>6, Constants
  <2> QED
    BY <1>1, <2>2, <2>3 DEF EffectInv, Filled, Header
<1>12. GrownCapacity = 2 * filled
  <2>1. filled <= MmapLimit
    BY <1>1, <1>6, <1>11 DEF Header
  <2>2. 2 * MmapLimit < WordMod /\ WordMod \in Nat
    <3>1. /\ 2 * MmapLimit + AlignLimit + MetaSize + PageSize < WordMod
          /\ AlignLimit \in Nat /\ MetaSize \in Nat /\ PageSize \in Nat /\ WordMod \in Nat
      BY Constants
    <3> QED
      BY <1>11, <3>1
  <2>3. 2 * filled \in 0..(WordMod - 1)
    BY <1>11, <2>1, <2>2
  <2> QED
    BY <2>2, <2>3 DEF GrownCapacity, DoubleW
<1>13. Headroom(Furthest)' = MmapLimit - 2 * filled /\ Headroom(Furthest)' \in Nat
  <2>1. Headroom(Furthest)' = MmapLimit - block'[c[n]].capacity
    BY <1>10 DEF Headroom
  <2>2. Headroom(c[n])' \in Nat
    BY <1>7, CountedNext
  <2>3. Headroom(c[n])' = MmapLimit - block'[c[n]].capacity
    BY DEF Headroom
  <2> QED
    BY <1>9, <1>12, <2>1, <2>2, <2>3
<1>14. Headroom(call.block) = MmapLimit - filled
  BY DEF Headroom
<1>15. Remaining = 2 * (Headroom(call.block) + 1) /\ Remaining' = 2 * (Headroom(Furthest)' + Ahead') + 1
  BY <1>1, <1>2, RemainingIs, RemainingIsNext
<1> HIDE DEF filled
<1>16. Remaining = 2 * (MmapLimit - filled + 1) /\ Remaining' = 2 * (MmapLimit - 2 * filled + 1) + 1
  BY <1>10, <1>13, <1>14, <1>15
<1> QED
  BY <1>11, <1>13, <1>16

\* One header fewer to be freed.
LEMMA FreeBlockCounts ==
    ASSUME StepsInv, StepsInv', EffectInv, EffectInv', FreeBlock
    PROVE  Remaining' \in 0..(Remaining - 1)
<1>1. LoopInv /\ call.at = "free"
  BY DEF EffectInv, FreeBlock, At
<1>2. /\ state' = "running" /\ call'.at = "free"
      /\ \E n, k, f \in Nat : \E c \in [1..n -> BlockId] : Frees(c, n, k, f)
  BY <1>1, FreeBlockShows
<1>3. heap' = heap \ {call.block}
  BY <1>2 DEF FreeBlock
<1>4. call.block \in heap
  <2>1. PICK n \in Nat, k \in Nat, f \in Nat : \E c \in [1..n -> BlockId] : Frees(c, n, k, f)
    BY <1>2
  <2>2. PICK c \in [1..n -> BlockId] : Frees(c, n, k, f)
    BY <2>1
  <2>3. f \in f..n /\ f # n + 1 /\ heap = {c[i] : i \in (1..k) \cup (f..n)}
    BY <2>2 DEF Frees, LoopAt
  <2>4. call.block = c[f]
    BY <2>2, <2>3 DEF Frees, LoopAt
  <2> QED
    BY <2>3, <2>4
<1>5. Cardinality(heap') = Cardinality(heap) - 1
  <2>1. IsFiniteSet(heap)
    BY DEF StepsInv, TypeInv
  <2> QED
    BY <1>3, <1>4, <2>1, FS_RemoveElement
<1>6. Cardinality(heap) \in Nat /\ Cardinality(heap') \in Nat
  BY Counted, CountedNext
<1>7. Remaining = Cardinality(heap) + 1 /\ Remaining' = Cardinality(heap') + 1
  BY <1>1, <1>2, RemainingIs, RemainingIsNext
<1> QED
  BY <1>5, <1>6, <1>7

\* Every iteration brings the call nearer to its end, or aborts.  A walk counts the
\* blocks ahead and what the last block's capacity leaves below MmapLimit, which a
\* growth brings down only because it doubles; a free loop counts the headers it has
\* still to free.  So no loop runs for ever, for every chain length and however many
\* headers malloc has.
THEOREM LoopsTerminate == Spec => IterationsCountDown
<1>1. StepsInv /\ StepsInv' /\ EffectInv /\ EffectInv' /\ [Next]_svars
      => [Step => state' # "running" \/ Remaining' \in 0..(Remaining - 1)]_svars
  <2> SUFFICES ASSUME StepsInv, StepsInv', EffectInv, EffectInv', Step
               PROVE  state' # "running" \/ Remaining' \in 0..(Remaining - 1)
    OBVIOUS
  <2>1. CASE Take \/ RefuseScratch
    <3>1. call.at = "visit" /\ call' = NoCall
      BY <2>1 DEF Take, RefuseScratch, At
    <3> QED
      BY <3>1, ReturnCounts
  <2>2. CASE MapPushed
    <3>1. state' = "running" => call.at = "map" /\ call' = NoCall
      BY <2>2 DEF MapPushed, MapRegion, At
    <3> QED
      BY <3>1, ReturnCounts
  <2>3. CASE FreeReturn
    <3>1. call.at = "free" /\ call' = NoCall
      BY <2>3 DEF FreeReturn, At
    <3> QED
      BY <3>1, ReturnCounts
  <2> QED
    BY <2>1, <2>2, <2>3, AdvanceCounts, MallocHeaderCounts, MapAppendedCounts,
       FreeBlockCounts DEF Step
<1>2. Spec => []StepsInv
  BY StepsInvariance
<1>3. Spec => []EffectInv
  BY EffectInvariance
<1> QED
  BY <1>1, <1>2, <1>3, PTL DEF Spec, IterationsCountDown
===============================================================================
