--------------------------- MODULE ArenaSteps_proofs ---------------------------
(***************************************************************************)
(* Theorems about the calls taken one iteration at a time: headers and      *)
(* mappings stay paired through every loop, no next pointer is left on a    *)
(* freed header, and what is handed out lies in one region.                 *)
(***************************************************************************)
EXTENDS ArenaSteps, Words_proofs, FunctionTheorems, FiniteSetTheorems

-------------------------------------------------------------------------------
(* safe_aligned_alloc and safe_aligned_free, from the theorems about them.   *)

AnySize == Word
AnyAlign == Word

Proved == INSTANCE MappedMemory_proofs WITH Sizes <- AnySize, Aligns <- AnyAlign

\* The constants as numbers.
LEMMA Constants ==
    /\ WordMod \in Nat /\ Word = 0..(WordMod - 1)
    /\ {PageSize, MetaSize, AlignLimit, MmapLimit} \subseteq Nat \ {0}
    /\ SpaceEnd \in Nat /\ SpaceEnd + AlignLimit < WordMod
    /\ 2 * MmapLimit + AlignLimit + MetaSize + PageSize < WordMod
BY WordModAssumption, PagesAssumption, InputAssumption, SpaceAssumption DEF Word

\* The words of the instances are the words.
LEMMA SameWords ==
    /\ Memory!Word = Word /\ Proved!Word = Word
    /\ \A x, y : Memory!AddW(x, y) = AddW(x, y) /\ Proved!AddW(x, y) = AddW(x, y)
    /\ \A x, y : Memory!AlignUp(x, y) = AlignUp(x, y) /\ Proved!AlignUp(x, y) = AlignUp(x, y)
    /\ \A x : Memory!IsPowerOfTwo(x) = IsPowerOfTwo(x) /\ Proved!IsPowerOfTwo(x) = IsPowerOfTwo(x)
<1>1. Memory!Word = Word /\ Proved!Word = Word
  BY DEF Word, Memory!Word, Proved!Word
<1>2. \A x, y : Memory!AddW(x, y) = AddW(x, y) /\ Proved!AddW(x, y) = AddW(x, y)
  BY DEF AddW, Memory!AddW, Proved!AddW
<1>3. \A x, y : Memory!Padding(x, y) = Padding(x, y) /\ Proved!Padding(x, y) = Padding(x, y)
  BY DEF Padding, Memory!Padding, Proved!Padding
<1>4. \A x, y : Memory!AlignUp(x, y) = AlignUp(x, y) /\ Proved!AlignUp(x, y) = AlignUp(x, y)
  BY <1>2, <1>3 DEF AlignUp, Memory!AlignUp, Proved!AlignUp
<1>5. \A x : Memory!IsPowerOfTwo(x) = IsPowerOfTwo(x) /\ Proved!IsPowerOfTwo(x) = IsPowerOfTwo(x)
  BY DEF IsPowerOfTwo, Memory!IsPowerOfTwo, Proved!IsPowerOfTwo
<1> QED
  BY <1>1, <1>2, <1>4, <1>5

\* So are the calls of the two instances.
LEMMA SameCalls ==
    /\ Memory!Init <=> Proved!Init
    /\ \A size, a : Memory!SafeAlignedAlloc(size, a) <=> Proved!SafeAlignedAlloc(size, a)
    /\ \A r : Memory!SafeAlignedFree(r) <=> Proved!SafeAlignedFree(r)
    /\ \A size, a : Proved!Mappable(size, a) <=> Mappable(size, a)
<1>1. Memory!Init <=> Proved!Init
  BY DEF Memory!Init, Proved!Init
<1>2. \A x, y : Memory!Bytes(x, y) = Proved!Bytes(x, y)
  BY DEF Memory!Bytes, Proved!Bytes
<1>3. \A n, a : Memory!TotalSize(n, a) = TotalSize(n, a) /\ Proved!TotalSize(n, a) = TotalSize(n, a)
  BY SameWords DEF TotalSize, Memory!TotalSize, Proved!TotalSize
<1>4. \A n, a : /\ Memory!Mappable(n, a) = Mappable(n, a) 
                /\ Proved!Mappable(n, a) = Mappable(n, a)
  BY <1>3, SameWords DEF Mappable, Memory!Mappable, Proved!Mappable
<1>5. \A n : Memory!FreeBases(n) = Proved!FreeBases(n)
  BY <1>2 DEF Memory!FreeBases, Proved!FreeBases, Memory!Address, Proved!Address
<1>6. \A n, a : Memory!AllocError(n, a) = Proved!AllocError(n, a)
  BY <1>3, <1>4, <1>5, SameWords DEF Memory!AllocError, Proved!AllocError
<1>7. \A n, a : Memory!AlignedAddress(n, a) = Proved!AlignedAddress(n, a)
  BY SameWords DEF Memory!AlignedAddress, Proved!AlignedAddress
<1>8. \A code : Memory!Crash(code) <=> Proved!Crash(code)
  BY DEF Memory!Crash, Proved!Crash
<1>9. \A size, a : Memory!SafeAlignedAlloc(size, a) <=> Proved!SafeAlignedAlloc(size, a)
  <2> TAKE size, a
  <2>1. Memory!TotalSize(size, a) = Proved!TotalSize(size, a)
    BY <1>3
  <2> QED
    BY <2>1, <1>5, <1>6, <1>7, <1>8 DEF Memory!SafeAlignedAlloc, Proved!SafeAlignedAlloc
<1>10. \A n, l : Memory!Wiped(n, l) = Proved!Wiped(n, l)
  BY <1>2 DEF Memory!Wiped, Proved!Wiped
<1>11. \A n, l : Memory!Unmapped(n, l) = Proved!Unmapped(n, l)
  BY <1>2 DEF Memory!Unmapped, Proved!Unmapped
<1>12. \A m : Memory!FreeError(m) = Proved!FreeError(m)
  BY DEF Memory!FreeError, Proved!FreeError
<1>13. \A r : Memory!SafeAlignedFree(r) <=> Proved!SafeAlignedFree(r)
  BY <1>8, <1>10, <1>11, <1>12 DEF Memory!SafeAlignedFree, Proved!SafeAlignedFree
<1> QED
  BY <1>1, <1>4, <1>9, <1>13

\* What the theorems about the mappings assume of their constants.
LEMMA ProvedAssumptions ==
    /\ WordMod \in Nat /\ WordMod > 1
    /\ {PageSize, MetaSize, AlignLimit, MmapLimit} \subseteq Proved!Word \ {0}
    /\ 2 * MmapLimit + AlignLimit + MetaSize + PageSize < WordMod
    /\ AnySize \cup AnyAlign \cup {SpaceEnd} \subseteq Proved!Word
    /\ SpaceEnd + AlignLimit < WordMod
BY SameWords, WordModAssumption, PagesAssumption, InputAssumption, SpaceAssumption
   DEF AnySize, AnyAlign

\* What holds of mappings, headers and regions.
MapInv == Proved!MapInv

\* It holds at first, and where nothing is mapped or unmapped.
LEMMA MapFrame ==
    /\ Init => MapInv
    /\ MapInv /\ UNCHANGED kernel => MapInv'
BY ProvedAssumptions, SameCalls, Proved!MapFrame DEF MapInv, Init, kernel

\* The types of the regions.
LEMMA RegionTypes ==
    ASSUME MapInv, NEW r \in regions
    PROVE  r.ptr \in Nat /\ r.size \in Nat \ {0}
BY ProvedAssumptions, Proved!RegionTypes DEF MapInv

\* What safe_aligned_alloc has done when it returns.
LEMMA AllocResult ==
    ASSUME MapInv, NEW size \in Word, NEW a \in Word,
           a <= AlignLimit => size + a + MetaSize + PageSize < WordMod,
           Memory!SafeAlignedAlloc(size, a), state' = "running"
    PROVE  /\ MapInv'
           /\ Mappable(size, a) /\ a \in 1..AlignLimit
           /\ \E p \in Nat : /\ regions' = regions \cup {[ptr |-> p, size |-> size, alignment |-> a]}
                             /\ \A r \in regions : r.ptr # p
                             /\ NewPointer = p
                             /\ p % a = 0
                             /\ p + size <= SpaceEnd
<1>1. size \in AnySize /\ a \in AnyAlign
  BY DEF AnySize, AnyAlign
<1>2. Proved!Fits(size, a) /\ Proved!SafeAlignedAlloc(size, a)
  BY SameCalls DEF Proved!Fits
<1>3. /\ MapInv' /\ Mappable(size, a) /\ a \in 1..AlignLimit
      /\ \E p \in Nat : /\ regions' = regions \cup {[ptr |-> p, size |-> size, alignment |-> a]}
                        /\ \A r \in regions : r.ptr # p
                        /\ p % a = 0
                        /\ p + size <= SpaceEnd
  BY <1>1, <1>2, ProvedAssumptions, SameCalls, Proved!AllocResult DEF MapInv
<1>4. PICK p \in Nat : /\ regions' = regions \cup {[ptr |-> p, size |-> size, alignment |-> a]}
                       /\ \A r \in regions : r.ptr # p
                       /\ p % a = 0
                       /\ p + size <= SpaceEnd
  BY <1>3
<1>5. NewPointer = p
  <2> DEFINE new == [ptr |-> p, size |-> size, alignment |-> a]
  <2>1. new \notin regions
    BY <1>4
  <2>2. regions' \ regions = {new}
    BY <1>4, <2>1
  <2>3. NewPointer = new.ptr
    BY <2>2 DEF NewPointer
  <2> QED
    BY <2>3
<1> QED
  BY <1>3, <1>4, <1>5

\* A call that does not return changes nothing.
LEMMA AllocCrash ==
    ASSUME NEW size, NEW a, Memory!SafeAlignedAlloc(size, a), state' # "running"
    PROVE  UNCHANGED kernel
BY ProvedAssumptions, SameCalls, Proved!AllocCrash DEF kernel

\* What safe_aligned_free has done with a region some block has.
LEMMA FreeResult ==
    ASSUME MapInv, NEW r \in regions, Memory!SafeAlignedFree(r)
    PROVE  MapInv' /\ state' = "running" /\ regions' = regions \ {r}
BY ProvedAssumptions, SameCalls, Proved!FreeResult DEF MapInv

-------------------------------------------------------------------------------
(* The inductive invariant.                                                  *)

Snapshot == [top : BlockId, allocated : Word, capacity : 0..MmapLimit]
Header == [memory : Word, next : BlockId \cup {NoBlock}, capacity : 0..MmapLimit, allocated : Word]
Handle == [allocator_type : Types \cup {"NONE"}, alignment : 0..AlignLimit,
           pool_size : InitialSizes \cup {0}, memory_block : BlockId \cup {NoBlock},
           top : BlockId \cup {NoBlock}, snapshots : Seq(Snapshot), max_size : Nat]
Locals == [at : {"idle", "visit", "map", "free"},
           op : {"none", "alloc", "reset", "destroy", "unwind"},
           block : BlockId \cup {NoBlock}, fresh : Seq(BlockId), size : Word, need : Word]

\* Every variable has its type, and a header not in use leads nowhere.
TypeInv ==
    /\ arena \in Handle
    /\ Open => arena.alignment # 0
    /\ IsType("POOL") => arena.pool_size # 0
    /\ heap \subseteq BlockId /\ IsFiniteSet(heap)
    /\ block \in [BlockId -> Header]
    /\ \A b \in BlockId \ heap : block[b].next = NoBlock
    /\ call \in Locals

\* A call in progress works on an arena.
CallInv ==
    /\ call.at = "idle" => call = NoCall
    /\ call.at # "idle" => Open
    /\ call.at = "map" => call.fresh # <<>>
    /\ call.at = "free" => /\ call.op \in {"reset", "destroy", "unwind"}
                           /\ call.op = "unwind" => IsType("STACK") /\ arena.snapshots # <<>>

\* The header that is about to get its region, and the ones that have theirs.
Pending == IF call.at = "map" THEN {Last(call.fresh)} ELSE {}
Held == heap \ Pending

\* A call that allocates finds the whole chain; only the header a stack is about
\* to push is not linked yet.
WholeChain(c, n, k, f) ==
    /\ k = 0 /\ f = 1
    /\ Open <=> n > 0
    /\ Open => arena.memory_block = c[1]
    /\ Open /\ IsType("STACK") => \E i \in 1..n : arena.top = c[i]
    /\ call.at = "visit" => \E i \in 1..n : call.block = c[i]
    /\ call.at = "map" =>
          IF IsType("STACK")
          THEN call.block = c[n] /\ \A i \in 1..n : Last(call.fresh) # c[i]
          ELSE n > 1 /\ call.block = c[n - 1] /\ Last(call.fresh) = c[n]

\* The free loop has k blocks to keep and is at the f-th.
FreedUpTo(c, n, k, f) ==
    /\ call.block = IF f = n + 1 THEN NoBlock ELSE c[f]
    /\ call.op = "destroy" => k = 0
    /\ call.op = "reset" => k = 1 /\ arena.memory_block = c[1]
    /\ call.op = "unwind" => k > 0 /\ arena.memory_block = c[1] /\ arena.top = c[k]

\* c[1], ..., c[n] was the chain when the call began: what is left of it is
\* linked in this order, but for the k-th block while the loop frees what comes
\* after it.
Chained(c, n, k, f) ==
    /\ f \in (k + 1)..(n + 1)
    /\ \A i, j \in 1..n : c[i] = c[j] => i = j
    /\ \A i \in 1..n : i < k \/ f <= i => block[c[i]].next = IF i = n THEN NoBlock ELSE c[i + 1]
    /\ heap = {c[i] : i \in (1..k) \cup (f..n)} \cup (IF IsType("STACK") THEN Pending ELSE {})
    /\ IF call.at = "free" THEN FreedUpTo(c, n, k, f) ELSE WholeChain(c, n, k, f)

ChainInv == \E n, k, f \in Nat : \E c \in [1..n -> BlockId] : Chained(c, n, k, f)

\* Headers and regions are paired one to one.
Paired ==
    /\ \A b, d \in Held : block[b].memory = block[d].memory => b = d
    /\ \A r, s \in regions : r.ptr = s.ptr => r = s
    /\ \A b \in Held : \E r \in regions : r.ptr = block[b].memory
    /\ \A r \in regions : \E b \in Held : r.ptr = block[b].memory

StepsInv == MapInv /\ TypeInv /\ CallInv /\ ChainInv /\ Paired

\* No padding and no rounding to whole pools makes a request wrap.
RequestsFit == \A n \in Requests, p \in InitialSizes \cup {0} : n + p + AlignLimit < WordMod

\* Where no capacity is ever put back, a block's capacity is its region's size.
RegionsInv ==
    ~IsType("STACK") =>
        \A b \in Held :
            /\ block[b].allocated <= block[b].capacity
            /\ block[b].memory + block[b].capacity <= SpaceEnd
            /\ block[b].memory % arena.alignment = 0
            /\ \A r \in regions : r.ptr = block[b].memory => r.size = block[b].capacity

\* What the request in progress takes covers it and does not wrap.
NeedInv ==
    call.at \in {"visit", "map"} =>
        call.size <= call.need /\ call.need + arena.alignment < WordMod

\* What is handed out lies below the fill level of a block and is aligned; all
\* of it is gone when blocks are freed that no snapshot keeps.
Cleared == ~Open \/ (call.at = "free" /\ (call.op = "destroy" \/ ~IsType("STACK")))

LiveInv ==
    /\ Cleared => live = {}
    /\ ~IsType("STACK") =>
        \A g \in live : /\ g.block \in Held /\ g.lo \in Nat /\ g.size \in Nat
                        /\ g.lo + g.size <= block[g.block].allocated
                        /\ (block[g.block].memory + g.lo) % arena.alignment = 0

DataInv == RegionsInv /\ NeedInv /\ LiveInv

-------------------------------------------------------------------------------
(* The shape of the chain.                                                   *)

\* Nothing but state and what the client holds changes.
LEMMA QuietStep ==
    ASSUME StepsInv, UNCHANGED <<kernel, arena, heap, block, call>>
    PROVE  StepsInv'
<1>1. MapInv'
  BY MapFrame DEF StepsInv
<1>2. TypeInv' /\ CallInv'
  BY DEF StepsInv, TypeInv, CallInv, Open, IsType
<1>3. ChainInv'
  <2>1. \A c, n, k, f : WholeChain(c, n, k, f)' <=> WholeChain(c, n, k, f)
    BY DEF WholeChain, Open, IsType
  <2>2. \A c, n, k, f : FreedUpTo(c, n, k, f)' <=> FreedUpTo(c, n, k, f)
    BY DEF FreedUpTo
  <2>3. Pending' = Pending
    BY DEF Pending
  <2>4. \A c, n, k, f : Chained(c, n, k, f)' <=> Chained(c, n, k, f)
    BY <2>1, <2>2, <2>3 DEF Chained, IsType
  <2> QED
    BY <2>4 DEF StepsInv, ChainInv
<1>4. Paired'
  BY DEF StepsInv, Paired, Held, Pending, kernel
<1> QED
  BY <1>1, <1>2, <1>3, <1>4 DEF StepsInv

\* An open arena has an alignment, and the record without one is closed.
LEMMA OpenAlignment ==
    ASSUME TypeInv
    PROVE  Open <=> arena.alignment # 0
BY DEF TypeInv, Open, NoArena

\* Outside the free loop and with no header pending, the chain holds the heap.
LEMMA IdleChain ==
    ASSUME StepsInv, call.at \in {"idle", "visit"}
    PROVE  \E n \in Nat : \E c \in [1..n -> BlockId] :
              /\ Chained(c, n, 0, 1) /\ WholeChain(c, n, 0, 1)
              /\ heap = {c[i] : i \in 1..n}
              /\ \A i, j \in 1..n : c[i] = c[j] => i = j
              /\ \A i \in 1..n : block[c[i]].next = IF i = n THEN NoBlock ELSE c[i + 1]
<1>1. PICK n \in Nat, k \in Nat, f \in Nat : \E c \in [1..n -> BlockId] : Chained(c, n, k, f)
  BY DEF StepsInv, ChainInv
<1>2. PICK c \in [1..n -> BlockId] : Chained(c, n, k, f)
  BY <1>1
<1>3. k = 0 /\ f = 1 /\ WholeChain(c, n, k, f) /\ Pending = {}
  BY <1>2 DEF Chained, WholeChain, Pending
<1>4. Chained(c, n, 0, 1) /\ WholeChain(c, n, 0, 1)
  BY <1>2, <1>3
<1>5. (1..0) \cup (1..n) = 1..n /\ \A i \in 1..n : 1 <= i
  OBVIOUS
<1>6. heap = {c[i] : i \in 1..n}
  BY <1>3, <1>4, <1>5 DEF Chained
<1> QED
  BY <1>4, <1>5, <1>6 DEF Chained

\* What follows for the blocks the calls look at.
LEMMA IdleFacts ==
    ASSUME StepsInv, call.at \in {"idle", "visit"}
    PROVE  /\ Held = heap
           /\ ~Open => heap = {}
           /\ Open => arena.memory_block \in heap
           /\ Open /\ IsType("STACK") => arena.top \in heap
           /\ call.at = "visit" => call.block \in heap
           /\ \A b \in heap : b \in BlockId /\ block[b].next \in heap \cup {NoBlock}
<1>1. PICK n \in Nat : \E c \in [1..n -> BlockId] :
              /\ Chained(c, n, 0, 1) /\ WholeChain(c, n, 0, 1)
              /\ heap = {c[i] : i \in 1..n}
              /\ \A i, j \in 1..n : c[i] = c[j] => i = j
              /\ \A i \in 1..n : block[c[i]].next = IF i = n THEN NoBlock ELSE c[i + 1]
  BY IdleChain
<1>2. PICK c \in [1..n -> BlockId] :
              /\ WholeChain(c, n, 0, 1)
              /\ heap = {c[i] : i \in 1..n}
              /\ \A i \in 1..n : block[c[i]].next = IF i = n THEN NoBlock ELSE c[i + 1]
  BY <1>1
<1>3. \A i \in 1..n : c[i] \in heap /\ (i # n => i + 1 \in 1..n)
  BY <1>2
<1>4. \A b \in heap : block[b].next \in heap \cup {NoBlock}
  BY <1>2, <1>3
<1>5. Held = heap
  BY DEF Held, Pending
<1>6. n > 0 => 1 \in 1..n
  OBVIOUS
<1>7. /\ Open => arena.memory_block \in heap
      /\ Open /\ IsType("STACK") => arena.top \in heap
      /\ call.at = "visit" => call.block \in heap
  BY <1>2, <1>3, <1>6 DEF WholeChain
<1>8. ~Open => heap = {}
  <2>1. ASSUME ~Open PROVE 1..n = {}
    BY <1>2, <2>1 DEF WholeChain
  <2> QED
    BY <1>2, <2>1
<1>9. \A b \in heap : b \in BlockId
  BY DEF StepsInv, TypeInv
<1> QED
  BY <1>4, <1>5, <1>7, <1>8, <1>9

\* A step that moves along the chain, fills a block, takes a snapshot or returns
\* from a call.
LEMMA WalkStep ==
    ASSUME StepsInv, UNCHANGED <<kernel, heap>>,
           arena' = arena \/ Open, arena' \in Handle,
           /\ arena'.allocator_type = arena.allocator_type /\ arena'.alignment = arena.alignment
           /\ arena'.pool_size = arena.pool_size /\ arena'.memory_block = arena.memory_block
           /\ arena'.top = arena.top,
           call.at \in {"idle", "visit"}, call'.at \in {"idle", "visit"},
           call' \in Locals, call'.at = "idle" => call' = NoCall,
           call'.at = "visit" => Open /\ call'.block \in heap,
           block' \in [BlockId -> Header],
           \A b \in BlockId : block'[b].next = block[b].next /\ block'[b].memory = block[b].memory
    PROVE  StepsInv'
<1>1. MapInv'
  BY MapFrame DEF StepsInv
<1>2. (Open' <=> Open) /\ \A t : IsType(t)' <=> IsType(t)
  <2>1. arena' = arena => (Open' <=> Open)
    BY DEF Open
  <2>2. Open => Open'
    <3>1. Open => arena'.alignment # 0
      BY DEF StepsInv, TypeInv
    <3> QED
      BY <3>1 DEF Open, NoArena
  <2> QED
    BY <2>1, <2>2 DEF IsType
<1>3. TypeInv'
  BY <1>2 DEF StepsInv, TypeInv
<1>4. CallInv'
  BY <1>2 DEF CallInv
<1>5. ChainInv'
  <2>1. PICK n \in Nat : \E c \in [1..n -> BlockId] :
                Chained(c, n, 0, 1) /\ WholeChain(c, n, 0, 1) /\ heap = {c[i] : i \in 1..n}
    BY IdleChain
  <2>2. PICK c \in [1..n -> BlockId] :
                Chained(c, n, 0, 1) /\ WholeChain(c, n, 0, 1) /\ heap = {c[i] : i \in 1..n}
    BY <2>1
  <2>3. WholeChain(c, n, 0, 1)'
    BY <1>2, <2>2 DEF WholeChain
  <2>4. Pending' = Pending
    BY DEF Pending
  <2>5. Chained(c, n, 0, 1)'
    BY <1>2, <2>2, <2>3, <2>4 DEF Chained
  <2>6. 0 \in Nat /\ 1 \in Nat
    OBVIOUS
  <2> QED
    BY <2>5, <2>6 DEF ChainInv
<1>6. Paired'
  <2>1. Held' = Held /\ \A b \in Held : b \in BlockId
    BY DEF Held, Pending, StepsInv, TypeInv
  <2> QED
    BY <2>1 DEF StepsInv, Paired, kernel
<1> QED
  BY <1>1, <1>3, <1>4, <1>5, <1>6 DEF StepsInv

\* An abort leaves everything as it is.
LEMMA CrashStep ==
    ASSUME StepsInv, NEW code, Crash(code)
    PROVE  StepsInv'
BY QuietStep DEF Crash, Memory!Crash, kernel

\* The fields of a header that has got its region.
LEMMA FilledHeader ==
    ASSUME NEW p, NEW capacity
    PROVE  [Blank EXCEPT !.memory = p, !.capacity = capacity]
              = [memory |-> p, next |-> NoBlock, capacity |-> capacity, allocated |-> 0]
<1>1. PICK h : h = [Blank EXCEPT !.memory = p, !.capacity = capacity]
  OBVIOUS
<1>2. h = [memory |-> p, next |-> NoBlock, capacity |-> capacity, allocated |-> 0]
  BY <1>1 DEF Blank
<1> QED
  BY <1>1, <1>2

\* A header gets other fields.
LEMMA HeaderSet ==
    ASSUME block \in [BlockId -> Header], NEW b \in BlockId, NEW h \in Header,
           block' = [block EXCEPT ![b] = h]
    PROVE  /\ block' \in [BlockId -> Header]
           /\ block'[b] = h
           /\ \A d \in BlockId \ {b} : block'[d] = block[d]
OBVIOUS

\* A block gets a region no other has.
LEMMA PairedWithNew ==
    ASSUME Paired, NEW b, b \notin Held, Held' = Held \cup {b},
           NEW new, regions' = regions \cup {new}, \A r \in regions : r.ptr # new.ptr,
           block'[b].memory = new.ptr,
           \A d \in Held : block'[d].memory = block[d].memory
    PROVE  Paired'
<1>1. \A d \in Held : block[d].memory # new.ptr
  BY DEF Paired
<1> QED
  BY <1>1 DEF Paired

-------------------------------------------------------------------------------
(* memory_arena_create.                                                      *)

\* The capacity create asks for does not wrap the length of its mapping.
LEMMA InitialFits ==
    ASSUME NEW size \in InitialSizes, NEW a \in Alignments, IsPowerOfTwo(a), AlignUp(size, a) # 0
    PROVE  /\ AlignUp(size, a) \in Word /\ a \in Word /\ size \in Word
           /\ AlignUp(size, a) + a + MetaSize + PageSize < WordMod
<1>1. a \in Word \ {0} /\ size \in Word /\ size + 2 * a + MetaSize + PageSize < WordMod
  BY InputAssumption DEF IsPowerOfTwo
<1>2. a \in Nat \ {0} /\ size \in Nat /\ WordMod \in Nat /\ MetaSize \in Nat /\ PageSize \in Nat
  BY <1>1, Constants
<1>3. size + a < WordMod
  BY <1>1, <1>2
<1>4. AlignUp(size, a) \in size..(size + a - 1)
  BY <1>1, <1>3, AlignUpNoWrap
<1>5. AlignUp(size, a) \in Word
  BY <1>1, AlignUpWord
<1> QED
  BY <1>1, <1>2, <1>4, <1>5

\* What create has done when it returns with an arena.
LEMMA CreateResult ==
    ASSUME StepsInv, NEW type \in Types, NEW a \in Alignments, NEW size \in InitialSizes,
           Idle, ~Open, ArgumentError(type, a, size) = "none",
           Memory!SafeAlignedAlloc(AlignUp(size, a), a), state' = "running"
    PROVE  /\ MapInv' /\ a \in 1..AlignLimit /\ size # 0
           /\ AlignUp(size, a) \in Nat /\ AlignUp(size, a) <= MmapLimit
           /\ \E p \in Nat : /\ regions' = {[ptr |-> p, size |-> AlignUp(size, a), alignment |-> a]}
                             /\ NewPointer = p
                             /\ p % a = 0
                             /\ p + AlignUp(size, a) <= SpaceEnd
<1>1. IsPowerOfTwo(a) /\ size # 0
  BY DEF ArgumentError
<1>2. AlignUp(size, a) # 0
  <2>1. Memory!AllocError(AlignUp(size, a), a) = "none"
    BY DEF Memory!SafeAlignedAlloc, Memory!Crash, Memory!AllocError
  <2> QED
    BY <2>1 DEF Memory!AllocError
<1>3. /\ AlignUp(size, a) \in Word /\ a \in Word
      /\ AlignUp(size, a) + a + MetaSize + PageSize < WordMod
  BY <1>1, <1>2, InitialFits
<1> DEFINE capacity == AlignUp(size, a)
<1> HIDE DEF capacity
<1>4. /\ capacity \in Word /\ capacity + a + MetaSize + PageSize < WordMod
      /\ Memory!SafeAlignedAlloc(capacity, a)
  BY <1>3 DEF capacity
<1>5. /\ MapInv'
      /\ Mappable(capacity, a) /\ a \in 1..AlignLimit
      /\ \E p \in Nat : /\ regions' = regions \cup {[ptr |-> p, size |-> capacity, alignment |-> a]}
                        /\ NewPointer = p
                        /\ p % a = 0
                        /\ p + capacity <= SpaceEnd
  BY <1>3, <1>4, AllocResult DEF StepsInv
<1>6. regions = {}
  <2>1. heap = {} /\ Held = heap
    BY IdleFacts DEF Idle, NoCall
  <2> QED
    BY <2>1 DEF StepsInv, Paired
<1>7. capacity <= MmapLimit /\ capacity \in Nat
  BY <1>3, <1>4, <1>5, MappableBound, Constants
<1> QED
  BY <1>1, <1>5, <1>6, <1>7 DEF capacity

\* create keeps the invariant.
LEMMA CreateStep ==
    ASSUME StepsInv, NEW type \in Types, NEW a \in Alignments, NEW size \in InitialSizes,
           Create(type, a, size)
    PROVE  StepsInv'
<1>1. ASSUME NEW code, Crash(code) PROVE StepsInv'
  BY <1>1, CrashStep
<1>2. CASE /\ ArgumentError(type, a, size) = "none"
           /\ Memory!SafeAlignedAlloc(AlignUp(size, a), a)
           /\ state' # "running" /\ UNCHANGED <<arena, heap, block, call>>
  <2>1. UNCHANGED kernel
    BY <1>2, AllocCrash
  <2> QED
    BY <1>2, <2>1, QuietStep
<1>3. CASE /\ ArgumentError(type, a, size) = "none"
           /\ Memory!SafeAlignedAlloc(AlignUp(size, a), a)
           /\ state' = "running" /\ UNCHANGED call
           /\ \E head \in BlockId :
                /\ heap' = {head}
                /\ block' = [block EXCEPT ![head] =
                      [Blank EXCEPT !.memory = NewPointer, !.capacity = AlignUp(size, a)]]
                /\ arena' = [NoArena EXCEPT
                      !.allocator_type = type, !.alignment = a, !.memory_block = head,
                      !.pool_size = IF type = "POOL" THEN size ELSE 0,
                      !.top = IF type = "STACK" THEN head ELSE NoBlock,
                      !.max_size = IF type = "STACK" THEN InitialSlots ELSE 0]
  <2> DEFINE capacity == AlignUp(size, a)
  <2>1. Idle /\ ~Open
    BY DEF Create
  <2>2. /\ MapInv' /\ a \in 1..AlignLimit /\ size # 0
        /\ capacity \in Nat /\ capacity <= MmapLimit
        /\ \E p \in Nat : /\ regions' = {[ptr |-> p, size |-> capacity, alignment |-> a]}
                          /\ NewPointer = p
                          /\ p + capacity <= SpaceEnd
    BY <1>3, <2>1, CreateResult
  <2> HIDE DEF capacity
  <2>3. PICK p \in Nat : /\ regions' = {[ptr |-> p, size |-> capacity, alignment |-> a]}
                         /\ NewPointer = p
                         /\ p + capacity <= SpaceEnd
    BY <2>2
  <2>4. PICK head \in BlockId :
                /\ heap' = {head}
                /\ block' = [block EXCEPT ![head] = [Blank EXCEPT !.memory = p, !.capacity = capacity]]
                /\ arena' = [NoArena EXCEPT
                      !.allocator_type = type, !.alignment = a, !.memory_block = head,
                      !.pool_size = IF type = "POOL" THEN size ELSE 0,
                      !.top = IF type = "STACK" THEN head ELSE NoBlock,
                      !.max_size = IF type = "STACK" THEN InitialSlots ELSE 0]
    BY <1>3, <2>3 DEF capacity
  <2>5. arena' = [allocator_type |-> type, alignment |-> a, memory_block |-> head,
                  pool_size |-> IF type = "POOL" THEN size ELSE 0,
                  top |-> IF type = "STACK" THEN head ELSE NoBlock,
                  snapshots |-> <<>>,
                  max_size |-> IF type = "STACK" THEN InitialSlots ELSE 0]
    BY <2>4 DEF NoArena
  <2>6. /\ block \in [BlockId -> Header] /\ heap \subseteq BlockId
        /\ \A b \in BlockId \ heap : block[b].next = NoBlock
        /\ call = NoCall /\ call' = NoCall
    BY <1>3, <2>1 DEF StepsInv, TypeInv, Idle
  <2>7. /\ block' = [block EXCEPT ![head] = [memory |-> p, next |-> NoBlock, capacity |-> capacity,
                                             allocated |-> 0]]
    BY <2>4, FilledHeader
  <2>8. [memory |-> p, next |-> NoBlock, capacity |-> capacity, allocated |-> 0] \in Header
    <3>1. 0 \in Word /\ capacity \in 0..MmapLimit /\ p \in Word
      BY <2>2, <2>3, Constants
    <3> QED
      BY <3>1 DEF Header
  <2>9. heap = {} /\ Held = {}
    BY <2>1, <2>6, IdleFacts DEF NoCall
  <2>10. /\ block' \in [BlockId -> Header]
         /\ block'[head].next = NoBlock /\ block'[head].memory = p
         /\ \A b \in BlockId \ heap' : block'[b].next = NoBlock
    <3> DEFINE h == [memory |-> p, next |-> NoBlock, capacity |-> capacity, allocated |-> 0]
    <3>1. h.memory = p /\ h.next = NoBlock
      OBVIOUS
    <3>2. h \in Header /\ block' = [block EXCEPT ![head] = h]
      BY <2>7, <2>8
    <3> HIDE DEF h
    <3>3. /\ block' \in [BlockId -> Header]
          /\ block'[head] = h
          /\ \A d \in BlockId \ {head} : block'[d] = block[d]
      BY <2>6, <3>2, HeaderSet
    <3> QED
      BY <2>4, <2>6, <2>9, <3>1, <3>3
  <2>11. arena' \in Handle
    <3>1. a \in 0..AlignLimit /\ <<>> \in Seq(Snapshot) /\ InitialSlots \in Nat
      BY <2>2, SlotAssumption
    <3> QED
      BY <2>5, <3>1 DEF Handle
  <2>12. Open' /\ arena'.alignment # 0 /\ (IsType("POOL")' => arena'.pool_size # 0)
    BY <2>2, <2>5 DEF Open, NoArena, IsType
  <2>13. TypeInv'
    <3>1. IsFiniteSet(heap')
      BY <2>4, FS_Singleton
    <3>2. call' \in Locals
      BY <2>6 DEF StepsInv, TypeInv
    <3> QED
      BY <2>4, <2>10, <2>11, <2>12, <3>1, <3>2 DEF TypeInv
  <2>14. CallInv'
    BY <2>6 DEF CallInv, NoCall
  <2>15. ChainInv'
    <3> DEFINE c == [i \in 1..1 |-> head]
    <3>1. c \in [1..1 -> BlockId] /\ c[1] = head /\ {c[i] : i \in (1..0) \cup (1..1)} = {head}
      OBVIOUS
    <3>2. WholeChain(c, 1, 0, 1)'
      BY <2>5, <2>6, <2>12, <3>1 DEF WholeChain, NoCall, IsType
    <3>3. Chained(c, 1, 0, 1)'
      <4>1. Pending' = {}
        BY <2>6 DEF Pending, NoCall
      <4> QED
        BY <2>4, <2>6, <2>10, <3>1, <3>2, <4>1 DEF Chained, NoCall
    <3>4. 0 \in Nat /\ 1 \in Nat
      OBVIOUS
    <3> QED
      BY <3>1, <3>3, <3>4 DEF ChainInv
  <2>16. Paired'
    <3>1. Held' = {head}
      BY <2>4, <2>6 DEF Held, Pending, NoCall
    <3> QED
      BY <2>3, <2>10, <3>1 DEF Paired
  <2> QED
    BY <2>2, <2>13, <2>14, <2>15, <2>16 DEF StepsInv
<1> QED
  BY <1>1, <1>2, <1>3 DEF Create

-------------------------------------------------------------------------------
(* memory_arena_alloc.                                                       *)

\* NoCall has the type of the locals.
LEMMA NoCallType == NoCall \in Locals
<1>1. 0 \in Word
  BY Constants
<1>2. <<>> \in Seq(BlockId)
  OBVIOUS
<1> QED
  BY <1>1, <1>2 DEF NoCall, Locals

\* A request rounded up to whole pools is a word.
LEMMA NeedIsWord ==
    ASSUME TypeInv, NEW size \in Word
    PROVE  BytesNeeded(size) \in Word
<1>1. CASE ~IsType("POOL")
  BY <1>1 DEF BytesNeeded
<1>2. CASE IsType("POOL")
  <2> DEFINE whole == (size \div arena.pool_size) * arena.pool_size
  <2>1. arena.pool_size \in Word \ {0}
    BY <1>2, InputAssumption DEF TypeInv, Handle
  <2>2. whole \in Word
    BY <2>1, WholePools
  <2> HIDE DEF whole
  <2>3. AddW(whole, arena.pool_size) \in Word
    BY <2>1, <2>2, WordSums
  <2>4. BytesNeeded(size) = IF whole < size THEN AddW(whole, arena.pool_size) ELSE whole
    BY <1>2 DEF BytesNeeded, whole
  <2> QED
    BY <2>2, <2>3, <2>4
<1> QED
  BY <1>1, <1>2

\* The start of an allocation keeps the invariant.
LEMMA AllocCallStep ==
    ASSUME StepsInv, NEW size \in Requests, AllocCall(size)
    PROVE  StepsInv'
<1>1. ASSUME NEW code, Crash(code) PROVE StepsInv'
  BY <1>1, CrashStep
<1>2. CASE /\ AllocError(size) = "none"
           /\ call' = [NoCall EXCEPT
                 !.at = "visit", !.op = "alloc", !.size = size, !.need = BytesNeeded(size),
                 !.block = IF IsType("STACK") THEN arena.top ELSE arena.memory_block]
           /\ UNCHANGED <<state, kernel, arena, heap, block, live>>
  <2> DEFINE start == IF IsType("STACK") THEN arena.top ELSE arena.memory_block
             need == BytesNeeded(size)
  <2>1. Open
    BY <1>2 DEF AllocError
  <2>2. TypeInv /\ call = NoCall
    BY DEF AllocCall, Idle, StepsInv
  <2>3. start \in heap /\ start \in BlockId
    BY <2>1, <2>2, IdleFacts DEF NoCall, TypeInv
  <2>4. size \in Word /\ need \in Word
    BY <2>2, InputAssumption, NeedIsWord
  <2>5. /\ call' = [NoCall EXCEPT !.at = "visit", !.op = "alloc", !.size = size, !.need = need,
                                  !.block = start]
        /\ UNCHANGED <<kernel, arena, heap, block>>
    BY <1>2
  <2> HIDE DEF start, need
  <2>6. call' = [at |-> "visit", op |-> "alloc", block |-> start, fresh |-> <<>>,
                 size |-> size, need |-> need]
    BY <2>5 DEF NoCall
  <2>7. call' \in Locals
    <3>1. <<>> \in Seq(BlockId)
      OBVIOUS
    <3> QED
      BY <2>3, <2>4, <2>6, <3>1 DEF Locals
  <2>8. call.at = "idle" /\ call'.at = "visit" /\ call'.block = start
    BY <2>2, <2>6 DEF NoCall
  <2>9. arena' \in Handle /\ block' \in [BlockId -> Header]
    BY <2>2, <2>5 DEF TypeInv
  <2> QED
    BY <2>1, <2>3, <2>5, <2>7, <2>8, <2>9, WalkStep
<1> QED
  BY <1>1, <1>2 DEF AllocCall

\* What a request takes of a block is a word.
LEMMA BytesTakenWord ==
    ASSUME TypeInv, NEW b \in BlockId, arena.alignment # 0
    PROVE  BytesTaken(b) \in Word
<1>1. block[b] \in Header
  BY DEF TypeInv
<1>2. block[b].memory \in Word /\ block[b].allocated \in Word /\ call.need \in Word
  BY <1>1 DEF Header, TypeInv, Locals
<1>3. arena.alignment \in Word \ {0}
  <2>1. arena.alignment \in 0..AlignLimit /\ AlignLimit \in Word
    BY PagesAssumption DEF TypeInv, Handle
  <2> QED
    BY <2>1, Constants
<1>4. CurrentAddress(b) \in Word
  BY <1>2, WordSums DEF CurrentAddress
<1>5. AlignedAddress(b) \in Word
  BY <1>3, <1>4, AlignUpWord DEF AlignedAddress
<1>6. SubW(AlignedAddress(b), CurrentAddress(b)) \in Word
  BY <1>4, <1>5, WordSums
<1> QED
  BY <1>2, <1>6, WordSums DEF BytesTaken

\* A block is filled up to another level.
LEMMA FilledTo ==
    ASSUME block \in [BlockId -> Header], NEW b \in BlockId, NEW level \in Word,
           block' = [block EXCEPT ![b].allocated = level]
    PROVE  /\ block' \in [BlockId -> Header]
           /\ \A d \in BlockId : /\ block'[d].next = block[d].next
                                 /\ block'[d].memory = block[d].memory
BY DEF Header

\* Taking bytes of a block keeps the invariant.
LEMMA TakeStep ==
    ASSUME StepsInv, Take
    PROVE  StepsInv'
<1> DEFINE b == call.block
           filled == AddW(block[b].allocated, BytesTaken(b))
<1>1. TypeInv /\ call.at = "visit"
  BY DEF StepsInv, Take, At
<1>2. b \in heap /\ b \in BlockId /\ Open /\ arena.alignment \in Word \ {0}
  <2>1. Open
    BY <1>1 DEF StepsInv, CallInv
  <2>2. b \in heap /\ b \in BlockId
    BY <1>1, IdleFacts DEF TypeInv
  <2>3. arena.alignment \in 0..AlignLimit /\ AlignLimit \in Word
    BY <1>1, PagesAssumption DEF TypeInv, Handle
  <2>4. arena.alignment \in Word
    BY <2>3, Constants
  <2> QED
    BY <1>1, <2>1, <2>2, <2>4 DEF TypeInv
<1>3. filled \in Word
  <2>1. block[b] \in Header
    BY <1>1, <1>2 DEF TypeInv
  <2>2. block[b].allocated \in Word
    BY <2>1 DEF Header
  <2>3. BytesTaken(b) \in Word
    BY BytesTakenWord, <1>1, <1>2
  <2> QED
    BY <2>2, <2>3, WordSums
<1>4. block' = [block EXCEPT ![b].allocated = filled] /\ call' = NoCall
      /\ UNCHANGED <<kernel, arena, heap>>
  BY DEF Take
<1> HIDE DEF b, filled
<1>5. /\ block' \in [BlockId -> Header]
      /\ \A d \in BlockId : block'[d].next = block[d].next /\ block'[d].memory = block[d].memory
  BY <1>1, <1>2, <1>3, <1>4, FilledTo DEF TypeInv
<1>6. call'.at = "idle" /\ call' \in Locals
  BY <1>4, NoCallType DEF NoCall
<1> QED
  BY <1>1, <1>4, <1>5, <1>6, WalkStep DEF TypeInv

\* A request SCRATCH refuses keeps the invariant.
LEMMA RefuseScratchStep ==
    ASSUME StepsInv, RefuseScratch
    PROVE  StepsInv'
<1>1. TypeInv /\ call.at = "visit" /\ call' = NoCall /\ UNCHANGED <<kernel, arena, heap, block>>
  BY DEF StepsInv, RefuseScratch, At
<1>2. call'.at = "idle" /\ call' \in Locals
  BY <1>1, NoCallType DEF NoCall
<1> QED
  BY <1>1, <1>2, WalkStep DEF TypeInv

\* Going to the next block keeps the invariant.
LEMMA AdvanceStep ==
    ASSUME StepsInv, Advance
    PROVE  StepsInv'
<1> DEFINE next == block[call.block].next
<1>1. /\ TypeInv /\ call.at = "visit" /\ next # NoBlock
      /\ call' = [call EXCEPT !.block = next] /\ UNCHANGED <<kernel, arena, heap, block>>
  BY DEF StepsInv, Advance, At, NextToVisit
<1>2. call.block \in heap /\ next \in heap /\ next \in BlockId /\ Open
  <2>1. Open
    BY <1>1 DEF StepsInv, CallInv
  <2>2. call.block \in heap /\ next \in heap
    BY <1>1, IdleFacts
  <2> QED
    BY <1>1, <2>1, <2>2 DEF TypeInv
<1> HIDE DEF next
<1>3. call' \in Locals /\ call'.at = "visit" /\ call'.block = next
  BY <1>1, <1>2 DEF TypeInv, Locals
<1> QED
  BY <1>1, <1>2, <1>3, WalkStep DEF TypeInv

\* A chain with one more block at its end.
Extended(c, n, b) == [i \in 1..(n + 1) |-> IF i = n + 1 THEN b ELSE c[i]]

\* Its blocks are those of the chain and the new one.
LEMMA ExtendedChain ==
    ASSUME NEW n \in Nat, NEW c \in [1..n -> BlockId], NEW b \in BlockId,
           \A i, j \in 1..n : c[i] = c[j] => i = j,
           \A i \in 1..n : c[i] # b
    PROVE  /\ Extended(c, n, b) \in [1..(n + 1) -> BlockId]
           /\ Extended(c, n, b)[n + 1] = b
           /\ \A i \in 1..n : Extended(c, n, b)[i] = c[i]
           /\ \A i, j \in 1..(n + 1) : Extended(c, n, b)[i] = Extended(c, n, b)[j] => i = j
           /\ {Extended(c, n, b)[i] : i \in 1..(n + 1)} = {c[i] : i \in 1..n} \cup {b}
<1> DEFINE e == Extended(c, n, b)
<1>1. \A i \in 1..(n + 1) : i = n + 1 \/ i \in 1..n
  OBVIOUS
<1>2. \A i \in 1..n : i \in 1..(n + 1) /\ i # n + 1
  OBVIOUS
<1>3. n + 1 \in 1..(n + 1)
  OBVIOUS
<1>4. e \in [1..(n + 1) -> BlockId] /\ e[n + 1] = b /\ \A i \in 1..n : e[i] = c[i]
  BY <1>1, <1>2, <1>3 DEF Extended
<1> HIDE DEF e
<1>5. \A i, j \in 1..(n + 1) : e[i] = e[j] => i = j
  BY <1>1, <1>2, <1>4
<1>6. {e[i] : i \in 1..(n + 1)} = {c[i] : i \in 1..n} \cup {b}
  BY <1>1, <1>2, <1>3, <1>4
<1> QED
  BY <1>4, <1>5, <1>6 DEF e

\* The loop stops at the last block of the chain.
LEMMA AtLastBlock ==
    ASSUME StepsInv, call.at = "visit", block[call.block].next = NoBlock
    PROVE  \E n \in Nat \ {0} : \E c \in [1..n -> BlockId] :
              /\ WholeChain(c, n, 0, 1)
              /\ heap = {c[i] : i \in 1..n}
              /\ \A i, j \in 1..n : c[i] = c[j] => i = j
              /\ \A i \in 1..n : block[c[i]].next = IF i = n THEN NoBlock ELSE c[i + 1]
              /\ call.block = c[n]
<1>1. PICK n \in Nat : \E c \in [1..n -> BlockId] :
              /\ Chained(c, n, 0, 1) /\ WholeChain(c, n, 0, 1)
              /\ heap = {c[i] : i \in 1..n}
              /\ \A i, j \in 1..n : c[i] = c[j] => i = j
              /\ \A i \in 1..n : block[c[i]].next = IF i = n THEN NoBlock ELSE c[i + 1]
  BY IdleChain
<1>2. PICK c \in [1..n -> BlockId] :
              /\ WholeChain(c, n, 0, 1)
              /\ heap = {c[i] : i \in 1..n}
              /\ \A i, j \in 1..n : c[i] = c[j] => i = j
              /\ \A i \in 1..n : block[c[i]].next = IF i = n THEN NoBlock ELSE c[i + 1]
  BY <1>1
<1>3. PICK i \in 1..n : call.block = c[i]
  BY <1>2 DEF WholeChain
<1>4. i = n
  <2>1. ASSUME i # n PROVE c[i + 1] \in BlockId /\ c[i + 1] = NoBlock
    <3>1. i + 1 \in 1..n
      BY <2>1
    <3> QED
      BY <1>2, <1>3, <2>1, <3>1
  <2> QED
    BY <2>1, BlockAssumption
<1>5. n \in Nat \ {0}
  BY <1>3
<1> QED
  BY <1>2, <1>3, <1>4, <1>5

\* A header malloc'd at the end of the chain keeps the invariant.
LEMMA MallocHeaderStep ==
    ASSUME StepsInv, MallocHeader
    PROVE  StepsInv'
<1>1. CASE Crash("E104")
  BY <1>1, CrashStep
<1>2. CASE \E fresh \in BlockId \ heap :
            /\ heap' = heap \cup {fresh}
            /\ block' = IF IsType("STACK") THEN block
                        ELSE [block EXCEPT ![call.block].next = fresh]
            /\ call' = [call EXCEPT !.at = "map", !.fresh = Append(@, fresh)]
            /\ UNCHANGED <<state, kernel, arena, live>>
  <2>1. PICK fresh \in BlockId \ heap :
            /\ heap' = heap \cup {fresh}
            /\ block' = IF IsType("STACK") THEN block
                        ELSE [block EXCEPT ![call.block].next = fresh]
            /\ call' = [call EXCEPT !.at = "map", !.fresh = Append(@, fresh)]
            /\ UNCHANGED <<kernel, arena>>
    BY <1>2
  <2>2. call.at = "visit" /\ block[call.block].next = NoBlock /\ TypeInv /\ CallInv
    BY DEF MallocHeader, At, StepsInv
  <2>3. PICK n \in Nat \ {0} : \E c \in [1..n -> BlockId] :
              /\ WholeChain(c, n, 0, 1)
              /\ heap = {c[i] : i \in 1..n}
              /\ \A i, j \in 1..n : c[i] = c[j] => i = j
              /\ \A i \in 1..n : block[c[i]].next = IF i = n THEN NoBlock ELSE c[i + 1]
              /\ call.block = c[n]
    BY <2>2, AtLastBlock
  <2>4. PICK c \in [1..n -> BlockId] :
              /\ WholeChain(c, n, 0, 1)
              /\ heap = {c[i] : i \in 1..n}
              /\ \A i, j \in 1..n : c[i] = c[j] => i = j
              /\ \A i \in 1..n : block[c[i]].next = IF i = n THEN NoBlock ELSE c[i + 1]
              /\ call.block = c[n]
    BY <2>3
  <2>5. Open /\ Open'
    BY <2>1, <2>2 DEF CallInv, Open
  <2>6. /\ call'.at = "map" /\ call'.block = c[n] /\ call' \in Locals
        /\ call'.fresh # <<>> /\ Last(call'.fresh) = fresh
    <3>1. call.fresh \in Seq(BlockId) /\ call \in Locals
      BY <2>2 DEF TypeInv, Locals
    <3>2. Append(call.fresh, fresh) \in Seq(BlockId) /\ Append(call.fresh, fresh) # <<>>
      BY <3>1
    <3>3. Last(Append(call.fresh, fresh)) = fresh
      BY <3>1 DEF Last
    <3>4. /\ call'.at = "map" /\ call'.block = call.block
          /\ call'.fresh = Append(call.fresh, fresh) /\ call' \in Locals
      BY <2>1, <3>1, <3>2 DEF Locals
    <3> QED
      BY <2>4, <3>2, <3>3, <3>4
  <2>7. /\ block' \in [BlockId -> Header]
        /\ \A b \in BlockId : block'[b].memory = block[b].memory
        /\ \A b \in BlockId : block'[b].next = IF b = c[n] /\ ~IsType("STACK") THEN fresh
                                               ELSE block[b].next
    <3>1. n \in 1..n /\ c[n] \in BlockId /\ block \in [BlockId -> Header]
      BY <2>2 DEF TypeInv
    <3>2. CASE IsType("STACK")
      BY <2>1, <3>1, <3>2
    <3>3. CASE ~IsType("STACK")
      <4>1. PICK last \in BlockId : last = c[n] /\ block' = [block EXCEPT ![last].next = fresh]
        BY <2>1, <2>4, <3>1, <3>3
      <4>2. block \in [BlockId -> Header] /\ fresh \in BlockId \cup {NoBlock}
        BY <3>1
      <4>3. /\ block' \in [BlockId -> Header]
            /\ \A d \in BlockId : /\ block'[d].memory = block[d].memory
                                  /\ block'[d].next = IF d = last THEN fresh ELSE block[d].next
        <5>1. PICK h : h = [block[last] EXCEPT !.next = fresh]
          OBVIOUS
        <5>2. h \in Header /\ h.next = fresh /\ h.memory = block[last].memory
          <6>1. block[last] \in Header
            BY <4>2
          <6> QED
            BY <5>1, <6>1, <4>2 DEF Header
        <5>3. block' = [block EXCEPT ![last] = h]
          BY <4>1, <5>1
        <5>4. /\ block' \in [BlockId -> Header] /\ block'[last] = h
              /\ \A d \in BlockId \ {last} : block'[d] = block[d]
          BY <4>2, <5>2, <5>3, HeaderSet
        <5> QED
          BY <5>2, <5>4
      <4> QED
        BY <3>3, <4>1, <4>3
    <3> QED
      BY <3>2, <3>3
  <2>8. Pending' = {fresh} /\ Held' = heap /\ Held = heap
    BY <2>1, <2>2, <2>6 DEF Pending, Held
  <2>9. MapInv'
    BY <2>1, MapFrame DEF StepsInv
  <2>10. TypeInv'
    <3>1. IsFiniteSet(heap') /\ heap' \subseteq BlockId
      BY <2>1, <2>2, FS_AddElement DEF TypeInv
    <3>2. \A b \in BlockId \ heap' : block'[b].next = NoBlock
      <4>1. c[n] \in heap
        BY <2>4
      <4> QED
        BY <2>1, <2>2, <2>7, <4>1 DEF TypeInv
    <3> QED
      BY <2>1, <2>2, <2>6, <2>7, <3>1, <3>2 DEF TypeInv, Open, IsType
  <2>11. CallInv'
    BY <2>5, <2>6 DEF CallInv
  <2>12. ChainInv'
    <3>1. \A i \in 1..n : c[i] # fresh
      BY <2>4
    <3>2. /\ Open /\ arena.memory_block = c[1]
          /\ IsType("STACK") => \E i \in 1..n : arena.top = c[i]
      BY <2>4, <2>5 DEF WholeChain
    <3>3. n \in 1..n /\ n > 0 /\ n \in Nat /\ 0 \in Nat /\ 1 \in Nat /\ n + 1 \in Nat
      OBVIOUS
    <3>4. CASE IsType("STACK")
      <4>1. WholeChain(c, n, 0, 1)'
        BY <2>1, <2>5, <2>6, <3>1, <3>2, <3>3, <3>4 DEF WholeChain, IsType
      <4>2. \A i \in 1..n : block'[c[i]].next = IF i = n THEN NoBlock ELSE c[i + 1]
        BY <2>4, <2>7, <3>4
      <4>3. heap' = {c[i] : i \in (1..0) \cup (1..n)} \cup {fresh}
        BY <2>1, <2>4
      <4>4. Chained(c, n, 0, 1)'
        BY <2>1, <2>4, <2>6, <2>8, <3>3, <3>4, <4>1, <4>2, <4>3 DEF Chained, IsType
      <4> QED
        BY <3>3, <4>4 DEF ChainInv
    <3>5. CASE ~IsType("STACK")
      <4> DEFINE e == Extended(c, n, fresh)
      <4>1. /\ e \in [1..(n + 1) -> BlockId]
            /\ e[n + 1] = fresh
            /\ \A i \in 1..n : e[i] = c[i]
            /\ \A i, j \in 1..(n + 1) : e[i] = e[j] => i = j
            /\ {e[i] : i \in 1..(n + 1)} = {c[i] : i \in 1..n} \cup {fresh}
        <5>1. n \in Nat /\ fresh \in BlockId
          BY <2>4, <3>3
        <5>2. \A i, j \in 1..n : c[i] = c[j] => i = j
          BY <2>4
        <5>3. \A i \in 1..n : c[i] # fresh
          BY <3>1
        <5>4. /\ e \in [1..(n + 1) -> BlockId]
              /\ e[n + 1] = fresh
              /\ \A i \in 1..n : e[i] = c[i]
              /\ \A i, j \in 1..(n + 1) : e[i] = e[j] => i = j
          BY <5>1, <5>2, <5>3, ExtendedChain
        <5>5. /\ n + 1 \in 1..(n + 1) /\ \A i \in 1..n : i \in 1..(n + 1)
              /\ \A i \in 1..(n + 1) : i = n + 1 \/ i \in 1..n
          BY <5>1
        <5> HIDE DEF e
        <5>6. {e[i] : i \in 1..(n + 1)} = {c[i] : i \in 1..n} \cup {fresh}
          BY <5>4, <5>5
        <5> QED
          BY <5>4, <5>6
      <4> HIDE DEF e
      <4>2. WholeChain(e, n + 1, 0, 1)'
        <5>1. 1 \in 1..n /\ n + 1 > 1 /\ n + 1 > 0 /\ (n + 1) - 1 = n
          BY <3>3
        <5>2. e[1] = c[1] /\ e[n] = c[n]
          BY <3>3, <4>1, <5>1
        <5> QED
          BY <2>1, <2>5, <2>6, <3>2, <3>5, <4>1, <5>1, <5>2 DEF WholeChain, IsType
      <4>3. \A i \in 1..(n + 1) : block'[e[i]].next = IF i = n + 1 THEN NoBlock ELSE e[i + 1]
        <5>1. block'[e[n + 1]].next = NoBlock
          <6>1. fresh # c[n] /\ block[fresh].next = NoBlock
            BY <2>1, <2>2, <3>1, <3>3 DEF TypeInv
          <6> QED
            BY <2>7, <4>1, <6>1
        <5>2. block'[e[n]].next = e[n + 1]
          BY <2>7, <3>3, <3>5, <4>1
        <5>3. ASSUME NEW i \in 1..n, i # n PROVE block'[e[i]].next = e[i + 1]
          <6>1. i + 1 \in 1..n
            BY <5>3
          <6>2. e[i] = c[i] /\ e[i + 1] = c[i + 1] /\ c[i] # c[n] /\ c[i] \in BlockId
            BY <2>4, <3>3, <4>1, <5>3, <6>1
          <6> QED
            BY <2>4, <2>7, <5>3, <6>2
        <5>4. \A i \in 1..(n + 1) : i = n + 1 \/ (i \in 1..n /\ i # n + 1)
          BY <3>3
        <5> QED
          BY <5>1, <5>2, <5>3, <5>4
      <4>4. (1..0) \cup (1..(n + 1)) = 1..(n + 1)
        BY <3>3
      <4>5. heap' = {e[i] : i \in (1..0) \cup (1..(n + 1))}
        BY <2>1, <2>4, <4>1, <4>4
      <4>6. Chained(e, n + 1, 0, 1)'
        <5>1. 1 \in (0 + 1)..((n + 1) + 1)
          BY <3>3
        <5>2. ~IsType("STACK")'
          BY <2>1, <3>5 DEF IsType
        <5>3. call'.at # "free"
          BY <2>6
        <5> QED
          BY <4>1, <4>2, <4>3, <4>5, <5>1, <5>2, <5>3 DEF Chained
      <4> QED
        BY <3>3, <4>1, <4>6 DEF ChainInv
    <3> QED
      BY <3>4, <3>5
  <2>13. Paired'
    <3>1. \A b \in heap : b \in BlockId
      BY <2>2 DEF TypeInv
    <3> QED
      BY <2>1, <2>7, <2>8, <3>1 DEF StepsInv, Paired, kernel
  <2> QED
    BY <2>9, <2>10, <2>11, <2>12, <2>13 DEF StepsInv
<1> QED
  BY <1>1, <1>2 DEF MallocHeader

\* What mapping the region of an appended header has done when it returns.
LEMMA GrowResult ==
    ASSUME StepsInv, MapRegion, state' = "running", call.block \in BlockId
    PROVE  /\ MapInv' /\ arena.alignment \in 1..AlignLimit
           /\ GrownCapacity = 2 * block[call.block].capacity
           /\ GrownCapacity \in 0..MmapLimit
           /\ \E p \in Word : /\ regions' = regions \cup
                                   {[ptr |-> p, size |-> GrownCapacity, alignment |-> arena.alignment]}
                              /\ \A r \in regions : r.ptr # p
                              /\ NewPointer = p
                              /\ p % arena.alignment = 0
                              /\ p + GrownCapacity <= SpaceEnd
<1> DEFINE capacity == GrownCapacity
           old == block[call.block].capacity
           a == arena.alignment
<1>1. capacity = DoubleW(old) /\ Memory!SafeAlignedAlloc(capacity, a)
  BY DEF MapRegion, GrownCapacity
<1>2. old \in Nat /\ old <= MmapLimit /\ a \in 0..AlignLimit
  <2>1. TypeInv /\ block[call.block] \in Header
    BY DEF StepsInv, TypeInv
  <2>2. old \in 0..MmapLimit /\ a \in 0..AlignLimit
    BY <2>1 DEF Header, TypeInv, Handle
  <2> QED
    BY <2>2, Constants
<1> HIDE DEF capacity, old, a
<1>3. capacity = 2 * old /\ capacity \in Nat /\ capacity <= 2 * MmapLimit /\ capacity \in Word /\ a \in Word
  <2>1. 2 * old \in 0..(WordMod - 1) /\ 2 * old <= 2 * MmapLimit
    BY <1>2, Constants
  <2>2. (2 * old) % WordMod = 2 * old
    <3>1. 2 * old \in Nat /\ 2 * old < WordMod /\ WordMod \in Nat
      BY <1>2, <2>1, Constants
    <3> QED
      BY <3>1
  <2>3. capacity = 2 * old
    BY <1>1, <2>2 DEF DoubleW
  <2>4. a \in Word
    BY <1>2, Constants
  <2>5. 2 * old \in Nat
    BY <1>2
  <2> QED
    BY <2>1, <2>3, <2>4, <2>5, Constants
<1>4. a <= AlignLimit => capacity + a + MetaSize + PageSize < WordMod
  <2>1. /\ MmapLimit \in Nat /\ AlignLimit \in Nat /\ MetaSize \in Nat /\ PageSize \in Nat
        /\ WordMod \in Nat /\ 2 * MmapLimit + AlignLimit + MetaSize + PageSize < WordMod
        /\ a \in Nat
    BY <1>2, Constants
  <2> QED
    BY <1>3, <2>1
<1>5. /\ MapInv' /\ Mappable(capacity, a) /\ a \in 1..AlignLimit
      /\ \E p \in Nat : /\ regions' = regions \cup {[ptr |-> p, size |-> capacity, alignment |-> a]}
                        /\ \A r \in regions : r.ptr # p
                        /\ NewPointer = p
                        /\ p % a = 0
                        /\ p + capacity <= SpaceEnd
  <2>1. MapInv
    BY DEF StepsInv
  <2> QED
    BY <1>1, <1>3, <1>4, <2>1, AllocResult
<1>6. PICK p \in Nat : /\ regions' = regions \cup {[ptr |-> p, size |-> capacity, alignment |-> a]}
                       /\ \A r \in regions : r.ptr # p
                       /\ NewPointer = p
                       /\ p % a = 0
                       /\ p + capacity <= SpaceEnd
  BY <1>5
<1>7. p \in Word
  BY <1>3, <1>6, Constants
<1>8. capacity \in 0..MmapLimit
  <2>1. DoubleW(old) <= MmapLimit
    BY <1>1, <1>2, <1>5, DoubledMapped
  <2> QED
    BY <1>1, <1>3, <2>1, Constants
<1> QED
  BY <1>3, <1>5, <1>6, <1>7, <1>8 DEF capacity, old, a

\* While a region is being mapped the header that gets it is the last of the
\* chain, or a stack's next.
LEMMA PendingChain ==
    ASSUME StepsInv, call.at = "map"
    PROVE  \E n \in Nat \ {0} : \E c \in [1..n -> BlockId] :
              /\ WholeChain(c, n, 0, 1) /\ Open /\ arena.memory_block = c[1]
              /\ heap = {c[i] : i \in 1..n} \cup (IF IsType("STACK") THEN Pending ELSE {})
              /\ \A i, j \in 1..n : c[i] = c[j] => i = j
              /\ \A i \in 1..n : block[c[i]].next = IF i = n THEN NoBlock ELSE c[i + 1]
<1>1. PICK n \in Nat, k \in Nat, f \in Nat : \E c \in [1..n -> BlockId] : Chained(c, n, k, f)
  BY DEF StepsInv, ChainInv
<1>2. PICK c \in [1..n -> BlockId] : Chained(c, n, k, f)
  BY <1>1
<1>3. k = 0 /\ f = 1 /\ WholeChain(c, n, k, f)
  BY <1>2 DEF Chained, WholeChain
<1>4. Open /\ n > 0 /\ arena.memory_block = c[1]
  BY <1>3 DEF WholeChain, StepsInv, CallInv
<1>5. (1..0) \cup (1..n) = 1..n /\ \A i \in 1..n : 1 <= i
  OBVIOUS
<1>6. Chained(c, n, 0, 1) /\ WholeChain(c, n, 0, 1)
  BY <1>2, <1>3
<1>7. heap = {c[i] : i \in 1..n} \cup (IF IsType("STACK") THEN Pending ELSE {})
  BY <1>5, <1>6 DEF Chained
<1>8. /\ \A i, j \in 1..n : c[i] = c[j] => i = j
      /\ \A i \in 1..n : block[c[i]].next = IF i = n THEN NoBlock ELSE c[i + 1]
  BY <1>5, <1>6 DEF Chained
<1>9. n \in Nat \ {0}
  BY <1>4
<1> QED
  BY <1>4, <1>6, <1>7, <1>8, <1>9

\* Mapping the region of an appended header keeps the invariant.
LEMMA MapAppendedStep ==
    ASSUME StepsInv, MapAppended
    PROVE  StepsInv'
<1> DEFINE new == Last(call.fresh)
<1>1. /\ TypeInv /\ CallInv /\ call.at = "map" /\ ~IsType("STACK") /\ UNCHANGED <<arena, heap>>
      /\ Memory!SafeAlignedAlloc(GrownCapacity, arena.alignment)
  BY DEF StepsInv, MapAppended, MapRegion, At
<1>2. CASE state' # "running"
  <2>1. UNCHANGED kernel
    BY <1>1, <1>2, AllocCrash
  <2> QED
    BY <1>1, <1>2, <2>1, QuietStep DEF MapAppended
<1>3. CASE state' = "running"
  <2>1. PICK n \in Nat \ {0} : \E c \in [1..n -> BlockId] :
              /\ WholeChain(c, n, 0, 1) /\ Open /\ arena.memory_block = c[1]
              /\ heap = {c[i] : i \in 1..n} \cup (IF IsType("STACK") THEN Pending ELSE {})
              /\ \A i, j \in 1..n : c[i] = c[j] => i = j
              /\ \A i \in 1..n : block[c[i]].next = IF i = n THEN NoBlock ELSE c[i + 1]
    BY <1>1, PendingChain
  <2>2. PICK c \in [1..n -> BlockId] :
              /\ WholeChain(c, n, 0, 1) /\ Open /\ arena.memory_block = c[1]
              /\ heap = {c[i] : i \in 1..n}
              /\ \A i, j \in 1..n : c[i] = c[j] => i = j
              /\ \A i \in 1..n : block[c[i]].next = IF i = n THEN NoBlock ELSE c[i + 1]
    BY <1>1, <2>1
  <2>3. n > 1 /\ call.block = c[n - 1] /\ new = c[n]
    BY <1>1, <2>2 DEF WholeChain
  <2>4. n \in 1..n /\ n - 1 \in 1..n /\ n - 1 # n /\ (n - 1) + 1 = n
    BY <2>3
  <2>5. new \in BlockId /\ call.block \in BlockId /\ new \in heap
    BY <2>2, <2>3, <2>4
  <2>6. /\ MapInv' /\ GrownCapacity \in 0..MmapLimit
        /\ \E p \in Word : /\ regions' = regions \cup
                                   {[ptr |-> p, size |-> GrownCapacity, alignment |-> arena.alignment]}
                           /\ \A r \in regions : r.ptr # p
                           /\ NewPointer = p
    BY <1>3, <2>5, GrowResult DEF MapAppended
  <2>7. PICK p \in Word : /\ regions' = regions \cup
                                   {[ptr |-> p, size |-> GrownCapacity, alignment |-> arena.alignment]}
                          /\ \A r \in regions : r.ptr # p
                          /\ NewPointer = p
    BY <2>6
  <2>8. /\ block' = [block EXCEPT ![new] = [Blank EXCEPT !.memory = p, !.capacity = GrownCapacity]]
        /\ call' = [call EXCEPT !.at = "visit", !.block = NextToVisit(call.block)]
    BY <1>3, <2>7 DEF MapAppended
  <2>9. NextToVisit(call.block) = c[n]
    BY <2>2, <2>3, <2>4 DEF NextToVisit
  <2>10. call'.at = "visit" /\ call'.block = c[n] /\ call' \in Locals
    BY <1>1, <2>3, <2>5, <2>8, <2>9 DEF TypeInv, Locals
  <2>11. /\ block' \in [BlockId -> Header]
         /\ block'[new].memory = p /\ block'[new].next = NoBlock
         /\ \A d \in BlockId \ {new} : block'[d] = block[d]
    <3> DEFINE h == [memory |-> p, next |-> NoBlock, capacity |-> GrownCapacity, allocated |-> 0]
    <3>1. h.memory = p /\ h.next = NoBlock
      OBVIOUS
    <3>2. h \in Header
      <4>1. 0 \in Word
        BY Constants
      <4> QED
        BY <2>6, <4>1 DEF Header
    <3>3. block' = [block EXCEPT ![new] = h]
      BY <2>8, FilledHeader
    <3> HIDE DEF h
    <3>4. block \in [BlockId -> Header]
      BY <1>1 DEF TypeInv
    <3>5. /\ block' \in [BlockId -> Header]
          /\ block'[new] = h
          /\ \A d \in BlockId \ {new} : block'[d] = block[d]
      BY <2>5, <3>2, <3>3, <3>4, HeaderSet
    <3> QED
      BY <3>1, <3>5
  <2>12. \A i \in 1..n : block'[c[i]].next = IF i = n THEN NoBlock ELSE c[i + 1]
    BY <2>2, <2>3, <2>4, <2>11
  <2>13. Open' /\ ~IsType("STACK")' /\ Pending' = {} /\ Pending = {new}
    BY <1>1, <2>2, <2>10 DEF Open, IsType, Pending
  <2>14. Held' = Held \cup {new} /\ new \notin Held /\ Held' = heap
    BY <1>1, <2>5, <2>13 DEF Held
  <2>15. TypeInv'
    <3>1. \A b \in BlockId \ heap' : block'[b].next = NoBlock
      BY <1>1, <2>5, <2>11 DEF TypeInv
    <3> QED
      BY <1>1, <2>10, <2>11, <3>1 DEF TypeInv, Open, IsType
  <2>16. CallInv'
    BY <2>10, <2>13 DEF CallInv
  <2>17. ChainInv'
    <3>1. WholeChain(c, n, 0, 1)'
      BY <1>1, <2>2, <2>4, <2>10, <2>13 DEF WholeChain
    <3>2. (1..0) \cup (1..n) = 1..n /\ 1 \in (0 + 1)..(n + 1) /\ 0 \in Nat /\ 1 \in Nat
      BY <2>4
    <3>3. heap' = {c[i] : i \in (1..0) \cup (1..n)}
      BY <1>1, <2>2, <3>2
    <3>4. Chained(c, n, 0, 1)'
      BY <2>2, <2>10, <2>12, <2>13, <3>1, <3>2, <3>3 DEF Chained
    <3> QED
      BY <3>2, <3>4 DEF ChainInv
  <2>18. Paired'
    <3> DEFINE r == [ptr |-> p, size |-> GrownCapacity, alignment |-> arena.alignment]
    <3>1. r.ptr = p
      OBVIOUS
    <3>2. regions' = regions \cup {r} /\ \A s \in regions : s.ptr # r.ptr
      BY <2>7
    <3> HIDE DEF r
    <3>3. block'[new].memory = r.ptr /\ \A d \in Held : block'[d].memory = block[d].memory
      <4>1. \A d \in Held : d \in BlockId \ {new}
        BY <1>1, <2>14 DEF Held, TypeInv
      <4> QED
        BY <2>11, <3>1, <4>1
    <3>4. Paired
      BY DEF StepsInv
    <3> HIDE DEF new
    <3> QED
      BY <2>14, <3>2, <3>3, <3>4, PairedWithNew
  <2> QED
    BY <2>6, <2>15, <2>16, <2>17, <2>18 DEF StepsInv
<1> QED
  BY <1>2, <1>3

\* Mapping the region of the block a stack pushes keeps the invariant.
LEMMA MapPushedStep ==
    ASSUME StepsInv, MapPushed
    PROVE  StepsInv'
<1>1. /\ TypeInv /\ CallInv /\ call.at = "map" /\ IsType("STACK") /\ heap' = heap
      /\ Memory!SafeAlignedAlloc(GrownCapacity, arena.alignment)
  BY DEF StepsInv, MapPushed, MapRegion, At
<1>2. CASE state' # "running"
  <2>1. UNCHANGED kernel
    BY <1>1, <1>2, AllocCrash
  <2> QED
    BY <1>1, <1>2, <2>1, QuietStep DEF MapPushed
<1>3. CASE state' = "running"
  <2>0. PICK new : new = Last(call.fresh)
    OBVIOUS
  <2>1. PICK n \in Nat \ {0} : \E c \in [1..n -> BlockId] :
              /\ WholeChain(c, n, 0, 1) /\ Open /\ arena.memory_block = c[1]
              /\ heap = {c[i] : i \in 1..n} \cup (IF IsType("STACK") THEN Pending ELSE {})
              /\ \A i, j \in 1..n : c[i] = c[j] => i = j
              /\ \A i \in 1..n : block[c[i]].next = IF i = n THEN NoBlock ELSE c[i + 1]
    BY <1>1, PendingChain
  <2>2. PICK c \in [1..n -> BlockId] :
              /\ WholeChain(c, n, 0, 1) /\ Open /\ arena.memory_block = c[1]
              /\ heap = {c[i] : i \in 1..n} \cup Pending
              /\ \A i, j \in 1..n : c[i] = c[j] => i = j
              /\ \A i \in 1..n : block[c[i]].next = IF i = n THEN NoBlock ELSE c[i + 1]
    BY <1>1, <2>1
  <2>3. call.block = c[n] /\ (\A i \in 1..n : new # c[i]) /\ Pending = {new}
    BY <1>1, <2>0, <2>2 DEF WholeChain, Pending
  <2>4. n \in 1..n /\ 1 \in 1..n /\ n \in Nat /\ n + 1 > 0
    OBVIOUS
  <2>5. new \in BlockId /\ call.block \in BlockId /\ new \in heap /\ call.block # new
    BY <1>1, <2>2, <2>3, <2>4 DEF TypeInv
  <2>6. /\ MapInv' /\ GrownCapacity \in 0..MmapLimit /\ arena.alignment \in 1..AlignLimit
        /\ \E p \in Word : /\ regions' = regions \cup
                                   {[ptr |-> p, size |-> GrownCapacity, alignment |-> arena.alignment]}
                           /\ \A r \in regions : r.ptr # p
                           /\ NewPointer = p
    BY <1>3, <2>5, GrowResult DEF MapPushed
  <2>7. PICK p \in Word : /\ regions' = regions \cup
                                   {[ptr |-> p, size |-> GrownCapacity, alignment |-> arena.alignment]}
                          /\ \A r \in regions : r.ptr # p
                          /\ NewPointer = p
    BY <2>6
  <2> DEFINE level == AddW(call.need, SubW(AlignUp(p, arena.alignment), p))
  <2>8. level \in Word
    <3>1. arena.alignment \in Word \ {0}
      <4>1. arena.alignment \in 1..AlignLimit
        BY <2>6
      <4>2. /\ AlignLimit \in Nat /\ AlignLimit < WordMod /\ WordMod \in Nat
            /\ Word = 0..(WordMod - 1)
        BY Constants
      <4> QED
        BY <4>1, <4>2
    <3>2. SubW(AlignUp(p, arena.alignment), p) \in Word
      BY <3>1, AlignUpWord, WordSums
    <3>3. call.need \in Word
      BY <1>1 DEF TypeInv, Locals
    <3> QED
      BY <3>2, <3>3, WordSums
  <2>9. /\ block' = [block EXCEPT
              ![new] = [Blank EXCEPT !.memory = p, !.capacity = GrownCapacity, !.allocated = level],
              ![call.block].next = new]
        /\ arena' = [arena EXCEPT !.top = new]
        /\ call' = NoCall
    BY <1>3, <2>0, <2>7 DEF MapPushed
  <2> HIDE DEF level
  <2>10. call'.at = "idle" /\ call' \in Locals
    BY <2>9, NoCallType DEF NoCall
  <2>11. /\ block' \in [BlockId -> Header]
         /\ block'[new].memory = p /\ block'[new].next = NoBlock
         /\ block'[call.block].next = new
         /\ \A d \in BlockId \ {new} : block'[d].memory = block[d].memory
         /\ \A d \in BlockId \ {new, call.block} : block'[d].next = block[d].next
    <3> DEFINE h == [Blank EXCEPT !.memory = p, !.capacity = GrownCapacity, !.allocated = level]
    <3>1. h \in Header /\ h.memory = p /\ h.next = NoBlock
      <4>1. PICK g : g = h
        OBVIOUS
      <4>2. g = [memory |-> p, next |-> NoBlock, capacity |-> GrownCapacity, allocated |-> level]
        BY <4>1 DEF Blank
      <4>3. g \in Header
        BY <2>6, <2>8, <4>2 DEF Header
      <4>4. g.memory = p /\ g.next = NoBlock
        BY <4>2
      <4> HIDE DEF h
      <4> QED
        BY <4>1, <4>3, <4>4
    <3>2. block' = [block EXCEPT ![new] = h, ![call.block].next = new]
      BY <2>9
    <3> HIDE DEF h
    <3>3. block \in [BlockId -> Header]
      BY <1>1 DEF TypeInv
    <3>4. /\ block'[new] = h
          /\ block'[call.block] = [block[call.block] EXCEPT !.next = new]
          /\ \A d \in BlockId \ {new, call.block} : block'[d] = block[d]
          /\ DOMAIN block' = BlockId
      BY <2>5, <3>2, <3>3
    <3>5. [block[call.block] EXCEPT !.next = new] \in Header
      BY <2>5, <3>3 DEF Header
    <3>6. block' \in [BlockId -> Header]
      <4>1. \A d \in BlockId : block'[d] \in Header
        BY <3>1, <3>3, <3>4, <3>5
      <4>2. block' = [d \in BlockId |-> block'[d]]
        BY <3>2, <3>3
      <4> QED
        BY <4>1, <4>2
    <3>7. block'[call.block].memory = block[call.block].memory /\ block'[call.block].next = new
      BY <2>5, <3>3, <3>4 DEF Header
    <3> QED
      BY <2>5, <3>1, <3>4, <3>6, <3>7
  <2>12. arena' \in Handle /\ Open' /\ IsType("STACK")' /\ arena'.memory_block = c[1] /\ arena'.top = new
         /\ arena'.alignment # 0
    <3>1. /\ arena' \in Handle /\ arena'.alignment = arena.alignment /\ arena'.top = new
          /\ arena'.allocator_type = arena.allocator_type /\ arena'.memory_block = arena.memory_block
      BY <1>1, <2>5, <2>9 DEF TypeInv, Handle
    <3>2. arena.alignment # 0
      BY <2>6
    <3> QED
      BY <1>1, <2>2, <3>1, <3>2 DEF Open, NoArena, IsType
  <2>13. Pending' = {} /\ Held' = heap /\ Held' = Held \cup {new} /\ new \notin Held
    BY <1>1, <2>3, <2>5, <2>10 DEF Pending, Held
  <2>14. TypeInv'
    <3>1. \A b \in BlockId \ heap' : block'[b].next = NoBlock
      <4>1. call.block \in heap
        BY <2>2, <2>3, <2>4
      <4> QED
        BY <1>1, <2>5, <2>11, <4>1 DEF TypeInv
    <3>2. ~IsType("POOL")'
      BY <2>12 DEF IsType
    <3> QED
      BY <1>1, <2>10, <2>11, <2>12, <3>1, <3>2 DEF TypeInv
  <2>15. CallInv'
    BY <2>9, <2>10 DEF CallInv
  <2>16. ChainInv'
    <3> DEFINE e == Extended(c, n, new)
    <3>1. /\ e \in [1..(n + 1) -> BlockId]
          /\ e[n + 1] = new
          /\ \A i \in 1..n : e[i] = c[i]
          /\ \A i, j \in 1..(n + 1) : e[i] = e[j] => i = j
          /\ {e[i] : i \in 1..(n + 1)} = {c[i] : i \in 1..n} \cup {new}
      <4>1. n \in Nat /\ new \in BlockId /\ (\A i, j \in 1..n : c[i] = c[j] => i = j)
            /\ \A i \in 1..n : c[i] # new
        BY <2>2, <2>3, <2>4, <2>5
      <4> QED
        BY <4>1, ExtendedChain
    <3> HIDE DEF e
    <3>2. WholeChain(e, n + 1, 0, 1)'
      <4>1. e[1] = c[1] /\ n + 1 \in 1..(n + 1)
        BY <2>4, <3>1
      <4> QED
        BY <2>4, <2>10, <2>12, <3>1, <4>1 DEF WholeChain
    <3>3. \A i \in 1..(n + 1) : block'[e[i]].next = IF i = n + 1 THEN NoBlock ELSE e[i + 1]
      <4>1. block'[e[n + 1]].next = NoBlock /\ block'[e[n]].next = e[n + 1]
        BY <2>3, <2>4, <2>11, <3>1
      <4>2. ASSUME NEW i \in 1..n, i # n PROVE block'[e[i]].next = e[i + 1]
        <5>1. i + 1 \in 1..n
          BY <4>2
        <5>2. e[i] = c[i] /\ e[i + 1] = c[i + 1] /\ c[i] \in BlockId \ {new, call.block}
          BY <2>2, <2>3, <2>4, <3>1, <4>2, <5>1
        <5> QED
          BY <2>2, <2>11, <4>2, <5>2
      <4>3. \A i \in 1..(n + 1) : i = n + 1 \/ (i \in 1..n /\ i # n + 1)
        BY <2>4
      <4>4. n # n + 1
        BY <2>4
      <4> QED
        BY <4>1, <4>2, <4>3, <4>4
    <3>4. (1..0) \cup (1..(n + 1)) = 1..(n + 1) /\ 1 \in (0 + 1)..((n + 1) + 1)
      BY <2>4
    <3>5. heap' = {e[i] : i \in (1..0) \cup (1..(n + 1))}
      BY <1>1, <2>2, <2>3, <3>1, <3>4
    <3>6. Chained(e, n + 1, 0, 1)'
      BY <2>10, <2>12, <2>13, <3>1, <3>2, <3>3, <3>4, <3>5 DEF Chained
    <3>7. n + 1 \in Nat /\ 0 \in Nat /\ 1 \in Nat
      BY <2>4
    <3> QED
      BY <3>1, <3>6, <3>7 DEF ChainInv
  <2>17. Paired'
    <3> DEFINE r == [ptr |-> p, size |-> GrownCapacity, alignment |-> arena.alignment]
    <3>1. r.ptr = p
      OBVIOUS
    <3>2. regions' = regions \cup {r} /\ \A s \in regions : s.ptr # r.ptr
      BY <2>7
    <3> HIDE DEF r
    <3>3. block'[new].memory = r.ptr /\ \A d \in Held : block'[d].memory = block[d].memory
      <4>1. \A d \in Held : d \in BlockId \ {new}
        BY <1>1, <2>13 DEF Held, TypeInv
      <4> QED
        BY <2>11, <3>1, <4>1
    <3>4. Paired
      BY DEF StepsInv
    <3> QED
      BY <2>13, <3>2, <3>3, <3>4, PairedWithNew
  <2> QED
    BY <2>6, <2>14, <2>15, <2>16, <2>17 DEF StepsInv
<1> QED
  BY <1>2, <1>3

-------------------------------------------------------------------------------
(* reset, destroy, record and unwind, and the loop that frees blocks.        *)

\* Where the free loop starts.
LEMMA FreeFromLocals ==
    ASSUME NEW op \in {"reset", "destroy", "unwind"}, NEW b \in BlockId \cup {NoBlock},
           FreeFrom(op, b)
    PROVE  call' \in Locals /\ call'.at = "free" /\ call'.op = op /\ call'.block = b
<1>1. call' = [at |-> "free", op |-> op, block |-> b, fresh |-> <<>>, size |-> 0, need |-> 0]
  BY DEF FreeFrom, NoCall
<1>2. 0 \in Word /\ <<>> \in Seq(BlockId)
  BY Constants
<1>3. op \in {"none", "alloc", "reset", "destroy", "unwind"}
  OBVIOUS
<1>4. call' \in Locals
  BY <1>1, <1>2, <1>3 DEF Locals
<1> QED
  BY <1>1, <1>4

\* A free loop starts, with the first k blocks of the chain to keep.
LEMMA FreeLoopStart ==
    ASSUME StepsInv, call.at = "idle", Open, UNCHANGED <<kernel, heap>>,
           arena' \in Handle,
           /\ arena'.allocator_type = arena.allocator_type /\ arena'.alignment = arena.alignment
           /\ arena'.pool_size = arena.pool_size /\ arena'.memory_block = arena.memory_block
           /\ arena'.snapshots = arena.snapshots,
           block' \in [BlockId -> Header],
           \A b \in BlockId : block'[b].next = block[b].next /\ block'[b].memory = block[b].memory,
           NEW n \in Nat, NEW c \in [1..n -> BlockId], NEW k \in 0..n,
           heap = {c[i] : i \in 1..n},
           \A i, j \in 1..n : c[i] = c[j] => i = j,
           \A i \in 1..n : block[c[i]].next = IF i = n THEN NoBlock ELSE c[i + 1],
           arena.memory_block = c[1],
           call' \in Locals, call'.at = "free", call'.op \in {"reset", "destroy", "unwind"},
           call'.block = IF k = n THEN NoBlock ELSE c[k + 1],
           /\ call'.op = "destroy" => k = 0
           /\ call'.op = "reset" => k = 1
           /\ call'.op = "unwind" => /\ k > 0 /\ arena'.top = c[k]
                                     /\ IsType("STACK") /\ arena.snapshots # <<>>
    PROVE  StepsInv'
<1>3. Open' /\ \A t : IsType(t)' <=> IsType(t)
  <2>1. arena.alignment # 0
    BY DEF StepsInv, TypeInv
  <2> QED
    BY <2>1 DEF Open, NoArena, IsType
<1>4. MapInv'
  BY MapFrame DEF StepsInv
<1>5. TypeInv'
  BY <1>3 DEF StepsInv, TypeInv
<1>6. CallInv'
  BY <1>3 DEF CallInv
<1>7. Pending' = {} /\ Pending = {}
  BY DEF Pending
<1>8. ChainInv'
  <2>1. k \in Nat /\ k + 1 \in Nat /\ k + 1 \in (k + 1)..(n + 1)
    OBVIOUS
  <2>2. (1..k) \cup ((k + 1)..n) = 1..n
    OBVIOUS
  <2>3. heap' = {c[i] : i \in (1..k) \cup ((k + 1)..n)}
    BY <2>2
  <2>4. FreedUpTo(c, n, k, k + 1)'
    <3>1. (k + 1 = n + 1) <=> (k = n)
      OBVIOUS
    <3> QED
      BY <3>1 DEF FreedUpTo
  <2>5. \A i \in 1..n : block'[c[i]].next = IF i = n THEN NoBlock ELSE c[i + 1]
    OBVIOUS
  <2>6. Chained(c, n, k, k + 1)'
    BY <1>7, <2>1, <2>3, <2>4, <2>5 DEF Chained
  <2> QED
    BY <2>1, <2>6 DEF ChainInv
<1>9. Paired'
  <2>1. Held' = Held /\ \A b \in Held : b \in BlockId
    BY <1>7 DEF Held, StepsInv, TypeInv
  <2> QED
    BY <2>1 DEF StepsInv, Paired, kernel
<1> QED
  BY <1>4, <1>5, <1>6, <1>8, <1>9 DEF StepsInv

\* The start of a reset keeps the invariant.
LEMMA ResetCallStep ==
    ASSUME StepsInv, ResetCall
    PROVE  StepsInv'
<1>1. CASE Crash("E201")
  BY <1>1, CrashStep
<1>2. CASE ~Crash("E201")
  <2>1. /\ TypeInv /\ call = NoCall /\ Open
        /\ block' = [block EXCEPT ![arena.memory_block].allocated = 0]
        /\ FreeFrom("reset", block[arena.memory_block].next)
        /\ UNCHANGED <<kernel, arena, heap>>
    BY <1>2 DEF ResetCall, Idle, StepsInv
  <2>2. PICK n \in Nat : \E c \in [1..n -> BlockId] :
              /\ WholeChain(c, n, 0, 1)
              /\ heap = {c[i] : i \in 1..n}
              /\ \A i, j \in 1..n : c[i] = c[j] => i = j
              /\ \A i \in 1..n : block[c[i]].next = IF i = n THEN NoBlock ELSE c[i + 1]
    BY <2>1, IdleChain DEF NoCall
  <2>3. PICK c \in [1..n -> BlockId] :
              /\ n > 0 /\ arena.memory_block = c[1]
              /\ heap = {c[i] : i \in 1..n}
              /\ \A i, j \in 1..n : c[i] = c[j] => i = j
              /\ \A i \in 1..n : block[c[i]].next = IF i = n THEN NoBlock ELSE c[i + 1]
    BY <2>1, <2>2 DEF WholeChain
  <2>4. PICK first : first = block[arena.memory_block].next
    OBVIOUS
  <2>5. 1 \in 1..n /\ 1 \in 0..n
    BY <2>3
  <2>6. first = IF 1 = n THEN NoBlock ELSE c[1 + 1]
    BY <2>3, <2>4, <2>5
  <2>7. arena.memory_block \in BlockId
    BY <2>3, <2>5
  <2>8. /\ block' \in [BlockId -> Header]
        /\ \A b \in BlockId : block'[b].next = block[b].next /\ block'[b].memory = block[b].memory
    <3>1. 0 \in Word /\ block \in [BlockId -> Header]
      BY <2>1, Constants DEF TypeInv
    <3> QED
      BY <2>1, <2>7, <3>1, FilledTo
  <2>9. /\ call.at = "idle"
        /\ call' \in Locals /\ call'.at = "free" /\ call'.op = "reset" /\ call'.block = first
    <3>1. first \in BlockId \cup {NoBlock}
      BY <2>1, <2>4, <2>7 DEF TypeInv, Header
    <3>2. FreeFrom("reset", first)
      BY <2>1, <2>4
    <3>3. call' \in Locals /\ call'.at = "free" /\ call'.op = "reset" /\ call'.block = first
      BY <3>1, <3>2, FreeFromLocals
    <3> QED
      BY <2>1, <3>3 DEF NoCall
  <2>10. arena' \in Handle
    BY <2>1 DEF TypeInv
  <2>11. call'.block = IF 1 = n THEN NoBlock ELSE c[1 + 1]
    BY <2>6, <2>9
  <2>12. /\ arena'.allocator_type = arena.allocator_type /\ arena'.alignment = arena.alignment
         /\ arena'.pool_size = arena.pool_size /\ arena'.memory_block = arena.memory_block
         /\ arena'.snapshots = arena.snapshots
    BY <2>1
  <2>13. PICK k \in 0..n : k = 1
    BY <2>5
  <2>14. call'.block = IF k = n THEN NoBlock ELSE c[k + 1]
    BY <2>11, <2>13
  <2>15. call'.op \in {"reset", "destroy", "unwind"} /\ call'.op # "destroy" /\ call'.op # "unwind"
    BY <2>9
  <2> QED
    BY <2>1, <2>3, <2>8, <2>9, <2>10, <2>12, <2>13, <2>14, <2>15, FreeLoopStart
<1> QED
  BY <1>1, <1>2

\* The start of a destroy keeps the invariant.
LEMMA DestroyCallStep ==
    ASSUME StepsInv, DestroyCall
    PROVE  StepsInv'
<1>1. CASE Crash("E201")
  BY <1>1, CrashStep
<1>2. CASE ~Crash("E201")
  <2>1. /\ TypeInv /\ call = NoCall /\ Open
        /\ FreeFrom("destroy", arena.memory_block)
        /\ UNCHANGED <<kernel, arena, heap, block>>
    BY <1>2 DEF DestroyCall, Idle, StepsInv
  <2>2. PICK n \in Nat : \E c \in [1..n -> BlockId] :
              /\ WholeChain(c, n, 0, 1)
              /\ heap = {c[i] : i \in 1..n}
              /\ \A i, j \in 1..n : c[i] = c[j] => i = j
              /\ \A i \in 1..n : block[c[i]].next = IF i = n THEN NoBlock ELSE c[i + 1]
    BY <2>1, IdleChain DEF NoCall
  <2>3. PICK c \in [1..n -> BlockId] :
              /\ n > 0 /\ arena.memory_block = c[1]
              /\ heap = {c[i] : i \in 1..n}
              /\ \A i, j \in 1..n : c[i] = c[j] => i = j
              /\ \A i \in 1..n : block[c[i]].next = IF i = n THEN NoBlock ELSE c[i + 1]
    BY <2>1, <2>2 DEF WholeChain
  <2>4. PICK first : first = arena.memory_block
    OBVIOUS
  <2>5. 0 \in 0..n /\ first = IF 0 = n THEN NoBlock ELSE c[0 + 1]
    BY <2>3, <2>4
  <2>6. /\ call.at = "idle"
        /\ call' \in Locals /\ call'.at = "free" /\ call'.op = "destroy" /\ call'.block = first
    <3>1. first \in BlockId \cup {NoBlock}
      BY <2>1, <2>4 DEF TypeInv, Handle
    <3>2. FreeFrom("destroy", first)
      BY <2>1, <2>4
    <3>3. call' \in Locals /\ call'.at = "free" /\ call'.op = "destroy" /\ call'.block = first
      BY <3>1, <3>2, FreeFromLocals
    <3> QED
      BY <2>1, <3>3 DEF NoCall
  <2>7. arena' \in Handle /\ block' \in [BlockId -> Header]
    BY <2>1 DEF TypeInv
  <2> QED
    BY <2>1, <2>3, <2>5, <2>6, <2>7, FreeLoopStart
<1> QED
  BY <1>1, <1>2

\* The last snapshot is one.
LEMMA LastSnapshot ==
    ASSUME TypeInv, arena.snapshots # <<>>
    PROVE  Last(arena.snapshots) \in Snapshot
<1>1. arena.snapshots \in Seq(Snapshot)
  BY DEF TypeInv, Handle
<1>2. Len(arena.snapshots) \in 1..Len(arena.snapshots)
  BY <1>1
<1> QED
  BY <1>1, <1>2 DEF Last

\* A recorded snapshot keeps the invariant.
LEMMA RecordCallStep ==
    ASSUME StepsInv, RecordCall
    PROVE  StepsInv'
<1>1. ASSUME NEW code, Crash(code) PROVE StepsInv'
  BY <1>1, CrashStep
<1>2. CASE /\ Open /\ IsType("STACK")
           /\ arena' = [arena EXCEPT
                 !.max_size = IF ArrayFull THEN 2 * @ ELSE @,
                 !.snapshots = Append(@, [top |-> arena.top,
                                          allocated |-> block[arena.top].allocated,
                                          capacity |-> block[arena.top].capacity])]
           /\ UNCHANGED <<state, kernel, heap, block, call, live>>
  <2>1. TypeInv /\ call = NoCall /\ call.at = "idle" /\ UNCHANGED <<kernel, heap, block, call>>
    BY <1>2 DEF StepsInv, RecordCall, Idle, NoCall
  <2>2. arena.top \in BlockId /\ block[arena.top] \in Header
    BY <1>2, <2>1, IdleFacts DEF TypeInv
  <2>3. PICK snapshot : snapshot = [top |-> arena.top,
                                    allocated |-> block[arena.top].allocated,
                                    capacity |-> block[arena.top].capacity]
    OBVIOUS
  <2>4. snapshot \in Snapshot
    BY <2>2, <2>3 DEF Snapshot, Header
  <2>5. PICK size : size = IF ArrayFull THEN 2 * arena.max_size ELSE arena.max_size
    OBVIOUS
  <2>6. arena \in Handle /\ size \in Nat /\ Append(arena.snapshots, snapshot) \in Seq(Snapshot)
    <3>1. arena.max_size \in Nat /\ arena.snapshots \in Seq(Snapshot)
      BY <2>1 DEF TypeInv, Handle
    <3> QED
      BY <2>1, <2>4, <2>5, <3>1 DEF TypeInv
  <2>7. arena' = [arena EXCEPT !.max_size = size, !.snapshots = Append(arena.snapshots, snapshot)]
    BY <1>2, <2>3, <2>5
  <2>8. /\ arena' \in Handle
        /\ arena'.allocator_type = arena.allocator_type /\ arena'.alignment = arena.alignment
        /\ arena'.pool_size = arena.pool_size /\ arena'.memory_block = arena.memory_block
        /\ arena'.top = arena.top
    BY <2>6, <2>7 DEF Handle
  <2>9. call' \in Locals /\ block' \in [BlockId -> Header] /\ call'.at = "idle" /\ call' = NoCall
    BY <2>1 DEF TypeInv
  <2> QED
    BY <1>2, <2>1, <2>8, <2>9, WalkStep
<1> QED
  BY <1>1, <1>2 DEF RecordCall

\* The start of an unwind keeps the invariant.
LEMMA UnwindCallStep ==
    ASSUME StepsInv, UnwindCall
    PROVE  StepsInv'
<1>1. ASSUME NEW code, Crash(code) PROVE StepsInv'
  BY <1>1, CrashStep
<1>2. CASE /\ UnwindError = "none" /\ Last(arena.snapshots).top \in heap
           /\ LET target == Last(arena.snapshots)
              IN  /\ arena' = [arena EXCEPT !.top = target.top]
                  /\ block' = [block EXCEPT ![target.top].capacity = target.capacity,
                                            ![target.top].allocated = target.allocated]
                  /\ FreeFrom("unwind", block[target.top].next)
           /\ UNCHANGED <<state, kernel, heap>>
  <2>1. PICK target : target = Last(arena.snapshots)
    OBVIOUS
  <2>2. /\ target.top \in heap
        /\ arena' = [arena EXCEPT !.top = target.top]
        /\ block' = [block EXCEPT ![target.top].capacity = target.capacity,
                                  ![target.top].allocated = target.allocated]
        /\ FreeFrom("unwind", block[target.top].next)
        /\ UNCHANGED <<kernel, heap>>
    BY <1>2, <2>1
  <2>3. /\ TypeInv /\ call = NoCall /\ call.at = "idle"
        /\ Open /\ IsType("STACK") /\ arena.snapshots # <<>>
    BY <1>2 DEF UnwindCall, Idle, NoCall, StepsInv, UnwindError
  <2>4. target \in Snapshot
    BY <2>1, <2>3, LastSnapshot
  <2>5. target.top \in BlockId /\ target.allocated \in Word /\ target.capacity \in 0..MmapLimit
    BY <2>4 DEF Snapshot
  <2>6. PICK n \in Nat : \E c \in [1..n -> BlockId] :
              /\ WholeChain(c, n, 0, 1)
              /\ heap = {c[i] : i \in 1..n}
              /\ \A i, j \in 1..n : c[i] = c[j] => i = j
              /\ \A i \in 1..n : block[c[i]].next = IF i = n THEN NoBlock ELSE c[i + 1]
    BY <2>3, IdleChain
  <2>7. PICK c \in [1..n -> BlockId] :
              /\ n > 0 /\ arena.memory_block = c[1]
              /\ heap = {c[i] : i \in 1..n}
              /\ \A i, j \in 1..n : c[i] = c[j] => i = j
              /\ \A i \in 1..n : block[c[i]].next = IF i = n THEN NoBlock ELSE c[i + 1]
    BY <2>3, <2>6 DEF WholeChain
  <2>8. PICK k \in 1..n : target.top = c[k]
    BY <2>2, <2>7
  <2>9. PICK first : first = block[target.top].next
    OBVIOUS
  <2>10. k \in 0..n /\ k > 0 /\ first = IF k = n THEN NoBlock ELSE c[k + 1]
    BY <2>7, <2>8, <2>9
  <2>11. /\ arena' \in Handle
         /\ arena'.allocator_type = arena.allocator_type /\ arena'.alignment = arena.alignment
         /\ arena'.pool_size = arena.pool_size /\ arena'.memory_block = arena.memory_block
         /\ arena'.snapshots = arena.snapshots /\ arena'.top = c[k]
    BY <2>2, <2>3, <2>5, <2>8 DEF TypeInv, Handle
  <2>12. /\ block' \in [BlockId -> Header]
         /\ \A b \in BlockId : block'[b].next = block[b].next /\ block'[b].memory = block[b].memory
    <3>1. PICK b \in BlockId : b = target.top
      BY <2>5
    <3>2. PICK h : h = [block[b] EXCEPT !.capacity = target.capacity, !.allocated = target.allocated]
      OBVIOUS
    <3>3. block \in [BlockId -> Header] /\ block[b] \in Header
      BY <2>3 DEF TypeInv
    <3>4. block' = [block EXCEPT ![b].capacity = target.capacity, ![b].allocated = target.allocated]
      BY <2>2, <3>1
    <3>5. block' = [block EXCEPT ![b] = h]
      BY <3>2, <3>3, <3>4
    <3>6. h \in Header /\ h.next = block[b].next /\ h.memory = block[b].memory
      BY <2>5, <3>2, <3>3 DEF Header
    <3>7. /\ block' \in [BlockId -> Header]
          /\ block'[b] = h
          /\ \A d \in BlockId \ {b} : block'[d] = block[d]
      BY <3>3, <3>5, <3>6, HeaderSet
    <3> QED
      BY <3>6, <3>7
  <2>13. call' \in Locals /\ call'.at = "free" /\ call'.op = "unwind" /\ call'.block = first
    <3>1. first \in BlockId \cup {NoBlock}
      BY <2>3, <2>5, <2>9 DEF TypeInv, Header
    <3>2. FreeFrom("unwind", first)
      BY <2>2, <2>9
    <3> QED
      BY <3>1, <3>2, FreeFromLocals
  <2>14. /\ call'.op = "destroy" => k = 0
         /\ call'.op = "reset" => k = 1
         /\ call'.op = "unwind" => /\ k > 0 /\ arena'.top = c[k]
                                   /\ IsType("STACK") /\ arena.snapshots # <<>>
    BY <2>3, <2>10, <2>11, <2>13
  <2>15. /\ call'.op \in {"reset", "destroy", "unwind"}
         /\ call'.block = IF k = n THEN NoBlock ELSE c[k + 1]
    BY <2>10, <2>13
  <2>16. call.at = "idle" /\ Open /\ UNCHANGED <<kernel, heap>> /\ k \in 0..n
    BY <2>2, <2>3, <2>10
  <2> QED
    BY <2>7, <2>11, <2>12, <2>13, <2>14, <2>15, <2>16, FreeLoopStart
<1> QED
  BY <1>1, <1>2 DEF UnwindCall

\* What the free loop has in hand.
LEMMA LoopChain ==
    ASSUME StepsInv, call.at = "free"
    PROVE  \E n, k, f \in Nat : \E c \in [1..n -> BlockId] :
              /\ f \in (k + 1)..(n + 1)
              /\ \A i, j \in 1..n : c[i] = c[j] => i = j
              /\ \A i \in 1..n : i < k \/ f <= i => block[c[i]].next = IF i = n THEN NoBlock ELSE c[i + 1]
              /\ heap = {c[i] : i \in (1..k) \cup (f..n)}
              /\ FreedUpTo(c, n, k, f)
<1>1. Pending = {}
  BY DEF Pending
<1>2. PICK n \in Nat, k \in Nat, f \in Nat : \E c \in [1..n -> BlockId] : Chained(c, n, k, f)
  BY DEF StepsInv, ChainInv
<1>3. PICK c \in [1..n -> BlockId] : Chained(c, n, k, f)
  BY <1>2
<1>4. /\ f \in (k + 1)..(n + 1)
      /\ \A i, j \in 1..n : c[i] = c[j] => i = j
      /\ \A i \in 1..n : i < k \/ f <= i => block[c[i]].next = IF i = n THEN NoBlock ELSE c[i + 1]
      /\ FreedUpTo(c, n, k, f)
  BY <1>3 DEF Chained
<1>5. heap = {c[i] : i \in (1..k) \cup (f..n)}
  BY <1>1, <1>3 DEF Chained
<1> QED
  BY <1>4, <1>5

\* The region of a header that has one.
LEMMA OwnRegion ==
    ASSUME Paired, NEW b \in Held
    PROVE  RegionOf(b) \in regions /\ RegionOf(b).ptr = block[b].memory
BY DEF Paired, RegionOf

\* Freeing one block keeps the invariant.
LEMMA FreeBlockStep ==
    ASSUME StepsInv, FreeBlock
    PROVE  StepsInv'
<1> DEFINE r == RegionOf(call.block)
<1>1. /\ TypeInv /\ CallInv /\ Paired /\ call.at = "free" /\ call.block # NoBlock
      /\ Memory!SafeAlignedFree(r) /\ arena' = arena
  BY DEF StepsInv, FreeBlock, At, RegionToFree
<1>2. PICK n \in Nat, k \in Nat, f \in Nat : \E c \in [1..n -> BlockId] :
              /\ f \in (k + 1)..(n + 1)
              /\ \A i, j \in 1..n : c[i] = c[j] => i = j
              /\ \A i \in 1..n : i < k \/ f <= i => block[c[i]].next = IF i = n THEN NoBlock ELSE c[i + 1]
              /\ heap = {c[i] : i \in (1..k) \cup (f..n)}
              /\ FreedUpTo(c, n, k, f)
  BY <1>1, LoopChain
<1>3. PICK c \in [1..n -> BlockId] :
              /\ f \in (k + 1)..(n + 1)
              /\ \A i, j \in 1..n : c[i] = c[j] => i = j
              /\ \A i \in 1..n : i < k \/ f <= i => block[c[i]].next = IF i = n THEN NoBlock ELSE c[i + 1]
              /\ heap = {c[i] : i \in (1..k) \cup (f..n)}
              /\ FreedUpTo(c, n, k, f)
  BY <1>2
<1>4. f # n + 1 /\ call.block = c[f]
  BY <1>1, <1>3 DEF FreedUpTo
<1>5. f \in 1..n /\ f \in f..n /\ k < f
  BY <1>3, <1>4
<1>6. PICK b \in BlockId : b = call.block
  BY <1>4, <1>5
<1>7. b \in heap /\ Pending = {} /\ Held = heap /\ b \in Held
  BY <1>1, <1>3, <1>4, <1>5, <1>6 DEF Pending, Held
<1>8. r \in regions /\ r.ptr = block[b].memory
  BY <1>1, <1>6, <1>7, OwnRegion
<1>9. MapInv' /\ state' = "running" /\ regions' = regions \ {r}
  BY <1>1, <1>8, FreeResult DEF StepsInv
<1> HIDE DEF r
<1>10. /\ heap' = heap \ {b}
       /\ block' = [block EXCEPT ![b] = Blank]
       /\ call' = [call EXCEPT !.block = block[b].next]
  BY <1>6, <1>9 DEF FreeBlock, NextToFree
<1>11. block[b].next = IF f = n THEN NoBlock ELSE c[f + 1]
  BY <1>3, <1>4, <1>5, <1>6
<1>12. Blank \in Header /\ Blank.next = NoBlock
  <2>1. 0 \in Word /\ 0 \in 0..MmapLimit
    BY Constants
  <2> QED
    BY <2>1 DEF Blank, Header
<1>13. /\ block' \in [BlockId -> Header]
       /\ block'[b] = Blank
       /\ \A d \in BlockId \ {b} : block'[d] = block[d]
  <2>1. block \in [BlockId -> Header]
    BY <1>1 DEF TypeInv
  <2> QED
    BY <1>10, <1>12, <2>1, HeaderSet
<1>14. /\ call' \in Locals /\ call'.at = "free" /\ call'.op = call.op
       /\ call'.block = IF f = n THEN NoBlock ELSE c[f + 1]
  <2>1. block[b].next \in BlockId \cup {NoBlock}
    BY <1>1 DEF TypeInv, Header
  <2> QED
    BY <1>1, <1>10, <1>11, <2>1 DEF TypeInv, Locals
<1>15. TypeInv'
  <2>1. IsFiniteSet(heap') /\ heap' \subseteq BlockId
    BY <1>1, <1>10, FS_RemoveElement DEF TypeInv
  <2>2. \A d \in BlockId \ heap' : block'[d].next = NoBlock
    BY <1>1, <1>10, <1>12, <1>13 DEF TypeInv
  <2> QED
    BY <1>1, <1>13, <1>14, <2>1, <2>2 DEF TypeInv, Open, IsType
<1>16. CallInv'
  BY <1>1, <1>14 DEF CallInv, Open, IsType
<1>17. Pending' = {} /\ Held' = Held \ {b}
  BY <1>7, <1>10, <1>14 DEF Pending, Held
<1>18. ChainInv'
  <2>1. f + 1 \in Nat /\ f + 1 \in (k + 1)..(n + 1)
    BY <1>5
  <2>2. \A i \in 1..n : i < k \/ f + 1 <= i => block'[c[i]].next = IF i = n THEN NoBlock ELSE c[i + 1]
    <3> SUFFICES ASSUME NEW i \in 1..n, i < k \/ f + 1 <= i
                 PROVE  block'[c[i]].next = IF i = n THEN NoBlock ELSE c[i + 1]
      OBVIOUS
    <3>1. i # f /\ (i < k \/ f <= i)
      BY <1>5
    <3>2. c[i] \in BlockId \ {b}
      BY <1>3, <1>4, <1>5, <1>6, <3>1
    <3> QED
      BY <1>3, <1>13, <3>1, <3>2
  <2>3. heap' = {c[i] : i \in (1..k) \cup ((f + 1)..n)}
    <3>1. \A i \in (1..k) \cup (f..n) : i \in 1..n
      BY <1>5
    <3>2. \A i \in (1..k) \cup (f..n) : c[i] # b <=> i # f
      BY <1>3, <1>4, <1>5, <1>6, <3>1
    <3>3. (1..k) \cup ((f + 1)..n) = ((1..k) \cup (f..n)) \ {f}
      BY <1>5
    <3> QED
      BY <1>3, <1>10, <3>2, <3>3
  <2>4. FreedUpTo(c, n, k, f + 1)'
    <3>1. (f + 1 = n + 1) <=> (f = n)
      BY <1>5
    <3> QED
      BY <1>1, <1>3, <1>14, <3>1 DEF FreedUpTo
  <2>5. Chained(c, n, k, f + 1)'
    BY <1>3, <1>14, <1>17, <2>1, <2>2, <2>3, <2>4 DEF Chained
  <2> QED
    BY <2>1, <2>5 DEF ChainInv
<1>19. Paired'
  <2>1. \A d \in Held' : d \in Held /\ d # b /\ block'[d].memory = block[d].memory
    BY <1>1, <1>13, <1>17 DEF Held, TypeInv
  <2> QED
    BY <1>1, <1>7, <1>8, <1>9, <1>17, <2>1 DEF Paired
<1> QED
  BY <1>9, <1>15, <1>16, <1>18, <1>19 DEF StepsInv

\* The arena the free loop leaves.
LEMMA LeftArena ==
    ASSUME TypeInv, CallInv, call.at = "free", arena' = ArenaAfterFree
    PROVE  /\ arena' \in Handle
           /\ call.op = "destroy" => arena' = NoArena
           /\ call.op # "destroy" =>
                /\ arena'.allocator_type = arena.allocator_type /\ arena'.alignment = arena.alignment
                /\ arena'.pool_size = arena.pool_size /\ arena'.memory_block = arena.memory_block
           /\ call.op = "reset" => arena'.top = IF IsType("STACK") THEN arena.memory_block ELSE arena.top
           /\ call.op = "unwind" => arena'.top = arena.top
<1>1. CASE call.op = "destroy"
  <2>1. arena' = NoArena
    BY <1>1 DEF ArenaAfterFree
  <2>2. 0 \in 0..AlignLimit /\ <<>> \in Seq(Snapshot) /\ 0 \in Nat
    BY Constants
  <2>3. NoArena \in Handle
    BY <2>2 DEF NoArena, Handle
  <2> QED
    BY <1>1, <2>1, <2>3
<1>2. CASE call.op = "reset"
  <2>1. PICK top : top = IF IsType("STACK") THEN arena.memory_block ELSE arena.top
    OBVIOUS
  <2>2. arena \in Handle /\ top \in BlockId \cup {NoBlock}
    BY <2>1 DEF TypeInv, Handle
  <2>3. arena' = [arena EXCEPT !.top = top]
    BY <1>2, <2>1 DEF ArenaAfterFree
  <2>4. /\ arena' \in Handle /\ arena'.top = top
        /\ arena'.allocator_type = arena.allocator_type /\ arena'.alignment = arena.alignment
        /\ arena'.pool_size = arena.pool_size /\ arena'.memory_block = arena.memory_block
    BY <2>2, <2>3 DEF Handle
  <2> QED
    BY <1>2, <2>1, <2>4
<1>3. CASE call.op = "unwind"
  <2>1. PICK size : size = IF Len(arena.snapshots) - 1 < arena.max_size \div 4
                           THEN arena.max_size \div 2 ELSE arena.max_size
    OBVIOUS
  <2>2. arena \in Handle /\ size \in Nat /\ Front(arena.snapshots) \in Seq(Snapshot)
    <3>1. arena.max_size \in Nat /\ arena.snapshots \in Seq(Snapshot) /\ arena \in Handle
      BY DEF TypeInv, Handle
    <3>2. size \in Nat
      BY <2>1, <3>1
    <3>3. arena.snapshots # <<>>
      BY <1>3 DEF CallInv
    <3>4. Front(arena.snapshots) \in Seq(Snapshot)
      BY <3>1, <3>3 DEF Front
    <3> QED
      BY <3>1, <3>2, <3>4
  <2>3. arena' = [arena EXCEPT !.snapshots = Front(arena.snapshots), !.max_size = size]
    BY <1>3, <2>1 DEF ArenaAfterFree
  <2>4. /\ arena' \in Handle /\ arena'.top = arena.top
        /\ arena'.allocator_type = arena.allocator_type /\ arena'.alignment = arena.alignment
        /\ arena'.pool_size = arena.pool_size /\ arena'.memory_block = arena.memory_block
    BY <2>2, <2>3 DEF Handle
  <2> QED
    BY <1>3, <2>4
<1> QED
  BY <1>1, <1>2, <1>3 DEF CallInv

\* The end of the free loop keeps the invariant.
LEMMA FreeReturnStep ==
    ASSUME StepsInv, FreeReturn
    PROVE  StepsInv'
<1>1. /\ TypeInv /\ CallInv /\ Paired /\ call.at = "free" /\ call.block = NoBlock
      /\ arena' = ArenaAfterFree /\ call' = NoCall
      /\ UNCHANGED <<kernel, heap>>
  BY DEF StepsInv, FreeReturn, At
<1>2. PICK n \in Nat, k \in Nat, f \in Nat : \E c \in [1..n -> BlockId] :
              /\ f \in (k + 1)..(n + 1)
              /\ \A i, j \in 1..n : c[i] = c[j] => i = j
              /\ \A i \in 1..n : i < k \/ f <= i => block[c[i]].next = IF i = n THEN NoBlock ELSE c[i + 1]
              /\ heap = {c[i] : i \in (1..k) \cup (f..n)}
              /\ FreedUpTo(c, n, k, f)
  BY <1>1, LoopChain
<1>3. PICK c \in [1..n -> BlockId] :
              /\ f \in (k + 1)..(n + 1)
              /\ \A i, j \in 1..n : c[i] = c[j] => i = j
              /\ \A i \in 1..n : i < k \/ f <= i => block[c[i]].next = IF i = n THEN NoBlock ELSE c[i + 1]
              /\ heap = {c[i] : i \in (1..k) \cup (f..n)}
              /\ FreedUpTo(c, n, k, f)
  BY <1>2
<1>4. f = n + 1
  <2>1. f # n + 1 => f \in 1..n /\ c[f] = NoBlock
    BY <1>1, <1>3 DEF FreedUpTo
  <2> QED
    BY <2>1, BlockAssumption
<1>5. k \in 0..n /\ (1..k) \cup (f..n) = 1..k /\ \A i \in 1..k : i \in 1..n
  BY <1>3, <1>4
<1>6. heap = {c[i] : i \in 1..k}
  BY <1>3, <1>5
<1>7. /\ call.op \in {"reset", "destroy", "unwind"}
      /\ call.op = "destroy" => k = 0
      /\ call.op = "reset" => k = 1 /\ arena.memory_block = c[1]
      /\ call.op = "unwind" => k > 0 /\ arena.memory_block = c[1] /\ arena.top = c[k] /\ IsType("STACK")
  BY <1>1, <1>3 DEF FreedUpTo, CallInv
<1>8. /\ arena' \in Handle
      /\ call.op = "destroy" => arena' = NoArena
      /\ call.op # "destroy" =>
           /\ arena'.allocator_type = arena.allocator_type /\ arena'.alignment = arena.alignment
           /\ arena'.pool_size = arena.pool_size /\ arena'.memory_block = arena.memory_block
      /\ call.op = "reset" => arena'.top = IF IsType("STACK") THEN arena.memory_block ELSE arena.top
      /\ call.op = "unwind" => arena'.top = arena.top
  BY <1>1, LeftArena
<1>9. call'.at = "idle" /\ call' \in Locals
  BY <1>1, NoCallType DEF NoCall
<1>10. /\ Open' <=> k > 0
       /\ Open' => arena'.alignment # 0
       /\ IsType("POOL")' => arena'.pool_size # 0
       /\ Open' => arena'.memory_block = c[1]
       /\ Open' /\ IsType("STACK")' => \E i \in 1..k : arena'.top = c[i]
  <2>1. CASE call.op = "destroy"
    BY <1>5, <1>7, <1>8, <2>1 DEF Open, NoArena, IsType
  <2>2. CASE call.op # "destroy"
    <3>1. k > 0 /\ arena.memory_block = c[1] /\ 1 \in 1..k /\ k \in 1..k
      BY <1>7, <2>2
    <3>2. arena.alignment # 0 /\ (IsType("POOL") => arena.pool_size # 0)
      BY <1>1 DEF TypeInv, CallInv
    <3>3. arena'.alignment # 0 /\ Open'
      BY <1>8, <2>2, <3>2 DEF Open, NoArena
    <3>4. IsType("POOL")' => arena'.pool_size # 0
      BY <1>8, <2>2, <3>2 DEF IsType
    <3>5. IsType("STACK")' => \E i \in 1..k : arena'.top = c[i]
      BY <1>7, <1>8, <2>2, <3>1 DEF IsType
    <3> QED
      BY <1>8, <2>2, <3>1, <3>3, <3>4, <3>5
  <2> QED
    BY <2>1, <2>2
<1>11. /\ block' \in [BlockId -> Header]
       /\ \A b \in BlockId : block'[b].memory = block[b].memory
       /\ \A b \in BlockId : block'[b].next = IF k > 0 /\ b = c[k] THEN NoBlock ELSE block[b].next
  <2>1. block \in [BlockId -> Header]
    BY <1>1 DEF TypeInv
  <2>2. CASE call.op = "destroy"
    <3>1. block' = block
      BY <2>2 DEF FreeReturn
    <3> QED
      BY <1>7, <2>1, <2>2, <3>1
  <2>3. CASE call.op # "destroy"
    <3>1. k > 0 /\ k \in 1..n
      BY <1>5, <1>7, <2>3
    <3>2. PICK last \in BlockId : last = c[k]
      BY <3>1
    <3>3. block' = [block EXCEPT ![last].next = NoBlock]
      BY <1>7, <2>3, <3>2 DEF FreeReturn, Unlinked
    <3> QED
      BY <2>1, <3>1, <3>2, <3>3 DEF Header
  <2> QED
    BY <2>2, <2>3
<1>12. MapInv'
  BY <1>1, MapFrame DEF StepsInv
<1>13. TypeInv'
  <2>1. \A b \in BlockId \ heap' : block'[b].next = NoBlock
    BY <1>1, <1>11 DEF TypeInv
  <2> QED
    BY <1>1, <1>8, <1>9, <1>10, <1>11, <2>1 DEF TypeInv
<1>14. CallInv'
  BY <1>1, <1>9 DEF CallInv
<1>15. Pending' = {} /\ Pending = {}
  BY <1>1, <1>9 DEF Pending
<1>16. ChainInv'
  <2> DEFINE e == [i \in 1..k |-> c[i]]
  <2>1. e \in [1..k -> BlockId] /\ \A i \in 1..k : e[i] = c[i]
    BY <1>5
  <2> HIDE DEF e
  <2>2. WholeChain(e, k, 0, 1)'
    <3>1. k > 0 => 1 \in 1..k
      BY <1>5
    <3> QED
      BY <1>9, <1>10, <2>1, <3>1 DEF WholeChain
  <2>3. \A i \in 1..k : block'[e[i]].next = IF i = k THEN NoBlock ELSE e[i + 1]
    <3> SUFFICES ASSUME NEW i \in 1..k
                 PROVE  block'[e[i]].next = IF i = k THEN NoBlock ELSE e[i + 1]
      OBVIOUS
    <3>1. i \in 1..n /\ k \in 1..n /\ k > 0 /\ e[i] = c[i] /\ c[i] \in BlockId
      BY <1>5, <2>1
    <3>2. CASE i = k
      BY <1>11, <3>1, <3>2
    <3>3. CASE i # k
      <4>1. i < k /\ i + 1 \in 1..k /\ i # n
        BY <1>5, <3>3
      <4>2. c[i] # c[k] /\ e[i + 1] = c[i + 1]
        BY <1>3, <2>1, <3>1, <3>3, <4>1
      <4> QED
        BY <1>3, <1>11, <3>1, <3>3, <4>1, <4>2
    <3> QED
      BY <3>2, <3>3
  <2>4. (1..0) \cup (1..k) = 1..k /\ 1 \in (0 + 1)..(k + 1) /\ 0 \in Nat /\ 1 \in Nat
    OBVIOUS
  <2>5. heap' = {e[i] : i \in (1..0) \cup (1..k)}
    BY <1>1, <1>6, <2>1, <2>4
  <2>6. \A i, j \in 1..k : e[i] = e[j] => i = j
    BY <1>3, <1>5, <2>1
  <2>7. Chained(e, k, 0, 1)'
    BY <1>9, <1>15, <2>2, <2>3, <2>4, <2>5, <2>6 DEF Chained
  <2> QED
    BY <2>1, <2>4, <2>7 DEF ChainInv
<1>17. Paired'
  <2>1. Held' = Held /\ \A b \in Held : b \in BlockId
    BY <1>1, <1>15 DEF Held, TypeInv
  <2> QED
    BY <1>1, <1>11, <2>1 DEF Paired, kernel
<1> QED
  BY <1>12, <1>13, <1>14, <1>16, <1>17 DEF StepsInv

-------------------------------------------------------------------------------
(* The theorems about every client.                                          *)

\* The initial state is as it should be.
LEMMA StepsInit ==
    ASSUME Init
    PROVE  StepsInv
<1>1. /\ arena = NoArena /\ heap = {} /\ block = [b \in BlockId |-> Blank] /\ call = NoCall
      /\ regions = {} /\ MapInv
  BY MapFrame DEF Init, Memory!Init
<1>2. ~Open /\ ~IsType("STACK") /\ ~IsType("POOL") /\ call.at = "idle"
  BY <1>1 DEF Open, IsType, NoArena, NoCall
<1>3. TypeInv
  <2>1. 0 \in 0..AlignLimit /\ 0 \in 0..MmapLimit /\ 0 \in Word /\ 0 \in Nat
    BY Constants
  <2>2. arena \in Handle
    <3>1. <<>> \in Seq(Snapshot)
      OBVIOUS
    <3> QED
      BY <1>1, <2>1, <3>1 DEF NoArena, Handle
  <2>3. block \in [BlockId -> Header] /\ \A b \in BlockId : block[b].next = NoBlock
    BY <1>1, <2>1 DEF Blank, Header
  <2>4. IsFiniteSet(heap)
    BY <1>1, FS_EmptySet
  <2> QED
    BY <1>1, <1>2, <2>2, <2>3, <2>4, NoCallType DEF TypeInv
<1>4. CallInv
  BY <1>1, <1>2 DEF CallInv
<1>5. Pending = {} /\ Held = {}
  BY <1>1, <1>2 DEF Pending, Held
<1>6. ChainInv
  <2> DEFINE c == [i \in 1..0 |-> NoBlock]
  <2>1. c \in [1..0 -> BlockId]
    OBVIOUS
  <2>2. WholeChain(c, 0, 0, 1)
    BY <1>2 DEF WholeChain
  <2>3. heap = {c[i] : i \in (1..0) \cup (1..0)}
    BY <1>1
  <2> HIDE DEF c
  <2>4. Chained(c, 0, 0, 1)
    BY <1>2, <2>2, <2>3 DEF Chained
  <2>5. 0 \in Nat /\ 1 \in Nat
    OBVIOUS
  <2> QED
    BY <2>1, <2>4, <2>5 DEF ChainInv
<1>7. Paired
  BY <1>1, <1>5 DEF Paired
<1> QED
  BY <1>1, <1>3, <1>4, <1>6, <1>7 DEF StepsInv

\* Every step keeps the invariant.
LEMMA StepsNext ==
    ASSUME StepsInv, [Next]_svars
    PROVE  StepsInv'
<1>1. CASE UNCHANGED svars
  BY <1>1, QuietStep DEF svars
<1>2. CASE Call
  <2>1. ASSUME NEW type \in Types, NEW a \in Alignments, NEW size \in InitialSizes,
               Create(type, a, size)
        PROVE  StepsInv'
    BY <2>1, CreateStep
  <2>2. ASSUME NEW size \in Requests, AllocCall(size) PROVE StepsInv'
    BY <2>2, AllocCallStep
  <2> QED
    BY <1>2, <2>1, <2>2, ResetCallStep, DestroyCallStep, RecordCallStep, UnwindCallStep DEF Call
<1>3. CASE Step
  BY <1>3, TakeStep, RefuseScratchStep, AdvanceStep, MallocHeaderStep, MapAppendedStep,
     MapPushedStep, FreeBlockStep, FreeReturnStep DEF Step
<1> QED
  BY <1>1, <1>2, <1>3 DEF Next

\* Every reachable state, in the middle of a call too, has a chain with its
\* headers and regions in order.
THEOREM StepsInvariance == Spec => []StepsInv
BY StepsInit, StepsNext, PTL DEF Spec

\* At every step of every call, and for every client, the headers malloc'd and the
\* regions not yet passed to safe_aligned_free are paired one to one: in the loops
\* of alloc, reset, unwind and destroy no header is freed without its region, no
\* region without its header, and neither twice.  What munmap makes of the regions
\* passed on is not part of it.
THEOREM RegionsPaired == Spec => []BlocksOwnRegions
<1>1. StepsInv => BlocksOwnRegions
  <2> SUFFICES ASSUME StepsInv
               PROVE  BlocksOwnRegions
    OBVIOUS
  <2>1. Paired /\ IsFiniteSet(heap)
    BY DEF StepsInv, TypeInv
  <2>2. {block[b].memory : b \in Held} = {r.ptr : r \in regions}
    BY <2>1 DEF Paired
  <2>3. IsFiniteSet(Held)
    BY <2>1, FS_Difference DEF Held
  <2> DEFINE own == [b \in Held |-> RegionOf(b)]
  <2>4. \A b \in Held : RegionOf(b) \in regions /\ RegionOf(b).ptr = block[b].memory
    BY <2>1, OwnRegion
  <2>5. own \in [Held -> regions] /\ \A b \in Held : own[b].ptr = block[b].memory
    BY <2>4
  <2> HIDE DEF own
  <2>6. \A b, d \in Held : own[b] = own[d] => b = d
    BY <2>1, <2>5 DEF Paired
  <2>7. \A r \in regions : \E b \in Held : own[b] = r
    BY <2>1, <2>5 DEF Paired
  <2>8. own \in Bijection(Held, regions)
    BY <2>5, <2>6, <2>7, Fun_IsBij
  <2>9. Cardinality(Held) = Cardinality(regions)
    BY <2>3, <2>8, FS_Bijection, Fun_ExistsBij
  <2> QED
    BY <2>2, <2>9 DEF BlocksOwnRegions, Held, Pending
<1> QED
  BY <1>1, StepsInvariance, PTL

\* Between calls no next pointer is left on a freed header, whatever was
\* freed: reset, unwind and destroy clear the pointer their loop started from.
THEOREM NextPointersLive == Spec => []NoDanglingNext
<1>1. StepsInv => NoDanglingNext
  BY IdleFacts DEF NoDanglingNext, NoCall
<1> QED
  BY <1>1, StepsInvariance, PTL

-------------------------------------------------------------------------------
(* What is handed out.                                                       *)

\* A step that hands nothing out and fills no block.
LEMMA DataKept ==
    ASSUME StepsInv, StepsInv', RegionsInv, LiveInv, UNCHANGED arena,
           regions' \subseteq regions, Held' \subseteq Held,
           \A b \in Held' :
              /\ block'[b].memory = block[b].memory /\ block'[b].capacity = block[b].capacity
              /\ block'[b].allocated = block[b].allocated \/ block'[b].allocated = 0,
           \/ live' = {}
           \/ /\ live' = live
              /\ call'.at = "free" => call.at = "free" /\ call'.op = call.op
              /\ \/ IsType("STACK")
                 \/ /\ Held' = Held
                    /\ \A b \in Held : block'[b].allocated = block[b].allocated
    PROVE  RegionsInv' /\ LiveInv'
<1>1. (Open' <=> Open) /\ \A t : IsType(t)' <=> IsType(t)
  BY DEF Open, IsType
<1>2. RegionsInv'
  <2> SUFFICES ASSUME ~IsType("STACK"), NEW b \in Held'
               PROVE  /\ block'[b].allocated <= block'[b].capacity
                      /\ block'[b].memory + block'[b].capacity <= SpaceEnd
                      /\ block'[b].memory % arena'.alignment = 0
                      /\ \A r \in regions' : r.ptr = block'[b].memory => r.size = block'[b].capacity
    BY <1>1 DEF RegionsInv
  <2>1. b \in Held /\ b \in BlockId
    BY DEF Held, StepsInv, TypeInv
  <2>2. block[b].capacity \in Nat
    <3>1. block[b] \in Header
      BY <2>1 DEF StepsInv, TypeInv
    <3> QED
      BY <3>1, Constants DEF Header
  <2>3. block'[b].allocated <= block'[b].capacity
    BY <2>1, <2>2 DEF RegionsInv
  <2> QED
    BY <2>1, <2>3 DEF RegionsInv
<1>3. Cleared' => live' = {}
  BY <1>1 DEF Cleared, LiveInv
<1>4. ASSUME ~IsType("STACK"), NEW g \in live'
      PROVE  /\ g.block \in Held' /\ g.lo \in Nat /\ g.size \in Nat
             /\ g.lo + g.size <= block'[g.block].allocated
             /\ (block'[g.block].memory + g.lo) % arena'.alignment = 0
  BY <1>4 DEF LiveInv
<1> QED
  BY <1>1, <1>2, <1>3, <1>4 DEF LiveInv

\* A step of a stack.
LEMMA StackData ==
    ASSUME IsType("STACK")', Open', call'.at # "free" \/ call'.op # "destroy"
    PROVE  RegionsInv' /\ LiveInv'
BY DEF RegionsInv, LiveInv, Cleared

\* A step after which no call looks for room.
LEMMA NeedIdle ==
    ASSUME call'.at \notin {"visit", "map"}
    PROVE  NeedInv'
BY DEF NeedInv

\* An abort leaves everything as it is.
LEMMA QuietData ==
    ASSUME DataInv, UNCHANGED <<kernel, arena, heap, block, call, live>>
    PROVE  DataInv'
<1>1. Held' = Held /\ (Open' <=> Open) /\ \A t : IsType(t)' <=> IsType(t)
  BY DEF Held, Pending, Open, IsType
<1>2. RegionsInv'
  BY <1>1 DEF DataInv, RegionsInv, kernel
<1>3. NeedInv'
  BY DEF DataInv, NeedInv
<1>4. LiveInv'
  BY <1>1 DEF DataInv, LiveInv, Cleared
<1> QED
  BY <1>2, <1>3, <1>4 DEF DataInv

\* A new block is as the data invariant says.
LEMMA CreateData ==
    ASSUME StepsInv, StepsInv', DataInv,
           NEW type \in Types, NEW a \in Alignments, NEW size \in InitialSizes,
           Create(type, a, size)
    PROVE  DataInv'
<1>1. ASSUME NEW code, Crash(code) PROVE DataInv'
  BY <1>1, QuietData DEF Crash, Memory!Crash, kernel
<1>2. CASE /\ Memory!SafeAlignedAlloc(AlignUp(size, a), a)
           /\ state' # "running" /\ UNCHANGED <<arena, heap, block, call, live>>
  BY <1>2, AllocCrash, QuietData
<1>3. CASE /\ ArgumentError(type, a, size) = "none"
           /\ Memory!SafeAlignedAlloc(AlignUp(size, a), a)
           /\ state' = "running" /\ UNCHANGED <<call, live>>
           /\ \E head \in BlockId :
                /\ heap' = {head}
                /\ block' = [block EXCEPT ![head] =
                      [Blank EXCEPT !.memory = NewPointer, !.capacity = AlignUp(size, a)]]
                /\ arena' = [NoArena EXCEPT
                      !.allocator_type = type, !.alignment = a, !.memory_block = head,
                      !.pool_size = IF type = "POOL" THEN size ELSE 0,
                      !.top = IF type = "STACK" THEN head ELSE NoBlock,
                      !.max_size = IF type = "STACK" THEN InitialSlots ELSE 0]
  <2> DEFINE capacity == AlignUp(size, a)
  <2>1. Idle /\ ~Open /\ call = NoCall
    BY DEF Create, Idle
  <2>2. /\ a \in 1..AlignLimit /\ capacity \in Nat
        /\ \E p \in Nat : /\ regions' = {[ptr |-> p, size |-> capacity, alignment |-> a]}
                          /\ NewPointer = p
                          /\ p % a = 0
                          /\ p + capacity <= SpaceEnd
    BY <1>3, <2>1, CreateResult
  <2> HIDE DEF capacity
  <2>3. PICK p \in Nat : /\ regions' = {[ptr |-> p, size |-> capacity, alignment |-> a]}
                         /\ NewPointer = p
                         /\ p % a = 0
                         /\ p + capacity <= SpaceEnd
    BY <2>2
  <2>4. PICK head \in BlockId :
                /\ heap' = {head}
                /\ block' = [block EXCEPT ![head] = [Blank EXCEPT !.memory = p, !.capacity = capacity]]
                /\ arena'.alignment = a
    BY <1>3, <2>3 DEF capacity, NoArena
  <2>5. block' = [block EXCEPT ![head] = [memory |-> p, next |-> NoBlock, capacity |-> capacity,
                                          allocated |-> 0]]
    BY <2>4, FilledHeader
  <2>6. block'[head].memory = p /\ block'[head].capacity = capacity /\ block'[head].allocated = 0
    <3>1. DOMAIN block = BlockId
      BY DEF StepsInv, TypeInv
    <3> QED
      BY <2>5, <3>1
  <2>7. call'.at = "idle" /\ Held' = {head}
    BY <1>3, <2>1, <2>4 DEF NoCall, Held, Pending
  <2>8. live' = {}
    BY <1>3, <2>1 DEF DataInv, LiveInv, Cleared
  <2>9. RegionsInv'
    <3>1. \A r \in regions' : r.size = capacity
      BY <2>3
    <3>2. 0 <= capacity
      BY <2>2
    <3> QED
      BY <2>3, <2>4, <2>6, <2>7, <3>1, <3>2 DEF RegionsInv
  <2>10. NeedInv' /\ LiveInv'
    BY <2>7, <2>8, NeedIdle DEF LiveInv
  <2> QED
    BY <2>9, <2>10 DEF DataInv
<1> QED
  BY <1>1, <1>2, <1>3 DEF Create

\* A request that fits, rounded up to whole pools, covers what was asked for.
LEMMA NeedCovers ==
    ASSUME RequestsFit, TypeInv, NEW size \in Requests
    PROVE  size <= BytesNeeded(size) /\ BytesNeeded(size) + arena.alignment < WordMod
<1>1. /\ size \in Word /\ size \in Nat /\ WordMod \in Nat /\ AlignLimit \in Nat
      /\ arena.alignment \in Nat /\ arena.alignment <= AlignLimit
  <2>1. arena.alignment \in 0..AlignLimit
    BY DEF TypeInv, Handle
  <2>2. size \in Word
    BY InputAssumption
  <2> QED
    BY <2>1, <2>2, Constants
<1>2. CASE ~IsType("POOL")
  <2>1. size + 0 + AlignLimit < WordMod
    BY DEF RequestsFit
  <2>2. BytesNeeded(size) = size
    BY <1>2 DEF BytesNeeded
  <2> QED
    BY <1>1, <2>1, <2>2
<1>3. CASE IsType("POOL")
  <2> DEFINE pool == arena.pool_size
             whole == (size \div pool) * pool
  <2>1. pool \in Word \ {0} /\ pool \in InitialSizes
    BY <1>3, InputAssumption DEF TypeInv, Handle
  <2>2. size + pool + AlignLimit < WordMod
    BY <2>1 DEF RequestsFit
  <2>3. whole \in Word /\ whole <= size /\ size < whole + pool
    BY <1>1, <2>1, WholePools
  <2>4. BytesNeeded(size) = IF whole < size THEN AddW(whole, pool) ELSE whole
    BY <1>3 DEF BytesNeeded
  <2> HIDE DEF pool, whole
  <2>5. pool \in Nat /\ whole \in Nat
    BY <2>1, <2>3, Constants
  <2>6. AddW(whole, pool) = whole + pool
    BY <1>1, <2>2, <2>3, <2>5 DEF AddW
  <2> QED
    BY <1>1, <2>2, <2>3, <2>4, <2>5, <2>6
<1> QED
  BY <1>2, <1>3

\* The start of an allocation.
LEMMA AllocCallData ==
    ASSUME RequestsFit, StepsInv, StepsInv', DataInv, NEW size \in Requests, AllocCall(size)
    PROVE  DataInv'
<1>1. ASSUME NEW code, Crash(code) PROVE DataInv'
  BY <1>1, QuietData DEF Crash, Memory!Crash, kernel
<1>2. CASE /\ call' = [NoCall EXCEPT
                 !.at = "visit", !.op = "alloc", !.size = size, !.need = BytesNeeded(size),
                 !.block = IF IsType("STACK") THEN arena.top ELSE arena.memory_block]
           /\ UNCHANGED <<state, kernel, arena, heap, block, live>>
  <2>1. call'.at = "visit" /\ call'.size = size /\ call'.need = BytesNeeded(size) /\ call.at = "idle"
    BY <1>2 DEF NoCall, AllocCall, Idle
  <2>2. Held' = Held
    BY <1>2, <2>1 DEF Held, Pending
  <2>3. RegionsInv' /\ LiveInv'
    BY <1>2, <2>1, <2>2, DataKept DEF DataInv, kernel
  <2>4. NeedInv'
    <3>1. TypeInv
      BY DEF StepsInv
    <3> QED
      BY <1>2, <2>1, <3>1, NeedCovers DEF NeedInv
  <2> QED
    BY <2>3, <2>4 DEF DataInv
<1> QED
  BY <1>1, <1>2 DEF AllocCall

\* Where the bytes taken of a block start and end.
LEMMA TakenPiece ==
    ASSUME StepsInv, DataInv, Take, ~IsType("STACK")
    PROVE  LET b == call.block
               lo == SubW(AlignedAddress(b), block[b].memory)
           IN  /\ b \in Held /\ block[b].allocated <= lo /\ lo \in Nat
               /\ call.size \in Nat /\ call.size <= call.need
               /\ AddW(block[b].allocated, BytesTaken(b)) = lo + call.need
               /\ lo + call.need <= block[b].capacity
               /\ (block[b].memory + lo) % arena.alignment = 0
<1> DEFINE b == call.block
           memory == block[b].memory
           allocated == block[b].allocated
           capacity == block[b].capacity
           a == arena.alignment
           need == call.need
           current == CurrentAddress(b)
           aligned == AlignedAddress(b)
<1>1. TypeInv /\ CallInv /\ call.at = "visit" /\ HasRoom(b)
  BY DEF StepsInv, Take, At
<1>2. b \in heap /\ Held = heap /\ b \in BlockId /\ block[b] \in Header
  BY <1>1, IdleFacts DEF TypeInv
<1>3. /\ memory \in Nat /\ allocated \in Nat /\ capacity \in Nat
      /\ call.size \in Nat /\ need \in Nat
  <2>1. memory \in Word /\ allocated \in Word /\ capacity \in 0..MmapLimit
    BY <1>2 DEF Header
  <2>2. call.size \in Word /\ need \in Word
    BY <1>1 DEF TypeInv, Locals
  <2>3. Word \subseteq Nat /\ 0..MmapLimit \subseteq Nat
    BY Constants
  <2> HIDE DEF memory, allocated, capacity, need
  <2>4. memory \in Nat /\ allocated \in Nat /\ capacity \in Nat
    BY <2>1, <2>3
  <2> QED
    BY <2>2, <2>3, <2>4
<1>4. allocated <= capacity /\ memory + capacity <= SpaceEnd
  BY <1>2 DEF DataInv, RegionsInv
<1>5. call.size <= need /\ need + a < WordMod
  BY <1>1 DEF DataInv, NeedInv
<1>6. a \in Nat \ {0} /\ a <= AlignLimit /\ a \in Word \ {0}
  <2>1. a \in 0..AlignLimit /\ a # 0
    BY <1>1 DEF TypeInv, CallInv, Handle
  <2> QED
    BY <2>1, Constants
<1>7. current = AddW(memory, allocated) /\ aligned = AlignUp(current, a)
  BY DEF CurrentAddress, AlignedAddress
<1>8. AddW(need, SubW(aligned, current)) <= SubW(capacity, allocated)
  BY <1>1 DEF HasRoom, BytesTaken
<1>9. BytesTaken(b) = AddW(need, SubW(aligned, current))
  BY DEF BytesTaken
<1> HIDE DEF b, memory, allocated, capacity, a, need, current, aligned
<1>10. WordMod \in Nat /\ SpaceEnd \in Nat /\ AlignLimit \in Nat /\ SpaceEnd + AlignLimit < WordMod
  BY Constants
<1>11. current = memory + allocated /\ current \in Nat /\ current + a < WordMod
  BY <1>3, <1>4, <1>6, <1>7, <1>10 DEF AddW
<1>12. current \in Word
  BY <1>6, <1>10, <1>11, Constants
<1>13. aligned \in current..(current + a - 1) /\ aligned % a = 0
  BY <1>6, <1>7, <1>11, <1>12, AlignUpNoWrap
<1>14. aligned \in Nat /\ current <= aligned /\ aligned < current + a
  BY <1>6, <1>11, <1>13
<1>15. SubW(aligned, current) = aligned - current /\ aligned - current \in Nat /\ aligned - current < a
  BY <1>6, <1>11, <1>14 DEF SubW
<1>16. AddW(need, SubW(aligned, current)) = need + (aligned - current)
  BY <1>3, <1>5, <1>6, <1>10, <1>15 DEF AddW
<1>17. SubW(capacity, allocated) = capacity - allocated
  BY <1>3, <1>4 DEF SubW
<1>18. need + (aligned - current) <= capacity - allocated
  BY <1>8, <1>16, <1>17
<1>19. SubW(aligned, memory) = aligned - memory /\ aligned - memory \in Nat
       /\ allocated <= aligned - memory
  BY <1>3, <1>11, <1>14 DEF SubW
<1>20. /\ (aligned - memory) + need <= capacity
       /\ allocated + (need + (aligned - current)) = (aligned - memory) + need
       /\ memory + (aligned - memory) = aligned
  BY <1>3, <1>11, <1>14, <1>18
<1>21. capacity < WordMod
  BY <1>3, <1>4, <1>10
<1>22. AddW(allocated, AddW(need, SubW(aligned, current))) = (aligned - memory) + need
  BY <1>3, <1>10, <1>11, <1>14, <1>16, <1>20, <1>21 DEF AddW
<1>23. /\ b \in Held /\ allocated <= SubW(aligned, memory) /\ SubW(aligned, memory) \in Nat
       /\ call.size \in Nat /\ call.size <= need
  BY <1>2, <1>3, <1>5, <1>19
<1>24. /\ AddW(allocated, BytesTaken(b)) = SubW(aligned, memory) + need
       /\ SubW(aligned, memory) + need <= capacity
  BY <1>9, <1>19, <1>20, <1>22
<1>25. (memory + SubW(aligned, memory)) % a = 0
  BY <1>13, <1>19, <1>20
<1> QED
  BY <1>23, <1>24, <1>25
     DEF b, memory, allocated, capacity, a, need, current, aligned

\* Taking bytes of a block.
LEMMA TakeData ==
    ASSUME StepsInv, StepsInv', DataInv, Take
    PROVE  DataInv'
<1>1. /\ TypeInv /\ CallInv /\ call.at = "visit" /\ call' = NoCall
      /\ UNCHANGED <<kernel, arena, heap>>
  BY DEF StepsInv, Take, At
<1>2. call'.at = "idle" /\ NeedInv'
  BY <1>1, NeedIdle DEF NoCall
<1>3. Open /\ Open' /\ \A t : IsType(t)' <=> IsType(t)
  BY <1>1 DEF CallInv, Open, IsType
<1>4. CASE IsType("STACK")
  <2>1. RegionsInv' /\ LiveInv'
    BY <1>2, <1>3, <1>4, StackData
  <2> QED
    BY <1>2, <2>1 DEF DataInv
<1>5. CASE ~IsType("STACK")
  <2>1. PICK b, lo, level : /\ b = call.block
                            /\ lo = SubW(AlignedAddress(b), block[b].memory)
                            /\ level = AddW(block[b].allocated, BytesTaken(b))
    OBVIOUS
  <2>2. /\ b \in Held /\ block[b].allocated <= lo /\ lo \in Nat
        /\ call.size \in Nat /\ call.size <= call.need
        /\ level = lo + call.need
        /\ level <= block[b].capacity
        /\ (block[b].memory + lo) % arena.alignment = 0
    BY <1>5, <2>1, TakenPiece
  <2>3. /\ block' = [block EXCEPT ![b].allocated = level]
        /\ live' = live \cup {[block |-> b, lo |-> lo, size |-> call.size,
                               depth |-> Len(arena.snapshots)]}
    BY <2>1 DEF Take, Hand
  <2>4. Held' = Held /\ \A d \in Held : d \in BlockId /\ block[d] \in Header
    BY <1>1, <1>2 DEF Held, Pending, TypeInv
  <2>5. \A d \in Held : /\ block'[d].memory = block[d].memory
                        /\ block'[d].capacity = block[d].capacity
                        /\ block'[d].allocated = IF d = b THEN level ELSE block[d].allocated
    <3>1. block \in [BlockId -> Header]
      BY <1>1 DEF TypeInv
    <3> QED
      BY <2>2, <2>3, <2>4, <3>1 DEF Header
  <2>6. RegionsInv'
    <3>1. RegionsInv
      BY DEF DataInv
    <3> QED
      BY <1>1, <1>5, <2>2, <2>4, <2>5, <3>1 DEF RegionsInv, IsType, kernel
  <2>7. call.need \in Nat /\ \A d \in Held : block[d].allocated \in Nat
    <3>1. call.need \in Word
      BY <1>1 DEF TypeInv, Locals
    <3>2. \A d \in Held : block[d].allocated \in Word
      BY <2>4 DEF Header
    <3> QED
      BY <3>1, <3>2, Constants
  <2>8. ASSUME NEW g \in live'
        PROVE  /\ g.block \in Held' /\ g.lo \in Nat /\ g.size \in Nat
               /\ g.lo + g.size <= block'[g.block].allocated
               /\ (block'[g.block].memory + g.lo) % arena'.alignment = 0
    <3>1. CASE g \in live
      <4>1. /\ g.block \in Held /\ g.lo \in Nat /\ g.size \in Nat
            /\ g.lo + g.size <= block[g.block].allocated
            /\ (block[g.block].memory + g.lo) % arena.alignment = 0
        BY <1>5, <3>1 DEF DataInv, LiveInv
      <4>2. block[g.block].allocated <= block'[g.block].allocated
        BY <2>2, <2>5, <2>7, <4>1
      <4>3. block'[g.block].allocated \in Nat
        BY <2>2, <2>5, <2>7, <4>1
      <4>4. g.lo + g.size <= block'[g.block].allocated
        BY <2>7, <4>1, <4>2, <4>3
      <4> QED
        BY <1>1, <2>4, <2>5, <4>1, <4>4
    <3>2. CASE g = [block |-> b, lo |-> lo, size |-> call.size, depth |-> Len(arena.snapshots)]
      <4>1. g.block = b /\ g.lo = lo /\ g.size = call.size
        BY <3>2
      <4>2. lo + call.size <= level
        BY <2>2, <2>7
      <4> QED
        BY <1>1, <2>2, <2>4, <2>5, <4>1, <4>2
    <3> QED
      BY <2>3, <3>1, <3>2
  <2>9. LiveInv'
    <3>1. ~Cleared'
      BY <1>2, <1>3 DEF Cleared
    <3> QED
      BY <2>8, <3>1 DEF LiveInv
  <2> QED
    BY <1>2, <2>6, <2>9 DEF DataInv
<1> QED
  BY <1>4, <1>5

\* A step of the loop over blocks that neither takes bytes nor maps a region.
LEMMA SearchData ==
    ASSUME StepsInv, StepsInv', DataInv, RefuseScratch \/ Advance \/ MallocHeader
    PROVE  DataInv'
<1>1. call.at = "visit" /\ TypeInv /\ Held = heap
  BY IdleFacts DEF RefuseScratch, Advance, MallocHeader, At, StepsInv
<1>2. CASE RefuseScratch
  <2>1. call' = NoCall /\ UNCHANGED <<kernel, arena, heap, block, live>>
    BY <1>2 DEF RefuseScratch
  <2>2. call'.at = "idle" /\ Held' = Held
    BY <1>1, <2>1 DEF NoCall, Held, Pending
  <2>3. RegionsInv' /\ LiveInv'
    BY <2>1, <2>2, DataKept DEF DataInv, kernel
  <2> QED
    BY <2>2, <2>3, NeedIdle DEF DataInv
<1>3. CASE Advance
  <2>1. call' = [call EXCEPT !.block = NextToVisit(call.block)]
        /\ UNCHANGED <<kernel, arena, heap, block, live>>
    BY <1>3 DEF Advance
  <2>2. call'.at = "visit" /\ call'.size = call.size /\ call'.need = call.need
    BY <1>1, <2>1 DEF TypeInv, Locals
  <2>3. Held' = Held
    BY <1>1, <2>1, <2>2 DEF Held, Pending
  <2>4. RegionsInv' /\ LiveInv'
    BY <2>1, <2>2, <2>3, DataKept DEF DataInv, kernel
  <2>5. NeedInv'
    BY <1>1, <2>1, <2>2 DEF DataInv, NeedInv
  <2> QED
    BY <2>4, <2>5 DEF DataInv
<1>4. CASE MallocHeader
  <2>1. CASE Crash("E104")
    BY <2>1, QuietData DEF Crash, Memory!Crash, kernel
  <2>2. CASE \E fresh \in BlockId \ heap :
            /\ heap' = heap \cup {fresh}
            /\ block' = IF IsType("STACK") THEN block
                        ELSE [block EXCEPT ![call.block].next = fresh]
            /\ call' = [call EXCEPT !.at = "map", !.fresh = Append(@, fresh)]
            /\ UNCHANGED <<state, kernel, arena, live>>
    <3>1. PICK fresh \in BlockId \ heap :
            /\ heap' = heap \cup {fresh}
            /\ block' = IF IsType("STACK") THEN block
                        ELSE [block EXCEPT ![call.block].next = fresh]
            /\ call' = [call EXCEPT !.at = "map", !.fresh = Append(@, fresh)]
            /\ UNCHANGED <<kernel, arena, live>>
      BY <2>2
    <3>2. call'.at = "map" /\ call'.size = call.size /\ call'.need = call.need
          /\ call'.fresh = Append(call.fresh, fresh)
      BY <1>1, <3>1 DEF TypeInv, Locals
    <3>3. Held' = Held
      <4>1. call.fresh \in Seq(BlockId)
        BY <1>1 DEF TypeInv, Locals
      <4>2. Last(call'.fresh) = fresh
        BY <3>2, <4>1 DEF Last
      <4> QED
        BY <1>1, <3>1, <3>2, <4>2 DEF Held, Pending
    <3>4. \A b \in Held : /\ block'[b].memory = block[b].memory
                          /\ block'[b].capacity = block[b].capacity
                          /\ block'[b].allocated = block[b].allocated
      <4>1. block \in [BlockId -> Header] /\ Held \subseteq BlockId
        BY <1>1 DEF TypeInv
      <4> QED
        BY <3>1, <4>1 DEF Header
    <3>5. RegionsInv' /\ LiveInv'
      BY <3>1, <3>2, <3>3, <3>4, DataKept DEF DataInv, kernel
    <3>6. NeedInv'
      BY <1>1, <3>1, <3>2 DEF DataInv, NeedInv
    <3> QED
      BY <3>5, <3>6 DEF DataInv
  <2> QED
    BY <1>4, <2>1, <2>2 DEF MallocHeader
<1> QED
  BY <1>2, <1>3, <1>4

\* The region of an appended header is as the data invariant says.
LEMMA MapAppendedData ==
    ASSUME StepsInv, StepsInv', DataInv, MapAppended
    PROVE  DataInv'
<1>1. /\ TypeInv /\ CallInv /\ Paired /\ call.at = "map" /\ ~IsType("STACK")
      /\ UNCHANGED <<arena, heap, live>>
      /\ Memory!SafeAlignedAlloc(GrownCapacity, arena.alignment)
  BY DEF StepsInv, MapAppended, MapRegion, At
<1>2. CASE state' # "running"
  <2>1. UNCHANGED kernel
    BY <1>1, <1>2, AllocCrash
  <2> QED
    BY <1>1, <1>2, <2>1, QuietData DEF MapAppended
<1>3. CASE state' = "running"
  <2>1. PICK new : new = Last(call.fresh)
    OBVIOUS
  <2>2. call.block \in BlockId /\ new \in BlockId /\ new \in heap
    <3>1. PICK n \in Nat \ {0} : \E c \in [1..n -> BlockId] :
                /\ WholeChain(c, n, 0, 1)
                /\ heap = {c[i] : i \in 1..n} \cup (IF IsType("STACK") THEN Pending ELSE {})
      BY <1>1, PendingChain
    <3>2. PICK c \in [1..n -> BlockId] : WholeChain(c, n, 0, 1) /\ heap = {c[i] : i \in 1..n}
      BY <1>1, <3>1
    <3>3. n > 1 /\ call.block = c[n - 1] /\ new = c[n]
      BY <1>1, <2>1, <3>2 DEF WholeChain
    <3>4. n \in 1..n /\ n - 1 \in 1..n
      BY <3>3
    <3> QED
      BY <3>2, <3>3, <3>4
  <2> DEFINE capacity == GrownCapacity
             a == arena.alignment
  <2>3. /\ capacity \in 0..MmapLimit
        /\ \E p \in Word : /\ regions' = regions \cup {[ptr |-> p, size |-> capacity, alignment |-> a]}
                           /\ \A r \in regions : r.ptr # p
                           /\ NewPointer = p
                           /\ p % a = 0
                           /\ p + capacity <= SpaceEnd
    BY <1>3, <2>2, GrowResult DEF MapAppended
  <2>4. PICK p \in Word : /\ regions' = regions \cup {[ptr |-> p, size |-> capacity, alignment |-> a]}
                          /\ \A r \in regions : r.ptr # p
                          /\ NewPointer = p
                          /\ p % a = 0
                          /\ p + capacity <= SpaceEnd
    BY <2>3
  <2>5. /\ block' = [block EXCEPT ![new] = [Blank EXCEPT !.memory = p, !.capacity = capacity]]
        /\ call' = [call EXCEPT !.at = "visit", !.block = NextToVisit(call.block)]
    BY <1>3, <2>1, <2>4 DEF MapAppended
  <2>6. call'.at = "visit" /\ call'.size = call.size /\ call'.need = call.need
    BY <1>1, <2>5 DEF TypeInv, Locals
  <2> HIDE DEF capacity
  <2>7. /\ block'[new].memory = p /\ block'[new].capacity = capacity /\ block'[new].allocated = 0
        /\ \A d \in BlockId \ {new} : block'[d] = block[d]
    <3>1. DOMAIN block = BlockId
      BY <1>1 DEF TypeInv
    <3>2. block' = [block EXCEPT ![new] = [memory |-> p, next |-> NoBlock, capacity |-> capacity,
                                           allocated |-> 0]]
      BY <2>5, FilledHeader
    <3> QED
      BY <2>2, <3>1, <3>2
  <2>8. Held' = Held \cup {new} /\ Held = heap \ {new} /\ \A d \in Held : d \in BlockId \ {new}
    BY <1>1, <2>1, <2>2, <2>6 DEF Held, Pending, TypeInv
  <2>9. RegionsInv'
    <3> SUFFICES ASSUME NEW b \in Held'
                 PROVE  /\ block'[b].allocated <= block'[b].capacity
                        /\ block'[b].memory + block'[b].capacity <= SpaceEnd
                        /\ block'[b].memory % a = 0
                        /\ \A r \in regions' : r.ptr = block'[b].memory => r.size = block'[b].capacity
      BY <1>1 DEF RegionsInv
    <3>1. CASE b = new
      <4>1. 0 <= capacity
        BY <2>3, Constants DEF capacity
      <4>2. \A r \in regions' : r.ptr = p => r.size = capacity
        BY <2>4
      <4> QED
        BY <2>4, <2>7, <3>1, <4>1, <4>2
    <3>2. CASE b # new
      <4>1. b \in Held /\ block'[b] = block[b]
        BY <2>7, <2>8, <3>2
      <4>2. block[b].memory # p
        BY <1>1, <2>4, <4>1 DEF Paired
      <4>3. \A r \in regions' : r.ptr = block[b].memory => r \in regions
        BY <2>4, <4>2
      <4>4. /\ block[b].allocated <= block[b].capacity
            /\ block[b].memory + block[b].capacity <= SpaceEnd
            /\ block[b].memory % a = 0
            /\ \A r \in regions : r.ptr = block[b].memory => r.size = block[b].capacity
        BY <1>1, <4>1 DEF DataInv, RegionsInv
      <4> QED
        BY <4>1, <4>3, <4>4
    <3> QED
      BY <3>1, <3>2
  <2>10. NeedInv'
    BY <1>1, <2>6 DEF DataInv, NeedInv
  <2>11. LiveInv'
    <3>1. ~Cleared'
      BY <1>1, <2>6 DEF Cleared, CallInv, Open
    <3>2. ASSUME NEW g \in live
          PROVE  /\ g.block \in Held' /\ g.lo \in Nat /\ g.size \in Nat
                 /\ g.lo + g.size <= block'[g.block].allocated
                 /\ (block'[g.block].memory + g.lo) % arena.alignment = 0
      <4>1. g.block \in Held
        BY <1>1 DEF DataInv, LiveInv
      <4>2. block'[g.block] = block[g.block]
        BY <2>7, <2>8, <4>1
      <4> QED
        BY <1>1, <2>8, <4>1, <4>2 DEF DataInv, LiveInv
    <3> QED
      BY <1>1, <3>1, <3>2 DEF LiveInv
  <2> QED
    BY <2>9, <2>10, <2>11 DEF DataInv
<1> QED
  BY <1>2, <1>3

\* A stack's steps hand out nothing the data invariant is about.
LEMMA StackStepsData ==
    ASSUME StepsInv, StepsInv', DataInv, MapPushed \/ RecordCall \/ UnwindCall
    PROVE  DataInv'
<1>1. CASE MapPushed
  <2>1. /\ TypeInv /\ CallInv /\ call.at = "map" /\ IsType("STACK") /\ heap' = heap
        /\ Memory!SafeAlignedAlloc(GrownCapacity, arena.alignment)
    BY <1>1 DEF StepsInv, MapPushed, MapRegion, At
  <2>2. CASE state' # "running"
    <3>1. UNCHANGED kernel
      BY <2>1, <2>2, AllocCrash
    <3> QED
      BY <1>1, <2>1, <2>2, <3>1, QuietData DEF MapPushed
  <2>3. CASE state' = "running"
    <3>1. PICK new : arena' = [arena EXCEPT !.top = new] /\ call' = NoCall
      BY <1>1, <2>3 DEF MapPushed
    <3>2. IsType("STACK")' /\ arena'.alignment = arena.alignment
      BY <2>1, <3>1 DEF IsType, TypeInv, Handle
    <3>3. Open'
      <4>1. arena.alignment # 0
        BY <2>1 DEF CallInv, TypeInv
      <4> QED
        BY <3>2, <4>1 DEF Open, NoArena
    <3>4. call'.at = "idle"
      BY <3>1 DEF NoCall
    <3> QED
      BY <3>2, <3>3, <3>4, StackData, NeedIdle DEF DataInv
  <2> QED
    BY <2>2, <2>3
<1>2. CASE RecordCall
  <2>1. ASSUME NEW code, Crash(code) PROVE DataInv'
    BY <2>1, QuietData DEF Crash, Memory!Crash, kernel
  <2>2. CASE ~\E code : Crash(code)
    <3>1. /\ TypeInv /\ call = NoCall /\ call' = call /\ Open /\ IsType("STACK")
          /\ arena' = [arena EXCEPT
                 !.max_size = IF ArrayFull THEN 2 * @ ELSE @,
                 !.snapshots = Append(@, [top |-> arena.top,
                                          allocated |-> block[arena.top].allocated,
                                          capacity |-> block[arena.top].capacity])]
      BY <1>2, <2>2 DEF RecordCall, Idle, StepsInv
    <3>2. IsType("STACK")' /\ arena'.alignment = arena.alignment
      BY <3>1 DEF IsType, TypeInv, Handle
    <3>3. Open'
      <4>1. arena.alignment # 0
        BY <3>1 DEF TypeInv
      <4> QED
        BY <3>2, <4>1 DEF Open, NoArena
    <3>4. call'.at = "idle"
      BY <3>1 DEF NoCall
    <3> QED
      BY <3>2, <3>3, <3>4, StackData, NeedIdle DEF DataInv
  <2> QED
    BY <2>1, <2>2
<1>3. CASE UnwindCall
  <2>1. ASSUME NEW code, Crash(code) PROVE DataInv'
    BY <2>1, QuietData DEF Crash, Memory!Crash, kernel
  <2>2. CASE ~\E code : Crash(code)
    <3>1. PICK target : /\ arena' = [arena EXCEPT !.top = target.top]
                        /\ call' = [NoCall EXCEPT !.at = "free", !.op = "unwind",
                                                  !.block = block[target.top].next]
      BY <1>3, <2>2 DEF UnwindCall, FreeFrom
    <3>2. TypeInv /\ Open /\ IsType("STACK")
      BY <1>3, <2>2 DEF UnwindCall, UnwindError, StepsInv
    <3>3. IsType("STACK")' /\ arena'.alignment = arena.alignment
      BY <3>1, <3>2 DEF IsType, TypeInv, Handle
    <3>4. Open'
      <4>1. arena.alignment # 0
        BY <3>2 DEF TypeInv
      <4> QED
        BY <3>3, <4>1 DEF Open, NoArena
    <3>5. call'.at = "free" /\ call'.op = "unwind"
      BY <3>1 DEF NoCall
    <3> QED
      BY <3>3, <3>4, <3>5, StackData, NeedIdle DEF DataInv
  <2> QED
    BY <2>1, <2>2
<1> QED
  BY <1>1, <1>2, <1>3

\* The start of a reset or a destroy leaves the client nothing.
LEMMA DropData ==
    ASSUME StepsInv, StepsInv', DataInv, ResetCall \/ DestroyCall
    PROVE  DataInv'
<1>1. ASSUME NEW code, Crash(code) PROVE DataInv'
  BY <1>1, QuietData DEF Crash, Memory!Crash, kernel
<1>2. CASE ~\E code : Crash(code)
  <2>1. /\ TypeInv /\ call = NoCall /\ live' = {} /\ UNCHANGED <<kernel, arena, heap>>
        /\ call'.at = "free"
        /\ block' = block \/ block' = [block EXCEPT ![arena.memory_block].allocated = 0]
    BY <1>2 DEF ResetCall, DestroyCall, Idle, FreeFrom, NoCall, StepsInv
  <2>2. Held' = Held /\ Held \subseteq BlockId
    BY <2>1 DEF Held, Pending, NoCall, TypeInv
  <2>3. \A b \in Held' : /\ block'[b].memory = block[b].memory
                         /\ block'[b].capacity = block[b].capacity
                         /\ block'[b].allocated = block[b].allocated \/ block'[b].allocated = 0
    <3>1. block \in [BlockId -> Header]
      BY <2>1 DEF TypeInv
    <3> QED
      BY <2>1, <2>2, <3>1 DEF Header
  <2>4. regions' \subseteq regions /\ Held' \subseteq Held /\ RegionsInv /\ LiveInv
    BY <2>1, <2>2 DEF kernel, DataInv
  <2>5. RegionsInv' /\ LiveInv'
    BY <2>1, <2>3, <2>4, DataKept
  <2> QED
    BY <2>1, <2>5, NeedIdle DEF DataInv
<1> QED
  BY <1>1, <1>2

\* Freeing one block.
LEMMA FreeBlockData ==
    ASSUME StepsInv, StepsInv', DataInv, FreeBlock
    PROVE  DataInv'
<1>1. /\ TypeInv /\ CallInv /\ Paired /\ call.at = "free" /\ UNCHANGED <<arena, live>>
      /\ call.block \in BlockId \cup {NoBlock} /\ call.block # NoBlock
      /\ Memory!SafeAlignedFree(RegionOf(call.block))
  BY DEF StepsInv, FreeBlock, At, RegionToFree, TypeInv, Locals
<1>2. call.block \in BlockId /\ Held = heap /\ Pending = {}
  BY <1>1 DEF Held, Pending
<1>3. call.block \in heap
  <2>1. PICK n \in Nat, k \in Nat, f \in Nat : \E c \in [1..n -> BlockId] :
                /\ f \in (k + 1)..(n + 1)
                /\ heap = {c[i] : i \in (1..k) \cup (f..n)}
                /\ FreedUpTo(c, n, k, f)
    BY <1>1, LoopChain
  <2>2. PICK c \in [1..n -> BlockId] :
                /\ f \in (k + 1)..(n + 1)
                /\ heap = {c[i] : i \in (1..k) \cup (f..n)}
                /\ FreedUpTo(c, n, k, f)
    BY <2>1
  <2>3. f # n + 1 /\ call.block = c[f]
    BY <1>1, <2>2 DEF FreedUpTo
  <2>4. f \in f..n
    BY <2>2, <2>3
  <2> QED
    BY <2>2, <2>3, <2>4
<1>4. RegionOf(call.block) \in regions
  BY <1>1, <1>2, <1>3, OwnRegion
<1>5. state' = "running" /\ regions' \subseteq regions
  BY <1>1, <1>4, FreeResult DEF StepsInv
<1>6. /\ heap' = heap \ {call.block}
      /\ block' = [block EXCEPT ![call.block] = Blank]
      /\ call' = [call EXCEPT !.block = NextToFree(call.block)]
  BY <1>5 DEF FreeBlock
<1>7. call'.at = "free" /\ call'.op = call.op
  BY <1>1, <1>6 DEF TypeInv, Locals
<1>8. Held' = heap' /\ Held' \subseteq Held
  BY <1>2, <1>6, <1>7 DEF Held, Pending
<1>9. \A b \in Held' : block'[b] = block[b]
  <2>1. block \in [BlockId -> Header] /\ heap \subseteq BlockId
    BY <1>1 DEF TypeInv
  <2> QED
    BY <1>6, <1>8, <2>1
<1>10. live' = {} \/ (live' = live /\ IsType("STACK"))
  BY <1>1 DEF DataInv, LiveInv, Cleared
<1>11. RegionsInv' /\ LiveInv'
  BY <1>1, <1>5, <1>7, <1>8, <1>9, <1>10, DataKept DEF DataInv
<1> QED
  BY <1>7, <1>11, NeedIdle DEF DataInv

\* With the arena closed no header is left.
LEMMA ClosedHeap == StepsInv => (call.at = "idle" /\ ~Open => heap = {})
BY IdleFacts

\* The end of the free loop.
LEMMA FreeReturnData ==
    ASSUME StepsInv, StepsInv', DataInv, FreeReturn
    PROVE  DataInv'
<1>1. /\ TypeInv /\ CallInv /\ call.at = "free" /\ call' = NoCall
      /\ arena' = ArenaAfterFree /\ UNCHANGED <<kernel, heap, live>>
  BY DEF StepsInv, FreeReturn, At
<1>2. call'.at = "idle" /\ NeedInv' /\ Held' = Held /\ Held' = heap'
  BY <1>1, NeedIdle DEF NoCall, Held, Pending
<1>3. /\ call.op = "destroy" => arena' = NoArena
      /\ call.op # "destroy" => /\ arena'.allocator_type = arena.allocator_type
                                /\ arena'.alignment = arena.alignment
  BY <1>1, LeftArena
<1>4. CASE call.op = "destroy"
  <2>1. ~Open'
    BY <1>3, <1>4 DEF Open
  <2>2. heap' = {}
    <3>1. (call.at = "idle" /\ ~Open => heap = {})'
      BY ClosedHeap, PTL
    <3> QED
      BY <1>2, <2>1, <3>1
  <2>3. live' = {}
    BY <1>1, <1>4 DEF DataInv, LiveInv, Cleared
  <2> QED
    BY <1>2, <2>2, <2>3 DEF DataInv, RegionsInv, LiveInv
<1>5. CASE call.op # "destroy"
  <2>1. Open'
    <3>1. arena.alignment # 0
      BY <1>1 DEF TypeInv, CallInv
    <3> QED
      BY <1>3, <1>5, <3>1 DEF Open, NoArena
  <2>2. CASE IsType("STACK")
    <3>1. IsType("STACK")'
      BY <1>3, <1>5, <2>2 DEF IsType
    <3> QED
      BY <1>2, <2>1, <3>1, StackData DEF DataInv
  <2>3. CASE ~IsType("STACK")
    <3>1. live' = {}
      BY <1>1, <2>3 DEF DataInv, LiveInv, Cleared
    <3>2. \A b \in Held : /\ block'[b].memory = block[b].memory
                          /\ block'[b].capacity = block[b].capacity
                          /\ block'[b].allocated = block[b].allocated
      <4>1. block \in [BlockId -> Header] /\ Held \subseteq BlockId
        BY <1>1 DEF TypeInv, Held
      <4>2. block' = [block EXCEPT ![arena.memory_block].next = NoBlock]
        BY <1>1, <1>5, <2>3 DEF FreeReturn, Unlinked, CallInv
      <4> QED
        BY <4>1, <4>2 DEF Header
    <3>3. RegionsInv'
      BY <1>1, <1>2, <1>3, <1>5, <2>3, <3>2 DEF DataInv, RegionsInv, kernel, IsType
    <3> QED
      BY <1>2, <3>1, <3>3 DEF DataInv, LiveInv
  <2> QED
    BY <2>2, <2>3
<1> QED
  BY <1>4, <1>5

\* Every step keeps the data invariant.
LEMMA DataNext ==
    ASSUME RequestsFit, StepsInv, StepsInv', DataInv, [Next]_svars
    PROVE  DataInv'
<1>1. CASE UNCHANGED svars
  BY <1>1, QuietData DEF svars
<1>2. CASE Call
  <2>1. ASSUME NEW type \in Types, NEW a \in Alignments, NEW size \in InitialSizes,
               Create(type, a, size)
        PROVE  DataInv'
    BY <2>1, CreateData
  <2>2. ASSUME NEW size \in Requests, AllocCall(size) PROVE DataInv'
    BY <2>2, AllocCallData
  <2> QED
    BY <1>2, <2>1, <2>2, DropData, StackStepsData DEF Call
<1>3. CASE Step
  BY <1>3, TakeData, SearchData, MapAppendedData, StackStepsData, FreeBlockData, FreeReturnData DEF Step
<1> QED
  BY <1>1, <1>2, <1>3 DEF Next

\* No block and no allocation at first.
LEMMA DataInit ==
    ASSUME Init
    PROVE  DataInv
<1>1. call.at = "idle" /\ live = {} /\ Held = {}
  BY DEF Init, NoCall, Held
<1> QED
  BY <1>1 DEF DataInv, RegionsInv, NeedInv, LiveInv

\* Where neither a request's padding nor its rounding to whole pools can make
\* it wrap, SCRATCH, LINEAR and POOL hand out memory of one region, at an
\* aligned absolute address, wherever the kernel puts the mappings.
THEOREM HandedOutSound == ASSUME RequestsFit PROVE Spec => []HandedOutInRegion
<1>1. Init => DataInv
  BY DataInit
<1>2. StepsInv /\ StepsInv' /\ DataInv /\ [Next]_svars => DataInv'
  BY DataNext
<1>3. StepsInv /\ DataInv => HandedOutInRegion
  <2> SUFFICES ASSUME StepsInv, DataInv, ~IsType("STACK"), NEW given \in live
               PROVE  LET r == RegionOf(given.block)
                      IN  /\ Memory!Bytes(r.ptr + given.lo, given.size) \subseteq Memory!Bytes(r.ptr, r.size)
                          /\ (r.ptr + given.lo) % arena.alignment = 0
    BY DEF HandedOutInRegion
  <2> DEFINE b == given.block
             r == RegionOf(b)
  <2>1. /\ b \in Held /\ given.lo \in Nat /\ given.size \in Nat
        /\ given.lo + given.size <= block[b].allocated
        /\ (block[b].memory + given.lo) % arena.alignment = 0
    BY DEF DataInv, LiveInv
  <2>2. r \in regions /\ r.ptr = block[b].memory
    BY <2>1, OwnRegion DEF StepsInv
  <2>3. r.size = block[b].capacity /\ block[b].allocated <= block[b].capacity
    BY <2>1, <2>2 DEF DataInv, RegionsInv
  <2>4. r.ptr \in Nat /\ r.size \in Nat
    BY <2>2, RegionTypes DEF StepsInv
  <2>5. block[b].allocated \in Nat
    <3>1. b \in BlockId /\ block[b] \in Header
      BY <2>1 DEF StepsInv, TypeInv, Held
    <3>2. block[b].allocated \in Word
      BY <3>1 DEF Header
    <3> QED
      BY <3>2, Constants
  <2> HIDE DEF b, r
  <2>6. given.lo + given.size <= r.size
    BY <2>1, <2>3, <2>4, <2>5
  <2>7. Memory!Bytes(r.ptr + given.lo, given.size) \subseteq Memory!Bytes(r.ptr, r.size)
    BY <2>1, <2>4, <2>6 DEF Memory!Bytes
  <2>8. (r.ptr + given.lo) % arena.alignment = 0
    BY <2>1, <2>2
  <2> QED
    BY <2>7, <2>8 DEF b, r
<1> QED
  BY <1>1, <1>2, <1>3, StepsInvariance, PTL DEF Spec

================================================================================
