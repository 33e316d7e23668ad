-------------------------- MODULE MappedMemory_proofs --------------------------
(***************************************************************************)
(* Theorems about safe_aligned_alloc and safe_aligned_free, for every page  *)
(* size, header size and placement of mappings, as long as the sizes asked  *)
(* for do not wrap the length that is mapped.                               *)
(***************************************************************************)
EXTENDS MappedMemory, Words_proofs

\* The length that is mapped for the size does not wrap.
Fits(size, a) == a <= AlignLimit => size + a + MetaSize + PageSize < WordMod

\* It does not for any size and alignment a caller asks for.
SizesFit == \A size \in Sizes, a \in Aligns : Fits(size, a)

\* The constants as numbers.
LEMMA Constants ==
    /\ WordMod \in Nat /\ Word = 0..(WordMod - 1)
    /\ {PageSize, MetaSize, AlignLimit, MmapLimit} \subseteq Nat \ {0}
    /\ SpaceEnd \in Nat /\ SpaceEnd + AlignLimit < WordMod
    /\ 2 * MmapLimit + AlignLimit + MetaSize + PageSize < WordMod
    /\ Sizes \subseteq Nat /\ Aligns \subseteq Nat
BY WordModAssumption, PagesAssumption, InputAssumption, SpaceAssumption DEF Word

-------------------------------------------------------------------------------
(* Intervals.                                                                *)

Apart(b, l, c, k) == b + l <= c \/ c + k <= b

\* Two stretches of memory have no byte in common exactly when one ends before
\* the other begins.
LEMMA BytesApart ==
    ASSUME NEW b \in Int, NEW l \in Nat \ {0}, NEW c \in Int, NEW k \in Nat \ {0}
    PROVE  Bytes(b, l) \cap Bytes(c, k) = {} <=> Apart(b, l, c, k)
<1>1. ASSUME Apart(b, l, c, k) PROVE Bytes(b, l) \cap Bytes(c, k) = {}
  BY <1>1 DEF Apart, Bytes
<1>2. ASSUME ~Apart(b, l, c, k) PROVE Bytes(b, l) \cap Bytes(c, k) # {}
  <2>1. CASE b <= c
    <3>1. c \in Bytes(b, l) /\ c \in Bytes(c, k)
      BY <1>2, <2>1 DEF Apart, Bytes
    <3> QED
      BY <3>1
  <2>2. CASE c <= b
    <3>1. b \in Bytes(b, l) /\ b \in Bytes(c, k)
      BY <1>2, <2>2 DEF Apart, Bytes
    <3> QED
      BY <3>1
  <2> QED
    BY <2>1, <2>2
<1> QED
  BY <1>1, <1>2

-------------------------------------------------------------------------------
(* The inductive invariant.                                                  *)

Slot(r) == r.ptr - MetaSize
MappingOf(r) == [base |-> header[Slot(r)].base, length |-> header[Slot(r)].total_size]

\* The header in front of a region names a mapping, and header and region lie
\* inside it.
Placed(r) ==
    /\ Slot(r) \in DOMAIN header
    /\ MappingOf(r) \in mapped
    /\ MappingOf(r).base + MetaSize <= r.ptr
    /\ r.ptr + r.size <= MappingOf(r).base + MappingOf(r).length

MappingsApart == \A m, n \in mapped : m = n \/ Apart(m.base, m.length, n.base, n.length)
RegionsApart == \A r, s \in regions : r = s \/ MappingOf(r) # MappingOf(s)

IInv ==
    /\ TypeOK
    /\ state \notin {"E201", "E302"}
    /\ RegionAligned
    /\ MappingsApart
    /\ RegionsApart
    /\ \A r \in regions : Placed(r)

\* It holds before the first call.
LEMMA InitInv == Init => IInv
BY Constants DEF Init, IInv, TypeOK, RegionAligned, MappingsApart, RegionsApart

\* What the types of a region and its mapping say.
LEMMA RegionFacts ==
    ASSUME IInv, NEW r \in regions
    PROVE  /\ r.ptr \in Nat /\ r.size \in Nat \ {0} /\ Slot(r) \in Int
           /\ MappingOf(r).base \in Nat \ {0} /\ MappingOf(r).length \in Nat \ {0}
           /\ header[Slot(r)].base = MappingOf(r).base
           /\ header[Slot(r)].total_size = MappingOf(r).length
<1>1. r \in Regions /\ MappingOf(r) \in Mappings
  BY DEF IInv, TypeOK, Placed
<1>2. r.ptr \in Nat /\ r.size \in Nat \ {0}
  BY <1>1, Constants DEF Regions, Address
<1>3. MappingOf(r).base \in Nat \ {0} /\ MappingOf(r).length \in Nat \ {0}
  <2>1. MappingOf(r).base \in PageSize..(SpaceEnd - 1) /\ MappingOf(r).length \in 1..MmapLimit
    BY <1>1 DEF Mappings, Address
  <2>2. PageSize \in Nat \ {0} /\ SpaceEnd \in Nat /\ MmapLimit \in Nat
    BY Constants
  <2> QED
    BY <2>1, <2>2
<1> QED
  BY <1>2, <1>3, Constants DEF MappingOf, Slot

-------------------------------------------------------------------------------
(* safe_aligned_alloc.                                                       *)

\* The mapping has room for the header, the padding and the region.
LEMMA RoomInMapping ==
    ASSUME NEW size \in Sizes, NEW a \in Aligns, Fits(size, a), AllocError(size, a) = "none"
    PROVE  /\ a \in 1..AlignLimit /\ IsPowerOfTwo(a) /\ size \in Nat \ {0}
           /\ TotalSize(size, a) \in 1..MmapLimit
           /\ size + a + MetaSize <= TotalSize(size, a)
<1>1. size # 0 /\ IsPowerOfTwo(a) /\ ~(a > AlignLimit) /\ Mappable(size, a)
  BY DEF AllocError
<1>2. a \in 1..AlignLimit /\ size \in Nat \ {0}
  BY <1>1, Constants DEF IsPowerOfTwo
<1>3. TotalSize(size, a) \in 1..MmapLimit
  BY <1>1 DEF Mappable
<1>4. size + a + MetaSize + PageSize < WordMod
  BY <1>1, <1>2, Constants DEF Fits
<1>a. a \in Nat /\ size \in Nat /\ MetaSize \in Nat /\ PageSize \in Nat \ {0}
      /\ AlignLimit \in Nat /\ a <= AlignLimit /\ WordMod \in Nat
  BY <1>2, Constants
<1>5. AddW(AddW(size, a), MetaSize) = size + a + MetaSize
  <2>1. size + a \in Nat /\ size + a < WordMod
    BY <1>4, <1>a
  <2>2. AddW(size, a) = size + a
    BY <2>1, <1>a DEF AddW
  <2>3. size + a + MetaSize \in Nat /\ size + a + MetaSize < WordMod
    BY <1>4, <1>a
  <2> QED
    BY <2>2, <2>3, <1>a DEF AddW
<1>6. size + a + MetaSize \in Word /\ PageSize \in Word \ {0}
      /\ size + a + MetaSize + PageSize < WordMod
  BY <1>4, <1>a DEF Word
<1>7. AlignUp(size + a + MetaSize, PageSize) >= size + a + MetaSize
  <2>1. AlignUp(size + a + MetaSize, PageSize)
          \in (size + a + MetaSize)..(size + a + MetaSize + PageSize - 1)
    BY <1>6, AlignUpNoWrap
  <2> QED
    BY <1>a, <2>1
<1> QED
  BY <1>1, <1>2, <1>3, <1>5, <1>7 DEF TotalSize

\* The pointer is aligned, and the region ends inside the mapping.
LEMMA PointerInMapping ==
    ASSUME NEW size \in Nat \ {0}, NEW a \in 1..AlignLimit, NEW total \in 1..MmapLimit,
           size + a + MetaSize <= total,
           NEW base \in FreeBases(total)
    PROVE  LET ptr == AlignedAddress(base, a)
           IN  /\ base \in Address /\ ptr \in Address
               /\ base + MetaSize <= ptr /\ ptr + size <= base + total
               /\ ptr % a = 0
<1>1. base \in Address /\ base + total <= SpaceEnd
  BY DEF FreeBases
<1>2. base \in Nat /\ base >= PageSize
  BY <1>1, Constants DEF Address
<1>3. base + MetaSize + a < WordMod /\ base + MetaSize \in Word /\ a \in Word \ {0}
  <2>1. /\ MetaSize \in Nat /\ a \in Nat \ {0} /\ total \in Nat /\ SpaceEnd \in Nat
        /\ SpaceEnd < WordMod /\ WordMod \in Nat
    BY Constants
  <2>2. base + MetaSize + a < WordMod
    BY <1>1, <1>2, <2>1
  <2> QED
    BY <1>2, <2>1, <2>2 DEF Word
<1>4. AddW(base, MetaSize) = base + MetaSize
  BY <1>2, <1>3, Constants DEF AddW
<1>5. /\ AlignedAddress(base, a) \in (base + MetaSize)..(base + MetaSize + a - 1)
      /\ AlignedAddress(base, a) % a = 0
  BY <1>3, <1>4, AlignUpNoWrap DEF AlignedAddress
<1> DEFINE p == AlignedAddress(base, a)
<1>6. /\ base \in Nat /\ MetaSize \in Nat /\ a \in Nat /\ size \in Nat \ {0}
      /\ total \in Nat /\ SpaceEnd \in Nat /\ PageSize \in Nat
  BY <1>2, Constants
<1>7. p \in Int /\ base + MetaSize <= p /\ p <= base + MetaSize + a - 1
  BY <1>5, <1>6
<1>8. p + size <= base + total
  BY <1>6, <1>7
<1>9. p \in Address
  <2> HIDE DEF p
  <2> QED
    BY <1>1, <1>2, <1>6, <1>7, <1>8 DEF Address
<1> QED
  BY <1>1, <1>5, <1>7, <1>8, <1>9

\* An allocation keeps the invariant: its mapping and its header are apart from
\* the old ones.
LEMMA AllocStep ==
    ASSUME IInv, NEW size \in Sizes, NEW a \in Aligns, Fits(size, a), SafeAlignedAlloc(size, a)
    PROVE  IInv'
<1>1. CASE AllocError(size, a) # "none" /\ Crash(AllocError(size, a))
  <2>1. AllocError(size, a) \in {"E101", "E102", "E103", "E104"}
    BY <1>1 DEF AllocError
  <2>2. state' = AllocError(size, a) /\ UNCHANGED <<mapped, header, regions>>
    BY <1>1 DEF Crash
  <2> QED
    BY <2>1, <2>2 DEF IInv, TypeOK, RegionAligned, MappingsApart, RegionsApart, Placed,
                      MappingOf, Slot
<1>2. CASE AllocError(size, a) = "none"
  <2> DEFINE total == TotalSize(size, a)
  <2>1. PICK base \in FreeBases(total) :
          LET p == AlignedAddress(base, a)
          IN  /\ mapped' = mapped \cup {[base |-> base, length |-> total]}
              /\ header' = [q \in DOMAIN header \cup {p - MetaSize} |->
                              IF q = p - MetaSize
                              THEN [base |-> base, total_size |-> total]
                              ELSE header[q]]
              /\ regions' = regions \cup {[ptr |-> p, size |-> size, alignment |-> a]}
              /\ UNCHANGED state
    BY <1>2 DEF SafeAlignedAlloc
  <2> DEFINE p == AlignedAddress(base, a)
             slot == p - MetaSize
             new == [ptr |-> p, size |-> size, alignment |-> a]
             m == [base |-> base, length |-> total]
  <2>2. /\ a \in 1..AlignLimit /\ IsPowerOfTwo(a) /\ size \in Nat \ {0}
        /\ total \in 1..MmapLimit /\ size + a + MetaSize <= total
    BY <1>2, RoomInMapping
  <2>3. /\ base \in Address /\ p \in Address /\ base + MetaSize <= p
        /\ p + size <= base + total /\ p % a = 0
    BY <2>2, PointerInMapping
  <2>4. /\ mapped' = mapped \cup {m} /\ regions' = regions \cup {new} /\ state' = state
        /\ header' = [q \in DOMAIN header \cup {slot} |->
                        IF q = slot THEN [base |-> base, total_size |-> total]
                        ELSE header[q]]
    BY <2>1
  <2>5. \A k \in mapped : Bytes(base, total) \cap Bytes(k.base, k.length) = {}
    BY DEF FreeBases
  <2> HIDE DEF p, total
  <2>6. /\ base \in Nat \ {0} /\ total \in Nat \ {0} /\ p \in Nat /\ MetaSize \in Nat \ {0}
        /\ slot \in Nat /\ slot < base + total /\ base <= slot
    <3>1. base \in Nat \ {0} /\ p \in Nat
      <4>1. PageSize \in Nat \ {0} /\ SpaceEnd \in Nat
        BY Constants
      <4> QED
        BY <2>3, <4>1 DEF Address
    <3>2. total \in Nat \ {0} /\ MetaSize \in Nat \ {0}
      BY <2>2, Constants
    <3> QED
      BY <2>2, <2>3, <3>1, <3>2
  <2>7. ASSUME NEW k \in mapped
        PROVE  Apart(base, total, k.base, k.length) /\ m # k
    <3>1. k \in Mappings
      BY DEF IInv, TypeOK
    <3>2. k.base \in Int /\ k.length \in Nat \ {0}
      <4>1. k.base \in PageSize..(SpaceEnd - 1) /\ k.length \in 1..MmapLimit
        BY <3>1 DEF Mappings, Address
      <4>2. PageSize \in Nat \ {0} /\ SpaceEnd \in Nat /\ MmapLimit \in Nat
        BY Constants
      <4> QED
        BY <4>1, <4>2
    <3>3. Apart(base, total, k.base, k.length)
      BY <2>5, <2>6, <3>2, BytesApart
    <3> QED
      BY <3>2, <3>3, <2>6 DEF Apart
  <2>8. ASSUME NEW r \in regions
        PROVE  /\ Slot(r) # slot /\ Slot(r) \in DOMAIN header /\ Slot(r) \in DOMAIN header'
               /\ header'[Slot(r)] = header[Slot(r)]
               /\ MappingOf(r)' = MappingOf(r) /\ Placed(r)'
    <3>1. Placed(r)
      BY DEF IInv
    <3>2. /\ MappingOf(r) \in mapped /\ MappingOf(r).base + MetaSize <= r.ptr
          /\ r.ptr + r.size <= MappingOf(r).base + MappingOf(r).length
          /\ Slot(r) \in DOMAIN header
      BY <3>1 DEF Placed
    <3>3. Apart(base, total, MappingOf(r).base, MappingOf(r).length)
      BY <2>7, <3>2
    <3>4. Slot(r) # slot
      <4>1. Slot(r) = r.ptr - MetaSize
        BY DEF Slot
      <4> QED
        BY <3>2, <3>3, <4>1, <2>6, RegionFacts DEF Apart
    <3>5. Slot(r) \in DOMAIN header' /\ header'[Slot(r)] = header[Slot(r)]
      BY <2>4, <3>2, <3>4
    <3>6. MappingOf(r)' = MappingOf(r)
      BY <3>5 DEF MappingOf, Slot
    <3> QED
      BY <2>4, <3>2, <3>4, <3>5, <3>6 DEF Placed, Slot
  <2>9. /\ Slot(new) = slot /\ slot \in DOMAIN header'
        /\ header'[slot] = [base |-> base, total_size |-> total]
    BY <2>4 DEF Slot
  <2>10. MappingOf(new)' = m /\ Placed(new)'
    <3>1. MappingOf(new)' = m
      BY <2>9 DEF MappingOf, Slot
    <3> QED
      BY <3>1, <2>3, <2>4, <2>9 DEF Placed, Slot
  <2>11. TypeOK'
    <3>1. base \in Word /\ total \in Word /\ slot \in Word /\ size \in Word \ {0}
      <4>1. base < SpaceEnd /\ p < SpaceEnd /\ total <= MmapLimit /\ SpaceEnd \in Nat
            /\ MmapLimit \in Nat /\ SpaceEnd + AlignLimit < WordMod
            /\ 2 * MmapLimit + AlignLimit + MetaSize + PageSize < WordMod
            /\ AlignLimit \in Nat /\ PageSize \in Nat /\ WordMod \in Nat
        BY <2>2, <2>3, Constants DEF Address
      <4>2. base \in Word /\ total \in Word /\ slot \in Word
        BY <4>1, <2>6 DEF Word
      <4> QED
        BY <4>2, <2>2, InputAssumption
    <3>2. m \in Mappings
      BY <2>2, <2>3 DEF Mappings
    <3>3. new \in Regions
      BY <2>2, <2>3, <3>1 DEF Regions
    <3>4. [base |-> base, total_size |-> total] \in Metadata
      BY <3>1 DEF Metadata
    <3>5. DOMAIN header' \subseteq Word /\ \A q \in DOMAIN header' : header'[q] \in Metadata
      BY <2>4, <3>1, <3>4 DEF IInv, TypeOK
    <3> QED
      BY <2>4, <3>2, <3>3, <3>5 DEF IInv, TypeOK
  <2>12. RegionAligned'
    BY <2>3, <2>4 DEF IInv, RegionAligned
  <2>13. MappingsApart'
    <3>1. \A k, l \in mapped : k = l \/ Apart(k.base, k.length, l.base, l.length)
      BY DEF IInv, MappingsApart
    <3>2. \A k \in mapped : Apart(m.base, m.length, k.base, k.length)
                         /\ Apart(k.base, k.length, m.base, m.length)
      BY <2>7 DEF Apart
    <3> QED
      BY <2>4, <3>1, <3>2 DEF MappingsApart
  <2>14. RegionsApart'
    <3>1. \A r, s \in regions : r = s \/ MappingOf(r)' # MappingOf(s)'
      BY <2>8 DEF IInv, RegionsApart
    <3>2. \A r \in regions : MappingOf(r)' # MappingOf(new)'
      BY <2>7, <2>8, <2>10 DEF IInv, Placed
    <3> QED
      BY <2>4, <3>1, <3>2 DEF RegionsApart
  <2>15. \A r \in regions' : Placed(r)'
    BY <2>4, <2>8, <2>10
  <2> QED
    BY <2>4, <2>11, <2>12, <2>13, <2>14, <2>15 DEF IInv
<1> QED
  BY <1>1, <1>2 DEF SafeAlignedAlloc

-------------------------------------------------------------------------------
(* safe_aligned_free.                                                        *)

\* A free finds the header it wrote, clears it and leaves every other one alone.
LEMMA FreeStep ==
    ASSUME IInv, NEW r \in regions, SafeAlignedFree(r)
    PROVE  IInv'
<1> DEFINE at == Slot(r)
           m == MappingOf(r)
           left == Wiped(m.base, m.length)
<1>1. Placed(r) /\ m \in mapped /\ at \in DOMAIN header
  BY DEF IInv, Placed
<1>2. /\ m.base \in Nat \ {0} /\ m.length \in Nat \ {0} /\ r.ptr \in Nat
      /\ r.size \in Nat \ {0} /\ MetaSize \in Nat \ {0}
      /\ header[at].base = m.base /\ header[at].total_size = m.length
  BY RegionFacts, Constants
<1>3. FreeError(header[at]) = "none"
  BY <1>2 DEF FreeError
<1>4. /\ header' = left /\ mapped' = Unmapped(left[at].base, left[at].total_size)
      /\ regions' = regions \ {r} /\ state' = state
  BY <1>2, <1>3 DEF SafeAlignedFree, Slot
<1>5. /\ DOMAIN left = DOMAIN header
      /\ \A q \in DOMAIN header :
            left[q] = IF Bytes(q, MetaSize) \cap Bytes(m.base, m.length) = {}
                      THEN header[q] ELSE [base |-> 0, total_size |-> 0]
  BY DEF Wiped
<1> HIDE DEF left
<1>6. mapped' = mapped
  <2>1. m.base + MetaSize <= r.ptr /\ r.ptr + r.size <= m.base + m.length /\ at = r.ptr - MetaSize
    BY <1>1 DEF Placed, Slot
  <2>2. at \in Int /\ ~Apart(at, MetaSize, m.base, m.length)
    BY <1>2, <2>1 DEF Apart
  <2>3. Bytes(at, MetaSize) \cap Bytes(m.base, m.length) # {}
    BY <1>2, <2>2, BytesApart
  <2>4. left[at] = [base |-> 0, total_size |-> 0]
    BY <1>1, <1>5, <2>3
  <2>5. ~(left[at].total_size > 0)
    BY <2>4
  <2> QED
    BY <1>4, <2>5 DEF Unmapped
<1>7. ASSUME NEW s \in regions, s # r
      PROVE  /\ Slot(s) \in DOMAIN header' /\ header'[Slot(s)] = header[Slot(s)]
             /\ MappingOf(s)' = MappingOf(s) /\ Placed(s)'
  <2>1. /\ Slot(s) \in DOMAIN header /\ MappingOf(s) \in mapped
        /\ MappingOf(s).base + MetaSize <= s.ptr
        /\ s.ptr + s.size <= MappingOf(s).base + MappingOf(s).length
    BY DEF IInv, Placed
  <2>2. MappingOf(s) # m
    BY <1>7 DEF IInv, RegionsApart
  <2>3. Apart(MappingOf(s).base, MappingOf(s).length, m.base, m.length)
    BY <1>1, <2>1, <2>2 DEF IInv, MappingsApart
  <2>4. Slot(s) = s.ptr - MetaSize
    BY DEF Slot
  <2>5. s.ptr \in Nat /\ s.size \in Nat \ {0} /\ Slot(s) \in Int
        /\ MappingOf(s).base \in Nat \ {0} /\ MappingOf(s).length \in Nat \ {0}
    BY RegionFacts
  <2>6. Apart(Slot(s), MetaSize, m.base, m.length)
    BY <1>2, <2>1, <2>3, <2>4, <2>5 DEF Apart
  <2>7. Bytes(Slot(s), MetaSize) \cap Bytes(m.base, m.length) = {}
    BY <1>2, <2>5, <2>6, BytesApart
  <2>8. Slot(s) \in DOMAIN header' /\ header'[Slot(s)] = header[Slot(s)]
    BY <1>4, <1>5, <2>1, <2>7
  <2>9. MappingOf(s)' = MappingOf(s)
    BY <2>8 DEF MappingOf, Slot
  <2> QED
    BY <1>6, <2>1, <2>8, <2>9 DEF Placed, Slot
<1>8. TypeOK'
  <2>1. [base |-> 0, total_size |-> 0] \in Metadata
    BY Constants, WordModAssumption DEF Metadata
  <2> QED
    BY <1>4, <1>5, <1>6, <2>1 DEF IInv, TypeOK
<1>9. RegionAligned'
  BY <1>4 DEF IInv, RegionAligned
<1>10. MappingsApart'
  BY <1>6 DEF IInv, MappingsApart
<1>11. RegionsApart'
  BY <1>4, <1>7 DEF IInv, RegionsApart
<1>12. \A s \in regions' : Placed(s)'
  BY <1>4, <1>7
<1> QED
  BY <1>4, <1>8, <1>9, <1>10, <1>11, <1>12 DEF IInv

-------------------------------------------------------------------------------
(* The invariant and what follows from it.                                   *)

\* Every step keeps it.
LEMMA NextInv == ASSUME SizesFit, IInv, [Next]_mvars PROVE IInv'
<1>1. CASE Next
  BY <1>1, AllocStep, FreeStep DEF Next, SizesFit
<1>2. CASE UNCHANGED mvars
  BY <1>2 DEF mvars, IInv, TypeOK, RegionAligned, MappingsApart, RegionsApart, Placed,
              MappingOf, Slot
<1> QED
  BY <1>1, <1>2

\* It implies the invariants the runs check.
LEMMA InvariantMeaning ==
    ASSUME IInv
    PROVE  TypeOK /\ RegionAligned /\ RegionInsideMapping /\ HeaderIntact
<1>1. ASSUME NEW r \in regions
      PROVE  \E m \in mapped :
                /\ Footprint(r) \subseteq Bytes(m.base, m.length)
                /\ header[r.ptr - MetaSize] = [base |-> m.base, total_size |-> m.length]
                /\ r.ptr \in Bytes(m.base, m.length)
  <2> DEFINE m == MappingOf(r)
  <2>1. /\ m \in mapped /\ m.base + MetaSize <= r.ptr /\ r.ptr + r.size <= m.base + m.length
        /\ Slot(r) \in DOMAIN header
    BY DEF IInv, Placed
  <2>2. /\ r.ptr \in Nat /\ r.size \in Nat \ {0} /\ MetaSize \in Nat \ {0}
        /\ m.base \in Nat \ {0} /\ m.length \in Nat \ {0}
    BY RegionFacts, Constants
  <2>3. header[Slot(r)] \in Metadata
    BY <2>1 DEF IInv, TypeOK
  <2>4. header[r.ptr - MetaSize] = [base |-> m.base, total_size |-> m.length]
    BY <2>3 DEF Metadata, MappingOf, Slot
  <2> HIDE DEF m
  <2>5. Footprint(r) \subseteq Bytes(m.base, m.length) /\ r.ptr \in Bytes(m.base, m.length)
    BY <2>1, <2>2 DEF Footprint, Bytes
  <2> QED
    BY <2>1, <2>4, <2>5
<1> QED
  BY <1>1 DEF IInv, RegionInsideMapping, HeaderIntact

\* The invariant holds in every behaviour whose sizes do not wrap.
LEMMA Invariance == ASSUME SizesFit PROVE Spec => []IInv
<1>1. Init => IInv
  BY InitInv
<1>2. IInv /\ [Next]_mvars => IInv'
  BY NextInv
<1> QED
  BY <1>1, <1>2, PTL DEF Spec

\* Mappings, headers and regions keep their types.
THEOREM TypeCorrectness == ASSUME SizesFit PROVE Spec => []TypeOK
BY Invariance, InvariantMeaning, PTL

\* Header and region lie in one mapping, whatever the alignment costs.
THEOREM RegionsFit == ASSUME SizesFit PROVE Spec => []RegionInsideMapping
BY Invariance, InvariantMeaning, PTL

\* Every pointer handed out is aligned as asked.
THEOREM RegionsAreAligned == ASSUME SizesFit PROVE Spec => []RegionAligned
BY Invariance, InvariantMeaning, PTL

\* No free damages the header of another region, so no free crashes.
THEOREM HeadersSurvive == ASSUME SizesFit PROVE Spec => []HeaderIntact
BY Invariance, InvariantMeaning, PTL

-------------------------------------------------------------------------------
(* For the allocators, which make these calls as steps of theirs.            *)

\* The part of the invariant that says nothing of the state of the process.
MapInv ==
    /\ mapped \subseteq Mappings
    /\ DOMAIN header \subseteq Word /\ \A p \in DOMAIN header : header[p] \in Metadata
    /\ regions \subseteq Regions
    /\ RegionAligned
    /\ MappingsApart
    /\ RegionsApart
    /\ \A r \in regions : Placed(r)

\* The invariant is that part and a process no free has crashed.
LEMMA InvariantParts ==
    IInv <=> MapInv /\ state \in {"running", "E101", "E102", "E103", "E104"}
BY DEF IInv, MapInv, TypeOK

\* It holds as long as nothing is mapped, and a step that touches no mapping
\* keeps it.
LEMMA MapFrame ==
    /\ Init => MapInv
    /\ MapInv /\ UNCHANGED <<mapped, header, regions>> => MapInv'
<1>1. Init => MapInv
  BY InitInv, InvariantParts
<1>2. MapInv /\ UNCHANGED <<mapped, header, regions>> => MapInv'
  BY DEF MapInv, RegionAligned, MappingsApart, RegionsApart, Placed, MappingOf, Slot
<1> QED
  BY <1>1, <1>2

\* The types of the regions.
LEMMA RegionTypes ==
    ASSUME MapInv, NEW r \in regions
    PROVE  r.ptr \in Nat /\ r.size \in Nat \ {0}
<1>1. r \in Regions
  BY DEF MapInv
<1> QED
  BY <1>1, Constants DEF Regions, Address

\* A call that returns has added one region: at a pointer no region had, aligned
\* as asked, of the size asked for, that ends inside the address space.
LEMMA AllocResult ==
    ASSUME MapInv, NEW size \in Sizes, NEW a \in Aligns, Fits(size, a),
           SafeAlignedAlloc(size, a), state' = "running"
    PROVE  /\ MapInv'
           /\ Mappable(size, a) /\ a \in 1..AlignLimit
           /\ \E p \in Nat : /\ regions' = regions \cup {[ptr |-> p, size |-> size, alignment |-> a]}
                             /\ \A r \in regions : r.ptr # p
                             /\ p % a = 0
                             /\ p + size <= SpaceEnd
<1>1. IInv /\ IInv'
  <2>1. IInv
    BY InvariantParts DEF SafeAlignedAlloc
  <2> QED
    BY <2>1, AllocStep
<1>2. MapInv'
  BY <1>1, InvariantParts, PTL
<1>3. AllocError(size, a) = "none"
  <2>1. AllocError(size, a) \in {"none", "E101", "E102", "E103", "E104"}
    BY DEF AllocError
  <2> QED
    BY <2>1 DEF SafeAlignedAlloc, Crash
<1> DEFINE total == TotalSize(size, a)
<1>4. PICK base \in FreeBases(total) :
        regions' = regions \cup {[ptr |-> AlignedAddress(base, a), size |-> size, alignment |-> a]}
  BY <1>3 DEF SafeAlignedAlloc
<1> DEFINE p == AlignedAddress(base, a)
<1>5. /\ a \in 1..AlignLimit /\ size \in Nat \ {0}
      /\ total \in 1..MmapLimit /\ size + a + MetaSize <= total
  BY <1>3, RoomInMapping
<1>6. /\ base \in Address /\ p \in Address /\ base + MetaSize <= p
      /\ p + size <= base + total /\ p % a = 0
  BY <1>5, PointerInMapping
<1>7. /\ base + total <= SpaceEnd
      /\ \A k \in mapped : Bytes(base, total) \cap Bytes(k.base, k.length) = {}
  BY DEF FreeBases
<1> HIDE DEF p, total
<1>8. /\ base \in Nat /\ p \in Nat /\ total \in Nat \ {0} /\ size \in Nat \ {0}
      /\ SpaceEnd \in Nat /\ MetaSize \in Nat
  <2>1. PageSize \in Nat \ {0} /\ SpaceEnd \in Nat /\ MmapLimit \in Nat /\ MetaSize \in Nat
    BY Constants
  <2>2. base \in Nat /\ p \in Nat
    BY <1>6, <2>1 DEF Address
  <2> QED
    BY <1>5, <2>1, <2>2
<1>9. ASSUME NEW r \in regions PROVE r.ptr # p
  <2>1. /\ MappingOf(r) \in mapped /\ MappingOf(r).base + MetaSize <= r.ptr
        /\ r.ptr + r.size <= MappingOf(r).base + MappingOf(r).length
    BY <1>1 DEF IInv, Placed
  <2>2. Apart(base, total, MappingOf(r).base, MappingOf(r).length)
    <3>1. Bytes(base, total) \cap Bytes(MappingOf(r).base, MappingOf(r).length) = {}
      BY <1>7, <2>1
    <3> QED
      BY <1>1, <1>8, <3>1, RegionFacts, BytesApart
  <2> QED
    BY <1>1, <1>6, <1>8, <2>1, <2>2, RegionFacts DEF Apart
<1>10. p + size <= SpaceEnd
  BY <1>6, <1>7, <1>8
<1>11. Mappable(size, a)
  BY <1>3 DEF AllocError
<1>12. regions' = regions \cup {[ptr |-> p, size |-> size, alignment |-> a]} /\ p % a = 0
  BY <1>4, <1>6 DEF p
<1> QED
  BY <1>2, <1>5, <1>8, <1>9, <1>10, <1>11, <1>12

\* A call that does not return leaves the mappings alone.
LEMMA AllocCrash ==
    ASSUME NEW size, NEW a, SafeAlignedAlloc(size, a), state' # "running"
    PROVE  UNCHANGED <<mapped, header, regions>>
BY DEF SafeAlignedAlloc, Crash

\* A free of a region a caller holds returns, and takes away that region.
LEMMA FreeResult ==
    ASSUME MapInv, NEW r \in regions, SafeAlignedFree(r)
    PROVE  MapInv' /\ state' = "running" /\ regions' = regions \ {r}
<1>1. state = "running" /\ IInv
  BY InvariantParts DEF SafeAlignedFree
<1>2. MapInv'
  <2>1. IInv'
    BY <1>1, FreeStep
  <2> QED
    BY <2>1, InvariantParts, PTL
<1>3. FreeError(header[Slot(r)]) = "none"
  BY <1>1, RegionFacts DEF FreeError
<1> QED
  BY <1>1, <1>2, <1>3 DEF SafeAlignedFree, Slot
================================================================================
