------------------------------ MODULE Words_proofs ------------------------------
(***************************************************************************)
(* What the arithmetic of Words and Pages computes, for words of any width. *)
(***************************************************************************)
EXTENDS Pages, WellFoundedInduction, TLAPS

\* Sums and differences of words are words.
LEMMA WordSums ==
    ASSUME NEW x \in Word, NEW y \in Word
    PROVE  AddW(x, y) \in Word /\ SubW(x, y) \in Word
BY WordModAssumption DEF Word, AddW, SubW

\* The padding is less than the alignment.
LEMMA PaddingBound ==
    ASSUME NEW x \in Word, NEW a \in Word \ {0}
    PROVE  Padding(x, a) \in 0..(a - 1) /\ Padding(x, a) \in Word
<1>1. x \in Nat /\ a \in Nat \ {0}
  BY WordModAssumption DEF Word
<1>2. Padding(x, a) \in 0..(a - 1)
  BY <1>1 DEF Padding
<1> QED
  BY <1>1, <1>2, WordModAssumption DEF Word

\* Aligning a word gives a word.
LEMMA AlignUpWord ==
    ASSUME NEW x \in Word, NEW a \in Word \ {0}
    PROVE  AlignUp(x, a) \in Word
BY PaddingBound, WordSums DEF AlignUp

\* The whole pools in a request are a word and less than a pool short of it.
LEMMA WholePools ==
    ASSUME NEW n \in Word, NEW p \in Word \ {0}
    PROVE  /\ (n \div p) * p \in Word
           /\ (n \div p) * p <= n /\ n < (n \div p) * p + p
<1> DEFINE whole == (n \div p) * p
<1>1. n \in Nat /\ p \in Nat \ {0}
  BY WordModAssumption DEF Word
<1>2. n = p * (n \div p) + (n % p)
  BY <1>1
<1>3. n % p \in 0..(p - 1) /\ n \div p \in Nat
  BY <1>1
<1>4. whole = p * (n \div p)
  BY <1>3, <1>1
<1>5. p * (n \div p) \in Nat
  BY <1>3, <1>1
<1> HIDE DEF whole
<1>6. n = whole + (n % p) /\ whole \in Nat
  BY <1>2, <1>4, <1>5
<1>7. whole \in Nat /\ whole <= n /\ n < whole + p
  BY <1>1, <1>3, <1>6
<1>8. whole \in Word
  BY <1>1, <1>7, WordModAssumption DEF Word
<1> QED
  BY <1>7, <1>8 DEF whole

\* A multiple of a leaves no remainder.
LEMMA MultipleMod ==
    ASSUME NEW k \in Nat, NEW a \in Nat \ {0}
    PROVE  (a * k) % a = 0
<1> DEFINE q == (a * k) \div a
           y == (a * k) % a
<1>1. a * k \in Nat
  OBVIOUS
<1>2. q \in Nat /\ y \in 0..(a - 1) /\ a * k = a * q + y
  BY <1>1
<1>3. a * (k - q) = y
  BY <1>2
<1>4. k - q = 0
  BY <1>2, <1>3
<1> QED
  BY <1>3, <1>4

\* Aligning a word gives the next multiple of the alignment where that is a word.
LEMMA AlignUpExact ==
    ASSUME NEW x \in Word, NEW a \in Word \ {0}, x + Padding(x, a) < WordMod
    PROVE  /\ AlignUp(x, a) = x + Padding(x, a)
           /\ AlignUp(x, a) % a = 0
<1> DEFINE q == x \div a
           y == x % a
<1>1. x \in Nat /\ a \in Nat \ {0} /\ WordMod \in Nat
  BY WordModAssumption DEF Word
<1>2. AlignUp(x, a) = x + Padding(x, a)
  BY <1>1, PaddingBound DEF AlignUp, AddW
<1>3. q \in Nat /\ y \in 0..(a - 1) /\ x = a * q + y
  BY <1>1
<1>4. CASE y = 0
  <2>1. Padding(x, a) = a % a
    BY <1>1, <1>4 DEF Padding
  <2>2. a % a = 0
    BY <1>1
  <2> QED
    BY <1>1, <1>2, <1>4, <2>1, <2>2
<1>5. CASE y # 0
  <2>1. Padding(x, a) = a - y
    BY <1>1, <1>3, <1>5 DEF Padding
  <2>2. AlignUp(x, a) = a * (q + 1)
    <3>1. a * (q + 1) = a * q + a
      BY <1>1, <1>3
    <3> QED
      BY <1>1, <1>2, <1>3, <2>1, <3>1
  <2>3. q + 1 \in Nat
    BY <1>3
  <2>4. (a * (q + 1)) % a = 0
    BY <1>1, <2>3, MultipleMod
  <2> QED
    BY <1>2, <2>2, <2>4
<1> QED
  BY <1>3, <1>4, <1>5

\* Where x + a does not wrap, the next multiple is less than a away.
LEMMA AlignUpNoWrap ==
    ASSUME NEW x \in Word, NEW a \in Word \ {0}, x + a < WordMod
    PROVE  /\ AlignUp(x, a) \in x..(x + a - 1)
           /\ AlignUp(x, a) % a = 0
<1>1. x \in Nat /\ a \in Nat \ {0} /\ WordMod \in Nat
  BY WordModAssumption DEF Word
<1>2. Padding(x, a) \in 0..(a - 1) /\ x + Padding(x, a) < WordMod
  BY <1>1, PaddingBound
<1> QED
  BY <1>1, <1>2, AlignUpExact

\* A request of n bytes that fits in the room left of x starts at a multiple of
\* the alignment, at or past x, and ends where the fill level is put.
LEMMA AlignedPiece ==
    ASSUME NEW x \in Word, NEW a \in Word \ {0}, NEW n \in Word, NEW cap \in Word,
           x <= cap, n + a < WordMod,
           AddW(n, Padding(x, a)) <= SubW(cap, x)
    PROVE  /\ AlignUp(x, a) \in Nat /\ x <= AlignUp(x, a) /\ AlignUp(x, a) % a = 0
           /\ AddW(x, AddW(n, Padding(x, a))) = AlignUp(x, a) + n
           /\ AlignUp(x, a) + n <= cap
<1>1. x \in Nat /\ a \in Nat \ {0} /\ n \in Nat /\ cap \in Nat /\ cap < WordMod /\ WordMod \in Nat
  BY WordModAssumption DEF Word
<1>2. Padding(x, a) \in Nat /\ Padding(x, a) < a
  BY <1>1, PaddingBound
<1>3. AddW(n, Padding(x, a)) = n + Padding(x, a) /\ SubW(cap, x) = cap - x
  BY <1>1, <1>2 DEF AddW, SubW
<1>4. x + n + Padding(x, a) <= cap
  BY <1>1, <1>2, <1>3
<1>5. AlignUp(x, a) = x + Padding(x, a) /\ AlignUp(x, a) % a = 0
  BY <1>1, <1>2, <1>4, AlignUpExact
<1>6. AddW(x, n + Padding(x, a)) = x + (n + Padding(x, a))
  BY <1>1, <1>2, <1>4 DEF AddW
<1> QED
  BY <1>1, <1>2, <1>3, <1>4, <1>5, <1>6

-------------------------------------------------------------------------------
(* Induction over sets of numbers, and the doublings of a word.              *)

\* A set of numbers with a member has a least one.
LEMMA Least ==
    ASSUME NEW S \in SUBSET Nat, S # {}
    PROVE  \E n \in S : \A m \in S : n <= m
<1>1. IsWellFoundedOn(OpToRel(<, Nat), Nat)
  BY NatLessThanWellFounded
<1>2. PICK n \in S : \A m \in S : ~(<<m, n>> \in OpToRel(<, Nat))
  BY <1>1, WFMin
<1>3. \A m \in S : ~(m < n)
  BY <1>2 DEF OpToRel
<1> QED
  BY <1>3

\* A set with 0 in it that is closed under successor has every number.
LEMMA SetInduction ==
    ASSUME NEW S, 0 \in S, \A n \in Nat : n \in S => n + 1 \in S
    PROVE  \A n \in Nat : n \in S
<1> DEFINE T == Nat \ S
<1>1. SUFFICES ASSUME T # {} PROVE FALSE
  OBVIOUS
<1>2. PICK n \in T : \A m \in T : n <= m
  BY <1>1, Least
<1>3. n # 0 /\ n - 1 \in Nat /\ n - 1 \notin T
  BY <1>2
<1> QED
  BY <1>3

\* A function on the numbers that doubles from x up to n.
DoublesUpTo(x, n) == {g \in [Nat -> Word] : g[0] = x /\ \A j \in 1..n : g[j] = DoubleW(g[j - 1])}

\* Twice a word is a word.
LEMMA DoubleWord ==
    ASSUME NEW x \in Word
    PROVE  DoubleW(x) \in Word
<1>1. 2 * x \in Nat /\ WordMod \in Nat \ {0}
  BY WordModAssumption DEF Word
<1>2. (2 * x) % WordMod \in 0..(WordMod - 1)
  BY <1>1
<1> QED
  BY <1>2 DEF DoubleW, Word

\* However far, there is a function that doubles up to there.
LEMMA DoublesExist ==
    ASSUME NEW x \in Word, NEW n \in Nat
    PROVE  DoublesUpTo(x, n) # {}
<1> DEFINE S == {m \in Nat : DoublesUpTo(x, m) # {}}
<1>1. 0 \in S
  <2>1. [j \in Nat |-> x] \in DoublesUpTo(x, 0)
    BY DEF DoublesUpTo
  <2> QED
    BY <2>1
<1>2. ASSUME NEW m \in Nat, m \in S PROVE m + 1 \in S
  <2>1. PICK g \in [Nat -> Word] : g[0] = x /\ \A j \in 1..m : g[j] = DoubleW(g[j - 1])
    BY <1>2 DEF DoublesUpTo
  <2> DEFINE h == [g EXCEPT ![m + 1] = DoubleW(g[m])]
  <2>2. DoubleW(g[m]) \in Word
    BY <2>1, DoubleWord
  <2>3. h \in [Nat -> Word] /\ h[m + 1] = DoubleW(g[m]) /\ \A j \in Nat : j # m + 1 => h[j] = g[j]
    BY <2>1, <2>2
  <2> HIDE DEF h
  <2>4. h[0] = x
    BY <2>1, <2>3
  <2>5. ASSUME NEW j \in 1..(m + 1) PROVE h[j] = DoubleW(h[j - 1])
    <3>1. CASE j = m + 1
      <4>1. j - 1 = m /\ m # m + 1
        BY <3>1
      <4>2. h[j - 1] = g[m]
        BY <2>3, <4>1
      <4> QED
        BY <2>3, <3>1, <4>2
    <3>2. CASE j # m + 1
      <4>1. j \in 1..m /\ j \in Nat /\ j - 1 \in Nat /\ j - 1 # m + 1
        BY <3>2
      <4>2. h[j] = g[j] /\ h[j - 1] = g[j - 1]
        BY <2>3, <3>2, <4>1
      <4> QED
        BY <2>1, <4>1, <4>2
    <3> QED
      BY <3>1, <3>2
  <2>6. h \in DoublesUpTo(x, m + 1)
    BY <2>3, <2>4, <2>5 DEF DoublesUpTo
  <2> QED
    BY <2>6
<1> HIDE DEF S
<1>3. n \in S
  BY <1>1, <1>2, SetInduction
<1> QED
  BY <1>3 DEF S

\* Two of them agree as far as they both double.
LEMMA DoublesAgree ==
    ASSUME NEW x \in Word, NEW n \in Nat, NEW g \in DoublesUpTo(x, n), NEW h \in DoublesUpTo(x, n)
    PROVE  g[n] = h[n]
<1> DEFINE S == {m \in Nat : \A f, e \in DoublesUpTo(x, m) : f[m] = e[m]}
<1>1. 0 \in S
  BY DEF DoublesUpTo
<1>2. ASSUME NEW m \in Nat, m \in S PROVE m + 1 \in S
  <2> SUFFICES ASSUME NEW f \in DoublesUpTo(x, m + 1), NEW e \in DoublesUpTo(x, m + 1)
               PROVE  f[m + 1] = e[m + 1]
    OBVIOUS
  <2>1. m + 1 \in 1..(m + 1) /\ (m + 1) - 1 = m /\ \A j \in 1..m : j \in 1..(m + 1)
    OBVIOUS
  <2>2. f \in DoublesUpTo(x, m) /\ e \in DoublesUpTo(x, m)
    BY <2>1 DEF DoublesUpTo
  <2>3. f[m] = e[m]
    BY <1>2, <2>2
  <2>4. f[m + 1] = DoubleW(f[m]) /\ e[m + 1] = DoubleW(e[m])
    BY <2>1 DEF DoublesUpTo
  <2> QED
    BY <2>3, <2>4
<1> HIDE DEF S
<1>3. n \in S
  BY <1>1, <1>2, SetInduction
<1> QED
  BY <1>3 DEF S

\* The doublings of a word: the word itself, then twice the one before.
LEMMA DoublingsStep ==
    ASSUME NEW x \in Word
    PROVE  /\ Doublings(x)[0] = x
           /\ \A k \in Nat : Doublings(x)[k + 1] = DoubleW(Doublings(x)[k])
<1> DEFINE a(n) == CHOOSE g : g \in DoublesUpTo(x, n)
           G == [n \in Nat |-> a(n)[n]]
<1>1. \A n \in Nat : a(n) \in DoublesUpTo(x, n)
  BY DoublesExist
<1>2. a(0)[0] = x
  BY <1>1 DEF DoublesUpTo
<1>3. ASSUME NEW n \in Nat, n # 0 PROVE a(n)[n] = DoubleW(a(n - 1)[n - 1])
  <2>1. n - 1 \in Nat /\ n \in 1..n /\ \A j \in 1..(n - 1) : j \in 1..n
    BY <1>3
  <2>2. a(n) \in DoublesUpTo(x, n) /\ a(n - 1) \in DoublesUpTo(x, n - 1)
    BY <1>1, <2>1
  <2> HIDE DEF a
  <2>3. a(n) \in DoublesUpTo(x, n - 1) /\ a(n)[n] = DoubleW(a(n)[n - 1])
    BY <2>1, <2>2 DEF DoublesUpTo
  <2>4. a(n)[n - 1] = a(n - 1)[n - 1]
    BY <2>1, <2>2, <2>3, DoublesAgree
  <2> QED
    BY <2>3, <2>4
<1> HIDE DEF a
<1>4. G = [k \in Nat |-> IF k = 0 THEN x ELSE DoubleW(G[k - 1])]
  <2>1. ASSUME NEW k \in Nat
        PROVE  a(k)[k] = IF k = 0 THEN x ELSE DoubleW(G[k - 1])
    <3>1. CASE k = 0
      BY <1>2, <3>1
    <3>2. CASE k # 0
      <4>1. k - 1 \in Nat
        BY <3>2
      <4> QED
        BY <1>3, <3>2, <4>1
    <3> QED
      BY <3>1, <3>2
  <2> QED
    BY <2>1
<1> HIDE DEF G
<1>5. Doublings(x) = [k \in Nat |-> IF k = 0 THEN x ELSE DoubleW(Doublings(x)[k - 1])]
  BY <1>4 DEF Doublings
<1>6. Doublings(x)[0] = x
  BY <1>5
<1>7. ASSUME NEW k \in Nat PROVE Doublings(x)[k + 1] = DoubleW(Doublings(x)[k])
  <2>1. k + 1 \in Nat /\ k + 1 # 0 /\ (k + 1) - 1 = k
    OBVIOUS
  <2> QED
    BY <1>5, <2>1
<1> QED
  BY <1>6, <1>7

-------------------------------------------------------------------------------
(* What the kernel maps.                                                     *)

\* A length whose slack, header and pages do not wrap is at most the largest
\* mapping.
LEMMA MappableBound ==
    ASSUME NEW s \in Word, NEW a \in Word, s + a + MetaSize + PageSize < WordMod, Mappable(s, a)
    PROVE  s <= MmapLimit
<1>1. /\ s \in Nat /\ a \in Nat /\ MetaSize \in Nat /\ PageSize \in Nat \ {0} /\ WordMod \in Nat
      /\ PageSize \in Word \ {0} /\ MmapLimit \in Nat
  BY WordModAssumption, PagesAssumption DEF Word
<1>2. AddW(s, a) = s + a
  BY <1>1 DEF AddW
<1>3. AddW(s + a, MetaSize) = s + a + MetaSize
  BY <1>1 DEF AddW
<1> DEFINE length == s + a + MetaSize
<1>4. length \in Word /\ length + PageSize < WordMod /\ s <= length /\ length \in Nat
  BY <1>1 DEF Word
<1>5. TotalSize(s, a) = AlignUp(length, PageSize)
  BY <1>2, <1>3 DEF TotalSize
<1> HIDE DEF length
<1>6. AlignUp(length, PageSize) \in length..(length + PageSize - 1)
  BY <1>1, <1>4, AlignUpNoWrap
<1>7. AlignUp(length, PageSize) <= MmapLimit
  BY <1>1, <1>5 DEF Mappable
<1> QED
  BY <1>1, <1>4, <1>6, <1>7

\* A mapped capacity, doubled and mapped again, did not wrap.
LEMMA DoubledMapped ==
    ASSUME NEW c \in Nat, c <= MmapLimit, NEW a \in 1..AlignLimit, Mappable(DoubleW(c), a)
    PROVE  DoubleW(c) = 2 * c /\ DoubleW(c) <= MmapLimit
<1>1. /\ WordMod \in Nat /\ MmapLimit \in Nat /\ AlignLimit \in Word /\ AlignLimit \in Nat
      /\ MetaSize \in Nat /\ PageSize \in Nat
      /\ 2 * MmapLimit + AlignLimit + MetaSize + PageSize < WordMod
  BY WordModAssumption, PagesAssumption DEF Word
<1>2. /\ 2 * c \in Nat /\ 2 * c < WordMod /\ a \in Nat
      /\ 2 * c + a + MetaSize + PageSize < WordMod
  BY <1>1
<1>3. DoubleW(c) = 2 * c
  BY <1>1, <1>2 DEF DoubleW
<1>4. 2 * c \in Word /\ a \in Word
  BY <1>1, <1>2 DEF Word
<1>5. Mappable(2 * c, a)
  BY <1>3
<1> HIDE DEF Word
<1>6. 2 * c <= MmapLimit
  BY <1>2, <1>4, <1>5, MappableBound
<1> QED
  BY <1>3, <1>6

\* A region is mapped in full where the sums of its size and the slack, the header
\* and a page do not wrap.
LEMMA UsableWhole ==
    ASSUME NEW size \in Word, NEW a \in Word \ {0}, size + a + MetaSize + PageSize < WordMod
    PROVE  UsableBytes(size, a) = size /\ RoomBehind(size, a) \in Nat
<1>1. /\ size \in Nat /\ a \in Nat \ {0} /\ MetaSize \in Nat /\ PageSize \in Nat \ {0}
      /\ WordMod \in Nat /\ PageSize \in Word /\ MetaSize \in Word
  BY WordModAssumption, PagesAssumption DEF Word
<1>2. AddW(AddW(size, a), MetaSize) = size + a + MetaSize
  BY <1>1 DEF AddW
<1>3. size + a + MetaSize \in Word
  BY <1>1 DEF Word
<1> HIDE DEF Word
<1>4. TotalSize(size, a) \in Int /\ TotalSize(size, a) >= size + a + MetaSize
  <2>1. AlignUp(size + a + MetaSize, PageSize)
           \in (size + a + MetaSize)..(size + a + MetaSize + PageSize - 1)
    BY <1>1, <1>3, AlignUpNoWrap
  <2> QED
    BY <1>1, <1>2, <2>1 DEF TotalSize
<1>5. AlignUp(MetaSize, a) \in Int /\ AlignUp(MetaSize, a) < MetaSize + a
  <2>1. MetaSize + a < WordMod
    BY <1>1
  <2> QED
    BY <1>1, <2>1, AlignUpNoWrap
<1>6. RoomBehind(size, a) \in Int /\ RoomBehind(size, a) >= size
  BY <1>1, <1>4, <1>5 DEF RoomBehind
<1> QED
  BY <1>1, <1>6 DEF UsableBytes

\* So it is where the kernel can map the size.
LEMMA UsableMapped ==
    ASSUME NEW size \in Word, size <= MmapLimit, NEW a \in 1..AlignLimit
    PROVE  UsableBytes(size, a) = size
<1>1. /\ size \in Nat /\ a \in Nat \ {0} /\ MetaSize \in Nat /\ PageSize \in Nat
      /\ WordMod \in Nat /\ MmapLimit \in Nat /\ AlignLimit \in Nat /\ AlignLimit < WordMod
      /\ 2 * MmapLimit + AlignLimit + MetaSize + PageSize < WordMod
  BY WordModAssumption, PagesAssumption DEF Word
<1>2. a \in Word \ {0} /\ size + a + MetaSize + PageSize < WordMod
  BY <1>1 DEF Word
<1> HIDE DEF Word
<1> QED
  BY <1>2, UsableWhole

\* What is mapped of a region is a word in any case.
LEMMA UsableWord ==
    ASSUME NEW size \in Word, NEW a \in Word \ {0}
    PROVE  UsableBytes(size, a) \in Word
<1>1. /\ size \in Nat /\ a \in Nat \ {0} /\ PageSize \in Nat \ {0} /\ WordMod \in Nat
      /\ PageSize \in Word /\ MetaSize \in Word
  BY WordModAssumption, PagesAssumption DEF Word
<1>2. RoomBehind(size, a) \in Int
  <2>1. AddW(AddW(size, a), MetaSize) \in Word
    BY <1>1, WordSums
  <2>2. TotalSize(size, a) \in Word /\ AlignUp(MetaSize, a) \in Word
    BY <1>1, <2>1, AlignUpWord DEF TotalSize
  <2> QED
    BY <2>2 DEF RoomBehind, Word
<1> QED
  BY <1>1, <1>2 DEF UsableBytes, Word

-------------------------------------------------------------------------------
(* Divisors and powers of two.                                               *)

\* The remainder of a multiple and a rest.
LEMMA Remainder ==
    ASSUME NEW a \in Nat \ {0}, NEW k \in Int, NEW y \in 0..(a - 1), a * k + y \in Nat
    PROVE  (a * k + y) % a = y
<1> DEFINE x == a * k + y
           q == x \div a
           r == x % a
<1>1. q \in Nat /\ r \in 0..(a - 1) /\ x = a * q + r
  OBVIOUS
<1>2. a * (k - q) = r - y
  BY <1>1
<1>3. k - q = 0
  BY <1>1, <1>2
<1> QED
  BY <1>1, <1>2, <1>3

\* A multiple and its factor.
LEMMA Multiple ==
    ASSUME NEW a \in Nat \ {0}, NEW x \in Nat, x % a = 0
    PROVE  \E k \in Nat : x = a * k
<1>1. x = a * (x \div a) + (x % a) /\ x \div a \in Nat
  OBVIOUS
<1> QED
  BY <1>1

\* A number above 1 that no odd number above 1 divides is even.
LEMMA PowerIsEven ==
    ASSUME NEW x \in Nat, x > 1, IsPowerOfTwo(x)
    PROVE  \E h \in Nat \ {0} : x = 2 * h /\ IsPowerOfTwo(h)
<1>1. x % 2 = 0
  <2>1. ASSUME x % 2 = 1 PROVE FALSE
    <3>1. x \in 3..x
      BY <2>1
    <3>2. x % x = 0
      OBVIOUS
    <3> QED
      BY <2>1, <3>1, <3>2 DEF IsPowerOfTwo
  <2>2. x % 2 \in 0..1
    OBVIOUS
  <2> QED
    BY <2>1, <2>2
<1>2. PICK h \in Nat : x = 2 * h
  BY <1>1, Multiple
<1>3. h # 0 /\ h <= x
  BY <1>2
<1>4. ASSUME NEW d \in 3..h, d % 2 = 1, h % d = 0
      PROVE  FALSE
  <2>1. PICK k \in Nat : h = d * k
    BY <1>4, Multiple
  <2>2. 2 * k \in Nat /\ x = d * (2 * k)
    BY <1>2, <2>1
  <2>3. x % d = 0
    BY <2>2, MultipleMod
  <2>4. d \in 3..x
    BY <1>3
  <2> QED
    BY <1>4, <2>3, <2>4 DEF IsPowerOfTwo
<1>5. IsPowerOfTwo(h)
  BY <1>3, <1>4 DEF IsPowerOfTwo
<1> QED
  BY <1>2, <1>3, <1>5

\* Of two powers of two the smaller divides the larger.
LEMMA PowersDivide ==
    ASSUME NEW v \in Nat, NEW w \in Nat, IsPowerOfTwo(v), IsPowerOfTwo(w), v <= w
    PROVE  w % v = 0
<1> DEFINE S == {x \in Nat : \E y \in Nat : /\ IsPowerOfTwo(x) /\ IsPowerOfTwo(y)
                                            /\ y <= x /\ x % y # 0}
<1> SUFFICES ASSUME S # {}
             PROVE  FALSE
  OBVIOUS
<1>1. PICK x \in S : \A z \in S : x <= z
  BY Least
<1>2. PICK y \in Nat : IsPowerOfTwo(x) /\ IsPowerOfTwo(y) /\ y <= x /\ x % y # 0
  BY <1>1
<1>3. x \in Nat /\ y > 1
  <2>1. y # 0
    BY <1>2 DEF IsPowerOfTwo
  <2>2. x % 1 = 0
    BY <1>1
  <2> QED
    BY <1>1, <1>2, <2>1, <2>2
<1>4. PICK g \in Nat \ {0} : y = 2 * g /\ IsPowerOfTwo(g)
  BY <1>2, <1>3, PowerIsEven
<1>5. PICK h \in Nat \ {0} : x = 2 * h /\ IsPowerOfTwo(h)
  BY <1>2, <1>3, PowerIsEven
<1>6. g <= h /\ h < x
  BY <1>2, <1>4, <1>5
<1>7. h \notin S
  BY <1>1, <1>3, <1>6
<1>8. h % g = 0
  BY <1>4, <1>5, <1>6, <1>7
<1>9. PICK k \in Nat : h = g * k
  BY <1>8, Multiple
<1>10. x = y * k /\ y \in Nat \ {0}
  BY <1>3, <1>4, <1>5, <1>9
<1>11. x % y = 0
  BY <1>10, MultipleMod
<1> QED
  BY <1>2, <1>11

\* Sums that wrap are taken apart again by a difference that wraps.
LEMMA SumsCancel ==
    ASSUME NEW x \in Word, NEW y \in Word, NEW z \in Word
    PROVE  /\ SubW(AddW(x, y), x) = y
           /\ SubW(AddW(AddW(x, y), z), x) = AddW(y, z)
<1>1. x \in Nat /\ y \in Nat /\ z \in Nat /\ WordMod \in Nat
      /\ x < WordMod /\ y < WordMod /\ z < WordMod
  BY WordModAssumption DEF Word
<1> QED
  BY <1>1 DEF AddW, SubW
===============================================================================
