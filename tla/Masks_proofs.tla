------------------------------ MODULE Masks_proofs ------------------------------
(***************************************************************************)
(* Theorems about the bit masks: on words of any width the arithmetic of    *)
(* Words is what the masks compute.                                         *)
(***************************************************************************)
EXTENDS Masks, Words_proofs

-------------------------------------------------------------------------------
(* Places.                                                                   *)

\* The quotient of a multiple and a rest.
LEMMA Quotient ==
    ASSUME NEW a \in Nat \ {0}, NEW k \in Nat, NEW r \in 0..(a - 1)
    PROVE  (a * k + r) \div a = k
<1> DEFINE v == a * k + r
           q == v \div a
           s == v % a
<1>1. v \in Nat
  OBVIOUS
<1>2. q \in Nat /\ s \in 0..(a - 1) /\ v = a * q + s
  BY <1>1
<1>3. s = r
  BY <1>1, <1>2, Remainder
<1>4. a * (q - k) = 0
  BY <1>2, <1>3
<1>5. q - k = 0
  BY <1>2, <1>4
<1> QED
  BY <1>2, <1>5

\* The remainder of such a sum.
LEMMA RemainderIs ==
    ASSUME NEW a \in Nat \ {0}, NEW k \in Int, NEW z, z = a * k,
           NEW r \in 0..(a - 1), NEW w \in Nat, w = z + r
    PROVE  w % a = r
BY Remainder

\* Twice a power of two is a power of two.
LEMMA TwiceIsPower ==
    ASSUME NEW p \in Nat, IsPowerOfTwo(p)
    PROVE  IsPowerOfTwo(2 * p)
<1>1. p > 0
  BY DEF IsPowerOfTwo
<1>2. ASSUME NEW d \in 3..(2 * p), d % 2 = 1, (2 * p) % d = 0
      PROVE  FALSE
  <2>1. PICK k \in Nat : 2 * p = d * k
    BY <1>2, Multiple
  <2>2. PICK e \in Nat : d = 2 * e + 1
    <3>1. d = 2 * (d \div 2) + 1 /\ d \div 2 \in Nat
      BY <1>2
    <3> QED
      BY <3>1
  <2>3. PICK m \in Nat : m = e * k
    BY <2>1, <2>2
  <2>4. d * k = 2 * m + k
    BY <2>1, <2>2, <2>3
  <2>5. PICK j \in Nat : j = p - m
    BY <2>1, <2>3, <2>4
  <2>6. k = 2 * j
    BY <2>1, <2>4, <2>5
  <2>7. d * (2 * j) = 2 * (d * j)
    BY <2>5
  <2>8. p = d * j
    BY <2>1, <2>6, <2>7
  <2>9. j # 0
    BY <1>1, <2>8
  <2>10. p >= d
    BY <2>8, <2>9
  <2>11. p % d = 0
    BY <2>8, MultipleMod
  <2> QED
    BY <1>2, <2>10, <2>11 DEF IsPowerOfTwo
<1> QED
  BY <1>1, <1>2 DEF IsPowerOfTwo

\* Of two powers of two, twice the smaller divides the larger.
LEMMA TwiceDivides ==
    ASSUME NEW p \in Nat, NEW q \in Nat, IsPowerOfTwo(p), IsPowerOfTwo(q), p < q
    PROVE  \E h \in Nat \ {0} : q = p * (2 * h)
<1>1. p > 0 /\ 2 * p \in Nat \ {0} /\ IsPowerOfTwo(2 * p)
  <2>1. p > 0
    BY DEF IsPowerOfTwo
  <2> QED
    BY <2>1, TwiceIsPower
<1>2. \E h \in Nat : q = (2 * p) * h
  <2>1. CASE 2 * p <= q
    <3>1. q % (2 * p) = 0
      BY <1>1, <2>1, PowersDivide
    <3> QED
      BY <1>1, <3>1, Multiple
  <2>2. CASE q < 2 * p
    <3>1. (2 * p) % q = 0
      BY <1>1, <2>2, PowersDivide
    <3>2. PICK j \in Nat : 2 * p = q * j
      BY <1>1, <3>1, Multiple
    <3>3. j # 0
      BY <1>1, <3>2
    <3>4. ~(j >= 2)
      <4>1. ASSUME j >= 2 PROVE q * j >= q * 2
        BY <4>1
      <4> QED
        BY <3>2, <4>1
    <3> QED
      BY <2>2, <3>2, <3>3, <3>4
  <2> QED
    BY <1>1, <2>1, <2>2
<1>3. PICK h \in Nat : q = (2 * p) * h
  BY <1>2
<1>4. h # 0
  BY <1>1, <1>3
<1>5. (2 * p) * h = p * (2 * h)
  BY <1>3
<1> QED
  BY <1>3, <1>4, <1>5

\* A power of two is no smaller than another or twice divides it, which gives
\* the number of words in particular.
LEMMA PlaceOf ==
    ASSUME NEW p \in Places
    PROVE  /\ p \in Nat \ {0} /\ p \in Word /\ IsPowerOfTwo(p) /\ p < WordMod
           /\ \E h \in Nat \ {0} : WordMod = p * (2 * h)
<1>1. p \in Nat \ {0} /\ p \in Word /\ IsPowerOfTwo(p) /\ p < WordMod /\ WordMod \in Nat
  BY WordModAssumption DEF Places, Word
<1> QED
  BY <1>1, WidthAssumption, TwiceDivides

\* The bits of 0.
LEMMA NoBits == Bits(0) = {}
<1>1. ASSUME NEW p \in Places PROVE (0 \div p) % 2 = 0
  <2>1. p \in Nat \ {0}
    BY PlaceOf
  <2>2. p * 0 + 0 = 0 /\ 0 \in 0..(p - 1)
    BY <2>1
  <2>3. 0 \div p = 0
    BY <2>1, <2>2, Quotient
  <2> QED
    BY <2>3
<1> QED
  BY <1>1 DEF Bits

\* Whether there is a 1 in a place.
LEMMA BitAt ==
    ASSUME NEW p \in Places, NEW k \in Nat, NEW r \in 0..(p - 1), NEW w, w = p * k + r
    PROVE  p \in Bits(w) <=> k % 2 = 1
<1>1. w \div p = k
  BY PlaceOf, Quotient
<1> QED
  BY <1>1 DEF Bits

\* A half and the odd one.
LEMMA Halves ==
    ASSUME NEW k \in Nat
    PROVE  \E h \in Nat, t \in {0, 1} : k = 2 * h + t /\ t = k % 2
<1>1. k \div 2 \in Nat /\ k = 2 * (k \div 2) + (k % 2)
  OBVIOUS
<1>2. k % 2 \in {0, 1}
  OBVIOUS
<1> QED
  BY <1>1, <1>2

\* The remainder of an even and an odd number.
LEMMA Parity ==
    ASSUME NEW h \in Nat
    PROVE  /\ (2 * h) % 2 = 0 /\ (2 * h + 1) % 2 = 1
           /\ h > 0 => (2 * h - 1) \in Nat /\ (2 * h - 1) % 2 = 1
OBVIOUS

-------------------------------------------------------------------------------
(* The words the masks are made of.                                          *)

\* a - 1 has a 1 in every place below a.
LEMMA LowBits ==
    ASSUME NEW a \in Places
    PROVE  a - 1 \in Word /\ Bits(a - 1) = {p \in Places : p < a}
<1>1. a \in Nat \ {0} /\ IsPowerOfTwo(a) /\ a - 1 \in Word
  <2>1. a \in Nat \ {0} /\ IsPowerOfTwo(a) /\ a < WordMod
    BY PlaceOf
  <2> QED
    BY <2>1, WordModAssumption DEF Word
<1>2. ASSUME NEW p \in Places, p < a
      PROVE  p \in Bits(a - 1)
  <2>1. p \in Nat \ {0} /\ IsPowerOfTwo(p)
    BY PlaceOf
  <2>2. PICK h \in Nat \ {0} : a = p * (2 * h)
    BY <1>1, <1>2, <2>1, TwiceDivides
  <2>3. PICK k \in Nat : k = 2 * h - 1 /\ k % 2 = 1
    BY Parity
  <2>4. p * k = p * (2 * h) - p
    BY <2>1, <2>3
  <2>5. a - 1 = p * k + (p - 1) /\ p - 1 \in 0..(p - 1)
    BY <2>1, <2>2, <2>4
  <2> QED
    BY <2>3, <2>5, BitAt
<1>3. ASSUME NEW p \in Places, ~(p < a)
      PROVE  p \notin Bits(a - 1)
  <2>1. p \in Nat \ {0}
    BY PlaceOf
  <2>2. a - 1 = p * 0 + (a - 1) /\ a - 1 \in 0..(p - 1) /\ 0 % 2 # 1
    BY <1>1, <1>3, <2>1
  <2> QED
    BY <2>2, BitAt
<1> QED
  BY <1>1, <1>2, <1>3 DEF Bits

\* WordMod - a has a 1 in the others.
LEMMA HighBits ==
    ASSUME NEW a \in Places
    PROVE  WordMod - a \in Word /\ Bits(WordMod - a) = {p \in Places : a <= p}
<1>1. a \in Nat \ {0} /\ IsPowerOfTwo(a) /\ WordMod - a \in Word /\ WordMod \in Nat
  <2>1. a \in Nat \ {0} /\ IsPowerOfTwo(a) /\ a < WordMod
    BY PlaceOf
  <2> QED
    BY <2>1, WordModAssumption DEF Word
<1>2. ASSUME NEW p \in Places, ~(a <= p)
      PROVE  p \notin Bits(WordMod - a)
  <2>1. p \in Nat \ {0} /\ IsPowerOfTwo(p)
    BY PlaceOf
  <2>10. p < a
    BY <1>1, <1>2, <2>1
  <2>2. PICK h \in Nat \ {0} : WordMod = p * (2 * h)
    BY PlaceOf
  <2>3. PICK j \in Nat \ {0} : a = p * (2 * j)
    BY <1>1, <2>1, <2>10, TwiceDivides
  <2>4. h - j \in Nat
    <3>1. a < WordMod
      BY PlaceOf
    <3>2. ASSUME h < j PROVE p * (2 * h) <= p * (2 * j)
      BY <2>1, <3>2
    <3> QED
      BY <1>1, <2>2, <2>3, <3>1, <3>2
  <2>5. PICK k \in Nat : k = h - j
    BY <2>4
  <2>6. p * (2 * k) = p * (2 * h) - p * (2 * j)
    BY <2>1, <2>5
  <2>7. WordMod - a = p * (2 * k) + 0 /\ 0 \in 0..(p - 1)
    BY <2>1, <2>2, <2>3, <2>6
  <2>8. 2 * k \in Nat /\ (2 * k) % 2 # 1
    BY Parity
  <2> QED
    BY <2>7, <2>8, BitAt
<1>3. ASSUME NEW p \in Places, a <= p
      PROVE  p \in Bits(WordMod - a)
  <2>1. p \in Nat \ {0}
    BY PlaceOf
  <2>2. PICK h \in Nat \ {0} : WordMod = p * (2 * h)
    BY PlaceOf
  <2>3. PICK k \in Nat : k = 2 * h - 1 /\ k % 2 = 1
    BY Parity
  <2>4. p * k = p * (2 * h) - p
    BY <2>1, <2>3
  <2>5. WordMod - a = p * k + (p - a) /\ p - a \in 0..(p - 1)
    BY <1>1, <1>3, <2>1, <2>2, <2>4
  <2> QED
    BY <2>3, <2>5, BitAt
<1> QED
  BY <1>1, <1>2, <1>3 DEF Bits

\* a itself has none below a.
LEMMA PowerBits ==
    ASSUME NEW a \in Places, NEW p \in Places, p < a
    PROVE  p \notin Bits(a)
<1>1. a \in Nat \ {0} /\ IsPowerOfTwo(a) /\ p \in Nat \ {0} /\ IsPowerOfTwo(p)
  BY PlaceOf
<1>2. PICK h \in Nat \ {0} : a = p * (2 * h)
  BY <1>1, TwiceDivides
<1>3. a = p * (2 * h) + 0 /\ 0 \in 0..(p - 1)
  BY <1>1, <1>2
<1>4. 2 * h \in Nat /\ (2 * h) % 2 # 1
  BY Parity
<1> QED
  BY <1>3, <1>4, BitAt

\* The multiple of a below v has the bits v has from a on.
LEMMA ClearedBits ==
    ASSUME NEW a \in Places, NEW v \in Word
    PROVE  /\ v - (v % a) \in Word
           /\ Bits(v - (v % a)) = Bits(v) \cap {p \in Places : a <= p}
<1>1. a \in Nat \ {0} /\ IsPowerOfTwo(a) /\ v \in Nat
  <2>1. v \in Nat
    BY WordModAssumption DEF Word
  <2> QED
    BY <2>1, PlaceOf
<1>2. PICK k \in Nat, r \in 0..(a - 1) : v = a * k + r /\ r = v % a
  <2>1. v \div a \in Nat /\ v % a \in 0..(a - 1) /\ v = a * (v \div a) + (v % a)
    BY <1>1
  <2> QED
    BY <2>1
<1>3. PICK z \in Nat : z = a * k
  BY <1>1
<1>4. z = v - (v % a) /\ z \in Word
  BY <1>1, <1>2, <1>3, WordModAssumption DEF Word
<1>5. ASSUME NEW p \in Places, ~(a <= p)
      PROVE  p \notin Bits(z)
  <2>1. p \in Nat \ {0} /\ IsPowerOfTwo(p)
    BY PlaceOf
  <2>2. PICK j \in Nat \ {0} : a = p * (2 * j)
    BY <1>1, <1>5, <2>1, TwiceDivides
  <2>3. PICK m \in Nat : m = j * k
    BY <2>2
  <2>4. (p * (2 * j)) * k = p * (2 * m)
    BY <2>1, <2>2, <2>3
  <2>5. z = p * (2 * m) + 0 /\ 0 \in 0..(p - 1)
    BY <1>3, <2>1, <2>2, <2>4
  <2>6. 2 * m \in Nat /\ (2 * m) % 2 # 1
    BY <2>3, Parity
  <2> QED
    BY <2>5, <2>6, BitAt
<1>6. ASSUME NEW p \in Places, a <= p
      PROVE  p \in Bits(z) <=> p \in Bits(v)
  <2>1. p \in Nat \ {0} /\ IsPowerOfTwo(p)
    BY PlaceOf
  <2>2. PICK j \in Nat : p = a * j
    <3>1. p % a = 0
      BY <1>1, <1>6, <2>1, PowersDivide
    <3> QED
      BY <1>1, <2>1, <3>1, Multiple
  <2>3. PICK q \in Nat, s \in 0..(p - 1) : v = p * q + s
    <3>1. v \div p \in Nat /\ v % p \in 0..(p - 1) /\ v = p * (v \div p) + (v % p)
      BY <1>1, <2>1
    <3> QED
      BY <3>1
  <2>4. PICK m \in Nat : m = j * q
    BY <2>2, <2>3
  <2>5. p * q = a * m
    BY <1>1, <2>2, <2>3, <2>4
  <2>6. s - r = a * (k - m)
    BY <1>1, <1>2, <2>3, <2>5
  <2>7. k - m >= 0
    <3>1. ASSUME k - m <= -1 PROVE a * (k - m) <= -a
      BY <1>1, <3>1, <2>4
    <3> QED
      BY <1>1, <1>2, <2>3, <2>4, <2>6, <3>1
  <2>8. s - r >= 0
    <3>1. a * (k - m) >= 0
      BY <1>1, <2>4, <2>7
    <3> QED
      BY <2>6, <3>1
  <2>9. s - r \in 0..(p - 1)
    BY <1>1, <2>1, <2>8
  <2>10. z = p * q + (s - r)
    BY <1>2, <1>3, <2>3, <2>1
  <2>11. p \in Bits(z) <=> q % 2 = 1
    BY <2>9, <2>10, BitAt
  <2>12. p \in Bits(v) <=> q % 2 = 1
    BY <2>3, BitAt
  <2> QED
    BY <2>11, <2>12
<1>7. Bits(z) = Bits(v) \cap {p \in Places : a <= p}
  BY <1>5, <1>6 DEF Bits
<1> QED
  BY <1>4, <1>7

-------------------------------------------------------------------------------
(* A word is determined by its bits, and any bits make a word.               *)

\* The remainder by 2g is the remainder by g and the bit at g.
LEMMA DoubleRemainder ==
    ASSUME NEW g \in Nat \ {0}, NEW q, q = 2 * g, NEW w \in Nat
    PROVE  w % q = g * ((w \div g) % 2) + (w % g)
<1>0. q \in Nat \ {0}
  OBVIOUS
<1>1. w \div g \in Nat /\ w % g \in 0..(g - 1) /\ w = g * (w \div g) + (w % g)
  OBVIOUS
<1>2. PICK k \in Nat, r \in 0..(g - 1) : w = g * k + r /\ k = w \div g /\ r = w % g
  BY <1>1
<1>3. PICK h \in Nat, t \in {0, 1} : k = 2 * h + t /\ t = k % 2
  BY Halves
<1>4. g * k = q * h + g * t
  <2>1. g * (2 * h) = (2 * g) * h
    BY <1>3
  <2>2. g * (2 * h + t) = g * (2 * h) + g * t
    BY <1>3
  <2> QED
    BY <1>3, <2>1, <2>2
<1>5. g * t \in {0, g}
  <2>1. g * 0 = 0 /\ g * 1 = g
    OBVIOUS
  <2> QED
    BY <1>3, <2>1
<1>6. PICK e \in 0..(q - 1) : e = g * t + r /\ w = q * h + e
  BY <1>2, <1>4, <1>5
<1>7. PICK z \in Int : z = q * h
  BY <1>0, <1>3
<1>8. w = z + e
  BY <1>6, <1>7
<1>9. w % q = e
  BY <1>0, <1>3, <1>6, <1>7, <1>8, RemainderIs
<1> QED
  BY <1>2, <1>3, <1>6, <1>9

\* Two words with the same bits are the same.
LEMMA BitsDetermine ==
    ASSUME NEW u \in Word, NEW v \in Word, Bits(u) = Bits(v)
    PROVE  u = v
<1> DEFINE S == {q \in Nat : IsPowerOfTwo(q) /\ q <= WordMod /\ u % q # v % q}
<1>1. u \in Nat /\ v \in Nat /\ WordMod \in Nat /\ WordMod > 1 /\ u < WordMod /\ v < WordMod
  BY WordModAssumption DEF Word
<1>2. S = {}
  <2> SUFFICES ASSUME S # {} PROVE FALSE
    OBVIOUS
  <2>1. PICK q \in S : \A p \in S : q <= p
    BY Least
  <2>2. q \in Nat /\ q > 1 /\ IsPowerOfTwo(q) /\ q <= WordMod
    <3>1. q # 0
      BY DEF IsPowerOfTwo
    <3>2. u % 1 = 0 /\ v % 1 = 0
      BY <1>1
    <3> QED
      BY <3>1, <3>2
  <2>3. PICK g \in Nat \ {0} : q = 2 * g /\ IsPowerOfTwo(g)
    BY <2>2, PowerIsEven
  <2>4. g < q /\ g <= WordMod
    BY <1>1, <2>2, <2>3
  <2>5. u % g = v % g
    BY <2>1, <2>3, <2>4
  <2>6. g \in Places
    BY <1>1, <2>3, <2>4 DEF Places, Word
  <2>7. /\ u % q = g * ((u \div g) % 2) + (u % g)
        /\ v % q = g * ((v \div g) % 2) + (v % g)
    BY <1>1, <2>2, <2>3, DoubleRemainder
  <2>8. (u \div g) % 2 = (v \div g) % 2
    <3>1. (u \div g) % 2 = 1 <=> (v \div g) % 2 = 1
      BY <2>6 DEF Bits
    <3>2. (u \div g) % 2 \in {0, 1} /\ (v \div g) % 2 \in {0, 1}
      BY <1>1, <2>3
    <3> QED
      BY <3>1, <3>2
  <2> QED
    BY <1>1, <2>5, <2>7, <2>8
<1>3. u % WordMod = v % WordMod
  BY <1>1, <1>2, WidthAssumption
<1> QED
  BY <1>1, <1>3

\* One more bit above those a word has.
LEMMA OneMoreBit ==
    ASSUME NEW g \in Places, NEW u \in 0..(g - 1)
    PROVE  Bits(u + g) = Bits(u) \cup {g}
<1>1. g \in Nat \ {0} /\ IsPowerOfTwo(g) /\ u \in Nat /\ u < g
  <2>1. g \in Nat \ {0} /\ IsPowerOfTwo(g)
    BY PlaceOf
  <2> QED
    BY <2>1
<1>2. ASSUME NEW p \in Places, p < g
      PROVE  p \in Bits(u + g) <=> p \in Bits(u)
  <2>1. p \in Nat \ {0} /\ IsPowerOfTwo(p)
    BY PlaceOf
  <2>2. PICK h \in Nat \ {0} : g = p * (2 * h)
    BY <1>1, <1>2, <2>1, TwiceDivides
  <2>3. PICK k \in Nat, r \in 0..(p - 1) : u = p * k + r
    <3>1. u \div p \in Nat /\ u % p \in 0..(p - 1) /\ u = p * (u \div p) + (u % p)
      BY <1>1, <2>1
    <3> QED
      BY <3>1
  <2>4. p * (k + 2 * h) = p * k + p * (2 * h)
    BY <2>1, <2>2, <2>3
  <2>5. u + g = p * (k + 2 * h) + r /\ k + 2 * h \in Nat
    BY <2>2, <2>3, <2>4
  <2>6. (k + 2 * h) % 2 = k % 2
    BY <2>2, <2>3
  <2>7. p \in Bits(u + g) <=> (k + 2 * h) % 2 = 1
    BY <2>3, <2>5, BitAt
  <2>8. p \in Bits(u) <=> k % 2 = 1
    BY <2>3, BitAt
  <2> QED
    BY <2>6, <2>7, <2>8
<1>3. ASSUME NEW p \in Places, p > g
      PROVE  p \notin Bits(u + g)
  <2>1. p \in Nat \ {0} /\ IsPowerOfTwo(p)
    BY PlaceOf
  <2>2. PICK h \in Nat \ {0} : p = g * (2 * h)
    BY <1>1, <1>3, <2>1, TwiceDivides
  <2>3. g * (2 * h) >= 2 * g
    BY <1>1, <2>2
  <2>4. u + g = p * 0 + (u + g) /\ u + g \in 0..(p - 1) /\ 0 % 2 # 1
    BY <1>1, <2>1, <2>2, <2>3
  <2> QED
    BY <2>4, BitAt
<1>4. ASSUME NEW p \in Places, ~(p < g)
      PROVE  p \notin Bits(u)
  <2>1. p \in Nat \ {0}
    BY PlaceOf
  <2>2. u = p * 0 + u /\ u \in 0..(p - 1) /\ 0 % 2 # 1
    BY <1>1, <1>4, <2>1
  <2> QED
    BY <2>2, BitAt
<1>5. g \in Bits(u + g)
  <2>1. u + g = g * 1 + u /\ 1 % 2 = 1
    BY <1>1
  <2> QED
    BY <1>1, <2>1, BitAt
<1>6. \A p \in Places : p \in Nat /\ (p < g \/ p = g \/ p > g)
  <2>1. \A p \in Places : p \in Nat
    BY PlaceOf
  <2>2. \A p \in Nat : p < g \/ p = g \/ p > g
    BY <1>1
  <2> QED
    BY <2>1, <2>2
<1>7. \A p \in Places : p \in Bits(u + g) <=> p \in Bits(u) \cup {g}
  BY <1>1, <1>2, <1>3, <1>4, <1>5, <1>6
<1> QED
  BY <1>7 DEF Bits

\* Every choice of bits is some word's.
LEMMA AnyBits ==
    ASSUME NEW B \in SUBSET Places
    PROVE  \E u \in Word : Bits(u) = B
<1> DEFINE Below(q) == {p \in B : p < q}
           S == {q \in Nat : /\ IsPowerOfTwo(q) /\ q <= WordMod
                             /\ \A u \in 0..(q - 1) : Bits(u) # Below(q)}
<1>1. WordMod \in Nat /\ WordMod > 1
  BY WordModAssumption
<1>2. S = {}
  <2> SUFFICES ASSUME S # {} PROVE FALSE
    OBVIOUS
  <2>1. PICK q \in S : \A p \in S : q <= p
    BY Least
  <2>2. q \in Nat /\ IsPowerOfTwo(q) /\ q <= WordMod
    BY <2>1
  <2>3. q > 1
    <3>1. q # 0
      BY <2>2 DEF IsPowerOfTwo
    <3>2. ASSUME q = 1 PROVE FALSE
      <4>1. 0 \in 0..(q - 1) /\ Below(q) = {}
        <5>1. \A p \in Places : p \in Nat \ {0}
          BY PlaceOf
        <5>2. \A p \in Nat \ {0} : ~(p < 1)
          OBVIOUS
        <5> QED
          BY <3>2, <5>1, <5>2
      <4> QED
        BY <2>1, <4>1, NoBits
    <3> QED
      BY <2>2, <3>1, <3>2
  <2>4. PICK g \in Nat \ {0} : q = 2 * g /\ IsPowerOfTwo(g)
    BY <2>2, <2>3, PowerIsEven
  <2>5. g < q /\ g <= WordMod /\ g \in Places
    BY <1>1, <2>2, <2>4 DEF Places, Word
  <2>6. PICK u \in 0..(g - 1) : Bits(u) = Below(g)
    BY <2>1, <2>4, <2>5
  <2>7. ASSUME NEW p \in Places PROVE p < q <=> p < g \/ p = g
    <3>1. p \in Nat /\ IsPowerOfTwo(p)
      BY PlaceOf
    <3>2. CASE p > g
      <4>1. PICK h \in Nat \ {0} : p = g * (2 * h)
        BY <2>4, <3>1, <3>2, TwiceDivides
      <4>2. g * (2 * h) >= 2 * g
        BY <2>4, <4>1
      <4> QED
        BY <2>4, <3>1, <3>2, <4>1, <4>2
    <3> QED
      BY <2>4, <2>5, <3>1, <3>2
  <2>8. CASE g \in B
    <3>1. Below(q) = Below(g) \cup {g}
      BY <2>7, <2>8
    <3>2. u + g \in 0..(q - 1)
      BY <2>4
    <3>3. Bits(u + g) = Below(q)
      BY <2>5, <2>6, <3>1, OneMoreBit
    <3> QED
      BY <2>1, <3>2, <3>3
  <2>9. CASE g \notin B
    <3>1. Below(q) = Below(g)
      BY <2>7, <2>9
    <3>2. u \in 0..(q - 1)
      BY <2>4
    <3> QED
      BY <2>1, <2>6, <3>1, <3>2
  <2> QED
    BY <2>8, <2>9
<1>3. \E u \in 0..(WordMod - 1) : Bits(u) = Below(WordMod)
  BY <1>1, <1>2, WidthAssumption
<1>4. Below(WordMod) = B
  BY PlaceOf
<1> QED
  BY <1>3, <1>4 DEF Word

\* x & y and ~x have the bits they should have, and nothing else has.
LEMMA AndBits ==
    ASSUME NEW v \in Word, NEW w \in Word
    PROVE  /\ WordAnd(v, w) \in Word /\ Bits(WordAnd(v, w)) = Bits(v) \cap Bits(w)
           /\ \A u \in Word : Bits(u) = Bits(v) \cap Bits(w) => u = WordAnd(v, w)
<1>1. \E u \in Word : Bits(u) = Bits(v) \cap Bits(w)
  <2>1. Bits(v) \cap Bits(w) \in SUBSET Places
    BY DEF Bits
  <2> QED
    BY <2>1, AnyBits
<1>2. WordAnd(v, w) \in Word /\ Bits(WordAnd(v, w)) = Bits(v) \cap Bits(w)
  BY <1>1 DEF WordAnd
<1> QED
  BY <1>2, BitsDetermine

\* The same of ~w.
LEMMA NotBits ==
    ASSUME NEW w \in Word
    PROVE  /\ WordNot(w) \in Word /\ Bits(WordNot(w)) = Places \ Bits(w)
           /\ \A u \in Word : Bits(u) = Places \ Bits(w) => u = WordNot(w)
<1>1. \E u \in Word : Bits(u) = Places \ Bits(w)
  <2>1. Places \ Bits(w) \in SUBSET Places
    OBVIOUS
  <2> QED
    BY <2>1, AnyBits
<1>2. WordNot(w) \in Word /\ Bits(WordNot(w)) = Places \ Bits(w)
  BY <1>1 DEF WordNot
<1> QED
  BY <1>2, BitsDetermine

-------------------------------------------------------------------------------
(* The masks.                                                                *)

\* & ~(a - 1) clears what is not a multiple of a.
LEMMA MaskClears ==
    ASSUME NEW a \in Places, NEW v \in Word
    PROVE  WordAnd(v, WordNot(a - 1)) = v - (v % a)
<1>1. a - 1 \in Word /\ Bits(a - 1) = {p \in Places : p < a}
  BY LowBits
<1>2. WordNot(a - 1) \in Word /\ Bits(WordNot(a - 1)) = {p \in Places : a <= p}
  <2>1. \A p \in Places : p < a <=> ~(a <= p)
    <3>1. \A p \in Places : p \in Nat
      BY PlaceOf
    <3>2. a \in Nat
      BY PlaceOf
    <3> QED
      BY <3>1, <3>2
  <2> QED
    BY <1>1, <2>1, NotBits
<1>3. v - (v % a) \in Word /\ Bits(v - (v % a)) = Bits(v) \cap {p \in Places : a <= p}
  BY ClearedBits
<1> QED
  BY <1>2, <1>3, AndBits

\* A number that is no power of two has a greatest power of two below it.
LEMMA PowerBelow ==
    ASSUME NEW w \in Word, w # 0, ~IsPowerOfTwo(w)
    PROVE  \E p \in Places : p < w /\ w < 2 * p
<1> DEFINE S == {q \in Nat : IsPowerOfTwo(q) /\ q > w}
<1>1. w \in Nat /\ WordMod \in Nat /\ w < WordMod
  BY WordModAssumption DEF Word
<1>2. WordMod \in S
  BY <1>1, WidthAssumption
<1>3. PICK q \in S : \A p \in S : q <= p
  BY <1>2, Least
<1>4. q \in Nat /\ IsPowerOfTwo(q) /\ q > w /\ q <= WordMod /\ q > 1
  BY <1>1, <1>2, <1>3
<1>5. PICK p \in Nat \ {0} : q = 2 * p /\ IsPowerOfTwo(p)
  BY <1>4, PowerIsEven
<1>6. p <= w
  BY <1>1, <1>3, <1>4, <1>5
<1>7. p # w
  BY <1>5
<1>8. p \in Places
  BY <1>1, <1>5, <1>6 DEF Places, Word
<1> QED
  BY <1>1, <1>4, <1>5, <1>6, <1>7, <1>8

\* w & (w - 1) is 0 for the powers of two only.
LEMMA MaskTest ==
    ASSUME NEW w \in Word
    PROVE  IsPowerOfTwo(w) <=> w # 0 /\ WordAnd(w, SubW(w, 1)) = 0
<1>1. w \in Nat /\ WordMod \in Nat /\ WordMod > 1 /\ w < WordMod /\ 0 \in Word
  BY WordModAssumption DEF Word
<1>2. CASE w = 0
  BY <1>2 DEF IsPowerOfTwo
<1>3. CASE w # 0
  <2>1. SubW(w, 1) = w - 1 /\ w - 1 \in Word /\ w - 1 \in Nat
    BY <1>1, <1>3 DEF SubW, Word
  <2>2. ASSUME IsPowerOfTwo(w) PROVE WordAnd(w, w - 1) = 0
    <3>1. w \in Places
      BY <1>3, <2>2 DEF Places
    <3>2. Bits(w) \cap Bits(w - 1) = {}
      BY <3>1, LowBits, PowerBits
    <3> QED
      BY <1>1, <2>1, <3>2, NoBits, AndBits
  <2>3. ASSUME ~IsPowerOfTwo(w) PROVE WordAnd(w, w - 1) # 0
    <3>1. PICK p \in Places : p < w /\ w < 2 * p
      BY <1>3, <2>3, PowerBelow
    <3>2. p \in Nat \ {0}
      BY PlaceOf
    <3>3. w = p * 1 + (w - p) /\ w - p \in 0..(p - 1)
      BY <1>1, <3>1, <3>2
    <3>4. w - 1 = p * 1 + (w - 1 - p) /\ w - 1 - p \in 0..(p - 1)
      BY <1>1, <3>1, <3>2
    <3>5. 1 \in Nat /\ 1 % 2 = 1
      OBVIOUS
    <3>6. p \in Bits(w) /\ p \in Bits(w - 1)
      BY <3>3, <3>4, <3>5, BitAt
    <3> QED
      BY <2>1, <3>6, NoBits, AndBits
  <2> QED
    BY <1>3, <2>1, <2>2, <2>3
<1> QED
  BY <1>2, <1>3

\* (v + (a - 1)) & ~(a - 1) is the next multiple of a, or 0 where it wraps.
LEMMA MaskAligns ==
    ASSUME NEW a \in Places, NEW v \in Word
    PROVE  /\ AlignUp(v, a) = WordAnd(AddW(v, a - 1), WordNot(a - 1))
           /\ Padding(v, a) = SubW(AlignUp(v, a), v)
<1>1. /\ a \in Nat \ {0} /\ a \in Word \ {0} /\ v \in Nat /\ WordMod \in Nat
      /\ a < WordMod /\ v < WordMod /\ a - 1 \in Word
  <2>1. v \in Nat /\ WordMod \in Nat /\ v < WordMod
    BY WordModAssumption DEF Word
  <2> QED
    BY <2>1, PlaceOf, LowBits
<1> DEFINE sum == AddW(v, a - 1)
<1>2. sum \in Word
  BY <1>1, WordSums
<1>3. WordAnd(sum, WordNot(a - 1)) = sum - (sum % a)
  BY <1>2, MaskClears
<1>4. PICK q \in Nat, s \in 0..(a - 1) : v = a * q + s /\ s = v % a
  <2>1. v \div a \in Nat /\ v % a \in 0..(a - 1) /\ v = a * (v \div a) + (v % a)
    BY <1>1
  <2> QED
    BY <2>1
<1>5. PICK m \in Nat : WordMod = a * m
  <2>1. PICK h \in Nat \ {0} : WordMod = a * (2 * h)
    BY PlaceOf
  <2> QED
    BY <2>1
<1>6. a * (q + 1) = a * q + a /\ q + 1 \in Nat
  BY <1>1, <1>4
<1>7. Padding(v, a) = IF s = 0 THEN 0 ELSE a - s
  <2>1. CASE s = 0
    <3>1. a - 0 = a /\ a % a = 0
      BY <1>1
    <3> QED
      BY <1>4, <2>1, <3>1 DEF Padding
  <2>2. CASE s # 0
    <3>1. a - s \in 0..(a - 1) /\ a * 0 + (a - s) = a - s
      BY <1>1, <2>2
    <3>2. (a - s) % a = a - s
      BY <1>1, <3>1
    <3> QED
      BY <1>4, <2>2, <3>2 DEF Padding
  <2> QED
    BY <2>1, <2>2
<1>8. AlignUp(v, a) = sum - (sum % a)
  <2>1. CASE v + (a - 1) < WordMod
    <3>1. sum = v + (a - 1)
      BY <1>1, <2>1 DEF AddW
    <3>2. CASE s = 0
      <4>1. sum = a * q + (a - 1) /\ a - 1 \in 0..(a - 1) /\ sum \in Nat
        BY <1>1, <1>4, <3>1, <3>2
      <4>2. sum % a = a - 1
        <5>1. PICK z \in Nat : z = a * q
          BY <1>1, <1>4
        <5>2. PICK w \in Nat : w = sum
          BY <4>1
        <5>3. PICK r \in 0..(a - 1) : r = a - 1
          BY <4>1
        <5>4. w = z + r
          BY <4>1, <5>1, <5>2, <5>3
        <5>5. w % a = r
          BY <1>1, <5>1, <5>4, RemainderIs
        <5> QED
          BY <5>2, <5>3, <5>5
      <4>3. AlignUp(v, a) = v
        BY <1>1, <1>7, <3>2 DEF AlignUp, AddW
      <4> QED
        BY <1>1, <3>1, <4>2, <4>3
    <3>3. CASE s # 0
      <4>1. sum = a * (q + 1) + (s - 1) /\ s - 1 \in 0..(a - 1) /\ sum \in Nat
        BY <1>1, <1>4, <1>6, <3>1, <3>3
      <4>2. sum % a = s - 1
        <5>1. PICK z \in Nat : z = a * (q + 1)
          BY <1>1, <1>6
        <5>2. PICK w \in Nat : w = sum
          BY <4>1
        <5>3. PICK r \in 0..(a - 1) : r = s - 1
          BY <4>1
        <5>4. w = z + r
          BY <4>1, <5>1, <5>2, <5>3
        <5>5. w % a = r
          BY <1>1, <1>6, <5>1, <5>4, RemainderIs
        <5> QED
          BY <5>2, <5>3, <5>5
      <4>3. AlignUp(v, a) = v + (a - s)
        BY <1>1, <1>7, <2>1, <3>3 DEF AlignUp, AddW
      <4> QED
        BY <1>1, <3>1, <4>2, <4>3
    <3> QED
      BY <3>2, <3>3
  <2>2. CASE ~(v + (a - 1) < WordMod)
    <3>1. sum = v + (a - 1) - WordMod /\ sum \in 0..(a - 1) /\ sum \in Nat
      BY <1>1, <2>2 DEF AddW
    <3>2. sum % a = sum
      BY <1>1, <3>1
    <3>3. v = a * (m - 1) + (v - (WordMod - a)) /\ v - (WordMod - a) \in 1..(a - 1)
      <4>1. a * (m - 1) = a * m - a
        BY <1>1, <1>5
      <4> QED
        BY <1>1, <1>5, <2>2, <4>1
    <3>4. v % a = v - (WordMod - a)
      <4>1. PICK z \in Int : z = a * (m - 1)
        BY <1>1, <1>5
      <4>2. PICK r \in 0..(a - 1) : r = v - (WordMod - a)
        BY <3>3
      <4>3. v = z + r /\ m - 1 \in Int
        BY <1>5, <3>3, <4>1, <4>2
      <4>4. v % a = r
        BY <1>1, <4>1, <4>3, RemainderIs
      <4> QED
        BY <4>2, <4>4
    <3>5. Padding(v, a) = WordMod - v
      BY <1>1, <1>4, <1>7, <3>3, <3>4
    <3>6. AlignUp(v, a) = 0
      BY <1>1, <3>5 DEF AlignUp, AddW
    <3> QED
      BY <3>1, <3>2, <3>6
  <2> QED
    BY <2>1, <2>2
<1>9. SubW(AlignUp(v, a), v) = Padding(v, a)
  <2>1. Padding(v, a) \in Word
    BY <1>1, PaddingBound
  <2> QED
    BY <1>1, <2>1, SumsCancel DEF AlignUp
<1> QED
  BY <1>3, <1>8, <1>9

-------------------------------------------------------------------------------
\* The counters are words.
LEMMA CountersAreWords == Spec => [](x \in Word /\ y \in Word)
<1>1. Init => x \in Word /\ y \in Word
  BY WordModAssumption DEF Init, Word
<1>2. x \in Word /\ y \in Word /\ [Next]_<<x, y>> => (x \in Word /\ y \in Word)'
  BY WordModAssumption DEF Next, NextX, NextY, Word
<1> QED
  BY <1>1, <1>2, PTL DEF Spec

\* is_power_of_two is right, on words of any width.
THEOREM PowerTestIsExact == Spec => []PowerOfTwoIsMaskTest
<1>1. y \in Word => PowerOfTwoIsMaskTest
  BY MaskTest DEF PowerOfTwoIsMaskTest
<1> QED
  BY <1>1, CountersAreWords, PTL

\* So are the masks that round sizes and addresses up, where they wrap too.
THEOREM MasksAlign == Spec => []AlignUpIsMask
<1>1. x \in Word /\ y \in Word => AlignUpIsMask
  <2> SUFFICES ASSUME x \in Word, y \in Word, IsPowerOfTwo(y)
               PROVE  /\ AlignUp(x, y) = WordAnd(AddW(x, y - 1), WordNot(y - 1))
                      /\ Padding(x, y) = SubW(WordAnd(AddW(x, y - 1), WordNot(y - 1)), x)
    BY DEF AlignUpIsMask
  <2>1. y \in Places
    BY DEF Places, IsPowerOfTwo
  <2> QED
    BY <2>1, MaskAligns
<1> QED
  BY <1>1, CountersAreWords, PTL
================================================================================
