--------------------------------- MODULE Masks ---------------------------------
(***************************************************************************)
(* The bit masks the C code writes, by the bits a word has, and the         *)
(* arithmetic of Words against them: every mask in the allocators, in       *)
(* safe_aligned_alloc and in is_power_of_two is one of the two properties.  *)
(***************************************************************************)
EXTENDS Words

ASSUME WidthAssumption == IsPowerOfTwo(WordMod)

VARIABLES x, y

Init == x = 0 /\ y = 0

NextX == x < WordMod - 1 /\ x' = x + 1 /\ UNCHANGED y
NextY == y < WordMod - 1 /\ y' = y + 1 /\ UNCHANGED x

Next == NextX \/ NextY

\* Every pair of words.
Spec == Init /\ [][Next]_<<x, y>>

-------------------------------------------------------------------------------
\* The values 1, 2, 4, ... of the places of a word, and those where w has a 1.
Places == {p \in Word \ {0} : IsPowerOfTwo(p)}
Bits(w) == {p \in Places : (w \div p) % 2 = 1}

\* v & w and ~w.
WordAnd(v, w) == CHOOSE u \in Word : Bits(u) = Bits(v) \cap Bits(w)
WordNot(w) == CHOOSE u \in Word : Bits(u) = Places \ Bits(w)

\* IsPowerOfTwo is the test (y != 0) && ((y & (y - 1)) == 0).
PowerOfTwoIsMaskTest == IsPowerOfTwo(y) <=> y # 0 /\ WordAnd(y, SubW(y, 1)) = 0

\* AlignUp is (x + (y - 1)) & ~(y - 1), and Padding its distance from x, for
\* every power of two y, also where the sum wraps.
AlignUpIsMask ==
    IsPowerOfTwo(y) =>
        LET masked == WordAnd(AddW(x, y - 1), WordNot(y - 1))
        IN  AlignUp(x, y) = masked /\ Padding(x, y) = SubW(masked, x)
================================================================================
