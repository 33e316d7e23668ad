-------------------------------- MODULE Words --------------------------------
(***************************************************************************)
(* Machine words: the size_t and uintptr_t arithmetic the allocators are    *)
(* written in.  Every operator gives the value the C expression has on a    *)
(* machine whose words are taken modulo WordMod, so that a sum that does    *)
(* not fit wraps exactly as it does in the code.                            *)
(***************************************************************************)
EXTENDS Integers

CONSTANT WordMod    \* 2^w for a machine with w-bit words

ASSUME WordModAssumption == WordMod \in Nat /\ WordMod > 1

Word == 0..(WordMod - 1)

\* x + y and x - y on size_t.
AddW(x, y) == IF x + y < WordMod THEN x + y ELSE x + y - WordMod
SubW(x, y) == IF y <= x THEN x - y ELSE x - y + WordMod

\* x << 1 on size_t.
DoubleW(x) == (2 * x) % WordMod

\* x shifted k times, for every k.
Doublings(x) ==
    LET shifted[k \in Nat] == IF k = 0 THEN x ELSE DoubleW(shifted[k - 1])
    IN  shifted

\* The test without x != 0.
IsPowerOfTwoOrZero(x) == \A d \in 3..x : d % 2 = 1 => x % d # 0

\* (x != 0) && ((x & (x - 1)) == 0): the powers of two are the numbers with
\* no odd divisor but 1.
IsPowerOfTwo(x) == x # 0 /\ \A d \in 3..x : d % 2 = 1 => x % d # 0

\* ((x + (a - 1)) & ~(a - 1)) - x for a power of two a: what has to be added
\* to x to reach the next multiple of a, computed modulo WordMod.
Padding(x, a) == (a - (x % a)) % a

\* (x + a) & ~(a - 1), which moves a word that is aligned already.
AlignPast(x, a) == AddW(x, a - (x % a))

\* (x + (a - 1)) & ~(a - 1) for a power of two a.
AlignUp(x, a) == AddW(x, Padding(x, a))
==============================================================================
