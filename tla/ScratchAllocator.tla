--------------------------- MODULE ScratchAllocator ---------------------------
(***************************************************************************)
(* scratch_allocator_internal.c: one block, NULL when it is full.           *)
(***************************************************************************)
EXTENDS ArenaState

ScratchGrants(size) ==
    /\ FitsIn(Head(chain), size)
    /\ TakeFrom(Head(chain), size, size)
    /\ UNCHANGED top

ScratchRefuses(size) == ~FitsIn(Head(chain), size)

\* A verify that forgets the padding scratch_alloc adds.
ScratchVerifyUnpadded(size) ==
    \E b \in Range(chain) : size <= SubW(block[b].capacity, block[b].allocated)

\* scratch_alloc_verify walks the whole chain.
ScratchVerify(size) == \E b \in Range(chain) : FitsIn(b, size)
===============================================================================
