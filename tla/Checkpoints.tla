----------------------------- MODULE Checkpoints -----------------------------
(***************************************************************************)
(* What record and unwind promise (arena.h): a stack arena's contents are   *)
(* saved whole and restored whole.  contents lists the blocks with their    *)
(* capacity and the bytes used; saved is the stack of copies.  The code     *)
(* keeps only a pointer and two numbers per snapshot.                       *)
(***************************************************************************)
EXTENDS Integers, SequencesExt

CONSTANTS Block, Size

VARIABLES contents, saved

cvars == <<contents, saved>>

Filled == [block : Block, capacity : Size, used : Size]

Init == contents = <<>> /\ saved = <<>>

Open ==
    /\ contents = <<>>
    /\ Len(contents') = 1 /\ contents'[1] \in Filled /\ contents'[1].used = 0
    /\ saved' = <<>>

Close == contents # <<>> /\ contents' = <<>> /\ saved' = <<>>

\* Everything is given back at once; nothing may be saved then.
Clear ==
    /\ contents # <<>> /\ saved = <<>>
    /\ contents' = <<[contents[1] EXCEPT !.used = 0]>>
    /\ UNCHANGED saved

\* The last block fills up further, or a new block is pushed; no other block
\* changes.
Fill(f) ==
    /\ f.block = Last(contents).block
    /\ f.capacity = Last(contents).capacity
    /\ f.used > Last(contents).used
    /\ contents' = Append(Front(contents), f)

Push(f) ==
    /\ \A i \in DOMAIN contents : contents[i].block # f.block
    /\ f.used > 0
    /\ contents' = Append(contents, f)

Take ==
    /\ contents # <<>> /\ contents' # <<>>
    /\ Last(contents') \in Filled
    /\ Fill(Last(contents')) \/ Push(Last(contents'))
    /\ UNCHANGED saved

Save == contents # <<>> /\ saved' = Append(saved, contents) /\ UNCHANGED contents

Restore ==
    /\ saved # <<>>
    /\ contents' = Last(saved)
    /\ saved' = Front(saved)

Next == Open \/ Close \/ Clear \/ Take \/ Save \/ Restore

Spec == Init /\ [][Next]_cvars
===============================================================================
