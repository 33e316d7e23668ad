-------------------------------- MODULE MCWords --------------------------------
(***************************************************************************)
(* Masks for TLC, with the bitwise operators of the community modules to    *)
(* compare WordAnd and WordNot with.                                        *)
(***************************************************************************)
EXTENDS Masks, Bitwise

ASSUME MasksAreBitwise ==
    \A v \in Word : /\ WordNot(v) = (WordMod - 1) - v
                    /\ \A w \in Word : WordAnd(v, w) = (v & w)
================================================================================
