-------------------------------- MODULE MCArena --------------------------------
(***************************************************************************)
(* Instances of the arena for TLC.                                          *)
(***************************************************************************)
EXTENDS CarefulClient, TLC

Headers == Permutations(BlockId)
================================================================================
