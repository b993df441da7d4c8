------------------------------ MODULE MCShoPool ------------------------------
(***************************************************************************)
(* ShoPool on a small heap of interchangeable blocks.                      *)
(***************************************************************************)
EXTENDS ShoPool, TLC

Symmetry == Permutations(Block)
=============================================================================
