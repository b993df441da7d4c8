--------------------------- MODULE MCFixedMemPool ---------------------------
(***************************************************************************)
(* FixedMemPool with model values.                                         *)
(***************************************************************************)
EXTENDS FixedMemPool
=============================================================================
