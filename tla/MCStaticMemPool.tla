--------------------------- MODULE MCStaticMemPool ---------------------------
(***************************************************************************)
(* StaticMemPool with model values.                                        *)
(***************************************************************************)
EXTENDS StaticMemPool, TLC

CONSTANTS t1, p1

\* p1 is used by t1 alone, every other pool by every thread.
OneShared == [p \in Pool |-> IF p = p1 THEN {t1} ELSE Thread]

\* Blocks are interchangeable.
Symmetry == Permutations(Block)
=============================================================================
