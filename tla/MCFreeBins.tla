----------------------------- MODULE MCFreeBins -----------------------------
(***************************************************************************)
(* The two places where nedmalloc keeps free memory by size: a thread's    *)
(* cache, with bins for 32 and 64 bytes and model values for the blocks,   *)
(* interchangeable; and the treebins, in bytes, with the source's          *)
(* constants but for the number of bins.  They share no state: a behaviour *)
(* works on one of them.                                                   *)
(***************************************************************************)
EXTENDS ThreadCache, TreeBins, TLC

VARIABLE works   \* the one that does

\* Of each bin the least and a larger size, the largest the cache takes, and
\* one it does not take.
CacheSizes == {32, 48, 64, 80, 112}

\* Below the least block, a power of two, between two bins, above the cache's.
CacheRequests == {20, 48, 64, 100}

FiveChunks == 1 .. 5

\* Four sizes of bin 0 that part at its first and later bits, and two of the last
\* bin, which takes all larger sizes.
LargeSizes == {256, 272, 320, 352, 768, 1552}

TreeRequests == {32, 256, 288, 320, 336, 368, 400, 784}

BinsInit == Init /\ TreesInit /\ works \in {"cache", "trees"}

BinsNext ==
    /\ \/ works = "cache" /\ Next /\ UNCHANGED treeVars
       \/ works = "trees" /\ TreesNext /\ UNCHANGED vars
    /\ UNCHANGED works

BinsSpec == BinsInit /\ [][BinsNext]_<<vars, treeVars, works>>

Symmetry == Permutations(Block)
=============================================================================
