------------------------------ MODULE TreeBins ------------------------------
(***************************************************************************)
(* The treebins of one malloc_state by themselves: chunks of any large     *)
(* size come free, are consolidated with a neighbour or are chosen for a   *)
(* request.  Where the chunks lie is Mspace's business; here they are      *)
(* names.                                                                  *)
(***************************************************************************)
EXTENDS MallocTrees, Sequences

CONSTANTS
  Chunk,         \* names of chunks; their number bounds how many are free at once
  Size,          \* the sizes of large chunks
  ChunkRequest   \* the chunk sizes asked for, large and small

ASSUME TreeBinsAssumption ==
  /\ Chunk \subseteq Nat /\ NULL \notin Chunk /\ BIN \notin Chunk /\ BIN # NULL
  /\ Size \subseteq MIN_LARGE_SIZE .. MAX_SIZE_T /\ ChunkRequest \subseteq 1 .. MAX_SIZE_T

VARIABLES
  trees,  \* the roots, the treemap and the nodes (t in MallocTrees)
  came    \* of each size, the free chunks in the order in which they came

treeVars == <<trees, came>>

Removed(q, x) ==
  LET p == CHOOSE k \in DOMAIN q : q[k] = x
  IN  [k \in 1 .. Len(q) - 1 |-> IF k < p THEN q[k] ELSE q[k + 1]]

TreesInit == trees = NoTrees /\ came = [s \in Size |-> <<>>]

Leave(x) ==
  /\ trees' = unlink_large_chunk(trees, x)
  /\ came' = [came EXCEPT ![trees.node[x].size] = Removed(@, x)]

\* mspace_free and the others that put a large chunk into its bin.
Insert(s) ==
  \E x \in Chunk \ DOMAIN trees.node :
    /\ x = Min(Chunk \ DOMAIN trees.node)
    /\ trees' = insert_large_chunk(trees, x, s)
    /\ came' = [came EXCEPT ![s] = Append(@, x)]

\* A neighbour is freed and takes x with it.
Consolidate(x) == Leave(x)

\* tmalloc_large, where dv is no better.
TakeLarge(nb) ==
  /\ ~is_small(nb) /\ trees.map # {}
  /\ LargeFit(trees, nb).v # NULL
  /\ Leave(LargeFit(trees, nb).v)

\* tmalloc_small.
TakeSmall(nb) ==
  /\ is_small(nb) /\ trees.map # {}
  /\ Leave(SmallFit(trees, nb).v)

TreesNext ==
  \/ \E s \in Size : Insert(s)
  \/ \E x \in DOMAIN trees.node : Consolidate(x)
  \/ \E nb \in ChunkRequest : TakeLarge(nb) \/ TakeSmall(nb)

TreesSpec == TreesInit /\ [][TreesNext]_treeVars

-----------------------------------------------------------------------------
(* Properties *)

\* What do_check_treebin and do_check_tree assert of every bin, with the trie
\* order they only sample: no chunk is lost or in two places, whatever order
\* of frees, consolidations and choices built the trees.
TreesChecked == CheckTrees(trees)

\* malloc.c.h's large requests are best fit: tmalloc_large and tmalloc_small
\* choose a chunk of the smallest size that is enough, and none only when none
\* is, though they look at one path and one subtree only.
BestFit ==
  \A nb \in ChunkRequest :
    LET enough == {trees.node[x].size : x \in {y \in DOMAIN trees.node : trees.node[y].size >= nb}}
        fit == IF is_small(nb) THEN SmallFit(trees, nb) ELSE LargeFit(trees, nb)
    IN  trees.map # {} =>
          IF enough = {} THEN fit.v = NULL
          ELSE fit.v # NULL /\ trees.node[fit.v].size = Min(enough)

\* "only the oldest chunk (the next to be used, in our FIFO ordering)" is in the
\* tree: behind each node its ring holds the younger chunks of the size in the
\* order in which they came, also after the node was replaced.
OldestFirst ==
  \A s \in Size : LET q == came[s] IN
    q # <<>> =>
      /\ trees.node[q[1]].parent # NULL
      /\ \A k \in DOMAIN q : trees.node[q[k]].bk = q[(k % Len(q)) + 1]

=============================================================================
