----------------------------- MODULE MallocTrees -----------------------------
(***************************************************************************)
(* The treebins of nedmalloc/malloc.c.h, where a malloc_state keeps its    *)
(* large free chunks.  A bin is a bitwise trie on the chunk sizes with one *)
(* node for each size; the chunks of one size form a ring, of which only   *)
(* the oldest has a parent and children.                                   *)
(*                                                                         *)
(* A value t of the operators below holds the fields of malloc_state and   *)
(* of the chunks that are in the trees: t.root (treebins), t.map (treemap, *)
(* as the set of marked bins) and t.node, a function from the addresses of *)
(* the chunks to their records.                                            *)
(***************************************************************************)
EXTENDS MallocSizes, FiniteSets, Functions, FiniteSetsExt

CONSTANTS NULL, BIN   \* no chunk; the parent of a root, "(tchunkptr)H"

NoTrees == [root |-> [i \in 0 .. NTREEBINS - 1 |-> NULL], map |-> {}, node |-> <<>>]

leftmost_child(n, x) ==
  IF n[x].child[0] # NULL THEN n[x].child[0] ELSE n[x].child[1]

\* A loop: what it works on, after each number of passes up to N.
Loop(Pass(_), first, N) ==
  LET at[k \in 0 .. N] == IF k = 0 THEN first ELSE Pass(at[k - 1])
  IN  at

SetFd(n, y, v) == [n EXCEPT ![y] = [n[y] EXCEPT !.fd = v]]
SetBk(n, y, v) == [n EXCEPT ![y] = [n[y] EXCEPT !.bk = v]]
SetChild(n, y, c, v) ==
  [n EXCEPT ![y] = [n[y] EXCEPT !.child = [n[y].child EXCEPT ![c] = v]]]

-----------------------------------------------------------------------------
(* Insertion *)

\* The walk for size s goes to the child that bit w.bit of s names, until it is
\* at the node of that size or there is no such child.
PlacePass(n, s, w) ==
  LET c == n[w.node].child[SizeBit(s, w.bit)]
  IN  IF n[w.node].size = s \/ c = NULL THEN w ELSE [node |-> c, bit |-> w.bit - 1]

Place(t, s, i) ==
  Loop(LAMBDA w : PlacePass(t.node, s, w),
       [node |-> t.root[i], bit |-> bit_for_tree_index(i)], SizeBits)[SizeBits]

NewNode(s, i, parent, fd, bk) ==
  [size |-> s, index |-> i, parent |-> parent, child |-> [c \in {0, 1} |-> NULL],
   fd |-> fd, bk |-> bk]

Added(n, x, new) == [y \in DOMAIN n \cup {x} |-> IF y = x THEN new ELSE n[y]]

\* A bin gets its root.
Rooted(t, x, s, i) ==
  [root |-> [t.root EXCEPT ![i] = x], map |-> t.map \cup {i},
   node |-> Added(t.node, x, NewNode(s, i, BIN, x, x))]

\* As if a chunk of a size already there took the node's forward link only.
Placed_oneway(t, x, s, i, p) ==
  LET n == t.node
      T == p.node
  IN  [t EXCEPT !.node =
         IF n[T].size = s
         THEN SetFd(Added(n, x, NewNode(s, i, NULL, n[T].fd, T)), T, x)
         ELSE SetChild(Added(n, x, NewNode(s, i, T, x, x)), T, SizeBit(s, p.bit), x)]

\* A ring member after the node T of its size, or a new leaf under T.
Placed(t, x, s, i, p) ==
  LET n == t.node
      T == p.node
  IN  [t EXCEPT !.node =
         IF n[T].size = s
         THEN SetBk(SetFd(Added(n, x, NewNode(s, i, NULL, n[T].fd, T)), T, x), n[T].fd, x)
         ELSE SetChild(Added(n, x, NewNode(s, i, T, x, x)), T, SizeBit(s, p.bit), x)]

Inserted(t, x, s, i) ==
  IF i \in t.map THEN Placed(t, x, s, i, Place(t, s, i)) ELSE Rooted(t, x, s, i)

insert_large_chunk(t, x, s) == Inserted(t, x, s, compute_tree_index(s))

-----------------------------------------------------------------------------
(* Removal *)

\* A leaf below x: down the right child wherever there is one.
LeafPass(n, y) ==
  IF n[y].child[1] # NULL THEN n[y].child[1]
  ELSE IF n[y].child[0] # NULL THEN n[y].child[0]
  ELSE y

Leaf(n, x) == Loop(LAMBDA y : LeafPass(n, y), x, SizeBits)[SizeBits]

\* The pointer "from" of node y now holds "to".
Redirect(n, y, from, to) ==
  [n EXCEPT ![y] = [n[y] EXCEPT !.child =
     [c \in {0, 1} |-> IF n[y].child[c] = from THEN to ELSE n[y].child[c]]]]

\* A node that is alone in its ring gives way to a leaf below it, if there is one.
LeafReplaces(n, x) ==
  LET r == Leaf(n, x)
  IN  IF r = x THEN [by |-> NULL, node |-> n]
               ELSE [by |-> r, node |-> Redirect(n, n[r].parent, r, NULL)]

\* As if the chunk that came last took the place of its ring's node.
ReplacementYoungest(n, x) ==
  IF n[x].bk = x THEN LeafReplaces(n, x)
  ELSE [by |-> n[x].fd, node |-> SetBk(SetFd(n, n[x].bk, n[x].fd), n[x].fd, n[x].bk)]

\* Steps 1 and 2 of unlink_large_chunk: who takes x's place, already cut off
\* from where it was.
Replacement(n, x) ==
  IF n[x].bk = x THEN LeafReplaces(n, x)
  ELSE [by |-> n[x].bk, node |-> SetBk(SetFd(n, n[x].bk, n[x].fd), n[x].fd, n[x].bk)]

\* The replacement r takes over x's parent and what children x still has.
Adopt(n, x, r) ==
  LET kids == {c \in {0, 1} : n[x].child[c] # NULL}
      heir == [n[r] EXCEPT !.parent = n[x].parent,
                           !.child = [c \in {0, 1} |->
                              IF c \in kids THEN n[x].child[c] ELSE n[r].child[c]]]
  IN  [y \in DOMAIN n |->
        IF y = r THEN heir
        ELSE IF \E c \in kids : n[x].child[c] = y THEN [n[y] EXCEPT !.parent = r]
        ELSE n[y]]

\* Step 3: the replacement is linked in where x, of record X, was.
Linked(x, X, rep, atBin) ==
  LET up == IF atBin THEN rep.node ELSE Redirect(rep.node, X.parent, x, rep.by)
  IN  IF X.parent = NULL THEN rep.node
      ELSE IF rep.by = NULL THEN up ELSE Adopt(up, x, rep.by)

\* x leaves t.node with the call, its fields being memory of whoever gets it next.
Unlinked(t, x, X, rep, atBin) ==
  [root |-> IF atBin THEN [t.root EXCEPT ![X.index] = rep.by] ELSE t.root,
   map  |-> IF atBin /\ rep.by = NULL THEN t.map \ {X.index} ELSE t.map,
   node |-> Restrict(Linked(x, X, rep, atBin), DOMAIN t.node \ {x})]

unlink_large_chunk(t, x) ==
  Unlinked(t, x, t.node[x], Replacement(t.node, x), t.root[t.node[x].index] = x)

-----------------------------------------------------------------------------
(* Search *)

\* What is found before a node is looked at.
NoFit(nb) == [v |-> NULL, rsize |-> USub(0, nb)]

\* The better of the fit so far and node x, for a request of nb: remainders are
\* compared unsigned, so that a node smaller than nb never wins.
Better(n, fit, x, nb) ==
  LET trem == USub(n[x].size, nb)
  IN  IF trem < fit.rsize THEN [v |-> x, rsize |-> trem] ELSE fit

\* "find smallest of tree or subtree": down the leftmost path.
LeftmostPass(n, nb, w) ==
  IF w.at = NULL THEN w
  ELSE [at |-> leftmost_child(n, w.at), fit |-> Better(n, w.fit, w.at, nb)]

LeftmostFit(n, fit, x, nb) ==
  Loop(LAMBDA w : LeftmostPass(n, nb, w), [at |-> x, fit |-> fit], SizeBits + 1)[SizeBits + 1].fit

\* The walk of tmalloc_large down the bin of nb: the best node met, and rst, the
\* deepest right subtree not taken (all of whose sizes exceed nb).
DescentPass(n, nb, w) ==
  LET now == Better(n, w.fit, w.at, nb)
      rt  == n[w.at].child[1]
      c   == n[w.at].child[SizeBit(nb, w.bit)]
  IN  IF w.at = NULL \/ w.fit.rsize = 0 THEN w
      ELSE IF now.rsize = 0 THEN [w EXCEPT !.fit = now]
      ELSE [at |-> c, bit |-> w.bit - 1, fit |-> now,
            rst |-> IF rt # NULL /\ rt # c THEN rt ELSE w.rst]

Descent(t, nb, i) ==
  Loop(LAMBDA w : DescentPass(t.node, nb, w),
       [at |-> t.root[i], bit |-> bit_for_tree_index(i), fit |-> NoFit(nb), rst |-> NULL],
       SizeBits + 1)[SizeBits + 1]

\* As if the right subtrees passed over were not looked at again.
Searched_once(t, nb, i, d) ==
  LET left == {j \in t.map : j > i}
  IN  IF d.fit.v = NULL /\ left # {}
      THEN LeftmostFit(t.node, d.fit, t.root[Min(left)], nb)
      ELSE d.fit

\* After the descent d in bin i: the subtree to be searched, there or in the next
\* marked bin.
Searched(t, nb, i, d) ==
  LET left == {j \in t.map : j > i}
      st == IF d.at = NULL THEN d.rst ELSE d.at
      at == IF st = NULL /\ d.fit.v = NULL /\ left # {} THEN t.root[Min(left)] ELSE st
  IN  LeftmostFit(t.node, d.fit, at, nb)

FitFrom(t, nb, i) == Searched(t, nb, i, Descent(t, nb, i))

\* tmalloc_large's choice for nb.
LargeFit(t, nb) == FitFrom(t, nb, compute_tree_index(nb))

\* tmalloc_small's choice: the smallest chunk of the least marked bin.
SmallFit(t, nb) == LeftmostFit(t.node, NoFit(nb), t.root[Min(t.map)], nb)

-----------------------------------------------------------------------------
(* What do_check_tree and do_check_treebin assert, and that nothing is lost. *)

\* The members of the ring of x.
Ring(n, x) ==
  LET r == Loop(LAMBDA y : n[y].fd, x, Cardinality(DOMAIN n))
  IN  {r[k] : k \in DOMAIN r}

\* The chunks of the tree below x, by their distance from x.
Levels(n, x) ==
  Loop(LAMBDA S : {n[y].child[c] : y \in S, c \in {0, 1}} \ {NULL}, {x}, SizeBits)
Below(n, x) ==
  LET level == Levels(n, x) IN UNION {level[k] : k \in DOMAIN level}

\* do_check_tree, for the one node x and its ring.
CheckNode(n, x) ==
  LET X == n[x] IN
  /\ X.index = compute_tree_index(X.size) /\ X.size >= MIN_LARGE_SIZE
  /\ X.size >= minsize_for_tree_index(X.index)
  /\ X.index = NTREEBINS - 1 \/ X.size < minsize_for_tree_index(X.index + 1)
  /\ \A y \in Ring(n, x) :
       /\ n[n[y].fd].bk = y /\ n[n[y].bk].fd = y
       /\ n[y].size = X.size /\ n[y].index = X.index
       /\ y # x => n[y].parent = NULL
  /\ \A c \in {0, 1} : X.child[c] # NULL => n[X.child[c]].parent = x

\* Every size in a subtree of x agrees with the bits that lead to it, from bit b on.
SplitByBits(n, x, b) ==
  LET level == Levels(n, x) IN
  \A k \in DOMAIN level : \A y \in level[k] : \A c \in {0, 1} :
    n[y].child[c] # NULL =>
      /\ k <= b
      /\ \A z \in Below(n, n[y].child[c]) : SizeBit(n[z].size, b - k) = c

CheckTrees(t) ==
  LET n == t.node
      marked == {i \in DOMAIN t.root : t.root[i] # NULL}
      inTree == UNION {Below(n, t.root[i]) : i \in marked}
  IN  /\ t.map = marked
      /\ \A i \in marked : /\ n[t.root[i]].parent = BIN
                           /\ \A x \in Below(n, t.root[i]) : n[x].index = i
                           /\ SplitByBits(n, t.root[i], bit_for_tree_index(i))
      /\ \A x \in inTree : CheckNode(n, x)
      /\ \A x, y \in inTree : n[x].size = n[y].size => x = y
      /\ DOMAIN n = UNION {Ring(n, x) : x \in inTree}

=============================================================================
