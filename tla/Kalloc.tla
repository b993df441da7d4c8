------------------------------- MODULE Kalloc -------------------------------
(***************************************************************************)
(* kalloc, the K&R style allocator of kalloc/kalloc.c.  Memory is counted  *)
(* in units of sizeof(header_t).  A core is one malloc: its first unit is  *)
(* the core header, the rest are blocks.  Free blocks and the zero-sized   *)
(* base form a ring in address order; loop_head is where the next search   *)
(* starts.  A block is named by the address of its header, one word before *)
(* the pointer the client holds.                                           *)
(***************************************************************************)
EXTENDS Integers, Sequences, FiniteSets, Functions, FiniteSetsExt

CONSTANTS
  Base,          \* the address of kmem_t::base
  Site,          \* the addresses at which malloc may place a core
  MinCore,       \* MIN_CORE_SIZE, in units
  MaxCores,      \* the bound on mallocs that succeed
  Request,       \* the byte counts clients ask for
  Null

ASSUME KallocAssumption ==
  /\ Base \in Nat /\ Site \subseteq Nat /\ MaxCores \in Nat
  /\ MinCore \in Nat \ {0} /\ Request \subseteq Nat \ {0} /\ Null \notin Nat

VARIABLES
  km,        \* the allocator: header sizes, ring links, loop_head, core_head
  heap,      \* the cores malloc has handed out and not been given back
  request,   \* of each block a client holds, the bytes it may use
  lost,      \* a client's bytes did not survive a krealloc
  status     \* "open", "aborted" (panic on malloc), "corrupt" (any other panic), "destroyed"

vars == <<km, heap, request, lost, status>>

Word == 8
Unit == 16       \* sizeof(header_t)

held == DOMAIN request
free == DOMAIN km.ptr

-----------------------------------------------------------------------------
(* Sizes *)

Ceiling(n, d) == (n + d - 1) \div d

\* kmalloc's n_units: room for the size word and n bytes, and one more unit.
n_units(n) == Ceiling(n + Word, Unit) + 1

\* krealloc's own n_units, without that extra unit.
n_units_in_place_bare(n) == Ceiling(n, Unit)   \* as if it forgot the size word
n_units_in_place(n) == Ceiling(n + Word, Unit)

\* The whole number of MIN_CORE_SIZEs that holds nu units and the core header.
core_units(nu) == Ceiling(nu + 1, MinCore) * MinCore

-----------------------------------------------------------------------------
(* The ring *)

\* The i-th block of the ring, counted from loop_head.
Walk(k) ==
  LET w[i \in 0 .. Cardinality(DOMAIN k.ptr)] ==
        IF i = 0 THEN k.loop_head ELSE k.ptr[w[i - 1]]
  IN  w

\* How many steps bring the walk back to loop_head.
Around(k) == LET w == Walk(k) IN Min({i \in DOMAIN w : i > 0 /\ w[i] = w[0]})

\* As if stop condition (b) did not look at p.
BetweenAtWrap(k, q, p) ==
  LET r == k.ptr[q] IN (p > q /\ p < r) \/ q >= r

\* The stop conditions (a) and (b) of kfree's search: p belongs after q.
Between(k, q, p) ==
  LET r == k.ptr[q] IN
  \/ p > q /\ p < r
  \/ q >= r /\ (p > q \/ p < r)

With(f, x, v) == [y \in DOMAIN f \union {x} |-> IF y = x THEN v ELSE f[y]]
Without(f, x) == [y \in DOMAIN f \ {x} |-> f[y]]

\* Block a ends where block b starts.
Joins(k, a, b) == a + k.size[a] = b

\* The sizes, once block b has become the end of block a.
merged(size, a, b) == Without([size EXCEPT ![a] = @ + size[b]], b)

\* kfree: p goes back between its neighbours in the ring, merged with either
\* or both; a neighbour that overlaps it is a panic.
kfree(k, p) ==
  LET w    == Walk(k)
      q    == w[Min({i \in DOMAIN w : Between(k, w[i], p)})]
      r    == k.ptr[q]
      up   == Joins(k, p, r)
      one  == [k EXCEPT
                !.size = IF up THEN merged(@, p, r) ELSE @,
                !.ptr  = IF up THEN With(Without(@, r), p, @[r]) ELSE With(@, p, r)]
      down == Joins(k, q, p)
      collides == \/ ~up /\ p + k.size[p] > r /\ r >= p
                  \/ ~down /\ q + k.size[q] > p /\ p >= q
  IN CASE collides -> [k EXCEPT !.panic = TRUE]
       [] ~collides /\ down ->
            [one EXCEPT !.size = merged(@, q, p),
                        !.ptr  = Without([@ EXCEPT ![q] = one.ptr[p]], p),
                        !.loop_head = q]
       [] OTHER -> [one EXCEPT !.ptr[q] = p, !.loop_head = p]

\* morecore: malloc has placed a core at address at; its block joins the ring.
morecore(k, nu, at) ==
  LET units == core_units(nu) IN
  kfree([k EXCEPT !.core_head = <<[at |-> at, units |-> units]>> \o @,
                  !.size = With(@, at + 1, units - 1)], at + 1)

\* The blocks, by their place in the walk, that are large enough for n units.
Suitable(k, n) == {i \in 1 .. Around(k) : k.size[Walk(k)[i]] >= n}

\* The block after q leaves the ring.
unlink(k, q, p) == [k EXCEPT !.ptr = Without([@ EXCEPT ![q] = k.ptr[p]], p)]

\* As if the free block kept the units it gave away.
splitKeepsSize(k, p, n) == [k EXCEPT !.size = With(@, p + @[p] - n, n)]

\* A block of n units is carved from the end of free block p.
split(k, p, n) ==
  [k EXCEPT !.size = With([k.size EXCEPT ![p] = @ - n], p + k.size[p] - n, n)]

\* kmalloc's search: the first suitable block after loop_head gives n units.
carve(k, n) ==
  LET i == Min(Suitable(k, n))
      q == Walk(k)[i - 1]
      p == Walk(k)[i]
  IN  [block |-> p + k.size[p] - n,
       km |-> [(IF k.size[p] = n THEN unlink(k, q, p) ELSE split(k, p, n))
                 EXCEPT !.loop_head = q]]

\* The first kmalloc closes the ring on base.
opened(k) ==
  IF k.loop_head = Null THEN [k EXCEPT !.loop_head = Base, !.ptr = [b \in {Base} |-> Base]] ELSE k

\* Where malloc can place that many units: it keeps a unit of its own between
\* any two of its blocks (kmem_t, two units long, is one of them).
Sites(units) ==
  {at \in Site : /\ Cardinality(heap) < MaxCores
                 /\ at + units < Base \/ at > Base + 2
                 /\ \A c \in heap : at + units < c.at \/ at > c.at + c.units}

-----------------------------------------------------------------------------
Init ==
  /\ km = [size |-> [b \in {Base} |-> 0], ptr |-> <<>>, loop_head |-> Null, core_head |-> <<>>,
           panic |-> FALSE]
  /\ heap = {} /\ request = <<>> /\ lost = FALSE /\ status = "open"

\* What a call leaves behind: the allocator, and the blocks clients hold.
Returns(k, r) ==
  /\ km' = k /\ request' = r
  /\ status' = IF k.panic THEN "corrupt" ELSE status

\* The ways kmalloc can obtain n bytes: from the ring as it is, or from a new
\* core wherever malloc places it.
Results(n) ==
  LET k  == opened(km)
      nu == n_units(n)
      result(got, cores) == [km |-> got.km, block |-> got.block, heap |-> cores]
  IN IF Suitable(k, nu) # {} THEN {result(carve(k, nu), heap)}
     ELSE {result(carve(morecore(k, nu, at), nu),
                  heap \cup {[at |-> at, units |-> core_units(nu)]}) :
             at \in Sites(core_units(nu))}

\* kmalloc, and kcalloc on the product of its arguments.
Kmalloc(n) ==
  /\ status = "open"
  /\ \E result \in Results(n) :
       /\ Returns(result.km, With(request, result.block, n))
       /\ heap' = result.heap
  /\ UNCHANGED lost

\* morecore's malloc fails: panic.
MallocRefuses(n) ==
  /\ status = "open"
  /\ Suitable(opened(km), n_units(n)) = {}
  /\ status' = "aborted" /\ km' = opened(km)
  /\ UNCHANGED <<heap, request, lost>>

\* kfree by a client, and krealloc to zero bytes.
Kfree(p) ==
  /\ status = "open" /\ p \in held
  /\ Returns(kfree(km, p), Without(request, p))
  /\ UNCHANGED <<heap, lost>>

\* krealloc: the block is large enough as it is.
KreallocInPlace(p, n) ==
  /\ status = "open" /\ p \in held
  /\ km.size[p] >= n_units_in_place(n)
  /\ Returns(km, [request EXCEPT ![p] = n])
  /\ UNCHANGED <<heap, lost>>

\* The bytes krealloc copies out of p.
copied(p) == (km.size[p] - 1) * Unit

\* krealloc: a new block, the copy, and the old one freed.
KreallocMoves(p, n) ==
  /\ status = "open" /\ p \in held
  /\ km.size[p] < n_units_in_place(n)
  /\ \E result \in Results(n) :
       /\ Returns(kfree(result.km, p), With(Without(request, p), result.block, n))
       /\ heap' = result.heap
  /\ lost' = (lost \/ copied(p) < Min({n, request[p]}))

\* km_destroy: every core on core_head goes back to malloc, then kmem_t does.
Destroy ==
  /\ status = "open"
  /\ status' = "destroyed" /\ heap' = heap \ Range(km.core_head)
  /\ UNCHANGED <<km, request, lost>>

Next ==
  \/ \E n \in Request : Kmalloc(n) \/ MallocRefuses(n)
  \/ \E p \in held : Kfree(p)
  \/ \E p \in held, n \in Request : KreallocInPlace(p, n) \/ KreallocMoves(p, n)
  \/ Destroy

Spec == Init /\ [][Next]_vars

-----------------------------------------------------------------------------
(* What km_stat reports, in units *)

SizeOf(k, S) == SumFunctionOnSet(k.size, S)

ring(k) == IF k.loop_head = Null THEN {} ELSE {Walk(k)[i] : i \in 1 .. Around(k)}

km_stat(k) ==
  [available |-> SizeOf(k, ring(k)),
   n_blocks  |-> Cardinality({b \in ring(k) : k.size[b] # 0}),
   n_cores   |-> Len(k.core_head),
   capacity  |-> MapThenSumSet(LAMBDA c : c.units, Range(k.core_head)),
   panics    |-> \E b \in ring(k) : k.ptr[b] > b /\ b + k.size[b] > k.ptr[b]]

-----------------------------------------------------------------------------
(* Properties *)

\* The state has its shape: headers are natural sizes, the ring's blocks have
\* headers and none of them is a client's.
TypeOK ==
  /\ \A b \in DOMAIN km.size : b \in Nat /\ km.size[b] \in Nat
  /\ DOMAIN km.size = {Base} \cup free \cup held
  /\ free \cap held = {} /\ Base \notin held
  /\ km.loop_head \in free \cup {Null}
  /\ \A p \in held : request[p] \in Request
  /\ lost \in BOOLEAN
  /\ status \in {"open", "aborted", "corrupt", "destroyed"}

\* The free list is one ring, in address order but for the step from its last
\* block to its first, whatever order blocks were freed and cores placed in:
\* kfree's search for a block's neighbours (kalloc.c:102-103) relies on it.  No
\* two free blocks are adjacent: kfree merges on both sides (kalloc.c:104-117).
RingInOrder ==
  /\ TypeOK
  /\ km.loop_head # Null => /\ ring(km) = free
                            /\ Cardinality({b \in free : km.ptr[b] <= b}) = 1
  /\ \A a, b \in free \ {Base} : a + km.size[a] # b

Units(b) == b .. b + km.size[b] - 1

\* Every unit of every core is the core header's or one block's: blocks never
\* overlap, and carving, merging and moving never lose a unit.  km_stat, which
\* walks the free list, accounts for every core; km_destroy gives them all back.
BlocksTileCores ==
  /\ status = "open" =>
       /\ \A c \in heap :
            LET blocks == {b \in DOMAIN km.size : b >= c.at /\ b < c.at + c.units} IN
            /\ UNION {Units(b) : b \in blocks} = c.at + 1 .. c.at + c.units - 1
            /\ SizeOf(km, blocks) = c.units - 1
       /\ LET s == km_stat(km) IN
          s.capacity = s.available + SizeOf(km, held) + s.n_cores
  /\ status = "destroyed" => heap = {}

\* The panics at kalloc.c:108, 116 and 189 guard against corruption: no
\* sequence of calls by well-behaved clients reaches one.
NeverPanics == ~km.panic /\ ~km_stat(km).panics

\* A client may use every byte it asked for, after kmalloc and after a
\* krealloc that left the block where it was.
RequestFits == \A p \in held : request[p] <= km.size[p] * Unit - Word

\* krealloc keeps what the client wrote, as the realloc it stands in for
\* (kalloc.c:168) does.
ReallocKeepsContents == ~lost

=============================================================================
