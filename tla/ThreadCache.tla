----------------------------- MODULE ThreadCache -----------------------------
(***************************************************************************)
(* The cache that nedmalloc (nedmalloc/nedmalloc.c) keeps for each thread. *)
(* Freed blocks of at most threadcache_max bytes stay in bins, one per     *)
(* power of two: doubly linked lists, youngest first, whose links lie in   *)
(* the blocks.  When max_free_space bytes are cached the oldest go back to *)
(* the mspace.  A cache is used by its own thread alone and touches no     *)
(* other's data, so each call is one step.                                 *)
(***************************************************************************)
EXTENDS Integers, FiniteSets, Functions, FiniteSetsExt

CONSTANTS Block,            \* addresses the mspace can hand out
          UsableSize,       \* sizes of blocks, as nedblksize reports them
          Request,          \* sizes clients ask for
          threadcache_max,  \* THREADCACHEMAX (8192): the bins have room for a power of two
          max_free_space,   \* THREADCACHEMAXFREESPACE (2^20)
          oldest_age,       \* THREADCACHEMAXFREESPACE / 8192, the first age trimmed
          slack,            \* what realloc leaves unused in a block (1024, or 32)
          MaxFrees,         \* bound on frees: its 32 bits do not wrap
          Null

ASSUME ThreadCacheAssumption ==
    /\ UsableSize \subseteq Nat \ {0} /\ Request \subseteq Nat \ {0}
    /\ threadcache_max \in Nat /\ max_free_space \in Nat
    /\ \E i \in 1..threadcache_max : threadcache_max = 2^(i + 4)
    /\ threadcache_max < max_free_space
    /\ oldest_age \in Nat \ {0} /\ slack \in Nat /\ MaxFrees \in Nat
    /\ IsFiniteSet(Block) /\ Null \notin Block

VARIABLES
    tc,      \* the threadcache: bins, counters, and the header of each cached block
    usable,  \* the size of every block that is not in the mspace
    held     \* of each block the client has, the bytes it may use

vars == <<tc, usable, held>>

minimum == 32    \* sizeof(threadcacheblk)
overhead == 16   \* CHUNK_OVERHEAD

\* The position of the top bit of size / 16, and the size that bin is for.
size2binidx(size) ==
    CHOOSE i \in 0..size : 2^i <= size \div 16 /\ size \div 16 < 2^(i + 1)
best(idx) == 2^(idx + 4)
MaxBin == size2binidx(threadcache_max)   \* THREADCACHEMAXBINS
Bin == 0..MaxBin

cached == DOMAIN tc.blk
mspace == Block \ (cached \union DOMAIN held)

Without(f, S) == Restrict(f, DOMAIN f \ S)
With(f, x, y) == [z \in DOMAIN f \union {x} |-> IF z = x THEN y ELSE f[z]]
\* A link of a neighbour in a bin, if there is one.
Relink(blk, b, field, to) == IF b = Null THEN blk ELSE [blk EXCEPT ![b][field] = to]

Init ==
    /\ tc = [head |-> [i \in Bin |-> Null], tail |-> [i \in Bin |-> Null],
             blk |-> <<>>, frees |-> 0, freeInCache |-> 0]
    /\ usable = <<>>
    /\ held = <<>>

-----------------------------------------------------------------------------
\* Mutant of popYoungest: a bin that becomes empty keeps its oldest block.
popYoungestKeepsTail(c, i) ==
    LET b == c.head[i]
        n == c.blk[b].next
    IN [c EXCEPT !.head[i] = n,
                 !.blk = Without(Relink(@, n, "prev", Null), {b}),
                 !.freeInCache = @ - c.blk[b].size]

\* threadcache_malloc takes the youngest block of bin i.
popYoungest(c, i) ==
    LET b == c.head[i]
        n == c.blk[b].next
    IN [c EXCEPT !.head[i] = n,
                 !.tail[i] = IF n = Null THEN Null ELSE c.tail[i],
                 !.blk = Without(Relink(@, n, "prev", Null), {b}),
                 !.freeInCache = @ - c.blk[b].size]

\* RemoveCacheEntries takes the oldest block of bin i, for CallFree.
popOldest(c, i) ==
    LET b == c.tail[i]
        p == c.blk[b].prev
    IN [c EXCEPT !.tail[i] = p,
                 !.head[i] = IF p = Null THEN Null ELSE c.head[i],
                 !.blk = Without(Relink(@, p, "next", Null), {b}),
                 !.freeInCache = @ - c.blk[b].size]

\* Mutant of aged: a bin is as old as its youngest block.
agedByHead(c, i, age) ==
    c.tail[i] # Null /\ c.frees - c.blk[c.head[i]].lastUsed >= age

\* Whether the oldest block of bin i was freed that many frees ago.
aged(c, i, age) ==
    c.tail[i] # Null /\ c.frees - c.blk[c.tail[i]].lastUsed >= age

\* From the oldest end of bin i, the blocks of that age.
trimmed(c, i, age) ==
    LET t[n \in 0..Cardinality(Block)] ==
            IF n = 0 THEN c
            ELSE IF aged(t[n - 1], i, age) THEN popOldest(t[n - 1], i)
            ELSE t[n - 1]
    IN t[Cardinality(Block)]

\* Bin after bin.
RemoveCacheEntries(c, age) ==
    LET r[n \in 0..MaxBin + 1] ==
            IF n = 0 THEN c ELSE trimmed(r[n - 1], n - 1, age)
    IN IF c.freeInCache = 0 THEN c ELSE r[MaxBin + 1]

\* Mutant of ReleaseFreeInCache: one pass, at the first age.
ReleaseOnce(c) ==
    IF c.freeInCache < max_free_space THEN c ELSE RemoveCacheEntries(c, oldest_age)

\* While too much is cached and the age is not 0, blocks half as old as in the
\* last pass go. In oldest_age passes every age above 0 comes up.
ReleaseFreeInCache(c) ==
    LET age(n) == oldest_age \div 2^(n - 1)
        r[n \in 0..oldest_age] ==
            IF n = 0 THEN c
            ELSE IF age(n) = 0 \/ r[n - 1].freeInCache < max_free_space THEN r[n - 1]
            ELSE RemoveCacheEntries(r[n - 1], age(n))
    IN r[oldest_age]

\* Mutant of freedBin: the bin a request of that size would be served from.
freedBinAsRequested(size) ==
    LET i == size2binidx(size) IN IF size > best(i) /\ i < MaxBin THEN i + 1 ELSE i

\* dlmalloc may have rounded a block up: its size counts as rounded down.
freedBin(size) == size2binidx(size)

\* threadcache_free: block b, of that many bytes, becomes its bin's youngest.
threadcache_free(c, b, size) ==
    LET i == freedBin(size)
        h == c.head[i]
        block == [next |-> h, prev |-> Null, size |-> best(i), lastUsed |-> c.frees + 1]
    IN ReleaseFreeInCache(
         [c EXCEPT !.frees = @ + 1,
                   !.blk = With(Relink(@, h, "prev", b), b, block),
                   !.head[i] = b,
                   !.tail[i] = IF h = Null THEN b ELSE c.tail[i],
                   !.freeInCache = @ + best(i)])

\* What becomes of the cache when a block of that size is given up.
\* A block it does not keep goes to CallFree, that is to the mspace.
Given(c, b, size) ==
    IF minimum <= size /\ size <= threadcache_max + overhead
    THEN threadcache_free(c, b, size) ELSE c

-----------------------------------------------------------------------------
\* GetThreadCache raises every request.
raised(n) == Max({n, minimum})

\* The bin whose blocks fit a request, and the one threadcache_malloc takes
\* from: the next, if that bin is empty.
fit(size) == LET i == size2binidx(size) IN IF size > best(i) THEN i + 1 ELSE i
searched(size) ==
    LET i == fit(size)
        h == tc.head[i]
    IN IF (h = Null \/ tc.blk[h].size < best(i)) /\ i < MaxBin THEN i + 1 ELSE i

\* Requests with an alignment or flags of their own pass the cache by.
Cacheable(n) == raised(n) <= threadcache_max
Hit(n) == Cacheable(n) /\ tc.head[searched(raised(n))] # Null
\* What a request that the cache does not serve asks of the mspace: after a
\* miss, the size of the bin.
Asked(n) == {raised(n)} \union
            (IF Cacheable(n) /\ ~Hit(n) THEN {best(fit(raised(n)))} ELSE {})

\* Blocks that are neither held nor cached any more are the mspace's.
Settle(sizes) == usable' = Restrict(sizes, DOMAIN tc'.blk \union DOMAIN held')

MallocFromCache(n) ==
    /\ Hit(n)
    /\ LET i == searched(raised(n)) IN
         /\ tc' = popYoungest(tc, i)
         /\ held' = With(held, tc.head[i], n)
    /\ UNCHANGED usable

MallocFromMspace(n) ==
    \E b \in mspace, size \in Asked(n) : \E u \in {v \in UsableSize : v >= size} :
        /\ held' = With(held, b, n)
        /\ usable' = With(usable, b, u)
        /\ UNCHANGED tc

\* nedpfree2
Free(b) ==
    /\ tc.frees < MaxFrees
    /\ tc' = Given(tc, b, usable[b])
    /\ held' = Without(held, {b})
    /\ Settle(usable)

\* nedprealloc2: a block that is large enough, and not by much, stays.
Suits(b, n) == n <= usable[b] /\ usable[b] - n < slack

ReallocNoop(b, n) ==
    /\ Suits(b, n)
    /\ held' = [held EXCEPT ![b] = n]
    /\ UNCHANGED <<tc, usable>>

ReallocFromCache(b, n) ==
    /\ ~Suits(b, n)
    /\ Hit(n) /\ tc.frees < MaxFrees
    /\ LET i == searched(raised(n)) IN
         /\ tc' = Given(popYoungest(tc, i), b, usable[b])
         /\ held' = With(Without(held, {b}), tc.head[i], n)
    /\ Settle(usable)

\* CallRealloc: in place, or to another block of the mspace.
ReallocInMspace(b, n) ==
    /\ ~Suits(b, n)
    /\ \E r \in mspace \union {b}, size \in Asked(n) :
         \E u \in {v \in UsableSize : v >= size} :
           /\ held' = With(Without(held, {b}), r, n)
           /\ UNCHANGED tc
           /\ Settle(With(usable, r, u))

\* nedtrimthreadcache, and nedflushlogs for this cache.
Trim ==
    /\ tc.frees < MaxFrees
    /\ tc' = RemoveCacheEntries([tc EXCEPT !.frees = @ + 1], 0)
    /\ UNCHANGED held
    /\ Settle(usable)

Next ==
    \/ \E n \in Request : MallocFromCache(n) \/ MallocFromMspace(n)
    \/ \E b \in DOMAIN held : Free(b)
    \/ \E b \in DOMAIN held, n \in Request :
         ReallocNoop(b, n) \/ ReallocFromCache(b, n) \/ ReallocInMspace(b, n)
    \/ Trim

Spec == Init /\ [][Next]_vars

-----------------------------------------------------------------------------
Header == [next : cached \union {Null}, prev : cached \union {Null},
           size : {best(i) : i \in Bin}, lastUsed : 1..MaxFrees]

\* The cache's links stay within the cache, and every block's size is known.
TypeOK ==
    /\ tc.head \in [Bin -> cached \union {Null}]
    /\ tc.tail \in [Bin -> cached \union {Null}]
    /\ tc.blk \in [cached -> Header]
    /\ tc.frees \in 0..MaxFrees /\ tc.freeInCache \in Nat
    /\ cached \union DOMAIN held \subseteq Block
    /\ usable \in [cached \union DOMAIN held -> UsableSize]
    /\ \A b \in DOMAIN held : held[b] \in Request

\* freeInCache, which decides when the cache is trimmed and is asserted never
\* to become negative, is the sum of the sizes in the cache.
FreeInCacheExact ==
    tc.freeInCache = MapThenSumSet(LAMBDA b : tc.blk[b].size, cached)

\* The blocks met from a block along one of its links.
Met(from, field) ==
    LET at[k \in 0..Cardinality(Block)] ==
            IF k = 0 THEN from
            ELSE IF at[k - 1] \in cached THEN tc.blk[at[k - 1]][field] ELSE Null
    IN {at[k] : k \in DOMAIN at} \ {Null}

\* However threadcache_malloc, threadcache_free and RemoveCacheEntries take
\* blocks from either end, a bin has the same blocks seen from both ends,
\* exactly the cached blocks of its size, and no client holds one of them; the
\* byte count follows.
BinsLinked ==
    /\ TypeOK /\ FreeInCacheExact
    /\ \A i \in Bin :
         LET bin == {b \in cached : tc.blk[b].size = best(i)}
         IN Met(tc.head[i], "next") = bin /\ Met(tc.tail[i], "prev") = bin
    /\ \A b \in cached : LET n == tc.blk[b].next IN n # Null => tc.blk[n].prev = b
    /\ cached \cap DOMAIN held = {}

\* A client may use what it asked for, though blocks change hands through the
\* cache by a rounded size, and no block is recorded as larger than it is.
RequestFits ==
    /\ \A b \in DOMAIN held : held[b] <= usable[b]
    /\ \A b \in cached : tc.blk[b].size <= usable[b]

\* Halving the age brings the cache below its limit: the last pass keeps only
\* the block just freed.
CacheBounded == tc.freeInCache < max_free_space

\* Whatever goes back to the mspace was freed before all that stays, in every
\* bin: an age is one for the whole cache, not for a bin.
OldestLeaveFirst ==
    [][\A b \in cached \ (DOMAIN tc'.blk \union DOMAIN held') :
         \A s \in cached \cap DOMAIN tc'.blk :
          tc.blk[b].lastUsed < tc'.blk[s].lastUsed]_vars
=============================================================================
