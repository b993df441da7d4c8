-------------------------- MODULE FreeBins_proofs ---------------------------
(***************************************************************************)
(* The free memory that nedmalloc keeps by size, in the bins of a thread's *)
(* cache (ThreadCache) and in the trees of an mspace (TreeBins).           *)
(*                                                                         *)
(* A thread's cache keeps its lists, its count and its limit, whatever it  *)
(* is asked for and given.                                                 *)
(*                                                                         *)
(* What a cache is (Good) says of every link where it leads: a block's     *)
(* next is the one freed last before it among those of its size, its prev  *)
(* the one freed first after it, the ends of a bin its youngest and its    *)
(* oldest (CacheLinked).  Links, ends and count are thus functions of      *)
(* which blocks are cached, of what size and since when: taking the        *)
(* youngest or the oldest of a bin (PopYoungestIs, PopOldestIs) and        *)
(* putting a block in front (PushedIs) keep them so.                       *)
(*                                                                         *)
(* A trim is a computation of such steps.  Left(c, d, K) says that d is    *)
(* what is left of c when only K stays; a bin is trimmed of what is not    *)
(* Young (TrimmedIs), then all bins are (RemoveCacheEntriesIs), then the   *)
(* passes compose (ReleaseFreeInCacheIs): as the pass with age 1 leaves at *)
(* most the block freed last, the cache ends below its limit, and the age  *)
(* of the last pass divides what goes from what stays.                     *)
(*                                                                         *)
(* The walks of the property BinsLinked meet each next lower rank          *)
(* (WalkMeets), hence the whole bin.                                       *)
(***************************************************************************)
EXTENDS ThreadCache, TreeBins, FiniteSetTheorems, WellFoundedInduction, TLAPS

INSTANCE Lemmas_proofs

-----------------------------------------------------------------------------
(* Sizes and bins. *)

LEMMA BestIs ==
    ASSUME NEW i \in Nat
    PROVE  /\ best(i) = 16 * 2^i /\ best(i) \in Nat \ {0}
           /\ best(i + 1) = 2 * best(i)
           /\ \A j \in Nat : i < j => best(i) < best(j)
           /\ \A j \in Nat : best(i) = best(j) => i = j
<1>1. ASSUME NEW k \in Nat PROVE best(k) = 16 * 2^k /\ best(k) \in Nat \ {0}
  <2>1. /\ k + 1 \in Nat /\ k + 2 \in Nat /\ k + 3 \in Nat
        /\ k + 2 = (k + 1) + 1 /\ k + 3 = (k + 2) + 1 /\ k + 4 = (k + 3) + 1
    OBVIOUS
  <2>2. \A n \in Nat : 2^n \in Nat /\ n < 2^n /\ 2^(n + 1) = 2 * 2^n
    BY Power
  <2> DEFINE p0 == 2^k
             p1 == 2^(k + 1)
             p2 == 2^(k + 2)
             p3 == 2^(k + 3)
             p4 == 2^(k + 4)
  <2>3. p0 \in Nat \ {0} /\ p1 = 2 * p0
    BY <2>1, <2>2
  <2>4. p2 = 2 * p1 /\ p3 = 2 * p2 /\ p4 = 2 * p3
    <3>1. p2 = 2 * p1
      BY <2>1, <2>2
    <3>2. p3 = 2 * p2
      BY <2>1, <2>2
    <3>3. p4 = 2 * p3
      BY <2>1, <2>2
    <3> QED
      BY <3>1, <3>2, <3>3
  <2>5. best(k) = p4
    BY DEF best
  <2> HIDE DEF p0, p1, p2, p3, p4
  <2>6. best(k) = 16 * p0 /\ best(k) \in Nat \ {0}
    BY <2>3, <2>4, <2>5
  <2> QED
    BY <2>6 DEF p0
<1>2. ASSUME NEW k \in Nat PROVE best(k + 1) = 2 * best(k)
  <2>1. best(k) = 16 * 2^k /\ best(k + 1) = 16 * 2^(k + 1) /\ 2^(k + 1) = 2 * 2^k /\ 2^k \in Nat
    BY <1>1, Power
  <2> DEFINE p == 2^k
             q == 2^(k + 1)
  <2>2. best(k) = 16 * p /\ best(k + 1) = 16 * q /\ q = 2 * p /\ p \in Nat
    BY <2>1
  <2> HIDE DEF p, q
  <2> QED
    BY <2>2
<1>3. ASSUME NEW j \in Nat, NEW k \in Nat, j < k PROVE best(j) < best(k)
  <2> DEFINE p == 2^j
             q == 2^k
  <2>1. best(j) = 16 * p /\ best(k) = 16 * q /\ p \in Nat /\ q \in Nat /\ j < p /\ 2 * p <= q
    BY <1>1, <1>3, Power, PowersGrow
  <2> HIDE DEF p, q
  <2> QED
    BY <2>1
<1>4. ASSUME NEW j \in Nat, NEW k \in Nat, best(j) = best(k) PROVE j = k
  <2>1. best(j) \in Nat /\ best(k) \in Nat
    BY <1>1
  <2>2. ~ (j < k) /\ ~ (k < j)
    BY <1>3, <1>4, <2>1
  <2> QED
    BY <2>2
<1> QED
  BY <1>1, <1>2, <1>3, <1>4

\* The bin of a size is the last whose blocks are not larger.
LEMMA BinOf ==
    ASSUME NEW size \in Nat, size >= 16
    PROVE  /\ size2binidx(size) \in Nat
           /\ best(size2binidx(size)) <= size /\ size < best(size2binidx(size) + 1)
           /\ \A j \in Nat : best(j) <= size => j <= size2binidx(size)
<1> DEFINE m == size \div 16
           i == size2binidx(size)
           P(j) == 2^j <= m /\ m < 2^(j + 1)
<1>1. m \in Nat \ {0} /\ m <= size /\ 16 * m <= size /\ size < 16 * m + 16
  OBVIOUS
<1>2. \E j \in 0..size : P(j)
  <2> HIDE DEF m
  <2>1. PICK j \in Nat : j < m /\ 2^j <= m /\ m < 2^(j + 1)
    BY <1>1, TopBit
  <2>2. j \in 0..size
    BY <1>1, <2>1
  <2> QED
    BY <2>1, <2>2
<1>3. i \in 0..size /\ P(i)
  <2>1. i = CHOOSE j \in 0..size : P(j)
    BY DEF size2binidx
  <2> HIDE DEF P, i
  <2> QED
    BY <1>2, <2>1
<1> HIDE DEF i
<1>4. i \in Nat
  BY <1>3
<1> DEFINE p == 2^i
           q == 2^(i + 1)
<1>5. p \in Nat /\ q = 2 * p /\ best(i) = 16 * p /\ best(i + 1) = 2 * best(i)
  BY <1>4, Power, BestIs
<1>6. p <= m /\ m < q
  BY <1>3
<1> HIDE DEF p, q, m, P
<1>7. best(i) <= size /\ size < best(i + 1)
  BY <1>1, <1>5, <1>6
<1>8. ASSUME NEW j \in Nat, best(j) <= size PROVE j <= i
  <2>1. i + 1 \in Nat /\ best(i + 1) \in Nat /\ best(j) \in Nat
    BY <1>4, BestIs
  <2>2. i + 1 < j => best(i + 1) < best(j)
    BY <1>4, <2>1, BestIs
  <2>3. i + 1 = j => best(i + 1) = best(j)
    OBVIOUS
  <2> QED
    BY <1>4, <1>7, <1>8, <2>1, <2>2, <2>3
<1> QED
  BY <1>4, <1>7, <1>8 DEF i

\* The last bin is for the largest size that is cached.
LEMMA LastBin ==
    /\ MaxBin \in Nat \ {0} /\ best(MaxBin) = threadcache_max
    /\ threadcache_max >= minimum /\ threadcache_max + overhead < best(MaxBin + 1)
<1>1. PICK i \in 1..threadcache_max : threadcache_max = best(i)
  BY ThreadCacheAssumption DEF best
<1>2. /\ i \in Nat \ {0} /\ threadcache_max \in Nat
  BY ThreadCacheAssumption
<1>3. best(i) = 16 * 2^i /\ best(i + 1) = 2 * best(i) /\ 2^i \in Nat /\ i < 2^i
  BY <1>2, BestIs, Power
<1> DEFINE p == 2^i
<1>4. best(i) = 16 * p /\ best(i + 1) = 2 * best(i) /\ p \in Nat /\ i < p
  BY <1>3
<1> HIDE DEF p
<1>5. best(i) >= 32 /\ best(i) + 16 < best(i + 1)
  BY <1>2, <1>4
<1>6. MaxBin = i
  <2>1. /\ MaxBin \in Nat /\ best(MaxBin) <= threadcache_max /\ threadcache_max < best(MaxBin + 1)
        /\ i <= MaxBin
    BY <1>1, <1>2, <1>4, <1>5, BinOf DEF MaxBin
  <2>2. i < MaxBin => best(i) < best(MaxBin)
    BY <1>2, <2>1, BestIs
  <2>3. best(MaxBin) \in Nat
    BY <2>1, BestIs
  <2> QED
    BY <1>1, <1>2, <2>1, <2>2, <2>3
<1> QED
  BY <1>1, <1>2, <1>5, <1>6 DEF minimum, overhead

\* A block that the cache takes goes to a bin, and counts at most its size.
LEMMA FreedBinIs ==
    ASSUME NEW size \in Nat, minimum <= size, size <= threadcache_max + overhead
    PROVE  freedBin(size) \in Bin /\ best(freedBin(size)) <= size
<1>1. size >= 16
  BY DEF minimum
<1>2. /\ freedBin(size) \in Nat /\ best(freedBin(size)) <= size
  BY <1>1, BinOf DEF freedBin
<1>3. /\ MaxBin + 1 \in Nat /\ MaxBin \in Nat /\ size < best(MaxBin + 1)
      /\ best(MaxBin + 1) \in Nat /\ best(freedBin(size)) \in Nat
  <2>1. /\ MaxBin + 1 \in Nat /\ MaxBin \in Nat /\ threadcache_max + overhead < best(MaxBin + 1)
        /\ threadcache_max \in Nat
    BY LastBin, ThreadCacheAssumption
  <2>2. best(MaxBin + 1) \in Nat /\ best(freedBin(size)) \in Nat
    BY <2>1, <1>2, BestIs
  <2> QED
    BY <2>1, <2>2 DEF overhead
<1>4. MaxBin + 1 < freedBin(size) => best(MaxBin + 1) < best(freedBin(size))
  BY <1>2, <1>3, BestIs
<1>5. MaxBin + 1 = freedBin(size) => best(MaxBin + 1) = best(freedBin(size))
  OBVIOUS
<1>6. freedBin(size) <= MaxBin
  BY <1>2, <1>3, <1>4, <1>5
<1> QED
  BY <1>2, <1>3, <1>6 DEF Bin

\* A request that may be cached is served from a bin whose blocks it fits.
LEMMA FitIs ==
    ASSUME NEW size \in Nat, minimum <= size, size <= threadcache_max
    PROVE  fit(size) \in Bin /\ size <= best(fit(size))
<1> DEFINE i == size2binidx(size)
<1>1. size >= 16
  BY DEF minimum
<1>2. /\ i \in Nat /\ best(i) <= size /\ size < best(i + 1) /\ MaxBin \in Nat
      /\ best(MaxBin) = threadcache_max
  BY <1>1, BinOf, LastBin
<1>3. fit(size) = IF size > best(i) THEN i + 1 ELSE i
  BY DEF fit
<1> HIDE DEF i
<1>4. /\ best(i) \in Nat /\ best(i + 1) \in Nat /\ best(MaxBin) \in Nat
      /\ MaxBin < i => best(MaxBin) < best(i)
  BY <1>2, BestIs
<1>5. i <= MaxBin
  BY <1>2, <1>4
<1>6. size > best(i) => i # MaxBin
  BY <1>2, <1>4
<1>7. fit(size) \in Nat /\ fit(size) <= MaxBin
  BY <1>2, <1>3, <1>5, <1>6
<1>8. size <= best(fit(size))
  BY <1>2, <1>3, <1>4
<1> QED
  BY <1>2, <1>7, <1>8 DEF Bin

-----------------------------------------------------------------------------
(* What is true of a cache. *)

Link == Block \union {Null}
Hdr == [next : Link, prev : Link, size : {best(i) : i \in Bin}, lastUsed : Nat]
Hdrs == UNION {[S -> Hdr] : S \in SUBSET Block}
Ends == [Bin -> Link]
Caches == [head : Ends, tail : Ends, blk : Hdrs, frees : Nat, freeInCache : Int]

In(c) == DOMAIN c.blk
InBin(c, i) == {b \in In(c) : c.blk[b].size = best(i)}
\* Block y is in the bin of block b and was freed before it.
Older(c, y, b) ==
    y \in In(c) /\ c.blk[y].size = c.blk[b].size /\ c.blk[y].lastUsed < c.blk[b].lastUsed

\* A block's neighbours are the ones freed next before and next after it.
NextIs(c, b, n) ==
    IF n = Null THEN \A y \in In(c) : ~ Older(c, y, b)
    ELSE /\ n \in In(c) /\ Older(c, n, b)
         /\ \A y \in In(c) : Older(c, y, b) => c.blk[y].lastUsed <= c.blk[n].lastUsed
PrevIs(c, b, p) ==
    IF p = Null THEN \A y \in In(c) : ~ Older(c, b, y)
    ELSE /\ p \in In(c) /\ Older(c, b, p)
         /\ \A y \in In(c) : Older(c, b, y) => c.blk[p].lastUsed <= c.blk[y].lastUsed
\* The ends of a bin are its youngest and its oldest block.
HeadIs(c, i, h) ==
    IF h = Null THEN InBin(c, i) = {}
    ELSE h \in InBin(c, i) /\ \A y \in InBin(c, i) : c.blk[y].lastUsed <= c.blk[h].lastUsed
TailIs(c, i, h) ==
    IF h = Null THEN InBin(c, i) = {}
    ELSE h \in InBin(c, i) /\ \A y \in InBin(c, i) : c.blk[h].lastUsed <= c.blk[y].lastUsed

CacheLinked(c) ==
    /\ \A b \in In(c) : NextIs(c, b, c.blk[b].next) /\ PrevIs(c, b, c.blk[b].prev)
    /\ \A i \in Bin : HeadIs(c, i, c.head[i]) /\ TailIs(c, i, c.tail[i])
\* Every block has a time of its own.
Stamped(c) ==
    /\ \A b \in In(c) : c.blk[b].lastUsed \in 1..c.frees
    /\ \A x, y \in In(c) : c.blk[x].lastUsed = c.blk[y].lastUsed => x = y
Counted(c) == c.freeInCache = Sum([b \in In(c) |-> c.blk[b].size], In(c))

Good(c) == c \in Caches /\ CacheLinked(c) /\ Stamped(c) /\ Counted(c)

\* d is what is left of c when only the blocks of K stay.
Left(c, d, K) ==
    /\ Good(d) /\ K \subseteq In(c) /\ In(d) = K /\ d.frees = c.frees
    /\ \A b \in K : d.blk[b].size = c.blk[b].size /\ d.blk[b].lastUsed = c.blk[b].lastUsed

LEMMA CacheFields ==
    ASSUME NEW c \in Caches
    PROVE  /\ c.head \in Ends /\ c.tail \in Ends /\ c.frees \in Nat /\ c.freeInCache \in Int
           /\ In(c) \subseteq Block /\ IsFiniteSet(In(c)) /\ Null \notin In(c)
           /\ c.blk \in [In(c) -> Hdr]
<1>1. c.head \in Ends /\ c.tail \in Ends /\ c.frees \in Nat /\ c.freeInCache \in Int
      /\ c.blk \in Hdrs
  BY DEF Caches
<1>2. PICK S \in SUBSET Block : c.blk \in [S -> Hdr]
  BY <1>1 DEF Hdrs
<1>3. In(c) = S
  BY <1>2 DEF In
<1> QED
  BY <1>1, <1>2, <1>3, ThreadCacheAssumption, FS_Subset

LEMMA HdrFields ==
    ASSUME NEW c \in Caches, NEW b \in In(c)
    PROVE  /\ c.blk[b].next \in Link /\ c.blk[b].prev \in Link /\ c.blk[b].lastUsed \in Nat
           /\ c.blk[b].size \in Nat \ {0} /\ \E i \in Bin : c.blk[b].size = best(i)
<1>1. c.blk[b] \in Hdr
  BY CacheFields
<1>2. PICK i \in Bin : c.blk[b].size = best(i)
  BY <1>1 DEF Hdr
<1>3. i \in Nat
  BY LastBin DEF Bin
<1> QED
  BY <1>1, <1>2, <1>3, BestIs DEF Hdr

\* One link of block n set.
Relinked(blk, c, n, field, to) ==
    /\ blk \in [In(c) -> Hdr]
    /\ \A y \in In(c) :
         /\ blk[y].size = c.blk[y].size /\ blk[y].lastUsed = c.blk[y].lastUsed
         /\ blk[y].next = IF y = n /\ field = "next" THEN to ELSE c.blk[y].next
         /\ blk[y].prev = IF y = n /\ field = "prev" THEN to ELSE c.blk[y].prev

LEMMA RelinkIs ==
    ASSUME NEW c \in Caches, NEW n \in In(c) \union {Null},
           NEW to \in Link, NEW field \in {"next", "prev"}
    PROVE  Relinked(Relink(c.blk, n, field, to), c, n, field, to)
<1> DEFINE r == Relink(c.blk, n, field, to)
<1>1. c.blk \in [In(c) -> Hdr] /\ Null \notin In(c)
  BY CacheFields
<1>2. CASE n = Null
  BY <1>1, <1>2 DEF Relink, Relinked
<1>3. CASE n # Null /\ field = "next"
  <2>1. r = [c.blk EXCEPT ![n]["next"] = to]
    BY <1>3 DEF Relink
  <2> HIDE DEF r
  <2>2. c.blk[n] \in Hdr /\ n \in In(c)
    BY <1>1, <1>3
  <2>3. \A y \in In(c) : r[y] = IF y = n THEN [c.blk[n] EXCEPT !["next"] = to] ELSE c.blk[y]
    BY <1>1, <2>1, <2>2
  <2>4. r \in [In(c) -> Hdr]
    BY <1>1, <2>1, <2>2, <2>3 DEF Hdr
  <2>5. Relinked(r, c, n, field, to)
    BY <1>1, <1>3, <2>2, <2>3, <2>4 DEF Hdr, Relinked
  <2> QED
    BY <2>5 DEF r
<1>4. CASE n # Null /\ field = "prev"
  <2>1. r = [c.blk EXCEPT ![n]["prev"] = to]
    BY <1>4 DEF Relink
  <2> HIDE DEF r
  <2>2. c.blk[n] \in Hdr /\ n \in In(c)
    BY <1>1, <1>4
  <2>3. \A y \in In(c) : r[y] = IF y = n THEN [c.blk[n] EXCEPT !["prev"] = to] ELSE c.blk[y]
    BY <1>1, <2>1, <2>2
  <2>4. r \in [In(c) -> Hdr]
    BY <1>1, <2>1, <2>2, <2>3 DEF Hdr
  <2>5. Relinked(r, c, n, field, to)
    BY <1>1, <1>4, <2>2, <2>3, <2>4 DEF Hdr, Relinked
  <2> QED
    BY <2>5 DEF r
<1> QED
  BY <1>2, <1>3, <1>4

\* The headers that the removal of block b leaves, a link of its neighbour n set.
CacheUnlinked(blk, c, b, n, field, to) ==
    /\ DOMAIN blk = In(c) \ {b} /\ blk \in [In(c) \ {b} -> Hdr]
    /\ \A y \in In(c) \ {b} :
         /\ blk[y].size = c.blk[y].size /\ blk[y].lastUsed = c.blk[y].lastUsed
         /\ blk[y].next = IF y = n /\ field = "next" THEN to ELSE c.blk[y].next
         /\ blk[y].prev = IF y = n /\ field = "prev" THEN to ELSE c.blk[y].prev

LEMMA UnlinkIs ==
    ASSUME NEW c \in Caches, NEW b \in In(c), NEW n \in In(c) \union {Null}, n # b,
           NEW to \in Link, NEW field \in {"next", "prev"}
    PROVE  CacheUnlinked(Without(Relink(c.blk, n, field, to), {b}), c, b, n, field, to)
<1> DEFINE r == Relink(c.blk, n, field, to)
           blk == Without(Relink(c.blk, n, field, to), {b})
<1>1. Relinked(r, c, n, field, to)
  BY RelinkIs
<1>2. blk = [y \in In(c) \ {b} |-> r[y]]
  <2>1. DOMAIN r = In(c)
    BY <1>1 DEF Relinked
  <2> QED
    BY <2>1 DEF Without, Restrict
<1> HIDE DEF r, blk
<1>3. CacheUnlinked(blk, c, b, n, field, to)
  BY <1>1, <1>2 DEF Relinked, CacheUnlinked
<1> QED
  BY <1>3 DEF blk

\* The cache without the youngest block b of bin i, whose next is n.
LEMMA PopYoungestIs ==
    ASSUME NEW c, Good(c), NEW i \in Bin, c.head[i] # Null
    PROVE  /\ c.head[i] \in InBin(c, i)
           /\ Left(c, popYoungest(c, i), In(c) \ {c.head[i]})
<1> DEFINE b == c.head[i]
           n == c.blk[b].next
           d == popYoungest(c, i)
           K == In(c) \ {b}
<1>1. c \in Caches /\ CacheLinked(c) /\ Stamped(c) /\ Counted(c)
  BY DEF Good
<1>2. /\ b \in InBin(c, i) /\ b \in In(c) /\ b \in Block /\ c.blk[b].size = best(i)
      /\ \A y \in InBin(c, i) : c.blk[y].lastUsed <= c.blk[b].lastUsed
  BY <1>1, CacheFields DEF CacheLinked, HeadIs, InBin
<1>3. NextIs(c, b, n) /\ n \in Link
  BY <1>1, <1>2, HdrFields DEF CacheLinked
<1>4. n \in In(c) \union {Null} /\ n # b
  <2>1. b # Null
    OBVIOUS
  <2>2. n # Null => n \in In(c) /\ c.blk[n].lastUsed < c.blk[b].lastUsed
    BY <1>3 DEF NextIs, Older
  <2>3. c.blk[b].lastUsed \in Nat
    BY <1>1, <1>2, HdrFields
  <2> QED
    BY <2>1, <2>2, <2>3
<1>5. /\ d.head = [c.head EXCEPT ![i] = n] /\ d.frees = c.frees
      /\ d.tail = [c.tail EXCEPT ![i] = IF n = Null THEN Null ELSE c.tail[i]]
      /\ d.blk = Without(Relink(c.blk, n, "prev", Null), {b})
      /\ d.freeInCache = c.freeInCache - c.blk[b].size
      /\ d.head \in Ends /\ d.tail \in Ends /\ d.blk \in Hdrs /\ d.freeInCache \in Int =>
            d \in Caches
  BY <1>1 DEF popYoungest, Caches
<1> HIDE DEF d
<1>6. /\ In(d) = K /\ d.blk \in [K -> Hdr]
      /\ \A y \in K :
           /\ d.blk[y].size = c.blk[y].size /\ d.blk[y].lastUsed = c.blk[y].lastUsed
           /\ d.blk[y].next = c.blk[y].next
           /\ d.blk[y].prev = IF y = n THEN Null ELSE c.blk[y].prev
  <2>1. Null \in Link /\ "prev" \in {"next", "prev"} /\ In(d) = DOMAIN d.blk
    BY DEF Link, In
  <2> QED
    <3>1. c \in Caches /\ b \in In(c) /\ n \in In(c) \union {Null} /\ n # b
          /\ d.blk = Without(Relink(c.blk, n, "prev", Null), {b})
      BY <1>1, <1>2, <1>4, <1>5
    <3> HIDE DEF b, n
    <3>2. CacheUnlinked(d.blk, c, b, n, "prev", Null)
      BY <2>1, <3>1, UnlinkIs
    <3> QED
      BY <2>1, <3>2 DEF CacheUnlinked
<1>7. d \in Caches
  <2>1. c.head \in Ends /\ c.tail \in Ends /\ c.frees \in Nat /\ c.freeInCache \in Int
        /\ In(c) \subseteq Block /\ c.blk[b].size \in Nat
    BY <1>1, <1>2, CacheFields, HdrFields
  <2>2. d.head \in Ends
    BY <1>3, <1>5, <2>1 DEF Ends
  <2>3. d.tail \in Ends
    BY <1>5, <2>1 DEF Ends, Link
  <2>4. d.blk \in Hdrs
    BY <1>6, <2>1 DEF Hdrs
  <2> QED
    BY <1>5, <2>1, <2>2, <2>3, <2>4 DEF Caches
<1>8. \A x, y \in K : Older(d, x, y) <=> Older(c, x, y)
  BY <1>6 DEF Older
<1>9. /\ \A y \in In(c) : c.blk[y].lastUsed \in Nat
      /\ \A y \in K : c.blk[y].size = best(i) => Older(c, y, b)
      /\ \A y \in K : ~ Older(c, b, y)
      /\ n # Null => n \in K /\ \A y \in K : c.blk[y].size = best(i) =>
                                c.blk[y].lastUsed <= c.blk[n].lastUsed
      /\ n = Null => \A y \in K : c.blk[y].size # best(i)
      /\ n # Null => Older(c, n, b)
  <2>1. \A y \in In(c) : c.blk[y].lastUsed \in Nat
    BY <1>1, HdrFields
  <2>2. \A y \in K : c.blk[y].size = best(i) => Older(c, y, b)
    BY <1>1, <1>2, <2>1 DEF Older, InBin, Stamped
  <2>3. \A y \in K : ~ Older(c, b, y)
    BY <1>1, <1>2, <2>1 DEF Older, InBin, Stamped
  <2>4. n # Null => n \in K /\ \A y \in K : c.blk[y].size = best(i) =>
                                c.blk[y].lastUsed <= c.blk[n].lastUsed
    BY <1>3, <1>4, <2>2 DEF NextIs
  <2>5. n = Null => \A y \in K : c.blk[y].size # best(i)
    BY <1>3, <2>2 DEF NextIs
  <2>6. n # Null => Older(c, n, b)
    BY <1>3 DEF NextIs
  <2> QED
    BY <2>1, <2>2, <2>3, <2>4, <2>5, <2>6
<1>10. ASSUME NEW y \in K PROVE NextIs(d, y, d.blk[y].next)
  <2>1. NextIs(c, y, c.blk[y].next) /\ d.blk[y].next = c.blk[y].next
    BY <1>1, <1>6 DEF CacheLinked
  <2>2. c.blk[y].next # Null => c.blk[y].next \in K
    BY <1>9, <2>1 DEF NextIs
  <2> QED
    BY <1>6, <1>8, <2>1, <2>2 DEF NextIs
<1>11. ASSUME NEW y \in K PROVE PrevIs(d, y, d.blk[y].prev)
  <2>1. PrevIs(c, y, c.blk[y].prev)
    BY <1>1 DEF CacheLinked
  <2>2. CASE y = n
    <3>1. ASSUME NEW z \in K PROVE ~ Older(c, n, z)
      <4>1. n \in K /\ n # Null
        BY <1>1, <2>2, CacheFields
      <4> QED
        BY <1>2, <1>9, <4>1 DEF Older
    <3> QED
      BY <1>6, <1>8, <2>2, <3>1 DEF PrevIs
  <2>3. CASE y # n
    <3>1. d.blk[y].prev = c.blk[y].prev
      BY <1>6, <2>3
    <3>2. c.blk[y].prev # b
      <4> SUFFICES ASSUME c.blk[y].prev = b PROVE FALSE
        OBVIOUS
      <4>1. /\ Older(c, y, b)
            /\ \A z \in In(c) : Older(c, y, z) => c.blk[b].lastUsed <= c.blk[z].lastUsed
        BY <2>1 DEF PrevIs
      <4>2. n # Null /\ n \in K /\ c.blk[y].lastUsed <= c.blk[n].lastUsed
        BY <1>2, <1>9, <4>1 DEF Older
      <4>3. c.blk[y].lastUsed # c.blk[n].lastUsed
        BY <1>1, <2>3, <4>2 DEF Stamped
      <4>4. Older(c, y, n)
        <5>1. c.blk[y].size = c.blk[b].size /\ c.blk[n].size = c.blk[b].size /\ y \in In(c)
          BY <1>9, <4>1, <4>2 DEF Older
        <5>2. c.blk[y].lastUsed < c.blk[n].lastUsed
          BY <1>9, <4>2, <4>3
        <5> QED
          BY <5>1, <5>2 DEF Older
      <4> QED
        <5>1. c.blk[b].lastUsed <= c.blk[n].lastUsed
          BY <4>1, <4>2, <4>4
        <5>2. c.blk[n].lastUsed < c.blk[b].lastUsed
          BY <1>9, <4>2 DEF Older
        <5>3. c.blk[n].lastUsed \in Nat /\ c.blk[b].lastUsed \in Nat
          BY <1>2, <1>9, <4>2
        <5> QED
          BY <5>1, <5>2, <5>3
    <3>3. c.blk[y].prev # Null => c.blk[y].prev \in K
      BY <2>1, <3>2 DEF PrevIs
    <3> QED
      BY <1>6, <1>8, <2>1, <3>1, <3>3 DEF PrevIs
  <2> QED
    BY <2>2, <2>3
<1>12. ASSUME NEW j \in Bin PROVE HeadIs(d, j, d.head[j]) /\ TailIs(d, j, d.tail[j])
  <2>1. /\ HeadIs(c, j, c.head[j]) /\ TailIs(c, j, c.tail[j])
        /\ InBin(d, j) = InBin(c, j) \ {b}
    BY <1>1, <1>6 DEF CacheLinked, InBin
  <2>2. c.head \in Ends /\ c.tail \in Ends
    BY <1>1, CacheFields
  <2>3. CASE j # i
    <3>1. i \in Nat /\ j \in Nat
      BY LastBin DEF Bin
    <3>2. best(j) # best(i)
      BY <2>3, <3>1, BestIs
    <3>3. InBin(d, j) = InBin(c, j) /\ b \notin InBin(c, j)
      BY <1>2, <2>1, <3>2 DEF InBin
    <3>4. d.head[j] = c.head[j] /\ d.tail[j] = c.tail[j]
      BY <1>5, <2>2, <2>3 DEF Ends
    <3>5. \A y \in InBin(c, j) : d.blk[y].lastUsed = c.blk[y].lastUsed
      BY <1>6, <3>3 DEF InBin
    <3> QED
      BY <2>1, <3>3, <3>4, <3>5 DEF HeadIs, TailIs
  <2>4. CASE j = i
    <3>1. d.head[i] = n /\ d.tail[i] = IF n = Null THEN Null ELSE c.tail[i]
      BY <1>5, <2>2 DEF Ends
    <3>2. InBin(d, i) = {y \in K : c.blk[y].size = best(i)}
      BY <1>6 DEF InBin
    <3>3. CASE n = Null
      BY <1>9, <2>4, <3>1, <3>2, <3>3 DEF HeadIs, TailIs
    <3>4. CASE n # Null
      <4>1. n \in InBin(d, i)
        BY <1>2, <1>9, <3>2, <3>4 DEF Older
      <4>2. HeadIs(d, i, n)
        BY <1>6, <1>9, <3>2, <3>4, <4>1 DEF HeadIs
      <4>3. c.tail[i] # Null /\ c.tail[i] \in InBin(c, i)
            /\ \A y \in InBin(c, i) : c.blk[c.tail[i]].lastUsed <= c.blk[y].lastUsed
        BY <1>2, <2>1, <2>4 DEF TailIs
      <4>4. c.blk[c.tail[i]].lastUsed <= c.blk[n].lastUsed /\ n \in InBin(c, i)
        BY <2>1, <2>4, <4>1, <4>3
      <4>5. c.tail[i] # b
        BY <1>2, <1>9, <3>4, <4>4 DEF Older
      <4>6. TailIs(d, i, c.tail[i])
        BY <1>6, <2>1, <2>4, <3>2, <4>3, <4>5 DEF TailIs
      <4> QED
        BY <2>4, <3>1, <3>4, <4>2, <4>6
    <3> QED
      BY <3>3, <3>4
  <2> QED
    BY <2>3, <2>4
<1>13. Stamped(d)
  BY <1>1, <1>5, <1>6 DEF Stamped
<1>14. Counted(d)
  <2> DEFINE f == [y \in In(c) |-> c.blk[y].size]
             g == [y \in In(d) |-> d.blk[y].size]
  <2>1. IsFiniteSet(In(c)) /\ \A y \in In(c) : f[y] \in Nat
    BY <1>1, CacheFields, HdrFields
  <2>2. f[b] = c.blk[b].size
    BY <1>2
  <2>3. \A y \in K : f[y] = g[y]
    BY <1>6
  <2>4. c.freeInCache = Sum(f, In(c))
    BY <1>1 DEF Counted
  <2> HIDE DEF f, g
  <2>5. Sum(f, In(c)) = f[b] + Sum(f, K) /\ Sum(f, K) \in Nat
    BY <1>2, <2>1, SumParts
  <2>6. Sum(f, K) = Sum(g, K)
    BY <2>3, SameSum
  <2>7. f[b] \in Nat
    BY <1>2, <2>1
  <2>8. d.freeInCache = Sum(g, In(d))
    <3>1. In(d) = K /\ d.freeInCache = c.freeInCache - c.blk[b].size
      BY <1>5, <1>6
    <3> HIDE DEF K, b
    <3> QED
      BY <2>2, <2>4, <2>5, <2>6, <2>7, <3>1
  <2> QED
    BY <2>8 DEF Counted, g
<1>15. CacheLinked(d)
  BY <1>6, <1>10, <1>11, <1>12 DEF CacheLinked
<1> QED
  <2>1. Good(d)
    BY <1>7, <1>13, <1>14, <1>15 DEF Good
  <2>2. K \subseteq In(c) /\ d.frees = c.frees
    BY <1>5
  <2> QED
    BY <1>2, <1>6, <2>1, <2>2 DEF Left, d

\* The cache without the oldest block b of bin i, whose prev is p.
LEMMA PopOldestIs ==
    ASSUME NEW c, Good(c), NEW i \in Bin, c.tail[i] # Null
    PROVE  /\ c.tail[i] \in InBin(c, i)
           /\ Left(c, popOldest(c, i), In(c) \ {c.tail[i]})
<1> DEFINE b == c.tail[i]
           p == c.blk[b].prev
           d == popOldest(c, i)
           K == In(c) \ {b}
<1>1. c \in Caches /\ CacheLinked(c) /\ Stamped(c) /\ Counted(c)
  BY DEF Good
<1>2. /\ b \in InBin(c, i) /\ b \in In(c) /\ b \in Block /\ c.blk[b].size = best(i)
      /\ \A y \in InBin(c, i) : c.blk[b].lastUsed <= c.blk[y].lastUsed
  BY <1>1, CacheFields DEF CacheLinked, TailIs, InBin
<1>3. PrevIs(c, b, p) /\ p \in Link
  BY <1>1, <1>2, HdrFields DEF CacheLinked
<1>4. p \in In(c) \union {Null} /\ p # b
  <2>1. b # Null
    OBVIOUS
  <2>2. p # Null => p \in In(c) /\ c.blk[b].lastUsed < c.blk[p].lastUsed
    BY <1>3 DEF PrevIs, Older
  <2>3. c.blk[b].lastUsed \in Nat
    BY <1>1, <1>2, HdrFields
  <2> QED
    BY <2>1, <2>2, <2>3
<1>5. /\ d.tail = [c.tail EXCEPT ![i] = p] /\ d.frees = c.frees
      /\ d.head = [c.head EXCEPT ![i] = IF p = Null THEN Null ELSE c.head[i]]
      /\ d.blk = Without(Relink(c.blk, p, "next", Null), {b})
      /\ d.freeInCache = c.freeInCache - c.blk[b].size
      /\ d.tail \in Ends /\ d.head \in Ends /\ d.blk \in Hdrs /\ d.freeInCache \in Int =>
            d \in Caches
  BY <1>1 DEF popOldest, Caches
<1> HIDE DEF d
<1>6. /\ In(d) = K /\ d.blk \in [K -> Hdr]
      /\ \A y \in K :
           /\ d.blk[y].size = c.blk[y].size /\ d.blk[y].lastUsed = c.blk[y].lastUsed
           /\ d.blk[y].prev = c.blk[y].prev
           /\ d.blk[y].next = IF y = p THEN Null ELSE c.blk[y].next
  <2>1. Null \in Link /\ "next" \in {"next", "prev"} /\ In(d) = DOMAIN d.blk
    BY DEF Link, In
  <2> QED
    <3>1. c \in Caches /\ b \in In(c) /\ p \in In(c) \union {Null} /\ p # b
          /\ d.blk = Without(Relink(c.blk, p, "next", Null), {b})
      BY <1>1, <1>2, <1>4, <1>5
    <3> HIDE DEF b, p
    <3>2. CacheUnlinked(d.blk, c, b, p, "next", Null)
      BY <2>1, <3>1, UnlinkIs
    <3> QED
      BY <2>1, <3>2 DEF CacheUnlinked
<1>7. d \in Caches
  <2>1. c.tail \in Ends /\ c.head \in Ends /\ c.frees \in Nat /\ c.freeInCache \in Int
        /\ In(c) \subseteq Block /\ c.blk[b].size \in Nat
    BY <1>1, <1>2, CacheFields, HdrFields
  <2>2. d.tail \in Ends
    BY <1>3, <1>5, <2>1 DEF Ends
  <2>3. d.head \in Ends
    BY <1>5, <2>1 DEF Ends, Link
  <2>4. d.blk \in Hdrs
    BY <1>6, <2>1 DEF Hdrs
  <2> QED
    BY <1>5, <2>1, <2>2, <2>3, <2>4 DEF Caches
<1>8. \A x, y \in K : Older(d, y, x) <=> Older(c, y, x)
  BY <1>6 DEF Older
<1>9. /\ \A y \in In(c) : c.blk[y].lastUsed \in Nat
      /\ \A y \in K : c.blk[y].size = best(i) => Older(c, b, y)
      /\ \A y \in K : ~ Older(c, y, b)
      /\ p # Null => p \in K /\ \A y \in K : c.blk[y].size = best(i) =>
                                c.blk[p].lastUsed <= c.blk[y].lastUsed
      /\ p = Null => \A y \in K : c.blk[y].size # best(i)
      /\ p # Null => Older(c, b, p)
  <2>1. \A y \in In(c) : c.blk[y].lastUsed \in Nat
    BY <1>1, HdrFields
  <2>2. \A y \in K : c.blk[y].size = best(i) => Older(c, b, y)
    BY <1>1, <1>2, <2>1 DEF Older, InBin, Stamped
  <2>3. \A y \in K : ~ Older(c, y, b)
    BY <1>1, <1>2, <2>1 DEF Older, InBin, Stamped
  <2>4. p # Null => p \in K /\ \A y \in K : c.blk[y].size = best(i) =>
                                c.blk[p].lastUsed <= c.blk[y].lastUsed
    BY <1>3, <1>4, <2>2 DEF PrevIs
  <2>5. p = Null => \A y \in K : c.blk[y].size # best(i)
    BY <1>3, <2>2 DEF PrevIs
  <2>6. p # Null => Older(c, b, p)
    BY <1>3 DEF PrevIs
  <2> QED
    BY <2>1, <2>2, <2>3, <2>4, <2>5, <2>6
<1>10. ASSUME NEW y \in K PROVE PrevIs(d, y, d.blk[y].prev)
  <2>1. PrevIs(c, y, c.blk[y].prev) /\ d.blk[y].prev = c.blk[y].prev
    BY <1>1, <1>6 DEF CacheLinked
  <2>2. c.blk[y].prev # Null => c.blk[y].prev \in K
    BY <1>9, <2>1 DEF PrevIs
  <2> QED
    BY <1>6, <1>8, <2>1, <2>2 DEF PrevIs
<1>11. ASSUME NEW y \in K PROVE NextIs(d, y, d.blk[y].next)
  <2>1. NextIs(c, y, c.blk[y].next)
    BY <1>1 DEF CacheLinked
  <2>2. CASE y = p
    <3>1. ASSUME NEW z \in K PROVE ~ Older(c, z, p)
      <4>1. p \in K /\ p # Null
        BY <1>1, <2>2, CacheFields
      <4> QED
        BY <1>2, <1>9, <4>1 DEF Older
    <3> QED
      BY <1>6, <1>8, <2>2, <3>1 DEF NextIs
  <2>3. CASE y # p
    <3>1. d.blk[y].next = c.blk[y].next
      BY <1>6, <2>3
    <3>2. c.blk[y].next # b
      <4> SUFFICES ASSUME c.blk[y].next = b PROVE FALSE
        OBVIOUS
      <4>1. /\ Older(c, b, y)
            /\ \A z \in In(c) : Older(c, z, y) => c.blk[z].lastUsed <= c.blk[b].lastUsed
        BY <2>1 DEF NextIs
      <4>2. p # Null /\ p \in K /\ c.blk[p].lastUsed <= c.blk[y].lastUsed
        BY <1>2, <1>9, <4>1 DEF Older
      <4>3. c.blk[y].lastUsed # c.blk[p].lastUsed
        BY <1>1, <2>3, <4>2 DEF Stamped
      <4>4. Older(c, p, y)
        <5>1. /\ p \in In(c) /\ c.blk[p].size = c.blk[b].size
              /\ c.blk[p].lastUsed \in Nat /\ c.blk[y].lastUsed \in Nat
          BY <1>9, <4>2 DEF Older
        <5>2. c.blk[b].size = c.blk[y].size
          BY <4>1 DEF Older
        <5>3. c.blk[p].lastUsed < c.blk[y].lastUsed
          BY <4>2, <4>3, <5>1
        <5> QED
          BY <5>1, <5>2, <5>3 DEF Older
      <4> QED
        <5>1. c.blk[p].lastUsed <= c.blk[b].lastUsed
          BY <4>1, <4>2, <4>4
        <5>2. c.blk[b].lastUsed < c.blk[p].lastUsed
          BY <1>9, <4>2 DEF Older
        <5>3. c.blk[p].lastUsed \in Nat /\ c.blk[b].lastUsed \in Nat
          BY <1>2, <1>9, <4>2
        <5> QED
          BY <5>1, <5>2, <5>3
    <3>3. c.blk[y].next # Null => c.blk[y].next \in K
      BY <2>1, <3>2 DEF NextIs
    <3> QED
      BY <1>6, <1>8, <2>1, <3>1, <3>3 DEF NextIs
  <2> QED
    BY <2>2, <2>3
<1>12. ASSUME NEW j \in Bin PROVE TailIs(d, j, d.tail[j]) /\ HeadIs(d, j, d.head[j])
  <2>1. /\ TailIs(c, j, c.tail[j]) /\ HeadIs(c, j, c.head[j])
        /\ InBin(d, j) = InBin(c, j) \ {b}
    BY <1>1, <1>6 DEF CacheLinked, InBin
  <2>2. c.tail \in Ends /\ c.head \in Ends
    BY <1>1, CacheFields
  <2>3. CASE j # i
    <3>1. i \in Nat /\ j \in Nat
      BY LastBin DEF Bin
    <3>2. best(j) # best(i)
      BY <2>3, <3>1, BestIs
    <3>3. InBin(d, j) = InBin(c, j) /\ b \notin InBin(c, j)
      BY <1>2, <2>1, <3>2 DEF InBin
    <3>4. d.tail[j] = c.tail[j] /\ d.head[j] = c.head[j]
      BY <1>5, <2>2, <2>3 DEF Ends
    <3>5. \A y \in InBin(c, j) : d.blk[y].lastUsed = c.blk[y].lastUsed
      BY <1>6, <3>3 DEF InBin
    <3> QED
      BY <2>1, <3>3, <3>4, <3>5 DEF TailIs, HeadIs
  <2>4. CASE j = i
    <3>1. d.tail[i] = p /\ d.head[i] = IF p = Null THEN Null ELSE c.head[i]
      BY <1>5, <2>2 DEF Ends
    <3>2. InBin(d, i) = {y \in K : c.blk[y].size = best(i)}
      BY <1>6 DEF InBin
    <3>3. CASE p = Null
      BY <1>9, <2>4, <3>1, <3>2, <3>3 DEF TailIs, HeadIs
    <3>4. CASE p # Null
      <4>1. p \in InBin(d, i)
        BY <1>2, <1>9, <3>2, <3>4 DEF Older
      <4>2. TailIs(d, i, p)
        BY <1>6, <1>9, <3>2, <3>4, <4>1 DEF TailIs
      <4>3. c.head[i] # Null /\ c.head[i] \in InBin(c, i)
            /\ \A y \in InBin(c, i) : c.blk[y].lastUsed <= c.blk[c.head[i]].lastUsed
        BY <1>2, <2>1, <2>4 DEF HeadIs
      <4>4. c.blk[p].lastUsed <= c.blk[c.head[i]].lastUsed /\ p \in InBin(c, i)
        BY <2>1, <2>4, <4>1, <4>3
      <4>5. c.head[i] # b
        BY <1>2, <1>9, <3>4, <4>4 DEF Older
      <4>6. HeadIs(d, i, c.head[i])
        BY <1>6, <2>1, <2>4, <3>2, <4>3, <4>5 DEF HeadIs
      <4> QED
        BY <2>4, <3>1, <3>4, <4>2, <4>6
    <3> QED
      BY <3>3, <3>4
  <2> QED
    BY <2>3, <2>4
<1>13. Stamped(d)
  BY <1>1, <1>5, <1>6 DEF Stamped
<1>14. Counted(d)
  <2> DEFINE f == [y \in In(c) |-> c.blk[y].size]
             g == [y \in In(d) |-> d.blk[y].size]
  <2>1. IsFiniteSet(In(c)) /\ \A y \in In(c) : f[y] \in Nat
    BY <1>1, CacheFields, HdrFields
  <2>2. f[b] = c.blk[b].size
    BY <1>2
  <2>3. \A y \in K : f[y] = g[y]
    BY <1>6
  <2>4. c.freeInCache = Sum(f, In(c))
    BY <1>1 DEF Counted
  <2> HIDE DEF f, g
  <2>5. Sum(f, In(c)) = f[b] + Sum(f, K) /\ Sum(f, K) \in Nat
    BY <1>2, <2>1, SumParts
  <2>6. Sum(f, K) = Sum(g, K)
    BY <2>3, SameSum
  <2>7. f[b] \in Nat
    BY <1>2, <2>1
  <2>8. d.freeInCache = Sum(g, In(d))
    <3>1. In(d) = K /\ d.freeInCache = c.freeInCache - c.blk[b].size
      BY <1>5, <1>6
    <3> HIDE DEF K, b
    <3> QED
      BY <2>2, <2>4, <2>5, <2>6, <2>7, <3>1
  <2> QED
    BY <2>8 DEF Counted, g
<1>15. CacheLinked(d)
  BY <1>6, <1>10, <1>11, <1>12 DEF CacheLinked
<1> QED
  <2>1. Good(d)
    BY <1>7, <1>13, <1>14, <1>15 DEF Good
  <2>2. K \subseteq In(c) /\ d.frees = c.frees
    BY <1>5
  <2> QED
    BY <1>2, <1>6, <2>1, <2>2 DEF Left, d

-----------------------------------------------------------------------------
(* Trimming. *)

LEMMA LeftAll ==
    ASSUME NEW c, Good(c)
    PROVE  Left(c, c, In(c))
  BY DEF Left

LEMMA LeftOfLeft ==
    ASSUME NEW c, NEW d, NEW e, NEW K, NEW L, Left(c, d, K), Left(d, e, L)
    PROVE  Left(c, e, L)
<1>1. In(d) = K /\ K \subseteq In(c) /\ d.frees = c.frees
      /\ \A b \in K : d.blk[b].size = c.blk[b].size /\ d.blk[b].lastUsed = c.blk[b].lastUsed
  BY DEF Left
<1>2. Good(e) /\ L \subseteq In(d) /\ In(e) = L /\ e.frees = d.frees
      /\ \A b \in L : e.blk[b].size = d.blk[b].size /\ e.blk[b].lastUsed = d.blk[b].lastUsed
  BY DEF Left
<1> QED
  BY <1>1, <1>2 DEF Left

\* What stays counts no more than what there was.
LEMMA LeftCounts ==
    ASSUME NEW c, Good(c), NEW d, NEW K, Left(c, d, K)
    PROVE  d.freeInCache \in Nat /\ c.freeInCache \in Nat /\ d.freeInCache <= c.freeInCache
<1> DEFINE f == [y \in In(c) |-> c.blk[y].size]
           g == [y \in In(d) |-> d.blk[y].size]
<1>1. c \in Caches /\ d \in Caches /\ K \subseteq In(c) /\ In(d) = K
      /\ c.freeInCache = Sum(f, In(c)) /\ d.freeInCache = Sum(g, In(d))
  BY DEF Left, Good, Counted
<1>2. IsFiniteSet(In(c)) /\ \A y \in In(c) : f[y] \in Nat
  BY <1>1, CacheFields, HdrFields
<1>3. \A y \in K : f[y] = g[y]
  BY <1>1 DEF Left
<1> HIDE DEF f, g
<1>4. IsFiniteSet(Shares(f, In(c))) /\ Shares(f, K) \subseteq Shares(f, In(c))
  BY <1>1, <1>2, SharesFinite DEF Shares
<1>5. /\ Sum(f, K) <= Sum(f, In(c)) /\ Sum(f, K) \in Nat /\ Sum(f, In(c)) \in Nat
  BY <1>4, FS_Subset, FS_CardinalityType DEF Sum
<1>6. Sum(f, K) = Sum(g, K)
  BY <1>3, SameSum
<1> QED
  BY <1>1, <1>5, <1>6

\* The blocks that are younger than that.
Young(c, age) == {b \in In(c) : c.frees - c.blk[b].lastUsed < age}

\* One step of a trim: while the oldest block of the bin is aged, it goes.
TrimStep(d, i, age) == IF aged(d, i, age) THEN popOldest(d, i) ELSE d
Trims(c, i, age, t) ==
    [n \in 0..Cardinality(Block) |-> IF n = 0 THEN c ELSE TrimStep(t[n - 1], i, age)]

LEMMA TrimStepIs ==
    ASSUME NEW d, Good(d), NEW i \in Bin, NEW age
    PROVE  /\ Good(TrimStep(d, i, age))
           /\ ~ aged(d, i, age) => TrimStep(d, i, age) = d
           /\ aged(d, i, age) =>
                \E b \in InBin(d, i) : /\ d.frees - d.blk[b].lastUsed >= age
                                       /\ Left(d, TrimStep(d, i, age), In(d) \ {b})
<1>1. CASE aged(d, i, age)
  <2>1. /\ d.tail[i] # Null /\ d.frees - d.blk[d.tail[i]].lastUsed >= age
        /\ TrimStep(d, i, age) = popOldest(d, i)
    BY <1>1 DEF aged, TrimStep
  <2>2. d.tail[i] \in InBin(d, i) /\ Left(d, popOldest(d, i), In(d) \ {d.tail[i]})
    BY <2>1, PopOldestIs
  <2> QED
    BY <1>1, <2>1, <2>2 DEF Left
<1>2. CASE ~ aged(d, i, age)
  BY <1>2 DEF TrimStep
<1> QED
  BY <1>1, <1>2

\* A bin whose oldest block is young has young blocks only.
LEMMA AgedIs ==
    ASSUME NEW d, Good(d), NEW i \in Bin, NEW age \in Nat, ~ aged(d, i, age)
    PROVE  \A b \in InBin(d, i) : d.frees - d.blk[b].lastUsed < age
<1>1. d \in Caches /\ TailIs(d, i, d.tail[i])
  BY DEF Good, CacheLinked
<1> SUFFICES ASSUME NEW b \in InBin(d, i) PROVE d.frees - d.blk[b].lastUsed < age
  OBVIOUS
<1>2. /\ d.tail[i] # Null /\ d.tail[i] \in In(d) /\ b \in In(d)
      /\ d.blk[d.tail[i]].lastUsed <= d.blk[b].lastUsed
  BY <1>1 DEF TailIs, InBin
<1>3. /\ d.frees \in Nat /\ d.blk[b].lastUsed \in Nat /\ d.blk[d.tail[i]].lastUsed \in Nat
  BY <1>1, <1>2, CacheFields, HdrFields
<1>4. ~ (d.frees - d.blk[d.tail[i]].lastUsed >= age)
  BY <1>2 DEF aged
<1> QED
  BY <1>2, <1>3, <1>4

\* A trimmed bin keeps its young blocks, the other bins all.
LEMMA TrimmedIs ==
    ASSUME NEW c, Good(c), NEW i \in Bin, NEW age \in Nat
    PROVE  Left(c, trimmed(c, i, age),
                {b \in In(c) : b \in InBin(c, i) => b \in Young(c, age)})
<1> DEFINE N == Cardinality(Block)
           Keep == {b \in In(c) : b \in InBin(c, i) => b \in Young(c, age)}
<1>1. N \in Nat /\ IsFiniteSet(Block)
  BY ThreadCacheAssumption, FS_CardinalityType
<1>2. c \in Caches /\ In(c) \subseteq Block /\ IsFiniteSet(In(c)) /\ Cardinality(In(c)) \in Nat
      /\ Cardinality(In(c)) <= N /\ c.frees \in Nat
  <2>1. c \in Caches
    BY DEF Good
  <2>2. In(c) \subseteq Block /\ IsFiniteSet(In(c)) /\ c.frees \in Nat
    BY <2>1, CacheFields
  <2> QED
    BY <1>1, <2>1, <2>2, FS_Subset, FS_CardinalityType
<1>3. \E t : t = Trims(c, i, age, t)
  <2> DEFINE D == {d \in Caches : Good(d)}
             g == [n \in 1..N |-> [d \in D |-> TrimStep(d, i, age)]]
  <2>1. \A d \in D : TrimStep(d, i, age) \in D
    BY TrimStepIs DEF Good
  <2>2. g \in [1..N -> [D -> D]] /\ c \in D
    BY <1>2, <2>1
  <2>3. \A n \in 1..N : \A d \in D : g[n][d] = TrimStep(d, i, age)
    OBVIOUS
  <2> HIDE DEF D, g, N
  <2>4. PICK t \in [0..N -> D] : Computed(t, N, c, g)
    BY <1>1, <2>2, Computation
  <2>5. \A n \in 0..N : n # 0 => n \in 1..N /\ n - 1 \in 0..N
    BY <1>1
  <2>6. \A n \in 0..N : t[n] = IF n = 0 THEN c ELSE TrimStep(t[n - 1], i, age)
    BY <2>3, <2>4, <2>5 DEF Computed
  <2>7. t = Trims(c, i, age, t)
    BY <2>4, <2>6 DEF Trims, N
  <2> QED
    BY <2>7
<1>4. PICK u : u = Trims(c, i, age, u) /\ trimmed(c, i, age) = u[N]
  <2>1. \E u : u = (CHOOSE t : t = Trims(c, i, age, t)) /\ trimmed(c, i, age) = u[N]
    BY DEF trimmed, Trims, TrimStep
  <2> QED
    BY <1>3, <2>1
<1>5. \A n \in 0..N : u[n] = IF n = 0 THEN c ELSE TrimStep(u[n - 1], i, age)
  BY <1>4 DEF Trims
<1> DEFINE P(n) ==
             /\ Left(c, u[n], In(u[n])) /\ Keep \subseteq In(u[n])
             /\ aged(u[n], i, age) => Cardinality(In(u[n])) + n <= Cardinality(In(c))
           S == {n \in 0..N : P(n)}
<1>6. 0 \in S
  <2>1. u[0] = c /\ 0 \in 0..N
    BY <1>1, <1>5
  <2> QED
    BY <1>2, <2>1, LeftAll
<1>7. ASSUME NEW n \in 0..N, n < N, n \in S PROVE n + 1 \in S
  <2>1. P(n) /\ n + 1 \in 0..N /\ n \in Nat
    BY <1>1, <1>7
  <2> PICK d : d = u[n]
    OBVIOUS
  <2> PICK e : e = u[n + 1]
    OBVIOUS
  <2>2. e = TrimStep(d, i, age)
    BY <1>1, <1>5, <2>1
  <2>3. /\ Left(c, d, In(d)) /\ Keep \subseteq In(d)
        /\ aged(d, i, age) => Cardinality(In(d)) + n <= Cardinality(In(c))
    BY <2>1
  <2>4. Good(d) /\ In(d) \subseteq In(c) /\ d.frees = c.frees
        /\ \A b \in In(d) : d.blk[b].size = c.blk[b].size /\ d.blk[b].lastUsed = c.blk[b].lastUsed
    BY <2>3 DEF Left
  <2>5. CASE ~ aged(d, i, age)
    <3>1. e = d
      BY <2>2, <2>4, <2>5, TrimStepIs
    <3>2. P(n + 1)
      BY <2>3, <2>5, <3>1
    <3> QED
      BY <2>1, <3>2
  <2>6. CASE aged(d, i, age)
    <3>1. PICK b \in InBin(d, i) : /\ d.frees - d.blk[b].lastUsed >= age
                                   /\ Left(d, e, In(d) \ {b})
      <4>1. \E b \in InBin(d, i) : /\ d.frees - d.blk[b].lastUsed >= age
                                  /\ Left(d, TrimStep(d, i, age), In(d) \ {b})
        <5> HIDE DEF P, S
        <5> QED
          BY ONLY <2>4, <2>6, i \in Bin, TrimStepIs
      <4> QED
        BY <2>2, <4>1
    <3>2. In(e) = In(d) \ {b} /\ b \in In(d)
      BY <3>1 DEF Left, InBin
    <3>3. Left(c, e, In(e))
      BY <2>3, <3>1, <3>2, LeftOfLeft
    <3>4. b \in InBin(c, i) /\ b \notin Young(c, age)
      <4>1. c.blk[b].lastUsed \in Nat /\ b \in In(c)
        BY <1>2, <2>4, <3>2, HdrFields
      <4>2. ~ (c.frees - c.blk[b].lastUsed < age)
        BY <1>2, <2>4, <3>1, <3>2, <4>1
      <4> QED
        BY <2>4, <3>1, <3>2, <4>1, <4>2 DEF InBin, Young
    <3>5. Keep \subseteq In(e)
      BY <2>3, <3>2, <3>4
    <3>6. IsFiniteSet(In(d)) /\ Cardinality(In(e)) = Cardinality(In(d)) - 1
          /\ Cardinality(In(d)) \in Nat
      BY <1>2, <2>4, <3>2, FS_Subset, FS_RemoveElement, FS_CardinalityType
    <3>7. Cardinality(In(e)) + (n + 1) <= Cardinality(In(c))
      BY <1>2, <2>1, <2>3, <2>6, <3>6
    <3>8. P(n + 1)
      BY <3>3, <3>5, <3>7
    <3> QED
      BY <2>1, <3>8
  <2> QED
    BY <2>5, <2>6
<1>8. P(N)
  <2> HIDE DEF S, P
  <2>1. \A n \in 0..N : n < N /\ n \in S => n + 1 \in S
    BY <1>7
  <2>2. \A n \in 0..N : n \in S
    <3> HIDE DEF N
    <3> QED
      BY ONLY <1>1, <1>6, <2>1, Climb
  <2>3. N \in S
    BY <1>1, <2>2
  <2> QED
    BY <2>3 DEF S
<1> PICK d : d = u[N]
  OBVIOUS
<1>9. Left(c, d, In(d)) /\ Keep \subseteq In(d)
      /\ (aged(d, i, age) => Cardinality(In(d)) + N <= Cardinality(In(c)))
  BY <1>8
<1>10. Good(d) /\ In(d) \subseteq In(c) /\ d.frees = c.frees
      /\ \A b \in In(d) : d.blk[b].size = c.blk[b].size /\ d.blk[b].lastUsed = c.blk[b].lastUsed
  BY <1>9 DEF Left
<1>11. ~ aged(d, i, age)
  <2> SUFFICES ASSUME aged(d, i, age) PROVE FALSE
    OBVIOUS
  <2>1. PICK b \in InBin(d, i) : TRUE
    BY <1>10, TrimStepIs
  <2>2. b \in In(d) /\ IsFiniteSet(In(d))
    BY <1>2, <1>10, <2>1, FS_Subset DEF InBin
  <2>3. Cardinality(In(d)) \in Nat /\ Cardinality(In(d)) # 0
    BY <2>2, FS_CardinalityType, FS_EmptySet
  <2> QED
    BY <1>1, <1>2, <1>9, <2>3
<1>12. In(d) = Keep
  <2>1. \A b \in InBin(d, i) : d.frees - d.blk[b].lastUsed < age
    BY <1>10, <1>11, AgedIs
  <2>2. \A b \in In(d) : b \in InBin(c, i) => b \in Young(c, age)
    BY <1>10, <2>1 DEF InBin, Young
  <2> QED
    BY <1>9, <1>10, <2>2
<1> QED
  BY <1>4, <1>9, <1>12

\* Bin after bin: what is left of the cache are its young blocks.
Removes(c, age, r) ==
    [n \in 0..MaxBin + 1 |-> IF n = 0 THEN c ELSE trimmed(r[n - 1], n - 1, age)]

LEMMA RemoveCacheEntriesIs ==
    ASSUME NEW c, Good(c), NEW age \in Nat
    PROVE  Left(c, RemoveCacheEntries(c, age), Young(c, age))
<1> DEFINE N == MaxBin + 1
           Kept(n) == {b \in In(c) : (\E i \in Bin : i < n /\ b \in InBin(c, i)) => b \in Young(c, age)}
<1>1. N \in Nat /\ MaxBin \in Nat /\ \A n \in 1..N : n - 1 \in Bin
  BY LastBin DEF Bin
<1>2. c \in Caches
  BY DEF Good
<1>3. CASE c.freeInCache = 0
  <2>1. In(c) = {}
    <3> SUFFICES ASSUME NEW b \in In(c) PROVE FALSE
      OBVIOUS
    <3> DEFINE f == [y \in In(c) |-> c.blk[y].size]
    <3>1. IsFiniteSet(In(c)) /\ (\A y \in In(c) : f[y] \in Nat) /\ f[b] # 0
      BY <1>2, CacheFields, HdrFields
    <3>2. Sum(f, In(c)) = 0
      BY <1>3 DEF Good, Counted
    <3> HIDE DEF f
    <3>3. Sum(f, In(c)) = f[b] + Sum(f, In(c) \ {b}) /\ Sum(f, In(c) \ {b}) \in Nat
          /\ f[b] \in Nat
      BY <3>1, SumParts
    <3> QED
      BY <3>1, <3>2, <3>3
  <2>2. Young(c, age) = In(c)
    BY <2>1 DEF Young
  <2> QED
    BY <1>3, <2>2, LeftAll DEF RemoveCacheEntries
<1>4. CASE c.freeInCache # 0
  <2>1. \E t : t = Removes(c, age, t)
    <3> DEFINE D == {d \in Caches : Good(d)}
               g == [n \in 1..N |-> [d \in D |-> trimmed(d, n - 1, age)]]
    <3>1. \A d \in D : \A i \in Bin : trimmed(d, i, age) \in D
      BY TrimmedIs DEF Good, Left
    <3>2. g \in [1..N -> [D -> D]] /\ c \in D
      BY <1>1, <1>2, <3>1
    <3>3. \A n \in 1..N : \A d \in D : g[n][d] = trimmed(d, n - 1, age)
      OBVIOUS
    <3> HIDE DEF D, g, N
    <3>4. PICK t \in [0..N -> D] : Computed(t, N, c, g)
      BY <1>1, <3>2, Computation
    <3>5. \A n \in 0..N : n # 0 => n \in 1..N /\ n - 1 \in 0..N
      BY <1>1
    <3>6. \A n \in 0..N : t[n] = IF n = 0 THEN c ELSE trimmed(t[n - 1], n - 1, age)
      BY <3>3, <3>4, <3>5 DEF Computed
    <3>7. t = Removes(c, age, t)
      BY <3>4, <3>6 DEF Removes, N
    <3> QED
      BY <3>7
  <2>2. PICK u : u = Removes(c, age, u) /\ RemoveCacheEntries(c, age) = u[N]
    <3>1. \E u : u = (CHOOSE t : t = Removes(c, age, t)) /\ RemoveCacheEntries(c, age) = u[N]
      BY <1>4 DEF RemoveCacheEntries, Removes
    <3> QED
      BY <2>1, <3>1
  <2>3. \A n \in 0..N : u[n] = IF n = 0 THEN c ELSE trimmed(u[n - 1], n - 1, age)
    BY <2>2 DEF Removes
  <2> DEFINE P(n) == Left(c, u[n], Kept(n))
             S == {n \in 0..N : P(n)}
  <2>4. 0 \in S
    <3>1. u[0] = c /\ 0 \in 0..N
      BY <1>1, <2>3
    <3>2. Kept(0) = In(c)
      BY <1>1 DEF Bin
    <3> QED
      BY <3>1, <3>2, LeftAll
  <2>5. ASSUME NEW n \in 0..N, n < N, n \in S PROVE n + 1 \in S
    <3>1. n + 1 \in 1..N /\ n + 1 \in 0..N /\ n \in Bin /\ (n + 1) - 1 = n /\ P(n)
      BY <1>1, <2>5 DEF Bin
    <3> PICK d : d = u[n]
      OBVIOUS
    <3> DEFINE L == {b \in In(d) : b \in InBin(d, n) => b \in Young(d, age)}
    <3>2. Left(c, d, Kept(n)) /\ u[n + 1] = trimmed(d, n, age)
      BY <2>3, <3>1
    <3>3. Good(d) /\ In(d) = Kept(n) /\ d.frees = c.frees
          /\ \A b \in In(d) : d.blk[b].size = c.blk[b].size
                              /\ d.blk[b].lastUsed = c.blk[b].lastUsed
      BY <3>2 DEF Left
    <3>4. Left(d, trimmed(d, n, age), L)
      BY <3>1, <3>3, TrimmedIs
    <3>5. L = Kept(n + 1)
      <4>1. \A b \in In(d) : /\ b \in InBin(d, n) <=> b \in InBin(c, n)
                             /\ b \in Young(d, age) <=> b \in Young(c, age)
        BY <3>3 DEF InBin, Young
      <4>2. \A i \in Bin : i < n + 1 <=> i < n \/ i = n
        BY <1>1, <3>1 DEF Bin
      <4> QED
        BY <3>1, <3>3, <4>1, <4>2
    <3> HIDE DEF L, Kept
    <3>6. Left(c, u[n + 1], Kept(n + 1))
      BY <3>2, <3>4, <3>5, LeftOfLeft
    <3> QED
      BY <3>1, <3>6
  <2>6. P(N)
    <3> HIDE DEF S, P
    <3>1. \A n \in 0..N : n < N /\ n \in S => n + 1 \in S
      BY <2>5
    <3>2. \A n \in 0..N : n \in S
      <4> HIDE DEF N
      <4> QED
        BY ONLY <1>1, <2>4, <3>1, Climb
    <3>3. N \in S
      BY <1>1, <3>2
    <3> QED
      BY <3>3 DEF S
  <2>7. Kept(N) = Young(c, age)
    <3>1. \A b \in In(c) : \E i \in Bin : i < N /\ b \in InBin(c, i)
      <4> SUFFICES ASSUME NEW b \in In(c) PROVE \E i \in Bin : i < N /\ b \in InBin(c, i)
        OBVIOUS
      <4>1. PICK i \in Bin : c.blk[b].size = best(i)
        BY <1>2, HdrFields
      <4>2. i < N
        BY <1>1 DEF Bin
      <4> QED
        BY <4>1, <4>2 DEF InBin
    <3> QED
      BY <3>1 DEF Young
  <2> QED
    BY <2>2, <2>6, <2>7
<1> QED
  BY <1>3, <1>4

\* The young among the blocks left.
LEMMA YoungLeft ==
    ASSUME NEW c, Good(c), NEW d, NEW a \in Nat, NEW b \in Nat, Left(c, d, Young(c, a))
    PROVE  \E e \in Nat : e <= b /\ Young(d, b) = Young(c, e)
<1> DEFINE e == IF a < b THEN a ELSE b
<1>1. c \in Caches /\ c.frees \in Nat /\ \A x \in In(c) : c.blk[x].lastUsed \in Nat
  <2>1. c \in Caches
    BY DEF Good
  <2> QED
    BY <2>1, CacheFields, HdrFields
<1>2. /\ In(d) = Young(c, a) /\ d.frees = c.frees
      /\ \A x \in In(d) : d.blk[x].lastUsed = c.blk[x].lastUsed
  BY DEF Left
<1>3. Young(d, b) = Young(c, e)
  BY <1>1, <1>2 DEF Young
<1>4. e \in Nat /\ e <= b
  OBVIOUS
<1> QED
  BY <1>3, <1>4

\* When only the block freed last is left, the cache is below its limit.
LEMMA OneLeft ==
    ASSUME NEW d, Good(d), In(d) \subseteq Young(d, 1)
    PROVE  d.freeInCache < max_free_space
<1> DEFINE f == [y \in In(d) |-> d.blk[y].size]
<1>1. d \in Caches /\ Stamped(d) /\ d.freeInCache = Sum(f, In(d))
  BY DEF Good, Counted
<1>2. IsFiniteSet(In(d)) /\ (\A y \in In(d) : f[y] \in Nat) /\ d.frees \in Nat
  BY <1>1, CacheFields, HdrFields
<1>3. \A x, y \in In(d) : x = y
  <2>1. ASSUME NEW x \in In(d) PROVE d.blk[x].lastUsed = d.frees
    <3>1. d.frees - d.blk[x].lastUsed < 1 /\ d.blk[x].lastUsed \in 1..d.frees
      BY <1>1, <2>1 DEF Young, Stamped
    <3> QED
      BY <1>2, <3>1
  <2> QED
    BY <1>1, <2>1 DEF Stamped
<1>4. threadcache_max \in Nat /\ max_free_space \in Nat /\ threadcache_max < max_free_space
  BY ThreadCacheAssumption
<1>5. ASSUME NEW x \in In(d) PROVE f[x] <= threadcache_max
  <2>1. PICK i \in Bin : d.blk[x].size = best(i)
    BY <1>1, HdrFields
  <2>2. i \in Nat /\ MaxBin \in Nat /\ i <= MaxBin /\ best(MaxBin) = threadcache_max
    BY LastBin DEF Bin
  <2>3. best(i) <= best(MaxBin)
    <3>1. best(i) \in Nat /\ best(MaxBin) \in Nat /\ (i < MaxBin => best(i) < best(MaxBin))
      BY <2>2, BestIs
    <3> QED
      BY <2>2, <3>1
  <2> QED
    BY <2>1, <2>2, <2>3
<1> HIDE DEF f
<1>6. CASE In(d) = {}
  <2>1. Sum(f, In(d)) = 0
    BY <1>2, <1>6, SumParts
  <2> QED
    BY <1>1, <1>4, <2>1
<1>7. CASE In(d) # {}
  <2>1. PICK x \in In(d) : TRUE
    BY <1>7
  <2>2. In(d) \ {x} = {}
    BY <1>3
  <2>3. Sum(f, In(d)) = f[x] + Sum(f, {}) /\ Sum(f, {}) = 0
    BY <1>2, <2>2, SumParts
  <2> QED
    BY <1>1, <1>2, <1>4, <1>5, <2>3
<1> QED
  BY <1>6, <1>7

\* The age of pass n, and the passes.
Age(n) == oldest_age \div 2^(n - 1)
Pass(d, n) ==
    IF Age(n) = 0 \/ d.freeInCache < max_free_space THEN d ELSE RemoveCacheEntries(d, Age(n))
Passes(c, r) == [n \in 0..oldest_age |-> IF n = 0 THEN c ELSE Pass(r[n - 1], n)]

LEMMA AgeIs ==
    /\ \A n \in 1..oldest_age : Age(n) \in Nat
    /\ \E n \in 1..oldest_age : Age(n) = 1
<1>1. oldest_age \in Nat \ {0}
  BY ThreadCacheAssumption
<1>2. ASSUME NEW n \in 1..oldest_age PROVE Age(n) \in Nat
  <2> DEFINE p == 2^(n - 1)
  <2>1. n - 1 \in Nat
    BY <1>1
  <2>2. p \in Nat \ {0}
    BY <2>1, Power
  <2> HIDE DEF p
  <2>3. oldest_age \div p \in Nat
    BY <1>1, <2>2
  <2> QED
    BY <2>3 DEF Age, p
<1>3. \E n \in 1..oldest_age : Age(n) = 1
  <2>1. PICK i \in Nat : i < oldest_age /\ 2^i <= oldest_age /\ oldest_age < 2^(i + 1)
    BY <1>1, TopBit
  <2>2. i + 1 \in 1..oldest_age /\ (i + 1) - 1 = i
    BY <1>1, <2>1
  <2> DEFINE p == 2^i
             q == 2^(i + 1)
  <2>3. p \in Nat \ {0} /\ q = 2 * p /\ p <= oldest_age /\ oldest_age < q
    BY <2>1, Power
  <2> HIDE DEF p, q
  <2>4. oldest_age \div p = 1
    BY <1>1, <2>3
  <2>5. Age(i + 1) = 1
    BY <2>2, <2>4 DEF Age, p
  <2> QED
    BY <2>2, <2>5
<1> QED
  BY <1>2, <1>3

LEMMA PassIs ==
    ASSUME NEW d, Good(d), NEW n \in 1..oldest_age
    PROVE  /\ Good(Pass(d, n))
           /\ \/ Pass(d, n) = d /\ (Age(n) = 0 \/ d.freeInCache < max_free_space)
              \/ /\ Left(d, Pass(d, n), Young(d, Age(n)))
                 /\ ~ (d.freeInCache < max_free_space)
<1>1. CASE Age(n) = 0 \/ d.freeInCache < max_free_space
  BY <1>1 DEF Pass
<1>2. CASE ~ (Age(n) = 0 \/ d.freeInCache < max_free_space)
  <2>1. Pass(d, n) = RemoveCacheEntries(d, Age(n)) /\ Age(n) \in Nat
    BY <1>2, AgeIs DEF Pass
  <2>2. Left(d, Pass(d, n), Young(d, Age(n)))
    BY <2>1, RemoveCacheEntriesIs
  <2> QED
    BY <1>2, <2>2 DEF Left
<1> QED
  BY <1>1, <1>2

\* The cache is below its limit again, and what is left of it is younger than
\* all that went.
LEMMA ReleaseFreeInCacheIs ==
    ASSUME NEW c, Good(c)
    PROVE  /\ \E a \in Nat : Left(c, ReleaseFreeInCache(c), Young(c, a))
           /\ ReleaseFreeInCache(c).freeInCache < max_free_space
<1> DEFINE N == oldest_age
<1>1. N \in Nat
  BY ThreadCacheAssumption
<1>2. c \in Caches
  BY DEF Good
<1>3. \E r : r = Passes(c, r)
  <2> DEFINE D == {d \in Caches : Good(d)}
             g == [n \in 1..N |-> [d \in D |-> Pass(d, n)]]
  <2>1. \A d \in D : \A n \in 1..N : Pass(d, n) \in D
    BY PassIs DEF Good
  <2>2. g \in [1..N -> [D -> D]] /\ c \in D
    BY <1>2, <2>1
  <2>3. \A n \in 1..N : \A d \in D : g[n][d] = Pass(d, n)
    OBVIOUS
  <2> HIDE DEF D, g, N
  <2>4. PICK t \in [0..N -> D] : Computed(t, N, c, g)
    BY <1>1, <2>2, Computation
  <2>5. \A n \in 0..N : n # 0 => n \in 1..N /\ n - 1 \in 0..N
    BY <1>1
  <2>6. \A n \in 0..N : t[n] = IF n = 0 THEN c ELSE Pass(t[n - 1], n)
    BY <2>3, <2>4, <2>5 DEF Computed
  <2>7. t = Passes(c, t)
    BY <2>4, <2>6 DEF Passes, N
  <2> QED
    BY <2>7
<1>4. PICK u : u = Passes(c, u) /\ ReleaseFreeInCache(c) = u[N]
  <2>1. \E u : u = (CHOOSE r : r = Passes(c, r)) /\ ReleaseFreeInCache(c) = u[N]
    BY DEF ReleaseFreeInCache, Passes, Pass, Age
  <2> QED
    BY <1>3, <2>1
<1>5. \A n \in 0..N : u[n] = IF n = 0 THEN c ELSE Pass(u[n - 1], n)
  BY <1>4 DEF Passes
<1> DEFINE P(n) == /\ \E a \in Nat : Left(c, u[n], Young(c, a))
                   /\ (\E k \in 1..n : Age(k) = 1) => u[n].freeInCache < max_free_space
           S == {n \in 0..N : P(n)}
<1>6. 0 \in S
  <2>1. u[0] = c /\ 0 \in 0..N /\ 1..0 = {}
    BY <1>1, <1>5
  <2>2. c.frees + 1 \in Nat /\ Young(c, c.frees + 1) = In(c)
    <3>1. c.frees \in Nat /\ \A b \in In(c) : c.blk[b].lastUsed \in 1..c.frees
      BY <1>2, CacheFields DEF Good, Stamped
    <3>2. \A b \in In(c) : c.frees - c.blk[b].lastUsed < c.frees + 1
      BY <3>1
    <3> QED
      BY <3>1, <3>2 DEF Young
  <2>3. Left(c, u[0], Young(c, c.frees + 1))
    BY <2>1, <2>2, LeftAll
  <2> QED
    BY <2>1, <2>2, <2>3
<1>7. ASSUME NEW n \in 0..N, n < N, n \in S PROVE n + 1 \in S
  <2>1. P(n) /\ n + 1 \in 0..N /\ n + 1 \in 1..N /\ (n + 1) - 1 = n /\ n \in Nat
    BY <1>1, <1>7
  <2> PICK d : d = u[n]
    OBVIOUS
  <2> PICK e : e = u[n + 1]
    OBVIOUS
  <2>2. e = Pass(d, n + 1)
    BY <1>1, <1>5, <2>1
  <2>3. PICK a \in Nat : Left(c, d, Young(c, a))
    BY <2>1
  <2>4. Good(d) /\ ((\E k \in 1..n : Age(k) = 1) => d.freeInCache < max_free_space)
    BY <2>1, <2>3 DEF Left
  <2>5. \A k \in 1..n + 1 : k \in 1..n \/ k = n + 1
    BY <2>1
  <2>6. CASE e = d /\ (Age(n + 1) = 0 \/ d.freeInCache < max_free_space)
    <3>1. (\E k \in 1..n + 1 : Age(k) = 1) => d.freeInCache < max_free_space
      BY <2>4, <2>5, <2>6
    <3>2. P(n + 1)
      BY <2>3, <2>6, <3>1
    <3> QED
      BY <2>1, <3>2
  <2>7. CASE Left(d, e, Young(d, Age(n + 1))) /\ ~ (d.freeInCache < max_free_space)
    <3>1. Age(n + 1) \in Nat
      BY <2>1, AgeIs
    <3>2. PICK b \in Nat : Young(d, Age(n + 1)) = Young(c, b)
      BY <2>3, <3>1, YoungLeft
    <3>3. Left(c, e, Young(c, b))
      BY <2>3, <2>7, <3>2, LeftOfLeft
    <3>4. Age(n + 1) = 1 => e.freeInCache < max_free_space
      <4> SUFFICES ASSUME Age(n + 1) = 1 PROVE e.freeInCache < max_free_space
        OBVIOUS
      <4>1. Good(e) /\ In(e) = Young(d, 1) /\ e.frees = d.frees
            /\ \A x \in In(e) : e.blk[x].lastUsed = d.blk[x].lastUsed
        BY <2>7 DEF Left
      <4>2. In(e) \subseteq Young(e, 1)
        BY <4>1 DEF Young
      <4> QED
        BY <4>1, <4>2, OneLeft
    <3>5. (\E k \in 1..n + 1 : Age(k) = 1) => e.freeInCache < max_free_space
      BY <2>4, <2>5, <2>7, <3>4
    <3>6. P(n + 1)
      BY <3>3, <3>5
    <3> QED
      BY <2>1, <3>6
  <2> QED
    BY <2>1, <2>2, <2>4, <2>6, <2>7, PassIs
<1>8. P(N)
  <2> HIDE DEF S, P
  <2>1. \A n \in 0..N : n < N /\ n \in S => n + 1 \in S
    BY <1>7
  <2>2. \A n \in 0..N : n \in S
    <3> HIDE DEF N
    <3> QED
      BY ONLY <1>1, <1>6, <2>1, Climb
  <2>3. N \in S
    BY <1>1, <2>2
  <2> QED
    BY <2>3 DEF S
<1> QED
  BY <1>4, <1>8, AgeIs

-----------------------------------------------------------------------------
(* Freeing. *)

\* The cache with block b in front of bin i.
Pushed(c, b, i) ==
    LET h == c.head[i]
        block == [next |-> h, prev |-> Null, size |-> best(i), lastUsed |-> c.frees + 1]
    IN [c EXCEPT !.frees = @ + 1,
                 !.blk = With(Relink(@, h, "prev", b), b, block),
                 !.head[i] = b,
                 !.tail[i] = IF h = Null THEN b ELSE c.tail[i],
                 !.freeInCache = @ + best(i)]

LEMMA PushedIs ==
    ASSUME NEW c, Good(c), NEW i \in Bin, NEW b \in Block \ In(c)
    PROVE  /\ Good(Pushed(c, b, i)) /\ In(Pushed(c, b, i)) = In(c) \union {b}
           /\ Pushed(c, b, i).frees = c.frees + 1
           /\ Pushed(c, b, i).blk[b].size = best(i)
           /\ Pushed(c, b, i).blk[b].lastUsed = c.frees + 1
           /\ \A y \in In(c) : /\ Pushed(c, b, i).blk[y].size = c.blk[y].size
                               /\ Pushed(c, b, i).blk[y].lastUsed = c.blk[y].lastUsed
<1> DEFINE h == c.head[i]
           d == Pushed(c, b, i)
           K == In(c) \union {b}
           r == Relink(c.blk, h, "prev", b)
           block == [next |-> h, prev |-> Null, size |-> best(i), lastUsed |-> c.frees + 1]
<1>1. c \in Caches /\ CacheLinked(c) /\ Stamped(c) /\ Counted(c)
  BY DEF Good
<1>2. c.head \in Ends /\ c.tail \in Ends /\ c.frees \in Nat /\ c.freeInCache \in Int
      /\ In(c) \subseteq Block /\ IsFiniteSet(In(c)) /\ Null \notin In(c) /\ b # Null
      /\ \A y \in In(c) : c.blk[y].lastUsed \in 1..c.frees
  BY <1>1, CacheFields, ThreadCacheAssumption DEF Stamped
<1>3. HeadIs(c, i, h) /\ h \in In(c) \union {Null} /\ h # b
  BY <1>1, <1>2 DEF CacheLinked, HeadIs, InBin
<1>4. /\ d.head = [c.head EXCEPT ![i] = b] /\ d.frees = c.frees + 1
      /\ d.tail = [c.tail EXCEPT ![i] = IF h = Null THEN b ELSE c.tail[i]]
      /\ d.blk = With(r, b, block)
      /\ d.freeInCache = c.freeInCache + best(i)
      /\ d.head \in Ends /\ d.tail \in Ends /\ d.blk \in Hdrs /\ d.freeInCache \in Int
         /\ d.frees \in Nat => d \in Caches
  BY <1>1 DEF Pushed, Caches
<1>5. Relinked(r, c, h, "prev", b)
  <2>1. b \in Link /\ "prev" \in {"next", "prev"}
    BY DEF Link
  <2> HIDE DEF h
  <2> QED
    BY <1>1, <1>3, <2>1, RelinkIs
<1>6. /\ block \in Hdr /\ block.next = h /\ block.prev = Null /\ block.size = best(i)
      /\ block.lastUsed = c.frees + 1
  BY <1>2, <1>3 DEF Hdr, Link
<1>7. best(i) \in Nat \ {0} /\ i \in Nat
  <2>1. i \in Nat
    BY LastBin DEF Bin
  <2> QED
    BY <2>1, BestIs
<1> HIDE DEF d, r, block
<1>8. d.blk = [y \in K |-> IF y = b THEN block ELSE r[y]]
  <2>1. DOMAIN r = In(c)
    BY <1>5 DEF Relinked
  <2> QED
    BY <1>4, <2>1 DEF With
<1>9. /\ In(d) = K /\ d.blk \in [K -> Hdr] /\ d.blk[b] = block
      /\ \A y \in In(c) : /\ d.blk[y].size = c.blk[y].size
                          /\ d.blk[y].lastUsed = c.blk[y].lastUsed
                          /\ d.blk[y].next = c.blk[y].next
                          /\ d.blk[y].prev = IF y = h THEN b ELSE c.blk[y].prev
  <2>1. In(d) = K /\ d.blk[b] = block
    BY <1>8 DEF In
  <2>2. \A y \in In(c) : d.blk[y] = r[y] /\ r[y] \in Hdr
    BY <1>5, <1>8 DEF Relinked
  <2>3. d.blk \in [K -> Hdr]
    BY <1>6, <1>8, <2>2
  <2> QED
    BY <1>5, <2>1, <2>2, <2>3 DEF Relinked
<1>10. d \in Caches
  <2>1. d.head \in Ends /\ d.tail \in Ends
    BY <1>2, <1>4 DEF Ends, Link
  <2>2. d.blk \in Hdrs
    BY <1>2, <1>9 DEF Hdrs
  <2> QED
    BY <1>2, <1>4, <1>7, <2>1, <2>2
<1>11. Stamped(d)
  BY <1>1, <1>2, <1>4, <1>6, <1>9 DEF Stamped
<1>12. /\ \A x, y \in In(c) : Older(d, x, y) <=> Older(c, x, y)
       /\ \A y \in In(c) : ~ Older(d, b, y)
       /\ \A y \in In(c) : Older(d, y, b) <=> y \in InBin(c, i)
       /\ ~ Older(d, b, b)
  BY <1>2, <1>6, <1>9 DEF Older, InBin
<1>13. NextIs(d, b, d.blk[b].next) /\ PrevIs(d, b, d.blk[b].prev)
  BY <1>3, <1>6, <1>9, <1>12 DEF NextIs, PrevIs, HeadIs, InBin
<1>14. ASSUME NEW y \in In(c) PROVE NextIs(d, y, d.blk[y].next)
  <2>1. NextIs(c, y, c.blk[y].next)
    BY <1>1 DEF CacheLinked
  <2> QED
    BY <1>9, <1>12, <2>1 DEF NextIs
<1>15. ASSUME NEW y \in In(c) PROVE PrevIs(d, y, d.blk[y].prev)
  <2>1. PrevIs(c, y, c.blk[y].prev)
    BY <1>1 DEF CacheLinked
  <2>2. CASE y = h
    <3>1. y \in InBin(c, i) /\ d.blk[y].prev = b
      BY <1>2, <1>3, <1>9, <2>2 DEF HeadIs
    <3>2. \A z \in In(c) : ~ Older(c, y, z)
      BY <1>2, <1>3, <2>2, <3>1 DEF HeadIs, Older, InBin
    <3>3. b \in In(d) /\ Older(d, y, b) /\ b # Null
      BY <1>2, <1>9, <1>12, <3>1
    <3>4. \A z \in In(d) : Older(d, y, z) => d.blk[b].lastUsed <= d.blk[z].lastUsed
      <4>1. \A z \in In(d) : Older(d, y, z) => z = b
        BY <1>9, <1>12, <3>2
      <4>2. d.blk[b].lastUsed \in Nat
        BY <1>2, <1>6, <1>9
      <4> QED
        BY <4>1, <4>2
    <3> QED
      BY <3>1, <3>3, <3>4 DEF PrevIs
  <2>3. CASE y # h
    <3>1. d.blk[y].prev = c.blk[y].prev
      BY <1>9, <2>3
    <3>2. CASE c.blk[y].prev = Null
      <4>1. y \notin InBin(c, i)
        <5> SUFFICES ASSUME y \in InBin(c, i) PROVE FALSE
          OBVIOUS
        <5>1. h \in In(c) /\ c.blk[h].size = c.blk[y].size
              /\ c.blk[y].lastUsed <= c.blk[h].lastUsed
          BY <1>3 DEF HeadIs, InBin
        <5>2. c.blk[y].lastUsed # c.blk[h].lastUsed
          BY <1>1, <2>3, <5>1 DEF Stamped
        <5>3. Older(c, y, h)
          BY <1>2, <5>1, <5>2 DEF Older
        <5> QED
          BY <2>1, <3>2, <5>1, <5>3 DEF PrevIs
      <4> QED
        BY <1>9, <1>12, <2>1, <3>1, <3>2, <4>1 DEF PrevIs
    <3>3. CASE c.blk[y].prev # Null
      <4>1. /\ c.blk[y].prev \in In(c) /\ Older(c, y, c.blk[y].prev)
            /\ \A z \in In(c) : Older(c, y, z) =>
                    c.blk[c.blk[y].prev].lastUsed <= c.blk[z].lastUsed
        BY <2>1, <3>3 DEF PrevIs
      <4>2. d.blk[c.blk[y].prev].lastUsed = c.blk[c.blk[y].prev].lastUsed
            /\ c.blk[c.blk[y].prev].lastUsed <= c.frees + 1
        BY <1>2, <1>9, <4>1
      <4> QED
        BY <1>6, <1>9, <1>12, <3>1, <3>3, <4>1, <4>2 DEF PrevIs
    <3> QED
      BY <3>2, <3>3
  <2> QED
    BY <2>2, <2>3
<1>16. ASSUME NEW j \in Bin PROVE HeadIs(d, j, d.head[j]) /\ TailIs(d, j, d.tail[j])
  <2>1. HeadIs(c, j, c.head[j]) /\ TailIs(c, j, c.tail[j])
    BY <1>1 DEF CacheLinked
  <2>2. CASE j # i
    <3>1. best(j) # best(i)
      BY <1>7, <2>2, LastBin, BestIs DEF Bin
    <3>2. InBin(d, j) = InBin(c, j)
      BY <1>6, <1>9, <3>1 DEF InBin
    <3>3. d.head[j] = c.head[j] /\ d.tail[j] = c.tail[j]
      BY <1>2, <1>4, <2>2 DEF Ends
    <3>4. \A y \in InBin(c, j) : d.blk[y].lastUsed = c.blk[y].lastUsed
      BY <1>9 DEF InBin
    <3> QED
      BY <2>1, <3>2, <3>3, <3>4 DEF HeadIs, TailIs
  <2>3. CASE j = i
    <3>1. d.head[i] = b /\ d.tail[i] = IF h = Null THEN b ELSE c.tail[i]
      BY <1>2, <1>4 DEF Ends
    <3>2. InBin(d, i) = InBin(c, i) \union {b}
      BY <1>6, <1>9 DEF InBin
    <3>3. \A y \in InBin(c, i) : d.blk[y].lastUsed = c.blk[y].lastUsed
                                 /\ c.blk[y].lastUsed <= c.frees + 1
      BY <1>2, <1>9 DEF InBin
    <3>4. HeadIs(d, i, b)
      BY <1>2, <1>6, <1>9, <3>2, <3>3 DEF HeadIs
    <3>5. TailIs(d, i, d.tail[i])
      <4>1. CASE h = Null
        BY <1>2, <1>3, <1>6, <1>9, <3>1, <3>2, <4>1 DEF HeadIs, TailIs
      <4>2. CASE h # Null
        <5>1. c.tail[i] # Null
          BY <1>3, <2>1, <2>3, <4>2 DEF HeadIs, TailIs
        <5> QED
          BY <1>6, <1>9, <2>1, <2>3, <3>1, <3>2, <3>3, <4>2, <5>1 DEF TailIs
      <4> QED
        BY <4>1, <4>2
    <3> QED
      BY <2>3, <3>1, <3>4, <3>5
  <2> QED
    BY <2>2, <2>3
<1>17. CacheLinked(d)
  BY <1>9, <1>13, <1>14, <1>15, <1>16 DEF CacheLinked
<1>18. Counted(d)
  <2> DEFINE f == [y \in In(c) |-> c.blk[y].size]
             g == [y \in In(d) |-> d.blk[y].size]
  <2>1. IsFiniteSet(In(d)) /\ \A y \in In(d) : g[y] \in Nat
    BY <1>10, CacheFields, HdrFields
  <2>2. g[b] = best(i) /\ b \in In(d) /\ In(d) \ {b} = In(c)
    BY <1>6, <1>9
  <2>3. \A y \in In(c) : f[y] = g[y]
    BY <1>9
  <2>4. c.freeInCache = Sum(f, In(c))
    BY <1>1 DEF Counted
  <2> HIDE DEF f, g
  <2>5. Sum(g, In(d)) = g[b] + Sum(g, In(c)) /\ Sum(g, In(c)) \in Nat
    BY <2>1, <2>2, SumParts
  <2>6. Sum(f, In(c)) = Sum(g, In(c))
    BY <2>3, SameSum
  <2>7. d.freeInCache = Sum(g, In(d))
    BY <1>4, <1>7, <2>2, <2>4, <2>5, <2>6
  <2> QED
    BY <2>7 DEF Counted, g
<1>19. Good(d)
  BY <1>10, <1>11, <1>17, <1>18 DEF Good
<1> QED
  BY <1>4, <1>6, <1>9, <1>19 DEF d

\* What a block given up makes of the cache c: it is kept by at most its size, or not at
\* all, and the blocks that left for it are older than the ones that stayed.
Gave(c, d, b, size) ==
    /\ Good(d) /\ d.freeInCache < max_free_space
    /\ d.frees \in {c.frees, c.frees + 1}
    /\ In(d) \subseteq In(c) \union {b}
    /\ b \in In(d) => d.blk[b].size <= size
    /\ \A y \in In(c) \cap In(d) : /\ d.blk[y].size = c.blk[y].size
                                   /\ d.blk[y].lastUsed = c.blk[y].lastUsed
    /\ \A x \in In(c) \ In(d) : \A y \in In(c) \cap In(d) :
         c.blk[x].lastUsed < c.blk[y].lastUsed

LEMMA GivenIs ==
    ASSUME NEW c, Good(c), c.freeInCache < max_free_space,
           NEW b \in Block \ In(c), NEW size \in Nat
    PROVE  Gave(c, Given(c, b, size), b, size)
<1>1. c \in Caches /\ c.frees \in Nat /\ \A y \in In(c) : c.blk[y].lastUsed \in Nat
  <2>1. c \in Caches
    BY DEF Good
  <2> QED
    BY <2>1, CacheFields, HdrFields
<1>2. CASE ~ (minimum <= size /\ size <= threadcache_max + overhead)
  <2>1. Given(c, b, size) = c
    BY <1>2 DEF Given
  <2> QED
    BY <1>1, <2>1 DEF Gave
<1>3. CASE minimum <= size /\ size <= threadcache_max + overhead
  <2> DEFINE i == freedBin(size)
             e == Pushed(c, b, i)
             d == ReleaseFreeInCache(e)
  <2>1. i \in Bin /\ best(i) <= size
    BY <1>3, FreedBinIs
  <2>2. Given(c, b, size) = d
    BY <1>3 DEF Given, threadcache_free, Pushed
  <2> HIDE DEF i
  <2>3. /\ Good(e) /\ In(e) = In(c) \union {b} /\ e.frees = c.frees + 1
        /\ e.blk[b].size = best(i)
        /\ \A y \in In(c) : /\ e.blk[y].size = c.blk[y].size
                            /\ e.blk[y].lastUsed = c.blk[y].lastUsed
    BY <2>1, PushedIs
  <2> HIDE DEF e
  <2>4. PICK a \in Nat : Left(e, d, Young(e, a))
    BY <2>3, ReleaseFreeInCacheIs
  <2>5. d.freeInCache < max_free_space
    BY <2>3, ReleaseFreeInCacheIs
  <2> HIDE DEF d
  <2>6. /\ Good(d) /\ In(d) = Young(e, a) /\ In(d) \subseteq In(e) /\ d.frees = e.frees
        /\ \A y \in In(d) : d.blk[y].size = e.blk[y].size /\ d.blk[y].lastUsed = e.blk[y].lastUsed
    BY <2>4 DEF Left
  <2>7. ASSUME NEW x \in In(c) \ In(d), NEW y \in In(c) \cap In(d)
        PROVE  c.blk[x].lastUsed < c.blk[y].lastUsed
    <3>1. ~ (e.frees - c.blk[x].lastUsed < a) /\ e.frees - c.blk[y].lastUsed < a
      BY <2>3, <2>6 DEF Young
    <3>2. e.frees \in Nat /\ c.blk[x].lastUsed \in Nat /\ c.blk[y].lastUsed \in Nat
      BY <1>1, <2>3
    <3> QED
      BY <3>1, <3>2
  <2>8. b \in In(d) => d.blk[b].size <= size
    BY <2>1, <2>3, <2>6
  <2> QED
    BY <2>2, <2>3, <2>5, <2>6, <2>7, <2>8 DEF Gave
<1> QED
  BY <1>2, <1>3

-----------------------------------------------------------------------------
(* Walking a bin. *)

\* A walk along the links nx, of n steps.
Walk(t, S, nx, from, n) ==
    t = [k \in 0..n |-> IF k = 0 THEN from ELSE IF t[k - 1] \in S THEN nx[t[k - 1]] ELSE Null]

LEMMA WalkExists ==
    ASSUME NEW S, NEW nx \in [S -> S \union {Null}], NEW from \in S \union {Null}, NEW n \in Nat
    PROVE  \E t : Walk(t, S, nx, from, n)
<1> DEFINE D == S \union {Null}
           g == [k \in 1..n |-> [d \in D |-> IF d \in S THEN nx[d] ELSE Null]]
<1>1. g \in [1..n -> [D -> D]] /\ from \in D
  OBVIOUS
<1>2. \A k \in 1..n : \A d \in D : g[k][d] = IF d \in S THEN nx[d] ELSE Null
  OBVIOUS
<1> HIDE DEF D, g
<1>3. PICK t \in [0..n -> D] : Computed(t, n, from, g)
  BY <1>1, Computation
<1>4. \A k \in 0..n : k # 0 => k \in 1..n /\ k - 1 \in 0..n
  OBVIOUS
<1>5. \A k \in 0..n : t[k] = IF k = 0 THEN from
                             ELSE IF t[k - 1] \in S THEN nx[t[k - 1]] ELSE Null
  BY <1>2, <1>3, <1>4 DEF Computed
<1>6. Walk(t, S, nx, from, n)
  BY <1>3, <1>5 DEF Walk
<1> QED
  BY <1>6

\* Each link of G leads to the next lower rank.
Descends(G, nx, rank) ==
    \A b \in G :
      IF nx[b] = Null THEN \A y \in G : ~ (rank[y] < rank[b])
      ELSE /\ nx[b] \in G /\ rank[nx[b]] < rank[b]
           /\ \A y \in G : rank[y] < rank[b] => rank[y] <= rank[nx[b]]

\* From the highest rank a walk that is long enough meets all of G.
LEMMA WalkMeets ==
    ASSUME NEW S, Null \notin S, NEW G \in SUBSET S, IsFiniteSet(G),
           NEW n \in Nat, Cardinality(G) <= n,
           NEW nx, NEW rank, \A x \in G : rank[x] \in Int,
           \A x, y \in G : rank[x] = rank[y] => x = y,
           Descends(G, nx, rank), NEW from,
           IF from = Null THEN G = {} ELSE from \in G /\ \A y \in G : rank[y] <= rank[from],
           NEW t, Walk(t, S, nx, from, n)
    PROVE  {t[k] : k \in 0..n} \ {Null} = G
<1> DEFINE Rest(x) == IF x = Null THEN {} ELSE {y \in G : rank[y] <= rank[x]}
           P(k) == /\ t[k] \in G \union {Null}
                   /\ \A y \in G : y \in Rest(t[k]) \/ \E j \in 0..k : t[j] = y
                   /\ t[k] # Null => Cardinality(Rest(t[k])) <= Cardinality(G) - k
                   /\ \A j \in 0..k : t[j] \in G \union {Null}
           C == {k \in 0..n : P(k)}
<1>1. /\ t[0] = from
      /\ \A k \in 0..n : k < n => t[k + 1] = IF t[k] \in S THEN nx[t[k]] ELSE Null
  <2>1. \A k \in 0..n : t[k] = IF k = 0 THEN from
                               ELSE IF t[k - 1] \in S THEN nx[t[k - 1]] ELSE Null
    BY DEF Walk
  <2>2. \A k \in 0..n : k < n => k + 1 \in 0..n /\ k + 1 # 0 /\ (k + 1) - 1 = k
    OBVIOUS
  <2> QED
    BY <2>1, <2>2
<1>2. Cardinality(G) \in Nat
  BY FS_CardinalityType
<1>3. 0 \in C
  <2>1. G = Rest(from) /\ from \in G \union {Null}
    OBVIOUS
  <2> HIDE DEF Rest
  <2> QED
    BY <1>1, <1>2, <2>1
<1>4. ASSUME NEW k \in 0..n, k < n, k \in C PROVE k + 1 \in C
  <2>1. P(k) /\ k + 1 \in 0..n /\ k \in Nat
    BY <1>4
  <2>2. \A j \in 0..k + 1 : j \in 0..k \/ j = k + 1
    BY <2>1
  <2>3. CASE t[k] = Null
    <3>1. t[k + 1] = Null
      BY <1>1, <1>4, <2>3
    <3>2. \A y \in G : \E j \in 0..k : t[j] = y
      BY <2>1, <2>3
    <3>3. \A y \in G : \E j \in 0..k + 1 : t[j] = y
      BY <2>1, <3>2
    <3>4. P(k + 1)
      BY <2>1, <2>2, <3>1, <3>3
    <3> QED
      BY <2>1, <3>4
  <2>4. CASE t[k] # Null
    <3> PICK x : x = t[k]
      OBVIOUS
    <3> PICK z : z = t[k + 1]
      OBVIOUS
    <3>1. x \in G /\ x # Null /\ z = nx[x]
      BY <1>1, <1>4, <2>1, <2>4
    <3>2. z \in G \union {Null}
      BY <3>1 DEF Descends
    <3>3. Rest(z) = Rest(x) \ {x}
      <4>1. CASE z = Null
        <5>1. \A y \in G : ~ (rank[y] < rank[x]) /\ rank[y] \in Int /\ rank[x] \in Int
          BY <3>1, <4>1 DEF Descends
        <5>2. \A y \in G : rank[y] <= rank[x] => y = x
          BY <3>1, <5>1
        <5> QED
          BY <3>1, <4>1, <5>2
      <4>2. CASE z # Null
        BY <3>1, <3>2, <4>2 DEF Descends
      <4> QED
        BY <4>1, <4>2
    <3>4. x \in Rest(x) /\ IsFiniteSet(Rest(x))
      BY <3>1, FS_Subset
    <3> HIDE DEF Rest
    <3>5. Cardinality(Rest(z)) = Cardinality(Rest(x)) - 1
      <4>1. Cardinality(Rest(x) \ {x}) = Cardinality(Rest(x)) - 1
        <5> PICK R : R = Rest(x)
          OBVIOUS
        <5>1. IsFiniteSet(R) /\ x \in R
          BY <3>4
        <5>2. Cardinality(R \ {x}) = Cardinality(R) - 1
          BY <5>1, FS_RemoveElement
        <5> QED
          BY <5>2
      <4> QED
        BY <3>3, <4>1
    <3>6. Cardinality(Rest(x)) \in Nat /\ Cardinality(Rest(x)) <= Cardinality(G) - k
      BY <2>1, <2>4, <3>4, FS_CardinalityType
    <3>7. Cardinality(Rest(z)) <= Cardinality(G) - (k + 1)
      BY <1>2, <2>1, <3>5, <3>6
    <3>8. ASSUME NEW y \in G PROVE y \in Rest(z) \/ \E j \in 0..k + 1 : t[j] = y
      <4>1. y \in Rest(x) \/ \E j \in 0..k : t[j] = y
        BY <2>1
      <4>2. CASE y = x
        BY <2>1, <4>2
      <4>3. CASE y # x /\ y \in Rest(x)
        BY <3>3, <4>3
      <4>4. CASE \E j \in 0..k : t[j] = y
        BY <2>1, <4>4
      <4> QED
        BY <4>1, <4>2, <4>3, <4>4
    <3>9. P(k + 1)
      BY <2>1, <2>2, <3>2, <3>7, <3>8
    <3> QED
      BY <2>1, <3>9
  <2> QED
    BY <2>3, <2>4
<1>5. P(n)
  <2> HIDE DEF C, P
  <2>1. \A k \in 0..n : k < n /\ k \in C => k + 1 \in C
    BY <1>4
  <2>2. n \in Nat
    OBVIOUS
  <2>3. \A k \in 0..n : k \in C
    BY ONLY <1>3, <2>1, <2>2, Climb
  <2> QED
    BY <2>2, <2>3 DEF C
<1>6. t[n] = Null
  <2> SUFFICES ASSUME t[n] # Null PROVE FALSE
    OBVIOUS
  <2>1. t[n] \in Rest(t[n]) /\ IsFiniteSet(Rest(t[n])) /\ Cardinality(Rest(t[n])) <= Cardinality(G) - n
    BY <1>5, FS_Subset
  <2> HIDE DEF Rest
  <2>2. Cardinality(Rest(t[n])) \in Nat /\ Cardinality(Rest(t[n])) # 0
    BY <2>1, FS_CardinalityType, FS_EmptySet
  <2> QED
    BY <1>2, <2>1, <2>2
<1>7. \A y \in G : \E j \in 0..n : t[j] = y
  BY <1>5, <1>6
<1>8. \A j \in 0..n : t[j] \in G \union {Null}
  BY <1>5
<1> QED
  BY <1>7, <1>8

\* A bin walked along either link, for the state's own cache.
Follow(t, from, field) ==
    [k \in 0..Cardinality(Block) |->
       IF k = 0 THEN from
       ELSE IF t[k - 1] \in cached THEN tc.blk[t[k - 1]][field] ELSE Null]

LEMMA MetIs ==
    ASSUME Good(tc), NEW i \in Bin
    PROVE  /\ Met(tc.head[i], "next") = InBin(tc, i)
           /\ Met(tc.tail[i], "prev") = InBin(tc, i)
<1> DEFINE S == In(tc)
           G == InBin(tc, i)
           N == Cardinality(Block)
           nx == [b \in S |-> tc.blk[b].next]
           pv == [b \in S |-> tc.blk[b].prev]
           young == [b \in S |-> tc.blk[b].lastUsed]
           old == [b \in S |-> 0 - tc.blk[b].lastUsed]
<1>1. tc \in Caches /\ CacheLinked(tc) /\ Stamped(tc)
  BY DEF Good
<1>2. /\ Null \notin S /\ S \subseteq Block /\ IsFiniteSet(S) /\ G \in SUBSET S
      /\ \A b \in S : tc.blk[b].lastUsed \in Nat
  BY <1>1, CacheFields, HdrFields DEF InBin
<1>3. IsFiniteSet(G) /\ N \in Nat /\ Cardinality(G) <= N
  <2>1. IsFiniteSet(Block)
    BY ThreadCacheAssumption
  <2>2. G \subseteq Block
    BY <1>2
  <2> QED
    BY <2>1, <2>2, FS_Subset, FS_CardinalityType
<1>4. HeadIs(tc, i, tc.head[i]) /\ TailIs(tc, i, tc.tail[i])
  BY <1>1 DEF CacheLinked
<1>5. tc.head[i] \in S \union {Null} /\ tc.tail[i] \in S \union {Null}
  BY <1>2, <1>4 DEF HeadIs, TailIs
<1>6. \A x, y \in G : Older(tc, x, y) <=> tc.blk[x].lastUsed < tc.blk[y].lastUsed
  BY DEF Older, InBin
<1>7. \A x \in S : \A y \in G : Older(tc, x, y) \/ Older(tc, y, x) => x \in G
  BY DEF Older, InBin
<1>8. /\ \A b \in G : young[b] = tc.blk[b].lastUsed /\ young[b] \in Int
                      /\ old[b] = 0 - tc.blk[b].lastUsed /\ old[b] \in Int
      /\ \A x, y \in G : (old[x] < old[y] <=> young[y] < young[x])
                         /\ (old[x] <= old[y] <=> young[y] <= young[x])
  BY <1>2
<1>9. /\ \A x, y \in G : young[x] = young[y] => x = y
      /\ \A x, y \in G : old[x] = old[y] => x = y
  BY <1>1, <1>2, <1>8 DEF Stamped
<1>10. \A b \in S : nx[b] \in S \union {Null} /\ pv[b] \in S \union {Null}
  BY <1>1 DEF CacheLinked, NextIs, PrevIs
<1>11. Descends(G, nx, young)
  <2> SUFFICES ASSUME NEW b \in G
               PROVE  IF nx[b] = Null THEN \A y \in G : ~ (young[y] < young[b])
                      ELSE /\ nx[b] \in G /\ young[nx[b]] < young[b]
                           /\ \A y \in G : young[y] < young[b] => young[y] <= young[nx[b]]
    BY DEF Descends
  <2>1. NextIs(tc, b, nx[b])
    BY <1>1, <1>2 DEF CacheLinked
  <2> HIDE DEF nx, young
  <2>2. CASE nx[b] = Null
    BY <1>2, <1>6, <1>8, <2>1, <2>2 DEF NextIs
  <2>3. CASE nx[b] # Null
    <3>1. nx[b] \in S /\ Older(tc, nx[b], b) /\ nx[b] \in G
      BY <1>7, <2>1, <2>3 DEF NextIs
    <3>2. \A y \in G : Older(tc, y, b) => tc.blk[y].lastUsed <= tc.blk[nx[b]].lastUsed
      BY <1>2, <2>1, <2>3 DEF NextIs
    <3> QED
      BY <1>6, <1>8, <2>3, <3>1, <3>2
  <2> QED
    BY <2>2, <2>3
<1>12. Descends(G, pv, old)
  <2> SUFFICES ASSUME NEW b \in G
               PROVE  IF pv[b] = Null THEN \A y \in G : ~ (old[y] < old[b])
                      ELSE /\ pv[b] \in G /\ old[pv[b]] < old[b]
                           /\ \A y \in G : old[y] < old[b] => old[y] <= old[pv[b]]
    BY DEF Descends
  <2>1. PrevIs(tc, b, pv[b])
    BY <1>1, <1>2 DEF CacheLinked
  <2> HIDE DEF pv, young, old
  <2>2. CASE pv[b] = Null
    BY <1>2, <1>6, <1>8, <2>1, <2>2 DEF PrevIs
  <2>3. CASE pv[b] # Null
    <3>1. pv[b] \in S /\ Older(tc, b, pv[b]) /\ pv[b] \in G
      BY <1>7, <2>1, <2>3 DEF PrevIs
    <3>2. \A y \in G : Older(tc, b, y) => tc.blk[pv[b]].lastUsed <= tc.blk[y].lastUsed
      BY <1>2, <2>1, <2>3 DEF PrevIs
    <3> QED
      BY <1>6, <1>8, <2>3, <3>1, <3>2
  <2> QED
    BY <2>2, <2>3
<1>13. /\ IF tc.head[i] = Null THEN G = {}
          ELSE tc.head[i] \in G /\ \A y \in G : young[y] <= young[tc.head[i]]
       /\ IF tc.tail[i] = Null THEN G = {}
          ELSE tc.tail[i] \in G /\ \A y \in G : old[y] <= old[tc.tail[i]]
  <2> HIDE DEF young, old
  <2> QED
    BY <1>4, <1>8 DEF HeadIs, TailIs
<1>14. nx \in [S -> S \union {Null}] /\ pv \in [S -> S \union {Null}]
  BY <1>10
<1>15. \E t : Walk(t, S, nx, tc.head[i], N) /\ Met(tc.head[i], "next") = {t[k] : k \in DOMAIN t} \ {Null}
  <2>1. \E u : /\ u = (CHOOSE t : t = Follow(t, tc.head[i], "next"))
               /\ Met(tc.head[i], "next") = {u[k] : k \in DOMAIN u} \ {Null}
    BY DEF Met, Follow
  <2>2. \A t : t = Follow(t, tc.head[i], "next") <=> Walk(t, S, nx, tc.head[i], N)
    <3>1. \A b \in S : tc.blk[b]["next"] = nx[b]
      OBVIOUS
    <3>2. S = cached
      BY DEF In, cached
    <3> HIDE DEF S, nx
    <3>3. ASSUME NEW t PROVE Follow(t, tc.head[i], "next") =
                 [k \in 0..N |-> IF k = 0 THEN tc.head[i]
                                 ELSE IF t[k - 1] \in S THEN nx[t[k - 1]] ELSE Null]
      BY <3>1, <3>2 DEF Follow
    <3> QED
      BY <3>3 DEF Walk
  <2> HIDE DEF S, N, nx
  <2>3. \E t : Walk(t, S, nx, tc.head[i], N)
    BY <1>3, <1>5, <1>14, WalkExists
  <2>4. PICK u : /\ u = Follow(u, tc.head[i], "next")
                 /\ Met(tc.head[i], "next") = {u[k] : k \in DOMAIN u} \ {Null}
    BY <2>1, <2>2, <2>3
  <2> QED
    BY <2>2, <2>4
<1>16. \E t : Walk(t, S, pv, tc.tail[i], N) /\ Met(tc.tail[i], "prev") = {t[k] : k \in DOMAIN t} \ {Null}
  <2>1. \E u : /\ u = (CHOOSE t : t = Follow(t, tc.tail[i], "prev"))
               /\ Met(tc.tail[i], "prev") = {u[k] : k \in DOMAIN u} \ {Null}
    BY DEF Met, Follow
  <2>2. \A t : t = Follow(t, tc.tail[i], "prev") <=> Walk(t, S, pv, tc.tail[i], N)
    <3>1. \A b \in S : tc.blk[b]["prev"] = pv[b]
      OBVIOUS
    <3>2. S = cached
      BY DEF In, cached
    <3> HIDE DEF S, pv
    <3>3. ASSUME NEW t PROVE Follow(t, tc.tail[i], "prev") =
                 [k \in 0..N |-> IF k = 0 THEN tc.tail[i]
                                 ELSE IF t[k - 1] \in S THEN pv[t[k - 1]] ELSE Null]
      BY <3>1, <3>2 DEF Follow
    <3> QED
      BY <3>3 DEF Walk
  <2> HIDE DEF S, N, pv
  <2>3. \E t : Walk(t, S, pv, tc.tail[i], N)
    BY <1>3, <1>5, <1>14, WalkExists
  <2>4. PICK u : /\ u = Follow(u, tc.tail[i], "prev")
                 /\ Met(tc.tail[i], "prev") = {u[k] : k \in DOMAIN u} \ {Null}
    BY <2>1, <2>2, <2>3
  <2> QED
    BY <2>2, <2>4
<1> HIDE DEF S, G, N, nx, pv, young, old
<1>17. \A t, f, l : Walk(t, S, f, l, N) => DOMAIN t = 0..N
  BY DEF Walk
<1>18. Met(tc.head[i], "next") = G
  <2>1. PICK t : /\ Walk(t, S, nx, tc.head[i], N)
                 /\ Met(tc.head[i], "next") = {t[k] : k \in DOMAIN t} \ {Null}
    BY <1>15
  <2>2. \A x \in G : young[x] \in Int
    BY <1>8
  <2>3. {t[k] : k \in 0..N} \ {Null} = G
    BY <1>2, <1>3, <1>9, <1>11, <1>13, <2>1, <2>2, WalkMeets
  <2> QED
    BY <1>17, <2>1, <2>3
<1>19. Met(tc.tail[i], "prev") = G
  <2>1. PICK t : /\ Walk(t, S, pv, tc.tail[i], N)
                 /\ Met(tc.tail[i], "prev") = {t[k] : k \in DOMAIN t} \ {Null}
    BY <1>16
  <2>2. \A x \in G : old[x] \in Int
    BY <1>8
  <2>3. {t[k] : k \in 0..N} \ {Null} = G
    BY <1>2, <1>3, <1>9, <1>12, <1>13, <2>1, <2>2, WalkMeets
  <2> QED
    BY <1>17, <2>1, <2>3
<1> QED
  BY <1>18, <1>19 DEF G

\* A block's neighbour points back at it.
LEMMA PointsBack ==
    ASSUME NEW c, Good(c), NEW b \in In(c), c.blk[b].next # Null
    PROVE  c.blk[c.blk[b].next].prev = b
<1> DEFINE n == c.blk[b].next
           p == c.blk[n].prev
<1>1. c \in Caches /\ Stamped(c) /\ NextIs(c, b, n)
  BY DEF Good, CacheLinked
<1>2. n \in In(c) /\ Older(c, n, b) /\ PrevIs(c, n, p)
      /\ \A y \in In(c) : Older(c, y, b) => c.blk[y].lastUsed <= c.blk[n].lastUsed
  <2>1. n \in In(c)
    BY <1>1 DEF NextIs
  <2> QED
    BY <1>1, <2>1 DEF Good, CacheLinked, NextIs
<1>3. \A y \in In(c) : c.blk[y].lastUsed \in Nat
  BY <1>1, HdrFields
<1> HIDE DEF n, p
<1>4. p \in In(c) /\ Older(c, n, p) /\ c.blk[p].lastUsed <= c.blk[b].lastUsed
  BY <1>2 DEF PrevIs
<1>5. p # b => Older(c, p, b)
  <2>1. p # b => c.blk[p].lastUsed # c.blk[b].lastUsed
    BY <1>1, <1>4 DEF Stamped
  <2> QED
    BY <1>2, <1>3, <1>4, <2>1 DEF Older
<1>6. ~ Older(c, p, b)
  <2> SUFFICES ASSUME Older(c, p, b) PROVE FALSE
    OBVIOUS
  <2>1. c.blk[p].lastUsed <= c.blk[n].lastUsed /\ c.blk[n].lastUsed < c.blk[p].lastUsed
    BY <1>2, <1>4 DEF Older
  <2> QED
    BY <1>2, <1>3, <1>4, <2>1
<1> QED
  BY <1>5, <1>6 DEF n, p

\* The byte count, as the property adds it.
Steps(S, h) ==
    [T \in SUBSET S |-> IF T = {} THEN 0 ELSE tc.blk[Pick(T)].size + h[T \ {Pick(T)}]]

LEMMA FreeInCacheIs ==
    ASSUME Good(tc)
    PROVE  FreeInCacheExact
<1>1. \E g : /\ g = (CHOOSE h : h = Steps(cached, h))
             /\ MapThenSumSet(LAMBDA b : tc.blk[b].size, cached) = g[cached]
  BY DEF MapThenSumSet, MapThenFoldSet, Steps, Pick
<1>2. PICK f : f = [b \in cached |-> tc.blk[b].size]
  OBVIOUS
<1>3. /\ \A b \in cached : f[b] \in Nat /\ f[b] = tc.blk[b].size
      /\ tc.freeInCache = Sum(f, cached) /\ IsFiniteSet(cached)
  <2>1. tc \in Caches
    BY DEF Good
  <2>2. IsFiniteSet(In(tc)) /\ \A b \in In(tc) : tc.blk[b].size \in Nat
    BY <2>1, CacheFields, HdrFields
  <2> QED
    BY <1>2, <2>2 DEF Good, Counted, cached, In
<1>4. \A h : Steps(cached, h) = Adding(f, cached, h)
  <2> SUFFICES ASSUME NEW h, NEW T \in SUBSET cached, T # {}
               PROVE  tc.blk[Pick(T)].size = f[Pick(T)]
    BY DEF Steps, Adding
  <2> QED
    BY <1>3, PickIn
<1>5. PICK g : /\ g = Steps(cached, g)
               /\ MapThenSumSet(LAMBDA b : tc.blk[b].size, cached) = g[cached]
  <2>1. \E h : h = Steps(cached, h)
    BY <1>3, <1>4, AddingIsSum
  <2> QED
    BY <1>1, <2>1
<1>6. g[cached] = Sum(f, cached)
  BY <1>3, <1>4, <1>5, AddingIsSum
<1> QED
  BY <1>3, <1>5, <1>6 DEF FreeInCacheExact

-----------------------------------------------------------------------------
(* Requests. *)

LEMMA RaisedIs ==
    ASSUME NEW n \in Request
    PROVE  n \in Nat /\ raised(n) \in Nat /\ n <= raised(n) /\ minimum <= raised(n)
<1>1. n \in Nat /\ minimum \in Nat
  BY ThreadCacheAssumption DEF minimum
<1>2. \E x \in {n, minimum} : \A y \in {n, minimum} : x >= y
  BY <1>1
<1>3. raised(n) \in {n, minimum} /\ \A y \in {n, minimum} : raised(n) >= y
  BY <1>2 DEF raised, Max
<1> QED
  BY <1>1, <1>3

\* The bin a request is served from has blocks it fits.
LEMMA SearchedIs ==
    ASSUME NEW n \in Request, Cacheable(n)
    PROVE  searched(raised(n)) \in Bin /\ n <= best(searched(raised(n)))
<1> DEFINE i == fit(raised(n))
           j == searched(raised(n))
<1>1. n \in Nat /\ raised(n) \in Nat /\ n <= raised(n) /\ minimum <= raised(n)
      /\ raised(n) <= threadcache_max
  BY RaisedIs DEF Cacheable
<1>2. i \in Bin /\ raised(n) <= best(i)
  BY <1>1, FitIs
<1>3. MaxBin \in Nat
  BY LastBin
<1>4. j = i \/ (j = i + 1 /\ i < MaxBin)
  BY DEF searched
<1> HIDE DEF i, j
<1>5. i \in Nat /\ j \in Bin
  BY <1>2, <1>3, <1>4 DEF Bin
<1>6. best(i) \in Nat /\ best(i + 1) = 2 * best(i)
  BY <1>5, BestIs
<1>7. best(i) <= best(j)
  BY <1>4, <1>6
<1>8. best(j) \in Nat
  BY <1>4, <1>6
<1> QED
  BY <1>1, <1>2, <1>5, <1>6, <1>7, <1>8 DEF j

LEMMA AskedIs ==
    ASSUME NEW n \in Request, NEW size \in Asked(n)
    PROVE  size \in Nat /\ n <= size
<1>1. n \in Nat /\ raised(n) \in Nat /\ n <= raised(n) /\ minimum <= raised(n)
  BY RaisedIs
<1>2. CASE size = raised(n)
  BY <1>1, <1>2
<1>3. CASE size = best(fit(raised(n))) /\ Cacheable(n)
  <2>1. fit(raised(n)) \in Bin /\ raised(n) <= size
    BY <1>1, <1>3, FitIs DEF Cacheable
  <2>2. fit(raised(n)) \in Nat
    BY <2>1, LastBin DEF Bin
  <2>3. size \in Nat
    BY <1>3, <2>2, BestIs
  <2> QED
    BY <1>1, <2>1, <2>3
<1> QED
  BY <1>2, <1>3 DEF Asked

\* What the cache serves.
LEMMA HitIs ==
    ASSUME Good(tc), NEW n \in Request, Hit(n)
    PROVE  LET i == searched(raised(n))
               b == tc.head[i]
           IN /\ i \in Bin /\ b \in In(tc) /\ n <= tc.blk[b].size
              /\ Left(tc, popYoungest(tc, i), In(tc) \ {b})
<1> PICK i : i = searched(raised(n))
  OBVIOUS
<1>1. i \in Bin /\ n <= best(i) /\ tc.head[i] # Null
  BY SearchedIs DEF Hit
<1>2. tc.head[i] \in InBin(tc, i) /\ Left(tc, popYoungest(tc, i), In(tc) \ {tc.head[i]})
  BY <1>1, PopYoungestIs
<1> QED
  BY <1>1, <1>2 DEF InBin

-----------------------------------------------------------------------------
(* The invariant. *)

Inv ==
    /\ Good(tc) /\ tc.frees \in 0..MaxFrees /\ tc.freeInCache < max_free_space
    /\ In(tc) \cap DOMAIN held = {} /\ In(tc) \union DOMAIN held \subseteq Block
    /\ usable = [b \in In(tc) \union DOMAIN held |-> usable[b]]
    /\ \A b \in In(tc) \union DOMAIN held : usable[b] \in UsableSize
    /\ \A b \in DOMAIN held : held[b] \in Request /\ held[b] <= usable[b]
    /\ \A b \in In(tc) : tc.blk[b].size <= usable[b]

\* What OldestLeaveFirst says of a step.
Leaving ==
    \A b \in cached \ (DOMAIN tc'.blk \union DOMAIN held') :
      \A s \in cached \cap DOMAIN tc'.blk : tc.blk[b].lastUsed < tc'.blk[s].lastUsed

LEMMA RestrictIs ==
    ASSUME NEW f, NEW S
    PROVE  /\ Restrict(f, S) = [z \in S |-> Restrict(f, S)[z]]
           /\ \A z \in S : Restrict(f, S)[z] = f[z]
  BY DEF Restrict

\* An empty cache.
LEMMA EmptyIs ==
    ASSUME NEW c, c.head = [i \in Bin |-> Null], c.tail = [i \in Bin |-> Null],
           c.blk = <<>>, c.frees = 0, c.freeInCache = 0,
           c = [head |-> c.head, tail |-> c.tail, blk |-> c.blk, frees |-> c.frees,
                freeInCache |-> c.freeInCache]
    PROVE  Good(c) /\ In(c) = {}
<1>1. <<>> \in [{} -> Hdr] /\ DOMAIN <<>> = {}
  OBVIOUS
<1>2. In(c) = {}
  BY <1>1 DEF In
<1>3. c \in Caches
  <2>1. c.head \in Ends /\ c.tail \in Ends /\ c.blk \in Hdrs /\ c.frees \in Nat
        /\ c.freeInCache \in Int
    BY <1>1 DEF Ends, Link, Hdrs
  <2> PICK h : h = c.head
    OBVIOUS
  <2> PICK t : t = c.tail
    OBVIOUS
  <2> PICK k : k = c.blk
    OBVIOUS
  <2>2. c = [head |-> h, tail |-> t, blk |-> k, frees |-> 0, freeInCache |-> 0]
    OBVIOUS
  <2> QED
    BY <2>1, <2>2 DEF Caches
<1>4. CacheLinked(c)
  BY <1>2 DEF CacheLinked, HeadIs, TailIs, InBin
<1>5. Stamped(c)
  BY <1>2 DEF Stamped
<1>6. Counted(c)
  <2>1. Sum([b \in In(c) |-> c.blk[b].size], {}) = 0
    BY FS_EmptySet, SumParts
  <2> QED
    BY <1>2, <2>1 DEF Counted
<1> QED
  BY <1>2, <1>3, <1>4, <1>5, <1>6 DEF Good

LEMMA InitInv == Init => Inv
<1> SUFFICES ASSUME Init PROVE Inv
  OBVIOUS
<1>1. DOMAIN held = {} /\ usable = <<>> /\ DOMAIN usable = {}
  BY DEF Init
<1>2. Good(tc) /\ In(tc) = {} /\ tc.frees = 0 /\ tc.freeInCache = 0
  <2> PICK h : h = [i \in Bin |-> Null]
    OBVIOUS
  <2>1. tc = [head |-> h, tail |-> h, blk |-> <<>>, frees |-> 0, freeInCache |-> 0]
    BY DEF Init
  <2> QED
    BY <2>1, EmptyIs
<1>3. 0 < max_free_space /\ 0 \in 0..MaxFrees
  BY ThreadCacheAssumption
<1>4. usable = [b \in In(tc) \union DOMAIN held |-> usable[b]]
  BY <1>1, <1>2
<1> QED
  BY <1>1, <1>2, <1>3, <1>4 DEF Inv

\* What the invariant says of single blocks.
LEMMA InvFacts ==
    ASSUME Inv
    PROVE  /\ tc \in Caches /\ cached = In(tc)
           /\ tc.frees \in Nat /\ MaxFrees \in Nat
           /\ \A b \in In(tc) : tc.blk[b].size \in Nat /\ tc.blk[b].lastUsed \in Nat
           /\ \A b \in In(tc) \union DOMAIN held :
                b \in Block /\ usable[b] \in Nat /\ usable[b] \in UsableSize
           /\ \A b \in DOMAIN held : held[b] \in Nat /\ b \notin In(tc)
           /\ \A n \in Request : n \in Nat
           /\ DOMAIN usable = In(tc) \union DOMAIN held
<1>1. tc \in Caches /\ cached = In(tc) /\ tc.frees \in Nat
  BY DEF Inv, Good, cached, In
<1>2. \A b \in In(tc) : tc.blk[b].size \in Nat /\ tc.blk[b].lastUsed \in Nat
  BY <1>1, HdrFields
<1> QED
  BY <1>1, <1>2, ThreadCacheAssumption DEF Inv

LEMMA MallocFromCacheInv ==
    ASSUME Inv, NEW n \in Request, MallocFromCache(n)
    PROVE  Inv' /\ Leaving
<1> PICK i : i = searched(raised(n))
  OBVIOUS
<1> PICK b : b = tc.head[i]
  OBVIOUS
<1> PICK d : d = tc'
  OBVIOUS
<1>1. d = popYoungest(tc, i) /\ held' = With(held, b, n) /\ UNCHANGED usable /\ Hit(n)
  BY DEF MallocFromCache
<1>2. i \in Bin /\ b \in In(tc) /\ n <= tc.blk[b].size /\ Left(tc, d, In(tc) \ {b})
  BY <1>1, HitIs DEF Inv
<1>3. /\ DOMAIN held' = DOMAIN held \union {b} /\ held'[b] = n
      /\ \A z \in DOMAIN held \ {b} : held'[z] = held[z]
  BY <1>1 DEF With
<1>4. /\ Good(d) /\ In(d) = In(tc) \ {b} /\ d.frees = tc.frees
      /\ \A y \in In(d) : d.blk[y].size = tc.blk[y].size
  BY <1>2 DEF Left
<1>5. d.freeInCache < max_free_space
  <2>1. d.freeInCache \in Nat /\ tc.freeInCache \in Nat /\ d.freeInCache <= tc.freeInCache
    BY <1>2, LeftCounts DEF Inv
  <2> QED
    BY <2>1, ThreadCacheAssumption DEF Inv
<1>6. n <= usable[b]
  <2>1. tc.blk[b].size <= usable[b]
    BY <1>2 DEF Inv
  <2> QED
    BY <1>2, <2>1, InvFacts
<1>7. In(d) \union DOMAIN held' = In(tc) \union DOMAIN held
  BY <1>2, <1>3, <1>4
<1>8. Inv'
  <2>1. In(d) \cap DOMAIN held' = {}
    BY <1>3, <1>4 DEF Inv
  <2>2. \A z \in DOMAIN held' : held'[z] \in Request /\ held'[z] <= usable[z]
    BY <1>3, <1>6 DEF Inv
  <2>3. \A y \in In(d) : d.blk[y].size <= usable[y]
    BY <1>4 DEF Inv
  <2>4. usable = [z \in In(d) \union DOMAIN held' |-> usable[z]]
        /\ \A z \in In(d) \union DOMAIN held' : usable[z] \in UsableSize /\ z \in Block
    BY <1>7 DEF Inv
  <2>5. d.frees \in 0..MaxFrees
    BY <1>4 DEF Inv
  <2> QED
    BY <1>1, <1>4, <1>5, <2>1, <2>2, <2>3, <2>4, <2>5 DEF Inv
<1>9. Leaving
  <2>1. cached \ (In(d) \union DOMAIN held') = {}
    BY <1>3, <1>4, InvFacts
  <2> QED
    BY <2>1 DEF Leaving, In
<1> QED
  BY <1>8, <1>9

LEMMA MallocFromMspaceInv ==
    ASSUME Inv, NEW n \in Request, MallocFromMspace(n)
    PROVE  Inv' /\ Leaving
<1>1. PICK b \in mspace, size \in Asked(n) : \E u \in {v \in UsableSize : v >= size} :
        /\ held' = With(held, b, n) /\ usable' = With(usable, b, u) /\ UNCHANGED tc
  BY DEF MallocFromMspace
<1>2. PICK u \in {v \in UsableSize : v >= size} :
        held' = With(held, b, n) /\ usable' = With(usable, b, u) /\ UNCHANGED tc
  BY <1>1
<1>3. b \in Block /\ b \notin In(tc) /\ b \notin DOMAIN held
  BY InvFacts DEF mspace
<1>4. u \in UsableSize /\ n <= u
  <2>1. size \in Nat /\ n <= size /\ n \in Nat
    BY AskedIs, InvFacts
  <2> QED
    BY <2>1, ThreadCacheAssumption
<1>5. /\ DOMAIN held' = DOMAIN held \union {b} /\ held'[b] = n
      /\ \A z \in DOMAIN held \ {b} : held'[z] = held[z]
  BY <1>2 DEF With
<1>6. /\ usable' = [z \in In(tc) \union DOMAIN held' |-> usable'[z]] /\ usable'[b] = u
      /\ \A z \in In(tc) \union DOMAIN held : usable'[z] = usable[z]
  <2>1. DOMAIN usable \union {b} = In(tc) \union DOMAIN held'
    BY <1>5, InvFacts
  <2>2. /\ usable' = [z \in DOMAIN usable \union {b} |-> usable'[z]] /\ usable'[b] = u
        /\ \A z \in DOMAIN usable \ {b} : usable'[z] = usable[z]
    BY <1>2 DEF With
  <2> QED
    BY <1>3, <2>1, <2>2, InvFacts
<1>7. Inv'
  <2>1. In(tc) \cap DOMAIN held' = {} /\ In(tc) \union DOMAIN held' \subseteq Block
    BY <1>3, <1>5 DEF Inv
  <2>2. \A z \in In(tc) \union DOMAIN held' : usable'[z] \in UsableSize
    BY <1>4, <1>5, <1>6 DEF Inv
  <2>3. \A z \in DOMAIN held' : held'[z] \in Request /\ held'[z] <= usable'[z]
    BY <1>3, <1>4, <1>5, <1>6 DEF Inv
  <2>4. \A y \in In(tc) : tc.blk[y].size <= usable'[y]
    BY <1>6 DEF Inv
  <2> QED
    BY <1>2, <1>6, <2>1, <2>2, <2>3, <2>4 DEF Inv
<1>8. Leaving
  BY <1>2 DEF Leaving, cached
<1> QED
  BY <1>7, <1>8

\* When blocks settle, the sizes of the ones that are not in the mspace stay.
LEMMA SettleIs ==
    ASSUME NEW u, Settle(u)
    PROVE  /\ usable' = [b \in In(tc') \union DOMAIN held' |-> usable'[b]]
           /\ \A b \in In(tc') \union DOMAIN held' : usable'[b] = u[b]
<1>1. usable' = Restrict(u, In(tc') \union DOMAIN held')
  BY DEF Settle, In
<1> QED
  BY <1>1, RestrictIs

LEMMA FreeInv ==
    ASSUME Inv, NEW b \in DOMAIN held, Free(b)
    PROVE  Inv' /\ Leaving
<1> PICK d : d = tc'
  OBVIOUS
<1>1. d = Given(tc, b, usable[b]) /\ held' = Without(held, {b}) /\ Settle(usable)
      /\ tc.frees < MaxFrees
  BY DEF Free
<1>2. Gave(tc, d, b, usable[b])
  <2>1. b \in Block \ In(tc) /\ usable[b] \in Nat
    BY InvFacts
  <2> QED
    BY <1>1, <2>1, GivenIs DEF Inv
<1>3. /\ DOMAIN held' = DOMAIN held \ {b} /\ \A z \in DOMAIN held' : held'[z] = held[z]
  BY <1>1 DEF Without, Restrict
<1>4. /\ usable' = [z \in In(d) \union DOMAIN held' |-> usable'[z]]
      /\ \A z \in In(d) \union DOMAIN held' : usable'[z] = usable[z]
  BY <1>1, SettleIs
<1>5. In(d) \union DOMAIN held' \subseteq In(tc) \union DOMAIN held
      /\ In(d) \cap DOMAIN held' = {}
  BY <1>2, <1>3, InvFacts DEF Gave
<1>6. Inv'
  <2>1. d.frees \in 0..MaxFrees
    BY <1>1, <1>2, InvFacts DEF Gave
  <2>2. \A z \in DOMAIN held' : held'[z] \in Request /\ held'[z] <= usable'[z]
    BY <1>3, <1>4 DEF Inv
  <2>3. \A y \in In(d) : d.blk[y].size <= usable'[y]
    BY <1>2, <1>4 DEF Gave, Inv
  <2>4. \A z \in In(d) \union DOMAIN held' : usable'[z] \in UsableSize /\ z \in Block
    BY <1>4, <1>5, InvFacts
  <2> QED
    BY <1>2, <1>4, <1>5, <2>1, <2>2, <2>3, <2>4 DEF Gave, Inv
<1>7. Leaving
  BY <1>2, InvFacts DEF Leaving, Gave, In
<1> QED
  BY <1>6, <1>7

LEMMA ReallocNoopInv ==
    ASSUME Inv, NEW b \in DOMAIN held, NEW n \in Request, ReallocNoop(b, n)
    PROVE  Inv' /\ Leaving
<1>1. n <= usable[b] /\ held' = [held EXCEPT ![b] = n] /\ UNCHANGED <<tc, usable>>
  BY DEF ReallocNoop, Suits
<1>2. DOMAIN held' = DOMAIN held /\ \A z \in DOMAIN held : held'[z] = IF z = b THEN n ELSE held[z]
  BY <1>1
<1>3. Inv'
  BY <1>1, <1>2 DEF Inv
<1>4. Leaving
  BY <1>1 DEF Leaving, cached
<1> QED
  BY <1>3, <1>4

LEMMA ReallocFromCacheInv ==
    ASSUME Inv, NEW b \in DOMAIN held, NEW n \in Request, ReallocFromCache(b, n)
    PROVE  Inv' /\ Leaving
<1> PICK i : i = searched(raised(n))
  OBVIOUS
<1> PICK h : h = tc.head[i]
  OBVIOUS
<1> PICK c : c = popYoungest(tc, i)
  OBVIOUS
<1> PICK d : d = tc'
  OBVIOUS
<1>1. /\ d = Given(c, b, usable[b]) /\ held' = With(Without(held, {b}), h, n)
      /\ Settle(usable) /\ tc.frees < MaxFrees /\ Hit(n)
  BY DEF ReallocFromCache
<1>2. i \in Bin /\ h \in In(tc) /\ n <= tc.blk[h].size /\ Left(tc, c, In(tc) \ {h})
  BY <1>1, HitIs DEF Inv
<1>3. /\ Good(c) /\ In(c) = In(tc) \ {h} /\ c.frees = tc.frees
      /\ \A y \in In(c) : /\ c.blk[y].size = tc.blk[y].size
                          /\ c.blk[y].lastUsed = tc.blk[y].lastUsed
  BY <1>2 DEF Left
<1>4. c.freeInCache < max_free_space
  <2>1. c.freeInCache \in Nat /\ tc.freeInCache \in Nat /\ c.freeInCache <= tc.freeInCache
    BY <1>2, LeftCounts DEF Inv
  <2> QED
    BY <2>1, ThreadCacheAssumption DEF Inv
<1>5. Gave(c, d, b, usable[b])
  <2>1. b \in Block \ In(c) /\ usable[b] \in Nat
    BY <1>3, InvFacts
  <2> QED
    BY <1>1, <1>3, <1>4, <2>1, GivenIs
<1>6. /\ DOMAIN held' = (DOMAIN held \ {b}) \union {h} /\ held'[h] = n
      /\ \A z \in DOMAIN held \ {b} : z # h => held'[z] = held[z]
  <2> PICK f : f = Without(held, {b})
    OBVIOUS
  <2>1. DOMAIN f = DOMAIN held \ {b} /\ \A z \in DOMAIN held \ {b} : f[z] = held[z]
    BY DEF Without, Restrict
  <2>2. held' = With(f, h, n)
    BY <1>1
  <2> QED
    BY <2>1, <2>2 DEF With
<1>7. /\ usable' = [z \in In(d) \union DOMAIN held' |-> usable'[z]]
      /\ \A z \in In(d) \union DOMAIN held' : usable'[z] = usable[z]
  BY <1>1, SettleIs
<1>8. In(d) \union DOMAIN held' \subseteq In(tc) \union DOMAIN held
      /\ In(d) \cap DOMAIN held' = {}
  <2>1. h # b /\ In(d) \subseteq (In(tc) \ {h}) \union {b}
    BY <1>2, <1>3, <1>5, InvFacts DEF Gave
  <2> QED
    BY <1>2, <1>6, <2>1, InvFacts
<1>9. n <= usable[h]
  <2>1. tc.blk[h].size <= usable[h]
    BY <1>2 DEF Inv
  <2> QED
    BY <1>2, <2>1, InvFacts
<1>10. Inv'
  <2>1. d.frees \in 0..MaxFrees
    BY <1>1, <1>3, <1>5, InvFacts DEF Gave
  <2>2. \A z \in DOMAIN held' : held'[z] \in Request /\ held'[z] <= usable'[z]
    BY <1>6, <1>7, <1>9 DEF Inv
  <2>3. ASSUME NEW y \in In(d) PROVE d.blk[y].size <= usable'[y]
    <3>1. usable'[y] = usable[y]
      BY <1>7
    <3>2. CASE y = b
      BY <1>5, <3>1, <3>2 DEF Gave
    <3>3. CASE y # b
      <4>1. y \in In(c) /\ y \in In(tc) /\ d.blk[y].size = tc.blk[y].size
        BY <1>3, <1>5, <3>3 DEF Gave
      <4> QED
        BY <3>1, <4>1 DEF Inv
    <3> QED
      BY <3>2, <3>3
  <2>4. \A z \in In(d) \union DOMAIN held' : usable'[z] \in UsableSize /\ z \in Block
    BY <1>7, <1>8, InvFacts
  <2> QED
    BY <1>5, <1>7, <1>8, <2>1, <2>2, <2>3, <2>4 DEF Gave, Inv
<1>11. Leaving
  <2> SUFFICES ASSUME NEW x \in cached \ (In(d) \union DOMAIN held'), NEW y \in cached \cap In(d)
               PROVE  tc.blk[x].lastUsed < d.blk[y].lastUsed
    BY DEF Leaving, In
  <2>1. x \in In(c) \ In(d)
    BY <1>3, <1>6, InvFacts
  <2>2. y \in In(c) \cap In(d)
    BY <1>3, <1>6, <1>8, InvFacts
  <2> QED
    BY <1>3, <1>5, <2>1, <2>2 DEF Gave
<1> QED
  BY <1>10, <1>11

LEMMA ReallocInMspaceInv ==
    ASSUME Inv, NEW b \in DOMAIN held, NEW n \in Request, ReallocInMspace(b, n)
    PROVE  Inv' /\ Leaving
<1>1. PICK r \in mspace \union {b}, size \in Asked(n) :
        \E u \in {v \in UsableSize : v >= size} :
          /\ held' = With(Without(held, {b}), r, n) /\ UNCHANGED tc /\ Settle(With(usable, r, u))
  BY DEF ReallocInMspace
<1>2. PICK u \in {v \in UsableSize : v >= size} :
        held' = With(Without(held, {b}), r, n) /\ UNCHANGED tc /\ Settle(With(usable, r, u))
  BY <1>1
<1>3. r \in Block /\ r \notin In(tc)
  BY InvFacts DEF mspace
<1>4. u \in UsableSize /\ n <= u
  <2>1. size \in Nat /\ n <= size /\ n \in Nat
    BY AskedIs, InvFacts
  <2> QED
    BY <2>1, ThreadCacheAssumption
<1>5. /\ DOMAIN held' = (DOMAIN held \ {b}) \union {r} /\ held'[r] = n
      /\ \A z \in DOMAIN held \ {b} : z # r => held'[z] = held[z]
  <2> PICK f : f = Without(held, {b})
    OBVIOUS
  <2>1. DOMAIN f = DOMAIN held \ {b} /\ \A z \in DOMAIN held \ {b} : f[z] = held[z]
    BY DEF Without, Restrict
  <2>2. held' = With(f, r, n)
    BY <1>2
  <2> QED
    BY <2>1, <2>2 DEF With
<1>6. /\ usable' = [z \in In(tc) \union DOMAIN held' |-> usable'[z]] /\ usable'[r] = u
      /\ \A z \in In(tc) \union (DOMAIN held \ {b}) : z # r => usable'[z] = usable[z]
  <2>1. /\ usable' = [z \in In(tc) \union DOMAIN held' |-> usable'[z]]
        /\ \A z \in In(tc) \union DOMAIN held' : usable'[z] = With(usable, r, u)[z]
    BY <1>2, SettleIs
  <2> PICK f : f = With(usable, r, u)
    OBVIOUS
  <2>2. f[r] = u /\ \A z \in DOMAIN usable \ {r} : f[z] = usable[z]
    BY DEF With
  <2>3. DOMAIN usable = In(tc) \union DOMAIN held
    BY InvFacts
  <2> QED
    BY <1>5, <2>1, <2>2, <2>3
<1>7. Inv'
  <2>1. In(tc) \cap DOMAIN held' = {} /\ In(tc) \union DOMAIN held' \subseteq Block
    BY <1>3, <1>5 DEF Inv
  <2>2. \A z \in In(tc) \union DOMAIN held' : usable'[z] \in UsableSize
    BY <1>4, <1>5, <1>6 DEF Inv
  <2>3. \A z \in DOMAIN held' : held'[z] \in Request /\ held'[z] <= usable'[z]
    BY <1>4, <1>5, <1>6 DEF Inv
  <2>4. \A y \in In(tc) : tc.blk[y].size <= usable'[y]
    BY <1>3, <1>6 DEF Inv
  <2> QED
    BY <1>2, <1>6, <2>1, <2>2, <2>3, <2>4 DEF Inv
<1>8. Leaving
  BY <1>2 DEF Leaving, cached
<1> QED
  BY <1>7, <1>8

\* A trim empties the cache.
LEMMA TrimInv ==
    ASSUME Inv, Trim
    PROVE  Inv' /\ Leaving
<1> DEFINE e == [tc EXCEPT !.frees = @ + 1]
<1> PICK d : d = tc'
  OBVIOUS
<1>1. d = RemoveCacheEntries(e, 0) /\ UNCHANGED held /\ Settle(usable) /\ tc.frees < MaxFrees
  BY DEF Trim
<1>2. /\ tc \in Caches /\ CacheLinked(tc) /\ Stamped(tc) /\ Counted(tc) /\ tc.frees \in Nat
      /\ MaxFrees \in Nat
  BY InvFacts DEF Inv, Good
<1>3. /\ e.head = tc.head /\ e.tail = tc.tail /\ e.blk = tc.blk /\ e.frees = tc.frees + 1
      /\ e.freeInCache = tc.freeInCache /\ e \in Caches
  BY <1>2 DEF Caches
<1> HIDE DEF e
<1>4. Good(e) /\ In(e) = In(tc)
  <2>1. In(e) = In(tc)
    BY <1>3 DEF In
  <2>2. CacheLinked(e)
    BY <1>2, <1>3, <2>1 DEF CacheLinked, NextIs, PrevIs, HeadIs, TailIs, InBin, Older
  <2>3. Stamped(e)
    BY <1>2, <1>3, <2>1 DEF Stamped
  <2>4. Counted(e)
    BY <1>2, <1>3, <2>1 DEF Counted
  <2> QED
    BY <1>3, <2>1, <2>2, <2>3, <2>4 DEF Good
<1>5. Left(e, d, Young(e, 0))
  BY <1>1, <1>4, RemoveCacheEntriesIs
<1>6. Good(d) /\ In(d) = {} /\ d.frees = tc.frees + 1
  <2>1. Young(e, 0) = {}
    BY <1>2, <1>3, <1>4 DEF Young, Stamped
  <2> QED
    BY <1>3, <1>5, <2>1 DEF Left
<1>7. d.freeInCache < max_free_space
  <2>1. d.freeInCache \in Nat /\ e.freeInCache \in Nat /\ d.freeInCache <= e.freeInCache
    BY <1>4, <1>5, LeftCounts
  <2> QED
    BY <1>3, <2>1, ThreadCacheAssumption DEF Inv
<1>8. /\ usable' = [z \in In(d) \union DOMAIN held' |-> usable'[z]]
      /\ \A z \in In(d) \union DOMAIN held' : usable'[z] = usable[z]
  BY <1>1, SettleIs
<1>9. Inv'
  <2>1. d.frees \in 0..MaxFrees
    BY <1>1, <1>2, <1>6
  <2>2. \A z \in DOMAIN held' : held'[z] \in Request /\ held'[z] <= usable'[z]
    BY <1>1, <1>8 DEF Inv
  <2>3. \A z \in In(d) \union DOMAIN held' : usable'[z] \in UsableSize /\ z \in Block
    BY <1>1, <1>6, <1>8, InvFacts
  <2> QED
    BY <1>6, <1>7, <1>8, <2>1, <2>2, <2>3 DEF Inv
<1>10. Leaving
  BY <1>6 DEF Leaving, In
<1> QED
  BY <1>9, <1>10

\* A step of the system.
LEMMA NextInv ==
    ASSUME Inv, [Next]_vars
    PROVE  Inv' /\ [Leaving]_vars
<1>1. CASE UNCHANGED vars
  BY <1>1 DEF Inv, vars
<1>2. CASE Next
  <2>1. ASSUME NEW n \in Request, MallocFromCache(n) \/ MallocFromMspace(n)
        PROVE  Inv' /\ Leaving
    BY <2>1, MallocFromCacheInv, MallocFromMspaceInv
  <2>2. ASSUME NEW b \in DOMAIN held, Free(b) PROVE Inv' /\ Leaving
    BY <2>2, FreeInv
  <2>3. ASSUME NEW b \in DOMAIN held, NEW n \in Request,
               ReallocNoop(b, n) \/ ReallocFromCache(b, n) \/ ReallocInMspace(b, n)
        PROVE  Inv' /\ Leaving
    BY <2>3, ReallocNoopInv, ReallocFromCacheInv, ReallocInMspaceInv
  <2>4. ASSUME Trim PROVE Inv' /\ Leaving
    BY <2>4, TrimInv
  <2> QED
    BY <1>2, <2>1, <2>2, <2>3, <2>4 DEF Next
<1> QED
  BY <1>1, <1>2

LEMMA SpecInv == Spec => []Inv
<1>1. Inv /\ [Next]_vars => Inv'
  BY NextInv
<1> QED
  BY InitInv, <1>1, PTL DEF Spec

\* The links of the cached blocks stay among them, their sizes are the bins', and the blocks
\* that are cached and those that are held are the ones of known size: threadcache_malloc,
\* threadcache_free and RemoveCacheEntries follow every link without a test of its target.
THEOREM TypeCorrect == Spec => []TypeOK
<1>1. ASSUME Inv PROVE TypeOK
  <2>1. tc \in Caches /\ CacheLinked(tc) /\ Stamped(tc) /\ In(tc) = cached
    BY <1>1 DEF Inv, Good, In, cached
  <2>2. /\ tc.head \in Ends /\ tc.tail \in Ends /\ tc.freeInCache \in Int
        /\ tc.blk \in [cached -> Hdr]
    BY <2>1, CacheFields
  <2>3. ASSUME NEW i \in Bin
        PROVE  tc.head[i] \in cached \union {Null} /\ tc.tail[i] \in cached \union {Null}
    BY <2>1 DEF CacheLinked, HeadIs, TailIs, InBin
  <2>4. tc.head \in [Bin -> cached \union {Null}] /\ tc.tail \in [Bin -> cached \union {Null}]
    BY <2>2, <2>3 DEF Ends
  <2>5. ASSUME NEW b \in cached PROVE tc.blk[b] \in Header
    <3>1. tc.blk[b] \in Hdr
      BY <2>2
    <3>2. tc.blk[b].next \in cached \union {Null} /\ tc.blk[b].prev \in cached \union {Null}
      BY <2>1 DEF CacheLinked, NextIs, PrevIs
    <3>3. tc.blk[b].lastUsed \in 1..MaxFrees
      <4>1. tc.blk[b].lastUsed \in 1..tc.frees /\ tc.frees \in 0..MaxFrees /\ MaxFrees \in Nat
        BY <1>1, <2>1, InvFacts DEF Stamped, Inv
      <4> QED
        BY <4>1
    <3> QED
      BY <3>1, <3>2, <3>3 DEF Hdr, Header
  <2>6. tc.blk \in [cached -> Header]
    BY <2>2, <2>5
  <2>7. tc.freeInCache \in Nat
    BY <1>1, LeftAll, LeftCounts DEF Inv
  <2>8. usable \in [cached \union DOMAIN held -> UsableSize]
    BY <1>1, <2>1 DEF Inv
  <2> QED
    BY <2>1, <2>4, <2>6, <2>7, <2>8, <1>1 DEF Inv, TypeOK
<1> QED
  BY <1>1, SpecInv, PTL

\* However blocks are taken from either end of a bin, put in front of it and moved to the
\* mspace, a walk from the youngest along next and one from the oldest along prev meet the
\* same blocks, all of that size that are cached; freeInCache is what they add up to, and no
\* client holds one.
THEOREM BinsLinkedAlways == Spec => []BinsLinked
<1>1. ASSUME Inv, TypeOK PROVE BinsLinked
  <2>1. Good(tc) /\ In(tc) = cached /\ cached \cap DOMAIN held = {}
    BY <1>1 DEF Inv, In, cached
  <2>2. FreeInCacheExact
    BY <2>1, FreeInCacheIs
  <2>3. ASSUME NEW i \in Bin
        PROVE  LET bin == {b \in cached : tc.blk[b].size = best(i)}
               IN Met(tc.head[i], "next") = bin /\ Met(tc.tail[i], "prev") = bin
    BY <2>1, MetIs DEF InBin
  <2>4. \A b \in cached : LET n == tc.blk[b].next IN n # Null => tc.blk[n].prev = b
    BY <2>1, PointsBack
  <2> QED
    BY <1>1, <2>1, <2>2, <2>3, <2>4 DEF BinsLinked
<1> QED
  BY <1>1, SpecInv, TypeCorrect, PTL

\* What nedpmalloc2 and nedprealloc2 return has room for what was asked for, though a cached
\* block counts by its bin's size and a request is raised and rounded to one.
THEOREM RequestsFit == Spec => []RequestFits
<1>1. Inv => RequestFits
  BY DEF Inv, RequestFits, cached, In
<1> QED
  BY <1>1, SpecInv, PTL

\* After every call fewer than max_free_space bytes are cached: threadcache_free, which adds
\* a block first, halves the age (ReleaseFreeInCache) until that is so, and the pass with age
\* 1 leaves at most the block just freed.
THEOREM CacheBoundedAlways == Spec => []CacheBounded
<1>1. Inv => CacheBounded
  BY DEF Inv, CacheBounded
<1> QED
  BY <1>1, SpecInv, PTL

\* What a call gives back to the mspace was freed before all that it leaves in the cache, in
\* whatever bin: RemoveCacheEntries goes by one age for all bins.
THEOREM OldestLeave == Spec => OldestLeaveFirst
<1>1. Inv /\ [Next]_vars => [Leaving]_vars
  BY NextInv
<1> QED
  BY <1>1, SpecInv, PTL DEF Spec, OldestLeaveFirst, Leaving

-----------------------------------------------------------------------------
(***************************************************************************)
(* TreesChecked, BestFit and OldestFirst (TreeBins) for every set of       *)
(* chunks, every set of large sizes, all requests and any number of bins.  *)
(*                                                                         *)
(* The argument, of which the code has only the assertions of its debug    *)
(* build:                                                                  *)
(*                                                                         *)
(*   - a bin is a range of sizes (IndexIs, BinBounds), and the bits from   *)
(*     bit_for_tree_index on tell its sizes apart (SameBin, NextBit,       *)
(*     AllBits);                                                           *)
(*   - IsTrie(n, root, dep) gives every node a depth.  A node agrees with  *)
(*     its parent in the bits above its depth; the subtree of x is then    *)
(*     all nodes of the bin that agree with x that far (Sub, SubBelow),    *)
(*     whatever the order of the operations that built it;                 *)
(*   - the loops of the code go down one level a pass, so SizeBits passes  *)
(*     are enough: the walk of an insertion (PlaceIs), that to a leaf      *)
(*     (LeafIs), the two searches (LeftmostIs, DescentIs);                 *)
(*   - a search may leave out what it does because the left subtree of a   *)
(*     node has smaller sizes than the right one (SubOrder), and the sizes *)
(*     of a bin are smaller than those of the next (BinOrder);             *)
(*   - insertion and removal change the tries in four ways (LeafAdded,     *)
(*     RootAdded, LeafRemoved, NodeReplaced) and the rings in two          *)
(*     (RingsJoined, RingsLeft);                                           *)
(*   - TreesInv, the tries and for each size the ring in the order of      *)
(*     came, is inductive, and the three properties follow from it.        *)
(***************************************************************************)

-----------------------------------------------------------------------------
(* Words. *)

\* A difference of machine words wraps around below 0.
LEMMA WordIs ==
    ASSUME NEW a \in 0..MAX_SIZE_T, NEW b \in 0..MAX_SIZE_T
    PROVE  /\ 2 ^ SizeBits \in Nat \ {0} /\ MAX_SIZE_T = 2 ^ SizeBits - 1 /\ MAX_SIZE_T \in Nat
           /\ USub(a, b) = IF a >= b THEN a - b ELSE 2 ^ SizeBits + a - b
<1>1. PICK m : m = 2 ^ SizeBits
  OBVIOUS
<1>2. m \in Nat \ {0} /\ MAX_SIZE_T = m - 1
  BY <1>1, Power, SizesAssumption DEF MAX_SIZE_T
<1>3. a \in Nat /\ b \in Nat /\ a < m /\ b < m
  BY <1>2
<1>4. CASE a >= b
  <2>1. (a - b) % m = a - b
    BY <1>2, <1>3, <1>4
  <2> QED
    BY <2>1, <1>1, <1>2, <1>4 DEF USub
<1>5. CASE a < b
  <2>1. PICK v : v = a - b
    OBVIOUS
  <2>2. v \in Int /\ v < 0 /\ v > -m
    BY <1>2, <1>3, <1>5, <2>1
  <2>3. v % m = m + v
    BY <1>2, <2>2
  <2> QED
    BY <2>1, <2>3, <1>1, <1>2, <1>3, <1>5 DEF USub
<1> QED
  BY <1>3, <1>4, <1>5

-----------------------------------------------------------------------------
(* Sizes and bins. *)

\* The sizes of large chunks.
Large == MIN_LARGE_SIZE..MAX_SIZE_T

\* Half of what the sizes of bins 2k and 2k + 1 have at least.
Step(k) == 2 ^ (k + TREEBIN_SHIFT - 1)
Half == NTREEBINS \div 2

\* s is a size of bin i.
Within(s, i) ==
    \/ i = NTREEBINS - 1 /\ 4 * Step(Half - 1) <= s
    \/ \E k \in 0..Half - 1, h \in {0, 1} :
         i = 2 * k + h /\ (2 + h) * Step(k) <= s /\ s < (3 + h) * Step(k)

\* The bins come in pairs.
LEMMA HalfIs == Half \in Nat \ {0} /\ NTREEBINS = 2 * Half
<1>1. NTREEBINS \in Nat \ {0} /\ NTREEBINS % 2 = 0
  BY SizesAssumption
<1>2. NTREEBINS = 2 * (NTREEBINS \div 2) + (NTREEBINS % 2)
  BY <1>1
<1>3. NTREEBINS \div 2 \in Nat
  BY <1>1
<1> QED
  BY <1>1, <1>2, <1>3 DEF Half

\* The steps double.
LEMMA StepIs ==
    ASSUME NEW k \in Nat
    PROVE  /\ Step(k) \in Nat \ {0}
           /\ 2 * Step(k) = 2 ^ k * 2 ^ TREEBIN_SHIFT
           /\ Step(k + 1) = 2 * Step(k)
           /\ \A j \in Nat : j < k => 2 * Step(j) <= Step(k)
<1>1. TREEBIN_SHIFT \in Nat /\ TREEBIN_SHIFT >= 2
  BY SizesAssumption
<1>2. /\ k + TREEBIN_SHIFT - 1 \in Nat /\ (k + TREEBIN_SHIFT - 1) + 1 = k + TREEBIN_SHIFT
      /\ (k + 1) + TREEBIN_SHIFT - 1 = (k + TREEBIN_SHIFT - 1) + 1
  BY <1>1
<1>3. Step(k) \in Nat \ {0} /\ 2 * Step(k) = 2 ^ (k + TREEBIN_SHIFT)
      /\ Step(k + 1) = 2 * Step(k)
  <2>1. 2 ^ ((k + TREEBIN_SHIFT - 1) + 1) = 2 * 2 ^ (k + TREEBIN_SHIFT - 1)
        /\ 2 ^ (k + TREEBIN_SHIFT - 1) \in Nat /\ 2 ^ (k + TREEBIN_SHIFT - 1) # 0
    BY <1>2, Power
  <2> QED
    BY <2>1, <1>2 DEF Step
<1>4. 2 ^ k * 2 ^ TREEBIN_SHIFT = 2 ^ (k + TREEBIN_SHIFT)
  BY <1>1, PowerSum
<1>5. ASSUME NEW j \in Nat, j < k PROVE 2 * Step(j) <= Step(k)
  <2>1. j + TREEBIN_SHIFT - 1 \in Nat /\ j + TREEBIN_SHIFT - 1 < k + TREEBIN_SHIFT - 1
    BY <1>1, <1>5
  <2> QED
    BY <1>2, <2>1, PowersGrow DEF Step
<1> QED
  BY <1>3, <1>4, <1>5

\* Large sizes are machine words of at least MIN_LARGE_SIZE.
LEMMA LargeIs ==
    ASSUME NEW s \in Large
    PROVE  /\ s \in Nat \ {0} /\ s \in 0..MAX_SIZE_T /\ s < 2 ^ SizeBits
           /\ 2 ^ TREEBIN_SHIFT <= s /\ 2 ^ TREEBIN_SHIFT \in Nat \ {0}
<1>1. 2 ^ TREEBIN_SHIFT \in Nat /\ 2 ^ TREEBIN_SHIFT # 0 /\ 2 ^ SizeBits \in Nat
  BY Power, SizesAssumption
<1> QED
  BY <1>1 DEF Large, MIN_LARGE_SIZE, MAX_SIZE_T

\* The bin of a size is the one it is within.
LEMMA IndexIs ==
    ASSUME NEW s \in Large
    PROVE  Within(s, compute_tree_index(s))
<1>1. /\ s \in Nat \ {0} /\ s < 2 ^ SizeBits
      /\ 2 ^ TREEBIN_SHIFT <= s /\ 2 ^ TREEBIN_SHIFT \in Nat \ {0}
  BY LargeIs
<1>2. PICK p : p = 2 ^ TREEBIN_SHIFT
  OBVIOUS
<1>3. PICK x : x = s \div 2 ^ TREEBIN_SHIFT
  OBVIOUS
<1>4. p \in Nat \ {0} /\ x \in Nat /\ x * p <= s /\ s < x * p + p /\ p <= s
  BY <1>1, <1>2, <1>3, Quotient
<1>5. x # 0
  <2>1. 0 * p = 0
    BY <1>4
  <2> QED
    BY <1>1, <1>4, <2>1
<1>6. Half - 1 \in Nat /\ (Half - 1) + 1 = Half /\ Half \in Nat
  BY HalfIs
<1>7. 4 * Step(Half - 1) = 2 ^ Half * p /\ 2 ^ Half \in Nat
  <2>1. Step(Half) = 2 * Step(Half - 1) /\ Step(Half - 1) \in Nat
    BY <1>6, StepIs
  <2>2. 2 * Step(Half) = 2 ^ Half * p
    BY <1>2, <1>6, StepIs
  <2> QED
    BY <1>6, <2>1, <2>2, Power
<1>8. CASE x >= 2 ^ Half
  <2>1. compute_tree_index(s) = NTREEBINS - 1
    BY <1>3, <1>5, <1>8 DEF compute_tree_index, Half
  <2>2. PICK m : m = 2 ^ Half
    OBVIOUS
  <2>3. m * p <= x * p
    BY <1>4, <1>7, <1>8, <2>2
  <2>4. m * p \in Nat /\ x * p \in Nat
    BY <1>4, <1>7, <2>2
  <2>5. m * p <= s
    BY <1>1, <1>4, <2>3, <2>4
  <2> QED
    BY <1>7, <2>1, <2>2, <2>5 DEF Within
<1>9. CASE x < 2 ^ Half
  <2> DEFINE P(n) == 2 ^ n <= s \div 2 ^ TREEBIN_SHIFT /\ s \div 2 ^ TREEBIN_SHIFT < 2 ^ (n + 1)
  <2>1. \E n \in 0..SizeBits : P(n)
    <3>1. PICK n \in Nat : 2 ^ n <= x /\ x < 2 ^ (n + 1)
      BY <1>4, <1>5, TopBit
    <3>2. x <= x * p
      BY <1>4
    <3>3. 2 ^ n \in Nat /\ 2 ^ SizeBits \in Nat /\ SizeBits \in Nat /\ x * p \in Nat
      BY <1>4, Power, SizesAssumption
    <3>4. 2 ^ n < 2 ^ SizeBits
      BY <1>1, <1>3, <1>4, <3>1, <3>2, <3>3
    <3>5. n < SizeBits
      BY <3>3, <3>4, PowersOrder
    <3> QED
      BY <1>3, <3>1, <3>3, <3>5
  <2>2. PICK k : k = CHOOSE n \in 0..SizeBits : P(n)
    OBVIOUS
  <2>3. k \in 0..SizeBits /\ P(k)
    BY <2>1, <2>2
  <2>4. k \in Nat /\ 2 ^ k \in Nat /\ 2 ^ k < 2 ^ Half
    BY <1>3, <1>4, <1>7, <1>9, <2>3, Power, SizesAssumption
  <2>5. k \in 0..Half - 1
    BY <1>6, <2>4, PowersOrder
  <2>6. PICK w : w = Step(k)
    OBVIOUS
  <2>7. w \in Nat \ {0} /\ 2 * w = 2 ^ k * p /\ 4 * w = 2 ^ (k + 1) * p
    <3>1. w \in Nat \ {0} /\ 2 * w = 2 ^ k * p
      BY <1>2, <2>4, <2>6, StepIs
    <3>2. 2 ^ (k + 1) = 2 * 2 ^ k
      BY <2>4, Power
    <3>3. PICK e : e = 2 ^ k
      OBVIOUS
    <3>4. (2 * e) * p = 2 * (e * p)
      BY <1>4, <2>4, <3>3
    <3>5. 4 * w = 2 * (2 * w)
      BY <3>1
    <3> QED
      BY <3>1, <3>2, <3>3, <3>4, <3>5
  <2>8. 2 * w <= s /\ s < 4 * w
    <3>1. PICK e, f : e = 2 ^ k /\ f = 2 ^ (k + 1)
      OBVIOUS
    <3>2. e \in Nat /\ f \in Nat /\ e <= x /\ x + 1 <= f
      BY <1>3, <1>4, <2>3, <2>4, <3>1, Power
    <3>3. e * p <= x * p /\ (x + 1) * p <= f * p /\ (x + 1) * p = x * p + p
      BY <1>4, <3>2
    <3>4. x * p \in Nat
      BY <1>4
    <3> QED
      BY <1>1, <1>4, <2>7, <3>1, <3>3, <3>4
  <2>9. PICK q : q = s \div w
    OBVIOUS
  <2>10. q \in Nat /\ q * w <= s /\ s < q * w + w
    BY <1>1, <2>7, <2>9, Quotient
  <2>11. q \in {2, 3}
    <3>1. CASE q <= 1
      <4>1. q * w <= 1 * w
        BY <2>7, <2>10, <3>1
      <4> QED
        BY <1>1, <2>7, <2>8, <2>10, <4>1
    <3>2. CASE q >= 4
      <4>1. 4 * w <= q * w
        BY <2>7, <2>10, <3>2
      <4> QED
        BY <1>1, <2>7, <2>8, <2>10, <4>1
    <3> QED
      BY <2>10, <3>1, <3>2
  <2>12. compute_tree_index(s) = 2 * k + (q % 2)
    <3>1. q = s \div 2 ^ (k + TREEBIN_SHIFT - 1)
      BY <2>6, <2>9 DEF Step
    <3>2. ~ (x >= 2 ^ Half)
      BY <1>4, <1>7, <1>9
    <3>3. compute_tree_index(s) = 2 * k + ((s \div 2 ^ (k + TREEBIN_SHIFT - 1)) % 2)
      BY ONLY <1>3, <1>5, <2>2, <3>2 DEF compute_tree_index, Half
    <3> QED
      BY <3>1, <3>3
  <2>13. PICK h \in {0, 1} : h = q % 2 /\ q = 2 + h
    BY <2>11
  <2>14. (2 + h) * w <= s /\ s < (3 + h) * w
    <3>1. q * w + w = (q + 1) * w
      BY <2>7, <2>10
    <3> QED
      BY <2>10, <2>13, <3>1
  <2> QED
    BY <2>5, <2>6, <2>12, <2>13, <2>14 DEF Within
<1> QED
  BY <1>4, <1>7, <1>8, <1>9

\* The bin of a size is a bin.
LEMMA BinIs ==
    ASSUME NEW s \in Large
    PROVE  /\ compute_tree_index(s) \in 0..NTREEBINS - 1
           /\ bit_for_tree_index(compute_tree_index(s)) \in 0..SizeBits - 1
<1> DEFINE i == compute_tree_index(s)
<1>1. Within(s, i)
  BY IndexIs
<1>2. Half \in Nat \ {0} /\ NTREEBINS = 2 * Half
  BY HalfIs
<1>3. SizeBits \in Nat \ {0} /\ TREEBIN_SHIFT \in Nat /\ TREEBIN_SHIFT >= 2
  BY SizesAssumption
<1> HIDE DEF i
<1>4. CASE i = NTREEBINS - 1
  BY <1>2, <1>3, <1>4 DEF bit_for_tree_index, i
<1>5. ASSUME NEW k \in 0..Half - 1, NEW h \in {0, 1}, i # NTREEBINS - 1,
             i = 2 * k + h, (2 + h) * Step(k) <= s
      PROVE  i \in 0..NTREEBINS - 1 /\ bit_for_tree_index(i) \in 0..SizeBits - 1
  <2>1. i \in 0..NTREEBINS - 1 /\ i \div 2 = k /\ k \in Nat
    BY <1>2, <1>5
  <2>2. bit_for_tree_index(i) = k + TREEBIN_SHIFT - 2
    BY <1>5, <2>1 DEF bit_for_tree_index
  <2>3. PICK w : w = Step(k)
    OBVIOUS
  <2>4. w \in Nat \ {0} /\ 2 * w = 2 ^ (k + TREEBIN_SHIFT)
    <3>1. w \in Nat \ {0} /\ 2 * w = 2 ^ k * 2 ^ TREEBIN_SHIFT
      BY <2>1, <2>3, StepIs
    <3> QED
      BY <1>3, <2>1, <3>1, PowerSum
  <2>5. 2 * w <= s
    <3>1. (2 + h) * w = 2 * w \/ (2 + h) * w = 3 * w
      OBVIOUS
    <3> QED
      BY <1>5, <2>3, <2>4, <3>1, LargeIs
  <2>6. 2 ^ (k + TREEBIN_SHIFT) < 2 ^ SizeBits
    <3>1. s \in Nat /\ s < 2 ^ SizeBits /\ 2 ^ SizeBits \in Nat
      BY LargeIs, Power, <1>3
    <3> QED
      BY <2>4, <2>5, <3>1
  <2>7. k + TREEBIN_SHIFT < SizeBits
    BY <1>3, <2>1, <2>6, PowersOrder
  <2> QED
    BY <1>3, <2>1, <2>2, <2>7
<1> QED
  BY <1>1, <1>4, <1>5, <1>2, <1>3 DEF Within, i

\* A larger size is in no lower bin.
LEMMA IndexOrder ==
    ASSUME NEW s \in Large, NEW u \in Large, s <= u
    PROVE  compute_tree_index(s) <= compute_tree_index(u)
<1>1. PICK i, j : i = compute_tree_index(s) /\ j = compute_tree_index(u)
  OBVIOUS
<1>2. Within(s, i) /\ Within(u, j) /\ i \in 0..NTREEBINS - 1 /\ j \in 0..NTREEBINS - 1
  BY <1>1, IndexIs, BinIs
<1>3. Half \in Nat \ {0} /\ NTREEBINS = 2 * Half
  BY HalfIs
<1> SUFFICES ASSUME j < i PROVE FALSE
  BY <1>1, <1>2
<1>4. PICK k \in 0..Half - 1, h \in {0, 1} : j = 2 * k + h /\ u < (3 + h) * Step(k)
  BY <1>2, <1>3 DEF Within
<1>5. PICK w : w = Step(k)
  OBVIOUS
<1>6. w \in Nat \ {0} /\ k \in Nat /\ s \in Nat /\ u \in Nat
  BY <1>3, <1>5, StepIs, LargeIs
<1>7. ASSUME NEW m \in 0..Half - 1, k < m PROVE 2 * w <= Step(m) /\ Step(m) \in Nat
  <2>1. m \in Nat
    BY <1>3
  <2> QED
    BY <1>5, <1>6, <1>7, <2>1, StepIs
<1>8. u < 4 * w
  BY <1>4, <1>5, <1>6
<1>9. CASE 4 * Step(Half - 1) <= s
  <2>1. w <= Step(Half - 1) /\ Step(Half - 1) \in Nat
    <3>1. CASE k = Half - 1
      BY <1>5, <1>6, <3>1
    <3>2. CASE k # Half - 1
      <4>1. Half - 1 \in 0..Half - 1 /\ k < Half - 1
        BY <1>3, <3>2
      <4>2. 2 * w <= Step(Half - 1) /\ Step(Half - 1) \in Nat
        BY <1>7, <4>1
      <4> QED
        BY <1>6, <4>2
    <3> QED
      BY <3>1, <3>2
  <2> QED
    BY <1>6, <1>8, <1>9, <2>1
<1>10. ASSUME NEW m \in 0..Half - 1, NEW g \in {0, 1},
              i = 2 * m + g, (2 + g) * Step(m) <= s
       PROVE  FALSE
  <2>1. CASE k < m
    <3>1. PICK v : v = Step(m)
      OBVIOUS
    <3>2. v \in Nat /\ 2 * w <= v
      BY <1>7, <2>1, <3>1
    <3>3. 2 * v <= (2 + g) * v
      BY <3>2
    <3> QED
      BY <1>6, <1>8, <1>10, <3>1, <3>2, <3>3
  <2>2. CASE m = k
    <3>1. h = 0 /\ g = 1
      BY <1>2, <1>4, <1>10, <2>2
    <3> QED
      BY <1>4, <1>5, <1>6, <1>10, <2>2, <3>1
  <2>3. CASE m < k
    BY <1>4, <1>10, <2>3, <1>3
  <2> QED
    BY <2>1, <2>2, <2>3, <1>3
<1> QED
  BY <1>2, <1>9, <1>10 DEF Within

\* A size lies between the least sizes of its bin and of the next.
LEMMA BinBounds ==
    ASSUME NEW s \in Large, NEW i, i = compute_tree_index(s)
    PROVE  /\ s >= minsize_for_tree_index(i)
           /\ i = NTREEBINS - 1 \/ s < minsize_for_tree_index(i + 1)
<1>1. Within(s, i) /\ i \in 0..NTREEBINS - 1 /\ s \in Nat
  BY IndexIs, BinIs, LargeIs
<1>2. Half \in Nat \ {0} /\ NTREEBINS = 2 * Half
  BY HalfIs
<1>3. TREEBIN_SHIFT \in Nat /\ TREEBIN_SHIFT >= 2
  BY SizesAssumption
<1>4. ASSUME NEW k \in Nat, NEW h \in {0, 1}
      PROVE  minsize_for_tree_index(2 * k + h) = (2 + h) * Step(k) /\ Step(k) \in Nat
  <2>1. (2 * k + h) \div 2 = k /\ (2 * k + h) % 2 = h
    OBVIOUS
  <2>2. PICK w : w = Step(k)
    OBVIOUS
  <2>3. w \in Nat /\ 2 ^ (k + TREEBIN_SHIFT) = 2 * w /\ 2 ^ (k + TREEBIN_SHIFT - 1) = w
    <3>1. w \in Nat /\ 2 * w = 2 ^ k * 2 ^ TREEBIN_SHIFT
      BY <2>2, StepIs
    <3> QED
      BY <1>3, <2>2, <3>1, PowerSum DEF Step
  <2>4. minsize_for_tree_index(2 * k + h) = 2 * w + h * w
    BY <2>1, <2>3 DEF minsize_for_tree_index
  <2>5. 2 * w + h * w = (2 + h) * w
    BY <2>3
  <2> QED
    BY <2>2, <2>3, <2>4, <2>5
<1>5. ASSUME NEW k \in 0..Half - 1, NEW h \in {0, 1},
             i = 2 * k + h, (2 + h) * Step(k) <= s, s < (3 + h) * Step(k)
      PROVE  s >= minsize_for_tree_index(i) /\ s < minsize_for_tree_index(i + 1)
  <2>1. k \in Nat /\ k + 1 \in Nat
    BY <1>2
  <2>2. minsize_for_tree_index(i) = (2 + h) * Step(k)
    BY <1>4, <1>5, <2>1
  <2>3. CASE h = 0
    <3>1. i + 1 = 2 * k + 1
      BY <1>5, <2>1, <2>3
    <3>2. minsize_for_tree_index(i + 1) = 3 * Step(k)
      BY <1>4, <2>1, <3>1
    <3> QED
      BY <1>1, <1>5, <2>2, <2>3, <3>2
  <2>4. CASE h = 1
    <3>1. i + 1 = 2 * (k + 1) + 0
      BY <1>5, <2>1, <2>4
    <3>2. minsize_for_tree_index(i + 1) = 2 * Step(k + 1) /\ Step(k) \in Nat
      BY <1>4, <2>1, <3>1
    <3>3. Step(k + 1) = 2 * Step(k)
      BY <2>1, StepIs
    <3>4. minsize_for_tree_index(i + 1) = 4 * Step(k)
      BY <3>2, <3>3
    <3> QED
      BY <1>1, <1>5, <2>2, <2>4, <3>4
  <2> QED
    BY <2>3, <2>4
<1>6. CASE i = NTREEBINS - 1 /\ 4 * Step(Half - 1) <= s
  <2>1. Half - 1 \in Nat /\ i = 2 * (Half - 1) + 1
    BY <1>2, <1>6
  <2>2. minsize_for_tree_index(i) = 3 * Step(Half - 1) /\ Step(Half - 1) \in Nat
    BY <1>4, <2>1
  <2> QED
    BY <1>1, <1>6, <2>2
<1> QED
  BY <1>1, <1>5, <1>6 DEF Within

-----------------------------------------------------------------------------
(* The bits of a size, from the one that decides at the root of bin i on. *)

\* How many bits decide in bin i.
Bits(i) == bit_for_tree_index(i) + 1
\* What d decisions leave of s, and the next decision.
Pre(s, i, d) == s \div 2 ^ (Bits(i) - d)
Way(s, i, d) == SizeBit(s, bit_for_tree_index(i) - d)

\* Sizes of one bin agree above these bits.
LEMMA SameBin ==
    ASSUME NEW s \in Large, NEW u \in Large, NEW i,
           i = compute_tree_index(s), i = compute_tree_index(u)
    PROVE  Pre(s, i, 0) = Pre(u, i, 0)
<1>1. Within(s, i) /\ Within(u, i) /\ i \in 0..NTREEBINS - 1
  BY IndexIs, BinIs
<1>2. Half \in Nat \ {0} /\ NTREEBINS = 2 * Half
  BY HalfIs
<1>3. SizeBits \in Nat \ {0} /\ TREEBIN_SHIFT \in Nat /\ TREEBIN_SHIFT >= 2
  BY SizesAssumption
<1>4. CASE i = NTREEBINS - 1
  <2>1. Bits(i) - 0 = SizeBits
    BY <1>3, <1>4 DEF Bits, bit_for_tree_index
  <2>2. ASSUME NEW a \in Large PROVE a \div 2 ^ SizeBits = 0
    <3>1. PICK m : m = 2 ^ SizeBits
      OBVIOUS
    <3>2. a \in Nat /\ m \in Nat \ {0} /\ a < m
      BY <1>3, <3>1, LargeIs, Power
    <3>3. 0 * m = 0
      BY <3>2
    <3> QED
      BY <3>1, <3>2, <3>3, QuotientIs
  <2> QED
    BY <2>1, <2>2 DEF Pre
<1>5. CASE i # NTREEBINS - 1
  <2>1. ASSUME NEW a \in Large, Within(a, i)
        PROVE  a \div 2 ^ Bits(i) = 2 + (i % 2)
    <3>1. PICK k \in 0..Half - 1, h \in {0, 1} :
            i = 2 * k + h /\ (2 + h) * Step(k) <= a /\ a < (3 + h) * Step(k)
      BY <1>5, <2>1 DEF Within
    <3>2. i \div 2 = k /\ i % 2 = h /\ k \in Nat
      BY <1>2, <3>1
    <3>3. Bits(i) = k + TREEBIN_SHIFT - 1
      BY <1>3, <1>5, <3>2 DEF Bits, bit_for_tree_index
    <3>4. PICK w : w = Step(k)
      OBVIOUS
    <3>5. w \in Nat \ {0} /\ a \in Nat
      BY <3>2, <3>4, StepIs, LargeIs
    <3>6. (3 + h) * w = (2 + h) * w + w /\ 2 + h \in Nat
      BY <3>5
    <3>7. a \div w = 2 + h
      BY <3>1, <3>4, <3>5, <3>6, QuotientIs
    <3> QED
      BY <3>2, <3>3, <3>4, <3>7 DEF Step
  <2>2. Bits(i) - 0 = Bits(i)
    BY <1>1, <1>2, <1>3, <1>5 DEF Bits, bit_for_tree_index
  <2> QED
    BY <1>1, <2>1, <2>2 DEF Pre
<1> QED
  BY <1>4, <1>5

\* Each decision adds a bit.
LEMMA NextBit ==
    ASSUME NEW s \in Nat, NEW i, bit_for_tree_index(i) \in Nat, NEW d \in 0..bit_for_tree_index(i)
    PROVE  /\ Pre(s, i, d) \in Nat /\ Pre(s, i, d + 1) \in Nat
           /\ Pre(s, i, d + 1) = 2 * Pre(s, i, d) + Way(s, i, d)
           /\ Way(s, i, d) \in {0, 1}
<1>1. PICK b : b = bit_for_tree_index(i) - d
  OBVIOUS
<1>2. /\ b \in Nat /\ bit_for_tree_index(i) - d = b
      /\ Bits(i) - d = b + 1 /\ Bits(i) - (d + 1) = b
  BY <1>1 DEF Bits
<1>3. PICK p : p = 2 ^ b
  OBVIOUS
<1>4. p \in Nat \ {0} /\ 2 ^ (b + 1) = 2 * p
  <2>1. 2 ^ b \in Nat /\ b < 2 ^ b /\ 2 ^ (b + 1) = 2 * 2 ^ b
    BY <1>2, Power
  <2> QED
    BY <1>2, <1>3, <2>1
<1>5. Pre(s, i, d) = s \div (2 * p) /\ Pre(s, i, d + 1) = s \div p
  BY <1>2, <1>3, <1>4 DEF Pre
<1>6. Way(s, i, d) = (s \div p) % 2
  <2>1. ~ (b < 0)
    BY <1>2
  <2> QED
    BY <1>2, <1>3, <2>1 DEF Way, SizeBit
<1>7. s \div p \in Nat /\ s \div (2 * p) \in Nat
  <2>1. 2 * p \in Nat \ {0}
    BY <1>4
  <2> QED
    BY <1>4, <2>1, Quotient
<1> QED
  BY <1>4, <1>5, <1>6, <1>7, QuotientHalved

\* All the decisions are the size.
LEMMA AllBits ==
    ASSUME NEW s \in Nat, NEW i, bit_for_tree_index(i) \in Nat
    PROVE  Pre(s, i, Bits(i)) = s
<1>1. Bits(i) - Bits(i) = 0 /\ 2 ^ 0 = 1
  BY Power DEF Bits
<1>2. s \div 1 = s
  <2>1. s * 1 <= s /\ s < s * 1 + 1
    OBVIOUS
  <2> QED
    BY <2>1, QuotientIs
<1> QED
  BY <1>1, <1>2 DEF Pre

\* Sizes are in the order of what decides.
LEMMA BitOrder ==
    ASSUME NEW s \in Nat, NEW u \in Nat, NEW i, bit_for_tree_index(i) \in Nat,
           NEW d \in 0..Bits(i), Pre(s, i, d) < Pre(u, i, d)
    PROVE  s < u
<1>1. Bits(i) - d \in Nat
  BY DEF Bits
<1>2. 2 ^ (Bits(i) - d) \in Nat \ {0}
  <2>1. \A n \in Nat : 2 ^ n \in Nat /\ n < 2 ^ n
    BY Power
  <2>2. PICK n \in Nat : n = Bits(i) - d
    BY <1>1
  <2> QED
    BY <2>1, <2>2
<1> QED
  BY <1>2, QuotientOrder DEF Pre

\* What agrees after more decisions agreed after fewer.
LEMMA FewerBits ==
    ASSUME NEW s \in Nat, NEW u \in Nat, NEW i, bit_for_tree_index(i) \in Nat,
           NEW d \in 0..bit_for_tree_index(i), Pre(s, i, d + 1) = Pre(u, i, d + 1)
    PROVE  Pre(s, i, d) = Pre(u, i, d) /\ Way(s, i, d) = Way(u, i, d)
<1>1. /\ Pre(s, i, d + 1) = 2 * Pre(s, i, d) + Way(s, i, d)
      /\ Pre(s, i, d) \in Nat /\ Way(s, i, d) \in {0, 1}
  BY NextBit
<1>2. /\ Pre(u, i, d + 1) = 2 * Pre(u, i, d) + Way(u, i, d)
      /\ Pre(u, i, d) \in Nat /\ Way(u, i, d) \in {0, 1}
  BY NextBit
<1>3. PICK p, q, v, w : p = Pre(s, i, d) /\ q = Pre(u, i, d) /\ v = Way(s, i, d) /\ w = Way(u, i, d)
  OBVIOUS
<1>4. 2 * p + v = 2 * q + w /\ p \in Nat /\ q \in Nat /\ v \in {0, 1} /\ w \in {0, 1}
  BY <1>1, <1>2, <1>3
<1>5. p = q /\ v = w
  BY <1>4
<1> QED
  BY <1>3, <1>5

\* Sizes that agree up to a depth agree above it.
LEMMA AgreeBelow ==
    ASSUME NEW s \in Nat, NEW u \in Nat, NEW i, bit_for_tree_index(i) \in Nat,
           NEW d \in 0..Bits(i), Pre(s, i, d) = Pre(u, i, d)
    PROVE  \A e \in 0..d : Pre(s, i, e) = Pre(u, i, e)
<1> DEFINE S == {n \in 0..d : Pre(s, i, d - n) = Pre(u, i, d - n)}
<1>1. d \in Nat /\ Bits(i) = bit_for_tree_index(i) + 1
  BY DEF Bits
<1>2. 0 \in S
  <2>1. d - 0 = d
    BY <1>1
  <2> QED
    BY <1>1, <2>1
<1>3. ASSUME NEW n \in 0..d, n < d, n \in S PROVE n + 1 \in S
  <2>1. PICK e : e = d - (n + 1)
    OBVIOUS
  <2>2. e \in 0..bit_for_tree_index(i) /\ d - n = e + 1 /\ n + 1 \in 0..d
    BY <1>1, <1>3, <2>1
  <2>3. Pre(s, i, e + 1) = Pre(u, i, e + 1)
    BY <1>3, <2>2
  <2>4. Pre(s, i, e) = Pre(u, i, e)
    BY <2>2, <2>3, FewerBits
  <2> QED
    BY <2>1, <2>2, <2>4
<1> HIDE DEF S
<1>4. \A n \in 0..d : n \in S
  BY <1>1, <1>2, <1>3, Climb
<1> SUFFICES ASSUME NEW e \in 0..d PROVE Pre(s, i, e) = Pre(u, i, e)
  OBVIOUS
<1>5. d - e \in 0..d /\ d - (d - e) = e
  BY <1>1
<1> QED
  BY <1>4, <1>5 DEF S

-----------------------------------------------------------------------------
(* Tries. *)

\* Bins, and records of the chunks of F.
TreeBin == 0..NTREEBINS - 1
Node(F) == [size : Size, index : TreeBin, parent : F \cup {NULL, BIN},
            child : [{0, 1} -> F \cup {NULL}], fd : F, bk : F]

\* The nodes of the tries: the oldest chunk of each size.
Heads(n) == {x \in DOMAIN n : n[x].parent # NULL}

\* Where x hangs, at depth dep[x]: below a node it agrees with up to there.
Hangs(n, root, dep, x) ==
    LET i == n[x].index
        p == n[x].parent
    IN  IF p = BIN THEN root[i] = x /\ dep[x] = 0
        ELSE /\ p \in Heads(n) /\ n[p].index = i /\ dep[x] = dep[p] + 1
             /\ Pre(n[x].size, i, dep[p]) = Pre(n[p].size, i, dep[p])
             /\ n[p].child[Way(n[x].size, i, dep[p])] = x
\* What hangs below x.
Holds(n, dep, x) ==
    \A c \in {0, 1} : LET y == n[x].child[c] IN
      y # NULL => y \in Heads(n) /\ n[y].parent = x /\ Way(n[y].size, n[x].index, dep[x]) = c

IsTrie(n, root, dep) ==
    /\ dep \in [Heads(n) -> Nat]
    /\ \A x \in Heads(n) : /\ n[x].index = compute_tree_index(n[x].size)
                           /\ dep[x] <= Bits(n[x].index)
                           /\ Hangs(n, root, dep, x) /\ Holds(n, dep, x)
    /\ \A i \in TreeBin : root[i] # NULL =>
         root[i] \in Heads(n) /\ n[root[i]].parent = BIN /\ n[root[i]].index = i
    /\ \A x, y \in Heads(n) : n[x].size = n[y].size => x = y

\* The subtree of x.
Sub(n, dep, x) ==
    {y \in Heads(n) : /\ n[y].index = n[x].index /\ dep[x] <= dep[y]
                      /\ Pre(n[y].size, n[x].index, dep[x]) = Pre(n[x].size, n[x].index, dep[x])}

\* What is known of a node.
LEMMA TreeHeadIs ==
    ASSUME NEW F \in SUBSET Chunk, NEW n \in [F -> Node(F)], NEW root, NEW dep,
           IsTrie(n, root, dep), NEW x \in Heads(n)
    PROVE  /\ x \in F /\ x # NULL /\ x # BIN
           /\ n[x] \in Node(F) /\ n[x].size \in Large /\ n[x].size \in Nat
           /\ n[x].index = compute_tree_index(n[x].size) /\ n[x].index \in TreeBin
           /\ bit_for_tree_index(n[x].index) \in 0..SizeBits - 1
           /\ bit_for_tree_index(n[x].index) \in Nat
           /\ dep[x] \in 0..Bits(n[x].index)
           /\ Hangs(n, root, dep, x) /\ Holds(n, dep, x)
<1>1. x \in F /\ n[x] \in Node(F)
  BY DEF Heads
<1>2. x # NULL /\ x # BIN
  BY <1>1, TreeBinsAssumption
<1>3. n[x].size \in Large
  BY <1>1, TreeBinsAssumption DEF Node, Large
<1>4. /\ n[x].index = compute_tree_index(n[x].size) /\ dep[x] <= Bits(n[x].index)
      /\ Hangs(n, root, dep, x) /\ Holds(n, dep, x) /\ dep[x] \in Nat
  BY DEF IsTrie
<1>5. n[x].size \in Nat /\ n[x].index \in TreeBin
      /\ bit_for_tree_index(n[x].index) \in 0..SizeBits - 1
  BY <1>3, <1>4, LargeIs, BinIs DEF TreeBin
<1>6. bit_for_tree_index(n[x].index) \in Nat
  BY <1>5
<1>7. dep[x] \in 0..Bits(n[x].index)
  BY <1>4, <1>6 DEF Bits
<1> QED
  BY <1>1, <1>2, <1>3, <1>4, <1>5, <1>6, <1>7

\* A node that is not a root.
LEMMA ParentIs ==
    ASSUME NEW F \in SUBSET Chunk, NEW n \in [F -> Node(F)], NEW root, NEW dep,
           IsTrie(n, root, dep), NEW x \in Heads(n), dep[x] # 0
    PROVE  LET p == n[x].parent IN
           /\ p \in Heads(n) /\ n[p].index = n[x].index /\ dep[x] = dep[p] + 1
           /\ dep[p] \in 0..bit_for_tree_index(n[x].index)
           /\ Pre(n[x].size, n[x].index, dep[p]) = Pre(n[p].size, n[x].index, dep[p])
           /\ n[p].child[Way(n[x].size, n[x].index, dep[p])] = x
<1>1. Hangs(n, root, dep, x) /\ dep[x] \in 0..Bits(n[x].index)
      /\ bit_for_tree_index(n[x].index) \in Nat
  BY TreeHeadIs
<1>2. n[x].parent \in Heads(n) /\ dep[x] = dep[n[x].parent] + 1
  BY <1>1 DEF Hangs
<1>3. dep[n[x].parent] \in Nat
  BY <1>2 DEF IsTrie
<1>4. dep[n[x].parent] \in 0..bit_for_tree_index(n[x].index)
  BY <1>1, <1>2, <1>3 DEF Bits
<1> QED
  BY <1>1, <1>2, <1>4 DEF Hangs

\* The way from a root to x meets a node at each depth, which agrees with x so far.
LEMMA Ancestor ==
    ASSUME NEW F \in SUBSET Chunk, NEW n \in [F -> Node(F)], NEW root, NEW dep,
           IsTrie(n, root, dep), NEW x \in Heads(n), NEW d \in 0..dep[x]
    PROVE  \E z \in Heads(n) : /\ n[z].index = n[x].index /\ dep[z] = d
                               /\ Pre(n[z].size, n[x].index, d) = Pre(n[x].size, n[x].index, d)
<1>1. /\ dep[x] \in Nat /\ dep[x] \in 0..Bits(n[x].index)
      /\ bit_for_tree_index(n[x].index) \in Nat /\ n[x].size \in Nat
  BY TreeHeadIs
<1> DEFINE i == n[x].index
           Reached(e) == \E z \in Heads(n) : /\ n[z].index = i /\ dep[z] = e
                                         /\ Pre(n[z].size, i, e) = Pre(n[x].size, i, e)
           S == {k \in 0..dep[x] : Reached(dep[x] - k)}
<1>2. 0 \in S
  <2>1. dep[x] - 0 = dep[x]
    BY <1>1
  <2> QED
    BY <1>1, <2>1
<1>3. ASSUME NEW k \in 0..dep[x], k < dep[x], k \in S PROVE k + 1 \in S
  <2>1. PICK e : e = dep[x] - (k + 1)
    OBVIOUS
  <2>2. e \in Nat /\ dep[x] - k = e + 1 /\ k + 1 \in 0..dep[x] /\ e \in 0..bit_for_tree_index(i)
    BY <1>1, <1>3, <2>1 DEF Bits
  <2>3. PICK z \in Heads(n) : /\ n[z].index = i /\ dep[z] = e + 1
                              /\ Pre(n[z].size, i, e + 1) = Pre(n[x].size, i, e + 1)
    BY <1>3, <2>2
  <2>4. PICK p : p = n[z].parent
    OBVIOUS
  <2>5. /\ p \in Heads(n) /\ n[p].index = i /\ dep[p] = e
        /\ Pre(n[z].size, i, e) = Pre(n[p].size, i, e)
    <3>1. dep[z] # 0
      BY <2>2, <2>3
    <3>2. /\ p \in Heads(n) /\ n[p].index = i /\ dep[z] = dep[p] + 1 /\ dep[p] \in Nat
          /\ Pre(n[z].size, i, dep[p]) = Pre(n[p].size, i, dep[p])
      BY <2>3, <2>4, <3>1, ParentIs
    <3>3. dep[p] = e
      BY <2>2, <2>3, <3>2
    <3> QED
      BY <3>2, <3>3
  <2>6. Pre(n[z].size, i, e) = Pre(n[x].size, i, e)
    <3>1. n[z].size \in Nat
      BY TreeHeadIs
    <3> QED
      BY <1>1, <2>2, <2>3, <3>1, FewerBits
  <2>7. Reached(e)
    BY <2>5, <2>6
  <2> QED
    BY <2>1, <2>2, <2>7
<1> HIDE DEF S
<1>4. \A k \in 0..dep[x] : k \in S
  BY <1>1, <1>2, <1>3, Climb
<1>5. dep[x] - d \in 0..dep[x] /\ dep[x] - (dep[x] - d) = d
  BY <1>1
<1>6. Reached(d)
  BY <1>4, <1>5 DEF S
<1> QED
  BY <1>6

\* There is only one such node.
LEMMA Unique ==
    ASSUME NEW F \in SUBSET Chunk, NEW n \in [F -> Node(F)], NEW root, NEW dep,
           IsTrie(n, root, dep), NEW x \in Heads(n), NEW y \in Heads(n),
           n[x].index = n[y].index, dep[x] = dep[y],
           Pre(n[x].size, n[x].index, dep[x]) = Pre(n[y].size, n[x].index, dep[x])
    PROVE  x = y
<1> DEFINE Same(u, v, d) == /\ n[u].index = n[v].index /\ dep[u] = d /\ dep[v] = d
                            /\ Pre(n[u].size, n[u].index, d) = Pre(n[v].size, n[u].index, d)
           S == {d \in 0..dep[x] : \A u, v \in Heads(n) : Same(u, v, d) => u = v}
<1>1. dep[x] \in Nat
  BY TreeHeadIs
<1>2. 0 \in S
  <2>1. ASSUME NEW u \in Heads(n), NEW v \in Heads(n), Same(u, v, 0) PROVE u = v
    <3>1. ASSUME NEW w \in Heads(n), dep[w] = 0 PROVE root[n[w].index] = w
      <4>1. Hangs(n, root, dep, w)
        BY TreeHeadIs
      <4>2. CASE n[w].parent = BIN
        BY <4>1, <4>2 DEF Hangs
      <4>3. CASE n[w].parent # BIN
        <5>1. n[w].parent \in Heads(n) /\ dep[w] = dep[n[w].parent] + 1
          BY <4>1, <4>3 DEF Hangs
        <5>2. dep[n[w].parent] \in Nat
          BY <5>1 DEF IsTrie
        <5> QED
          BY <3>1, <5>1, <5>2
      <4> QED
        BY <4>2, <4>3
    <3> QED
      BY <2>1, <3>1
  <2> QED
    BY <1>1, <2>1
<1>3. ASSUME NEW d \in 0..dep[x], d < dep[x], d \in S PROVE d + 1 \in S
  <2>1. ASSUME NEW u \in Heads(n), NEW v \in Heads(n), Same(u, v, d + 1) PROVE u = v
    <3>1. d \in Nat /\ dep[u] # 0 /\ dep[v] # 0
      BY <1>1, <2>1
    <3>2. PICK i, p, q : i = n[u].index /\ p = n[u].parent /\ q = n[v].parent
      OBVIOUS
    <3>3. /\ p \in Heads(n) /\ n[p].index = i /\ dep[u] = dep[p] + 1
          /\ dep[p] \in 0..bit_for_tree_index(i)
          /\ Pre(n[u].size, i, dep[p]) = Pre(n[p].size, i, dep[p])
          /\ n[p].child[Way(n[u].size, i, dep[p])] = u
      BY <3>1, <3>2, ParentIs
    <3>4. /\ q \in Heads(n) /\ n[q].index = i /\ dep[v] = dep[q] + 1
          /\ dep[q] \in 0..bit_for_tree_index(i)
          /\ Pre(n[v].size, i, dep[q]) = Pre(n[q].size, i, dep[q])
          /\ n[q].child[Way(n[v].size, i, dep[q])] = v
      BY <2>1, <3>1, <3>2, ParentIs
    <3>5. dep[p] = d /\ dep[q] = d
      <4>1. dep[p] \in Nat /\ dep[q] \in Nat
        BY <3>3, <3>4 DEF IsTrie
      <4> QED
        BY <2>1, <3>1, <3>3, <3>4, <4>1
    <3>6. Pre(n[u].size, i, d) = Pre(n[v].size, i, d) /\ Way(n[u].size, i, d) = Way(n[v].size, i, d)
      <4>1. /\ n[u].size \in Nat /\ n[v].size \in Nat /\ bit_for_tree_index(i) \in Nat
        BY <3>2, TreeHeadIs
      <4>2. d \in 0..bit_for_tree_index(i)
        BY <3>3, <3>5
      <4> QED
        BY <2>1, <3>2, <4>1, <4>2, FewerBits
    <3>7. p = q
      <4>1. Same(p, q, d)
        BY <3>3, <3>4, <3>5, <3>6
      <4> QED
        BY <1>3, <3>3, <3>4, <4>1
    <3> QED
      BY <3>3, <3>4, <3>5, <3>6, <3>7
  <2> QED
    BY <1>1, <1>3, <2>1
<1> HIDE DEF S
<1>4. dep[x] \in S
  BY <1>1, <1>2, <1>3, Climb
<1> QED
  BY <1>4 DEF S

\* A node is in its own subtree.
LEMMA SubSelf ==
    ASSUME NEW F \in SUBSET Chunk, NEW n \in [F -> Node(F)], NEW root, NEW dep,
           IsTrie(n, root, dep), NEW x \in Heads(n)
    PROVE  x \in Sub(n, dep, x)
<1>1. dep[x] \in Nat
  BY TreeHeadIs
<1> QED
  BY <1>1 DEF Sub

\* A child and what is below it.
LEMMA SubChild ==
    ASSUME NEW F \in SUBSET Chunk, NEW n \in [F -> Node(F)], NEW root, NEW dep,
           IsTrie(n, root, dep), NEW x \in Heads(n), NEW c \in {0, 1}, n[x].child[c] # NULL
    PROVE  LET z == n[x].child[c]
               i == n[x].index
           IN  /\ z \in Heads(n) /\ n[z].index = i /\ n[z].parent = x /\ dep[z] = dep[x] + 1
               /\ dep[x] \in 0..bit_for_tree_index(i)
               /\ Way(n[z].size, i, dep[x]) = c
               /\ Sub(n, dep, z) \subseteq Sub(n, dep, x)
               /\ \A y \in Sub(n, dep, z) : Way(n[y].size, i, dep[x]) = c
<1>1. PICK z, i, d : z = n[x].child[c] /\ i = n[x].index /\ d = dep[x]
  OBVIOUS
<1>2. /\ x # BIN /\ n[x].size \in Nat /\ d \in 0..Bits(i) /\ bit_for_tree_index(i) \in Nat
      /\ Holds(n, dep, x)
  BY <1>1, TreeHeadIs
<1>3. z \in Heads(n) /\ n[z].parent = x /\ Way(n[z].size, i, d) = c
  BY <1>1, <1>2 DEF Holds
<1>4. Hangs(n, root, dep, z) /\ dep[z] \in 0..Bits(n[z].index) /\ n[z].size \in Nat
  BY <1>3, TreeHeadIs
<1>5. n[z].index = i /\ dep[z] = d + 1 /\ Pre(n[z].size, i, d) = Pre(n[x].size, i, d)
  BY <1>1, <1>2, <1>3, <1>4 DEF Hangs
<1>6. d \in 0..bit_for_tree_index(i)
  BY <1>2, <1>4, <1>5 DEF Bits
<1>7. ASSUME NEW y \in Sub(n, dep, z)
      PROVE  y \in Sub(n, dep, x) /\ Way(n[y].size, i, d) = c
  <2>1. /\ y \in Heads(n) /\ n[y].index = i /\ d + 1 <= dep[y]
        /\ Pre(n[y].size, i, d + 1) = Pre(n[z].size, i, d + 1)
    BY <1>5 DEF Sub
  <2>2. n[y].size \in Nat /\ dep[y] \in Nat /\ d \in Nat
    BY <1>2, <2>1, TreeHeadIs
  <2>3. Pre(n[y].size, i, d) = Pre(n[z].size, i, d) /\ Way(n[y].size, i, d) = Way(n[z].size, i, d)
    BY <1>2, <1>4, <1>6, <2>1, <2>2, FewerBits
  <2>4. d <= dep[y]
    BY <2>1, <2>2
  <2> QED
    BY <1>1, <1>3, <1>5, <2>1, <2>3, <2>4 DEF Sub
<1> QED
  BY <1>1, <1>3, <1>5, <1>6, <1>7

\* What is below x is below the child its size names.
LEMMA SubBelow ==
    ASSUME NEW F \in SUBSET Chunk, NEW n \in [F -> Node(F)], NEW root, NEW dep,
           IsTrie(n, root, dep), NEW x \in Heads(n), NEW y \in Sub(n, dep, x), y # x
    PROVE  LET i == n[x].index
               c == Way(n[y].size, i, dep[x])
           IN  /\ c \in {0, 1} /\ dep[x] \in 0..bit_for_tree_index(i)
               /\ n[x].child[c] # NULL /\ y \in Sub(n, dep, n[x].child[c])
<1>1. PICK i, d : i = n[x].index /\ d = dep[x]
  OBVIOUS
<1>2. /\ d \in 0..Bits(i) /\ bit_for_tree_index(i) \in Nat /\ d \in Nat
  BY <1>1, TreeHeadIs
<1>3. /\ y \in Heads(n) /\ n[y].index = i /\ d <= dep[y]
      /\ Pre(n[y].size, i, d) = Pre(n[x].size, i, d)
  BY <1>1 DEF Sub
<1>4. dep[y] \in 0..Bits(i) /\ n[y].size \in Nat /\ dep[y] \in Nat
  BY <1>3, TreeHeadIs
<1>5. d < dep[y]
  <2>1. CASE dep[y] = d
    BY <1>1, <1>3, <2>1, Unique
  <2> QED
    BY <1>2, <1>3, <1>4, <2>1
<1>6. d \in 0..bit_for_tree_index(i) /\ d + 1 \in 0..dep[y]
  BY <1>2, <1>4, <1>5 DEF Bits
<1>7. PICK z \in Heads(n) : /\ n[z].index = i /\ dep[z] = d + 1
                            /\ Pre(n[z].size, i, d + 1) = Pre(n[y].size, i, d + 1)
  BY <1>3, <1>6, Ancestor
<1>8. n[z].size \in Nat /\ dep[z] # 0
  BY <1>2, <1>7, TreeHeadIs
<1>9. /\ Pre(n[z].size, i, d) = Pre(n[y].size, i, d)
      /\ Way(n[z].size, i, d) = Way(n[y].size, i, d)
  BY <1>2, <1>4, <1>6, <1>7, <1>8, FewerBits
<1>10. PICK p : p = n[z].parent
  OBVIOUS
<1>11. /\ p \in Heads(n) /\ n[p].index = i /\ dep[z] = dep[p] + 1 /\ dep[p] \in Nat
       /\ Pre(n[z].size, i, dep[p]) = Pre(n[p].size, i, dep[p])
       /\ n[p].child[Way(n[z].size, i, dep[p])] = z
  BY <1>7, <1>8, <1>10, ParentIs
<1>12. dep[p] = d
  BY <1>2, <1>7, <1>11
<1>13. p = x
  <2>1. Pre(n[p].size, i, d) = Pre(n[x].size, i, d)
    BY <1>3, <1>9, <1>11, <1>12
  <2> QED
    BY <1>1, <1>11, <1>12, <2>1, Unique
<1>14. n[x].child[Way(n[y].size, i, d)] = z /\ z # NULL
  BY <1>9, <1>11, <1>12, <1>13, <1>7, TreeHeadIs
<1>15. y \in Sub(n, dep, z)
  <2>1. d + 1 <= dep[y]
    BY <1>2, <1>4, <1>5
  <2> QED
    BY <1>3, <1>7, <2>1 DEF Sub
<1>16. Way(n[y].size, i, d) \in {0, 1}
  BY <1>2, <1>4, <1>6, NextBit
<1> QED
  BY <1>1, <1>6, <1>14, <1>15, <1>16

\* A bin's root is above all its nodes.
LEMMA SubRoot ==
    ASSUME NEW F \in SUBSET Chunk, NEW n \in [F -> Node(F)], NEW root, NEW dep,
           IsTrie(n, root, dep), NEW x \in Heads(n)
    PROVE  LET r == root[n[x].index] IN
           r # NULL /\ r \in Heads(n) /\ dep[r] = 0 /\ x \in Sub(n, dep, r)
<1>1. PICK i : i = n[x].index
  OBVIOUS
<1>2. dep[x] \in Nat /\ i \in TreeBin /\ 0 \in 0..dep[x]
  BY <1>1, TreeHeadIs
<1>3. PICK z \in Heads(n) : /\ n[z].index = i /\ dep[z] = 0
                            /\ Pre(n[z].size, i, 0) = Pre(n[x].size, i, 0)
  BY <1>1, <1>2, Ancestor
<1>4. Hangs(n, root, dep, z) /\ z # NULL
  BY TreeHeadIs
<1>5. n[z].parent = BIN
  <2> SUFFICES ASSUME n[z].parent # BIN PROVE FALSE
    OBVIOUS
  <2>1. n[z].parent \in Heads(n) /\ dep[z] = dep[n[z].parent] + 1
    BY <1>4 DEF Hangs
  <2>2. dep[n[z].parent] \in Nat
    BY <2>1 DEF IsTrie
  <2> QED
    BY <1>3, <2>1, <2>2
<1>6. root[i] = z
  BY <1>3, <1>4, <1>5 DEF Hangs
<1>7. x \in Sub(n, dep, z)
  BY <1>1, <1>2, <1>3 DEF Sub
<1> QED
  BY <1>1, <1>3, <1>4, <1>6, <1>7

\* The root of a bin that has one.
LEMMA RootIs ==
    ASSUME NEW F \in SUBSET Chunk, NEW n \in [F -> Node(F)], NEW root, NEW dep,
           IsTrie(n, root, dep), NEW i \in TreeBin, root[i] # NULL
    PROVE  /\ root[i] \in Heads(n) /\ n[root[i]].index = i /\ n[root[i]].parent = BIN
           /\ dep[root[i]] = 0
<1>1. root[i] \in Heads(n) /\ n[root[i]].index = i /\ n[root[i]].parent = BIN
  BY DEF IsTrie
<1>2. Hangs(n, root, dep, root[i])
  BY <1>1, TreeHeadIs
<1> QED
  BY <1>1, <1>2 DEF Hangs

\* What is below the left child is smaller than what is below the right one.
LEMMA SubOrder ==
    ASSUME NEW F \in SUBSET Chunk, NEW n \in [F -> Node(F)], NEW root, NEW dep,
           IsTrie(n, root, dep), NEW x \in Heads(n),
           NEW y \in Sub(n, dep, x), NEW z \in Sub(n, dep, x), y # x, z # x,
           Way(n[y].size, n[x].index, dep[x]) = 0, Way(n[z].size, n[x].index, dep[x]) = 1
    PROVE  n[y].size < n[z].size
<1>1. PICK i, d : i = n[x].index /\ d = dep[x]
  OBVIOUS
<1>2. d \in 0..bit_for_tree_index(i) /\ bit_for_tree_index(i) \in Nat
  BY <1>1, SubBelow, TreeHeadIs
<1>3. n[y].size \in Nat /\ n[z].size \in Nat
  <2>1. y \in Heads(n) /\ z \in Heads(n)
    BY DEF Sub
  <2> QED
    BY <2>1, TreeHeadIs
<1>4. Pre(n[y].size, i, d) = Pre(n[z].size, i, d)
  BY <1>1 DEF Sub
<1>5. Pre(n[y].size, i, d + 1) = 2 * Pre(n[y].size, i, d) + 0 /\ Pre(n[y].size, i, d) \in Nat
  BY <1>1, <1>2, <1>3, NextBit
<1>6. Pre(n[z].size, i, d + 1) = 2 * Pre(n[z].size, i, d) + 1
  BY <1>1, <1>2, <1>3, NextBit
<1>7. Pre(n[y].size, i, d + 1) < Pre(n[z].size, i, d + 1)
  BY <1>4, <1>5, <1>6
<1>8. d + 1 \in 0..Bits(i)
  BY <1>2 DEF Bits
<1> QED
  BY <1>2, <1>3, <1>7, <1>8, BitOrder

-----------------------------------------------------------------------------
(* The walk of an insertion. *)

\* Where the walk for s has come to: all that is of size s is below.
OnWay(n, dep, s, i, w) ==
    /\ w.node \in Heads(n) /\ n[w.node].index = i
    /\ w.bit = bit_for_tree_index(i) - dep[w.node]
    /\ Pre(n[w.node].size, i, dep[w.node]) = Pre(s, i, dep[w.node])
    /\ \A y \in Heads(n) : n[y].size = s => y \in Sub(n, dep, w.node)
\* It goes no further.
WalkEnds(n, s, w) == n[w.node].size = s \/ n[w.node].child[SizeBit(s, w.bit)] = NULL

\* A pass goes one level down, or nowhere when the walk has ended.
LEMMA PlacePassIs ==
    ASSUME NEW F \in SUBSET Chunk, NEW n \in [F -> Node(F)], NEW root, NEW dep,
           IsTrie(n, root, dep), NEW s \in Large, NEW i \in TreeBin, i = compute_tree_index(s),
           NEW w \in [node : Heads(n), bit : Int], OnWay(n, dep, s, i, w)
    PROVE  LET v == PlacePass(n, s, w) IN
           /\ v \in [node : Heads(n), bit : Int] /\ OnWay(n, dep, s, i, v)
           /\ IF WalkEnds(n, s, w) THEN v = w ELSE dep[v.node] = dep[w.node] + 1
<1>1. CASE WalkEnds(n, s, w)
  BY <1>1 DEF PlacePass, WalkEnds
<1>2. CASE ~ WalkEnds(n, s, w)
  <2>1. PICK x, d, c : x = w.node /\ d = dep[x] /\ c = SizeBit(s, w.bit)
    OBVIOUS
  <2>2. n[x].size # s /\ n[x].child[c] # NULL /\ x \in Heads(n) /\ n[x].index = i
        /\ Pre(n[x].size, i, d) = Pre(s, i, d) /\ w.bit = bit_for_tree_index(i) - d
    BY <1>2, <2>1 DEF WalkEnds, OnWay
  <2>3. s \in Nat /\ n[x].size \in Nat /\ d \in 0..Bits(i) /\ bit_for_tree_index(i) \in Nat
    BY <2>1, <2>2, LargeIs, TreeHeadIs
  <2>4. d # Bits(i)
    BY <2>2, <2>3, AllBits
  <2>5. d \in 0..bit_for_tree_index(i)
    BY <2>3, <2>4 DEF Bits
  <2>6. c = Way(s, i, d) /\ c \in {0, 1}
    BY <2>1, <2>2, <2>3, <2>5, NextBit DEF Way
  <2>7. PICK z : z = n[x].child[c]
    OBVIOUS
  <2>8. /\ z \in Heads(n) /\ n[z].index = i /\ dep[z] = d + 1 /\ Way(n[z].size, i, d) = c
        /\ z \in Sub(n, dep, x)
    <3>1. x \in Heads(n) /\ c \in {0, 1} /\ n[x].child[c] # NULL
      BY <2>2, <2>6
    <3>2. LET y == n[x].child[c]
              b == n[x].index
          IN  /\ y \in Heads(n) /\ n[y].index = b /\ dep[y] = dep[x] + 1
              /\ Way(n[y].size, b, dep[x]) = c /\ Sub(n, dep, y) \subseteq Sub(n, dep, x)
      BY <3>1, SubChild
    <3>3. z \in Heads(n) /\ n[z].index = i /\ dep[z] = d + 1 /\ Way(n[z].size, i, d) = c
          /\ Sub(n, dep, z) \subseteq Sub(n, dep, x)
      BY <2>1, <2>2, <2>7, <3>2
    <3> QED
      BY <3>3, SubSelf
  <2>9. Pre(n[z].size, i, d + 1) = Pre(s, i, d + 1)
    <3>1. n[z].size \in Nat
      BY <2>8, TreeHeadIs
    <3>2. Pre(n[z].size, i, d) = Pre(s, i, d)
      BY <2>1, <2>2, <2>8 DEF Sub
    <3>3. Pre(n[z].size, i, d + 1) = 2 * Pre(n[z].size, i, d) + c
      BY <2>3, <2>5, <2>8, <3>1, NextBit
    <3>4. Pre(s, i, d + 1) = 2 * Pre(s, i, d) + c
      BY <2>3, <2>5, <2>6, NextBit
    <3> QED
      BY <3>2, <3>3, <3>4
  <2>10. ASSUME NEW y \in Heads(n), n[y].size = s PROVE y \in Sub(n, dep, z)
    <3>1. y \in Sub(n, dep, x) /\ y # x
      BY <2>1, <2>2, <2>10 DEF OnWay
    <3> QED
      BY <2>1, <2>2, <2>6, <2>7, <2>10, <3>1, SubBelow
  <2>11. PlacePass(n, s, w) = [node |-> z, bit |-> w.bit - 1]
    BY <2>1, <2>2, <2>7 DEF PlacePass
  <2>12. w.bit - 1 = bit_for_tree_index(i) - dep[z] /\ w.bit - 1 \in Int
    BY <2>2, <2>3, <2>8
  <2>13. PICK v : v = [node |-> z, bit |-> w.bit - 1]
    OBVIOUS
  <2>14. v \in [node : Heads(n), bit : Int] /\ v.node = z /\ v.bit = w.bit - 1
    BY <2>8, <2>12, <2>13
  <2>15. OnWay(n, dep, s, i, v)
    BY <2>8, <2>9, <2>10, <2>12, <2>14 DEF OnWay
  <2> QED
    BY <1>2, <2>1, <2>8, <2>11, <2>13, <2>14, <2>15
<1> QED
  BY <1>1, <1>2

\* The states of a loop whose passes stay within D.
Run(a, N, d, g) == a = [k \in 0..N |-> IF k = 0 THEN d ELSE g[a[k - 1]]]

\* Such a loop has its states.
LEMMA LoopRuns ==
    ASSUME NEW D, NEW N \in Nat, NEW d \in D, NEW g \in [D -> D]
    PROVE  \E a \in [0..N -> D] : Run(a, N, d, g)
<1> DEFINE h == [k \in 1..N |-> g]
<1>1. h \in [1..N -> [D -> D]]
  OBVIOUS
<1>2. PICK a \in [0..N -> D] : Computed(a, N, d, h)
  BY <1>1, Computation
<1>3. ASSUME NEW k \in 0..N PROVE a[k] = IF k = 0 THEN d ELSE g[a[k - 1]]
  <2>1. CASE k = 0
    BY <1>2, <2>1 DEF Computed
  <2>2. CASE k # 0
    <3>1. k \in 1..N
      BY <2>2
    <3> QED
      BY <1>2, <2>2, <3>1 DEF Computed
  <2> QED
    BY <2>1, <2>2
<1>4. a = [k \in 0..N |-> IF k = 0 THEN d ELSE g[a[k - 1]]]
  BY <1>3
<1> QED
  BY <1>4 DEF Run

\* They all lie in D.
LEMMA RunStays ==
    ASSUME NEW D, NEW N \in Nat, NEW d \in D, NEW g \in [D -> D], NEW a, Run(a, N, d, g)
    PROVE  /\ DOMAIN a = 0..N /\ a[0] = d
           /\ \A k \in 0..N : a[k] \in D
           /\ \A k \in 0..N : k < N => a[k + 1] = g[a[k]]
<1>1. a = [k \in 0..N |-> IF k = 0 THEN d ELSE g[a[k - 1]]]
  BY DEF Run
<1>2. DOMAIN a = 0..N
  BY <1>1
<1>3. \A k \in 0..N : a[k] = IF k = 0 THEN d ELSE g[a[k - 1]]
  BY <1>1
<1>4. a[0] = d
  BY <1>3
<1>5. ASSUME NEW k \in 0..N, k < N PROVE a[k + 1] = g[a[k]]
  <2>1. k + 1 \in 0..N /\ k + 1 # 0 /\ (k + 1) - 1 = k
    BY <1>5
  <2> QED
    BY <1>3, <2>1
<1> DEFINE S == {k \in 0..N : a[k] \in D}
<1>6. 0 \in S
  BY <1>4
<1>7. ASSUME NEW k \in 0..N, k < N, k \in S PROVE k + 1 \in S
  BY <1>5, <1>7
<1> HIDE DEF S
<1>8. \A k \in 0..N : k \in S
  BY <1>6, <1>7, Climb
<1> QED
  BY <1>2, <1>4, <1>5, <1>8 DEF S

\* The walk ends at the node of size s, or where a leaf of that size may be put.
LEMMA PlaceIs ==
    ASSUME NEW F \in SUBSET Chunk, NEW u, NEW dep,
           u.node \in [F -> Node(F)], IsTrie(u.node, u.root, dep),
           NEW s \in Large, NEW i \in TreeBin, i = compute_tree_index(s), u.root[i] # NULL
    PROVE  LET w == Place(u, s, i)
               n == u.node
           IN  /\ w.node \in Heads(n) /\ OnWay(n, dep, s, i, w) /\ WalkEnds(n, s, w)
<1> DEFINE n == u.node
           D == {w \in [node : Heads(n), bit : Int] : OnWay(n, dep, s, i, w)}
           first == [node |-> u.root[i], bit |-> bit_for_tree_index(i)]
           g == [w \in D |-> PlacePass(n, s, w)]
<1>1. SizeBits \in Nat /\ bit_for_tree_index(i) \in 0..SizeBits - 1 /\ s \in Nat
  BY SizesAssumption, BinIs, LargeIs
<1>2. first \in D
  <2>1. PICK r : r = u.root[i]
    OBVIOUS
  <2>2. r \in Heads(n) /\ n[r].index = i /\ dep[r] = 0
    BY <2>1, RootIs
  <2>3. first \in [node : Heads(n), bit : Int] /\ first.node = r /\ first.bit = bit_for_tree_index(i)
    BY <1>1, <2>1, <2>2
  <2>4. Pre(n[r].size, i, 0) = Pre(s, i, 0)
    BY <2>2, TreeHeadIs, SameBin
  <2>5. ASSUME NEW y \in Heads(n), n[y].size = s PROVE y \in Sub(n, dep, r)
    <3>1. n[y].index = i
      BY <2>5, TreeHeadIs
    <3> QED
      BY <2>1, <3>1, SubRoot
  <2> QED
    BY <1>1, <2>2, <2>3, <2>4, <2>5 DEF OnWay
<1>3. ASSUME NEW w \in D
      PROVE  /\ PlacePass(n, s, w) \in D
             /\ IF WalkEnds(n, s, w) THEN PlacePass(n, s, w) = w
                ELSE dep[PlacePass(n, s, w).node] = dep[w.node] + 1
  <2>1. OnWay(n, dep, s, i, w) /\ w \in [node : Heads(n), bit : Int]
    BY <1>3
  <2> HIDE DEF n
  <2> QED
    BY <2>1, PlacePassIs DEF n
<1>4. g \in [D -> D]
  BY <1>3
<1>5. \E a : a = [k \in 0..SizeBits |-> IF k = 0 THEN first ELSE PlacePass(n, s, a[k - 1])]
  <2> HIDE DEF D, g, first
  <2>1. PICK a \in [0..SizeBits -> D] : Run(a, SizeBits, first, g)
    BY <1>1, <1>2, <1>4, LoopRuns
  <2>2. \A k \in 0..SizeBits : k # 0 => g[a[k - 1]] = PlacePass(n, s, a[k - 1])
    <3>1. \A k \in 0..SizeBits : k # 0 => a[k - 1] \in D
      BY <1>1, <2>1
    <3> QED
      BY <3>1 DEF g
  <2>3. a = [k \in 0..SizeBits |-> IF k = 0 THEN first ELSE PlacePass(n, s, a[k - 1])]
    BY <2>1, <2>2 DEF Run
  <2> QED
    BY <2>3
<1>6. PICK a : /\ a = [k \in 0..SizeBits |-> IF k = 0 THEN first ELSE PlacePass(n, s, a[k - 1])]
               /\ Place(u, s, i) = a[SizeBits]
  <2>1. PICK a : a = CHOOSE b : b = [k \in 0..SizeBits |-> IF k = 0 THEN first ELSE PlacePass(n, s, b[k - 1])]
    OBVIOUS
  <2>2. Place(u, s, i) = a[SizeBits]
    BY <2>1 DEF Place, Loop
  <2> HIDE DEF first
  <2>3. a = [k \in 0..SizeBits |-> IF k = 0 THEN first ELSE PlacePass(n, s, a[k - 1])]
    BY <1>5, <2>1
  <2> QED
    BY <2>2, <2>3
<1> DEFINE S == {k \in 0..SizeBits : a[k] \in D /\ (WalkEnds(n, s, a[k]) \/ dep[a[k].node] = k)}
<1>7. 0 \in S
  <2>1. a[0] = first /\ dep[first.node] = 0
    BY <1>1, <1>6, RootIs
  <2> QED
    BY <1>1, <1>2, <2>1
<1>8. ASSUME NEW k \in 0..SizeBits, k < SizeBits, k \in S PROVE k + 1 \in S
  <2>1. k + 1 \in 0..SizeBits /\ k + 1 # 0 /\ (k + 1) - 1 = k
    BY <1>1, <1>8
  <2>2. a[k + 1] = PlacePass(n, s, a[k])
    BY <1>6, <2>1
  <2>3. a[k] \in D /\ (WalkEnds(n, s, a[k]) \/ dep[a[k].node] = k)
    BY <1>8
  <2> HIDE DEF D
  <2> QED
    BY <1>3, <2>1, <2>2, <2>3
<1>9. SizeBits \in S
  <2> HIDE DEF S
  <2> QED
    BY <1>1, <1>7, <1>8, Climb
<1>10. PICK w : w = a[SizeBits]
  OBVIOUS
<1>11. w \in D /\ (WalkEnds(n, s, w) \/ dep[w.node] = SizeBits)
  BY <1>9, <1>10
<1>12. OnWay(n, dep, s, i, w) /\ w.node \in Heads(n)
  BY <1>11
<1>13. WalkEnds(n, s, w)
  <2> SUFFICES ASSUME dep[w.node] = SizeBits PROVE n[w.node].size = s
    BY <1>11 DEF WalkEnds
  <2>1. n[w.node].index = i /\ Pre(n[w.node].size, i, dep[w.node]) = Pre(s, i, dep[w.node])
    BY <1>12 DEF OnWay
  <2>2. dep[w.node] \in 0..Bits(i) /\ n[w.node].size \in Nat
    BY <1>12, <2>1, TreeHeadIs
  <2>3. dep[w.node] = Bits(i)
    BY <1>1, <2>2 DEF Bits
  <2> QED
    BY <1>1, <2>1, <2>2, <2>3, AllBits
<1> QED
  BY <1>6, <1>10, <1>12, <1>13

-----------------------------------------------------------------------------
(* The leaf that replaces a node. *)

\* A leaf.
Childless(n, y) == \A c \in {0, 1} : n[y].child[c] = NULL

\* A pass goes one level down, or nowhere from a leaf.
LEMMA LeafPassIs ==
    ASSUME NEW F \in SUBSET Chunk, NEW n \in [F -> Node(F)], NEW root, NEW dep,
           IsTrie(n, root, dep), NEW x \in Heads(n), NEW y \in Sub(n, dep, x)
    PROVE  /\ LeafPass(n, y) \in Sub(n, dep, x)
           /\ IF Childless(n, y) THEN LeafPass(n, y) = y
              ELSE dep[LeafPass(n, y)] = dep[y] + 1
<1>1. y \in Heads(n)
  BY DEF Sub
<1>2. CASE Childless(n, y)
  BY <1>2 DEF LeafPass, Childless
<1>3. CASE ~ Childless(n, y)
  <2>1. PICK c \in {0, 1} : n[y].child[c] # NULL /\ LeafPass(n, y) = n[y].child[c]
    BY <1>3 DEF LeafPass, Childless
  <2>2. PICK z : z = n[y].child[c]
    OBVIOUS
  <2>3. z \in Heads(n) /\ dep[z] = dep[y] + 1 /\ Sub(n, dep, z) \subseteq Sub(n, dep, y)
    BY <1>1, <2>1, <2>2, SubChild
  <2>4. z \in Sub(n, dep, y)
    BY <2>3, SubSelf
  <2>5. z \in Sub(n, dep, x)
    <3>1. y # x => Sub(n, dep, y) \subseteq Sub(n, dep, x)
      <4>1. PICK i, d : i = n[x].index /\ d = dep[x]
        OBVIOUS
      <4>2. /\ n[y].index = i /\ d <= dep[y] /\ Pre(n[y].size, i, d) = Pre(n[x].size, i, d)
        BY <4>1 DEF Sub
      <4>3. d \in Nat /\ dep[y] \in 0..Bits(i) /\ bit_for_tree_index(i) \in Nat /\ n[y].size \in Nat
        BY <1>1, <4>1, <4>2, TreeHeadIs
      <4>4. ASSUME NEW v \in Sub(n, dep, y) PROVE v \in Sub(n, dep, x)
        <5>1. /\ v \in Heads(n) /\ n[v].index = i /\ dep[y] <= dep[v]
              /\ Pre(n[v].size, i, dep[y]) = Pre(n[y].size, i, dep[y])
          BY <4>2 DEF Sub
        <5>2. n[v].size \in Nat /\ dep[v] \in Nat
          BY <5>1, TreeHeadIs
        <5>3. d \in 0..dep[y]
          BY <4>2, <4>3
        <5>4. Pre(n[v].size, i, d) = Pre(n[y].size, i, d)
          BY <4>3, <5>1, <5>2, <5>3, AgreeBelow
        <5>5. d <= dep[v]
          BY <4>2, <4>3, <5>1, <5>2
        <5> QED
          BY <4>1, <4>2, <5>1, <5>4, <5>5 DEF Sub
      <4> QED
        BY <4>4
    <3> QED
      BY <2>4, <3>1
  <2> QED
    BY <1>3, <2>1, <2>2, <2>3, <2>5
<1> QED
  BY <1>2, <1>3

\* SizeBits passes are enough to come to a leaf.
LEMMA LeafIs ==
    ASSUME NEW F \in SUBSET Chunk, NEW n \in [F -> Node(F)], NEW root, NEW dep,
           IsTrie(n, root, dep), NEW x \in Heads(n)
    PROVE  Leaf(n, x) \in Sub(n, dep, x) /\ Childless(n, Leaf(n, x))
<1> DEFINE D == Sub(n, dep, x)
           g == [y \in D |-> LeafPass(n, y)]
<1>1. SizeBits \in Nat /\ x \in D
  BY SizesAssumption, SubSelf
<1>2. ASSUME NEW y \in D
      PROVE  /\ LeafPass(n, y) \in D
             /\ IF Childless(n, y) THEN LeafPass(n, y) = y
                ELSE dep[LeafPass(n, y)] = dep[y] + 1
  BY LeafPassIs
<1>3. g \in [D -> D]
  BY <1>2
<1>4. \E a : a = [k \in 0..SizeBits |-> IF k = 0 THEN x ELSE LeafPass(n, a[k - 1])]
  <2> HIDE DEF D, g
  <2>1. PICK a \in [0..SizeBits -> D] : Run(a, SizeBits, x, g)
    BY <1>1, <1>3, LoopRuns
  <2>2. \A k \in 0..SizeBits : k # 0 => g[a[k - 1]] = LeafPass(n, a[k - 1])
    <3>1. \A k \in 0..SizeBits : k # 0 => a[k - 1] \in D
      BY <1>1, <2>1
    <3> QED
      BY <3>1 DEF g
  <2>3. a = [k \in 0..SizeBits |-> IF k = 0 THEN x ELSE LeafPass(n, a[k - 1])]
    BY <2>1, <2>2 DEF Run
  <2> QED
    BY <2>3
<1>5. PICK a : /\ a = [k \in 0..SizeBits |-> IF k = 0 THEN x ELSE LeafPass(n, a[k - 1])]
               /\ Leaf(n, x) = a[SizeBits]
  <2>1. PICK a : a = CHOOSE b : b = [k \in 0..SizeBits |-> IF k = 0 THEN x ELSE LeafPass(n, b[k - 1])]
    OBVIOUS
  <2>2. Leaf(n, x) = a[SizeBits]
    BY <2>1 DEF Leaf, Loop
  <2>3. a = [k \in 0..SizeBits |-> IF k = 0 THEN x ELSE LeafPass(n, a[k - 1])]
    BY <1>4, <2>1
  <2> QED
    BY <2>2, <2>3
<1> DEFINE S == {k \in 0..SizeBits : a[k] \in D /\ (Childless(n, a[k]) \/ dep[a[k]] = dep[x] + k)}
<1>6. 0 \in S
  <2>1. a[0] = x /\ dep[x] + 0 = dep[x]
    BY <1>1, <1>5, TreeHeadIs
  <2> QED
    BY <1>1, <2>1
<1>7. ASSUME NEW k \in 0..SizeBits, k < SizeBits, k \in S PROVE k + 1 \in S
  <2>1. k + 1 \in 0..SizeBits /\ k + 1 # 0 /\ (k + 1) - 1 = k
    BY <1>1, <1>7
  <2>2. a[k + 1] = LeafPass(n, a[k])
    BY <1>5, <2>1
  <2>3. a[k] \in D /\ (Childless(n, a[k]) \/ dep[a[k]] = dep[x] + k)
    BY <1>7
  <2>4. dep[x] \in Nat
    BY TreeHeadIs
  <2> HIDE DEF D
  <2> QED
    BY <1>2, <2>1, <2>2, <2>3, <2>4
<1>8. SizeBits \in S
  <2> HIDE DEF S
  <2> QED
    BY <1>1, <1>6, <1>7, Climb
<1>9. PICK r : r = a[SizeBits]
  OBVIOUS
<1>10. r \in Sub(n, dep, x) /\ r \in Heads(n) /\ (Childless(n, r) \/ dep[r] = dep[x] + SizeBits)
  BY <1>8, <1>9 DEF Sub
<1>11. Childless(n, r)
  <2> SUFFICES ASSUME dep[r] = dep[x] + SizeBits, NEW c \in {0, 1}, n[r].child[c] # NULL
               PROVE  FALSE
    BY <1>10 DEF Childless
  <2>1. dep[r] \in 0..bit_for_tree_index(n[r].index)
    BY <1>10, SubChild
  <2>2. bit_for_tree_index(n[r].index) \in 0..SizeBits - 1 /\ dep[x] \in Nat
    BY <1>10, TreeHeadIs
  <2> QED
    BY <1>1, <2>1, <2>2
<1> QED
  BY <1>5, <1>9, <1>10, <1>11

-----------------------------------------------------------------------------
(* Best fits. *)

\* Nothing yet, or a node that is large enough.
IsFit(n, nb, chosen) ==
    /\ chosen \in [v : Heads(n) \cup {NULL}, rsize : Nat]
    /\ IF chosen.v = NULL THEN chosen.rsize = USub(0, nb)
       ELSE n[chosen.v].size >= nb /\ chosen.rsize = n[chosen.v].size - nb
\* y is no better than the fit.
Beaten(n, chosen, y) == chosen.v # NULL /\ n[chosen.v].size <= n[y].size

\* At first there is no fit, and any node that is enough beats it.
LEMMA NoFitIs ==
    ASSUME NEW nb \in 1..MAX_SIZE_T, NEW n
    PROVE  IsFit(n, nb, NoFit(nb)) /\ NoFit(nb).v = NULL /\ NoFit(nb).rsize > 0
<1>1. MAX_SIZE_T \in Nat /\ MAX_SIZE_T = 2 ^ SizeBits - 1 /\ 2 ^ SizeBits \in Nat
  BY SizesAssumption, Power DEF MAX_SIZE_T
<1>2. nb \in 0..MAX_SIZE_T /\ 0 \in 0..MAX_SIZE_T
  BY <1>1
<1>3. USub(0, nb) = 2 ^ SizeBits + 0 - nb
  BY <1>2, WordIs
<1>4. USub(0, nb) \in Nat /\ USub(0, nb) > 0
  BY <1>1, <1>2, <1>3
<1> QED
  BY <1>4 DEF IsFit, NoFit

\* The better of the fit and a node is as good as both.
LEMMA BetterIs ==
    ASSUME NEW F \in SUBSET Chunk, NEW n \in [F -> Node(F)], NEW root, NEW dep,
           IsTrie(n, root, dep), NEW x \in Heads(n), NEW nb \in 1..MAX_SIZE_T,
           NEW chosen, IsFit(n, nb, chosen)
    PROVE  LET f == Better(n, chosen, x, nb) IN
           /\ IsFit(n, nb, f) /\ f.v \in {x, chosen.v}
           /\ n[x].size >= nb => Beaten(n, f, x)
           /\ \A y \in Heads(n) : Beaten(n, chosen, y) => Beaten(n, f, y)
           /\ chosen.rsize = 0 => f = chosen
<1>1. MAX_SIZE_T \in Nat /\ MAX_SIZE_T = 2 ^ SizeBits - 1 /\ 2 ^ SizeBits \in Nat
  BY SizesAssumption, Power DEF MAX_SIZE_T
<1>2. nb \in 0..MAX_SIZE_T /\ 0 \in 0..MAX_SIZE_T /\ nb \in Nat /\ nb > 0
  BY <1>1
<1>3. n[x].size \in 0..MAX_SIZE_T /\ n[x].size \in Nat /\ x # NULL
  BY TreeHeadIs, LargeIs
<1>4. PICK m, s, trem, e : /\ m = 2 ^ SizeBits /\ s = n[x].size /\ trem = USub(n[x].size, nb)
                           /\ e = USub(0, nb)
  OBVIOUS
<1>5. /\ s \in Nat /\ s < m /\ m \in Nat /\ nb < m
      /\ trem = IF s >= nb THEN s - nb ELSE m + s - nb
      /\ e = m - nb
  <2>1. USub(n[x].size, nb) = IF n[x].size >= nb THEN n[x].size - nb ELSE 2 ^ SizeBits + n[x].size - nb
    BY <1>2, <1>3, WordIs
  <2>2. USub(0, nb) = 2 ^ SizeBits + 0 - nb
    BY <1>2, WordIs
  <2> QED
    BY <1>1, <1>2, <1>3, <1>4, <2>1, <2>2
<1>6. trem \in Nat /\ (s < nb => trem >= e) /\ (s >= nb => trem < e /\ trem = s - nb)
  BY <1>2, <1>5
<1>7. chosen \in [v : Heads(n) \cup {NULL}, rsize : Nat] /\ chosen.rsize <= e
  <2>1. CASE chosen.v = NULL
    BY <1>4, <1>5, <2>1, <1>2 DEF IsFit
  <2>2. CASE chosen.v # NULL
    <3>1. chosen.v \in Heads(n) /\ chosen.rsize = n[chosen.v].size - nb
      BY <2>2 DEF IsFit
    <3>2. n[chosen.v].size < m /\ n[chosen.v].size \in Nat
      BY <1>4, <3>1, TreeHeadIs, LargeIs
    <3> QED
      BY <1>2, <1>5, <3>1, <3>2 DEF IsFit
  <2> QED
    BY <2>1, <2>2
<1>8. CASE trem < chosen.rsize
  <2>1. PICK f : f = [v |-> x, rsize |-> trem]
    OBVIOUS
  <2>2. Better(n, chosen, x, nb) = f
    BY <1>4, <1>8, <2>1 DEF Better
  <2>3. s >= nb
    BY <1>5, <1>6, <1>7, <1>8, <1>2
  <2>4. f.v = x /\ f.rsize = trem /\ IsFit(n, nb, f)
    BY <1>3, <1>4, <1>6, <2>1, <2>3 DEF IsFit
  <2>5. ASSUME NEW y \in Heads(n), Beaten(n, chosen, y) PROVE Beaten(n, f, y)
    <3>1. chosen.v \in Heads(n) /\ chosen.rsize = n[chosen.v].size - nb /\ n[chosen.v].size <= n[y].size
      BY <2>5 DEF IsFit, Beaten
    <3>2. n[chosen.v].size \in Nat /\ n[y].size \in Nat
      BY <3>1, TreeHeadIs
    <3>3. s < n[chosen.v].size
      BY <1>2, <1>5, <1>6, <1>8, <2>3, <3>1, <3>2
    <3> QED
      BY <1>3, <1>4, <2>4, <3>1, <3>2, <3>3 DEF Beaten
  <2>6. Beaten(n, f, x)
    BY <1>3, <2>4 DEF Beaten
  <2>7. chosen.rsize # 0
    BY <1>6, <1>7, <1>8
  <2> QED
    BY <2>2, <2>4, <2>5, <2>6, <2>7
<1>9. CASE ~ (trem < chosen.rsize)
  <2>1. Better(n, chosen, x, nb) = chosen
    BY <1>4, <1>9 DEF Better
  <2>2. s >= nb => Beaten(n, chosen, x)
    <3> SUFFICES ASSUME s >= nb PROVE Beaten(n, chosen, x)
      OBVIOUS
    <3>1. chosen.rsize <= s - nb /\ chosen.rsize < e
      BY <1>5, <1>6, <1>7, <1>9, <1>2
    <3>2. chosen.v # NULL
      BY <1>4, <3>1 DEF IsFit
    <3>3. chosen.v \in Heads(n) /\ chosen.rsize = n[chosen.v].size - nb
      BY <3>2 DEF IsFit
    <3>4. n[chosen.v].size \in Nat
      BY <3>3, TreeHeadIs
    <3> QED
      BY <1>2, <1>4, <1>5, <3>1, <3>2, <3>3, <3>4 DEF Beaten
  <2> QED
    BY <1>4, <2>1, <2>2
<1> QED
  BY <1>8, <1>9

\* A fit that leaves nothing over is beaten by none.
LEMMA ExactIs ==
    ASSUME NEW F \in SUBSET Chunk, NEW n \in [F -> Node(F)], NEW root, NEW dep,
           IsTrie(n, root, dep), NEW nb \in 1..MAX_SIZE_T, NEW chosen, IsFit(n, nb, chosen),
           chosen.rsize = 0, NEW y \in Heads(n), n[y].size >= nb
    PROVE  Beaten(n, chosen, y)
<1>1. chosen.v # NULL
  <2>1. USub(0, nb) > 0
    BY NoFitIs DEF NoFit
  <2> QED
    BY <2>1 DEF IsFit
<1>2. chosen.v \in Heads(n) /\ chosen.rsize = n[chosen.v].size - nb
  BY <1>1 DEF IsFit
<1>3. n[chosen.v].size \in Nat /\ n[y].size \in Nat /\ nb \in Nat
  BY <1>2, TreeHeadIs, SizesAssumption, Power DEF MAX_SIZE_T
<1> QED
  BY <1>1, <1>2, <1>3 DEF Beaten

\* Of Y, all that is enough is beaten or has something no larger below w.at, where
\* all is enough unless the fit is exact.
Searching(n, dep, nb, Y, w) ==
    /\ w.at \in Heads(n) \cup {NULL} /\ IsFit(n, nb, w.fit)
    /\ w.fit.rsize # 0 /\ w.at # NULL => \A z \in Sub(n, dep, w.at) : n[z].size >= nb
    /\ \A y \in Y : n[y].size >= nb =>
         \/ Beaten(n, w.fit, y)
         \/ w.at # NULL /\ \E z \in Sub(n, dep, w.at) : n[z].size <= n[y].size

\* A pass of the search for the smallest keeps what it knows, one level down.
LEMMA LeftmostPassIs ==
    ASSUME NEW F \in SUBSET Chunk, NEW n \in [F -> Node(F)], NEW root, NEW dep,
           IsTrie(n, root, dep), NEW nb \in 1..MAX_SIZE_T, NEW Y \in SUBSET Heads(n),
           NEW w \in [at : Heads(n) \cup {NULL}, fit : [v : Heads(n) \cup {NULL}, rsize : Nat]],
           Searching(n, dep, nb, Y, w)
    PROVE  LET v == LeftmostPass(n, nb, w) IN
           /\ v \in [at : Heads(n) \cup {NULL}, fit : [v : Heads(n) \cup {NULL}, rsize : Nat]]
           /\ Searching(n, dep, nb, Y, v)
           /\ IF w.at = NULL THEN v = w ELSE v.at # NULL => dep[v.at] = dep[w.at] + 1
<1>1. CASE w.at = NULL
  BY <1>1 DEF LeftmostPass
<1>2. CASE w.at # NULL
  <2>1. PICK x, f, to, v : /\ x = w.at /\ f = Better(n, w.fit, x, nb)
                           /\ to = leftmost_child(n, x) /\ v = [at |-> to, fit |-> f]
    OBVIOUS
  <2>2. x \in Heads(n) /\ x # NULL /\ IsFit(n, nb, w.fit)
    BY <1>2, <2>1 DEF Searching
  <2>3. /\ IsFit(n, nb, f)
        /\ n[x].size >= nb => Beaten(n, f, x)
        /\ \A y \in Heads(n) : Beaten(n, w.fit, y) => Beaten(n, f, y)
        /\ w.fit.rsize = 0 => f = w.fit
    BY <2>1, <2>2, BetterIs
  <2>4. LeftmostPass(n, nb, w) = v
    BY <1>2, <2>1 DEF LeftmostPass
  <2>5. to # NULL => /\ to \in Heads(n) /\ dep[to] = dep[x] + 1
                     /\ Sub(n, dep, to) \subseteq Sub(n, dep, x) /\ to \in Sub(n, dep, to)
    <3> SUFFICES ASSUME to # NULL
                 PROVE  /\ to \in Heads(n) /\ dep[to] = dep[x] + 1
                        /\ Sub(n, dep, to) \subseteq Sub(n, dep, x) /\ to \in Sub(n, dep, to)
      OBVIOUS
    <3>1. PICK c \in {0, 1} : to = n[x].child[c]
      BY <2>1 DEF leftmost_child
    <3>2. to \in Heads(n) /\ dep[to] = dep[x] + 1 /\ Sub(n, dep, to) \subseteq Sub(n, dep, x)
      BY <2>2, <3>1, SubChild
    <3> QED
      BY <3>2, SubSelf
  <2>6. /\ v \in [at : Heads(n) \cup {NULL}, fit : [v : Heads(n) \cup {NULL}, rsize : Nat]]
        /\ v.at = to /\ v.fit = f
    BY <2>1, <2>3, <2>5 DEF IsFit
  <2>7. f.rsize # 0 /\ to # NULL => \A z \in Sub(n, dep, to) : n[z].size >= nb
    BY <2>1, <2>2, <2>3, <2>5 DEF Searching
  <2>8. ASSUME NEW y \in Y, n[y].size >= nb
        PROVE  \/ Beaten(n, f, y)
               \/ to # NULL /\ \E z \in Sub(n, dep, to) : n[z].size <= n[y].size
    <3>0. y \in Heads(n)
      OBVIOUS
    <3>1. CASE Beaten(n, w.fit, y)
      BY <2>3, <3>0, <3>1
    <3>2. CASE w.fit.rsize = 0
      BY <2>2, <2>3, <2>8, <3>0, <3>2, ExactIs
    <3>3. CASE ~ Beaten(n, w.fit, y) /\ w.fit.rsize # 0
      <4>1. PICK z \in Sub(n, dep, x) : n[z].size <= n[y].size
        BY <2>1, <2>8, <3>3 DEF Searching
      <4>2. z \in Heads(n) /\ n[z].size >= nb /\ n[x].size >= nb
        BY <2>1, <2>2, <3>3, <4>1, SubSelf DEF Searching, Sub
      <4>3. n[z].size \in Nat /\ n[y].size \in Nat /\ n[x].size \in Nat
        BY <2>2, <4>2, TreeHeadIs
      <4>4. CASE z = x
        <5>1. Beaten(n, f, x)
          BY <2>3, <4>2
        <5>2. f.v \in Heads(n) /\ n[f.v].size \in Nat
          <6>1. f.v \in Heads(n)
            BY <2>3, <5>1 DEF IsFit, Beaten
          <6> QED
            BY <6>1, TreeHeadIs
        <5>3. f.v # NULL /\ n[f.v].size <= n[x].size
          BY <5>1 DEF Beaten
        <5>4. n[f.v].size <= n[y].size
          BY <4>1, <4>3, <4>4, <5>2, <5>3
        <5> QED
          BY <5>3, <5>4 DEF Beaten
      <4>5. CASE z # x
        <5>1. PICK c : c = Way(n[z].size, n[x].index, dep[x])
          OBVIOUS
        <5>2. c \in {0, 1} /\ n[x].child[c] # NULL /\ z \in Sub(n, dep, n[x].child[c])
          BY <2>2, <4>5, <5>1, SubBelow
        <5>3. CASE to = n[x].child[c]
          BY <4>1, <5>2, <5>3
        <5>4. CASE to # n[x].child[c]
          <6>1. c = 1 /\ to = n[x].child[0] /\ to # NULL
            BY <2>1, <5>2, <5>4 DEF leftmost_child
          <6>2. Way(n[to].size, n[x].index, dep[x]) = 0 /\ to \in Sub(n, dep, x) /\ to # x
            <7>1. dep[x] \in Nat
              BY <2>2, TreeHeadIs
            <7>2. Way(n[to].size, n[x].index, dep[x]) = 0
              BY <2>2, <6>1, SubChild
            <7> QED
              BY <2>5, <6>1, <7>1, <7>2
          <6>3. n[to].size < n[z].size
            BY <2>2, <4>5, <5>1, <6>1, <6>2, SubOrder
          <6>4. n[to].size \in Nat
            BY <2>5, <6>1, TreeHeadIs
          <6>5. n[to].size <= n[y].size
            BY <4>1, <4>3, <6>3, <6>4
          <6> QED
            BY <2>5, <6>1, <6>5
        <5> QED
          BY <5>3, <5>4
      <4> QED
        BY <4>4, <4>5
    <3> QED
      BY <3>1, <3>2, <3>3
  <2>9. Searching(n, dep, nb, Y, v)
    BY <2>3, <2>5, <2>6, <2>7, <2>8 DEF Searching
  <2> QED
    BY <1>2, <2>1, <2>4, <2>5, <2>6, <2>9
<1> QED
  BY <1>1, <1>2

\* A search of a subtree in which all is enough finds the best fit.
LEMMA LeftmostIs ==
    ASSUME NEW F \in SUBSET Chunk, NEW n \in [F -> Node(F)], NEW root, NEW dep,
           IsTrie(n, root, dep), NEW nb \in 1..MAX_SIZE_T, NEW Y \in SUBSET Heads(n),
           NEW chosen, NEW x, Searching(n, dep, nb, Y, [at |-> x, fit |-> chosen])
    PROVE  LET f == LeftmostFit(n, chosen, x, nb) IN
           IsFit(n, nb, f) /\ \A y \in Y : n[y].size >= nb => Beaten(n, f, y)
<1> DEFINE R == [at : Heads(n) \cup {NULL}, fit : [v : Heads(n) \cup {NULL}, rsize : Nat]]
           D == {w \in R : Searching(n, dep, nb, Y, w)}
           N == SizeBits + 1
           first == [at |-> x, fit |-> chosen]
           g == [w \in D |-> LeftmostPass(n, nb, w)]
<1>1. SizeBits \in Nat /\ N \in Nat
  BY SizesAssumption
<1>2. first \in D
  <2>1. x \in Heads(n) \cup {NULL} /\ chosen \in [v : Heads(n) \cup {NULL}, rsize : Nat]
    BY DEF Searching, IsFit
  <2> QED
    BY <2>1
<1>3. ASSUME NEW w \in D
      PROVE  /\ LeftmostPass(n, nb, w) \in D
             /\ IF w.at = NULL THEN LeftmostPass(n, nb, w) = w
                ELSE LeftmostPass(n, nb, w).at # NULL => dep[LeftmostPass(n, nb, w).at] = dep[w.at] + 1
  <2>1. /\ w \in [at : Heads(n) \cup {NULL}, fit : [v : Heads(n) \cup {NULL}, rsize : Nat]]
        /\ Searching(n, dep, nb, Y, w)
    OBVIOUS
  <2>2. LET v == LeftmostPass(n, nb, w) IN
        /\ v \in [at : Heads(n) \cup {NULL}, fit : [v : Heads(n) \cup {NULL}, rsize : Nat]]
        /\ Searching(n, dep, nb, Y, v)
        /\ IF w.at = NULL THEN v = w ELSE v.at # NULL => dep[v.at] = dep[w.at] + 1
    <3> HIDE DEF R, D, first, g
    <3> QED
      BY <2>1, LeftmostPassIs
  <2> QED
    BY <2>2
<1>4. g \in [D -> D]
  BY <1>3
<1>5. \E a : a = [k \in 0..N |-> IF k = 0 THEN first ELSE LeftmostPass(n, nb, a[k - 1])]
  <2> HIDE DEF D, g, first, N
  <2>1. PICK a \in [0..N -> D] : Run(a, N, first, g)
    BY <1>1, <1>2, <1>4, LoopRuns
  <2>2. \A k \in 0..N : k # 0 => g[a[k - 1]] = LeftmostPass(n, nb, a[k - 1])
    <3>1. \A k \in 0..N : k # 0 => a[k - 1] \in D
      BY <1>1, <2>1
    <3> QED
      BY <3>1 DEF g
  <2>3. a = [k \in 0..N |-> IF k = 0 THEN first ELSE LeftmostPass(n, nb, a[k - 1])]
    BY <2>1, <2>2 DEF Run
  <2> QED
    BY <2>3
<1>6. PICK a : /\ a = [k \in 0..N |-> IF k = 0 THEN first ELSE LeftmostPass(n, nb, a[k - 1])]
               /\ LeftmostFit(n, chosen, x, nb) = a[N].fit
  <2>1. PICK a : a = CHOOSE b : b = [k \in 0..N |-> IF k = 0 THEN first ELSE LeftmostPass(n, nb, b[k - 1])]
    OBVIOUS
  <2>2. LeftmostFit(n, chosen, x, nb) = a[N].fit
    BY <2>1 DEF LeftmostFit, Loop
  <2> HIDE DEF first, N
  <2>3. a = [k \in 0..N |-> IF k = 0 THEN first ELSE LeftmostPass(n, nb, a[k - 1])]
    BY <1>5, <2>1
  <2> QED
    BY <2>2, <2>3
<1> DEFINE S == {k \in 0..N : a[k] \in D /\ (a[k].at # NULL => x # NULL /\ dep[a[k].at] = dep[x] + k)}
<1>7. 0 \in S
  <2>1. a[0] = first /\ first.at = x /\ (x # NULL => x \in Heads(n))
    BY <1>1, <1>2, <1>6
  <2>2. x # NULL => dep[x] + 0 = dep[x]
    BY <2>1, TreeHeadIs
  <2> QED
    BY <1>1, <1>2, <2>1, <2>2
<1>8. ASSUME NEW k \in 0..N, k < N, k \in S PROVE k + 1 \in S
  <2>1. k + 1 \in 0..N /\ k + 1 # 0 /\ (k + 1) - 1 = k /\ k \in Nat
    BY <1>1, <1>8
  <2>2. a[k + 1] = LeftmostPass(n, nb, a[k])
    BY <1>6, <2>1
  <2>3. a[k] \in D /\ (a[k].at # NULL => x # NULL /\ dep[a[k].at] = dep[x] + k)
    BY <1>8
  <2>4. x # NULL => dep[x] \in Nat
    BY <1>2, TreeHeadIs
  <2> HIDE DEF D
  <2>5. a[k + 1] \in D
    BY <1>3, <2>2, <2>3
  <2>6. ASSUME a[k + 1].at # NULL PROVE x # NULL /\ dep[a[k + 1].at] = dep[x] + (k + 1)
    <3>1. a[k].at # NULL /\ dep[a[k + 1].at] = dep[a[k].at] + 1
      BY <1>3, <2>2, <2>3, <2>6
    <3>2. PICK d : d = dep[x]
      OBVIOUS
    <3>3. d \in Nat /\ x # NULL /\ dep[a[k].at] = d + k
      BY <2>3, <2>4, <3>1, <3>2
    <3> QED
      BY <2>1, <3>1, <3>2, <3>3
  <2> QED
    BY <2>1, <2>5, <2>6
<1>9. N \in S
  <2> HIDE DEF S
  <2> QED
    BY <1>1, <1>7, <1>8, Climb
<1>10. PICK w : w = a[N]
  OBVIOUS
<1>11. w \in R /\ Searching(n, dep, nb, Y, w) /\ (w.at # NULL => x # NULL /\ dep[w.at] = dep[x] + N)
  BY <1>9, <1>10
<1>12. w.at = NULL
  <2> SUFFICES ASSUME w.at # NULL PROVE FALSE
    OBVIOUS
  <2>1. w.at \in Heads(n) /\ x \in Heads(n) /\ dep[w.at] = dep[x] + N
    BY <1>2, <1>11
  <2>2. dep[w.at] \in 0..Bits(n[w.at].index) /\ dep[x] \in Nat
        /\ bit_for_tree_index(n[w.at].index) \in 0..SizeBits - 1
    BY <2>1, TreeHeadIs
  <2> QED
    BY <1>1, <2>1, <2>2 DEF Bits
<1> QED
  BY <1>6, <1>10, <1>11, <1>12 DEF Searching

\* The descent: on the way of nb's bits, with all of the bin that is enough beaten,
\* still below, or no better than something below the right subtree kept in rst.
Descending(n, dep, nb, i, w) ==
    /\ IsFit(n, nb, w.fit)
    /\ w.fit.v # NULL => n[w.fit.v].index = i
    /\ w.at # NULL =>
         /\ n[w.at].index = i /\ w.bit = bit_for_tree_index(i) - dep[w.at]
         /\ Pre(n[w.at].size, i, dep[w.at]) = Pre(nb, i, dep[w.at])
    /\ w.rst # NULL =>
         /\ n[w.rst].index = i
         /\ \E e \in 0..Bits(i) :
              /\ w.at # NULL => e <= dep[w.at]
              /\ \A z \in Sub(n, dep, w.rst) : Pre(nb, i, e) < Pre(n[z].size, i, e)
    /\ \A y \in Heads(n) : n[y].index = i /\ n[y].size >= nb =>
         \/ Beaten(n, w.fit, y)
         \/ w.at # NULL /\ y \in Sub(n, dep, w.at)
         \/ w.rst # NULL /\ \E z \in Sub(n, dep, w.rst) : n[z].size <= n[y].size

\* What a pass of the descent works on.
Walks(n) == [at : Heads(n) \cup {NULL}, bit : Int,
             fit : [v : Heads(n) \cup {NULL}, rsize : Nat], rst : Heads(n) \cup {NULL}]

\* The pass at x, where the walk goes on to x's child c.
LEMMA DescentOn ==
    ASSUME NEW F \in SUBSET Chunk, NEW n \in [F -> Node(F)], NEW root, NEW dep,
           IsTrie(n, root, dep), NEW nb \in Large, NEW i \in TreeBin, i = compute_tree_index(nb),
           NEW w \in Walks(n), Descending(n, dep, nb, i, w), w.at # NULL,
           NEW f, IsFit(n, nb, f), f.rsize # 0, f.v \in {w.at, w.fit.v},
           n[w.at].size >= nb => Beaten(n, f, w.at),
           \A y \in Heads(n) : Beaten(n, w.fit, y) => Beaten(n, f, y),
           NEW to, to = n[w.at].child[SizeBit(nb, w.bit)],
           NEW rt, rt = n[w.at].child[1],
           NEW v, v = [at |-> to, bit |-> w.bit - 1, fit |-> f,
                       rst |-> IF rt # NULL /\ rt # to THEN rt ELSE w.rst]
    PROVE  v \in Walks(n) /\ Descending(n, dep, nb, i, v) /\ (to # NULL => dep[to] = dep[w.at] + 1)
<1>1. PICK x, d, c : x = w.at /\ d = dep[x] /\ c = SizeBit(nb, w.bit)
  OBVIOUS
<1>2. /\ x \in Heads(n) /\ n[x].index = i /\ w.bit = bit_for_tree_index(i) - d
      /\ Pre(n[x].size, i, d) = Pre(nb, i, d)
  BY <1>1 DEF Descending, Walks
<1>3. /\ nb \in Nat /\ n[x].size \in Nat /\ d \in 0..Bits(i) /\ bit_for_tree_index(i) \in Nat
      /\ d \in Nat
  BY <1>1, <1>2, LargeIs, TreeHeadIs
<1>4. n[x].size # nb
  <2> SUFFICES ASSUME n[x].size = nb PROVE FALSE
    OBVIOUS
  <2>1. f.v # NULL /\ n[f.v].size <= nb
    BY <1>1, <1>3 DEF Beaten
  <2>2. f.v \in Heads(n) /\ n[f.v].size >= nb /\ f.rsize = n[f.v].size - nb
    BY <2>1 DEF IsFit
  <2>3. n[f.v].size \in Nat
    BY <2>2, TreeHeadIs
  <2> QED
    BY <1>3, <2>1, <2>2, <2>3
<1>5. d \in 0..bit_for_tree_index(i) /\ d + 1 \in 0..Bits(i)
  <2>1. d # Bits(i)
    BY <1>2, <1>3, <1>4, AllBits
  <2> QED
    BY <1>3, <2>1 DEF Bits
<1>6. /\ c = Way(nb, i, d) /\ c \in {0, 1}
      /\ Pre(nb, i, d + 1) = 2 * Pre(nb, i, d) + c /\ Pre(nb, i, d) \in Nat
  <2>1. c = Way(nb, i, d)
    BY <1>1, <1>2 DEF Way
  <2> QED
    BY <1>3, <1>5, <2>1, NextBit
\* What is below a child of x agrees with nb so far, and then goes its own way.
<1>7. ASSUME NEW b \in {0, 1}, n[x].child[b] # NULL
      PROVE  /\ n[x].child[b] \in Heads(n) /\ n[n[x].child[b]].index = i
             /\ dep[n[x].child[b]] = d + 1
             /\ n[x].child[b] \in Sub(n, dep, n[x].child[b])
             /\ \A z \in Sub(n, dep, n[x].child[b]) :
                  /\ z \in Heads(n) /\ n[z].size \in Nat
                  /\ Way(n[z].size, i, d) = b /\ Pre(n[z].size, i, d) = Pre(nb, i, d)
                  /\ Pre(n[z].size, i, d + 1) = 2 * Pre(nb, i, d) + b
  <2>1. PICK y : y = n[x].child[b]
    OBVIOUS
  <2>2. /\ y \in Heads(n) /\ n[y].index = i /\ dep[y] = d + 1
        /\ Sub(n, dep, y) \subseteq Sub(n, dep, x)
        /\ \A z \in Sub(n, dep, y) : Way(n[z].size, i, d) = b
    BY <1>1, <1>2, <1>7, <2>1, SubChild
  <2>3. ASSUME NEW z \in Sub(n, dep, y)
        PROVE  /\ z \in Heads(n) /\ n[z].size \in Nat
               /\ Way(n[z].size, i, d) = b /\ Pre(n[z].size, i, d) = Pre(nb, i, d)
               /\ Pre(n[z].size, i, d + 1) = 2 * Pre(nb, i, d) + b
    <3>1. z \in Heads(n) /\ Pre(n[z].size, i, d) = Pre(n[x].size, i, d)
      BY <1>1, <1>2, <2>2 DEF Sub
    <3>2. n[z].size \in Nat /\ Way(n[z].size, i, d) = b
      BY <2>2, <3>1, TreeHeadIs
    <3> QED
      BY <1>2, <1>3, <1>5, <3>1, <3>2, NextBit
  <2> QED
    BY <2>1, <2>2, <2>3, SubSelf
<1>8. PICK rst : rst = IF rt # NULL /\ rt # to THEN rt ELSE w.rst
  OBVIOUS
<1>9. to = n[x].child[c] /\ rt = n[x].child[1]
  BY <1>1
<1>10. /\ v \in Walks(n) /\ v.at = to /\ v.bit = w.bit - 1 /\ v.fit = f /\ v.rst = rst
  <2>1. to \in Heads(n) \cup {NULL} /\ rst \in Heads(n) \cup {NULL}
    BY <1>6, <1>7, <1>8, <1>9 DEF Walks
  <2>2. w.bit - 1 \in Int
    BY DEF Walks
  <2> QED
    BY <1>8, <2>1, <2>2 DEF Walks, IsFit
<1>11. ASSUME rt # NULL, rt # to
       PROVE  /\ c = 0 /\ rst = rt /\ n[rt].index = i /\ rt \in Heads(n) /\ rt \in Sub(n, dep, rt)
              /\ \A z \in Sub(n, dep, rt) : Pre(nb, i, d + 1) < Pre(n[z].size, i, d + 1)
              /\ \A y \in Heads(n) : (w.rst # NULL /\ \E z \in Sub(n, dep, w.rst) : n[z].size <= n[y].size)
                   => n[rt].size <= n[y].size
  <2>1. c = 0 /\ rst = rt /\ rt = n[x].child[1] /\ rt # NULL
    BY <1>6, <1>8, <1>9, <1>11
  <2>2. /\ n[rt].index = i /\ rt \in Heads(n) /\ n[rt].size \in Nat /\ rt \in Sub(n, dep, rt)
        /\ Pre(n[rt].size, i, d) = Pre(nb, i, d)
    BY <1>7, <2>1
  <2>4. \A z \in Sub(n, dep, rt) : Pre(nb, i, d + 1) < Pre(n[z].size, i, d + 1)
    <3>1. \A z \in Sub(n, dep, rt) : Pre(n[z].size, i, d + 1) = 2 * Pre(nb, i, d) + 1
      BY <1>7, <2>1
    <3>2. Pre(nb, i, d + 1) = 2 * Pre(nb, i, d) + 0
      BY <1>6, <2>1
    <3> QED
      BY <1>6, <3>1, <3>2
  <2>5. ASSUME NEW y \in Heads(n), w.rst # NULL,
               \E z \in Sub(n, dep, w.rst) : n[z].size <= n[y].size
        PROVE  n[rt].size <= n[y].size
    <3>1. PICK z \in Sub(n, dep, w.rst) : n[z].size <= n[y].size
      BY <2>5
    <3>2. PICK e \in 0..Bits(i) : /\ e <= d
                                  /\ Pre(nb, i, e) < Pre(n[z].size, i, e)
      BY <1>1, <2>5, <3>1 DEF Descending
    <3>3. z \in Heads(n) /\ n[z].size \in Nat /\ n[y].size \in Nat
      <4>1. z \in Heads(n)
        BY <3>1 DEF Sub
      <4> QED
        BY <4>1, TreeHeadIs
    <3>4. Pre(n[rt].size, i, e) = Pre(nb, i, e)
      <4>1. e \in 0..d
        BY <1>3, <3>2
      <4> QED
        BY <1>3, <2>2, <4>1, AgreeBelow
    <3>5. n[rt].size < n[z].size
      BY <1>3, <2>2, <3>2, <3>3, <3>4, BitOrder
    <3> QED
      BY <2>2, <3>1, <3>3, <3>5
  <2> QED
    BY <2>1, <2>2, <2>4, <2>5
<1>12. to # NULL => to \in Heads(n) /\ n[to].index = i /\ dep[to] = d + 1
                    /\ Pre(n[to].size, i, d + 1) = Pre(nb, i, d + 1)
  <2> SUFFICES ASSUME to # NULL
               PROVE  to \in Heads(n) /\ n[to].index = i /\ dep[to] = d + 1
                      /\ Pre(n[to].size, i, d + 1) = Pre(nb, i, d + 1)
    OBVIOUS
  <2>1. n[x].child[c] # NULL
    BY <1>9
  <2> QED
    BY <1>6, <1>7, <1>9, <2>1
<1>13. ASSUME rst # NULL
       PROVE  /\ n[rst].index = i
              /\ \E e \in 0..Bits(i) :
                   /\ to # NULL => e <= dep[to]
                   /\ \A z \in Sub(n, dep, rst) : Pre(nb, i, e) < Pre(n[z].size, i, e)
  <2>1. CASE rt # NULL /\ rt # to
    <3>1. /\ rst = rt /\ n[rt].index = i
          /\ \A z \in Sub(n, dep, rt) : Pre(nb, i, d + 1) < Pre(n[z].size, i, d + 1)
      BY <1>11, <2>1
    <3>2. to # NULL => d + 1 <= dep[to]
      BY <1>3, <1>12
    <3> QED
      BY <1>5, <3>1, <3>2
  <2>2. CASE ~(rt # NULL /\ rt # to)
    <3>1. rst = w.rst
      BY <1>8, <2>2
    <3>2. PICK e \in 0..Bits(i) : /\ e <= d
                                  /\ \A z \in Sub(n, dep, w.rst) : Pre(nb, i, e) < Pre(n[z].size, i, e)
      BY <1>1, <1>13, <3>1 DEF Descending
    <3>3. n[w.rst].index = i
      BY <1>13, <3>1 DEF Descending
    <3>4. to # NULL => e <= dep[to]
      BY <1>3, <1>12, <3>2
    <3> QED
      BY <3>1, <3>2, <3>3, <3>4
  <2> QED
    BY <2>1, <2>2
<1>14. ASSUME NEW y \in Heads(n), n[y].index = i, n[y].size >= nb
       PROVE  \/ Beaten(n, f, y)
              \/ to # NULL /\ y \in Sub(n, dep, to)
              \/ rst # NULL /\ \E z \in Sub(n, dep, rst) : n[z].size <= n[y].size
  <2>1. CASE Beaten(n, w.fit, y)
    BY <2>1
  <2>2. CASE y = x
    BY <1>1, <1>14, <2>2
  <2>3. CASE y \in Sub(n, dep, x) /\ y # x
    <3>1. PICK b : b = Way(n[y].size, i, d)
      OBVIOUS
    <3>2. b \in {0, 1} /\ n[x].child[b] # NULL /\ y \in Sub(n, dep, n[x].child[b])
      BY <1>1, <1>2, <2>3, <3>1, SubBelow
    <3>3. CASE b = c
      BY <1>9, <3>2, <3>3
    <3>4. CASE b # c
      <4>1. /\ Pre(n[y].size, i, d + 1) = 2 * Pre(nb, i, d) + b
            /\ n[y].size \in Nat
        BY <1>7, <3>2
      <4>2. b = 1 /\ c = 0
        <5> SUFFICES ASSUME b = 0, c = 1 PROVE FALSE
          BY <1>6, <3>2, <3>4
        <5>1. Pre(n[y].size, i, d + 1) < Pre(nb, i, d + 1)
          BY <1>6, <4>1
        <5>2. n[y].size < nb
          BY <1>3, <1>5, <4>1, <5>1, BitOrder
        <5> QED
          BY <1>3, <1>14, <4>1, <5>2
      <4>3. rt # NULL /\ y \in Sub(n, dep, rt)
        BY <1>9, <3>2, <4>2
      <4>4. rt # to
        <5> SUFFICES ASSUME rt = to PROVE FALSE
          OBVIOUS
        <5>1. n[x].child[0] # NULL /\ n[x].child[0] = rt /\ n[x].child[1] = rt /\ n[x].child[1] # NULL
          BY <1>9, <4>2, <4>3
        <5>2. Way(n[rt].size, i, d) = 0
          BY <1>7, <5>1
        <5>3. Way(n[rt].size, i, d) = 1
          BY <1>7, <5>1
        <5> QED
          BY <5>2, <5>3
      <4>5. rst = rt
        BY <1>11, <4>3, <4>4
      <4>6. n[y].size <= n[y].size
        BY <4>1
      <4> QED
        BY <4>3, <4>5, <4>6
    <3> QED
      BY <3>3, <3>4
  <2>4. CASE w.rst # NULL /\ \E z \in Sub(n, dep, w.rst) : n[z].size <= n[y].size
    <3>1. CASE rt # NULL /\ rt # to
      <4>1. rst = rt /\ rt \in Sub(n, dep, rt) /\ n[rt].size <= n[y].size
        BY <1>11, <2>4, <3>1
      <4> QED
        BY <3>1, <4>1
    <3>2. CASE ~(rt # NULL /\ rt # to)
      BY <1>8, <2>4, <3>2
    <3> QED
      BY <3>1, <3>2
  <2> QED
    BY <1>1, <1>14, <2>1, <2>2, <2>3, <2>4 DEF Descending
<1>15. f.v # NULL => n[f.v].index = i
  BY <1>1, <1>2 DEF Descending
<1>16. v.bit = bit_for_tree_index(i) - (d + 1)
  BY <1>2, <1>3, <1>10
<1>17. Descending(n, dep, nb, i, v)
  BY <1>10, <1>12, <1>13, <1>14, <1>15, <1>16 DEF Descending
<1> QED
  BY <1>1, <1>10, <1>12, <1>17

\* The descent is over.
Over(w) == w.at = NULL \/ w.fit.rsize = 0

\* A pass of the descent keeps what it knows, one level down.
LEMMA DescentPassIs ==
    ASSUME NEW F \in SUBSET Chunk, NEW n \in [F -> Node(F)], NEW root, NEW dep,
           IsTrie(n, root, dep), NEW nb \in Large, NEW i \in TreeBin, i = compute_tree_index(nb),
           NEW w \in Walks(n), Descending(n, dep, nb, i, w)
    PROVE  LET v == DescentPass(n, nb, w) IN
           /\ v \in Walks(n) /\ Descending(n, dep, nb, i, v)
           /\ IF Over(w) THEN v = w ELSE Over(v) \/ dep[v.at] = dep[w.at] + 1
<1> DEFINE now == Better(n, w.fit, w.at, nb)
           to == n[w.at].child[SizeBit(nb, w.bit)]
           rt == n[w.at].child[1]
           v == DescentPass(n, nb, w)
<1>1. nb \in 1..MAX_SIZE_T
  BY LargeIs
<1>2. CASE Over(w)
  <2>1. v = w
    BY <1>2 DEF DescentPass, Over
  <2> QED
    BY <1>2, <2>1
<1>3. CASE ~Over(w)
  <2>1. w.at \in Heads(n) /\ w.at # NULL /\ w.fit.rsize # 0 /\ IsFit(n, nb, w.fit)
    BY <1>3 DEF Over, Walks, Descending
  <2>2. /\ IsFit(n, nb, now) /\ now.v \in {w.at, w.fit.v}
        /\ n[w.at].size >= nb => Beaten(n, now, w.at)
        /\ \A y \in Heads(n) : Beaten(n, w.fit, y) => Beaten(n, now, y)
    BY <1>1, <2>1, BetterIs
  <2> HIDE DEF now
  <2>3. CASE now.rsize = 0
    <3>1. v = [w EXCEPT !.fit = now]
      BY <2>1, <2>3 DEF DescentPass, now
    <3> HIDE DEF v
    <3>2. /\ v \in Walks(n) /\ v.at = w.at /\ v.bit = w.bit /\ v.fit = now /\ v.rst = w.rst
      <4>1. now \in [v : Heads(n) \cup {NULL}, rsize : Nat]
        BY <2>2 DEF IsFit
      <4> QED
        BY <3>1, <4>1 DEF Walks
    <3>3. \A y \in Heads(n) : n[y].size >= nb => Beaten(n, now, y)
      BY <1>1, <2>2, <2>3, ExactIs
    <3>4. now.v # NULL => n[now.v].index = i
      BY <2>1, <2>2 DEF Descending
    <3>5. Descending(n, dep, nb, i, v)
      BY <2>1, <2>2, <3>2, <3>3, <3>4 DEF Descending
    <3> QED
      BY <1>3, <2>3, <3>2, <3>5 DEF Over, v
  <2>4. CASE now.rsize # 0
    <3>1. v = [at |-> to, bit |-> w.bit - 1, fit |-> now,
               rst |-> IF rt # NULL /\ rt # to THEN rt ELSE w.rst]
      BY <2>1, <2>4 DEF DescentPass, now
    <3> HIDE DEF v
    <3>2. v \in Walks(n) /\ Descending(n, dep, nb, i, v) /\ (to # NULL => dep[to] = dep[w.at] + 1)
      BY <2>1, <2>2, <2>4, <3>1, DescentOn
    <3>3. v.at = to
      BY <3>1
    <3> QED
      BY <1>3, <3>2, <3>3 DEF Over, v
  <2> QED
    BY <2>3, <2>4
<1> QED
  BY <1>2, <1>3

\* Where the descent for nb ends: below nothing, or with a fit that is exact.
LEMMA DescentIs ==
    ASSUME NEW F \in SUBSET Chunk, NEW u, NEW dep,
           u.node \in [F -> Node(F)], IsTrie(u.node, u.root, dep),
           NEW nb \in Large, NEW i \in TreeBin, i = compute_tree_index(nb)
    PROVE  LET w == Descent(u, nb, i)
               n == u.node
           IN  w \in Walks(n) /\ Descending(n, dep, nb, i, w) /\ Over(w)
<1> DEFINE n == u.node
           D == {w \in Walks(n) : Descending(n, dep, nb, i, w)}
           N == SizeBits + 1
           first == [at |-> u.root[i], bit |-> bit_for_tree_index(i), fit |-> NoFit(nb), rst |-> NULL]
           g == [w \in D |-> DescentPass(n, nb, w)]
<1>1. /\ SizeBits \in Nat /\ N \in Nat /\ bit_for_tree_index(i) \in 0..SizeBits - 1
      /\ nb \in Nat /\ nb \in 1..MAX_SIZE_T
  BY SizesAssumption, BinIs, LargeIs
<1>2. first \in D /\ (first.at # NULL => dep[first.at] = 0)
  <2>1. PICK r : r = u.root[i]
    OBVIOUS
  <2>2. r # NULL => /\ r \in Heads(n) /\ n[r].index = i /\ dep[r] = 0
                    /\ Pre(n[r].size, i, 0) = Pre(nb, i, 0)
    <3> SUFFICES ASSUME r # NULL PROVE /\ r \in Heads(n) /\ n[r].index = i /\ dep[r] = 0
                                       /\ Pre(n[r].size, i, 0) = Pre(nb, i, 0)
      OBVIOUS
    <3>1. r \in Heads(n) /\ n[r].index = i /\ dep[r] = 0
      BY <2>1, RootIs
    <3> QED
      BY <3>1, TreeHeadIs, SameBin
  <2>3. IsFit(n, nb, NoFit(nb)) /\ NoFit(nb).v = NULL
    BY <1>1, NoFitIs
  <2>4. PICK f : f = first
    OBVIOUS
  <2>5. /\ f \in Walks(n) /\ f.at = r /\ f.bit = bit_for_tree_index(i)
        /\ f.fit = NoFit(nb) /\ f.rst = NULL
    BY <1>1, <2>1, <2>2, <2>3, <2>4 DEF Walks, IsFit
  <2>6. ASSUME NEW y \in Heads(n), n[y].index = i PROVE r # NULL /\ y \in Sub(n, dep, r)
    BY <2>1, <2>6, SubRoot
  <2>7. r # NULL => f.bit = bit_for_tree_index(i) - dep[r]
    BY <1>1, <2>2, <2>5
  <2>8. Descending(n, dep, nb, i, f)
    BY <2>2, <2>3, <2>5, <2>6, <2>7 DEF Descending
  <2> QED
    BY <2>2, <2>4, <2>5, <2>8
<1>3. ASSUME NEW w \in D
      PROVE  /\ DescentPass(n, nb, w) \in D
             /\ IF Over(w) THEN DescentPass(n, nb, w) = w
                ELSE Over(DescentPass(n, nb, w)) \/ dep[DescentPass(n, nb, w).at] = dep[w.at] + 1
  <2>1. w \in Walks(n) /\ Descending(n, dep, nb, i, w)
    BY <1>3
  <2> HIDE DEF n
  <2> QED
    BY <2>1, DescentPassIs DEF n
<1>4. g \in [D -> D]
  BY <1>3
<1>5. \E a : a = [k \in 0..N |-> IF k = 0 THEN first ELSE DescentPass(n, nb, a[k - 1])]
  <2> HIDE DEF D, g, first, N
  <2>1. PICK a \in [0..N -> D] : Run(a, N, first, g)
    BY <1>1, <1>2, <1>4, LoopRuns
  <2>2. \A k \in 0..N : k # 0 => g[a[k - 1]] = DescentPass(n, nb, a[k - 1])
    <3>1. \A k \in 0..N : k # 0 => a[k - 1] \in D
      BY <1>1, <2>1
    <3> QED
      BY <3>1 DEF g
  <2>3. a = [k \in 0..N |-> IF k = 0 THEN first ELSE DescentPass(n, nb, a[k - 1])]
    BY <2>1, <2>2 DEF Run
  <2> QED
    BY <2>3
<1>6. PICK a : /\ a = [k \in 0..N |-> IF k = 0 THEN first ELSE DescentPass(n, nb, a[k - 1])]
               /\ Descent(u, nb, i) = a[N]
  <2>1. PICK a : a = CHOOSE b : b = [k \in 0..N |-> IF k = 0 THEN first ELSE DescentPass(n, nb, b[k - 1])]
    OBVIOUS
  <2>2. Descent(u, nb, i) = a[N]
    BY <2>1 DEF Descent, Loop
  <2> HIDE DEF first, N
  <2>3. a = [k \in 0..N |-> IF k = 0 THEN first ELSE DescentPass(n, nb, a[k - 1])]
    BY <1>5, <2>1
  <2> QED
    BY <2>2, <2>3
<1> DEFINE S == {k \in 0..N : a[k] \in D /\ (Over(a[k]) \/ dep[a[k].at] = k)}
<1>7. 0 \in S
  <2>1. a[0] = first
    BY <1>1, <1>6
  <2> HIDE DEF first, D
  <2> QED
    BY <1>1, <1>2, <2>1 DEF Over
<1>8. ASSUME NEW k \in 0..N, k < N, k \in S PROVE k + 1 \in S
  <2>1. k + 1 \in 0..N /\ k + 1 # 0 /\ (k + 1) - 1 = k
    BY <1>1, <1>8
  <2>2. a[k + 1] = DescentPass(n, nb, a[k])
    BY <1>6, <2>1
  <2>3. a[k] \in D /\ (Over(a[k]) \/ dep[a[k].at] = k)
    BY <1>8
  <2> HIDE DEF D
  <2> QED
    BY <1>3, <2>1, <2>2, <2>3
<1>9. N \in S
  <2> HIDE DEF S
  <2> QED
    BY <1>1, <1>7, <1>8, Climb
<1>10. PICK w : w = a[N]
  OBVIOUS
<1>11. w \in Walks(n) /\ Descending(n, dep, nb, i, w) /\ (Over(w) \/ dep[w.at] = N)
  BY <1>9, <1>10
<1>12. Over(w)
  <2> SUFFICES ASSUME ~Over(w), dep[w.at] = N PROVE FALSE
    BY <1>11
  <2>1. w.at \in Heads(n) /\ n[w.at].index = i
    BY <1>11 DEF Over, Walks, Descending
  <2>2. dep[w.at] \in 0..Bits(i)
    BY <2>1, TreeHeadIs
  <2> QED
    BY <1>1, <2>2 DEF Bits
<1> QED
  BY <1>6, <1>10, <1>11, <1>12

\* The least of a set of numbers.
LEMMA MinIs ==
    ASSUME NEW S \in SUBSET Nat, S # {}
    PROVE  Min(S) \in S /\ \A y \in S : Min(S) <= y
<1>1. \E e \in S : \A y \in S : e <= y
  BY Least
<1> QED
  BY <1>1 DEF Min

\* Sizes are in the order of their bins.
LEMMA BinOrder ==
    ASSUME NEW s \in Large, NEW u \in Large, compute_tree_index(s) < compute_tree_index(u)
    PROVE  s < u
<1>1. s \in Nat /\ u \in Nat
  BY LargeIs
<1> SUFFICES ASSUME u <= s PROVE FALSE
  BY <1>1
<1>2. compute_tree_index(u) <= compute_tree_index(s)
  BY IndexOrder
<1>3. compute_tree_index(u) \in Nat /\ compute_tree_index(s) \in Nat
  BY BinIs
<1> QED
  BY <1>2, <1>3

\* The treemap marks the bins that have a root.
Marks(u) == u.map = {i \in TreeBin : u.root[i] # NULL}

\* The least marked bin of some has the smallest sizes of them all.
LEMMA LeastBin ==
    ASSUME NEW F \in SUBSET Chunk, NEW u, NEW dep,
           u.node \in [F -> Node(F)], IsTrie(u.node, u.root, dep), Marks(u),
           NEW L \in SUBSET u.map, L # {}
    PROVE  LET r == u.root[Min(L)]
               n == u.node
           IN  /\ r # NULL /\ r \in Heads(n) /\ n[r].index = Min(L) /\ Min(L) \in L
               /\ \A y \in Heads(n) : n[y].index \in L =>
                    \E z \in Sub(n, dep, r) : n[z].size <= n[y].size
<1> DEFINE n == u.node
<1>1. L \in SUBSET Nat /\ L \subseteq u.map
  BY HalfIs DEF Marks, TreeBin
<1>2. PICK m : m = Min(L)
  OBVIOUS
<1>3. m \in L /\ m \in Nat /\ \A y \in L : m <= y
  BY <1>1, <1>2, MinIs
<1>4. m \in TreeBin /\ u.root[m] # NULL
  BY <1>1, <1>3 DEF Marks
<1>5. PICK r : r = u.root[m]
  OBVIOUS
<1>6. r # NULL /\ r \in Heads(n) /\ n[r].index = m
  BY <1>4, <1>5, RootIs
<1>7. ASSUME NEW y \in Heads(n), n[y].index \in L
      PROVE  \E z \in Sub(n, dep, r) : n[z].size <= n[y].size
  <2>1. n[y].size \in Nat
    BY TreeHeadIs
  <2>2. CASE n[y].index = m
    <3>1. y \in Sub(n, dep, r)
      BY <1>5, <2>2, SubRoot
    <3>2. n[y].size <= n[y].size
      BY <2>1
    <3> QED
      BY <3>1, <3>2
  <2>3. CASE n[y].index # m
    <3>1. m < n[y].index
      BY <1>1, <1>3, <1>7, <2>3
    <3>2. /\ n[y].size \in Large /\ n[r].size \in Large /\ n[r].size \in Nat
          /\ n[y].index = compute_tree_index(n[y].size) /\ n[r].index = compute_tree_index(n[r].size)
      BY <1>6, TreeHeadIs
    <3>3. n[r].size < n[y].size
      BY <1>6, <3>1, <3>2, BinOrder
    <3>4. r \in Sub(n, dep, r)
      BY <1>6, SubSelf
    <3> QED
      BY <2>1, <3>2, <3>3, <3>4
  <2> QED
    BY <2>2, <2>3
<1> QED
  BY <1>2, <1>3, <1>5, <1>6, <1>7

\* tmalloc_small finds a node of the smallest size.
LEMMA SmallFitIs ==
    ASSUME NEW F \in SUBSET Chunk, NEW u, NEW dep,
           u.node \in [F -> Node(F)], IsTrie(u.node, u.root, dep), Marks(u),
           NEW nb \in 1..MAX_SIZE_T, nb < MIN_LARGE_SIZE, u.map # {}
    PROVE  LET f == SmallFit(u, nb)
               n == u.node
           IN  IsFit(n, nb, f) /\ \A y \in Heads(n) : n[y].size >= nb => Beaten(n, f, y)
<1> DEFINE n == u.node
           r == u.root[Min(u.map)]
           w == [at |-> r, fit |-> NoFit(nb)]
<1>1. /\ r # NULL /\ r \in Heads(n)
      /\ \A y \in Heads(n) : n[y].index \in u.map =>
           \E z \in Sub(n, dep, r) : n[z].size <= n[y].size
  <2>1. u.map \in SUBSET u.map
    OBVIOUS
  <2> HIDE DEF n, r
  <2> QED
    BY <2>1, LeastBin DEF n, r
<1>2. IsFit(n, nb, NoFit(nb))
  BY NoFitIs
<1>3. ASSUME NEW y \in Heads(n) PROVE n[y].index \in u.map /\ n[y].size >= nb
  <2>1. u.root[n[y].index] # NULL /\ n[y].index \in TreeBin
    BY SubRoot, TreeHeadIs
  <2>2. n[y].size \in Large /\ n[y].size \in Nat
    BY TreeHeadIs
  <2>3. 2 ^ TREEBIN_SHIFT \in Nat
    BY Power, SizesAssumption
  <2> QED
    BY <2>1, <2>2, <2>3 DEF Marks, Large, MIN_LARGE_SIZE
<1>4. Sub(n, dep, r) \subseteq Heads(n)
  BY DEF Sub
<1> HIDE DEF n, r
<1>5. Searching(n, dep, nb, Heads(n), w)
  <2>1. w.at = r /\ w.fit = NoFit(nb)
    OBVIOUS
  <2> HIDE DEF w
  <2> QED
    BY <1>1, <1>2, <1>3, <1>4, <2>1 DEF Searching
<1>6. LET f == LeftmostFit(n, NoFit(nb), r, nb) IN
      IsFit(n, nb, f) /\ \A y \in Heads(n) : n[y].size >= nb => Beaten(n, f, y)
  BY <1>5, LeftmostIs DEF n
<1> QED
  BY <1>6 DEF SmallFit, n, r

\* tmalloc_large finds a node of the smallest size that is enough.
LEMMA LargeFitIs ==
    ASSUME NEW F \in SUBSET Chunk, NEW u, NEW dep,
           u.node \in [F -> Node(F)], IsTrie(u.node, u.root, dep), Marks(u),
           NEW nb \in Large
    PROVE  LET f == LargeFit(u, nb)
               n == u.node
           IN  IsFit(n, nb, f) /\ \A y \in Heads(n) : n[y].size >= nb => Beaten(n, f, y)
<1> DEFINE n == u.node
           i == compute_tree_index(nb)
<1>1. nb \in Nat /\ nb \in 1..MAX_SIZE_T /\ i \in TreeBin /\ bit_for_tree_index(i) \in Nat /\ i \in Nat
  BY LargeIs, BinIs DEF TreeBin
<1>2. PICK d : d = Descent(u, nb, i)
  OBVIOUS
<1>3. d \in Walks(n) /\ Descending(n, dep, nb, i, d) /\ Over(d)
  BY <1>1, <1>2, DescentIs
<1> DEFINE left == {j \in u.map : j > i}
           st == IF d.at = NULL THEN d.rst ELSE d.at
           at == IF st = NULL /\ d.fit.v = NULL /\ left # {} THEN u.root[Min(left)] ELSE st
           w == [at |-> at, fit |-> d.fit]
<1>4. IsFit(n, nb, d.fit) /\ st \in Heads(n) \cup {NULL}
  BY <1>3 DEF Descending, Walks
<1>5. left # {} => /\ u.root[Min(left)] # NULL /\ u.root[Min(left)] \in Heads(n)
                   /\ n[u.root[Min(left)]].index > i
                   /\ \A y \in Heads(n) : n[y].index \in left =>
                        \E z \in Sub(n, dep, u.root[Min(left)]) : n[z].size <= n[y].size
  <2> HIDE DEF n
  <2> SUFFICES ASSUME left # {}
               PROVE  /\ u.root[Min(left)] # NULL /\ u.root[Min(left)] \in Heads(n)
                      /\ n[u.root[Min(left)]].index > i
                      /\ \A y \in Heads(n) : n[y].index \in left =>
                           \E z \in Sub(n, dep, u.root[Min(left)]) : n[z].size <= n[y].size
    OBVIOUS
  <2>1. left \in SUBSET u.map
    OBVIOUS
  <2>2. \A j \in left : j > i
    OBVIOUS
  <2> HIDE DEF left
  <2> QED
    BY <2>1, <2>2, LeastBin DEF n
<1>6. ASSUME NEW y \in Heads(n)
      PROVE  /\ n[y].index \in u.map /\ n[y].size \in Nat /\ n[y].index \in Nat
             /\ n[y].index < i => n[y].size < nb
             /\ n[y].index > i => nb < n[y].size
             /\ \A z \in Heads(n) : n[z].index < n[y].index => n[z].size < n[y].size
  <2>1. u.root[n[y].index] # NULL /\ n[y].index \in TreeBin
    BY SubRoot, TreeHeadIs
  <2>2. /\ n[y].size \in Large /\ n[y].size \in Nat /\ n[y].index = compute_tree_index(n[y].size)
        /\ \A z \in Heads(n) : n[z].size \in Large /\ n[z].index = compute_tree_index(n[z].size)
    BY TreeHeadIs
  <2>3. n[y].index \in u.map /\ n[y].index \in Nat
    BY <2>1, HalfIs DEF Marks, TreeBin
  <2> QED
    BY <2>2, <2>3, BinOrder
<1>7. d.at # NULL => d.fit.rsize = 0
  BY <1>3 DEF Over
<1>8. d.fit.rsize = 0 => d.fit.v # NULL
  BY <1>1, <1>4, NoFitIs DEF IsFit, NoFit
<1> HIDE DEF n, i, left
<1>9. at \in Heads(n) \cup {NULL}
  BY <1>4, <1>5
<1>10. ASSUME d.fit.rsize # 0, at # NULL, NEW z \in Sub(n, dep, at) PROVE n[z].size >= nb
  <2>1. z \in Heads(n) /\ n[z].index = n[at].index /\ n[z].size \in Nat
    BY <1>6 DEF Sub
  <2>2. d.at = NULL /\ st = d.rst
    BY <1>7, <1>10
  <2>3. CASE at = st
    <3>1. d.rst # NULL /\ at = d.rst
      BY <1>10, <2>2, <2>3
    <3>2. PICK e \in 0..Bits(i) : Pre(nb, i, e) < Pre(n[z].size, i, e)
      BY <1>3, <1>10, <3>1 DEF Descending
    <3>3. nb < n[z].size
      BY <1>1, <2>1, <3>2, BitOrder
    <3> QED
      BY <1>1, <2>1, <3>3
  <2>4. CASE at # st
    <3>1. n[at].index > i
      BY <1>5, <2>4
    <3>2. nb < n[z].size
      BY <1>6, <2>1, <3>1
    <3> QED
      BY <1>1, <2>1, <3>2
  <2> QED
    BY <2>3, <2>4
<1>11. ASSUME NEW y \in Heads(n), n[y].size >= nb
       PROVE  \/ Beaten(n, d.fit, y)
              \/ at # NULL /\ \E z \in Sub(n, dep, at) : n[z].size <= n[y].size
  <2>1. n[y].size \in Nat /\ n[y].index \in Nat /\ ~(n[y].index < i)
    BY <1>1, <1>6, <1>11
  <2>2. CASE d.at # NULL
    <3>1. Beaten(n, d.fit, y)
      BY <1>1, <1>4, <1>7, <1>11, <2>2, ExactIs DEF n
    <3> QED
      BY <3>1
  <2>3. CASE d.at = NULL /\ n[y].index = i
    <3>1. Beaten(n, d.fit, y) \/ (d.rst # NULL /\ \E z \in Sub(n, dep, d.rst) : n[z].size <= n[y].size)
      BY <1>3, <1>11, <2>3 DEF Descending
    <3> QED
      BY <2>3, <3>1
  <2>4. CASE d.at = NULL /\ n[y].index # i
    <3>1. n[y].index > i /\ n[y].index \in left
      <4>1. n[y].index > i
        BY <1>1, <2>1, <2>4
      <4> QED
        BY <1>6, <4>1 DEF left
    <3>2. CASE d.fit.v # NULL
      <4>1. d.fit.v \in Heads(n) /\ n[d.fit.v].index = i
        BY <1>3, <1>4, <3>2 DEF Descending, IsFit
      <4>2. n[d.fit.v].size < n[y].size /\ n[d.fit.v].size \in Nat
        BY <1>1, <1>6, <2>1, <3>1, <4>1
      <4> QED
        BY <2>1, <3>2, <4>2 DEF Beaten
    <3>3. CASE d.fit.v = NULL /\ st # NULL
      <4>1. at = d.rst /\ d.rst # NULL /\ d.rst \in Heads(n) /\ n[d.rst].index = i
        BY <1>3, <1>4, <2>4, <3>3 DEF Descending
      <4>2. n[d.rst].size < n[y].size /\ n[d.rst].size \in Nat
        BY <1>1, <1>6, <2>1, <3>1, <4>1
      <4>3. d.rst \in Sub(n, dep, d.rst)
        BY <4>1, SubSelf DEF n
      <4> QED
        BY <2>1, <4>1, <4>2, <4>3
    <3>4. CASE d.fit.v = NULL /\ st = NULL
      <4>1. at = u.root[Min(left)] /\ left # {}
        BY <3>1, <3>4
      <4> QED
        BY <1>5, <3>1, <4>1
    <3> QED
      BY <3>2, <3>3, <3>4
  <2> QED
    BY <2>2, <2>3, <2>4
<1>12. Searching(n, dep, nb, Heads(n), w)
  <2>1. w.at = at /\ w.fit = d.fit
    OBVIOUS
  <2> HIDE DEF w, at, st
  <2> QED
    BY <1>4, <1>9, <1>10, <1>11, <2>1 DEF Searching
<1>13. LET f == LeftmostFit(n, d.fit, at, nb) IN
       IsFit(n, nb, f) /\ \A y \in Heads(n) : n[y].size >= nb => Beaten(n, f, y)
  <2> HIDE DEF at, st
  <2> QED
    BY <1>1, <1>12, LeftmostIs DEF n
<1>14. LargeFit(u, nb) = LeftmostFit(n, d.fit, at, nb)
  BY <1>2 DEF LargeFit, FitFrom, Searched, n, i, left
<1> QED
  BY <1>13, <1>14 DEF n

-----------------------------------------------------------------------------
(* What becomes of a trie. *)

\* The same node in the same place.
Same(n, m, y) == /\ m[y].size = n[y].size /\ m[y].index = n[y].index
                 /\ m[y].parent = n[y].parent /\ m[y].child = n[y].child

\* A trie whose nodes do not change.
LEMMA TrieStays ==
    ASSUME NEW n, NEW m, NEW root, NEW dep, IsTrie(n, root, dep), Heads(m) = Heads(n),
           \A y \in Heads(n) : Same(n, m, y)
    PROVE  IsTrie(m, root, dep)
<1>1. ASSUME NEW x \in Heads(m)
      PROVE  /\ m[x].index = compute_tree_index(m[x].size) /\ dep[x] <= Bits(m[x].index)
             /\ Hangs(m, root, dep, x) /\ Holds(m, dep, x)
  <2>1. /\ n[x].index = compute_tree_index(n[x].size) /\ dep[x] <= Bits(n[x].index)
        /\ Hangs(n, root, dep, x) /\ Holds(n, dep, x)
    BY DEF IsTrie
  <2>2. Hangs(m, root, dep, x)
    BY <2>1 DEF Hangs, Same
  <2>3. Holds(m, dep, x)
    BY <2>1 DEF Holds, Same
  <2> QED
    BY <2>1, <2>2, <2>3 DEF Same
<1>2. \A i \in TreeBin : root[i] # NULL =>
        root[i] \in Heads(m) /\ m[root[i]].parent = BIN /\ m[root[i]].index = i
  BY DEF IsTrie, Same
<1>3. \A x, y \in Heads(m) : m[x].size = m[y].size => x = y
  BY DEF IsTrie, Same
<1> QED
  BY <1>1, <1>2, <1>3 DEF IsTrie

\* m has a new leaf x where node p of n has no child, on the way of s.
Hung(n, dep, m, x, p, s, i, c) ==
    /\ x \notin Heads(n) /\ x # NULL /\ p \in Heads(n) /\ s \in Large /\ i = compute_tree_index(s)
    /\ n[p].index = i /\ Pre(s, i, dep[p]) = Pre(n[p].size, i, dep[p])
    /\ c \in {0, 1} /\ c = Way(s, i, dep[p]) /\ n[p].child[c] = NULL
    /\ \A y \in Heads(n) : n[y].size # s
    /\ Heads(m) = Heads(n) \cup {x}
    /\ m[x].size = s /\ m[x].index = i /\ m[x].parent = p /\ Childless(m, x)
    /\ \A y \in Heads(n) : y # p => Same(n, m, y)
    /\ m[p].size = n[p].size /\ m[p].index = i /\ m[p].parent = n[p].parent
    /\ m[p].child = [n[p].child EXCEPT ![c] = x]

\* A trie with one leaf more is a trie.
LEMMA LeafAdded ==
    ASSUME NEW F \in SUBSET Chunk, NEW n \in [F -> Node(F)], NEW root, NEW dep,
           IsTrie(n, root, dep), NEW m, NEW x, NEW p, NEW s, NEW i, NEW c,
           Hung(n, dep, m, x, p, s, i, c)
    PROVE  \E e : IsTrie(m, root, e)
<1> USE DEF Hung
<1> DEFINE e == [y \in Heads(n) \cup {x} |-> IF y = x THEN dep[p] + 1 ELSE dep[y]]
<1>1. /\ p \in F /\ p # BIN /\ p # NULL /\ p # x /\ n[p] \in Node(F)
      /\ n[p].size \in Nat /\ s \in Nat /\ bit_for_tree_index(i) \in Nat /\ dep[p] \in 0..Bits(i)
  BY TreeHeadIs, LargeIs
<1>2. dep[p] \in 0..bit_for_tree_index(i) /\ dep[p] \in Nat
  <2>1. dep[p] # Bits(i)
    BY <1>1, AllBits
  <2> QED
    BY <1>1, <2>1 DEF Bits
<1>3. e \in [Heads(m) -> Nat] /\ e[x] = dep[p] + 1 /\ \A y \in Heads(n) : e[y] = dep[y]
  <2>1. \A y \in Heads(n) : dep[y] \in Nat
    BY DEF IsTrie
  <2> QED
    BY <1>2, <2>1
<1> HIDE DEF e
<1>4. m[p].child[c] = x /\ \A a \in {0, 1} : a # c => m[p].child[a] = n[p].child[a]
  BY <1>1 DEF Node
<1>5. \A y \in Heads(n) : m[y].size = n[y].size /\ m[y].index = n[y].index /\ m[y].parent = n[y].parent
  BY DEF Same
<1>6. ASSUME NEW y \in Heads(n)
      PROVE  /\ m[y].index = compute_tree_index(m[y].size) /\ e[y] <= Bits(m[y].index)
             /\ Hangs(m, root, e, y) /\ Holds(m, e, y)
  <2>1. /\ n[y].index = compute_tree_index(n[y].size) /\ dep[y] <= Bits(n[y].index)
        /\ Hangs(n, root, dep, y) /\ Holds(n, dep, y) /\ y # NULL
    BY TreeHeadIs DEF IsTrie
  <2>2. Hangs(m, root, e, y)
    <3>1. CASE n[y].parent = BIN
      BY <1>3, <1>5, <2>1, <3>1 DEF Hangs
    <3>2. CASE n[y].parent # BIN
      <4>1. PICK q : q = n[y].parent
        OBVIOUS
      <4>2. PICK a : a = Way(n[y].size, n[y].index, dep[q])
        OBVIOUS
      <4>3. /\ q \in Heads(n) /\ n[q].index = n[y].index /\ dep[y] = dep[q] + 1
            /\ Pre(n[y].size, n[y].index, dep[q]) = Pre(n[q].size, n[y].index, dep[q])
            /\ n[q].child[a] = y
        BY <2>1, <3>2, <4>1, <4>2 DEF Hangs
      <4>4. a \in {0, 1}
        <5>1. dep[y] # 0
          BY <4>3 DEF IsTrie
        <5>2. dep[q] \in 0..bit_for_tree_index(n[y].index) /\ bit_for_tree_index(n[y].index) \in Nat
              /\ n[y].size \in Nat
          BY <4>1, <5>1, ParentIs, TreeHeadIs
        <5> QED
          BY <4>2, <5>2, NextBit
      <4>5. m[q].child[a] = y
        BY <1>4, <2>1, <4>3, <4>4 DEF Same
      <4> QED
        BY <1>3, <1>5, <3>2, <4>1, <4>2, <4>3, <4>5 DEF Hangs
    <3> QED
      BY <3>1, <3>2
  <2>3. Holds(m, e, y)
    <3> SUFFICES ASSUME NEW a \in {0, 1}, m[y].child[a] # NULL
                 PROVE  LET z == m[y].child[a] IN
                        z \in Heads(m) /\ m[z].parent = y /\ Way(m[z].size, m[y].index, e[y]) = a
      BY DEF Holds
    <3>1. CASE y = p /\ a = c
      BY <1>3, <1>4, <3>1
    <3>2. CASE ~(y = p /\ a = c)
      <4>1. m[y].child[a] = n[y].child[a]
        BY <1>4, <3>2 DEF Same
      <4>2. PICK z : z = n[y].child[a]
        OBVIOUS
      <4>3. z \in Heads(n) /\ n[z].parent = y /\ Way(n[z].size, n[y].index, dep[y]) = a
        BY <2>1, <4>1, <4>2 DEF Holds
      <4> QED
        BY <1>3, <1>5, <4>1, <4>2, <4>3
    <3> QED
      BY <3>1, <3>2
  <2> QED
    BY <1>3, <1>5, <2>1, <2>2, <2>3
<1>7. /\ m[x].index = compute_tree_index(m[x].size) /\ e[x] <= Bits(m[x].index)
      /\ Hangs(m, root, e, x) /\ Holds(m, e, x)
  <2>1. e[x] <= Bits(i)
    BY <1>1, <1>2, <1>3 DEF Bits
  <2>2. Hangs(m, root, e, x)
    BY <1>1, <1>3, <1>4 DEF Hangs
  <2>3. Holds(m, e, x)
    BY DEF Holds, Childless
  <2> QED
    BY <2>1, <2>2, <2>3
<1>8. \A j \in TreeBin : root[j] # NULL =>
        root[j] \in Heads(m) /\ m[root[j]].parent = BIN /\ m[root[j]].index = j
  BY <1>5 DEF IsTrie
<1>9. \A y, z \in Heads(m) : m[y].size = m[z].size => y = z
  BY <1>5 DEF IsTrie
<1>10. IsTrie(m, root, e)
  BY <1>3, <1>6, <1>7, <1>8, <1>9 DEF IsTrie
<1> QED
  BY <1>10

\* A root for a bin that has none.
LEMMA RootAdded ==
    ASSUME NEW F \in SUBSET Chunk, NEW n \in [F -> Node(F)], NEW root, NEW dep,
           IsTrie(n, root, dep), NEW m, NEW x, x \notin Heads(n), x # NULL,
           NEW s \in Large, NEW i, i = compute_tree_index(s), root[i] = NULL,
           Heads(m) = Heads(n) \cup {x},
           m[x].size = s, m[x].index = i, m[x].parent = BIN, Childless(m, x),
           \A y \in Heads(n) : Same(n, m, y),
           NEW newRoot, newRoot[i] = x, \A j \in TreeBin : j # i => newRoot[j] = root[j]
    PROVE  \E e : IsTrie(m, newRoot, e)
<1> DEFINE e == [y \in Heads(n) \cup {x} |-> IF y = x THEN 0 ELSE dep[y]]
<1>1. e \in [Heads(m) -> Nat] /\ e[x] = 0 /\ \A y \in Heads(n) : e[y] = dep[y]
  <2>1. \A y \in Heads(n) : dep[y] \in Nat
    BY DEF IsTrie
  <2> QED
    BY <2>1
<1> HIDE DEF e
<1>2. s \in Nat /\ bit_for_tree_index(i) \in Nat /\ i \in TreeBin
  BY LargeIs, BinIs DEF TreeBin
<1>3. ASSUME NEW y \in Heads(n)
      PROVE  /\ m[y].index = compute_tree_index(m[y].size) /\ e[y] <= Bits(m[y].index)
             /\ Hangs(m, newRoot, e, y) /\ Holds(m, e, y) /\ n[y].index # i
  <2>1. /\ n[y].index = compute_tree_index(n[y].size) /\ dep[y] <= Bits(n[y].index)
        /\ Hangs(n, root, dep, y) /\ Holds(n, dep, y) /\ y # NULL /\ n[y].index \in TreeBin
    BY TreeHeadIs DEF IsTrie
  <2>2. n[y].index # i
    BY SubRoot
  <2>3. Hangs(m, newRoot, e, y)
    BY <1>1, <2>1, <2>2 DEF Hangs, Same
  <2>4. Holds(m, e, y)
    BY <1>1, <2>1 DEF Holds, Same
  <2> QED
    BY <1>1, <2>1, <2>2, <2>3, <2>4 DEF Same
<1>4. /\ m[x].index = compute_tree_index(m[x].size) /\ e[x] <= Bits(m[x].index)
      /\ Hangs(m, newRoot, e, x) /\ Holds(m, e, x)
  <2>1. e[x] <= Bits(i)
    BY <1>1, <1>2 DEF Bits
  <2>2. Hangs(m, newRoot, e, x)
    BY <1>1 DEF Hangs
  <2>3. Holds(m, e, x)
    BY DEF Holds, Childless
  <2> QED
    BY <2>1, <2>2, <2>3
<1>5. \A j \in TreeBin : newRoot[j] # NULL =>
        newRoot[j] \in Heads(m) /\ m[newRoot[j]].parent = BIN /\ m[newRoot[j]].index = j
  BY DEF IsTrie, Same
<1>6. \A y, z \in Heads(m) : m[y].size = m[z].size => y = z
  <2>1. \A y \in Heads(n) : m[y].size # m[x].size
    BY <1>3 DEF Same
  <2> QED
    BY <2>1 DEF IsTrie, Same
<1>7. IsTrie(m, newRoot, e)
  BY <1>1, <1>3, <1>4, <1>5, <1>6 DEF IsTrie
<1> QED
  BY <1>7

\* A leaf r is cut off: what named it names nothing.
CutOff(n, root, m, newRoot, r) ==
    /\ Childless(n, r) /\ Heads(m) = Heads(n) \ {r}
    /\ \A y \in Heads(m) : /\ m[y].size = n[y].size /\ m[y].index = n[y].index
                           /\ m[y].parent = n[y].parent
                           /\ \A a \in {0, 1} : m[y].child[a] =
                                IF n[y].child[a] = r THEN NULL ELSE n[y].child[a]
    /\ \A j \in TreeBin : newRoot[j] = IF root[j] = r THEN NULL ELSE root[j]

\* A trie with one leaf less is a trie.
LEMMA LeafRemoved ==
    ASSUME NEW F \in SUBSET Chunk, NEW n \in [F -> Node(F)], NEW root, NEW dep,
           IsTrie(n, root, dep), NEW m, NEW newRoot, NEW r \in Heads(n),
           CutOff(n, root, m, newRoot, r)
    PROVE  IsTrie(m, newRoot, [y \in Heads(m) |-> dep[y]])
<1> USE DEF CutOff
<1> DEFINE e == [y \in Heads(m) |-> dep[y]]
<1>1. e \in [Heads(m) -> Nat] /\ \A y \in Heads(m) : e[y] = dep[y]
  BY DEF IsTrie
<1> HIDE DEF e
<1>2. ASSUME NEW y \in Heads(m)
      PROVE  /\ m[y].index = compute_tree_index(m[y].size) /\ e[y] <= Bits(m[y].index)
             /\ Hangs(m, newRoot, e, y) /\ Holds(m, e, y)
  <2>1. /\ n[y].index = compute_tree_index(n[y].size) /\ dep[y] <= Bits(n[y].index)
        /\ Hangs(n, root, dep, y) /\ Holds(n, dep, y) /\ y # NULL /\ n[y].index \in TreeBin
        /\ y # r /\ y \in Heads(n)
    BY TreeHeadIs DEF IsTrie
  <2>2. Hangs(m, newRoot, e, y)
    <3>1. CASE n[y].parent = BIN
      BY <1>1, <2>1, <3>1 DEF Hangs
    <3>2. CASE n[y].parent # BIN
      <4>1. PICK q : q = n[y].parent
        OBVIOUS
      <4>2. PICK a : a = Way(n[y].size, n[y].index, dep[q])
        OBVIOUS
      <4>3. /\ q \in Heads(n) /\ n[q].index = n[y].index /\ dep[y] = dep[q] + 1
            /\ Pre(n[y].size, n[y].index, dep[q]) = Pre(n[q].size, n[y].index, dep[q])
            /\ n[q].child[a] = y
        BY <2>1, <3>2, <4>1, <4>2 DEF Hangs
      <4>4. a \in {0, 1}
        <5>1. dep[y] # 0
          BY <4>3 DEF IsTrie
        <5>2. dep[q] \in 0..bit_for_tree_index(n[y].index) /\ bit_for_tree_index(n[y].index) \in Nat
              /\ n[y].size \in Nat
          BY <2>1, <4>1, <5>1, ParentIs, TreeHeadIs
        <5> QED
          BY <4>2, <5>2, NextBit
      <4>5. q # r
        BY <2>1, <4>3, <4>4 DEF Childless
      <4> QED
        BY <1>1, <2>1, <3>2, <4>1, <4>2, <4>3, <4>4, <4>5 DEF Hangs
    <3> QED
      BY <3>1, <3>2
  <2>3. Holds(m, e, y)
    <3> SUFFICES ASSUME NEW a \in {0, 1}, m[y].child[a] # NULL
                 PROVE  LET z == m[y].child[a] IN
                        z \in Heads(m) /\ m[z].parent = y /\ Way(m[z].size, m[y].index, e[y]) = a
      BY DEF Holds
    <3>1. PICK z : z = n[y].child[a]
      OBVIOUS
    <3>2. m[y].child[a] = z /\ z # r /\ z # NULL
      BY <2>1, <3>1
    <3>3. z \in Heads(n) /\ n[z].parent = y /\ Way(n[z].size, n[y].index, dep[y]) = a
      BY <2>1, <3>1, <3>2 DEF Holds
    <3> QED
      BY <1>1, <2>1, <3>2, <3>3
  <2> QED
    BY <1>1, <2>1, <2>2, <2>3
<1>3. \A j \in TreeBin : newRoot[j] # NULL =>
        newRoot[j] \in Heads(m) /\ m[newRoot[j]].parent = BIN /\ m[newRoot[j]].index = j
  BY DEF IsTrie
<1>4. \A y, z \in Heads(m) : m[y].size = m[z].size => y = z
  BY DEF IsTrie
<1>5. IsTrie(m, newRoot, e)
  BY <1>1, <1>2, <1>3, <1>4 DEF IsTrie
<1> QED
  BY <1>5 DEF e

\* r takes the place of x: what named x names r.
Replaces(n, root, dep, m, newRoot, x, r) ==
    /\ r \notin Heads(n) /\ r # NULL /\ r # BIN
    /\ Heads(m) = (Heads(n) \ {x}) \cup {r}
    /\ \A y \in Heads(n) : y # x =>
         /\ m[y].size = n[y].size /\ m[y].index = n[y].index
         /\ m[y].parent = IF n[y].parent = x THEN r ELSE n[y].parent
         /\ \A a \in {0, 1} : m[y].child[a] = IF n[y].child[a] = x THEN r ELSE n[y].child[a]
    /\ m[r].size \in Large /\ m[r].index = compute_tree_index(m[r].size)
    /\ m[r].index = n[x].index /\ m[r].parent = n[x].parent
    /\ Pre(m[r].size, n[x].index, dep[x]) = Pre(n[x].size, n[x].index, dep[x])
    /\ \A a \in {0, 1} : m[r].child[a] = n[x].child[a]
    /\ \A y \in Heads(n) : y # x => n[y].size # m[r].size
    /\ \A j \in TreeBin : newRoot[j] = IF root[j] = x THEN r ELSE root[j]

\* A trie with r in the place of x, whose size has the same bits up to there, is a trie.
LEMMA NodeReplaced ==
    ASSUME NEW F \in SUBSET Chunk, NEW n \in [F -> Node(F)], NEW root, NEW dep,
           IsTrie(n, root, dep), NEW m, NEW newRoot, NEW x \in Heads(n), NEW r,
           Replaces(n, root, dep, m, newRoot, x, r)
    PROVE  \E e : IsTrie(m, newRoot, e)
<1> USE DEF Replaces
<1> DEFINE e == [y \in (Heads(n) \ {x}) \cup {r} |-> IF y = r THEN dep[x] ELSE dep[y]]
<1>1. /\ e \in [Heads(m) -> Nat] /\ e[r] = dep[x]
      /\ \A y \in Heads(n) : y # x => e[y] = dep[y]
  <2>1. \A y \in Heads(n) : dep[y] \in Nat
    BY DEF IsTrie
  <2> QED
    BY <2>1
<1> HIDE DEF e
<1>2. PICK i : i = n[x].index
  OBVIOUS
<1>3. /\ x # NULL /\ x # BIN /\ n[x].size \in Nat /\ m[r].size \in Nat /\ i \in TreeBin
      /\ bit_for_tree_index(i) \in Nat /\ dep[x] \in 0..Bits(i)
      /\ Hangs(n, root, dep, x) /\ Holds(n, dep, x)
  BY <1>2, TreeHeadIs, LargeIs
\* The way to r is the way to x.
<1>4. Hangs(m, newRoot, e, r)
  <2>1. CASE n[x].parent = BIN
    <3>1. root[i] = x /\ dep[x] = 0
      BY <1>2, <1>3, <2>1 DEF Hangs
    <3> QED
      BY <1>1, <1>2, <1>3, <2>1, <3>1 DEF Hangs
  <2>2. CASE n[x].parent # BIN
    <3>1. PICK q : q = n[x].parent
      OBVIOUS
    <3>2. PICK a : a = Way(n[x].size, i, dep[q])
      OBVIOUS
    <3>3. /\ q \in Heads(n) /\ n[q].index = i /\ dep[x] = dep[q] + 1
          /\ Pre(n[x].size, i, dep[q]) = Pre(n[q].size, i, dep[q])
          /\ n[q].child[a] = x
      BY <1>2, <1>3, <2>2, <3>1, <3>2 DEF Hangs
    <3>4. dep[q] \in Nat
      BY <3>3 DEF IsTrie
    <3>5. dep[q] \in 0..bit_for_tree_index(i) /\ q # x
      BY <1>3, <3>3, <3>4 DEF Bits
    <3>6. Pre(m[r].size, i, dep[q]) = Pre(n[x].size, i, dep[q]) /\ Way(m[r].size, i, dep[q]) = a
      BY <1>2, <1>3, <3>2, <3>3, <3>5, FewerBits
    <3>7. a \in {0, 1}
      BY <1>3, <3>2, <3>5, NextBit
    <3>8. m[q].child[a] = r /\ m[q].index = i /\ m[q].size = n[q].size /\ e[q] = dep[q]
          /\ q \in Heads(m) /\ m[r].parent = q
      BY <1>1, <1>2, <3>1, <3>3, <3>5, <3>7
    <3>9. e[r] = e[q] + 1 /\ m[r].index = i
      BY <1>1, <1>2, <3>3, <3>8
    <3> QED
      BY <1>2, <2>2, <3>1, <3>3, <3>6, <3>8, <3>9 DEF Hangs
  <2> QED
    BY <2>1, <2>2
<1>5. Holds(m, e, r)
  <2> SUFFICES ASSUME NEW a \in {0, 1}, m[r].child[a] # NULL
               PROVE  LET z == m[r].child[a] IN
                      z \in Heads(m) /\ m[z].parent = r /\ Way(m[z].size, m[r].index, e[r]) = a
    BY DEF Holds
  <2>1. PICK z : z = n[x].child[a]
    OBVIOUS
  <2>2. z \in Heads(n) /\ n[z].parent = x /\ Way(n[z].size, i, dep[x]) = a /\ m[r].child[a] = z
        /\ n[x].child[a] # NULL
    BY <1>2, <1>3, <2>1 DEF Holds
  <2>3. z # x
    <3>1. n[x].child[a] # NULL
      BY <2>2
    <3>2. dep[n[x].child[a]] = dep[x] + 1
      BY <3>1, SubChild
    <3> QED
      BY <1>3, <2>1, <3>2
  <2> QED
    BY <1>1, <1>2, <2>2, <2>3
<1>6. ASSUME NEW y \in Heads(n), y # x
      PROVE  /\ m[y].index = compute_tree_index(m[y].size) /\ e[y] <= Bits(m[y].index)
             /\ Hangs(m, newRoot, e, y) /\ Holds(m, e, y)
  <2>1. /\ n[y].index = compute_tree_index(n[y].size) /\ dep[y] <= Bits(n[y].index)
        /\ Hangs(n, root, dep, y) /\ Holds(n, dep, y) /\ y # NULL /\ n[y].index \in TreeBin
        /\ y # r
    BY TreeHeadIs DEF IsTrie
  <2>2. Hangs(m, newRoot, e, y)
    <3>1. CASE n[y].parent = BIN
      BY <1>1, <1>3, <1>6, <2>1, <3>1 DEF Hangs
    <3>2. CASE n[y].parent # BIN
      <4>1. PICK q : q = n[y].parent
        OBVIOUS
      <4>2. PICK a, j : a = Way(n[y].size, n[y].index, dep[q]) /\ j = n[y].index
        OBVIOUS
      <4>3. /\ q \in Heads(n) /\ n[q].index = j /\ dep[y] = dep[q] + 1
            /\ Pre(n[y].size, j, dep[q]) = Pre(n[q].size, j, dep[q])
            /\ n[q].child[a] = y
        BY <2>1, <3>2, <4>1, <4>2 DEF Hangs
      <4>4. a \in {0, 1}
        <5>1. dep[y] # 0
          BY <4>3 DEF IsTrie
        <5>2. dep[q] \in 0..bit_for_tree_index(n[y].index) /\ bit_for_tree_index(n[y].index) \in Nat
              /\ n[y].size \in Nat
          BY <2>1, <4>1, <5>1, ParentIs, TreeHeadIs
        <5> QED
          BY <4>2, <5>2, NextBit
      <4>5. CASE q = x
        <5>1. m[y].parent = r /\ m[r].child[a] = y /\ r # BIN /\ r \in Heads(m) /\ m[r].index = j
              /\ e[r] = dep[q] /\ e[y] = dep[y] /\ j = i /\ m[y].size = n[y].size /\ m[y].index = j
          <6>1. m[y].parent = r /\ m[y].size = n[y].size /\ m[y].index = j
            BY <1>6, <4>1, <4>2, <4>5
          <6>2. m[r].child[a] = y /\ r # BIN /\ r \in Heads(m)
            BY <4>3, <4>4, <4>5
          <6>3. j = i /\ m[r].index = j
            BY <1>2, <4>3, <4>5
          <6>4. e[r] = dep[q] /\ e[y] = dep[y]
            BY <1>1, <1>6, <4>5
          <6> QED
            BY <6>1, <6>2, <6>3, <6>4
        <5>2. Pre(m[y].size, j, e[r]) = Pre(m[r].size, j, e[r])
          BY <1>2, <4>3, <4>5, <5>1
        <5> QED
          BY <4>2, <4>3, <5>1, <5>2 DEF Hangs
      <4>6. CASE q # x
        <5>1. m[y].parent = q /\ m[q].child[a] = y /\ q \in Heads(m) /\ m[q].index = j
              /\ e[q] = dep[q] /\ e[y] = dep[y] /\ m[y].size = n[y].size /\ m[y].index = j
              /\ m[q].size = n[q].size
          BY <1>1, <1>6, <4>1, <4>2, <4>3, <4>4, <4>6
        <5> QED
          BY <3>2, <4>1, <4>2, <4>3, <5>1 DEF Hangs
      <4> QED
        BY <4>5, <4>6
    <3> QED
      BY <3>1, <3>2
  <2>3. Holds(m, e, y)
    <3> SUFFICES ASSUME NEW a \in {0, 1}, m[y].child[a] # NULL
                 PROVE  LET z == m[y].child[a] IN
                        z \in Heads(m) /\ m[z].parent = y /\ Way(m[z].size, m[y].index, e[y]) = a
      BY DEF Holds
    <3>1. PICK z : z = n[y].child[a]
      OBVIOUS
    <3>2. z # NULL
      BY <1>3, <1>6, <3>1
    <3>3. z \in Heads(n) /\ n[z].parent = y /\ Way(n[z].size, n[y].index, dep[y]) = a
      BY <2>1, <3>1, <3>2 DEF Holds
    <3>4. CASE z = x
      <4>1. /\ dep[x] = dep[y] + 1 /\ n[y].index = i /\ dep[y] \in 0..bit_for_tree_index(i)
        <5>1. n[y].child[a] # NULL /\ n[y].child[a] = x
          BY <3>1, <3>2, <3>4
        <5>2. /\ n[n[y].child[a]].index = n[y].index /\ dep[n[y].child[a]] = dep[y] + 1
              /\ dep[y] \in 0..bit_for_tree_index(n[y].index)
          BY <5>1, SubChild
        <5> QED
          BY <1>2, <5>1, <5>2
      <4>2. Way(m[r].size, i, dep[y]) = a
        <5>1. Way(m[r].size, i, dep[y]) = Way(n[x].size, i, dep[y])
          BY <1>2, <1>3, <4>1, FewerBits
        <5> QED
          BY <3>3, <3>4, <4>1, <5>1
      <4>3. m[y].child[a] = r /\ m[r].parent = y /\ r \in Heads(m) /\ m[y].index = i /\ e[y] = dep[y]
        <5>1. m[y].child[a] = r
          <6>1. n[y].child[a] = x
            BY <3>1, <3>4
          <6> QED
            BY <1>6, <6>1
        <5>2. m[r].parent = y /\ r \in Heads(m)
          BY <3>3, <3>4
        <5>3. m[y].index = i /\ e[y] = dep[y]
          BY <1>1, <1>6, <4>1
        <5> QED
          BY <5>1, <5>2, <5>3
      <4> QED
        BY <4>2, <4>3
    <3>5. CASE z # x
      BY <1>1, <1>6, <3>1, <3>3, <3>5
    <3> QED
      BY <3>4, <3>5
  <2> QED
    BY <1>1, <1>6, <2>1, <2>2, <2>3
<1>7. m[r].index = compute_tree_index(m[r].size) /\ e[r] <= Bits(m[r].index)
  BY <1>1, <1>2, <1>3
<1>8. \A j \in TreeBin : newRoot[j] # NULL =>
        newRoot[j] \in Heads(m) /\ m[newRoot[j]].parent = BIN /\ m[newRoot[j]].index = j
  BY <1>3 DEF IsTrie
<1>9. \A y, z \in Heads(m) : m[y].size = m[z].size => y = z
  BY DEF IsTrie
<1>10. IsTrie(m, newRoot, e)
  BY <1>1, <1>4, <1>5, <1>6, <1>7, <1>8, <1>9 DEF IsTrie
<1> QED
  BY <1>10

-----------------------------------------------------------------------------
(* What the steps of the code leave of the nodes. *)

\* One forward link is set.
LEMMA SetFdIs ==
    ASSUME NEW F, NEW n \in [F -> Node(F)], NEW y \in F, NEW v \in F
    PROVE  LET m == SetFd(n, y, v) IN
           /\ m \in [F -> Node(F)]
           /\ \A z \in F : Same(n, m, z) /\ m[z].bk = n[z].bk /\ m[z].fd = IF z = y THEN v ELSE n[z].fd
<1>1. \A z \in F : n[z] \in Node(F)
  OBVIOUS
<1>2. PICK Y : Y = [n[y] EXCEPT !.fd = v]
  OBVIOUS
<1>3. Y \in Node(F) /\ Y.fd = v /\ Y.size = n[y].size /\ Y.index = n[y].index
      /\ Y.parent = n[y].parent /\ Y.child = n[y].child /\ Y.bk = n[y].bk
  BY <1>1, <1>2 DEF Node
<1>4. SetFd(n, y, v) = [n EXCEPT ![y] = Y]
  BY <1>2 DEF SetFd
<1> QED
  BY <1>3, <1>4 DEF Same

\* One backward link is set.
LEMMA SetBkIs ==
    ASSUME NEW F, NEW n \in [F -> Node(F)], NEW y \in F, NEW v \in F
    PROVE  LET m == SetBk(n, y, v) IN
           /\ m \in [F -> Node(F)]
           /\ \A z \in F : Same(n, m, z) /\ m[z].fd = n[z].fd /\ m[z].bk = IF z = y THEN v ELSE n[z].bk
<1>1. \A z \in F : n[z] \in Node(F)
  OBVIOUS
<1>2. PICK Y : Y = [n[y] EXCEPT !.bk = v]
  OBVIOUS
<1>3. Y \in Node(F) /\ Y.bk = v /\ Y.size = n[y].size /\ Y.index = n[y].index
      /\ Y.parent = n[y].parent /\ Y.child = n[y].child /\ Y.fd = n[y].fd
  BY <1>1, <1>2 DEF Node
<1>4. SetBk(n, y, v) = [n EXCEPT ![y] = Y]
  BY <1>2 DEF SetBk
<1> QED
  BY <1>3, <1>4 DEF Same

\* All but the children.
Alike(n, m, z) == /\ m[z].size = n[z].size /\ m[z].index = n[z].index
                  /\ m[z].fd = n[z].fd /\ m[z].bk = n[z].bk

\* Node y of n, a function on F, gets the child v.
Gets(F, n, y, c, v, m) == /\ n \in [F -> Node(F)] /\ y \in F /\ c \in {0, 1} /\ v \in F \cup {NULL}
                          /\ m = SetChild(n, y, c, v)

\* The children of Y with v put in.
Kids(Y, c, v) == [Y.child EXCEPT ![c] = v]

\* One child is set.
LEMMA SetChildIs ==
    ASSUME NEW F, NEW n, NEW y, NEW c, NEW v, NEW m, Gets(F, n, y, c, v, m)
    PROVE  /\ m \in [F -> Node(F)]
           /\ \A z \in F : /\ Alike(n, m, z) /\ m[z].parent = n[z].parent
                           /\ m[z].child = IF z = y THEN Kids(n[y], c, v) ELSE n[z].child
<1> USE DEF Gets
<1>1. \A z \in F : n[z] \in Node(F)
  OBVIOUS
<1>2. PICK kids : kids = [n[y].child EXCEPT ![c] = v]
  OBVIOUS
<1>3. kids \in [{0, 1} -> F \cup {NULL}]
  BY <1>1, <1>2 DEF Node
<1>4. PICK Y : Y = [n[y] EXCEPT !.child = kids]
  OBVIOUS
<1>5. Y \in Node(F) /\ Y.bk = n[y].bk /\ Y.size = n[y].size /\ Y.index = n[y].index
      /\ Y.parent = n[y].parent /\ Y.child = kids /\ Y.fd = n[y].fd
  BY <1>1, <1>3, <1>4 DEF Node
<1>6. m = [n EXCEPT ![y] = Y]
  BY <1>2, <1>4 DEF SetChild
<1> QED
  BY <1>2, <1>5, <1>6 DEF Alike, Kids

\* The pointer that held "from" holds "to".
LEMMA RedirectIs ==
    ASSUME NEW F, NEW n \in [F -> Node(F)], NEW y \in F, NEW from, NEW to \in F \cup {NULL}
    PROVE  LET m == Redirect(n, y, from, to) IN
           /\ m \in [F -> Node(F)]
           /\ \A z \in F : /\ Alike(n, m, z) /\ m[z].parent = n[z].parent
                           /\ \A c \in {0, 1} : m[z].child[c] =
                                IF z = y /\ n[z].child[c] = from THEN to ELSE n[z].child[c]
<1>1. \A z \in F : n[z] \in Node(F)
  OBVIOUS
<1>2. PICK kids : kids = [c \in {0, 1} |-> IF n[y].child[c] = from THEN to ELSE n[y].child[c]]
  OBVIOUS
<1>3. kids \in [{0, 1} -> F \cup {NULL}]
  BY <1>1, <1>2 DEF Node
<1>4. PICK Y : Y = [n[y] EXCEPT !.child = kids]
  OBVIOUS
<1>5. Y \in Node(F) /\ Y.bk = n[y].bk /\ Y.size = n[y].size /\ Y.index = n[y].index
      /\ Y.parent = n[y].parent /\ Y.child = kids /\ Y.fd = n[y].fd
  BY <1>1, <1>3, <1>4 DEF Node
<1>6. Redirect(n, y, from, to) = [n EXCEPT ![y] = Y]
  BY <1>2, <1>4 DEF Redirect
<1> QED
  BY <1>2, <1>5, <1>6 DEF Alike

\* r takes over from x its parent and those children it has.
LEMMA AdoptIs ==
    ASSUME NEW F, NEW n \in [F -> Node(F)], NEW x \in F, NEW r \in F, NULL \notin F
    PROVE  LET m == Adopt(n, x, r) IN
           /\ m \in [F -> Node(F)]
           /\ \A z \in F : Alike(n, m, z)
           /\ m[r].parent = n[x].parent
           /\ \A c \in {0, 1} : m[r].child[c] =
                IF n[x].child[c] # NULL THEN n[x].child[c] ELSE n[r].child[c]
           /\ \A z \in F : z # r =>
                /\ m[z].child = n[z].child
                /\ m[z].parent = IF \E c \in {0, 1} : n[x].child[c] = z THEN r ELSE n[z].parent
<1>1. \A z \in F : n[z] \in Node(F)
  OBVIOUS
<1> DEFINE kids == {c \in {0, 1} : n[x].child[c] # NULL}
           its == [c \in {0, 1} |-> IF c \in kids THEN n[x].child[c] ELSE n[r].child[c]]
           heir == [n[r] EXCEPT !.parent = n[x].parent, !.child = its]
           one(z) == IF z = r THEN heir
                     ELSE IF \E c \in kids : n[x].child[c] = z THEN [n[z] EXCEPT !.parent = r]
                     ELSE n[z]
           m == Adopt(n, x, r)
<1>2. m = [z \in F |-> one(z)]
  BY DEF Adopt
<1>3. its \in [{0, 1} -> F \cup {NULL}]
  <2>1. \A c \in {0, 1} : n[x].child[c] \in F \cup {NULL} /\ n[r].child[c] \in F \cup {NULL}
    BY <1>1 DEF Node
  <2> QED
    BY <2>1
<1>4. \A c \in {0, 1} : its[c] = IF n[x].child[c] # NULL THEN n[x].child[c] ELSE n[r].child[c]
  OBVIOUS
<1> HIDE DEF its
<1>5. /\ heir \in Node(F) /\ heir.size = n[r].size /\ heir.index = n[r].index /\ heir.fd = n[r].fd
      /\ heir.bk = n[r].bk /\ heir.parent = n[x].parent /\ heir.child = its
  <2>1. PICK R, p : R = n[r] /\ p = n[x].parent
    OBVIOUS
  <2>2. R \in Node(F) /\ p \in F \cup {NULL, BIN}
    BY <1>1, <2>1 DEF Node
  <2>3. heir = [R EXCEPT !.parent = p, !.child = its]
    BY <2>1
  <2> HIDE DEF heir, kids
  <2> QED
    BY <1>3, <2>1, <2>2, <2>3 DEF Node
<1> HIDE DEF heir
<1>6. ASSUME NEW z \in F, z # r
      PROVE  /\ one(z) \in Node(F)
             /\ one(z).size = n[z].size /\ one(z).index = n[z].index /\ one(z).fd = n[z].fd
             /\ one(z).bk = n[z].bk /\ one(z).child = n[z].child
             /\ one(z).parent = IF \E c \in {0, 1} : n[x].child[c] = z THEN r ELSE n[z].parent
  <2>1. (\E c \in kids : n[x].child[c] = z) <=> (\E c \in {0, 1} : n[x].child[c] = z)
    OBVIOUS
  <2>2. PICK Z : Z = [n[z] EXCEPT !.parent = r]
    OBVIOUS
  <2>3. Z \in Node(F) /\ Z.parent = r /\ Z.size = n[z].size /\ Z.index = n[z].index /\ Z.fd = n[z].fd
        /\ Z.bk = n[z].bk /\ Z.child = n[z].child
    BY <1>1, <2>2 DEF Node
  <2>4. one(z) = IF \E c \in {0, 1} : n[x].child[c] = z THEN Z ELSE n[z]
    BY <1>6, <2>1, <2>2
  <2> HIDE DEF one, kids
  <2> QED
    BY <1>1, <2>3, <2>4
<1>7. one(r) = heir
  OBVIOUS
<1> HIDE DEF one, m
<1>8. m \in [F -> Node(F)] /\ m[r] = heir /\ \A z \in F : m[z] = one(z)
  BY <1>2, <1>5, <1>6, <1>7
<1>9. \A z \in F : Alike(n, m, z)
  BY <1>5, <1>6, <1>7, <1>8 DEF Alike
<1> QED
  BY <1>4, <1>5, <1>6, <1>8, <1>9 DEF m

-----------------------------------------------------------------------------
(* What unlink_large_chunk does to the tries. *)

\* What no longer names x is without x.
LEMMA NodeWithout ==
    ASSUME NEW F, NEW x, NEW Y \in Node(F), Y.parent # x, Y.fd # x, Y.bk # x,
           \A c \in {0, 1} : Y.child[c] # x
    PROVE  Y \in Node(F \ {x})
<1>1. Y.child \in [{0, 1} -> (F \ {x}) \cup {NULL}]
  BY DEF Node
<1> QED
  BY <1>1 DEF Node

\* Chunks that are only in a ring have no children.
Plain(n) == \A y \in DOMAIN n : n[y].parent = NULL => Childless(n, y)

\* The nodes m and roots that are left of F without x, the nodes of H in the trie.
Gone(F, x, k, H, m, root) ==
    /\ m \in [F \ {x} -> Node(F \ {x})] /\ root \in [TreeBin -> (F \ {x}) \cup {NULL}]
    /\ \A y \in F \ {x} : Alike(k, m, y) /\ ((m[y].parent # NULL) <=> y \in H)
    /\ Plain(m) /\ \E e : IsTrie(m, root, e)

\* What unlink_large_chunk leaves where k has the nodes and r is put for x in bin i.
LeftNodes(F, root, x, X, i, k, r) == Restrict(Linked(x, X, [by |-> r, node |-> k], root[i] = x), F \ {x})
LeftRoots(root, x, i, r) == IF root[i] = x THEN [root EXCEPT ![i] = r] ELSE root
Only(k, F, x) == Restrict(k, F \ {x})
And(H, r) == H \cup {r}
SameMarks(root, newRoot) == \A j \in TreeBin : newRoot[j] # NULL <=> root[j] # NULL
OneMarkLess(root, newRoot, x, i) ==
    \A j \in TreeBin : newRoot[j] # NULL <=> root[j] # NULL /\ ~(root[i] = x /\ j = i)

\* The chunk r, which is not in the trie n, may take the place of x in k, where the
\* other nodes are those of n; X is what the code read of x.
Heir(F, n, dep, k, x, X, r) ==
    /\ r \in F /\ r \notin Heads(n) /\ k \in [F -> Node(F)]
    /\ \A y \in F : y # r => Same(n, k, y)
    /\ Childless(k, r) /\ k[r].size \in Large /\ k[r].index = compute_tree_index(k[r].size)
    /\ k[r].index = n[x].index
    /\ Pre(k[r].size, n[x].index, dep[x]) = Pre(n[x].size, n[x].index, dep[x])
    /\ \A y \in Heads(n) : y # x => n[y].size # k[r].size
    /\ \A y \in F : y # x => k[y].fd # x /\ k[y].bk # x
    /\ \A y \in F : y # r /\ n[y].parent = NULL => Childless(n, y)
    /\ X.parent = n[x].parent

\* The heir is in the place of x, in the trie and in the root of the bin.
LEMMA Replaced ==
    ASSUME NEW F \in SUBSET Chunk, NEW n \in [F -> Node(F)], NEW root \in [TreeBin -> F \cup {NULL}],
           NEW dep, IsTrie(n, root, dep), NEW x \in Heads(n), NEW k, NEW X, NEW r,
           Heir(F, n, dep, k, x, X, r)
    PROVE  LET newRoot == LeftRoots(root, x, n[x].index, r) IN
           /\ Gone(F, x, k, And(Heads(n), r), LeftNodes(F, root, x, X, n[x].index, k, r), newRoot)
           /\ SameMarks(root, newRoot)
<1> USE DEF Heir
<1> DEFINE atBin == root[n[x].index] = x
           up == IF atBin THEN k ELSE Redirect(k, X.parent, x, r)
           h == Adopt(up, x, r)
           m == Restrict(Linked(x, X, [by |-> r, node |-> k], atBin), F \ {x})
           newRoot == IF atBin THEN [root EXCEPT ![n[x].index] = r] ELSE root
<1>1. PICK p, i : p = n[x].parent /\ i = n[x].index
  OBVIOUS
<1>2. /\ x \in F /\ x # NULL /\ x # BIN /\ i \in TreeBin /\ dep[x] \in Nat /\ p # NULL
      /\ Hangs(n, root, dep, x) /\ Holds(n, dep, x) /\ x # r /\ r # NULL /\ r # BIN
      /\ NULL \notin F /\ BIN \notin F
  <2>1. NULL \notin F /\ BIN \notin F
    BY TreeBinsAssumption
  <2>2. x \in F /\ p # NULL /\ x # r
    BY <1>1 DEF Heads
  <2>3. i \in TreeBin /\ dep[x] \in Nat /\ Hangs(n, root, dep, x) /\ Holds(n, dep, x)
    BY <1>1, TreeHeadIs
  <2> QED
    BY <2>1, <2>2, <2>3
<1>3. atBin <=> p = BIN
  <2>1. ASSUME atBin PROVE p = BIN
    BY <1>1, <1>2, <2>1, RootIs
  <2>2. ASSUME p = BIN PROVE atBin
    BY <1>1, <1>2, <2>2 DEF Hangs
  <2> QED
    BY <2>1, <2>2
<1>4. \A j \in TreeBin : root[j] = x => j = i
  BY <1>1, <1>2, RootIs
<1>5. /\ p # BIN => p \in Heads(n) /\ p # x
      /\ \A a \in {0, 1} : n[x].child[a] # x
  <2>1. p # BIN => p \in Heads(n) /\ dep[x] = dep[p] + 1
    BY <1>1, <1>2 DEF Hangs
  <2>2. ASSUME NEW a \in {0, 1}, n[x].child[a] = x PROVE FALSE
    <3>1. n[x].child[a] # NULL
      BY <1>2, <2>2
    <3>2. dep[n[x].child[a]] = dep[x] + 1
      BY <3>1, SubChild
    <3> QED
      BY <1>2, <2>2, <3>2
  <2> QED
    BY <1>2, <2>1, <2>2
<1>6. ASSUME NEW y \in F, NEW a \in {0, 1} PROVE k[y].child[a] = x => y = p
  <2> SUFFICES ASSUME k[y].child[a] = x PROVE y = p
    OBVIOUS
  <2>1. y # r /\ n[y].child[a] = x
    BY <1>2 DEF Childless, Same
  <2>2. y \in Heads(n)
    BY <1>2, <2>1 DEF Childless, Heads
  <2> QED
    BY <1>1, <1>2, <2>1, <2>2, SubChild
<1>7. /\ up \in [F -> Node(F)]
      /\ \A z \in F : /\ Alike(k, up, z) /\ up[z].parent = k[z].parent
                      /\ \A c \in {0, 1} : up[z].child[c] = IF k[z].child[c] = x THEN r ELSE k[z].child[c]
  <2>1. CASE atBin
    <3>1. up = k /\ p \notin F
      BY <1>2, <1>3, <2>1
    <3> QED
      BY <1>6, <3>1 DEF Alike
  <2>2. CASE ~atBin
    <3>1. up = Redirect(k, p, x, r) /\ p \in F
      BY <1>1, <1>3, <1>5, <2>2 DEF Heads
    <3> HIDE DEF up
    <3>2. /\ up \in [F -> Node(F)]
          /\ \A z \in F : /\ Alike(k, up, z) /\ up[z].parent = k[z].parent
                          /\ \A c \in {0, 1} : up[z].child[c] =
                               IF z = p /\ k[z].child[c] = x THEN r ELSE k[z].child[c]
      BY <3>1, RedirectIs
    <3> QED
      BY <1>6, <3>2
  <2> QED
    BY <2>1, <2>2
<1> HIDE DEF up
<1>8. \A c \in {0, 1} : up[x].child[c] = n[x].child[c] /\ up[r].child[c] = NULL
  BY <1>2, <1>5, <1>7 DEF Same, Childless
<1>9. up[x].parent = p
  BY <1>1, <1>2, <1>7 DEF Same
<1>10. /\ h \in [F -> Node(F)] /\ \A z \in F : Alike(up, h, z)
       /\ h[r].parent = p
       /\ \A c \in {0, 1} : h[r].child[c] = n[x].child[c]
       /\ \A z \in F : z # r =>
            /\ h[z].child = up[z].child
            /\ h[z].parent = IF \E c \in {0, 1} : n[x].child[c] = z THEN r ELSE up[z].parent
  <2>1. /\ h \in [F -> Node(F)] /\ \A z \in F : Alike(up, h, z)
        /\ h[r].parent = up[x].parent
        /\ \A c \in {0, 1} : h[r].child[c] =
             IF up[x].child[c] # NULL THEN up[x].child[c] ELSE up[r].child[c]
        /\ \A z \in F : z # r =>
             /\ h[z].child = up[z].child
             /\ h[z].parent = IF \E c \in {0, 1} : up[x].child[c] = z THEN r ELSE up[z].parent
    <3>1. up \in [F -> Node(F)] /\ x \in F /\ r \in F /\ NULL \notin F
      BY <1>2, <1>7
    <3> QED
      BY <3>1, AdoptIs
  <2> HIDE DEF h
  <2> QED
    BY <1>8, <1>9, <2>1
<1>11. m = [y \in F \ {x} |-> h[y]]
  <2>1. X.parent # NULL /\ [by |-> r, node |-> k].by = r /\ [by |-> r, node |-> k].node = k
    BY <1>1, <1>2
  <2>2. Linked(x, X, [by |-> r, node |-> k], atBin) = h
    BY <1>2, <2>1 DEF Linked, up
  <2> QED
    BY <2>2 DEF Restrict
<1> HIDE DEF h, m
\* Who names x as its parent is a child of x.
<1>12. ASSUME NEW z \in F, z # r
       PROVE  (\E c \in {0, 1} : n[x].child[c] = z) <=> n[z].parent = x
  <2>1. ASSUME NEW c \in {0, 1}, n[x].child[c] = z PROVE n[z].parent = x
    BY <1>2, <2>1 DEF Holds
  <2>2. ASSUME n[z].parent = x PROVE \E c \in {0, 1} : n[x].child[c] = z
    <3>1. z \in Heads(n)
      BY <1>2, <2>2 DEF Heads
    <3>2. Hangs(n, root, dep, z) /\ x # BIN
      BY <1>2, <3>1, TreeHeadIs
    <3>3. dep[z] # 0
      BY <1>2, <2>2, <3>2 DEF Hangs
    <3>4. n[x].child[Way(n[z].size, n[z].index, dep[x])] = z
          /\ dep[x] \in 0..bit_for_tree_index(n[z].index)
      BY <2>2, <3>1, <3>3, ParentIs
    <3>5. n[z].size \in Nat /\ bit_for_tree_index(n[z].index) \in Nat
      BY <3>1, TreeHeadIs
    <3>6. Way(n[z].size, n[z].index, dep[x]) \in {0, 1}
      BY <3>4, <3>5, NextBit
    <3> QED
      BY <3>4, <3>6
  <2> QED
    BY <2>1, <2>2
<1>13. ASSUME NEW y \in F \ {x}, y # r
       PROVE  /\ m[y].size = n[y].size /\ m[y].index = n[y].index
              /\ m[y].parent = IF n[y].parent = x THEN r ELSE n[y].parent
              /\ \A a \in {0, 1} : m[y].child[a] = IF n[y].child[a] = x THEN r ELSE n[y].child[a]
              /\ Alike(k, m, y)
  <2>1. m[y] = h[y] /\ Alike(up, h, y) /\ Alike(k, up, y) /\ Same(n, k, y)
    BY <1>7, <1>10, <1>11, <1>13
  <2>2. h[y].child = up[y].child
        /\ h[y].parent = IF n[y].parent = x THEN r ELSE n[y].parent
    BY <1>7, <1>10, <1>12, <1>13, <2>1 DEF Same
  <2>3. \A a \in {0, 1} : up[y].child[a] = IF n[y].child[a] = x THEN r ELSE n[y].child[a]
    BY <1>7, <2>1 DEF Same
  <2> QED
    BY <2>1, <2>2, <2>3 DEF Alike, Same
<1>14. /\ m[r].parent = p /\ \A a \in {0, 1} : m[r].child[a] = n[x].child[a]
       /\ Alike(k, m, r)
  <2>1. m[r] = h[r] /\ Alike(up, h, r) /\ Alike(k, up, r)
    BY <1>2, <1>7, <1>10, <1>11
  <2> QED
    BY <1>10, <2>1 DEF Alike
<1>15. DOMAIN m = F \ {x} /\ \A y \in F \ {x} : m[y] \in Node(F)
  BY <1>10, <1>11
<1>16. \A y \in F \ {x} : Alike(k, m, y) /\ ((m[y].parent # NULL) <=> y \in Heads(n) \cup {r})
  BY <1>2, <1>13, <1>14 DEF Heads
<1>17. Heads(m) = (Heads(n) \ {x}) \cup {r}
  BY <1>2, <1>15, <1>16 DEF Heads
<1>18. m \in [F \ {x} -> Node(F \ {x})]
  <2>1. ASSUME NEW y \in F \ {x} PROVE m[y] \in Node(F \ {x})
    <3>1. m[y].fd # x /\ m[y].bk # x
      BY <1>16 DEF Alike
    <3>2. m[y].parent # x
      BY <1>2, <1>5, <1>13, <1>14
    <3>3. \A c \in {0, 1} : m[y].child[c] # x
      BY <1>2, <1>5, <1>13, <1>14
    <3> QED
      BY <1>15, <3>1, <3>2, <3>3, NodeWithout
  <2> QED
    BY <1>11, <2>1
<1>19. \A j \in TreeBin : newRoot[j] = IF root[j] = x THEN r ELSE root[j]
  BY <1>1, <1>2, <1>4
<1>20. newRoot \in [TreeBin -> (F \ {x}) \cup {NULL}]
  <2>1. DOMAIN newRoot = TreeBin /\ newRoot = [j \in TreeBin |-> newRoot[j]]
    OBVIOUS
  <2>2. \A j \in TreeBin : newRoot[j] \in (F \ {x}) \cup {NULL}
    BY <1>2, <1>19
  <2> HIDE DEF newRoot
  <2> QED
    BY <2>1, <2>2
<1>21. \A j \in TreeBin : newRoot[j] # NULL <=> root[j] # NULL
  BY <1>2, <1>19
<1>22. Plain(m)
  <2> SUFFICES ASSUME NEW y \in F \ {x}, m[y].parent = NULL PROVE Childless(m, y)
    BY <1>15 DEF Plain
  <2>1. y # r /\ n[y].parent = NULL
    BY <1>2, <1>16 DEF Heads
  <2>2. Childless(n, y)
    BY <2>1
  <2> QED
    BY <1>2, <1>13, <2>1, <2>2 DEF Childless
<1>23. \E e : IsTrie(m, newRoot, e)
  <2> HIDE DEF newRoot
  <2>1. \A y \in Heads(n) : y # x => y \in F \ {x} /\ y # r
    BY DEF Heads
  <2>2. /\ m[r].size \in Large /\ m[r].index = compute_tree_index(m[r].size)
        /\ m[r].index = n[x].index /\ m[r].parent = n[x].parent
        /\ Pre(m[r].size, n[x].index, dep[x]) = Pre(n[x].size, n[x].index, dep[x])
        /\ \A y \in Heads(n) : y # x => n[y].size # m[r].size
    BY <1>1, <1>14 DEF Alike
  <2>3. \A y \in Heads(n) : y # x =>
             /\ m[y].size = n[y].size /\ m[y].index = n[y].index
             /\ m[y].parent = IF n[y].parent = x THEN r ELSE n[y].parent
             /\ \A a \in {0, 1} : m[y].child[a] = IF n[y].child[a] = x THEN r ELSE n[y].child[a]
    BY <1>13, <2>1
  <2>4. r # NULL /\ r # BIN /\ \A a \in {0, 1} : m[r].child[a] = n[x].child[a]
    BY <1>2, <1>14
  <2>5. Replaces(n, root, dep, m, newRoot, x, r)
    BY <1>17, <1>19, <2>2, <2>3, <2>4 DEF Replaces
  <2> HIDE DEF atBin
  <2> QED
    BY <2>5, NodeReplaced
<1> QED
  BY <1>16, <1>18, <1>20, <1>21, <1>22, <1>23 DEF Gone, m, LeftNodes, LeftRoots, And, SameMarks

\* Nothing but its mates names x, and they no more.
Loose(F, k, x) == k \in [F -> Node(F)] /\ \A y \in F : y # x => k[y].fd # x /\ k[y].bk # x

\* A leaf goes, and nothing takes its place.
LEMMA LeafGone ==
    ASSUME NEW F \in SUBSET Chunk, NEW n \in [F -> Node(F)], NEW root \in [TreeBin -> F \cup {NULL}],
           NEW dep, IsTrie(n, root, dep), NEW x \in Heads(n), Childless(n, x), Plain(n),
           Loose(F, n, x), NEW X, X.parent = n[x].parent
    PROVE  LET newRoot == LeftRoots(root, x, n[x].index, NULL) IN
           /\ Gone(F, x, n, Heads(n), LeftNodes(F, root, x, X, n[x].index, n, NULL), newRoot)
           /\ OneMarkLess(root, newRoot, x, n[x].index)
<1> USE DEF Loose
<1> DEFINE atBin == root[n[x].index] = x
           up == IF atBin THEN n ELSE Redirect(n, X.parent, x, NULL)
           m == Restrict(Linked(x, X, [by |-> NULL, node |-> n], atBin), F \ {x})
           newRoot == IF atBin THEN [root EXCEPT ![n[x].index] = NULL] ELSE root
<1>1. PICK p, i : p = n[x].parent /\ i = n[x].index
  OBVIOUS
<1>2. /\ x \in F /\ x # NULL /\ x # BIN /\ i \in TreeBin /\ dep[x] \in Nat /\ p # NULL
      /\ Hangs(n, root, dep, x) /\ NULL \notin F /\ BIN \notin F
  <2>1. NULL \notin F /\ BIN \notin F
    BY TreeBinsAssumption
  <2>2. x \in F /\ p # NULL
    BY <1>1 DEF Heads
  <2>3. i \in TreeBin /\ dep[x] \in Nat /\ Hangs(n, root, dep, x)
    BY <1>1, TreeHeadIs
  <2> QED
    BY <2>1, <2>2, <2>3
<1>3. atBin <=> p = BIN
  <2>1. ASSUME atBin PROVE p = BIN
    BY <1>1, <1>2, <2>1, RootIs
  <2>2. ASSUME p = BIN PROVE atBin
    BY <1>1, <1>2, <2>2 DEF Hangs
  <2> QED
    BY <2>1, <2>2
<1>4. \A j \in TreeBin : root[j] = x => j = i
  BY <1>1, <1>2, RootIs
<1>5. p # BIN => p \in F
  BY <1>1, <1>2 DEF Hangs, Heads
<1>6. ASSUME NEW y \in F, NEW a \in {0, 1} PROVE n[y].child[a] = x => y = p
  <2> SUFFICES ASSUME n[y].child[a] = x PROVE y = p
    OBVIOUS
  <2>1. y \in Heads(n)
    BY <1>2 DEF Childless, Heads, Plain
  <2> QED
    BY <1>1, <1>2, <2>1, SubChild
<1>7. /\ up \in [F -> Node(F)]
      /\ \A z \in F : /\ Alike(n, up, z) /\ up[z].parent = n[z].parent
                      /\ \A c \in {0, 1} : up[z].child[c] = IF n[z].child[c] = x THEN NULL ELSE n[z].child[c]
  <2>1. CASE atBin
    <3>1. up = n /\ p \notin F
      BY <1>2, <1>3, <2>1
    <3> QED
      BY <1>6, <3>1 DEF Alike
  <2>2. CASE ~atBin
    <3>1. up = Redirect(n, p, x, NULL) /\ p \in F
      BY <1>1, <1>3, <1>5, <2>2
    <3> HIDE DEF up
    <3>2. /\ up \in [F -> Node(F)]
          /\ \A z \in F : /\ Alike(n, up, z) /\ up[z].parent = n[z].parent
                          /\ \A c \in {0, 1} : up[z].child[c] =
                               IF z = p /\ n[z].child[c] = x THEN NULL ELSE n[z].child[c]
      BY <3>1, RedirectIs
    <3> QED
      BY <1>6, <3>2
  <2> QED
    BY <2>1, <2>2
<1>8. m = [y \in F \ {x} |-> up[y]]
  <2>1. X.parent # NULL /\ [by |-> NULL, node |-> n].by = NULL /\ [by |-> NULL, node |-> n].node = n
    BY <1>1, <1>2
  <2>2. Linked(x, X, [by |-> NULL, node |-> n], atBin) = up
    BY <2>1 DEF Linked
  <2> QED
    BY <2>2 DEF Restrict
<1> HIDE DEF up, m
<1>9. \A y \in F \ {x} :
        /\ m[y] \in Node(F) /\ Alike(n, m, y) /\ m[y].parent = n[y].parent
        /\ \A c \in {0, 1} : m[y].child[c] = IF n[y].child[c] = x THEN NULL ELSE n[y].child[c]
  <2> SUFFICES ASSUME NEW y \in F \ {x}
               PROVE  /\ m[y] \in Node(F) /\ Alike(n, m, y) /\ m[y].parent = n[y].parent
                      /\ \A c \in {0, 1} : m[y].child[c] =
                           IF n[y].child[c] = x THEN NULL ELSE n[y].child[c]
    OBVIOUS
  <2>1. m[y] = up[y]
    BY <1>8
  <2> QED
    BY <1>7, <2>1 DEF Alike
<1>10. DOMAIN m = F \ {x} /\ Heads(m) = Heads(n) \ {x}
  BY <1>8, <1>9 DEF Heads
<1>11. m \in [F \ {x} -> Node(F \ {x})]
  <2>1. ASSUME NEW y \in F \ {x} PROVE m[y] \in Node(F \ {x})
    <3>1. m[y].fd # x /\ m[y].bk # x
      BY <1>9 DEF Alike
    <3>2. m[y].parent # x
      <4> SUFFICES ASSUME n[y].parent = x PROVE FALSE
        BY <1>9
      <4>1. y \in Heads(n)
        BY <1>2 DEF Heads
      <4>2. Hangs(n, root, dep, y) /\ y # NULL
        BY <4>1, TreeHeadIs
      <4>3. dep[y] # 0
        BY <1>2, <4>2 DEF Hangs
      <4>4. n[x].child[Way(n[y].size, n[y].index, dep[x])] = y
            /\ dep[x] \in 0..bit_for_tree_index(n[y].index)
        BY <4>1, <4>3, ParentIs
      <4>5. n[y].size \in Nat /\ bit_for_tree_index(n[y].index) \in Nat
        BY <4>1, TreeHeadIs
      <4>6. Way(n[y].size, n[y].index, dep[x]) \in {0, 1}
        BY <4>4, <4>5, NextBit
      <4> QED
        BY <4>2, <4>4, <4>6 DEF Childless
    <3>3. \A c \in {0, 1} : m[y].child[c] # x
      BY <1>2, <1>9
    <3> QED
      BY <1>9, <3>1, <3>2, <3>3, NodeWithout
  <2> QED
    BY <1>8, <2>1
<1>12. \A j \in TreeBin : newRoot[j] = IF root[j] = x THEN NULL ELSE root[j]
  BY <1>1, <1>2, <1>4
<1>13. newRoot \in [TreeBin -> (F \ {x}) \cup {NULL}]
  <2>1. DOMAIN newRoot = TreeBin /\ newRoot = [j \in TreeBin |-> newRoot[j]]
    OBVIOUS
  <2>2. \A j \in TreeBin : newRoot[j] \in (F \ {x}) \cup {NULL}
    BY <1>12
  <2> HIDE DEF newRoot
  <2> QED
    BY <2>1, <2>2
<1>14. \A j \in TreeBin : newRoot[j] # NULL <=> root[j] # NULL /\ ~(atBin /\ j = n[x].index)
  BY <1>1, <1>2, <1>4, <1>12
<1>15. Plain(m)
  BY <1>9, <1>10 DEF Plain, Childless
<1>16. \E e : IsTrie(m, newRoot, e)
  <2> HIDE DEF newRoot
  <2>1. \A y \in Heads(m) : /\ m[y].size = n[y].size /\ m[y].index = n[y].index
                            /\ m[y].parent = n[y].parent
                            /\ \A a \in {0, 1} : m[y].child[a] =
                                 IF n[y].child[a] = x THEN NULL ELSE n[y].child[a]
    BY <1>9, <1>10 DEF Heads, Alike
  <2>2. CutOff(n, root, m, newRoot, x)
    BY <1>10, <1>12, <2>1 DEF CutOff
  <2>3. IsTrie(m, newRoot, [y \in Heads(m) |-> dep[y]])
    BY <2>2, LeafRemoved
  <2> QED
    BY <2>3
<1>17. \A y \in F \ {x} : (m[y].parent # NULL) <=> y \in Heads(n)
  BY <1>9 DEF Heads
<1> QED
  BY <1>9, <1>11, <1>13, <1>14, <1>15, <1>16, <1>17 DEF Gone, m, LeftNodes, LeftRoots, OneMarkLess

\* A chunk that is only in a ring goes.
LEMMA MemberGone ==
    ASSUME NEW F \in SUBSET Chunk, NEW n \in [F -> Node(F)], NEW root \in [TreeBin -> F \cup {NULL}],
           NEW dep, IsTrie(n, root, dep), NEW x \in F, x \notin Heads(n), Plain(n),
           NEW k, \A y \in F : Same(n, k, y), Loose(F, k, x)
    PROVE  Gone(F, x, k, Heads(n), Only(k, F, x), root) /\ \A j \in TreeBin : root[j] # x
<1> USE DEF Loose
<1> DEFINE m == Restrict(k, F \ {x})
<1>1. m = [y \in F \ {x} |-> k[y]]
  BY DEF Restrict
<1> HIDE DEF m
<1>2. \A y \in F \ {x} : m[y] = k[y] /\ Same(n, m, y) /\ m[y] \in Node(F)
  BY <1>1 DEF Same
<1>3. DOMAIN m = F \ {x} /\ Heads(m) = Heads(n) /\ x # NULL /\ x # BIN /\ NULL \notin F
  <2>1. x # NULL /\ x # BIN /\ NULL \notin F
    BY TreeBinsAssumption
  <2>2. DOMAIN m = F \ {x} /\ \A y \in F \ {x} : m[y].parent = n[y].parent
    BY <1>1, <1>2 DEF Same
  <2>3. Heads(m) = Heads(n)
    BY <2>2 DEF Heads
  <2> QED
    BY <2>1, <2>2, <2>3
<1>4. \A y \in Heads(n) : Same(n, m, y)
  BY <1>2 DEF Heads
<1>5. IsTrie(m, root, dep)
  BY <1>3, <1>4, TrieStays
<1>6. \A j \in TreeBin : root[j] # x
  BY <1>3, RootIs
<1>7. root \in [TreeBin -> (F \ {x}) \cup {NULL}]
  BY <1>6
<1>8. Plain(m)
  BY <1>2, <1>3 DEF Plain, Childless, Same
<1>9. m \in [F \ {x} -> Node(F \ {x})]
  <2>1. ASSUME NEW y \in F \ {x} PROVE m[y] \in Node(F \ {x})
    <3>1. n[y].parent # x
      <4> SUFFICES ASSUME n[y].parent = x PROVE FALSE
        OBVIOUS
      <4>1. y \in Heads(n)
        BY <1>3 DEF Heads
      <4>2. Hangs(n, root, dep, y)
        BY <4>1, TreeHeadIs
      <4> QED
        BY <1>3, <4>2 DEF Hangs
    <3>2. \A c \in {0, 1} : n[y].child[c] # x
      <4> SUFFICES ASSUME NEW c \in {0, 1}, n[y].child[c] = x PROVE FALSE
        OBVIOUS
      <4>1. y \in Heads(n)
        BY <1>3 DEF Heads, Plain, Childless
      <4> QED
        BY <1>3, <4>1, SubChild
    <3>3. m[y].parent # x /\ (\A c \in {0, 1} : m[y].child[c] # x) /\ m[y].fd # x /\ m[y].bk # x
      BY <1>2, <3>1, <3>2 DEF Same
    <3> QED
      BY <1>2, <3>3, NodeWithout
  <2> QED
    BY <1>1, <2>1
<1>10. \A y \in F \ {x} : Alike(k, m, y) /\ ((m[y].parent # NULL) <=> y \in Heads(n))
  BY <1>2 DEF Alike, Same, Heads
<1> QED
  BY <1>5, <1>6, <1>7, <1>8, <1>9, <1>10 DEF Gone, Only, m

\* Transitivity of being below.
LEMMA SubBits ==
    ASSUME NEW F \in SUBSET Chunk, NEW n \in [F -> Node(F)], NEW root, NEW dep,
           IsTrie(n, root, dep), NEW x \in Heads(n), NEW r \in Sub(n, dep, x), r # x
    PROVE  /\ r \in Heads(n) /\ n[r].index = n[x].index /\ dep[x] < dep[r] /\ dep[x] \in Nat /\ dep[r] \in Nat
           /\ Pre(n[r].size, n[x].index, dep[x]) = Pre(n[x].size, n[x].index, dep[x])
<1>1. /\ r \in Heads(n) /\ n[r].index = n[x].index
      /\ Pre(n[r].size, n[x].index, dep[x]) = Pre(n[x].size, n[x].index, dep[x])
  BY DEF Sub
<1>2. PICK c \in {0, 1} : n[x].child[c] # NULL /\ r \in Sub(n, dep, n[x].child[c])
  BY SubBelow
<1>3. dep[n[x].child[c]] = dep[x] + 1
  BY <1>2, SubChild
<1>4. dep[n[x].child[c]] <= dep[r]
  BY <1>2 DEF Sub
<1>5. dep[x] \in Nat /\ dep[r] \in Nat
  BY <1>1 DEF IsTrie
<1> QED
  BY <1>1, <1>3, <1>4, <1>5

\* Those next to x in its ring.
Mates(n, x) ==
    LET b == n[x].bk
        f == n[x].fd
    IN  /\ n[b].fd = x /\ n[f].bk = x /\ n[b].size = n[x].size
        /\ \A y \in DOMAIN n : (n[y].fd = x => y = b) /\ (n[y].bk = x => y = f)
        /\ n[x].parent = NULL => b # x
        /\ n[x].parent # NULL /\ b # x => n[b].parent = NULL

\* The leaf r that takes the place of x is cut off in k; g has only what is in the
\* trie then.
Cut(F, n, root, dep, x, r, k, g, e) ==
    /\ k \in [F -> Node(F)] /\ g \in [F -> Node(F)] /\ IsTrie(g, root, e)
    /\ x \in Heads(g) /\ e[x] = dep[x] /\ r \in F /\ r \notin Heads(g)
    /\ \A y \in F : y # r => Same(g, k, y)
    /\ \A y \in F : Alike(n, k, y) /\ g[y].size = n[y].size /\ g[y].index = n[y].index
                    /\ k[y].parent = n[y].parent
    /\ Heads(g) = Heads(n) \ {r} /\ Childless(k, r)
    /\ \A y \in F : y # r /\ g[y].parent = NULL => Childless(g, y)
    /\ r \in Heads(n) /\ n[r].index = n[x].index
    /\ Pre(n[r].size, n[x].index, dep[x]) = Pre(n[x].size, n[x].index, dep[x])

\* What the code does to the leaf it puts in the place of a node.
LEMMA LeafCut ==
    ASSUME NEW F \in SUBSET Chunk, NEW n \in [F -> Node(F)], NEW root \in [TreeBin -> F \cup {NULL}],
           NEW dep, IsTrie(n, root, dep), Plain(n), NEW x \in Heads(n),
           NEW r, r = Leaf(n, x), r # x
    PROVE  \E g, e : Cut(F, n, root, dep, x, r, Redirect(n, n[r].parent, r, NULL), g, e)
<1>0. PICK k : k = Redirect(n, n[r].parent, r, NULL)
  OBVIOUS
<1> DEFINE g == [k EXCEPT ![r] = [k[r] EXCEPT !.parent = NULL]]
           e == [y \in Heads(g) |-> dep[y]]
<1>1. r \in Sub(n, dep, x) /\ Childless(n, r)
  BY LeafIs
<1>2. /\ r \in Heads(n) /\ n[r].index = n[x].index /\ dep[x] < dep[r] /\ dep[x] \in Nat /\ dep[r] \in Nat
      /\ Pre(n[r].size, n[x].index, dep[x]) = Pre(n[x].size, n[x].index, dep[x])
  BY <1>1, SubBits
<1>3. PICK q : q = n[r].parent
  OBVIOUS
<1>4. q \in Heads(n) /\ q \in F /\ r \in F /\ r # NULL /\ NULL \notin F
  <2>1. dep[r] # 0
    BY <1>2
  <2>2. q \in Heads(n) /\ r # NULL
    BY <1>2, <1>3, <2>1, ParentIs, TreeHeadIs
  <2> QED
    BY <1>2, <2>2, TreeBinsAssumption DEF Heads
<1>5. ASSUME NEW y \in F, NEW a \in {0, 1} PROVE n[y].child[a] = r => y = q
  <2> SUFFICES ASSUME n[y].child[a] = r PROVE y = q
    OBVIOUS
  <2>1. y \in Heads(n)
    BY <1>4 DEF Childless, Heads, Plain
  <2> QED
    BY <1>3, <1>4, <2>1, SubChild
<1>6. /\ k \in [F -> Node(F)]
      /\ \A z \in F : /\ Alike(n, k, z) /\ k[z].parent = n[z].parent
                      /\ \A c \in {0, 1} : k[z].child[c] = IF n[z].child[c] = r THEN NULL ELSE n[z].child[c]
  <2>1. /\ k \in [F -> Node(F)]
        /\ \A z \in F : /\ Alike(n, k, z) /\ k[z].parent = n[z].parent
                        /\ \A c \in {0, 1} : k[z].child[c] =
                             IF z = q /\ n[z].child[c] = r THEN NULL ELSE n[z].child[c]
    BY <1>0, <1>3, <1>4, RedirectIs
  <2> QED
    BY <1>5, <2>1
<1>7. /\ g \in [F -> Node(F)] /\ g[r].parent = NULL
      /\ \A y \in F : /\ y # r => g[y] = k[y]
                      /\ g[y].size = k[y].size /\ g[y].index = k[y].index /\ g[y].child = k[y].child
  <2>1. PICK R : R = [k[r] EXCEPT !.parent = NULL]
    OBVIOUS
  <2>2. R \in Node(F) /\ R.parent = NULL /\ R.size = k[r].size /\ R.index = k[r].index /\ R.child = k[r].child
    <3>1. k[r] \in Node(F)
      BY <1>4, <1>6
    <3> QED
      BY <2>1, <3>1 DEF Node
  <2>3. g = [k EXCEPT ![r] = R]
    BY <2>1
  <2> HIDE DEF g
  <2> QED
    BY <1>4, <1>6, <2>2, <2>3
<1> HIDE DEF g
<1>8. Heads(g) = Heads(n) \ {r}
  BY <1>4, <1>6, <1>7 DEF Heads
<1>9. IsTrie(g, root, e)
  <2>1. \A j \in TreeBin : root[j] # r
    BY <1>2, <1>4, RootIs
  <2>2. CutOff(n, root, g, root, r)
    <3>1. \A y \in Heads(g) : y \in F /\ y # r
      BY <1>8 DEF Heads
    <3>2. \A y \in Heads(g) : /\ g[y].size = n[y].size /\ g[y].index = n[y].index
                              /\ g[y].parent = n[y].parent
                              /\ \A a \in {0, 1} : g[y].child[a] =
                                   IF n[y].child[a] = r THEN NULL ELSE n[y].child[a]
      BY <1>6, <1>7, <3>1 DEF Alike
    <3> QED
      BY <1>1, <1>8, <2>1, <3>2 DEF CutOff
  <2> QED
    BY <1>2, <2>2, LeafRemoved
<1>10. \A y \in F : y # r => Same(g, k, y)
  BY <1>7 DEF Same
<1>11. Childless(k, r)
  BY <1>1, <1>4, <1>6 DEF Childless
<1>12. \A y \in F : y # r /\ g[y].parent = NULL => Childless(g, y)
  BY <1>4, <1>6, <1>7 DEF Plain, Childless
<1>13. x \in Heads(g) /\ r \notin Heads(g) /\ e[x] = dep[x]
  BY <1>8
<1>14. \A y \in F : Alike(n, k, y) /\ g[y].size = n[y].size /\ g[y].index = n[y].index
                    /\ k[y].parent = n[y].parent
  BY <1>6, <1>7 DEF Alike
<1>15. Cut(F, n, root, dep, x, r, k, g, e)
  BY <1>2, <1>4, <1>6, <1>7, <1>8, <1>9, <1>10, <1>11, <1>12, <1>13, <1>14 DEF Cut
<1> QED
  BY <1>0, <1>15

\* The trees are well formed.
Trees(u) ==
    LET F == DOMAIN u.node IN
    /\ u = [root |-> u.root, map |-> u.map, node |-> u.node]
    /\ F \subseteq Chunk /\ u.node \in [F -> Node(F)] /\ u.root \in [TreeBin -> F \cup {NULL}]
    /\ Marks(u) /\ Plain(u.node) /\ \E dep : IsTrie(u.node, u.root, dep)

\* What is left of the rings when x goes.
Passed(n, m, x) ==
    \A y \in DOMAIN n \ {x} :
      /\ m[y].size = n[y].size /\ m[y].index = n[y].index
      /\ m[y].fd = IF y = n[x].bk THEN n[x].fd ELSE n[y].fd
      /\ m[y].bk = IF y = n[x].fd THEN n[x].bk ELSE n[y].bk
      /\ m[y].parent # NULL <=> n[y].parent # NULL \/ (n[x].parent # NULL /\ y = n[x].bk)

\* What is left is well formed.
LEMMA TreesLeft ==
    ASSUME NEW F \in SUBSET Chunk, NEW x, NEW k, NEW H, NEW w, Gone(F, x, k, H, w.node, w.root),
           w = [root |-> w.root, map |-> w.map, node |-> w.node], Marks(w)
    PROVE  DOMAIN w.node = F \ {x} /\ Trees(w)
<1>1. DOMAIN w.node = F \ {x} /\ F \ {x} \subseteq Chunk
  BY DEF Gone
<1> QED
  BY <1>1 DEF Gone, Trees

\* unlink_large_chunk: a chunk leaves the tries and its ring.
LEMMA UnlinkTreeIs ==
    ASSUME NEW u, Trees(u), NEW x \in DOMAIN u.node, Mates(u.node, x),
           \A y \in DOMAIN u.node : u.node[y].index = compute_tree_index(u.node[y].size)
    PROVE  LET v == unlink_large_chunk(u, x) IN
           Trees(v) /\ DOMAIN v.node = DOMAIN u.node \ {x} /\ Passed(u.node, v.node, x)
<1>0. PICK n, F, root : n = u.node /\ F = DOMAIN n /\ root = u.root
  OBVIOUS
<1> DEFINE v == unlink_large_chunk(u, x)
           rep == Replacement(n, x)
           i == n[x].index
           atBin == root[i] = x
           m == Restrict(Linked(x, n[x], rep, atBin), F \ {x})
           newRoot == IF atBin THEN [root EXCEPT ![i] = rep.by] ELSE root
           newMap == IF atBin /\ rep.by = NULL THEN u.map \ {i} ELSE u.map
<1>1. /\ F \in SUBSET Chunk /\ n \in [F -> Node(F)] /\ root \in [TreeBin -> F \cup {NULL}]
      /\ Marks(u) /\ Plain(n) /\ x \in F
      /\ \A y \in F : n[y].index = compute_tree_index(n[y].size)
  BY <1>0 DEF Trees
<1>2. PICK dep : IsTrie(n, root, dep)
  BY <1>0 DEF Trees
<1>3. v = [root |-> newRoot, map |-> newMap, node |-> m]
  BY <1>0 DEF unlink_large_chunk, Unlinked
<1>4. v.root = newRoot /\ v.map = newMap /\ v.node = m /\ v = [root |-> v.root, map |-> v.map, node |-> v.node]
  BY <1>3
<1> DEFINE b == n[x].bk
           f == n[x].fd
<1>5. /\ n[b].fd = x /\ n[f].bk = x /\ n[b].size = n[x].size
      /\ \A y \in F : (n[y].fd = x => y = b) /\ (n[y].bk = x => y = f)
      /\ n[x].parent = NULL => b # x
      /\ n[x].parent # NULL /\ b # x => n[b].parent = NULL
      /\ x \in F /\ b \in F /\ f \in F /\ NULL \notin F
      /\ b = x <=> f = x
  <2>1. n[x] \in Node(F)
    BY <1>1
  <2>2. b \in F /\ f \in F
    BY <2>1 DEF Node
  <2>3. NULL \notin F
    BY <1>1, TreeBinsAssumption
  <2> QED
    BY <1>0, <1>1, <2>2, <2>3 DEF Mates
<1> DEFINE k1 == SetFd(n, b, f)
           k == SetBk(k1, f, b)
<1>6. /\ k \in [F -> Node(F)]
      /\ \A z \in F : /\ Same(n, k, z)
                      /\ k[z].bk = IF z = f THEN b ELSE n[z].bk
                      /\ k[z].fd = IF z = b THEN f ELSE n[z].fd
  <2>1. /\ k1 \in [F -> Node(F)]
        /\ \A z \in F : Same(n, k1, z) /\ k1[z].bk = n[z].bk /\ k1[z].fd = IF z = b THEN f ELSE n[z].fd
    BY <1>1, <1>5, SetFdIs
  <2> HIDE DEF k1
  <2>2. /\ k \in [F -> Node(F)]
        /\ \A z \in F : Same(k1, k, z) /\ k[z].fd = k1[z].fd /\ k[z].bk = IF z = f THEN b ELSE k1[z].bk
    BY <1>5, <2>1, SetBkIs
  <2> HIDE DEF k, b, f
  <2> QED
    BY <2>1, <2>2 DEF Same
<1>7. CASE b # x
  <2>1. rep = [by |-> b, node |-> k] /\ rep.by = b /\ rep.by # NULL
    BY <1>5, <1>7 DEF Replacement
  <2> HIDE DEF k, rep
  <2>2. \A y \in F : y # x => k[y].fd # x /\ k[y].bk # x
    BY <1>5, <1>6, <1>7
  <2>3. CASE n[x].parent = NULL
    <3>1. x \notin Heads(n)
      BY <2>3 DEF Heads
    <3>2. Gone(F, x, k, Heads(n), Only(k, F, x), root) /\ \A j \in TreeBin : root[j] # x
      <4>1. (\A y \in F : Same(n, k, y)) /\ Loose(F, k, x)
        BY <1>6, <2>2 DEF Loose
      <4> QED
        BY <1>1, <1>2, <3>1, <4>1, MemberGone
    <3>3. Linked(x, n[x], rep, atBin) = k
      BY <2>1, <2>3 DEF Linked
    <3>4. i \in TreeBin
      BY <1>1, <1>5 DEF Node
    <3>5. newRoot = root /\ newMap = u.map /\ m = Only(k, F, x)
      BY <3>2, <3>3, <3>4 DEF Only
    <3>6. DOMAIN v.node = F \ {x} /\ Trees(v)
      <4>1. Gone(F, x, k, Heads(n), v.node, v.root) /\ v.map = u.map /\ v.root = root
        BY <1>4, <3>2, <3>5
      <4> HIDE DEF v, m
      <4>2. Marks(v)
        BY <1>0, <1>1, <4>1 DEF Marks
      <4> QED
        BY <1>1, <1>4, <4>1, <4>2, TreesLeft
    <3>7. Passed(n, v.node, x)
      <4>1. Gone(F, x, k, Heads(n), v.node, v.root)
        BY <1>4, <3>2, <3>5
      <4> HIDE DEF v, m
      <4> QED
        BY <1>0, <1>1, <1>6, <2>3, <4>1 DEF Gone, Passed, Alike, Same, Heads
    <3> QED
      BY <1>0, <3>6, <3>7
  <2>4. CASE n[x].parent # NULL
    <3>1. x \in Heads(n) /\ b \notin Heads(n)
      BY <1>1, <1>5, <1>7, <2>4 DEF Heads
    <3>2. n[x].size \in Large /\ i = compute_tree_index(n[x].size) /\ i \in TreeBin
      BY <1>1, <1>2, <3>1, TreeHeadIs
    <3>3. /\ k[b].size = n[x].size /\ k[b].index = i /\ Childless(k, b)
          /\ \A y \in F : y # b => Same(n, k, y)
      <4>1. Same(n, k, b) /\ n[b].index = compute_tree_index(n[b].size) /\ Childless(n, b)
        BY <1>1, <1>5, <1>6, <1>7, <2>4 DEF Plain
      <4> QED
        BY <1>5, <1>6, <3>2, <4>1 DEF Same, Childless
    <3>4. \A y \in Heads(n) : y # x => n[y].size # k[b].size
      BY <1>2, <3>1, <3>3 DEF IsTrie
    <3>5. \A y \in F : y # b /\ n[y].parent = NULL => Childless(n, y)
      BY <1>1 DEF Plain
    <3>6. PICK r : r = b
      OBVIOUS
    <3>7. rep = [by |-> r, node |-> k] /\ r \notin Heads(n) /\ Heir(F, n, dep, k, x, n[x], r)
      BY <1>5, <1>6, <2>1, <2>2, <3>1, <3>2, <3>3, <3>4, <3>5, <3>6 DEF Heir
    <3>8. LET nr == LeftRoots(root, x, n[x].index, r) IN
          /\ Gone(F, x, k, And(Heads(n), r), LeftNodes(F, root, x, n[x], n[x].index, k, r), nr)
          /\ SameMarks(root, nr)
      <4> HIDE DEF b
      <4> QED
        BY <1>1, <1>2, <3>1, <3>7, Replaced
    <3>9. /\ Gone(F, x, k, Heads(n) \cup {b}, v.node, v.root) /\ v.map = u.map
          /\ \A j \in TreeBin : v.root[j] # NULL <=> root[j] # NULL
      <4>1. v.map = u.map /\ v.root = LeftRoots(root, x, n[x].index, r)
            /\ v.node = LeftNodes(F, root, x, n[x], n[x].index, k, r)
        BY <1>4, <2>1, <3>6, <3>7 DEF LeftRoots, LeftNodes
      <4> HIDE DEF v, m
      <4> QED
        BY <3>6, <3>8, <4>1 DEF And, SameMarks
    <3> HIDE DEF v, m
    <3>10. DOMAIN v.node = F \ {x} /\ Trees(v)
      <4>1. Marks(v)
        BY <1>0, <1>1, <3>9 DEF Marks
      <4> QED
        BY <1>1, <1>4, <3>9, <4>1, TreesLeft
    <3>11. Passed(n, v.node, x)
      BY <1>0, <1>1, <1>6, <2>4, <3>9 DEF Gone, Passed, Alike, Same, Heads
    <3> QED
      BY <1>0, <3>10, <3>11 DEF v
  <2> QED
    BY <2>3, <2>4
<1>8. CASE b = x
  <2>1. n[x].parent # NULL /\ x \in Heads(n) /\ f = x /\ rep = LeafReplaces(n, x)
    BY <1>1, <1>5, <1>8 DEF Heads, Replacement
  <2>2. \A y \in F : y # x => n[y].fd # x /\ n[y].bk # x
    BY <1>5, <1>8, <2>1
  <2>3. i \in TreeBin
    BY <1>1, <1>5 DEF Node
  <2>4. CASE Leaf(n, x) = x
    <3>1. rep = [by |-> NULL, node |-> n] /\ rep.by = NULL
      BY <2>1, <2>4 DEF LeafReplaces
    <3>2. Childless(n, x)
      BY <1>1, <1>2, <2>1, <2>4, LeafIs
    <3> HIDE DEF rep
    <3>10. Loose(F, n, x)
      BY <1>1, <2>2 DEF Loose
    <3>3. LET nr == LeftRoots(root, x, n[x].index, NULL) IN
          /\ Gone(F, x, n, Heads(n), LeftNodes(F, root, x, n[x], n[x].index, n, NULL), nr)
          /\ OneMarkLess(root, nr, x, n[x].index)
      <4> HIDE DEF b
      <4> QED
        BY <1>1, <1>2, <2>1, <3>2, <3>10, LeafGone
    <3>4. /\ Gone(F, x, n, Heads(n), v.node, v.root)
          /\ v.map = IF atBin THEN u.map \ {i} ELSE u.map
          /\ \A j \in TreeBin : v.root[j] # NULL <=> root[j] # NULL /\ ~(atBin /\ j = i)
      <4>1. /\ v.map = IF atBin THEN u.map \ {i} ELSE u.map
            /\ v.root = LeftRoots(root, x, i, NULL)
            /\ v.node = LeftNodes(F, root, x, n[x], i, n, NULL)
        BY <1>4, <3>1 DEF LeftRoots, LeftNodes
      <4> HIDE DEF v, m
      <4> QED
        BY <3>3, <4>1 DEF OneMarkLess
    <3> HIDE DEF v, m
    <3>5. DOMAIN v.node = F \ {x} /\ Trees(v)
      <4>1. Marks(v)
        BY <1>0, <1>1, <3>4 DEF Marks
      <4> QED
        BY <1>1, <1>4, <3>4, <4>1, TreesLeft
    <3>6. Passed(n, v.node, x)
      BY <1>0, <1>1, <1>8, <2>1, <3>4 DEF Gone, Passed, Alike, Heads
    <3> QED
      BY <1>0, <3>5, <3>6 DEF v
  <2>5. CASE Leaf(n, x) # x
    <3>1. PICK r : r = Leaf(n, x)
      OBVIOUS
    <3>2. PICK l : l = Redirect(n, n[r].parent, r, NULL)
      OBVIOUS
    <3>3. rep = [by |-> r, node |-> l] /\ rep.by = r /\ r # x
      BY <2>1, <2>5, <3>1, <3>2 DEF LeafReplaces
    <3> HIDE DEF rep
    <3>13. \E g, e : Cut(F, n, root, dep, x, r, l, g, e)
      BY <1>1, <1>2, <2>1, <3>1, <3>2, <3>3, LeafCut
    <3>14. PICK g, e : Cut(F, n, root, dep, x, r, l, g, e)
      BY <3>13
    <3>4. /\ l \in [F -> Node(F)] /\ g \in [F -> Node(F)] /\ IsTrie(g, root, e)
          /\ x \in Heads(g) /\ e[x] = dep[x] /\ r \in F /\ r \notin Heads(g)
          /\ \A y \in F : y # r => Same(g, l, y)
          /\ \A y \in F : Alike(n, l, y) /\ g[y].size = n[y].size /\ g[y].index = n[y].index
                          /\ l[y].parent = n[y].parent
          /\ Heads(g) = Heads(n) \ {r} /\ Childless(l, r)
          /\ \A y \in F : y # r /\ g[y].parent = NULL => Childless(g, y)
          /\ r \in Heads(n) /\ n[r].index = n[x].index
          /\ Pre(n[r].size, n[x].index, dep[x]) = Pre(n[x].size, n[x].index, dep[x])
      BY <3>14 DEF Cut
    <3>5. n[r].size \in Large /\ n[r].index = compute_tree_index(n[r].size) /\ r # NULL
      BY <1>1, <1>2, <3>4, TreeHeadIs
    <3>6. /\ l[r].size \in Large /\ l[r].index = compute_tree_index(l[r].size)
          /\ l[r].index = g[x].index
          /\ Pre(l[r].size, g[x].index, e[x]) = Pre(g[x].size, g[x].index, e[x])
          /\ \A y \in F : y # x => l[y].fd # x /\ l[y].bk # x
          /\ n[x].parent = g[x].parent /\ g[x].index = i
      <4>1. Alike(n, l, r) /\ x # r /\ Same(g, l, x)
        BY <1>5, <3>3, <3>4
      <4>2. l[r].size = n[r].size /\ l[r].index = n[r].index /\ g[x].index = n[x].index
            /\ g[x].size = n[x].size /\ g[x].parent = n[x].parent
        BY <1>5, <3>4, <4>1 DEF Alike, Same
      <4>3. \A y \in F : y # x => l[y].fd # x /\ l[y].bk # x
        BY <2>2, <3>4 DEF Alike
      <4> QED
        BY <3>4, <3>5, <4>2, <4>3
    <3>7. \A y \in Heads(g) : y # x => g[y].size # l[r].size
      <4>1. \A y \in Heads(n) : n[y].size = n[r].size => y = r
        BY <1>2, <3>4 DEF IsTrie
      <4>2. \A y \in Heads(g) : y \in Heads(n) /\ y \in F /\ y # r
        BY <3>4 DEF Heads
      <4> QED
        BY <3>4, <4>1, <4>2 DEF Alike
    <3>15. Heir(F, g, e, l, x, n[x], r)
      BY <3>4, <3>6, <3>7 DEF Heir
    <3>8. LET nr == LeftRoots(root, x, g[x].index, r) IN
          /\ Gone(F, x, l, And(Heads(g), r), LeftNodes(F, root, x, n[x], g[x].index, l, r), nr)
          /\ SameMarks(root, nr)
      <4> HIDE DEF b
      <4> QED
        BY <1>1, <3>4, <3>15, Replaced
    <3>9. /\ Gone(F, x, l, Heads(n), v.node, v.root) /\ v.map = u.map
          /\ \A j \in TreeBin : v.root[j] # NULL <=> root[j] # NULL
      <4>1. And(Heads(g), r) = Heads(n)
        BY <3>4 DEF And
      <4>2. rep.by # NULL
        BY <3>3, <3>5
      <4>3. v.root = LeftRoots(root, x, i, r) /\ v.map = u.map
            /\ v.node = LeftNodes(F, root, x, n[x], i, l, r)
        BY <1>4, <3>3, <4>2 DEF LeftRoots, LeftNodes
      <4> HIDE DEF v, m
      <4> QED
        BY <3>6, <3>8, <4>1, <4>3 DEF SameMarks
    <3> HIDE DEF v, m
    <3>10. DOMAIN v.node = F \ {x} /\ Trees(v)
      <4>1. Marks(v)
        BY <1>0, <1>1, <3>9 DEF Marks
      <4> QED
        BY <1>1, <1>4, <3>9, <4>1, TreesLeft
    <3>11. Passed(n, v.node, x)
      BY <1>0, <1>1, <1>8, <2>1, <3>4, <3>9 DEF Gone, Passed, Alike, Heads
    <3> QED
      BY <1>0, <3>10, <3>11 DEF v
  <2> QED
    BY <2>4, <2>5
<1> QED
  BY <1>7, <1>8

-----------------------------------------------------------------------------
(* What insert_large_chunk does to the tries. *)

\* With one more chunk the others are nodes as before.
LEMMA NodeMore ==
    ASSUME NEW F, NEW n \in [F -> Node(F)], NEW x
    PROVE  \A y \in F : n[y] \in Node(F \cup {x})
<1> SUFFICES ASSUME NEW y \in F PROVE n[y] \in Node(F \cup {x})
  OBVIOUS
<1>1. n[y] \in Node(F)
  OBVIOUS
<1>2. n[y].child \in [{0, 1} -> (F \cup {x}) \cup {NULL}]
  BY <1>1 DEF Node
<1> QED
  BY <1>1, <1>2 DEF Node

\* x comes to F as a new chunk of m.
Comes(F, G, n, x, s, i, parent, fd, bk, m) ==
    /\ n \in [F -> Node(F)] /\ x \notin F /\ G = F \cup {x} /\ s \in Size /\ i \in TreeBin
    /\ parent \in F \cup {NULL, BIN} /\ fd \in G /\ bk \in G
    /\ m = Added(n, x, NewNode(s, i, parent, fd, bk))

\* The new chunk is as it was made, the others are as they were.
LEMMA AddedIs ==
    ASSUME NEW F, NEW G, NEW n, NEW x, NEW s, NEW i, NEW parent, NEW fd, NEW bk, NEW m,
           Comes(F, G, n, x, s, i, parent, fd, bk, m)
    PROVE  /\ m \in [G -> Node(G)]
           /\ \A y \in F : m[y] = n[y]
           /\ m[x].size = s /\ m[x].index = i /\ m[x].parent = parent /\ Childless(m, x)
           /\ m[x].fd = fd /\ m[x].bk = bk
<1> USE DEF Comes
<1>1. PICK new : new = NewNode(s, i, parent, fd, bk)
  OBVIOUS
<1>2. PICK none : none = [c \in {0, 1} |-> NULL]
  OBVIOUS
<1>3. new = [size |-> s, index |-> i, parent |-> parent, child |-> none, fd |-> fd, bk |-> bk]
  BY <1>1, <1>2 DEF NewNode
<1>4. none \in [{0, 1} -> (F \cup {x}) \cup {NULL}] /\ none[0] = NULL /\ none[1] = NULL
  BY <1>2
<1>5. new \in Node(F \cup {x})
  BY <1>3, <1>4 DEF Node
<1>6. \A y \in F : n[y] \in Node(F \cup {x})
  BY NodeMore
<1>7. Added(n, x, new) = [y \in F \cup {x} |-> IF y = x THEN new ELSE n[y]]
  BY DEF Added
<1>8. /\ Added(n, x, new) \in [F \cup {x} -> Node(F \cup {x})]
      /\ \A y \in F : Added(n, x, new)[y] = n[y]
      /\ Added(n, x, new)[x] = new
  BY <1>5, <1>6, <1>7
<1>9. Childless(Added(n, x, new), x)
  BY <1>3, <1>4, <1>8 DEF Childless
<1>10. m = Added(n, x, new)
  BY <1>1
<1> QED
  BY <1>3, <1>8, <1>9, <1>10

\* What becomes of the rings when x comes, of size s.
Joined(n, m, x, s) ==
    /\ m[x].size = s /\ m[x].index = compute_tree_index(s)
    /\ \A y \in DOMAIN n : /\ m[y].size = n[y].size /\ m[y].index = n[y].index
                           /\ (m[y].parent # NULL) <=> (n[y].parent # NULL)
    /\ \A T \in Heads(n) : n[T].size = s =>
         /\ m[x].parent = NULL /\ m[x].fd = n[T].fd /\ m[x].bk = T
         /\ \A y \in DOMAIN n : /\ m[y].fd = IF y = T THEN x ELSE n[y].fd
                                /\ m[y].bk = IF y = n[T].fd THEN x ELSE n[y].bk
    /\ (\A T \in Heads(n) : n[T].size # s) =>
         /\ m[x].parent # NULL /\ m[x].fd = x /\ m[x].bk = x
         /\ \A y \in DOMAIN n : m[y].fd = n[y].fd /\ m[y].bk = n[y].bk

\* The first chunk of a bin.
LEMMA RootedIs ==
    ASSUME NEW u, Trees(u), NEW x \in Chunk \ DOMAIN u.node, NEW s \in Size, NEW i,
           i = compute_tree_index(s), i \notin u.map
    PROVE  LET v == Rooted(u, x, s, i) IN
           Trees(v) /\ DOMAIN v.node = DOMAIN u.node \cup {x} /\ Joined(u.node, v.node, x, s)
<1>1. PICK n, F, root : n = u.node /\ F = DOMAIN n /\ root = u.root
  OBVIOUS
<1>2. /\ F \in SUBSET Chunk /\ n \in [F -> Node(F)] /\ root \in [TreeBin -> F \cup {NULL}]
      /\ Marks(u) /\ Plain(n)
  BY <1>1 DEF Trees
<1>3. PICK dep : IsTrie(n, root, dep)
  BY <1>1 DEF Trees
<1>4. /\ s \in Large /\ i \in TreeBin /\ root[i] = NULL
      /\ x \in Chunk /\ x \notin F /\ x # NULL /\ x # BIN /\ NULL # BIN /\ NULL \notin F
  <2>1. s \in Large
    BY TreeBinsAssumption DEF Large
  <2>2. i \in TreeBin
    BY <2>1, BinIs DEF TreeBin
  <2>3. root[i] = NULL
    BY <1>1, <1>2, <2>2 DEF Marks
  <2> QED
    BY <1>1, <1>2, <2>1, <2>2, <2>3, TreeBinsAssumption
<1>5. ASSUME NEW T \in Heads(n) PROVE n[T].size # s /\ T \in F
  <2>1. root[n[T].index] # NULL /\ n[T].index = compute_tree_index(n[T].size) /\ T \in F
    BY <1>2, <1>3, SubRoot, TreeHeadIs
  <2> QED
    BY <1>4, <2>1
<1>6. PICK G, m, newRoot, v : /\ G = F \cup {x}
                           /\ m = Added(n, x, NewNode(s, i, BIN, x, x))
                           /\ newRoot = [root EXCEPT ![i] = x]
                           /\ v = [root |-> newRoot, map |-> u.map \cup {i}, node |-> m]
  OBVIOUS
<1>7. v = Rooted(u, x, s, i)
  BY <1>1, <1>6 DEF Rooted
<1>8. /\ m \in [G -> Node(G)]
      /\ \A y \in F : m[y] = n[y]
      /\ m[x].size = s /\ m[x].index = i /\ m[x].parent = BIN /\ Childless(m, x)
      /\ m[x].fd = x /\ m[x].bk = x
  <2>1. BIN \in F \cup {NULL, BIN} /\ x \in G
    BY <1>6
  <2>2. m = Added(n, x, NewNode(s, i, BIN, x, x)) /\ G = F \cup {x}
    BY <1>6
  <2>3. n \in [F -> Node(F)] /\ x \notin F /\ i \in TreeBin
    BY <1>2, <1>4
  <2>4. Comes(F, G, n, x, s, i, BIN, x, x, m)
    BY <2>1, <2>2, <2>3 DEF Comes
  <2> QED
    BY <2>4, AddedIs
<1>9. Heads(m) = Heads(n) \cup {x} /\ x \notin Heads(n)
  BY <1>2, <1>4, <1>6, <1>8 DEF Heads
<1>10. newRoot \in [TreeBin -> G \cup {NULL}] /\ newRoot[i] = x
       /\ \A j \in TreeBin : j # i => newRoot[j] = root[j]
  BY <1>2, <1>4, <1>6
<1>11. \E e : IsTrie(m, newRoot, e)
  <2>1. \A y \in Heads(n) : Same(n, m, y)
    BY <1>5, <1>8 DEF Same
  <2> QED
    BY <1>2, <1>3, <1>4, <1>8, <1>9, <1>10, <2>1, RootAdded
<1>12. Plain(m)
  BY <1>2, <1>4, <1>6, <1>8 DEF Plain, Childless
<1>13. v.root = newRoot /\ v.map = u.map \cup {i} /\ v.node = m /\ DOMAIN m = G
       /\ v = [root |-> v.root, map |-> v.map, node |-> v.node]
  BY <1>6, <1>8
<1>14. Marks(v)
  BY <1>1, <1>2, <1>4, <1>10, <1>13 DEF Marks
<1>15. G \subseteq Chunk /\ G = F \cup {x}
  BY <1>2, <1>4, <1>6
<1>16. Trees(v)
  BY <1>8, <1>10, <1>11, <1>12, <1>13, <1>14, <1>15 DEF Trees
<1>17. Joined(n, m, x, s)
  <2>1. \A y \in F : /\ m[y].size = n[y].size /\ m[y].index = n[y].index
                     /\ (m[y].parent # NULL) <=> (n[y].parent # NULL)
                     /\ m[y].fd = n[y].fd /\ m[y].bk = n[y].bk
    BY <1>8
  <2> QED
    BY <1>1, <1>4, <1>5, <1>8, <2>1 DEF Joined
<1> QED
  BY <1>1, <1>7, <1>13, <1>15, <1>16, <1>17

\* A chunk of a size that is there already.
LEMMA MemberIs ==
    ASSUME NEW u, Trees(u), NEW x \in Chunk \ DOMAIN u.node, NEW s \in Size, NEW i,
           i = compute_tree_index(s), NEW T \in Heads(u.node), NEW p, p.node = T,
           u.node[T].size = s
    PROVE  LET v == Placed(u, x, s, i, p) IN
           Trees(v) /\ DOMAIN v.node = DOMAIN u.node \cup {x} /\ Joined(u.node, v.node, x, s)
<1>1. PICK n, F, root : n = u.node /\ F = DOMAIN n /\ root = u.root
  OBVIOUS
<1>2. /\ F \in SUBSET Chunk /\ n \in [F -> Node(F)] /\ root \in [TreeBin -> F \cup {NULL}]
      /\ Marks(u) /\ Plain(n) /\ T \in Heads(n) /\ T \in F /\ n[T].size = s
      /\ u = [root |-> u.root, map |-> u.map, node |-> u.node]
  BY <1>1 DEF Trees, Heads
<1>3. PICK dep : IsTrie(n, root, dep)
  BY <1>1 DEF Trees
<1>4. /\ s \in Large /\ i \in TreeBin /\ n[T].fd \in F
      /\ x \in Chunk /\ x \notin F /\ x # NULL /\ x # BIN /\ NULL \notin F
  <2>1. s \in Large
    BY TreeBinsAssumption DEF Large
  <2>2. i \in TreeBin
    BY <2>1, BinIs DEF TreeBin
  <2>3. n[T] \in Node(F)
    BY <1>2
  <2>4. n[T].fd \in F
    BY <2>3 DEF Node
  <2> QED
    BY <1>1, <1>2, <2>1, <2>2, <2>4, TreeBinsAssumption
<1>5. \A S \in Heads(n) : n[S].size = s => S = T
  BY <1>2, <1>3 DEF IsTrie
<1>6. PICK G, f, a, k, m, v :
                           /\ G = F \cup {x} /\ f = n[T].fd
                           /\ a = Added(n, x, NewNode(s, i, NULL, f, T))
                           /\ k = SetFd(a, T, x) /\ m = SetBk(k, f, x)
                           /\ v = [root |-> u.root, map |-> u.map, node |-> m]
  OBVIOUS
<1>7. v = Placed(u, x, s, i, p)
  <2>1. Placed(u, x, s, i, p) = [u EXCEPT !.node = m]
    BY <1>1, <1>2, <1>6 DEF Placed
  <2> QED
    BY <1>2, <1>6, <2>1
<1>8. /\ a \in [G -> Node(G)]
      /\ \A y \in F : a[y] = n[y]
      /\ a[x].size = s /\ a[x].index = i /\ a[x].parent = NULL /\ Childless(a, x)
      /\ a[x].fd = f /\ a[x].bk = T
  <2>1. NULL \in F \cup {NULL, BIN} /\ f \in G /\ T \in G
    BY <1>2, <1>4, <1>6
  <2>2. a = Added(n, x, NewNode(s, i, NULL, f, T)) /\ G = F \cup {x}
    BY <1>6
  <2>3. n \in [F -> Node(F)] /\ x \notin F /\ i \in TreeBin
    BY <1>2, <1>4
  <2>4. Comes(F, G, n, x, s, i, NULL, f, T, a)
    BY <2>1, <2>2, <2>3 DEF Comes
  <2> QED
    BY <2>4, AddedIs
<1>9. /\ k \in [G -> Node(G)]
      /\ \A z \in G : Same(a, k, z) /\ k[z].bk = a[z].bk /\ k[z].fd = IF z = T THEN x ELSE a[z].fd
  <2>1. T \in G /\ x \in G
    BY <1>2, <1>6
  <2>2. k = SetFd(a, T, x)
    BY <1>6
  <2>3. a \in [G -> Node(G)]
    BY <1>8
  <2> QED
    BY <2>1, <2>2, <2>3, SetFdIs
<1>10. /\ m \in [G -> Node(G)]
       /\ \A z \in G : Same(k, m, z) /\ m[z].fd = k[z].fd /\ m[z].bk = IF z = f THEN x ELSE k[z].bk
  <2>1. f \in G /\ x \in G
    BY <1>4, <1>6
  <2>2. m = SetBk(k, f, x)
    BY <1>6
  <2>3. k \in [G -> Node(G)]
    BY <1>9
  <2> QED
    BY <2>1, <2>2, <2>3, SetBkIs
<1>11. ASSUME NEW y \in F
       PROVE  Same(n, m, y) /\ m[y].fd = (IF y = T THEN x ELSE n[y].fd)
              /\ m[y].bk = (IF y = f THEN x ELSE n[y].bk)
  <2>1. y \in G
    BY <1>6
  <2> QED
    BY <1>8, <1>9, <1>10, <2>1 DEF Same
<1>12. /\ m[x].size = s /\ m[x].index = i /\ m[x].parent = NULL /\ Childless(m, x)
       /\ m[x].fd = f /\ m[x].bk = T
  <2>1. x \in G /\ x # T /\ x # f
    BY <1>2, <1>4, <1>6
  <2> QED
    BY <1>8, <1>9, <1>10, <2>1 DEF Same, Childless
<1>13. DOMAIN m = F \cup {x} /\ G = F \cup {x} /\ Heads(m) = Heads(n)
  <2>1. DOMAIN m = F \cup {x} /\ G = F \cup {x} /\ DOMAIN n = F
    BY <1>1, <1>6, <1>10
  <2>2. \A y \in F : m[y].parent = n[y].parent
    BY <1>11 DEF Same
  <2> QED
    BY <1>12, <2>1, <2>2 DEF Heads
<1>14. IsTrie(m, root, dep)
  <2>1. \A y \in Heads(n) : Same(n, m, y)
    BY <1>1, <1>11 DEF Heads
  <2> QED
    BY <1>3, <1>13, <2>1, TrieStays
<1>15. Plain(m)
  BY <1>1, <1>2, <1>11, <1>12, <1>13 DEF Plain, Childless, Same
<1>16. Trees(v)
  <2>1. v.root = root /\ v.map = u.map /\ v.node = m /\ v = [root |-> v.root, map |-> v.map, node |-> v.node]
    BY <1>1, <1>6
  <2>2. root \in [TreeBin -> G \cup {NULL}] /\ G \subseteq Chunk
    BY <1>2, <1>4, <1>6
  <2>3. Marks(v)
    BY <1>1, <1>2, <2>1 DEF Marks
  <2> QED
    BY <1>10, <1>13, <1>14, <1>15, <2>1, <2>2, <2>3 DEF Trees
<1>17. Joined(n, m, x, s)
  <2>1. \A y \in F : /\ m[y].size = n[y].size /\ m[y].index = n[y].index
                     /\ (m[y].parent # NULL) <=> (n[y].parent # NULL)
    BY <1>11 DEF Same
  <2>2. ~ \A S \in Heads(n) : n[S].size # s
    BY <1>2
  <2>3. ASSUME NEW S \in Heads(n), n[S].size = s
        PROVE  /\ m[x].parent = NULL /\ m[x].fd = n[S].fd /\ m[x].bk = S
               /\ \A y \in F : /\ m[y].fd = IF y = S THEN x ELSE n[y].fd
                               /\ m[y].bk = IF y = n[S].fd THEN x ELSE n[y].bk
    BY <1>5, <1>6, <1>11, <1>12, <2>3
  <2> QED
    BY <1>1, <1>12, <2>1, <2>2, <2>3 DEF Joined
<1>18. v.node = m
  BY <1>6
<1> QED
  BY <1>1, <1>7, <1>13, <1>16, <1>17, <1>18

\* The walk for size s of a chunk x has ended at a node of another size.
Awaits(u, x, s, i, p, dep) ==
  /\ Trees(u) /\ x \in Chunk \ DOMAIN u.node /\ s \in Size /\ i = compute_tree_index(s)
  /\ IsTrie(u.node, u.root, dep) /\ p.node \in Heads(u.node)
  /\ OnWay(u.node, dep, s, i, p) /\ WalkEnds(u.node, s, p) /\ u.node[p.node].size # s

\* A new leaf.
LEMMA HungIs ==
    ASSUME NEW u, NEW x, NEW s, NEW i, NEW p, NEW dep, Awaits(u, x, s, i, p, dep)
    PROVE  LET v == Placed(u, x, s, i, p) IN
           Trees(v) /\ DOMAIN v.node = DOMAIN u.node \cup {x} /\ Joined(u.node, v.node, x, s)
<1> USE DEF Awaits
<1>1. PICK n, F, root, T : n = u.node /\ F = DOMAIN n /\ root = u.root /\ T = p.node
  OBVIOUS
<1>2. /\ F \in SUBSET Chunk /\ n \in [F -> Node(F)] /\ root \in [TreeBin -> F \cup {NULL}]
      /\ Marks(u) /\ Plain(n) /\ T \in Heads(n) /\ T \in F /\ n[T].size # s
      /\ u = [root |-> u.root, map |-> u.map, node |-> u.node]
      /\ IsTrie(n, root, dep) /\ OnWay(n, dep, s, i, p) /\ WalkEnds(n, s, p)
  BY <1>1 DEF Trees, Heads
<1>3. /\ s \in Large /\ s \in Nat /\ i \in TreeBin
      /\ x \in Chunk /\ x \notin F /\ x # NULL /\ x # BIN /\ NULL \notin F
  <2>1. s \in Large
    BY TreeBinsAssumption DEF Large
  <2>2. i \in TreeBin
    BY <2>1, BinIs DEF TreeBin
  <2> QED
    BY <1>1, <1>2, <2>1, <2>2, LargeIs, TreeBinsAssumption
<1>4. PICK c : c = SizeBit(s, p.bit)
  OBVIOUS
<1>5. /\ n[T].index = i /\ Pre(n[T].size, i, dep[T]) = Pre(s, i, dep[T])
      /\ c = Way(s, i, dep[T]) /\ n[T].child[c] = NULL
      /\ \A y \in Heads(n) : n[y].size = s => y \in Sub(n, dep, T)
  BY <1>1, <1>2, <1>4 DEF OnWay, WalkEnds, Way
<1>6. c \in {0, 1}
  <2>1. dep[T] \in 0..Bits(i) /\ bit_for_tree_index(i) \in Nat /\ n[T].size \in Nat
    BY <1>2, <1>5, TreeHeadIs
  <2>2. dep[T] # Bits(i)
    BY <1>2, <1>3, <1>5, <2>1, AllBits
  <2>3. dep[T] \in 0..bit_for_tree_index(i)
    BY <2>1, <2>2 DEF Bits
  <2> QED
    BY <1>3, <1>5, <2>1, <2>3, NextBit
<1>7. \A y \in Heads(n) : n[y].size # s
  <2> SUFFICES ASSUME NEW y \in Heads(n), n[y].size = s PROVE FALSE
    OBVIOUS
  <2>1. y \in Sub(n, dep, T) /\ y # T
    BY <1>2, <1>5
  <2>2. n[T].child[Way(n[y].size, n[T].index, dep[T])] # NULL
    BY <1>2, <2>1, SubBelow
  <2> QED
    BY <1>5, <2>2
<1>8. PICK G, a, m, v : /\ G = F \cup {x} /\ a = Added(n, x, NewNode(s, i, T, x, x))
                        /\ m = SetChild(a, T, c, x)
                        /\ v = [root |-> u.root, map |-> u.map, node |-> m]
  OBVIOUS
<1>9. v = Placed(u, x, s, i, p)
  <2>1. Placed(u, x, s, i, p) = [u EXCEPT !.node = m]
    BY <1>1, <1>2, <1>4, <1>8 DEF Placed
  <2> QED
    BY <1>2, <1>8, <2>1
<1>10. /\ a \in [G -> Node(G)]
       /\ \A y \in F : a[y] = n[y]
       /\ a[x].size = s /\ a[x].index = i /\ a[x].parent = T /\ Childless(a, x)
       /\ a[x].fd = x /\ a[x].bk = x
  <2>1. Comes(F, G, n, x, s, i, T, x, x, a)
    BY <1>2, <1>3, <1>8 DEF Comes
  <2> QED
    BY <2>1, AddedIs
<1>11. /\ m \in [G -> Node(G)]
       /\ \A z \in G : /\ Alike(a, m, z) /\ m[z].parent = a[z].parent
                       /\ m[z].child = IF z = T THEN Kids(a[T], c, x) ELSE a[z].child
  <2>1. m = SetChild(a, T, c, x)
    BY <1>8
  <2>2. a \in [G -> Node(G)] /\ T \in G /\ x \in G \cup {NULL}
    BY <1>2, <1>8, <1>10
  <2>3. Gets(G, a, T, c, x, m)
    BY <1>6, <2>1, <2>2 DEF Gets
  <2> QED
    BY <2>3, SetChildIs
<1>12. ASSUME NEW y \in F
       PROVE  /\ m[y].size = n[y].size /\ m[y].index = n[y].index /\ m[y].parent = n[y].parent
              /\ m[y].fd = n[y].fd /\ m[y].bk = n[y].bk
              /\ m[y].child = IF y = T THEN [n[T].child EXCEPT ![c] = x] ELSE n[y].child
  <2>1. y \in G
    BY <1>8
  <2> QED
    BY <1>2, <1>10, <1>11, <2>1 DEF Alike, Kids
<1>13. /\ m[x].size = s /\ m[x].index = i /\ m[x].parent = T /\ Childless(m, x)
       /\ m[x].fd = x /\ m[x].bk = x
  <2>1. x \in G /\ x # T
    BY <1>2, <1>3, <1>8
  <2> QED
    BY <1>10, <1>11, <2>1 DEF Alike, Childless
<1>14. DOMAIN m = F \cup {x} /\ Heads(m) = Heads(n) \cup {x} /\ x \notin Heads(n) /\ T # NULL
  <2>1. DOMAIN m = F \cup {x} /\ DOMAIN n = F /\ T # NULL
    BY <1>1, <1>2, <1>3, <1>8, <1>11
  <2>2. \A y \in F : m[y].parent = n[y].parent
    BY <1>12
  <2> QED
    BY <1>3, <1>13, <2>1, <2>2 DEF Heads
<1>15. \E e : IsTrie(m, root, e)
  <2>1. \A y \in Heads(n) : y # T => Same(n, m, y)
    BY <1>1, <1>12 DEF Same, Heads
  <2>2. /\ m[T].size = n[T].size /\ m[T].index = i /\ m[T].parent = n[T].parent
        /\ m[T].child = [n[T].child EXCEPT ![c] = x]
    BY <1>2, <1>5, <1>12
  <2>3. Hung(n, dep, m, x, T, s, i, c)
    BY <1>2, <1>3, <1>5, <1>6, <1>7, <1>13, <1>14, <2>1, <2>2 DEF Hung
  <2> QED
    BY <1>2, <2>3, LeafAdded
<1>16. Plain(m)
  <2>1. \A y \in F : m[y].parent = NULL => y # T /\ m[y].child = n[y].child
    BY <1>2, <1>12 DEF Heads
  <2> QED
    BY <1>1, <1>2, <1>12, <1>13, <1>14, <2>1 DEF Plain, Childless
<1>17. Trees(v)
  <2>1. v.root = root /\ v.map = u.map /\ v.node = m /\ v = [root |-> v.root, map |-> v.map, node |-> v.node]
    BY <1>1, <1>8
  <2>2. root \in [TreeBin -> G \cup {NULL}] /\ G \subseteq Chunk /\ DOMAIN m = G
    BY <1>2, <1>3, <1>8, <1>11
  <2>3. Marks(v)
    BY <1>1, <1>2, <2>1 DEF Marks
  <2> QED
    BY <1>11, <1>15, <1>16, <2>1, <2>2, <2>3 DEF Trees
<1>18. Joined(n, m, x, s)
  <2>1. \A y \in F : /\ m[y].size = n[y].size /\ m[y].index = n[y].index
                     /\ (m[y].parent # NULL) <=> (n[y].parent # NULL)
                     /\ m[y].fd = n[y].fd /\ m[y].bk = n[y].bk
    BY <1>12
  <2> QED
    BY <1>1, <1>7, <1>13, <1>14, <2>1 DEF Joined
<1>19. v.node = m
  BY <1>8
<1> QED
  BY <1>1, <1>9, <1>14, <1>17, <1>18, <1>19

\* insert_large_chunk: a chunk comes to the tries and to a ring.
LEMMA InsertIs ==
    ASSUME NEW u, Trees(u), NEW x \in Chunk \ DOMAIN u.node, NEW s \in Size
    PROVE  LET v == insert_large_chunk(u, x, s) IN
           Trees(v) /\ DOMAIN v.node = DOMAIN u.node \cup {x} /\ Joined(u.node, v.node, x, s)
<1>1. PICK i : i = compute_tree_index(s)
  OBVIOUS
<1>2. s \in Large
  BY TreeBinsAssumption DEF Large
<1>3. CASE i \notin u.map
  <2>1. insert_large_chunk(u, x, s) = Rooted(u, x, s, i)
    BY <1>1, <1>3 DEF insert_large_chunk, Inserted
  <2> QED
    BY <1>1, <1>3, <2>1, RootedIs
<1>4. CASE i \in u.map
  <2>1. PICK p : p = Place(u, s, i)
    OBVIOUS
  <2>2. insert_large_chunk(u, x, s) = Placed(u, x, s, i, p)
    BY <1>1, <1>4, <2>1 DEF insert_large_chunk, Inserted
  <2>3. PICK dep : IsTrie(u.node, u.root, dep)
    BY DEF Trees
  <2>4. PICK F : F = DOMAIN u.node
    OBVIOUS
  <2>5. F \in SUBSET Chunk /\ u.node \in [F -> Node(F)] /\ i \in TreeBin /\ u.root[i] # NULL
    BY <1>4, <2>4 DEF Trees, Marks
  <2>6. p.node \in Heads(u.node) /\ OnWay(u.node, dep, s, i, p) /\ WalkEnds(u.node, s, p)
    BY <1>1, <1>2, <2>1, <2>3, <2>5, PlaceIs
  <2>7. CASE u.node[p.node].size = s
    BY <1>1, <2>2, <2>6, <2>7, MemberIs
  <2>8. CASE u.node[p.node].size # s
    <3>1. Awaits(u, x, s, i, p, dep)
      BY <1>1, <2>3, <2>6, <2>8 DEF Awaits
    <3> QED
      BY <2>2, <3>1, HungIs
  <2> QED
    BY <2>7, <2>8
<1> QED
  BY <1>3, <1>4

-----------------------------------------------------------------------------
(* Rings. *)

\* Who comes after and before the k-th of L.
Following(L, k) == IF k = L THEN 1 ELSE k + 1
Preceding(L, k) == IF k = 1 THEN L ELSE k - 1

\* q is the ring of the chunks of size s, the oldest first.
IsRing(n, s, q) ==
    LET L == Len(q) IN
    /\ q \in Seq(DOMAIN n)
    /\ \A k \in 1..L : /\ n[q[k]].size = s /\ ((n[q[k]].parent # NULL) <=> (k = 1))
                       /\ n[q[k]].bk = q[Following(L, k)] /\ n[q[k]].fd = q[Preceding(L, k)]
    /\ \A j, k \in 1..L : q[j] = q[k] => j = k

\* x is in the ring of its size.
Holder(n, a, x) == \E k \in 1..Len(a[n[x].size]) : a[n[x].size][k] = x

\* a[s] is the ring of size s, and every chunk is in one.
Rings(n, a) ==
    /\ a = [s \in Size |-> a[s]] /\ \A s \in Size : IsRing(n, s, a[s])
    /\ \A x \in DOMAIN n : /\ n[x].size \in Size /\ n[x].index = compute_tree_index(n[x].size)
                           /\ Holder(n, a, x)

\* Forth and back along a ring.
LEMMA RoundIs ==
    ASSUME NEW L \in Nat, NEW k \in 1..L
    PROVE  /\ Following(L, k) \in 1..L /\ Preceding(L, k) \in 1..L
           /\ Following(L, Preceding(L, k)) = k /\ Preceding(L, Following(L, k)) = k
           /\ (k % L) + 1 = Following(L, k)
<1>1. k < L => (k % L) = k
  OBVIOUS
<1>2. k = L => (k % L) = 0
  OBVIOUS
<1> QED
  BY <1>1, <1>2 DEF Following, Preceding

\* A chunk in its ring.
LEMMA RingMates ==
    ASSUME NEW n, NEW a, Rings(n, a), NEW x \in DOMAIN n
    PROVE  Mates(n, x)
<1>1. PICK s, q : s = n[x].size /\ q = a[s]
  OBVIOUS
<1>2. s \in Size /\ IsRing(n, s, q)
  BY <1>1 DEF Rings
<1>3. PICK L : L = Len(q)
  OBVIOUS
<1>4. L \in Nat /\ q \in Seq(DOMAIN n)
  BY <1>2, <1>3 DEF IsRing
<1>5. PICK p \in 1..L : q[p] = x
  BY <1>1, <1>3 DEF Rings, Holder
<1>6. \A k \in 1..L : /\ n[q[k]].size = s /\ ((n[q[k]].parent # NULL) <=> (k = 1))
                      /\ n[q[k]].bk = q[Following(L, k)] /\ n[q[k]].fd = q[Preceding(L, k)]
  BY <1>2, <1>3 DEF IsRing
<1>7. /\ Following(L, p) \in 1..L /\ Preceding(L, p) \in 1..L
      /\ Following(L, Preceding(L, p)) = p /\ Preceding(L, Following(L, p)) = p
  BY <1>4, RoundIs
<1>8. PICK b, f : b = n[x].bk /\ f = n[x].fd
  OBVIOUS
<1>9. b = q[Following(L, p)] /\ f = q[Preceding(L, p)]
  BY <1>5, <1>6, <1>8
<1>10. n[b].fd = x /\ n[f].bk = x /\ n[b].size = n[x].size
  BY <1>1, <1>5, <1>6, <1>7, <1>9
<1>11. ASSUME NEW y \in DOMAIN n
       PROVE  (n[y].fd = x => y = b) /\ (n[y].bk = x => y = f)
  <2>1. PICK u, r : u = n[y].size /\ r = a[u]
    OBVIOUS
  <2>2. u \in Size /\ IsRing(n, u, r)
    BY <2>1 DEF Rings
  <2>3. PICK M : M = Len(r)
    OBVIOUS
  <2>4. M \in Nat /\ r \in Seq(DOMAIN n)
    BY <2>2, <2>3 DEF IsRing
  <2>5. PICK j \in 1..M : r[j] = y
    BY <2>1, <2>3 DEF Rings, Holder
  <2>6. \A k \in 1..M : /\ n[r[k]].size = u
                        /\ n[r[k]].bk = r[Following(M, k)] /\ n[r[k]].fd = r[Preceding(M, k)]
    BY <2>2, <2>3 DEF IsRing
  <2>7. /\ Following(M, j) \in 1..M /\ Preceding(M, j) \in 1..M
        /\ Following(M, Preceding(M, j)) = j /\ Preceding(M, Following(M, j)) = j
    BY <2>4, RoundIs
  <2>8. CASE n[y].fd = x
    BY <1>8, <2>5, <2>6, <2>7, <2>8
  <2>9. CASE n[y].bk = x
    BY <1>8, <2>5, <2>6, <2>7, <2>9
  <2> QED
    BY <1>10, <2>8, <2>9
<1>12. /\ n[x].parent = NULL => b # x
       /\ n[x].parent # NULL /\ b # x => n[b].parent = NULL
  <2>1. \A j, k \in 1..L : q[j] = q[k] => j = k
    BY <1>2, <1>3 DEF IsRing
  <2>2. (n[x].parent # NULL) <=> p = 1
    BY <1>5, <1>6
  <2>3. (n[b].parent # NULL) <=> Following(L, p) = 1
    BY <1>6, <1>7, <1>9
  <2>4. b = x => Following(L, p) = p
    BY <1>5, <1>7, <1>9, <2>1
  <2>5. b # x => Following(L, p) # p
    BY <1>5, <1>9
  <2> QED
    BY <1>4, <2>2, <2>3, <2>4, <2>5 DEF Following
<1> QED
  BY <1>8, <1>10, <1>11, <1>12 DEF Mates

\* A sequence that x, at p, has left.
\* The p-th of q leaves, and r is left.
Leaves(F, q, p, r) == /\ q \in Seq(F) /\ p \in 1..Len(q) /\ r = Removed(q, q[p])
                      /\ \A j, k \in 1..Len(q) : q[j] = q[k] => j = k
Others(F, x) == F \ {x}

\* The others stay in their order.
LEMMA WithoutIs ==
    ASSUME NEW F, NEW q, NEW p, NEW r, Leaves(F, q, p, r)
    PROVE  /\ r \in Seq(Others(F, q[p])) /\ Len(r) = Len(q) - 1 /\ Len(q) \in Nat
           /\ \A k \in 1..Len(q) - 1 : r[k] = IF k < p THEN q[k] ELSE q[k + 1]
<1> USE DEF Leaves
<1>1. PICK L : L = Len(q)
  OBVIOUS
<1>2. L \in Nat /\ DOMAIN q = 1..L /\ \A k \in 1..L : q[k] \in F
  BY <1>1
<1>3. PICK c : c = CHOOSE k \in DOMAIN q : q[k] = q[p]
  OBVIOUS
<1>4. c \in DOMAIN q /\ q[c] = q[p]
  BY <1>1, <1>2, <1>3
<1>5. c = p
  BY <1>1, <1>2, <1>4
<1>6. r = [k \in 1 .. L - 1 |-> IF k < p THEN q[k] ELSE q[k + 1]]
  BY <1>1, <1>3, <1>5 DEF Removed
<1>8. L - 1 \in Nat
  BY <1>1, <1>2
<1>9. \A k \in 1..L - 1 : r[k] \in F \ {q[p]}
  <2> SUFFICES ASSUME NEW k \in 1..L - 1 PROVE r[k] \in F \ {q[p]}
    OBVIOUS
  <2>1. CASE k < p
    BY <1>1, <1>2, <1>6, <2>1
  <2>2. CASE ~(k < p)
    <3>1. k + 1 \in 1..L /\ k + 1 # p
      BY <1>1, <1>2, <2>2
    <3> QED
      BY <1>1, <1>2, <1>6, <2>2, <3>1
  <2> QED
    BY <2>1, <2>2
<1>10. r \in [1..L - 1 -> F \ {q[p]}]
  BY <1>6, <1>9
<1>11. r \in Seq(F \ {q[p]}) /\ Len(r) = L - 1
  BY <1>8, <1>10
<1> QED
  BY <1>1, <1>2, <1>6, <1>11 DEF Others

\* The rings when x has gone.
RingsGone(n, m, a, x) == Rings(m, [a EXCEPT ![n[x].size] = Removed(a[n[x].size], x)])

\* The chunk that goes leaves its ring in order, and the other rings alone.
LEMMA RingsLeft ==
    ASSUME NEW n, NEW m, NEW a, Rings(n, a), NEW x \in DOMAIN n,
           DOMAIN m = DOMAIN n \ {x}, Passed(n, m, x)
    PROVE  RingsGone(n, m, a, x)
<1>1. PICK F, s, q : F = DOMAIN n /\ s = n[x].size /\ q = a[s]
  OBVIOUS
<1>2. s \in Size /\ IsRing(n, s, q)
  BY <1>1 DEF Rings
<1>3. PICK L : L = Len(q)
  OBVIOUS
<1>4. L \in Nat /\ q \in Seq(F) /\ \A k \in 1..L : q[k] \in F
  BY <1>1, <1>2, <1>3 DEF IsRing
<1>5. PICK p \in 1..L : q[p] = x
  BY <1>1, <1>3 DEF Rings, Holder
<1>6. /\ \A k \in 1..L : /\ n[q[k]].size = s /\ ((n[q[k]].parent # NULL) <=> (k = 1))
                         /\ n[q[k]].bk = q[Following(L, k)] /\ n[q[k]].fd = q[Preceding(L, k)]
      /\ \A j, k \in 1..L : q[j] = q[k] => j = k
  BY <1>2, <1>3 DEF IsRing
<1>7. PICK r : r = Removed(q, x)
  OBVIOUS
<1>8. /\ r \in Seq(F \ {x}) /\ Len(r) = L - 1
      /\ \A k \in 1..L - 1 : r[k] = IF k < p THEN q[k] ELSE q[k + 1]
  <2>1. Leaves(F, q, p, r)
    BY <1>3, <1>4, <1>5, <1>6, <1>7 DEF Leaves
  <2>2. /\ r \in Seq(Others(F, q[p])) /\ Len(r) = Len(q) - 1
        /\ \A k \in 1..Len(q) - 1 : r[k] = IF k < p THEN q[k] ELSE q[k + 1]
    BY <2>1, WithoutIs
  <2> QED
    BY <1>3, <1>5, <2>2 DEF Others
<1>9. PICK a2 : a2 = [a EXCEPT ![s] = r]
  OBVIOUS
<1>10. /\ a2 = [u \in Size |-> a2[u]] /\ a2[s] = r
       /\ \A u \in Size : u # s => a2[u] = a[u]
  BY <1>2, <1>9 DEF Rings
<1>11. ASSUME NEW y \in F, y # x
       PROVE  /\ m[y].size = n[y].size /\ m[y].index = n[y].index
              /\ m[y].fd = IF y = n[x].bk THEN n[x].fd ELSE n[y].fd
              /\ m[y].bk = IF y = n[x].fd THEN n[x].bk ELSE n[y].bk
              /\ m[y].parent # NULL <=> n[y].parent # NULL \/ (n[x].parent # NULL /\ y = n[x].bk)
  BY <1>1, <1>11 DEF Passed
<1>12. /\ n[x].bk = q[Following(L, p)] /\ n[x].fd = q[Preceding(L, p)]
       /\ Following(L, p) \in 1..L /\ Preceding(L, p) \in 1..L
       /\ (n[x].parent # NULL) <=> (p = 1)
  BY <1>4, <1>5, <1>6, RoundIs
<1>13. IsRing(m, s, r)
  <2>1. PICK M : M = L - 1
    OBVIOUS
  <2> DEFINE at(k) == IF k < p THEN k ELSE k + 1
  <2>2. M \in Nat /\ L = M + 1
    BY <1>4, <1>5, <2>1
  <2>3. \A k \in 1..M : at(k) \in 1..L /\ at(k) # p /\ r[k] = q[at(k)]
    BY <1>5, <1>8, <2>1, <2>2
  <2>4. ASSUME NEW k \in 1..M
        PROVE  /\ m[r[k]].size = s /\ ((m[r[k]].parent # NULL) <=> (k = 1))
               /\ m[r[k]].bk = r[Following(M, k)] /\ m[r[k]].fd = r[Preceding(M, k)]
    <3>1. PICK y, h : y = r[k] /\ h = at(k)
      OBVIOUS
    <3>2. h \in 1..L /\ h # p /\ y = q[h] /\ y \in F /\ y # x
      BY <1>4, <1>5, <1>6, <2>3, <3>1
    <3>3. /\ n[y].size = s /\ ((n[y].parent # NULL) <=> (h = 1))
          /\ n[y].bk = q[Following(L, h)] /\ n[y].fd = q[Preceding(L, h)]
      BY <1>6, <3>2
    <3>4. (y = n[x].bk <=> h = Following(L, p)) /\ (y = n[x].fd <=> h = Preceding(L, p))
      BY <1>6, <1>12, <3>2
    <3>5. m[y].size = s
      BY <1>11, <3>2, <3>3
    <3>6. (m[y].parent # NULL) <=> (k = 1)
      <4>1. (m[y].parent # NULL) <=> (h = 1 \/ (p = 1 /\ h = Following(L, p)))
        BY <1>11, <1>12, <3>2, <3>3, <3>4
      <4> QED
        BY <2>2, <3>1, <3>2, <4>1 DEF Following
    <3>7. Following(M, k) \in 1..M /\ Preceding(M, k) \in 1..M
      BY <2>2, RoundIs
    <3>8. m[y].bk = r[Following(M, k)]
      <4>1. m[y].bk = q[IF h = Preceding(L, p) THEN Following(L, p) ELSE Following(L, h)]
        BY <1>11, <1>12, <3>2, <3>3, <3>4
      <4>2. (IF h = Preceding(L, p) THEN Following(L, p) ELSE Following(L, h)) = at(Following(M, k))
        BY <2>2, <3>1, <3>2 DEF Following, Preceding
      <4> QED
        BY <2>3, <3>7, <4>1, <4>2
    <3>9. m[y].fd = r[Preceding(M, k)]
      <4>1. m[y].fd = q[IF h = Following(L, p) THEN Preceding(L, p) ELSE Preceding(L, h)]
        BY <1>11, <1>12, <3>2, <3>3, <3>4
      <4>2. (IF h = Following(L, p) THEN Preceding(L, p) ELSE Preceding(L, h)) = at(Preceding(M, k))
        BY <2>2, <3>1, <3>2 DEF Following, Preceding
      <4> QED
        BY <2>3, <3>7, <4>1, <4>2
    <3> QED
      BY <3>1, <3>5, <3>6, <3>8, <3>9
  <2>5. \A j, k \in 1..M : r[j] = r[k] => j = k
    <3> SUFFICES ASSUME NEW j \in 1..M, NEW k \in 1..M, r[j] = r[k] PROVE j = k
      OBVIOUS
    <3>1. at(j) = at(k)
      BY <1>6, <2>3
    <3> QED
      BY <2>2, <3>1
  <2>6. r \in Seq(DOMAIN m) /\ Len(r) = M
    BY <1>1, <1>8, <2>1
  <2> QED
    BY <2>4, <2>5, <2>6 DEF IsRing
<1>14. ASSUME NEW u \in Size, u # s
       PROVE  IsRing(m, u, a[u])
  <2>1. PICK z : z = a[u]
    OBVIOUS
  <2>2. IsRing(n, u, z)
    BY <2>1 DEF Rings
  <2>3. PICK M : M = Len(z)
    OBVIOUS
  <2>4. M \in Nat /\ z \in Seq(F)
    BY <1>1, <2>2, <2>3 DEF IsRing
  <2>5. \A k \in 1..M : /\ n[z[k]].size = u /\ ((n[z[k]].parent # NULL) <=> (k = 1))
                         /\ n[z[k]].bk = z[Following(M, k)] /\ n[z[k]].fd = z[Preceding(M, k)]
    BY <2>2, <2>3 DEF IsRing
  <2>6. n[x].size = s /\ n[n[x].bk].size = s /\ n[n[x].fd].size = s
    BY <1>1, <1>6, <1>12
  <2>7. ASSUME NEW k \in 1..M
        PROVE  /\ z[k] \in F /\ z[k] # x /\ m[z[k]].size = u /\ ((m[z[k]].parent # NULL) <=> (k = 1))
               /\ m[z[k]].bk = z[Following(M, k)] /\ m[z[k]].fd = z[Preceding(M, k)]
    <3>1. PICK y : y = z[k]
      OBVIOUS
    <3>2. y \in F /\ n[y].size = u
      BY <2>3, <2>4, <2>5, <3>1
    <3>3. y # x /\ y # n[x].bk /\ y # n[x].fd
      BY <1>14, <2>6, <3>2
    <3>4. /\ m[y].size = n[y].size /\ (m[y].parent # NULL <=> n[y].parent # NULL)
          /\ m[y].bk = n[y].bk /\ m[y].fd = n[y].fd
      BY <1>11, <3>2, <3>3
    <3> QED
      BY <2>5, <3>1, <3>2, <3>3, <3>4
  <2>8. z \in Seq(DOMAIN m)
    <3>1. z \in [1..M -> DOMAIN m]
      BY <1>1, <2>3, <2>4, <2>7
    <3> QED
      BY <2>4, <3>1
  <2>9. \A j, k \in 1..M : z[j] = z[k] => j = k
    BY <2>2, <2>3 DEF IsRing
  <2> QED
    BY <2>1, <2>3, <2>7, <2>8, <2>9 DEF IsRing
<1>15. ASSUME NEW y \in DOMAIN m
       PROVE  /\ m[y].size \in Size /\ m[y].index = compute_tree_index(m[y].size)
              /\ Holder(m, a2, y)
  <2>1. y \in F /\ y # x
    BY <1>1
  <2>2. m[y].size = n[y].size /\ m[y].index = n[y].index
    BY <1>11, <2>1
  <2>3. n[y].size \in Size /\ n[y].index = compute_tree_index(n[y].size) /\ Holder(n, a, y)
    BY <1>1, <2>1 DEF Rings
  <2>4. CASE n[y].size = s
    <3>1. PICK k \in 1..L : q[k] = y
      BY <1>1, <1>3, <2>3, <2>4 DEF Holder
    <3>2. k # p
      BY <1>5, <2>1, <3>1
    <3>3. PICK j : j = IF k < p THEN k ELSE k - 1
      OBVIOUS
    <3>4. j \in 1..L - 1 /\ k = IF j < p THEN j ELSE j + 1
      BY <1>4, <1>5, <3>2, <3>3
    <3>5. r[j] = y
      BY <1>8, <3>1, <3>4
    <3> QED
      BY <1>8, <1>10, <2>2, <2>3, <2>4, <3>4, <3>5 DEF Holder
  <2>5. CASE n[y].size # s
    BY <1>10, <2>2, <2>3, <2>5 DEF Holder
  <2> QED
    BY <2>2, <2>3, <2>4, <2>5
<1>16. Rings(m, a2)
  BY <1>10, <1>13, <1>14, <1>15 DEF Rings
<1> QED
  BY <1>1, <1>7, <1>9, <1>16 DEF RingsGone

\* The rings when x has come, of size s.
RingsMore(m, a, x, s) == Rings(m, [a EXCEPT ![s] = Append(a[s], x)])

\* The chunk that comes is the youngest of its ring; the other rings are left alone.
LEMMA RingsJoined ==
    ASSUME NEW n, NEW m, NEW a, Rings(n, a), NEW x, x \notin DOMAIN n, NEW s \in Size,
           DOMAIN m = DOMAIN n \cup {x}, Joined(n, m, x, s)
    PROVE  RingsMore(m, a, x, s)
<1>1. PICK F, q : F = DOMAIN n /\ q = a[s]
  OBVIOUS
<1>2. IsRing(n, s, q)
  BY <1>1 DEF Rings
<1>3. PICK L : L = Len(q)
  OBVIOUS
<1>4. L \in Nat /\ q \in Seq(F) /\ \A k \in 1..L : q[k] \in F /\ q[k] # x
  BY <1>1, <1>2, <1>3 DEF IsRing
<1>5. /\ \A k \in 1..L : /\ n[q[k]].size = s /\ ((n[q[k]].parent # NULL) <=> (k = 1))
                         /\ n[q[k]].bk = q[Following(L, k)] /\ n[q[k]].fd = q[Preceding(L, k)]
      /\ \A j, k \in 1..L : q[j] = q[k] => j = k
  BY <1>2, <1>3 DEF IsRing
<1>6. PICK r, M : r = Append(q, x) /\ M = L + 1
  OBVIOUS
<1>7. /\ r \in Seq(F \cup {x}) /\ Len(r) = M /\ M \in Nat /\ r[M] = x /\ \A k \in 1..L : r[k] = q[k]
  <2>1. q \in Seq(F \cup {x}) /\ x \in F \cup {x}
    <3>1. q \in [1..L -> F \cup {x}]
      BY <1>3, <1>4
    <3> QED
      BY <1>4, <3>1
  <2>2. r \in Seq(F \cup {x}) /\ Len(r) = L + 1
    BY <1>3, <1>4, <1>6, <2>1
  <2>3. r[L + 1] = x /\ \A k \in 1..L : r[k] = q[k]
    BY <1>3, <1>4, <1>6
  <2> QED
    BY <1>4, <1>6, <2>2, <2>3
<1>8. PICK a2 : a2 = [a EXCEPT ![s] = r]
  OBVIOUS
<1>9. /\ a2 = [u \in Size |-> a2[u]] /\ a2[s] = r
      /\ \A u \in Size : u # s => a2[u] = a[u]
  BY <1>8 DEF Rings
<1>10. /\ m[x].size = s /\ m[x].index = compute_tree_index(s)
       /\ \A y \in F : /\ m[y].size = n[y].size /\ m[y].index = n[y].index
                       /\ (m[y].parent # NULL) <=> (n[y].parent # NULL)
  BY <1>1 DEF Joined
<1>13. IsRing(m, s, r) /\ \A y \in F : n[y].size # s => m[y].fd = n[y].fd /\ m[y].bk = n[y].bk
  <2>1. CASE L = 0
    <3>1. \A T \in Heads(n) : n[T].size # s
      <4> SUFFICES ASSUME NEW T \in Heads(n), n[T].size = s PROVE FALSE
        OBVIOUS
      <4>1. Holder(n, a, T)
        BY DEF Rings, Heads
      <4> QED
        BY <1>1, <1>3, <2>1, <4>1 DEF Holder
    <3>2. /\ m[x].parent # NULL /\ m[x].fd = x /\ m[x].bk = x
          /\ \A y \in F : m[y].fd = n[y].fd /\ m[y].bk = n[y].bk
      BY <1>1, <3>1 DEF Joined
    <3>3. IsRing(m, s, r)
      <4>1. r \in Seq(DOMAIN m) /\ Len(r) = 1 /\ r[1] = x
        BY <1>1, <1>6, <1>7, <2>1
      <4>2. Following(1, 1) = 1 /\ Preceding(1, 1) = 1
        BY DEF Following, Preceding
      <4>3. \A k \in 1..1 : k = 1
        OBVIOUS
      <4> QED
        BY <1>10, <3>2, <4>1, <4>2, <4>3 DEF IsRing
    <3> QED
      BY <3>2, <3>3
  <2>2. CASE L # 0
    <3>1. 1 \in 1..L /\ L \in 1..L
      BY <1>4, <2>2
    <3>2. PICK T, E : T = q[1] /\ E = q[L]
      OBVIOUS
    <3>3. T \in Heads(n) /\ n[T].size = s /\ n[T].fd = E
      BY <1>1, <1>4, <1>5, <3>1, <3>2 DEF Heads, Preceding
    <3>4. /\ m[x].parent = NULL /\ m[x].fd = E /\ m[x].bk = T
          /\ \A y \in F : /\ m[y].fd = IF y = T THEN x ELSE n[y].fd
                          /\ m[y].bk = IF y = E THEN x ELSE n[y].bk
      BY <1>1, <3>3 DEF Joined
    <3>5. ASSUME NEW k \in 1..M
          PROVE  /\ m[r[k]].size = s /\ ((m[r[k]].parent # NULL) <=> (k = 1))
                 /\ m[r[k]].bk = r[Following(M, k)] /\ m[r[k]].fd = r[Preceding(M, k)]
      <4>1. CASE k = M
        <5>1. r[k] = x /\ Following(M, k) = 1 /\ Preceding(M, k) = L /\ k # 1
          BY <1>4, <1>6, <1>7, <2>2, <4>1 DEF Following, Preceding
        <5> QED
          BY <1>7, <1>10, <3>1, <3>2, <3>4, <5>1
      <4>2. CASE k # M
        <5>1. k \in 1..L
          BY <1>4, <1>6, <4>2
        <5>2. PICK y : y = q[k]
          OBVIOUS
        <5>3. /\ y \in F /\ r[k] = y /\ n[y].size = s /\ ((n[y].parent # NULL) <=> (k = 1))
              /\ n[y].bk = q[Following(L, k)] /\ n[y].fd = q[Preceding(L, k)]
              /\ (y = T <=> k = 1) /\ (y = E <=> k = L)
          BY <1>4, <1>5, <1>7, <3>1, <3>2, <5>1, <5>2
        <5>4. m[y].bk = r[Following(M, k)]
          <6>1. CASE k = L
            BY <1>4, <1>6, <1>7, <3>4, <5>3, <6>1 DEF Following
          <6>2. CASE k # L
            <7>1. Following(M, k) = Following(L, k) /\ Following(L, k) \in 1..L
              BY <1>4, <1>6, <5>1, <6>2 DEF Following
            <7> QED
              BY <1>7, <3>4, <5>3, <6>2, <7>1
          <6> QED
            BY <6>1, <6>2
        <5>5. m[y].fd = r[Preceding(M, k)]
          <6>1. CASE k = 1
            BY <1>4, <1>6, <1>7, <3>4, <5>3, <6>1 DEF Preceding
          <6>2. CASE k # 1
            <7>1. Preceding(M, k) = Preceding(L, k) /\ Preceding(L, k) \in 1..L
              BY <1>4, <1>6, <5>1, <6>2 DEF Preceding
            <7> QED
              BY <1>7, <3>4, <5>3, <6>2, <7>1
          <6> QED
            BY <6>1, <6>2
        <5> QED
          BY <1>10, <5>3, <5>4, <5>5
      <4> QED
        BY <4>1, <4>2
    <3>6. \A j, k \in 1..M : r[j] = r[k] => j = k
      <4> SUFFICES ASSUME NEW j \in 1..M, NEW k \in 1..M, r[j] = r[k] PROVE j = k
        OBVIOUS
      <4>1. (j # M => j \in 1..L) /\ (k # M => k \in 1..L)
        BY <1>4, <1>6
      <4> QED
        BY <1>4, <1>5, <1>7, <4>1
    <3>7. IsRing(m, s, r)
      <4>1. r \in Seq(DOMAIN m)
        BY <1>1, <1>7
      <4> QED
        BY <1>7, <3>5, <3>6, <4>1 DEF IsRing
    <3>8. \A y \in F : n[y].size # s => m[y].fd = n[y].fd /\ m[y].bk = n[y].bk
      <4>1. n[T].size = s /\ n[E].size = s
        BY <1>5, <3>1, <3>2
      <4> QED
        BY <3>4, <4>1
    <3> QED
      BY <3>7, <3>8
  <2> QED
    BY <1>4, <2>1, <2>2
<1>14. ASSUME NEW u \in Size, u # s
       PROVE  IsRing(m, u, a[u])
  <2>1. PICK z : z = a[u]
    OBVIOUS
  <2>2. IsRing(n, u, z)
    BY <2>1 DEF Rings
  <2>3. PICK N : N = Len(z)
    OBVIOUS
  <2>4. N \in Nat /\ z \in Seq(F)
    BY <1>1, <2>2, <2>3 DEF IsRing
  <2>5. \A k \in 1..N : /\ n[z[k]].size = u /\ ((n[z[k]].parent # NULL) <=> (k = 1))
                         /\ n[z[k]].bk = z[Following(N, k)] /\ n[z[k]].fd = z[Preceding(N, k)]
    BY <2>2, <2>3 DEF IsRing
  <2>6. ASSUME NEW k \in 1..N
        PROVE  /\ z[k] \in F /\ m[z[k]].size = u /\ ((m[z[k]].parent # NULL) <=> (k = 1))
               /\ m[z[k]].bk = z[Following(N, k)] /\ m[z[k]].fd = z[Preceding(N, k)]
    <3>1. PICK y : y = z[k]
      OBVIOUS
    <3>2. y \in F /\ n[y].size = u
      BY <2>3, <2>4, <2>5, <3>1
    <3>3. m[y].bk = n[y].bk /\ m[y].fd = n[y].fd
      BY <1>13, <1>14, <3>2
    <3> QED
      BY <1>10, <2>5, <3>1, <3>2, <3>3
  <2>7. z \in Seq(DOMAIN m)
    <3>1. z \in [1..N -> DOMAIN m]
      BY <1>1, <2>3, <2>4, <2>6
    <3> QED
      BY <2>4, <3>1
  <2>8. \A j, k \in 1..N : z[j] = z[k] => j = k
    BY <2>2, <2>3 DEF IsRing
  <2> QED
    BY <2>1, <2>3, <2>6, <2>7, <2>8 DEF IsRing
<1>15. ASSUME NEW y \in DOMAIN m
       PROVE  /\ m[y].size \in Size /\ m[y].index = compute_tree_index(m[y].size)
              /\ Holder(m, a2, y)
  <2>1. CASE y = x
    <3>1. M \in 1..M
      BY <1>4, <1>6
    <3> QED
      BY <1>7, <1>9, <1>10, <2>1, <3>1 DEF Holder
  <2>2. CASE y # x
    <3>1. y \in F
      BY <1>1, <2>2
    <3>2. m[y].size = n[y].size /\ m[y].index = n[y].index
      BY <1>10, <3>1
    <3>3. n[y].size \in Size /\ n[y].index = compute_tree_index(n[y].size) /\ Holder(n, a, y)
      BY <1>1, <3>1 DEF Rings
    <3>4. CASE n[y].size = s
      <4>1. PICK k \in 1..L : q[k] = y
        BY <1>1, <1>3, <3>3, <3>4 DEF Holder
      <4>2. k \in 1..M /\ r[k] = y
        BY <1>4, <1>6, <1>7, <4>1
      <4> QED
        BY <1>7, <1>9, <3>2, <3>3, <3>4, <4>2 DEF Holder
    <3>5. CASE n[y].size # s
      BY <1>9, <3>2, <3>3, <3>5 DEF Holder
    <3> QED
      BY <3>2, <3>3, <3>4, <3>5
  <2> QED
    BY <2>1, <2>2
<1>16. Rings(m, a2)
  BY <1>9, <1>13, <1>14, <1>15 DEF Rings
<1> QED
  BY <1>1, <1>6, <1>8, <1>16 DEF RingsMore

-----------------------------------------------------------------------------
(* The inductive invariant. *)

TreesInv == Trees(trees) /\ Rings(trees.node, came) /\ IsFiniteSet(DOMAIN trees.node)

\* Behind every chunk there is a node of the trees, of its size.
LEMMA HeadOf ==
    ASSUME NEW n, NEW a, Rings(n, a), NEW x \in DOMAIN n
    PROVE  \E h \in Heads(n) : n[h].size = n[x].size
<1>1. PICK s, q : s = n[x].size /\ q = a[s]
  OBVIOUS
<1>2. IsRing(n, s, q)
  BY <1>1 DEF Rings
<1>3. PICK k \in 1..Len(q) : q[k] = x
  BY <1>1 DEF Rings, Holder
<1>4. q \in Seq(DOMAIN n)
  BY <1>2 DEF IsRing
<1>5. 1 \in 1..Len(q) /\ q[1] \in DOMAIN n
  BY <1>3, <1>4
<1>6. n[q[1]].size = s /\ n[q[1]].parent # NULL
  BY <1>2, <1>5 DEF IsRing
<1> QED
  BY <1>1, <1>5, <1>6 DEF Heads

\* What the two searches choose for a request.
Chosen(u, nb) == IF is_small(nb) THEN SmallFit(u, nb) ELSE LargeFit(u, nb)

\* Each search finds a node that is enough, if there is one, and none beats it.
LEMMA ChosenIs ==
    ASSUME NEW u, Trees(u), NEW nb \in ChunkRequest, u.map # {}
    PROVE  LET f == Chosen(u, nb) IN
           IsFit(u.node, nb, f) /\ \A y \in Heads(u.node) : u.node[y].size >= nb => Beaten(u.node, f, y)
<1>1. PICK F, dep : F = DOMAIN u.node /\ IsTrie(u.node, u.root, dep)
  BY DEF Trees
<1>2. F \in SUBSET Chunk /\ u.node \in [F -> Node(F)] /\ Marks(u)
  BY <1>1 DEF Trees
<1>3. nb \in 1..MAX_SIZE_T /\ nb \in Nat
  BY TreeBinsAssumption
<1>4. MIN_LARGE_SIZE \in Nat
  BY Power, SizesAssumption DEF MIN_LARGE_SIZE
<1>5. CASE is_small(nb)
  <2>1. nb < MIN_LARGE_SIZE
    BY <1>5 DEF is_small
  <2> QED
    BY <1>1, <1>2, <1>3, <1>5, <2>1, SmallFitIs DEF Chosen
<1>6. CASE ~is_small(nb)
  <2>1. nb \in Large
    BY <1>3, <1>4, <1>6, WordIs DEF is_small, Large
  <2> QED
    BY <1>1, <1>2, <1>6, <2>1, LargeFitIs DEF Chosen
<1> QED
  BY <1>5, <1>6

\* A marked bin has its root.
LEMMA Marked ==
    ASSUME NEW u, Trees(u), u.map # {}
    PROVE  \E r \in Heads(u.node) : u.node[r].size \in Nat /\ u.node[r].size >= MIN_LARGE_SIZE
<1>1. PICK F, dep : F = DOMAIN u.node /\ IsTrie(u.node, u.root, dep)
  BY DEF Trees
<1>2. F \in SUBSET Chunk /\ u.node \in [F -> Node(F)] /\ Marks(u)
  BY <1>1 DEF Trees
<1>3. PICK i \in TreeBin : u.root[i] # NULL
  BY <1>2 DEF Marks
<1>4. PICK r : r = u.root[i]
  OBVIOUS
<1>5. r \in Heads(u.node)
  BY <1>1, <1>2, <1>3, <1>4, RootIs
<1>6. u.node[r].size \in Large /\ u.node[r].size \in Nat
  BY <1>1, <1>2, <1>5, TreeHeadIs
<1> QED
  BY <1>5, <1>6, WordIs DEF Large

\* There are no trees at first.
LEMMA TreesInitInv == TreesInit => TreesInv
<1> SUFFICES ASSUME TreesInit PROVE TreesInv
  OBVIOUS
<1>1. PICK n, root, a : n = trees.node /\ root = trees.root /\ a = came
  OBVIOUS
<1>2. /\ n = <<>> /\ trees.map = {} /\ trees = [root |-> trees.root, map |-> trees.map, node |-> trees.node]
      /\ root = [i \in TreeBin |-> NULL] /\ a = [s \in Size |-> <<>>]
  BY <1>1 DEF TreesInit, NoTrees, TreeBin
<1>3. DOMAIN n = {} /\ n \in [{} -> Node({})]
  BY <1>2
<1>4. Heads(n) = {}
  BY <1>3 DEF Heads
<1>5. IsTrie(n, root, [x \in {} |-> 0])
  BY <1>2, <1>4 DEF IsTrie
<1>6. Trees(trees)
  <2>1. root \in [TreeBin -> DOMAIN n \cup {NULL}]
    BY <1>2
  <2> QED
    BY <1>1, <1>2, <1>3, <1>5, <2>1 DEF Trees, Marks, Plain
<1>7. Rings(n, a)
  <2>1. \A s \in Size : IsRing(n, s, <<>>)
    BY DEF IsRing
  <2> QED
    BY <1>2, <1>3, <2>1 DEF Rings
<1>8. IsFiniteSet(DOMAIN n)
  BY <1>3, FS_EmptySet
<1> QED
  BY <1>1, <1>6, <1>7, <1>8 DEF TreesInv

\* A chunk leaves, whoever chose it.
LEMMA LeaveInv ==
    ASSUME TreesInv, NEW x \in DOMAIN trees.node, Leave(x)
    PROVE  TreesInv'
<1>1. Trees(trees) /\ Rings(trees.node, came) /\ IsFiniteSet(DOMAIN trees.node)
  BY DEF TreesInv
<1>2. Mates(trees.node, x)
  BY <1>1, RingMates
<1>3. \A y \in DOMAIN trees.node : trees.node[y].index = compute_tree_index(trees.node[y].size)
  BY <1>1 DEF Rings
<1>4. PICK v : v = unlink_large_chunk(trees, x)
  OBVIOUS
<1>5. Trees(v) /\ DOMAIN v.node = DOMAIN trees.node \ {x} /\ Passed(trees.node, v.node, x)
  BY <1>1, <1>2, <1>3, <1>4, UnlinkTreeIs
<1>6. RingsGone(trees.node, v.node, came, x)
  BY <1>1, <1>5, RingsLeft
<1>7. IsFiniteSet(DOMAIN v.node)
  BY <1>1, <1>5, FS_RemoveElement
<1>8. trees' = v /\ came' = [came EXCEPT ![trees.node[x].size] = Removed(came[trees.node[x].size], x)]
  <2>1. came = [s \in Size |-> came[s]] /\ trees.node[x].size \in Size
    BY <1>1 DEF Rings
  <2> QED
    BY <1>4, <2>1 DEF Leave
<1> QED
  BY <1>5, <1>6, <1>7, <1>8 DEF TreesInv, RingsGone

\* A chunk comes.
LEMMA InsertInv ==
    ASSUME TreesInv, NEW s \in Size, Insert(s)
    PROVE  TreesInv'
<1>1. Trees(trees) /\ Rings(trees.node, came) /\ IsFiniteSet(DOMAIN trees.node)
  BY DEF TreesInv
<1>2. PICK x \in Chunk \ DOMAIN trees.node :
         trees' = insert_large_chunk(trees, x, s) /\ came' = [came EXCEPT ![s] = Append(@, x)]
  BY DEF Insert
<1>3. PICK v : v = insert_large_chunk(trees, x, s)
  OBVIOUS
<1>4. Trees(v) /\ DOMAIN v.node = DOMAIN trees.node \cup {x} /\ Joined(trees.node, v.node, x, s)
  BY <1>1, <1>3, InsertIs
<1>5. RingsMore(v.node, came, x, s)
  BY <1>1, <1>2, <1>4, RingsJoined
<1>6. IsFiniteSet(DOMAIN v.node)
  BY <1>1, <1>4, FS_AddElement
<1>7. trees' = v /\ came' = [came EXCEPT ![s] = Append(came[s], x)]
  <2>1. came = [z \in Size |-> came[z]]
    BY <1>1 DEF Rings
  <2> QED
    BY <1>2, <1>3, <2>1
<1> QED
  BY <1>4, <1>5, <1>6, <1>7 DEF TreesInv, RingsMore

\* The searches choose chunks that are in the trees.
LEMMA TreesStepInv == TreesInv /\ [TreesNext]_treeVars => TreesInv'
<1> SUFFICES ASSUME TreesInv, [TreesNext]_treeVars PROVE TreesInv'
  OBVIOUS
<1>1. ASSUME NEW s \in Size, Insert(s) PROVE TreesInv'
  BY <1>1, InsertInv
<1>2. ASSUME NEW x \in DOMAIN trees.node, Consolidate(x) PROVE TreesInv'
  BY <1>2, LeaveInv DEF Consolidate
<1>3. ASSUME NEW nb \in ChunkRequest, TakeLarge(nb) PROVE TreesInv'
  <2>1. PICK x : x = LargeFit(trees, nb).v
    OBVIOUS
  <2>2. trees.map # {} /\ x # NULL /\ Leave(x) /\ x = Chosen(trees, nb).v
    BY <1>3, <2>1 DEF TakeLarge, Chosen
  <2>3. x \in DOMAIN trees.node
    BY <2>2, ChosenIs DEF TreesInv, IsFit, Heads
  <2> QED
    BY <2>2, <2>3, LeaveInv
<1>4. ASSUME NEW nb \in ChunkRequest, TakeSmall(nb) PROVE TreesInv'
  <2>1. PICK x : x = SmallFit(trees, nb).v
    OBVIOUS
  <2>2. trees.map # {} /\ Leave(x) /\ x = Chosen(trees, nb).v /\ nb < MIN_LARGE_SIZE
    BY <1>4, <2>1 DEF TakeSmall, Chosen, is_small
  <2>3. PICK r \in Heads(trees.node) : trees.node[r].size \in Nat /\ trees.node[r].size >= MIN_LARGE_SIZE
    BY <2>2, Marked DEF TreesInv
  <2>4. trees.node[r].size >= nb
    <3>1. nb \in Nat /\ MIN_LARGE_SIZE \in Nat
      BY TreeBinsAssumption, Power, SizesAssumption DEF MIN_LARGE_SIZE
    <3> QED
      BY <2>2, <2>3, <3>1
  <2>5. x # NULL
    BY <2>2, <2>4, ChosenIs DEF TreesInv, Beaten
  <2>6. x \in DOMAIN trees.node
    BY <2>2, <2>5, ChosenIs DEF TreesInv, IsFit, Heads
  <2> QED
    BY <2>2, <2>6, LeaveInv
<1>5. ASSUME UNCHANGED treeVars PROVE TreesInv'
  BY <1>5 DEF treeVars, TreesInv
<1> QED
  BY <1>1, <1>2, <1>3, <1>4, <1>5 DEF TreesNext

\* Whatever is freed, consolidated and chosen, in any order.
LEMMA TreesInvHold == TreesSpec => []TreesInv
<1> QED
  BY TreesInitInv, TreesStepInv, PTL DEF TreesSpec

-----------------------------------------------------------------------------
(* The properties. *)

\* The searches look at one path and one subtree, and choose a smallest chunk
\* that is enough.
THEOREM RequestsBestFit == TreesSpec => []BestFit
<1>1. TreesInv => BestFit
  <2> SUFFICES ASSUME TreesInv, NEW nb \in ChunkRequest, trees.map # {}
               PROVE  LET enough == {trees.node[x].size : x \in {y \in DOMAIN trees.node : trees.node[y].size >= nb}}
                          chosen == IF is_small(nb) THEN SmallFit(trees, nb) ELSE LargeFit(trees, nb)
                      IN  IF enough = {} THEN chosen.v = NULL
                          ELSE chosen.v # NULL /\ trees.node[chosen.v].size = Min(enough)
    BY DEF BestFit
  <2>1. PICK n, chosen, enough :
          /\ n = trees.node /\ chosen = Chosen(trees, nb)
          /\ enough = {trees.node[x].size : x \in {y \in DOMAIN trees.node : trees.node[y].size >= nb}}
    OBVIOUS
  <2>2. IsFit(n, nb, chosen) /\ \A y \in Heads(n) : n[y].size >= nb => Beaten(n, chosen, y)
    BY <2>1, ChosenIs DEF TreesInv
  <2>3. /\ \A y \in DOMAIN n : n[y].size >= nb => n[y].size \in enough
        /\ \A e \in enough : \E y \in DOMAIN n : n[y].size >= nb /\ e = n[y].size
    BY <2>1
  <2>4. \A y \in DOMAIN n : n[y].size \in Nat
    <3>1. Rings(n, came)
      BY <2>1 DEF TreesInv
    <3>2. \A z \in Size : z \in Nat
      BY TreeBinsAssumption, LargeIs DEF Large
    <3> QED
      BY <3>1, <3>2 DEF Rings
  <2>5. \A e \in enough : \E h \in Heads(n) : n[h].size >= nb /\ e = n[h].size
    <3> SUFFICES ASSUME NEW y \in DOMAIN n, n[y].size >= nb
                 PROVE  \E h \in Heads(n) : n[h].size >= nb /\ n[y].size = n[h].size
      BY <2>3
    <3>1. PICK h \in Heads(n) : n[h].size = n[y].size
      BY <2>1, HeadOf DEF TreesInv
    <3> QED
      BY <3>1
  <2>6. IF enough = {} THEN chosen.v = NULL ELSE chosen.v # NULL /\ n[chosen.v].size = Min(enough)
    <3>1. chosen.v # NULL => n[chosen.v].size \in enough
      BY <2>2, <2>3 DEF IsFit, Heads
    <3>2. \A e \in enough : chosen.v # NULL /\ n[chosen.v].size <= e
      BY <2>2, <2>5 DEF Beaten
    <3>3. enough \in SUBSET Nat
      BY <2>3, <2>4
    <3>4. enough # {} => Min(enough) \in enough /\ \A e \in enough : Min(enough) <= e
      BY <3>3, MinIs
    <3>5. enough # {} => n[chosen.v].size <= Min(enough) /\ Min(enough) <= n[chosen.v].size
                         /\ n[chosen.v].size \in Nat /\ Min(enough) \in Nat
      BY <3>1, <3>2, <3>3, <3>4
    <3> QED
      BY <3>1, <3>2, <3>5
  <2> QED
    BY <2>1, <2>6 DEF Chosen
<1> QED
  BY <1>1, TreesInvHold, PTL

\* Behind each node its ring holds the younger chunks of its size in the order
\* in which they came.
THEOREM RingsOldestFirst == TreesSpec => []OldestFirst
<1>1. TreesInv => OldestFirst
  <2> SUFFICES ASSUME TreesInv, NEW s \in Size, came[s] # <<>>
               PROVE  /\ trees.node[came[s][1]].parent # NULL
                      /\ \A k \in DOMAIN came[s] :
                           trees.node[came[s][k]].bk = came[s][(k % Len(came[s])) + 1]
    BY DEF OldestFirst
  <2>1. PICK q, L : q = came[s] /\ L = Len(q)
    OBVIOUS
  <2>2. IsRing(trees.node, s, q)
    BY <2>1 DEF TreesInv, Rings
  <2>3. q \in Seq(DOMAIN trees.node) /\ L \in Nat /\ DOMAIN q = 1..L
    BY <2>1, <2>2 DEF IsRing
  <2>4. L # 0
    BY <2>1, <2>3
  <2>5. \A k \in 1..L : /\ ((trees.node[q[k]].parent # NULL) <=> (k = 1))
                        /\ trees.node[q[k]].bk = q[Following(L, k)]
    BY <2>1, <2>2 DEF IsRing
  <2>6. \A k \in 1..L : (k % L) + 1 = Following(L, k)
    BY <2>3, RoundIs
  <2>7. trees.node[q[1]].parent # NULL
    BY <2>3, <2>4, <2>5
  <2>8. ASSUME NEW k \in DOMAIN q PROVE trees.node[q[k]].bk = q[(k % L) + 1]
    <3>1. k \in 1..L
      BY <2>3
    <3>2. trees.node[q[k]].bk = q[Following(L, k)] /\ (k % L) + 1 = Following(L, k)
      BY <2>5, <2>6, <3>1
    <3> QED
      BY <3>2
  <2> QED
    BY <2>1, <2>7, <2>8
<1> QED
  BY <1>1, TreesInvHold, PTL

-----------------------------------------------------------------------------
(* What the assertions of the code go through. *)

\* What is below y is below what y is below.
LEMMA SubIn ==
    ASSUME NEW F \in SUBSET Chunk, NEW n \in [F -> Node(F)], NEW root, NEW dep,
           IsTrie(n, root, dep), NEW x \in Heads(n), NEW y \in Sub(n, dep, x)
    PROVE  Sub(n, dep, y) \subseteq Sub(n, dep, x)
<1>1. PICK i, d : i = n[x].index /\ d = dep[x]
  OBVIOUS
<1>2. /\ y \in Heads(n) /\ n[y].index = i /\ d <= dep[y]
      /\ Pre(n[y].size, i, d) = Pre(n[x].size, i, d)
  BY <1>1 DEF Sub
<1>3. d \in Nat /\ dep[y] \in 0..Bits(i) /\ bit_for_tree_index(i) \in Nat /\ n[y].size \in Nat
  BY <1>1, <1>2, TreeHeadIs
<1>4. ASSUME NEW v \in Sub(n, dep, y) PROVE v \in Sub(n, dep, x)
  <2>1. /\ v \in Heads(n) /\ n[v].index = i /\ dep[y] <= dep[v]
        /\ Pre(n[v].size, i, dep[y]) = Pre(n[y].size, i, dep[y])
    BY <1>2 DEF Sub
  <2>2. n[v].size \in Nat /\ dep[v] \in Nat
    BY <2>1, TreeHeadIs
  <2>3. d \in 0..dep[y]
    BY <1>2, <1>3
  <2>4. Pre(n[v].size, i, d) = Pre(n[y].size, i, d)
    BY <1>3, <2>1, <2>2, <2>3, AgreeBelow
  <2>5. d <= dep[v]
    BY <1>2, <1>3, <2>1, <2>2
  <2> QED
    BY <1>1, <1>2, <2>1, <2>4, <2>5 DEF Sub
<1> QED
  BY <1>4

\* The children of the nodes in S, and what is at depth d below x.
Children(n, S) == {n[y].child[c] : y \in S, c \in {0, 1}} \ {NULL}
Level(n, dep, x, k) == {y \in Sub(n, dep, x) : dep[y] = dep[x] + k}

\* The children of one level are the next level.
LEMMA LevelUp ==
    ASSUME NEW F \in SUBSET Chunk, NEW n \in [F -> Node(F)], NEW root, NEW dep,
           IsTrie(n, root, dep), NEW x \in Heads(n), NEW k \in Nat
    PROVE  Children(n, Level(n, dep, x, k)) = Level(n, dep, x, k + 1)
<1>1. dep[x] \in Nat
  BY TreeHeadIs
<1>2. ASSUME NEW y \in Level(n, dep, x, k), NEW c \in {0, 1}, n[y].child[c] # NULL
      PROVE  n[y].child[c] \in Level(n, dep, x, k + 1)
  <2>1. y \in Sub(n, dep, x) /\ y \in Heads(n) /\ dep[y] = dep[x] + k
    BY DEF Level, Sub
  <2>2. PICK z : z = n[y].child[c]
    OBVIOUS
  <2>3. z \in Heads(n) /\ dep[z] = dep[y] + 1 /\ Sub(n, dep, z) \subseteq Sub(n, dep, y)
    BY <1>2, <2>1, <2>2, SubChild
  <2>4. z \in Sub(n, dep, z)
    BY <2>3, SubSelf
  <2>5. Sub(n, dep, y) \subseteq Sub(n, dep, x)
    BY <2>1, SubIn
  <2>6. dep[z] = dep[x] + (k + 1)
    BY <1>1, <2>1, <2>3
  <2> QED
    BY <2>2, <2>3, <2>4, <2>5, <2>6 DEF Level
<1>3. ASSUME NEW z \in Level(n, dep, x, k + 1)
      PROVE  \E y \in Level(n, dep, x, k), c \in {0, 1} : n[y].child[c] = z /\ z # NULL
  <2>1. z \in Sub(n, dep, x) /\ z \in Heads(n) /\ dep[z] = dep[x] + (k + 1)
    BY DEF Level, Sub
  <2>2. PICK p, i, d : p = n[z].parent /\ i = n[z].index /\ d = dep[x]
    OBVIOUS
  <2>3. d \in Nat /\ dep[z] # 0 /\ z # NULL /\ n[z].size \in Nat
    BY <1>1, <2>1, <2>2, TreeHeadIs
  <2>4. /\ p \in Heads(n) /\ n[p].index = i /\ dep[z] = dep[p] + 1
        /\ dep[p] \in 0..bit_for_tree_index(i)
        /\ Pre(n[z].size, i, dep[p]) = Pre(n[p].size, i, dep[p])
        /\ n[p].child[Way(n[z].size, i, dep[p])] = z
    BY <2>1, <2>2, <2>3, ParentIs
  <2>5. dep[p] = d + k /\ bit_for_tree_index(i) \in Nat /\ n[p].size \in Nat
    BY <2>1, <2>2, <2>3, <2>4, TreeHeadIs
  <2>6. dep[p] \in 0..Bits(i) /\ d \in 0..dep[p]
    BY <2>3, <2>4, <2>5 DEF Bits
  <2>7. Pre(n[z].size, i, d) = Pre(n[p].size, i, d)
    BY <2>3, <2>4, <2>5, <2>6, AgreeBelow
  <2>8. i = n[x].index /\ Pre(n[z].size, i, d) = Pre(n[x].size, i, d)
    BY <2>1, <2>2 DEF Sub
  <2>9. p \in Sub(n, dep, x)
    BY <2>2, <2>4, <2>6, <2>7, <2>8 DEF Sub
  <2>10. Way(n[z].size, i, dep[p]) \in {0, 1}
    BY <2>3, <2>4, <2>5, NextBit
  <2>11. p \in Level(n, dep, x, k)
    BY <2>2, <2>5, <2>9 DEF Level
  <2> QED
    BY <2>3, <2>4, <2>10, <2>11
<1>4. \A z \in Level(n, dep, x, k + 1) : z \in Children(n, Level(n, dep, x, k))
  BY <1>3 DEF Children
<1>5. \A z \in Children(n, Level(n, dep, x, k)) : z \in Level(n, dep, x, k + 1)
  BY <1>2 DEF Children
<1> QED
  BY <1>4, <1>5

\* Levels computes the levels.
LEMMA LevelsIs ==
    ASSUME NEW F \in SUBSET Chunk, NEW n \in [F -> Node(F)], NEW root, NEW dep,
           IsTrie(n, root, dep), NEW x \in Heads(n)
    PROVE  Levels(n, x) = [k \in 0..SizeBits |-> Level(n, dep, x, k)]
<1>1. SizeBits \in Nat
  BY SizesAssumption
<1>2. PICK a : a = [k \in 0..SizeBits |-> Level(n, dep, x, k)]
  OBVIOUS
<1>3. Level(n, dep, x, 0) = {x}
  <2>1. dep[x] \in Nat
    BY TreeHeadIs
  <2>2. x \in Level(n, dep, x, 0)
    BY <2>1, SubSelf DEF Level
  <2>3. ASSUME NEW y \in Level(n, dep, x, 0) PROVE y = x
    <3>1. /\ y \in Heads(n) /\ n[y].index = n[x].index /\ dep[y] = dep[x]
          /\ Pre(n[y].size, n[x].index, dep[x]) = Pre(n[x].size, n[x].index, dep[x])
      BY <2>1 DEF Level, Sub
    <3> QED
      BY <3>1, Unique
  <2> QED
    BY <2>2, <2>3
<1>4. a = [k \in 0..SizeBits |-> IF k = 0 THEN {x} ELSE Children(n, a[k - 1])]
  <2>1. ASSUME NEW k \in 0..SizeBits, k # 0 PROVE a[k] = Children(n, a[k - 1])
    <3>1. k - 1 \in 0..SizeBits /\ k - 1 \in Nat /\ (k - 1) + 1 = k
      BY <1>1, <2>1
    <3>2. Children(n, Level(n, dep, x, k - 1)) = Level(n, dep, x, k)
      BY <3>1, LevelUp
    <3> QED
      BY <1>2, <3>1, <3>2
  <2>2. a[0] = {x}
    BY <1>1, <1>2, <1>3
  <2> QED
    BY <1>2, <2>1, <2>2
<1>5. \A b : b = [k \in 0..SizeBits |-> IF k = 0 THEN {x} ELSE Children(n, b[k - 1])] => b = a
  <2> SUFFICES ASSUME NEW b, b = [k \in 0..SizeBits |-> IF k = 0 THEN {x} ELSE Children(n, b[k - 1])]
               PROVE  b = a
    OBVIOUS
  <2> DEFINE S == {k \in 0..SizeBits : b[k] = a[k]}
  <2>1. 0 \in S
    BY <1>1, <1>4
  <2>2. ASSUME NEW k \in 0..SizeBits, k < SizeBits, k \in S PROVE k + 1 \in S
    <3>1. k + 1 \in 0..SizeBits /\ k + 1 # 0 /\ (k + 1) - 1 = k
      BY <1>1, <2>2
    <3>2. b[k + 1] = Children(n, b[k]) /\ a[k + 1] = Children(n, a[k])
      BY <1>4, <3>1
    <3> QED
      BY <2>2, <3>1, <3>2
  <2> HIDE DEF S
  <2>3. \A k \in 0..SizeBits : k \in S
    BY <1>1, <2>1, <2>2, Climb
  <2>4. \A k \in 0..SizeBits : b[k] = a[k]
    BY <2>3 DEF S
  <2> QED
    BY <1>2, <2>4
<1>6. Levels(n, x) = CHOOSE b : b = [k \in 0..SizeBits |-> IF k = 0 THEN {x} ELSE Children(n, b[k - 1])]
  BY DEF Levels, Loop, Children
<1>7. Levels(n, x) = a
  BY <1>4, <1>5, <1>6
<1> QED
  BY <1>2, <1>7

\* Below is the subtree.
LEMMA BelowIs ==
    ASSUME NEW F \in SUBSET Chunk, NEW n \in [F -> Node(F)], NEW root, NEW dep,
           IsTrie(n, root, dep), NEW x \in Heads(n)
    PROVE  Below(n, x) = Sub(n, dep, x)
<1>1. SizeBits \in Nat
  BY SizesAssumption
<1>2. Below(n, x) = UNION {Level(n, dep, x, k) : k \in 0..SizeBits}
  <2>1. PICK a : a = [k \in 0..SizeBits |-> Level(n, dep, x, k)]
    OBVIOUS
  <2>2. Levels(n, x) = a
    BY <2>1, LevelsIs
  <2>3. Below(n, x) = UNION {a[k] : k \in 0..SizeBits}
    BY <2>1, <2>2 DEF Below
  <2> QED
    BY <2>1, <2>3
<1>3. \A k : Level(n, dep, x, k) \subseteq Sub(n, dep, x)
  BY DEF Level
<1>4. ASSUME NEW y \in Sub(n, dep, x) PROVE \E k \in 0..SizeBits : y \in Level(n, dep, x, k)
  <2>1. y \in Heads(n) /\ dep[x] <= dep[y]
    BY DEF Sub
  <2>2. dep[x] \in Nat /\ dep[y] \in 0..Bits(n[y].index) /\ bit_for_tree_index(n[y].index) \in 0..SizeBits - 1
    BY <2>1, TreeHeadIs
  <2>3. dep[y] - dep[x] \in 0..SizeBits /\ dep[y] = dep[x] + (dep[y] - dep[x])
    BY <1>1, <2>1, <2>2 DEF Bits
  <2> QED
    BY <2>3 DEF Level
<1> QED
  BY <1>2, <1>3, <1>4

\* The chunks of x's size.
OfSize(n, s) == {y \in DOMAIN n : n[y].size = s}

\* Ring is the set of all chunks of the size: the walk along the forward links meets
\* each of them within as many passes as there are chunks.
LEMMA RingIs ==
    ASSUME NEW n, n \in [DOMAIN n -> Node(DOMAIN n)], NEW a, Rings(n, a), IsFiniteSet(DOMAIN n),
           NEW x \in Heads(n)
    PROVE  Ring(n, x) = OfSize(n, n[x].size)
<1>1. PICK F, s, q : F = DOMAIN n /\ s = n[x].size /\ q = a[s]
  OBVIOUS
<1>2. PICK L, C : L = Len(q) /\ C = Cardinality(F)
  OBVIOUS
<1>3. /\ x \in F /\ C \in Nat /\ L \in Nat /\ q \in Seq(F) /\ \A k \in 1..L : q[k] \in F
      /\ \A j, k \in 1..L : q[j] = q[k] => j = k
      /\ \A k \in 1..L : /\ n[q[k]].size = s /\ ((n[q[k]].parent # NULL) <=> (k = 1))
                         /\ n[q[k]].fd = q[Preceding(L, k)]
  <2>1. IsRing(n, s, q)
    BY <1>1 DEF Rings, Heads
  <2>2. C \in Nat
    BY <1>1, <1>2, FS_CardinalityType
  <2>3. q \in Seq(F) /\ L \in Nat /\ \A k \in 1..L : q[k] \in F
    BY <1>1, <1>2, <2>1 DEF IsRing
  <2> QED
    BY <1>1, <1>2, <2>1, <2>2, <2>3 DEF IsRing, Heads
<1>4. \A y \in F : n[y].size = s => \E k \in 1..L : q[k] = y
  BY <1>1, <1>2 DEF Rings, Holder
<1>5. L >= 1 /\ q[1] = x
  <2>1. PICK k \in 1..L : q[k] = x
    BY <1>1, <1>3, <1>4
  <2>2. k = 1
    BY <1>3, <2>1 DEF Heads
  <2> QED
    BY <1>3, <2>1, <2>2
<1>6. L <= C
  <2> SUFFICES ASSUME C < L PROVE FALSE
    BY <1>3
  <2>1. PICK S : S = 1..L
    OBVIOUS
  <2>2. IsFiniteSet(S) /\ Cardinality(S) = L
    <3>1. 1 \in Int /\ L \in Int
      BY <1>3
    <3>2. IsFiniteSet(1..L) /\ Cardinality(1..L) = IF 1 > L THEN 0 ELSE L - 1 + 1
      BY ONLY <3>1, FS_Interval
    <3> QED
      BY <1>3, <1>5, <2>1, <3>2
  <2>3. q \in [S -> F]
    BY <1>2, <1>3, <2>1
  <2>4. IsFiniteSet(F) /\ Cardinality(F) < Cardinality(S)
    BY <1>1, <1>2, <2>2
  <2>5. \E j, k \in S : j # k /\ q[j] = q[k]
    BY ONLY <2>2, <2>3, <2>4, FS_PigeonHole
  <2> QED
    BY <1>3, <2>1, <2>5
<1>7. \A y \in F : n[y].fd \in F
  BY <1>1 DEF Node
<1> DEFINE g == [y \in F |-> n[y].fd]
<1>8. \E r : r = [k \in 0..C |-> IF k = 0 THEN x ELSE n[r[k - 1]].fd]
  <2>1. g \in [F -> F]
    BY <1>7
  <2> HIDE DEF g
  <2>2. PICK r \in [0..C -> F] : Run(r, C, x, g)
    BY <1>3, <2>1, LoopRuns
  <2>3. \A k \in 0..C : k # 0 => g[r[k - 1]] = n[r[k - 1]].fd
    <3>1. \A k \in 0..C : k # 0 => r[k - 1] \in F
      BY <1>3, <2>2
    <3> QED
      BY <3>1 DEF g
  <2>4. r = [k \in 0..C |-> IF k = 0 THEN x ELSE n[r[k - 1]].fd]
    BY <2>2, <2>3 DEF Run
  <2> QED
    BY <2>4
<1>9. PICK r : /\ r = [k \in 0..C |-> IF k = 0 THEN x ELSE n[r[k - 1]].fd]
               /\ Ring(n, x) = {r[k] : k \in DOMAIN r}
  <2>1. PICK r : r = CHOOSE b : b = [k \in 0..C |-> IF k = 0 THEN x ELSE n[b[k - 1]].fd]
    OBVIOUS
  <2>2. r = [k \in 0..C |-> IF k = 0 THEN x ELSE n[r[k - 1]].fd]
    BY <1>8, <2>1
  <2>3. Ring(n, x) = {r[k] : k \in DOMAIN r}
    BY <1>1, <1>2, <2>1 DEF Ring, Loop
  <2> QED
    BY <2>2, <2>3
<1>10. /\ DOMAIN r = 0..C /\ r[0] = x
       /\ \A k \in 0..C : k < C => k + 1 \in 0..C /\ r[k + 1] = n[r[k]].fd
  <2>1. DOMAIN r = 0..C /\ \A k \in 0..C : r[k] = IF k = 0 THEN x ELSE n[r[k - 1]].fd
    BY <1>9
  <2>2. \A k \in 0..C : k < C => k + 1 \in 0..C /\ k + 1 # 0 /\ (k + 1) - 1 = k
    BY <1>3
  <2>3. 0 \in 0..C
    BY <1>3
  <2> QED
    BY <2>1, <2>2, <2>3
<1>11. \A k \in 0..C : r[k] \in OfSize(n, s)
  <2> DEFINE S == {k \in 0..C : r[k] \in OfSize(n, s)}
  <2>1. 0 \in S
    BY <1>1, <1>3, <1>10 DEF OfSize
  <2>2. ASSUME NEW k \in 0..C, k < C, k \in S PROVE k + 1 \in S
    <3>1. r[k] \in F /\ n[r[k]].size = s /\ r[k + 1] = n[r[k]].fd /\ k + 1 \in 0..C
      BY <1>1, <1>10, <2>2 DEF OfSize
    <3>2. PICK j \in 1..L : q[j] = r[k]
      BY <1>4, <3>1
    <3>3. r[k + 1] = q[Preceding(L, j)] /\ Preceding(L, j) \in 1..L
      BY <1>3, <3>1, <3>2, RoundIs
    <3>4. r[k + 1] \in OfSize(n, s)
      BY <1>1, <1>3, <3>3 DEF OfSize
    <3> QED
      BY <3>1, <3>4
  <2> HIDE DEF S
  <2>3. \A k \in 0..C : k \in S
    BY <1>3, <2>1, <2>2, Climb
  <2> QED
    BY <2>3 DEF S
<1> DEFINE at(k) == IF k = 0 THEN 1 ELSE L - k + 1
<1>12. \A k \in 0..L - 1 : r[k] = q[at(k)]
  <2> DEFINE S == {k \in 0..L - 1 : r[k] = q[at(k)]}
  <2>1. L - 1 \in Nat
    BY <1>3, <1>5
  <2>2. 0 \in S
    BY <1>5, <1>10, <2>1
  <2>3. ASSUME NEW k \in 0..L - 1, k < L - 1, k \in S PROVE k + 1 \in S
    <3>1. k \in 0..C /\ k < C /\ at(k) \in 1..L /\ r[k] = q[at(k)]
      BY <1>3, <1>6, <2>1, <2>3
    <3>2. r[k + 1] = q[Preceding(L, at(k))]
      BY <1>3, <1>10, <3>1
    <3>3. Preceding(L, at(k)) = at(k + 1) /\ k + 1 \in 0..L - 1
      BY <1>3, <2>1, <2>3 DEF Preceding
    <3> QED
      BY <3>2, <3>3
  <2> HIDE DEF S
  <2>4. \A k \in 0..L - 1 : k \in S
    BY <2>1, <2>2, <2>3, Climb
  <2> QED
    BY <2>4 DEF S
<1>13. ASSUME NEW y \in OfSize(n, s) PROVE \E k \in DOMAIN r : r[k] = y
  <2>1. PICK j \in 1..L : q[j] = y
    BY <1>1, <1>4 DEF OfSize
  <2>2. PICK k : k = IF j = 1 THEN 0 ELSE L - j + 1
    OBVIOUS
  <2>3. k \in 0..L - 1 /\ k \in 0..C /\ at(k) = j
    BY <1>3, <1>5, <1>6, <2>2
  <2> QED
    BY <1>10, <1>12, <2>1, <2>3
<1> HIDE DEF g, at
<1>14. {r[k] : k \in DOMAIN r} = OfSize(n, s)
  BY <1>10, <1>11, <1>13
<1> QED
  BY <1>1, <1>9, <1>14

\* do_check_tree, for one node.
LEMMA NodeChecked ==
    ASSUME NEW u, NEW a, Trees(u), Rings(u.node, a), IsFiniteSet(DOMAIN u.node),
           NEW x \in Heads(u.node)
    PROVE  CheckNode(u.node, x)
<1>1. PICK n, F, dep : n = u.node /\ F = DOMAIN n /\ IsTrie(n, u.root, dep)
  BY DEF Trees
<1>2. F \in SUBSET Chunk /\ n \in [F -> Node(F)] /\ x \in Heads(n) /\ NULL \notin F
  BY <1>1, TreeBinsAssumption DEF Trees
<1>3. PICK s, i : s = n[x].size /\ i = n[x].index
  OBVIOUS
<1>4. x \in F /\ s \in Large /\ s \in Nat /\ i = compute_tree_index(s)
  BY <1>1, <1>2, <1>3, TreeHeadIs
<1>5. s >= MIN_LARGE_SIZE /\ s >= minsize_for_tree_index(i)
      /\ (i = NTREEBINS - 1 \/ s < minsize_for_tree_index(i + 1))
  <2>1. s >= MIN_LARGE_SIZE
    <3>1. MIN_LARGE_SIZE \in Nat /\ MAX_SIZE_T \in Nat
      BY Power, SizesAssumption DEF MIN_LARGE_SIZE, MAX_SIZE_T
    <3> QED
      BY <1>4, <3>1 DEF Large
  <2> QED
    BY <1>4, <2>1, BinBounds
<1>6. Ring(n, x) = OfSize(n, s)
  BY <1>1, <1>2, <1>3, RingIs
<1>7. ASSUME NEW y \in Ring(n, x)
      PROVE  /\ n[n[y].fd].bk = y /\ n[n[y].bk].fd = y
             /\ n[y].size = s /\ n[y].index = i
             /\ y # x => n[y].parent = NULL
  <2>1. y \in F /\ n[y].size = s
    BY <1>1, <1>6 DEF OfSize
  <2>2. Mates(n, y)
    BY <1>1, <2>1, RingMates
  <2>3. n[y].index = i
    BY <1>1, <1>4, <2>1 DEF Rings
  <2>4. y # x => n[y].parent = NULL
    BY <1>1, <1>2, <1>3, <2>1 DEF IsTrie, Heads
  <2> QED
    BY <2>1, <2>2, <2>3, <2>4 DEF Mates
<1>8. \A c \in {0, 1} : n[x].child[c] # NULL => n[n[x].child[c]].parent = x
  BY <1>1, <1>2, SubChild
<1> QED
  BY <1>1, <1>3, <1>4, <1>5, <1>7, <1>8 DEF CheckNode

\* A bin's sizes part by their bits.
LEMMA RootSplits ==
    ASSUME NEW F \in SUBSET Chunk, NEW n \in [F -> Node(F)], NEW root, NEW dep,
           IsTrie(n, root, dep), NEW i \in TreeBin, root[i] # NULL
    PROVE  SplitByBits(n, root[i], bit_for_tree_index(i))
<1>1. PICK r, b : r = root[i] /\ b = bit_for_tree_index(i)
  OBVIOUS
<1>2. r \in Heads(n) /\ n[r].index = i /\ dep[r] = 0
  BY <1>1, RootIs
<1>3. b \in Nat
  BY <1>1, <1>2, TreeHeadIs
<1>4. PICK a : a = Levels(n, r)
  OBVIOUS
<1>5. DOMAIN a = 0..SizeBits /\ \A k \in 0..SizeBits : a[k] = Level(n, dep, r, k)
  <2>1. PICK e : e = [k \in 0..SizeBits |-> Level(n, dep, r, k)]
    OBVIOUS
  <2>2. a = e
    BY <1>2, <1>4, <2>1, LevelsIs
  <2> QED
    BY <2>1, <2>2
<1>6. ASSUME NEW k \in DOMAIN a, NEW y \in a[k], NEW c \in {0, 1}, n[y].child[c] # NULL
      PROVE  /\ k <= b
             /\ \A z \in Below(n, n[y].child[c]) : SizeBit(n[z].size, b - k) = c
  <2>1. k \in Nat /\ y \in Level(n, dep, r, k)
    BY <1>5, SizesAssumption
  <2>2. y \in Heads(n) /\ n[y].index = i /\ dep[y] = k
    BY <1>2, <2>1 DEF Level, Sub
  <2>3. PICK h : h = n[y].child[c]
    OBVIOUS
  <2>4. h \in Heads(n) /\ k \in 0..b /\ \A z \in Sub(n, dep, h) : Way(n[z].size, i, k) = c
    BY <1>1, <1>6, <2>2, <2>3, SubChild
  <2>5. Below(n, h) = Sub(n, dep, h)
    BY <2>4, BelowIs
  <2> QED
    BY <1>1, <1>3, <2>3, <2>4, <2>5 DEF Way
<1> QED
  BY <1>1, <1>4, <1>6 DEF SplitByBits

\* do_check_treebin, for all bins.
LEMMA Checked ==
    ASSUME NEW u, NEW a, Trees(u), Rings(u.node, a), IsFiniteSet(DOMAIN u.node)
    PROVE  CheckTrees(u)
<1>1. PICK n, F, dep : n = u.node /\ F = DOMAIN n /\ IsTrie(n, u.root, dep)
  BY DEF Trees
<1>2. F \in SUBSET Chunk /\ n \in [F -> Node(F)] /\ Marks(u) /\ DOMAIN u.root = TreeBin
  BY <1>1 DEF Trees
<1>3. PICK marked : marked = {i \in DOMAIN u.root : u.root[i] # NULL}
  OBVIOUS
<1>4. u.map = marked /\ \A i \in marked : i \in TreeBin /\ u.root[i] # NULL
  BY <1>2, <1>3 DEF Marks
<1>5. ASSUME NEW i \in marked
      PROVE  /\ u.root[i] \in Heads(n) /\ n[u.root[i]].parent = BIN
             /\ Below(n, u.root[i]) = Sub(n, dep, u.root[i])
             /\ \A x \in Below(n, u.root[i]) : n[x].index = i
             /\ SplitByBits(n, u.root[i], bit_for_tree_index(i))
  <2>1. i \in TreeBin /\ u.root[i] # NULL
    BY <1>4
  <2>2. u.root[i] \in Heads(n) /\ n[u.root[i]].index = i /\ n[u.root[i]].parent = BIN
    BY <1>1, <1>2, <2>1, RootIs
  <2>3. Below(n, u.root[i]) = Sub(n, dep, u.root[i])
    BY <1>1, <1>2, <2>2, BelowIs
  <2>4. SplitByBits(n, u.root[i], bit_for_tree_index(i))
    BY <1>1, <1>2, <2>1, RootSplits
  <2> QED
    BY <2>2, <2>3, <2>4 DEF Sub
<1>6. PICK inTree : inTree = UNION {Below(n, u.root[i]) : i \in marked}
  OBVIOUS
<1>7. inTree = Heads(n)
  <2>1. \A x \in inTree : x \in Heads(n)
    BY <1>5, <1>6 DEF Sub
  <2>2. ASSUME NEW x \in Heads(n) PROVE x \in inTree
    <3>1. PICK i : i = n[x].index
      OBVIOUS
    <3>2. i \in TreeBin /\ u.root[i] # NULL /\ x \in Sub(n, dep, u.root[i])
      BY <1>1, <1>2, <3>1, TreeHeadIs, SubRoot
    <3>3. i \in marked
      BY <1>2, <1>3, <3>2
    <3> QED
      BY <1>5, <1>6, <3>2, <3>3
  <2> QED
    BY <2>1, <2>2
<1>8. \A x \in Heads(n) : CheckNode(n, x)
  BY <1>1, NodeChecked
<1>9. \A x, y \in Heads(n) : n[x].size = n[y].size => x = y
  BY <1>1 DEF IsTrie
<1>10. F = UNION {Ring(n, x) : x \in Heads(n)}
  <2>1. \A x \in Heads(n) : Ring(n, x) = OfSize(n, n[x].size)
    BY <1>1, <1>2, RingIs
  <2>2. \A x \in Heads(n) : Ring(n, x) \subseteq F
    BY <1>1, <2>1 DEF OfSize
  <2>3. ASSUME NEW y \in F PROVE \E x \in Heads(n) : y \in Ring(n, x)
    <3>1. PICK x \in Heads(n) : n[x].size = n[y].size
      BY <1>1, HeadOf
    <3>2. y \in OfSize(n, n[x].size)
      BY <1>1, <3>1 DEF OfSize
    <3> QED
      BY <2>1, <3>2
  <2> QED
    BY <2>2, <2>3
<1>11. \A i \in marked : /\ n[u.root[i]].parent = BIN
                         /\ \A x \in Below(n, u.root[i]) : n[x].index = i
                         /\ SplitByBits(n, u.root[i], bit_for_tree_index(i))
  BY <1>5
<1> HIDE DEF CheckNode, SplitByBits, Below, Ring
<1> QED
  BY <1>1, <1>3, <1>4, <1>6, <1>7, <1>8, <1>9, <1>10, <1>11 DEF CheckTrees

\* What do_check_treebin and do_check_tree assert holds whatever order of frees,
\* consolidations and choices built the trees.
THEOREM TreesAlwaysChecked == TreesSpec => []TreesChecked
<1>1. TreesInv => TreesChecked
  BY Checked DEF TreesInv, TreesChecked
<1> QED
  BY <1>1, TreesInvHold, PTL
=============================================================================
