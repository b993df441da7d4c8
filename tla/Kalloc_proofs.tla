---------------------------- MODULE Kalloc_proofs ----------------------------
(***************************************************************************)
(* What Kalloc's runs check on two or three cores, for every base, every   *)
(* place malloc may choose for a core and every request.  The argument:    *)
(*                                                                         *)
(*   - the ring is the set of its blocks, in address order: Follows and    *)
(*     IsRing say so of the links, and what Walk, Around and Between       *)
(*     compute is then determined by that set (RingIs, AroundIs, Around    *)
(*     being its size);                                                    *)
(*   - the blocks tile the cores: Tiles says so of the sizes alone;        *)
(*   - Good joins the two, and each helper of the model keeps it: kfree    *)
(*     (KfreeIs), morecore (MorecoreIs), carve (CarveIs), opened           *)
(*     (OpenedIs); hence each action keeps Sound;                          *)
(*   - every property follows from Sound, the units of km_stat by counting *)
(*     the addresses the blocks cover.                                     *)
(***************************************************************************)
EXTENDS Kalloc, FiniteSetTheorems, FunctionTheorems, WellFoundedInduction, TLAPS

INSTANCE Lemmas_proofs

-----------------------------------------------------------------------------
(* Sets of addresses, in order. *)

Below(F, x) == {y \in F : y < x}
Rank(F, x) == Cardinality(Below(F, x))

LEMMA BelowIs ==
    ASSUME NEW F \in SUBSET Nat, NEW x \in F
    PROVE  \A z : z \in Below(F, x) <=> z \in F /\ z \in Nat /\ z < x
  BY DEF Below

\* The elements of a finite set of numbers are numbered, in order, from 0.
LEMMA Ranks ==
    ASSUME NEW F \in SUBSET Nat, IsFiniteSet(F)
    PROVE  /\ \A x \in F : Rank(F, x) \in 0..(Cardinality(F) - 1)
           /\ \A x, y \in F : x < y => Rank(F, x) < Rank(F, y)
           /\ \A i \in 0..(Cardinality(F) - 1) : \E x \in F : Rank(F, x) = i
<1> DEFINE n == Cardinality(F)
<1>1. n \in Nat
  BY FS_CardinalityType
<1>2. ASSUME NEW S \in SUBSET F, NEW x \in F \ S
      PROVE  Cardinality(S) \in Nat /\ Cardinality(S) < n
  <2>1. IsFiniteSet(S) /\ Cardinality(S) \in Nat
    BY FS_Subset, FS_CardinalityType
  <2>2. /\ Cardinality(S \union {x}) = Cardinality(S) + 1
    BY <2>1, FS_AddElement
  <2>3. Cardinality(S \union {x}) <= n
    <3>1. S \union {x} \in SUBSET F
      OBVIOUS
    <3> QED
      BY <3>1, FS_Subset
  <2> QED
    BY <1>1, <2>1, <2>2, <2>3
<1>3. \A x \in F : Rank(F, x) \in 0..(n - 1)
  <2> SUFFICES ASSUME NEW x \in F PROVE Rank(F, x) \in 0..(n - 1)
    OBVIOUS
  <2>1. Below(F, x) \in SUBSET F /\ x \in F \ Below(F, x)
    BY DEF Below
  <2>2. Rank(F, x) \in Nat /\ Rank(F, x) < n
    BY <1>2, <2>1 DEF Rank
  <2> QED
    BY <1>1, <2>2
<1>4. \A x, y \in F : x < y => Rank(F, x) < Rank(F, y)
  <2> SUFFICES ASSUME NEW x \in F, NEW y \in F, x < y PROVE Rank(F, x) < Rank(F, y)
    OBVIOUS
  <2>0. x \in Nat /\ y \in Nat /\ \A z \in F : z \in Nat
    OBVIOUS
  <2>1. Below(F, x) \union {x} \in SUBSET Below(F, y) /\ x \notin Below(F, x)
    <3>1. \A z : z \in Below(F, x) <=> z \in F /\ z \in Nat /\ z < x
      BY BelowIs
    <3>2. \A z : z \in Below(F, y) <=> z \in F /\ z \in Nat /\ z < y
      BY BelowIs
    <3> QED
      BY <2>0, <3>1, <3>2
  <2>2. IsFiniteSet(Below(F, x)) /\ IsFiniteSet(Below(F, y))
    <3>1. Below(F, x) \in SUBSET F /\ Below(F, y) \in SUBSET F
      BY DEF Below
    <3> QED
      BY <3>1, FS_Subset
  <2>3. Cardinality(Below(F, x) \union {x}) = Cardinality(Below(F, x)) + 1
    BY <2>1, <2>2, FS_AddElement
  <2>4. Cardinality(Below(F, x) \union {x}) <= Cardinality(Below(F, y))
    BY <2>1, <2>2, FS_Subset
  <2>5. Cardinality(Below(F, x)) \in Nat /\ Cardinality(Below(F, y)) \in Nat
    BY <2>2, FS_CardinalityType
  <2> QED
    BY <2>3, <2>4, <2>5 DEF Rank
<1>5. \A i \in 0..(n - 1) : \E x \in F : Rank(F, x) = i
  <2> DEFINE I == 0..(n - 1)
             f == [x \in F |-> Rank(F, x)]
  <2>1. f \in [F -> I]
    BY <1>3
  <2>2. \A x, y \in F : f[x] = f[y] => x = y
    <3> SUFFICES ASSUME NEW x \in F, NEW y \in F, f[x] = f[y], x # y PROVE FALSE
      OBVIOUS
    <3>1. x < y \/ y < x
      OBVIOUS
    <3>2. Rank(F, x) = Rank(F, y) /\ Rank(F, x) \in Int
      BY <1>3
    <3> QED
      BY <1>4, <3>1, <3>2
  <2>3. f \in Injection(F, I)
    BY <2>1, <2>2 DEF Injection, IsInjective
  <2>4. IsFiniteSet(I) /\ Cardinality(I) = n
    <3>1. 0 \in Int /\ n - 1 \in Int
      BY <1>1
    <3> QED
      BY <1>1, <3>1, FS_Interval
  <2> HIDE DEF I, f
  <2>5. f \in Surjection(F, I)
    BY <2>3, <2>4, FS_Injection
  <2>6. \A i \in I : \E x \in F : f[x] = i
    BY <2>5 DEF Surjection
  <2> QED
    BY <2>6 DEF f, I
<1> QED
  BY <1>3, <1>4, <1>5

LEMMA Largest ==
    ASSUME NEW F \in SUBSET Nat, IsFiniteSet(F), F # {}
    PROVE  \E x \in F : \A y \in F : y <= x
<1>1. Cardinality(F) \in Nat /\ Cardinality(F) # 0
  BY FS_CardinalityType, FS_EmptySet
<1>2. Cardinality(F) - 1 \in 0..(Cardinality(F) - 1)
  BY <1>1
<1>3. PICK x \in F : Rank(F, x) = Cardinality(F) - 1
  BY <1>2, Ranks
<1>4. ASSUME NEW y \in F, x < y PROVE FALSE
  <2>1. Rank(F, x) < Rank(F, y) /\ Rank(F, y) \in 0..(Cardinality(F) - 1)
    BY <1>4, Ranks
  <2> QED
    BY <1>1, <1>3, <2>1
<1> QED
  BY <1>4

\* Min of the library.
LEMMA MinIs ==
    ASSUME NEW S \in SUBSET Nat, S # {}
    PROVE  Min(S) \in S /\ \A y \in S : Min(S) <= y
<1>1. \E x \in S : \A y \in S : x <= y
  BY Least
<1> QED
  BY <1>1 DEF Min

-----------------------------------------------------------------------------
(* The ring. *)

\* In the set F, c is the next address after b, or the first if b is the last.
Follows(F, b, c) ==
    /\ c \in F
    /\ \/ c > b /\ \A x \in F : x > b => c <= x
       \/ (\A x \in F : x <= b) /\ (\A x \in F : c <= x)

\* The links of a ring through the set F.
IsRing(F, links) == \A b \in F : Follows(F, b, links[b])

LEMMA FollowsRank ==
    ASSUME NEW F \in SUBSET Nat, IsFiniteSet(F), NEW b \in F, NEW c, Follows(F, b, c)
    PROVE  Rank(F, c) = IF Rank(F, b) + 1 < Cardinality(F) THEN Rank(F, b) + 1 ELSE 0
<1> DEFINE n == Cardinality(F)
<1>1. /\ n \in Nat /\ c \in F /\ Rank(F, b) \in 0..(n - 1) /\ Rank(F, c) \in 0..(n - 1)
  BY FS_CardinalityType, Ranks DEF Follows
<1>0. b \in Nat /\ c \in Nat /\ \A z \in F : z \in Nat
  BY <1>1
<1>2. CASE c > b /\ \A x \in F : x > b => c <= x
  <2>1. Below(F, c) = Below(F, b) \union {b} /\ b \notin Below(F, b)
    BY <1>0, <1>1, <1>2, BelowIs
  <2>2. IsFiniteSet(Below(F, b))
    <3>1. Below(F, b) \in SUBSET F
      BY DEF Below
    <3> QED
      BY <3>1, FS_Subset
  <2>3. Rank(F, c) = Rank(F, b) + 1
    BY <2>1, <2>2, FS_AddElement DEF Rank
  <2> QED
    BY <1>1, <2>3
<1>3. CASE (\A x \in F : x <= b) /\ (\A x \in F : c <= x)
  <2>1. Below(F, c) = {} /\ Below(F, b) = F \ {b}
    <3>1. \A z : z \in Below(F, b) <=> z \in F /\ z \in Nat /\ z < b
      BY BelowIs
    <3>2. \A z : z \in Below(F, c) <=> z \in F /\ z \in Nat /\ z < c
      BY <1>1, BelowIs
    <3>3. Below(F, c) = {}
      BY <1>0, <1>3, <3>2
    <3>4. \A z \in F : z < b <=> z # b
      BY <1>0, <1>3
    <3>5. Below(F, b) = F \ {b}
      BY <1>0, <3>1, <3>4
    <3> QED
      BY <3>3, <3>5
  <2>2. Rank(F, c) = 0 /\ Rank(F, b) = n - 1
    BY <2>1, FS_EmptySet, FS_RemoveElement DEF Rank
  <2> QED
    BY <1>1, <2>2
<1> QED
  BY <1>2, <1>3 DEF Follows

LEMMA SameRank ==
    ASSUME NEW F \in SUBSET Nat, IsFiniteSet(F)
    PROVE  \A x, y \in F : Rank(F, x) = Rank(F, y) => x = y
<1> SUFFICES ASSUME NEW x \in F, NEW y \in F, Rank(F, x) = Rank(F, y) PROVE x = y
  OBVIOUS
<1>1. Rank(F, x) \in Int /\ (x < y => Rank(F, x) < Rank(F, y)) /\ (y < x => Rank(F, y) < Rank(F, x))
  BY Ranks
<1>2. x \in Nat /\ y \in Nat
  OBVIOUS
<1> QED
  BY <1>1, <1>2

\* One more round of Walk's definition.
WStep(h, f, n, w) == [i \in 0..n |-> IF i = 0 THEN h ELSE f[w[i - 1]]]

\* The rank of the i-th block of a walk that begins at rank r in a ring of n.
Pos(r, n, i) == IF r + i < n THEN r + i ELSE r + i - n

\* A walk of a whole round: each link leads one rank further.
LEMMA WalkRanks ==
    ASSUME NEW F \in SUBSET Nat, IsFiniteSet(F), NEW h \in F, NEW f, IsRing(F, f),
           NEW n, n = Cardinality(F)
    PROVE  /\ \E w : w = WStep(h, f, n, w)
           /\ \A w : w = WStep(h, f, n, w) =>
                \A i \in 0..n : w[i] \in F /\ Rank(F, w[i]) = Pos(Rank(F, h), n, i)
<1>1. PICK r : r = Rank(F, h)
  OBVIOUS
<1>2. n \in Nat /\ n # 0 /\ r \in 0..(n - 1)
  BY <1>1, FS_CardinalityType, FS_EmptySet, Ranks
<1>3. \A i \in 0..n : Pos(r, n, i) \in 0..(n - 1)
  BY <1>2 DEF Pos
<1>4. ASSUME NEW i \in 1..n, NEW b \in F, Rank(F, b) = Pos(r, n, i - 1)
      PROVE  f[b] \in F /\ Rank(F, f[b]) = Pos(r, n, i)
  <2>1. f[b] \in F /\ Rank(F, f[b]) = IF Rank(F, b) + 1 < n THEN Rank(F, b) + 1 ELSE 0
    BY FollowsRank DEF IsRing, Follows
  <2>2. Pos(r, n, i) = IF Pos(r, n, i - 1) + 1 < n THEN Pos(r, n, i - 1) + 1 ELSE 0
    BY <1>2 DEF Pos
  <2> QED
    BY <1>4, <2>1, <2>2
<1>5. \E w : w = WStep(h, f, n, w)
  <2>1. PICK g : g = [i \in 0..n |-> CHOOSE x \in F : Rank(F, x) = Pos(r, n, i)]
    OBVIOUS
  <2>2. \A i \in 0..n : g[i] \in F /\ Rank(F, g[i]) = Pos(r, n, i)
    <3> SUFFICES ASSUME NEW i \in 0..n PROVE \E x \in F : Rank(F, x) = Pos(r, n, i)
      BY <2>1
    <3> QED
      BY <1>3, Ranks
  <2>0. \A x, y \in F : Rank(F, x) = Rank(F, y) => x = y
    BY SameRank
  <2>3. ASSUME NEW i \in 0..n PROVE g[i] = IF i = 0 THEN h ELSE f[g[i - 1]]
    <3>1. CASE i = 0
      <4>1. Pos(r, n, 0) = r
        BY <1>2 DEF Pos
      <4>2. g[i] \in F /\ Rank(F, g[i]) = Rank(F, h)
        BY <1>1, <2>2, <3>1, <4>1
      <4>3. g[i] = h
        BY <2>0, <4>2, Zenon
      <4> QED
        BY <3>1, <4>3
    <3>2. CASE i # 0
      <4>1. i \in 1..n /\ i - 1 \in 0..n
        BY <1>2, <3>2
      <4>2. f[g[i - 1]] \in F /\ Rank(F, f[g[i - 1]]) = Pos(r, n, i)
        BY <1>4, <2>2, <4>1
      <4>3. g[i] \in F /\ Rank(F, g[i]) = Rank(F, f[g[i - 1]])
        BY <2>2, <4>2
      <4>4. g[i] = f[g[i - 1]]
        BY <2>0, <4>2, <4>3, Zenon
      <4> QED
        BY <3>2, <4>4
    <3> QED
      BY <3>1, <3>2
  <2>4. g = WStep(h, f, n, g)
    <3>1. g = [i \in 0..n |-> g[i]]
      BY <2>1
    <3> QED
      BY <2>3, <3>1, Zenon DEF WStep
  <2> QED
    BY <2>4
<1>6. ASSUME NEW w, w = WStep(h, f, n, w), NEW j \in 0..n
      PROVE  w[j] \in F /\ Rank(F, w[j]) = Pos(r, n, j)
  <2> DEFINE S == {i \in 0..n : ~ (w[i] \in F /\ Rank(F, w[i]) = Pos(r, n, i))}
  <2>1. SUFFICES ASSUME S # {} PROVE FALSE
    OBVIOUS
  <2>2. S \in SUBSET Nat
    BY <1>2
  <2>3. PICK e \in S : \A i \in S : e <= i
    <3> HIDE DEF S
    <3> QED
      BY <2>1, <2>2, Least
  <2>4. w[e] = IF e = 0 THEN h ELSE f[w[e - 1]]
    BY <1>6, <2>3 DEF WStep
  <2>5. CASE e = 0
    <3>1. Pos(r, n, 0) = r
      BY <1>2 DEF Pos
    <3> QED
      BY <1>1, <2>3, <2>4, <2>5, <3>1
  <2>6. CASE e # 0
    <3>1. e \in 1..n /\ e - 1 \in 0..n /\ e - 1 \notin S
      BY <1>2, <2>3, <2>6
    <3>2. w[e - 1] \in F /\ Rank(F, w[e - 1]) = Pos(r, n, e - 1)
      BY <3>1
    <3>3. f[w[e - 1]] \in F /\ Rank(F, f[w[e - 1]]) = Pos(r, n, e)
      BY <1>4, <3>1, <3>2
    <3> QED
      BY <2>3, <2>4, <2>6, <3>3
  <2> QED
    BY <2>5, <2>6
<1> QED
  BY <1>1, <1>5, <1>6

\* Walk(k): it goes from block to block along the links, comes by every block,
\* by each once, and ends where it began.
WalksRound(w, F, links, n) ==
    /\ DOMAIN w = 0..n
    /\ \A i \in 0..n : w[i] \in F
    /\ \A i \in 1..n : w[i] = links[w[i - 1]]
    /\ w[n] = w[0]
    /\ \A i, j \in 1..n : w[i] = w[j] => i = j
    /\ \A b \in F : \E i \in 1..n : w[i] = b

LEMMA WalkIs ==
    ASSUME NEW k, NEW F, F = DOMAIN k.ptr, F \in SUBSET Nat, IsFiniteSet(F),
           k.loop_head \in F, IsRing(F, k.ptr)
    PROVE  /\ Cardinality(F) \in Nat \ {0}
           /\ Walk(k)[0] = k.loop_head
           /\ WalksRound(Walk(k), F, k.ptr, Cardinality(F))
<1>1. PICK n, h, f : n = Cardinality(F) /\ h = k.loop_head /\ f = k.ptr
  OBVIOUS
<1>2. n \in Nat /\ n # 0
  BY <1>1, FS_CardinalityType, FS_EmptySet
<1>3. PICK r : r = Rank(F, h)
  OBVIOUS
<1>4. r \in 0..(n - 1)
  BY <1>1, <1>3, Ranks
<1>5. PICK w : w = WStep(h, f, n, w) /\ Walk(k) = w
  <2>1. PICK w : /\ w = CHOOSE g : g = WStep(h, f, n, g)
                 /\ Walk(k) = w
    BY <1>1 DEF Walk, WStep
  <2>2. \E g : g = WStep(h, f, n, g)
    BY <1>1, WalkRanks
  <2> QED
    BY <2>1, <2>2
<1>6. \A i \in 0..n : w[i] \in F /\ Rank(F, w[i]) = Pos(r, n, i)
  BY <1>1, <1>3, <1>5, WalkRanks
<1>7. DOMAIN w = 0..n /\ w[0] = h /\ \A i \in 1..n : w[i] = f[w[i - 1]]
  <2>1. DOMAIN w = 0..n /\ \A i \in 0..n : w[i] = IF i = 0 THEN h ELSE f[w[i - 1]]
    BY <1>5 DEF WStep
  <2>2. 0 \in 0..n /\ \A i \in 1..n : i \in 0..n /\ i # 0
    BY <1>2
  <2> QED
    BY <2>1, <2>2
<1>8. w[n] = w[0]
  <2>1. n \in 0..n /\ 0 \in 0..n /\ Pos(r, n, n) = Pos(r, n, 0)
    BY <1>2, <1>4 DEF Pos
  <2> QED
    BY <1>1, <1>6, <2>1, SameRank
<1>9. ASSUME NEW i \in 1..n, NEW j \in 1..n, w[i] = w[j] PROVE i = j
  <2>1. i \in 0..n /\ j \in 0..n
    BY <1>2
  <2>2. Pos(r, n, i) = Pos(r, n, j)
    BY <1>6, <1>9, <2>1
  <2> QED
    BY <1>2, <1>4, <2>2 DEF Pos
<1>10. ASSUME NEW b \in F PROVE \E i \in 1..n : w[i] = b
  <2>1. PICK m : m = Rank(F, b)
    OBVIOUS
  <2>2. m \in 0..(n - 1)
    BY <1>1, <2>1, Ranks
  <2>3. PICK i \in 1..n : Pos(r, n, i) = m
    <3>1. CASE m > r
      <4>1. m - r \in 1..n /\ Pos(r, n, m - r) = m
        BY <1>2, <1>4, <2>2, <3>1 DEF Pos
      <4> QED
        BY <4>1
    <3>2. CASE ~ (m > r)
      <4>1. m - r + n \in 1..n /\ Pos(r, n, m - r + n) = m
        BY <1>2, <1>4, <2>2, <3>2 DEF Pos
      <4> QED
        BY <4>1
    <3> QED
      BY <3>1, <3>2
  <2>4. i \in 0..n
    BY <1>2
  <2>5. w[i] = b
    BY <1>6, <2>1, <2>3, <2>4, SameRank
  <2> QED
    BY <2>5
<1> QED
  BY <1>1, <1>2, <1>5, <1>6, <1>7, <1>8, <1>9, <1>10 DEF WalksRound

\* p enters the ring between two neighbours.
LEMMA RingInsert ==
    ASSUME NEW F \in SUBSET Nat, NEW f, IsRing(F, f), NEW q \in F, NEW p \in Nat \ F,
           \/ p > q /\ p < f[q]
           \/ q >= f[q] /\ (p > q \/ p < f[q]),
           NEW g, g[q] = p, g[p] = f[q], \A b \in F \ {q} : g[b] = f[b]
    PROVE  IsRing(F \union {p}, g)
<1> SUFFICES ASSUME NEW b \in F \union {p} PROVE Follows(F \union {p}, b, g[b])
  BY DEF IsRing
<1>0. PICK r : r = f[q]
  OBVIOUS
<1>1. /\ r \in F /\ r \in Nat /\ q \in Nat /\ p \in Nat /\ p \notin F
      /\ \/ r > q /\ \A x \in F : x > q => r <= x
         \/ (\A x \in F : x <= q) /\ (\A x \in F : r <= x)
  BY <1>0 DEF IsRing, Follows
<1>2. \A x \in F : x \in Nat /\ x # p
  OBVIOUS
<1>3. (p > q /\ p < r) \/ (q >= r /\ (p > q \/ p < r))
  BY <1>0
<1>4. CASE b = q
  <2>1. Follows(F \union {p}, q, p)
    BY <1>1, <1>2, <1>3 DEF Follows
  <2> QED
    BY <1>4, <2>1
<1>5. CASE b = p
  <2>1. Follows(F \union {p}, p, r)
    BY <1>1, <1>2, <1>3 DEF Follows
  <2> QED
    BY <1>0, <1>5, <2>1
<1>6. CASE b \in F \ {q}
  <2>1. PICK c : c = f[b]
    OBVIOUS
  <2>2. /\ c \in F /\ c \in Nat /\ b \in Nat /\ b \in F /\ b # q
        /\ \/ c > b /\ \A x \in F : x > b => c <= x
           \/ (\A x \in F : x <= b) /\ (\A x \in F : c <= x)
    BY <1>6, <2>1 DEF IsRing, Follows
  <2>3. Follows(F \union {p}, b, c)
    <3>1. CASE c > b /\ \A x \in F : x > b => c <= x
      <4>1. p > b => c <= p
        BY <1>1, <1>2, <1>3, <2>2, <3>1
      <4> QED
        BY <1>1, <2>2, <3>1, <4>1 DEF Follows
    <3>2. CASE (\A x \in F : x <= b) /\ (\A x \in F : c <= x)
      <4>1. q < b
        BY <1>1, <2>2, <3>2
      <4>2. r > q /\ p < r /\ p > q
        BY <1>1, <1>2, <1>3, <2>2, <3>2, <4>1
      <4>3. p <= b /\ c <= p
        BY <1>1, <1>2, <2>2, <3>2, <4>1, <4>2
      <4> QED
        BY <1>1, <2>2, <3>2, <4>3 DEF Follows
    <3> QED
      BY <2>2, <3>1, <3>2
  <2>4. g[b] = c
    BY <1>6, <2>1
  <2> QED
    BY <2>3, <2>4
<1> QED
  BY <1>4, <1>5, <1>6

\* r leaves the ring.
LEMMA RingRemove ==
    ASSUME NEW F \in SUBSET Nat, NEW f, IsRing(F, f), NEW q \in F, NEW r \in F,
           q # r, f[q] = r,
           NEW g, g[q] = f[r], \A b \in F \ {q, r} : g[b] = f[b]
    PROVE  IsRing(F \ {r}, g)
<1> SUFFICES ASSUME NEW b \in F \ {r} PROVE Follows(F \ {r}, b, g[b])
  BY DEF IsRing
<1>0. PICK d : d = f[r]
  OBVIOUS
<1>1. /\ r \in Nat /\ q \in Nat /\ d \in F /\ d \in Nat
      /\ \/ r > q /\ \A x \in F : x > q => r <= x
         \/ (\A x \in F : x <= q) /\ (\A x \in F : r <= x)
      /\ \/ d > r /\ \A x \in F : x > r => d <= x
         \/ (\A x \in F : x <= r) /\ (\A x \in F : d <= x)
  BY <1>0 DEF IsRing, Follows
<1>2. \A x \in F : x \in Nat
  OBVIOUS
<1>3. d # r
  BY <1>1
<1>4. CASE b = q
  <2>1. Follows(F \ {r}, q, d)
    <3>1. CASE r > q
      <4>1. CASE d > r
        BY <1>1, <1>2, <1>3, <3>1, <4>1 DEF Follows
      <4>2. CASE ~ (d > r)
        BY <1>1, <1>2, <1>3, <3>1, <4>2 DEF Follows
      <4> QED
        BY <4>1, <4>2
    <3>2. CASE ~ (r > q)
      BY <1>1, <1>2, <1>3, <3>2 DEF Follows
    <3> QED
      BY <3>1, <3>2
  <2> QED
    BY <1>0, <1>4, <2>1
<1>5. CASE b # q
  <2>1. PICK c : c = f[b]
    OBVIOUS
  <2>2. /\ c \in F /\ c \in Nat /\ b \in Nat /\ b \in F /\ b # q /\ b # r
        /\ \/ c > b /\ \A x \in F : x > b => c <= x
           \/ (\A x \in F : x <= b) /\ (\A x \in F : c <= x)
    BY <1>5, <2>1 DEF IsRing, Follows
  <2>3. c # r
    BY <1>1, <1>2, <2>2
  <2>4. Follows(F \ {r}, b, c)
    BY <2>2, <2>3 DEF Follows
  <2>5. g[b] = c
    BY <1>5, <2>1
  <2> QED
    BY <2>4, <2>5
<1> QED
  BY <1>4, <1>5

\* Where kfree's search for the neighbours of p stops.
LEMMA SearchEnds ==
    ASSUME NEW k, NEW F, F = DOMAIN k.ptr, F \in SUBSET Nat, IsFiniteSet(F), F # {},
           IsRing(F, k.ptr), NEW p \in Nat \ F
    PROVE  \E q \in F : Between(k, q, p)
<1>1. \A x \in F : x \in Nat /\ x # p
  OBVIOUS
<1>2. ASSUME NEW S \in SUBSET F, S # {} PROVE \E q \in S : \A y \in S : y <= q
  <2>1. IsFiniteSet(S) /\ S \in SUBSET Nat
    BY FS_Subset
  <2> QED
    BY <1>2, <2>1, Largest
<1>3. CASE \E x \in F : x < p
  <2>1. PICK q \in {x \in F : x < p} : \A y \in {x \in F : x < p} : y <= q
    BY <1>2, <1>3
  <2>2. PICK r : r = k.ptr[q]
    OBVIOUS
  <2>3. /\ r \in F /\ r \in Nat /\ q \in F /\ q \in Nat /\ q < p /\ r # p
        /\ \/ r > q /\ \A x \in F : x > q => r <= x
           \/ (\A x \in F : x <= q) /\ (\A x \in F : r <= x)
    BY <1>1, <2>1, <2>2 DEF IsRing, Follows
  <2>4. r < p => r <= q
    BY <2>1, <2>3
  <2>5. Between(k, q, p)
    BY <2>2, <2>3, <2>4 DEF Between
  <2> QED
    BY <2>3, <2>5
<1>4. CASE ~ \E x \in F : x < p
  <2>1. PICK q \in F : \A y \in F : y <= q
    BY <1>2
  <2>2. PICK r : r = k.ptr[q]
    OBVIOUS
  <2>3. /\ r \in F /\ r \in Nat /\ q \in Nat /\ r # p
    BY <1>1, <2>1, <2>2 DEF IsRing, Follows
  <2>4. r <= q /\ p < r
    BY <1>4, <2>1, <2>3
  <2>5. Between(k, q, p)
    BY <2>2, <2>3, <2>4 DEF Between
  <2> QED
    BY <2>1, <2>5
<1> QED
  BY <1>3, <1>4

-----------------------------------------------------------------------------
(* Blocks and cores. *)

\* malloc keeps a unit between any two cores, and between a core and kmem_t.
CoresApart(C) ==
    /\ \A c \in C : /\ c.at \in Nat /\ c.units \in Nat
                    /\ c.at + c.units < Base \/ c.at > Base + 2
    /\ \A c, d \in C : c = d \/ c.at + c.units < d.at \/ d.at + d.units < c.at

\* Blocks of these sizes, of which no two share a unit, fill the cores.
BlockOf(s, b) == b \in DOMAIN s /\ b # Base
Sizes(s) ==
    /\ DOMAIN s \in SUBSET Nat /\ IsFiniteSet(DOMAIN s)
    /\ Base \in DOMAIN s /\ s[Base] = 0
    /\ \A b : BlockOf(s, b) => s[b] \in Nat /\ s[b] > 0
Apart(s) == \A a, b \in DOMAIN s : a < b => a + s[a] <= b
Inside(s, b, c) == c.at < b /\ b + s[b] <= c.at + c.units
InCores(s, C) == \A b : BlockOf(s, b) => \E c \in C : Inside(s, b, c)
Covers(s, b, u) == b <= u /\ u < b + s[b]
Tiled(s, C) ==
    \A c \in C, u \in Nat :
        c.at < u /\ u < c.at + c.units => \E b \in DOMAIN s : Covers(s, b, u)

Tiles(s, C) == CoresApart(C) /\ Sizes(s) /\ Apart(s) /\ InCores(s, C) /\ Tiled(s, C)

LEMMA CoreIs ==
    ASSUME NEW C, CoresApart(C), NEW c \in C
    PROVE  /\ c.at \in Nat /\ c.units \in Nat
           /\ c.at + c.units < Base \/ c.at > Base + 2
           /\ \A d \in C : c = d \/ c.at + c.units < d.at \/ d.at + d.units < c.at
  BY Zenon DEF CoresApart

\* A block that ends where another begins is in the same core, and not next to base.
LEMMA SameCore ==
    ASSUME NEW C, NEW s, Tiles(s, C), NEW a, NEW b, BlockOf(s, a), b \in DOMAIN s, a + s[a] = b
    PROVE  /\ a \in Nat /\ b \in Nat /\ s[a] \in Nat /\ s[a] > 0 /\ s[b] \in Nat /\ b # Base
           /\ \E c \in C : c.at < a /\ b + s[b] <= c.at + c.units
<1>1. /\ a \in Nat /\ b \in Nat /\ s[a] \in Nat /\ s[a] > 0 /\ s[b] \in Nat /\ Base \in Nat
      /\ a \in DOMAIN s
  BY KallocAssumption DEF Tiles, Sizes, BlockOf
<1>2. PICK c \in C : c.at < a /\ b <= c.at + c.units
  BY DEF Tiles, InCores, Inside
<1>3. c.at \in Nat /\ c.units \in Nat /\ (c.at + c.units < Base \/ c.at > Base + 2)
  BY CoreIs DEF Tiles
<1>4. b # Base
  BY <1>1, <1>2, <1>3
<1>5. PICK d \in C : d.at < b /\ b + s[b] <= d.at + d.units
  BY <1>4 DEF Tiles, InCores, Inside, BlockOf
<1>6. d.at \in Nat /\ d.units \in Nat
  BY CoreIs DEF Tiles
<1>7. c = d
  <2>1. c = d \/ c.at + c.units < d.at \/ d.at + d.units < c.at
    BY CoreIs DEF Tiles
  <2>2. ~ (c.at + c.units < d.at)
    BY <1>1, <1>2, <1>3, <1>5, <1>6
  <2>3. ~ (d.at + d.units < c.at)
    BY <1>1, <1>2, <1>3, <1>5, <1>6
  <2> QED
    BY <2>1, <2>2, <2>3
<1> QED
  BY <1>1, <1>2, <1>4, <1>5, <1>7

\* Block b, where a ends, is merged into a.
LEMMA MergeTiles ==
    ASSUME NEW C, NEW s, Tiles(s, C), NEW a, NEW b, BlockOf(s, a), b \in DOMAIN s, a + s[a] = b,
           NEW z, DOMAIN z = DOMAIN s \ {b}, z[a] = s[a] + s[b],
           \A x \in DOMAIN s \ {a, b} : z[x] = s[x]
    PROVE  Tiles(z, C)
<1>1. /\ a \in Nat /\ b \in Nat /\ s[a] \in Nat /\ s[a] > 0 /\ s[b] \in Nat /\ b # Base
      /\ \E c \in C : c.at < a /\ b + s[b] <= c.at + c.units
  BY SameCore
<1>2. a # Base /\ a \in DOMAIN s /\ a # b /\ a \in DOMAIN z
  BY <1>1 DEF BlockOf
<1>3. \A x \in DOMAIN s : x \in Nat /\ s[x] \in Nat
  BY DEF Tiles, Sizes, BlockOf
<1>4. \A x \in DOMAIN z : x \in DOMAIN s /\ x # b /\ x \in Nat /\ z[x] \in Nat
  BY <1>1, <1>2, <1>3
<1>5. Sizes(z)
  <2>1. IsFiniteSet(DOMAIN z)
    BY FS_Subset DEF Tiles, Sizes
  <2>2. Base \in DOMAIN z /\ z[Base] = 0
    BY <1>1, <1>2 DEF Tiles, Sizes
  <2>3. \A x : BlockOf(z, x) => z[x] > 0
    BY <1>1, <1>2, <1>4 DEF Tiles, Sizes, BlockOf
  <2> QED
    BY <1>4, <2>1, <2>2, <2>3 DEF Sizes, BlockOf
<1>6. Apart(z)
  <2> SUFFICES ASSUME NEW x \in DOMAIN z, NEW y \in DOMAIN z, x < y PROVE x + z[x] <= y
    BY DEF Apart
  <2>1. x + s[x] <= y
    BY <1>4 DEF Tiles, Apart
  <2>2. CASE x = a
    <3>1. b < y
      BY <1>1, <1>3, <1>4, <2>1, <2>2
    <3>2. b + s[b] <= y
      BY <1>4, <3>1 DEF Tiles, Apart
    <3> QED
      BY <1>1, <1>4, <2>2, <3>2
  <2>3. CASE x # a
    BY <1>4, <2>1, <2>3
  <2> QED
    BY <2>2, <2>3
<1>7. InCores(z, C)
  <2> SUFFICES ASSUME NEW x, BlockOf(z, x) PROVE \E c \in C : Inside(z, x, c)
    BY DEF InCores
  <2>1. CASE x = a
    <3>1. a + z[a] = b + s[b]
      BY <1>1
    <3> QED
      BY <1>1, <2>1, <3>1 DEF Inside
  <2>2. CASE x # a
    <3>1. BlockOf(s, x) /\ z[x] = s[x]
      BY <1>4, <2>2 DEF BlockOf
    <3> QED
      BY <3>1 DEF Tiles, InCores, Inside
  <2> QED
    BY <2>1, <2>2
<1>8. Tiled(z, C)
  <2> SUFFICES ASSUME NEW c \in C, NEW u \in Nat, c.at < u /\ u < c.at + c.units
               PROVE  \E x \in DOMAIN z : Covers(z, x, u)
    BY DEF Tiled
  <2>1. PICK x \in DOMAIN s : Covers(s, x, u)
    BY DEF Tiles, Tiled
  <2>2. CASE x \in {a, b}
    <3>1. Covers(z, a, u)
      BY <1>1, <2>1, <2>2 DEF Covers
    <3> QED
      BY <1>2, <3>1
  <2>3. CASE x \notin {a, b}
    BY <2>1, <2>3 DEF Covers
  <2> QED
    BY <2>2, <2>3
<1> QED
  BY <1>5, <1>6, <1>7, <1>8 DEF Tiles

\* The end of block p becomes block e.
LEMMA SplitTiles ==
    ASSUME NEW C, NEW s, Tiles(s, C), NEW p, BlockOf(s, p), NEW e \in Nat,
           p < e, e < p + s[p],
           NEW z, DOMAIN z = DOMAIN s \union {e}, z[p] = e - p, z[e] = p + s[p] - e,
           \A x \in DOMAIN s \ {p} : z[x] = s[x]
    PROVE  Tiles(z, C) /\ e \notin DOMAIN s /\ e # Base
<1>1. /\ p \in Nat /\ s[p] \in Nat /\ p # Base /\ p \in DOMAIN s /\ Base \in Nat
      /\ \A x \in DOMAIN s : x \in Nat /\ s[x] \in Nat
  BY KallocAssumption DEF Tiles, Sizes, BlockOf
<1>2. e \notin DOMAIN s
  BY <1>1 DEF Tiles, Apart
<1>3. e # Base /\ p # e
  BY <1>1, <1>2 DEF Tiles, Sizes
<1>4. \A x \in DOMAIN s : x # p => x # e /\ z[x] = s[x]
  BY <1>2
<1>5. Sizes(z)
  <2>1. IsFiniteSet(DOMAIN z)
    BY FS_AddElement DEF Tiles, Sizes
  <2>2. \A x : BlockOf(z, x) => z[x] \in Nat /\ z[x] > 0
    BY <1>1, <1>4 DEF Tiles, Sizes, BlockOf
  <2> QED
    BY <1>1, <1>4, <2>1, <2>2 DEF Tiles, Sizes
<1>6. Apart(z)
  <2> SUFFICES ASSUME NEW x \in DOMAIN z, NEW y \in DOMAIN z, x < y PROVE x + z[x] <= y
    BY DEF Apart
  <2>1. x \in Nat /\ y \in Nat
    BY <1>1
  <2>2. \A v \in DOMAIN s : v > p => p + s[p] <= v
    BY <1>1 DEF Tiles, Apart
  <2>3. \A v \in DOMAIN s : v < p => v + s[v] <= p
    BY <1>1 DEF Tiles, Apart
  <2>4. CASE x = p
    BY <1>1, <1>3, <2>1, <2>2, <2>4
  <2>5. CASE x = e
    BY <1>1, <1>2, <1>3, <2>1, <2>2, <2>5
  <2>6. CASE x # p /\ x # e
    <3>1. x \in DOMAIN s /\ z[x] = s[x] /\ s[x] \in Nat
      BY <1>1, <1>4, <2>6
    <3>2. CASE y = e
      BY <1>1, <2>1, <2>2, <2>3, <2>6, <3>1, <3>2
    <3>3. CASE y # e
      BY <3>1, <3>3 DEF Tiles, Apart
    <3> QED
      BY <3>2, <3>3
  <2> QED
    BY <2>4, <2>5, <2>6
<1>7. InCores(z, C)
  <2> SUFFICES ASSUME NEW x, BlockOf(z, x) PROVE \E c \in C : Inside(z, x, c)
    BY DEF InCores
  <2>1. CASE x \in {p, e}
    <3>1. PICK c \in C : c.at < p /\ p + s[p] <= c.at + c.units
      BY DEF Tiles, InCores, Inside
    <3>2. c.at \in Nat /\ c.units \in Nat
      BY CoreIs DEF Tiles
    <3>3. Inside(z, x, c)
      BY <1>1, <1>3, <2>1, <3>1, <3>2 DEF Inside
    <3> QED
      BY <3>3
  <2>2. CASE x \notin {p, e}
    <3>1. BlockOf(s, x) /\ z[x] = s[x]
      BY <1>4, <2>2 DEF BlockOf
    <3> QED
      BY <3>1 DEF Tiles, InCores, Inside
  <2> QED
    BY <2>1, <2>2
<1>8. Tiled(z, C)
  <2> SUFFICES ASSUME NEW c \in C, NEW u \in Nat, c.at < u /\ u < c.at + c.units
               PROVE  \E x \in DOMAIN z : Covers(z, x, u)
    BY DEF Tiled
  <2>1. PICK x \in DOMAIN s : Covers(s, x, u)
    BY DEF Tiles, Tiled
  <2>2. CASE x = p
    <3>1. Covers(z, p, u) \/ Covers(z, e, u)
      BY <1>1, <2>1, <2>2 DEF Covers
    <3> QED
      BY <1>1, <3>1
  <2>3. CASE x # p
    BY <1>4, <2>1, <2>3 DEF Covers
  <2> QED
    BY <2>2, <2>3
<1> QED
  BY <1>2, <1>3, <1>5, <1>6, <1>7, <1>8 DEF Tiles

\* A new core lies clear of every block.
LEMMA CoreClear ==
    ASSUME NEW C, NEW s, Tiles(s, C), NEW core, CoresApart(C \union {core}), core \notin C,
           core.units > 1
    PROVE  /\ core.at \in Nat /\ core.units \in Nat /\ Base \in Nat
           /\ core.at + core.units < Base \/ core.at > Base + 2
           /\ \A x \in DOMAIN s : x \in Nat /\ s[x] \in Nat
           /\ \A x \in DOMAIN s : x + s[x] < core.at \/ core.at + core.units < x
           /\ core.at + 1 \in Nat /\ core.at + 1 \notin DOMAIN s /\ core.at + 1 # Base
<1>1. /\ core.at \in Nat /\ core.units \in Nat /\ Base \in Nat
      /\ core.at + core.units < Base \/ core.at > Base + 2
      /\ \A c \in C : c.at + c.units < core.at \/ core.at + core.units < c.at
      /\ \A c \in C : c.at \in Nat /\ c.units \in Nat
  <2>1. /\ core.at \in Nat /\ core.units \in Nat
        /\ core.at + core.units < Base \/ core.at > Base + 2
        /\ \A d \in C \union {core} :
              core = d \/ core.at + core.units < d.at \/ d.at + d.units < core.at
    BY CoreIs
  <2>2. \A c \in C : c \in C \union {core} /\ c # core
    OBVIOUS
  <2>3. \A c \in C : c.at \in Nat /\ c.units \in Nat
    BY CoreIs, <2>2
  <2>4. \A c \in C : c.at + c.units < core.at \/ core.at + core.units < c.at
    BY <2>1, <2>2
  <2> QED
    BY KallocAssumption, <2>1, <2>3, <2>4
<1>2. \A x \in DOMAIN s : x \in Nat /\ s[x] \in Nat
  BY DEF Tiles, Sizes, BlockOf
<1>3. ASSUME NEW x \in DOMAIN s
      PROVE  x + s[x] < core.at \/ core.at + core.units < x
  <2>1. CASE x = Base
    BY <1>1, <2>1 DEF Tiles, Sizes
  <2>2. CASE x # Base
    <3>1. PICK c \in C : c.at < x /\ x + s[x] <= c.at + c.units
      BY <2>2 DEF Tiles, InCores, Inside, BlockOf
    <3> QED
      BY <1>1, <1>2, <3>1
  <2> QED
    BY <2>1, <2>2
<1>4. core.at + 1 \in Nat /\ core.at + 1 \notin DOMAIN s /\ core.at + 1 # Base
  BY <1>1, <1>2, <1>3
<1> QED
  BY <1>1, <1>2, <1>3, <1>4

\* A core is added, with one block.
LEMMA CoreTiles ==
    ASSUME NEW C, NEW s, Tiles(s, C), NEW core, CoresApart(C \union {core}), core \notin C,
           core.units > 1,
           NEW z, DOMAIN z = DOMAIN s \union {core.at + 1}, z[core.at + 1] = core.units - 1,
           \A x \in DOMAIN s : z[x] = s[x]
    PROVE  Tiles(z, C \union {core})
<1> DEFINE n == core.at + 1
<1>1. /\ core.at \in Nat /\ core.units \in Nat /\ Base \in Nat
      /\ core.at + core.units < Base \/ core.at > Base + 2
  BY CoreClear
<1>2. \A x \in DOMAIN s : x \in Nat /\ s[x] \in Nat
  BY CoreClear
<1>3. \A x \in DOMAIN s : x + s[x] < core.at \/ core.at + core.units < x
  BY CoreClear
<1>4. n \in Nat /\ n \notin DOMAIN s /\ n # Base
  BY CoreClear
<1>5. Sizes(z)
  <2>1. IsFiniteSet(DOMAIN z)
    BY FS_AddElement DEF Tiles, Sizes
  <2>2. \A x : BlockOf(z, x) => z[x] \in Nat /\ z[x] > 0
    BY <1>1 DEF Tiles, Sizes, BlockOf
  <2> QED
    BY <1>4, <2>1, <2>2 DEF Tiles, Sizes
<1>6. Apart(z)
  <2> SUFFICES ASSUME NEW x \in DOMAIN z, NEW y \in DOMAIN z, x < y PROVE x + z[x] <= y
    BY DEF Apart
  <2>1. CASE x = n
    <3>1. y \in DOMAIN s /\ y \in Nat
      BY <1>2, <1>4, <2>1
    <3>2. core.at + core.units < y
      BY <1>1, <1>2, <1>3, <2>1, <3>1
    <3> QED
      BY <1>1, <2>1, <3>1, <3>2
  <2>2. CASE x # n /\ y = n
    <3>1. x \in DOMAIN s /\ x \in Nat /\ z[x] = s[x] /\ s[x] \in Nat
      BY <1>2, <2>2
    <3> QED
      BY <1>1, <1>3, <2>2, <3>1
  <2>3. CASE x # n /\ y # n
    BY <2>3 DEF Tiles, Apart
  <2> QED
    BY <2>1, <2>2, <2>3
<1>7. InCores(z, C \union {core})
  <2> SUFFICES ASSUME NEW x, BlockOf(z, x) PROVE \E c \in C \union {core} : Inside(z, x, c)
    BY DEF InCores
  <2>1. CASE x = n
    <3>1. Inside(z, x, core)
      BY <1>1, <2>1 DEF Inside
    <3> QED
      BY <3>1
  <2>2. CASE x # n
    <3>1. BlockOf(s, x) /\ z[x] = s[x]
      BY <2>2 DEF BlockOf
    <3> QED
      BY <3>1 DEF Tiles, InCores, Inside
  <2> QED
    BY <2>1, <2>2
<1>8. Tiled(z, C \union {core})
  <2> SUFFICES ASSUME NEW c \in C \union {core}, NEW u \in Nat, c.at < u /\ u < c.at + c.units
               PROVE  \E x \in DOMAIN z : Covers(z, x, u)
    BY DEF Tiled
  <2>1. CASE c \in C
    <3>1. PICK x \in DOMAIN s : Covers(s, x, u)
      BY <2>1 DEF Tiles, Tiled
    <3> QED
      BY <3>1 DEF Covers
  <2>2. CASE c = core
    <3>1. Covers(z, n, u)
      BY <1>1, <2>2 DEF Covers
    <3> QED
      BY <3>1
  <2> QED
    BY <2>1, <2>2
<1> QED
  BY <1>4, <1>5, <1>6, <1>7, <1>8 DEF Tiles

-----------------------------------------------------------------------------
(* An allocator between two calls. *)

Fields == {"size", "ptr", "loop_head", "core_head", "panic"}
Core == [at : Nat, units : Nat \ {0}]
Distinct(cores) == \A i, j \in DOMAIN cores : cores[i] = cores[j] => i = j

\* The blocks of k that are not H, those clients hold, are in the ring.
Good(k, H) ==
    /\ DOMAIN k = Fields /\ k.panic = FALSE
    /\ k.core_head \in Seq(Core)
    /\ Distinct(k.core_head)
    /\ Tiles(k.size, Range(k.core_head))
    /\ DOMAIN k.size = DOMAIN k.ptr \union H /\ DOMAIN k.ptr \cap H = {}
    /\ Base \in DOMAIN k.ptr /\ k.loop_head \in DOMAIN k.ptr
    /\ IsRing(DOMAIN k.ptr, k.ptr)
    /\ \A a, b \in DOMAIN k.ptr \ {Base} : a + k.size[a] # b

LEMMA WithIs ==
    ASSUME NEW f, NEW x, NEW v
    PROVE  /\ DOMAIN With(f, x, v) = DOMAIN f \union {x}
           /\ With(f, x, v)[x] = v
           /\ \A y \in DOMAIN f \ {x} : With(f, x, v)[y] = f[y]
  BY DEF With

LEMMA WithoutIs ==
    ASSUME NEW f, NEW x
    PROVE  /\ DOMAIN Without(f, x) = DOMAIN f \ {x}
           /\ \A y \in DOMAIN f \ {x} : Without(f, x)[y] = f[y]
  BY DEF Without

LEMMA GoodIs ==
    ASSUME NEW k, NEW H, Good(k, H)
    PROVE  /\ DOMAIN k.size \in SUBSET Nat /\ IsFiniteSet(DOMAIN k.size)
           /\ DOMAIN k.ptr \in SUBSET Nat /\ IsFiniteSet(DOMAIN k.ptr) /\ DOMAIN k.ptr # {}
           /\ Base \in Nat /\ k.size[Base] = 0
           /\ \A b \in DOMAIN k.size : k.size[b] \in Nat /\ (b # Base => k.size[b] > 0)
           /\ \A b \in H : b \in DOMAIN k.size /\ b \notin DOMAIN k.ptr /\ b # Base
           /\ \A b \in DOMAIN k.ptr : b \in DOMAIN k.size
           /\ \A a, b \in DOMAIN k.size : a < b => a + k.size[a] <= b
<1>1. Sizes(k.size) /\ Apart(k.size)
  BY DEF Good, Tiles
<1>2. DOMAIN k.size \in SUBSET Nat /\ IsFiniteSet(DOMAIN k.size)
  BY <1>1 DEF Sizes
<1>3. DOMAIN k.ptr \in SUBSET DOMAIN k.size /\ H \in SUBSET DOMAIN k.size
  BY DEF Good
<1>4. IsFiniteSet(DOMAIN k.ptr)
  BY <1>2, <1>3, FS_Subset
<1>5. Base \in DOMAIN k.ptr /\ DOMAIN k.ptr \cap H = {}
  BY DEF Good
<1>6. \A b \in DOMAIN k.size : k.size[b] \in Nat /\ (b # Base => k.size[b] > 0)
  BY <1>1 DEF Sizes, BlockOf
<1>7. k.size[Base] = 0 /\ Base \in Nat
  BY <1>1, KallocAssumption DEF Sizes
<1>8. \A a, b \in DOMAIN k.size : a < b => a + k.size[a] <= b
  BY <1>1 DEF Apart
<1> QED
  BY <1>2, <1>3, <1>4, <1>5, <1>6, <1>7, <1>8

\* The block kfree's search stops at.
NextTo(k, p) == Walk(k)[Min({i \in DOMAIN Walk(k) : Between(k, Walk(k)[i], p)})]

LEMMA NextToIs ==
    ASSUME NEW k, NEW H, Good(k, H), NEW p \in H
    PROVE  NextTo(k, p) \in DOMAIN k.ptr /\ Between(k, NextTo(k, p), p)
<1> DEFINE F == DOMAIN k.ptr
           w == Walk(k)
           S == {i \in DOMAIN w : Between(k, w[i], p)}
<1>1. F \in SUBSET Nat /\ IsFiniteSet(F) /\ F # {} /\ p \in Nat \ F
  BY GoodIs
<1>2. IsRing(F, k.ptr) /\ k.loop_head \in F
  BY DEF Good
<1>3. PICK n : n = Cardinality(F) /\ n \in Nat \ {0} /\ WalksRound(w, F, k.ptr, n)
  <2>1. Cardinality(F) \in Nat \ {0} /\ WalksRound(w, F, k.ptr, Cardinality(F))
    BY <1>1, <1>2, WalkIs
  <2> QED
    BY <2>1
<1>4. PICK q \in F : Between(k, q, p)
  BY <1>1, <1>2, SearchEnds
<1> HIDE DEF F, w
<1>5. DOMAIN w = 0..n /\ (\A i \in 0..n : w[i] \in F) /\ \E i \in 1..n : w[i] = q
  BY <1>3, <1>4 DEF WalksRound
<1>6. S \in SUBSET Nat /\ S # {}
  BY <1>3, <1>4, <1>5
<1>7. Min(S) \in S
  BY <1>6, MinIs
<1>8. w[Min(S)] \in F /\ Between(k, w[Min(S)], p)
  BY <1>5, <1>7
<1> QED
  BY <1>8 DEF NextTo, w, F

\* Only its neighbours touch a block, and none overlaps it.
Beside(size, F, p, q, r) ==
    /\ q \in F /\ r \in F
    /\ \/ p > q /\ p < r
       \/ q >= r /\ (p > q \/ p < r)
    /\ \A b \in F : p + size[p] = b => b = r
    /\ \A a \in F : a + size[a] = p => a = q
    /\ ~ (p + size[p] # r /\ p + size[p] > r /\ r >= p)
    /\ ~ (q + size[q] # p /\ q + size[q] > p /\ p >= q)
    /\ p + size[p] = r => r # Base /\ r # q
    /\ q + size[q] = p => q # Base

LEMMA Neighbours ==
    ASSUME NEW k, NEW H, Good(k, H), NEW p \in H, NEW q, q = NextTo(k, p), NEW r, r = k.ptr[q]
    PROVE  Beside(k.size, DOMAIN k.ptr, p, q, r)
<1> PICK F : F = DOMAIN k.ptr
  OBVIOUS
<1> PICK s : s = k.size
  OBVIOUS
<1>1. /\ q \in F
      /\ (p > q /\ p < r) \/ (q >= r /\ (p > q \/ p < r))
  BY NextToIs DEF Between
<1>2. /\ r \in F
      /\ \/ r > q /\ \A x \in F : x > q => r <= x
         \/ (\A x \in F : x <= q) /\ (\A x \in F : r <= x)
  BY <1>1 DEF Good, IsRing, Follows
<1>3. /\ \A x \in F : x \in Nat /\ x # p /\ s[x] \in Nat /\ (x # Base => s[x] > 0)
      /\ p \in Nat /\ s[p] \in Nat /\ s[p] > 0 /\ p # Base
      /\ Base \in F /\ Base \in Nat /\ s[Base] = 0
  BY GoodIs DEF Good
<1>4. /\ \A x \in F : x > p => p + s[p] <= x
      /\ \A x, y \in F \union {p} : x < y => x + s[x] <= y
  <2>1. \A x \in F \union {p} : x \in DOMAIN s
    BY DEF Good
  <2>2. \A x, y \in DOMAIN s : x < y => x + s[x] <= y
    BY GoodIs
  <2> QED
    BY <2>1, <2>2
<1>5. Tiles(s, Range(k.core_head)) /\ BlockOf(s, p) /\ r \in DOMAIN s /\ p \in DOMAIN s
  BY <1>2, GoodIs DEF Good, BlockOf
<1>6. p + s[p] = r => r # Base
  BY <1>5, SameCore
<1>7. ASSUME p + s[p] = r, r = q PROVE FALSE
  <2>1. Base = q
    BY ONLY <1>1, <1>2, <1>3, <1>7
  <2> QED
    BY <1>6, <1>7, <2>1
<1>8. q + s[q] = p => q # Base
  BY <1>3
<1>9. ASSUME NEW b \in F, p + s[p] = b PROVE b = r
  <2>1. b > p /\ b \in Nat /\ r \in Nat /\ q \in Nat
    BY <1>1, <1>2, <1>3, <1>9
  <2>2. r <= b /\ p < r
    BY ONLY <1>1, <1>2, <1>3, <2>1
  <2>3. p + s[p] <= r
    BY <1>2, <1>4, <2>2
  <2> QED
    BY <1>9, <2>1, <2>2, <2>3
<1>10. ASSUME NEW a \in F, a + s[a] = p PROVE a = q
  <2>1. a < p /\ a \in Nat /\ r \in Nat /\ q \in Nat /\ s[a] \in Nat
    BY <1>1, <1>2, <1>3, <1>10
  <2>2. a <= q /\ q < p
    BY ONLY <1>1, <1>2, <1>3, <2>1
  <2>3. a < q => a + s[a] <= q
    BY <1>1, <1>4
  <2> QED
    BY <1>10, <2>1, <2>2, <2>3
<1>11. ~ (p + s[p] # r /\ p + s[p] > r /\ r >= p)
  BY <1>2, <1>3, <1>4
<1>12. ~ (q + s[q] # p /\ q + s[q] > p /\ p >= q)
  BY <1>1, <1>3, <1>4
<1> QED
  BY <1>1, <1>2, <1>6, <1>7, <1>8, <1>9, <1>10, <1>11, <1>12 DEF Beside

\* kfree in two parts: p merged with r or linked to it, then with q.
Upper(k, p, r) ==
  [k EXCEPT
     !.size = IF Joins(k, p, r) THEN merged(@, p, r) ELSE @,
     !.ptr  = IF Joins(k, p, r) THEN With(Without(@, r), p, @[r]) ELSE With(@, p, r)]
Lower(one, p, q, down) ==
  IF down
  THEN [one EXCEPT !.size = merged(@, q, p),
                   !.ptr  = Without([@ EXCEPT ![q] = one.ptr[p]], p),
                   !.loop_head = q]
  ELSE [one EXCEPT !.ptr[q] = p, !.loop_head = p]

\* What the first does to the sizes and the links.
Uppered(k, one, p, r, up) ==
    /\ DOMAIN one = Fields /\ one.panic = k.panic /\ one.core_head = k.core_head
    /\ ~ up =>
         /\ one.size = k.size
         /\ DOMAIN one.ptr = DOMAIN k.ptr \union {p}
         /\ one.ptr[p] = r
         /\ \A x \in DOMAIN k.ptr : one.ptr[x] = k.ptr[x]
    /\ up =>
         /\ DOMAIN one.size = DOMAIN k.size \ {r}
         /\ one.size[p] = k.size[p] + k.size[r]
         /\ \A x \in DOMAIN k.size \ {p, r} : one.size[x] = k.size[x]
         /\ DOMAIN one.ptr = (DOMAIN k.ptr \union {p}) \ {r}
         /\ one.ptr[p] = k.ptr[r]
         /\ \A x \in DOMAIN k.ptr \ {r} : one.ptr[x] = k.ptr[x]

\* What the second does.
Lowered(one, z, p, q, down) ==
    /\ DOMAIN z = Fields /\ z.panic = one.panic /\ z.core_head = one.core_head
    /\ ~ down =>
         /\ z.size = one.size /\ z.loop_head = p
         /\ DOMAIN z.ptr = DOMAIN one.ptr
         /\ z.ptr[q] = p
         /\ \A x \in DOMAIN one.ptr \ {q} : z.ptr[x] = one.ptr[x]
    /\ down =>
         /\ DOMAIN z.size = DOMAIN one.size \ {p}
         /\ z.size[q] = one.size[q] + one.size[p] /\ z.loop_head = q
         /\ \A x \in DOMAIN one.size \ {p, q} : z.size[x] = one.size[x]
         /\ DOMAIN z.ptr = DOMAIN one.ptr \ {p}
         /\ z.ptr[q] = one.ptr[p]
         /\ \A x \in DOMAIN one.ptr \ {p, q} : z.ptr[x] = one.ptr[x]

LEMMA KfreeUp ==
    ASSUME NEW k, NEW p, NEW r, DOMAIN k = Fields,
           p \in DOMAIN k.size, p \notin DOMAIN k.ptr, r # p
    PROVE  Uppered(k, Upper(k, p, r), p, r, Joins(k, p, r))
<1> PICK one : one = Upper(k, p, r)
  OBVIOUS
<1>1. /\ DOMAIN one = Fields /\ one.panic = k.panic /\ one.core_head = k.core_head
  BY DEF Fields, Upper
<1>2. /\ one.size = IF Joins(k, p, r) THEN merged(k.size, p, r) ELSE k.size
      /\ one.ptr = IF Joins(k, p, r) THEN With(Without(k.ptr, r), p, k.ptr[r])
                                     ELSE With(k.ptr, p, r)
  BY DEF Fields, Upper
<1>3. CASE ~ Joins(k, p, r)
  BY <1>1, <1>2, <1>3 DEF With, Uppered
<1>4. CASE Joins(k, p, r)
  BY <1>1, <1>2, <1>4 DEF With, Without, merged, Uppered
<1> QED
  BY <1>3, <1>4

LEMMA KfreeDown ==
    ASSUME NEW one, NEW p, NEW q, DOMAIN one = Fields,
           q \in DOMAIN one.size, q \in DOMAIN one.ptr, q # p, NEW down \in BOOLEAN
    PROVE  Lowered(one, Lower(one, p, q, down), p, q, down)
<1> PICK z : z = Lower(one, p, q, down)
  OBVIOUS
<1>1. CASE ~ down
  <2>1. /\ DOMAIN z = Fields /\ z.panic = one.panic /\ z.core_head = one.core_head
        /\ z.size = one.size /\ z.loop_head = p /\ z.ptr = [one.ptr EXCEPT ![q] = p]
    BY <1>1 DEF Fields, Lower
  <2> QED
    BY <1>1, <2>1 DEF Lowered
<1>2. CASE down
  <2>1. /\ DOMAIN z = Fields /\ z.panic = one.panic /\ z.core_head = one.core_head
        /\ z.size = merged(one.size, q, p) /\ z.loop_head = q
        /\ z.ptr = Without([one.ptr EXCEPT ![q] = one.ptr[p]], p)
    BY <1>2 DEF Fields, Lower
  <2> QED
    BY <1>2, <2>1 DEF merged, Without, Lowered
<1> QED
  BY <1>1, <1>2

LEMMA KfreeParts ==
    ASSUME NEW k, NEW H, Good(k, H), NEW p \in H, NEW q, q = NextTo(k, p), NEW r, r = k.ptr[q]
    PROVE  kfree(k, p) = Lower(Upper(k, p, r), p, q, Joins(k, q, p))
<1>1. /\ ~ (~ Joins(k, p, r) /\ p + k.size[p] > r /\ r >= p)
      /\ ~ (~ Joins(k, q, p) /\ q + k.size[q] > p /\ p >= q)
  BY Neighbours DEF Joins, Beside
<1>2. kfree(k, p) = IF Joins(k, q, p)
                    THEN [Upper(k, p, r) EXCEPT
                            !.size = merged(@, q, p),
                            !.ptr  = Without([@ EXCEPT ![q] = Upper(k, p, r).ptr[p]], p),
                            !.loop_head = q]
                    ELSE [Upper(k, p, r) EXCEPT !.ptr[q] = p, !.loop_head = p]
  BY <1>1 DEF kfree, NextTo, Upper
<1> QED
  BY <1>2 DEF Lower

\* What makes z, with the cores C, the free blocks F and the held ones G, good.
GoodWith(z, C, F, G) ==
    /\ DOMAIN z = Fields /\ z.panic = FALSE /\ Tiles(z.size, C)
    /\ DOMAIN z.ptr = F /\ DOMAIN z.size = F \union G /\ F \cap G = {}
    /\ Base \in F /\ z.loop_head \in F /\ IsRing(F, z.ptr)
    /\ \A a, b \in F \ {Base} : a + z.size[a] # b

LEMMA GoodBy ==
    ASSUME NEW k, NEW H, Good(k, H), NEW z, z.core_head = k.core_head,
           NEW C, C = Range(k.core_head), NEW F, NEW G, GoodWith(z, C, F, G)
    PROVE  Good(z, G)
  BY DEF Good, GoodWith

\* What a caller of kfree relies on.
Freed(k, z, H, p) ==
    /\ Good(z, H \ {p})
    /\ z.core_head = k.core_head
    /\ \A x \in H \ {p} : z.size[x] = k.size[x]
    /\ \E b \in DOMAIN z.ptr \ {Base} : z.size[b] >= k.size[p]

LEMMA KfreeIs ==
    ASSUME NEW k, NEW H, Good(k, H), NEW p \in H
    PROVE  Freed(k, kfree(k, p), H, p)
<1> PICK z : z = kfree(k, p)
  OBVIOUS
<1> PICK q, r, F, s, D, f, C :
      /\ q = NextTo(k, p) /\ r = k.ptr[q] /\ F = DOMAIN k.ptr /\ s = k.size /\ D = DOMAIN k.size
      /\ f = k.ptr /\ C = Range(k.core_head)
  OBVIOUS
<1> PICK up, down \in BOOLEAN : up = Joins(k, p, r) /\ down = Joins(k, q, p)
  BY DEF Joins
<1>1. /\ q \in F /\ r \in F
      /\ (p > q /\ p < r) \/ (q >= r /\ (p > q \/ p < r))
      /\ \A b \in F : p + s[p] = b => b = r
      /\ \A a \in F : a + s[a] = p => a = q
      /\ up => r # Base /\ r # q
      /\ down => q # Base
      /\ up <=> p + s[p] = r
      /\ down <=> q + s[q] = p
  <2>1. Beside(s, F, p, q, r)
    BY Neighbours
  <2>2. (up <=> p + s[p] = r) /\ (down <=> q + s[q] = p)
    BY DEF Joins
  <2> QED
    BY <2>1, <2>2 DEF Beside
<1>2. /\ F \in SUBSET Nat /\ F \in SUBSET D /\ D \in SUBSET Nat /\ Base \in F /\ p \notin F
      /\ p \in Nat /\ p \in D /\ p # Base
      /\ \A x \in D : s[x] \in Nat /\ (x # Base => s[x] > 0)
      /\ D = F \union H /\ F \cap H = {}
  BY GoodIs DEF Good
<1>3. /\ Tiles(s, C) /\ IsRing(F, f) /\ f[q] = r
      /\ \A a, b \in F \ {Base} : a + s[a] # b
  BY DEF Good
<1>4. PICK one : one = Upper(k, p, r) /\ z = Lower(one, p, q, Joins(k, q, p))
  BY KfreeParts
<1>5. /\ DOMAIN one = Fields /\ one.panic = FALSE /\ one.core_head = k.core_head
      /\ ~ up => /\ one.size = s /\ DOMAIN one.ptr = F \union {p}
                 /\ one.ptr[p] = r /\ \A x \in F : one.ptr[x] = f[x]
      /\ up => /\ DOMAIN one.size = D \ {r} /\ one.size[p] = s[p] + s[r]
               /\ \A x \in D \ {p, r} : one.size[x] = s[x]
               /\ DOMAIN one.ptr = (F \union {p}) \ {r} /\ one.ptr[p] = f[r]
               /\ \A x \in F \ {r} : one.ptr[x] = f[x]
  <2>1. DOMAIN k = Fields /\ k.panic = FALSE /\ p \in DOMAIN k.size /\ p \notin DOMAIN k.ptr
        /\ r # p
    BY <1>1, <1>2 DEF Good
  <2>2. Uppered(k, one, p, r, up)
    BY <1>4, <2>1, KfreeUp
  <2> QED
    BY <2>1, <2>2 DEF Uppered
<1>6. Tiles(one.size, C) /\ p \in DOMAIN one.size /\ q \in DOMAIN one.size /\ q \in DOMAIN one.ptr
  <2>1. CASE ~ up
    BY <1>1, <1>2, <1>3, <1>5, <2>1
  <2>2. CASE up
    <3>1. BlockOf(s, p) /\ r \in DOMAIN s /\ p + s[p] = r /\ D = DOMAIN s
      BY <1>1, <1>2, <2>2 DEF BlockOf
    <3>2. Tiles(one.size, C)
      BY <1>3, <1>5, <2>2, <3>1, MergeTiles
    <3> QED
      BY <1>1, <1>2, <1>5, <2>2, <3>2
  <2> QED
    BY <2>1, <2>2, Zenon

<1>7. /\ DOMAIN z = Fields /\ z.panic = FALSE /\ z.core_head = k.core_head
      /\ ~ down => /\ z.size = one.size /\ z.loop_head = p /\ DOMAIN z.ptr = DOMAIN one.ptr
                   /\ z.ptr[q] = p /\ \A x \in DOMAIN one.ptr \ {q} : z.ptr[x] = one.ptr[x]
      /\ down => /\ DOMAIN z.size = DOMAIN one.size \ {p}
                 /\ z.size[q] = one.size[q] + one.size[p] /\ z.loop_head = q
                 /\ \A x \in DOMAIN one.size \ {p, q} : z.size[x] = one.size[x]
                 /\ DOMAIN z.ptr = DOMAIN one.ptr \ {p} /\ z.ptr[q] = one.ptr[p]
                 /\ \A x \in DOMAIN one.ptr \ {p, q} : z.ptr[x] = one.ptr[x]
  <2>1. q # p /\ Joins(k, q, p) \in BOOLEAN
    BY <1>1, <1>2 DEF Joins
  <2>2. Lowered(one, z, p, q, down)
    BY <1>4, <1>5, <1>6, <2>1, KfreeDown
  <2> QED
    BY <1>5, <2>2 DEF Lowered
<1>8. \A x \in H \ {p} : x \in D /\ x \notin F /\ x # q /\ x # r /\ x # p
  BY <1>1, <1>2
\* The four cases, each by its sizes and its links.
<1>9. CASE ~ up /\ ~ down
  <2>1. /\ z.size = s /\ z.loop_head = p /\ DOMAIN z.ptr = F \union {p}
        /\ z.ptr[q] = p /\ z.ptr[p] = r /\ \A x \in F \ {q} : z.ptr[x] = f[x]
    BY <1>1, <1>2, <1>5, <1>7, <1>9
  <2>2. IsRing(F \union {p}, z.ptr)
    BY <1>1, <1>2, <1>3, <2>1, RingInsert
  <2>3. ASSUME NEW a \in (F \union {p}) \ {Base}, NEW b \in (F \union {p}) \ {Base}, a + s[a] = b
        PROVE  FALSE
    BY <1>1, <1>2, <1>3, <1>9, <2>3
  <2>4. D = (F \union {p}) \union (H \ {p}) /\ (F \union {p}) \cap (H \ {p}) = {}
    BY <1>2
  <2>5. Good(z, H \ {p})
    <3>1. Base \in F \union {p} /\ p \in F \union {p} /\ Tiles(z.size, C)
      BY <1>2, <1>3, <2>1
    <3>2. \A a, b \in (F \union {p}) \ {Base} : a + z.size[a] # b
      BY <2>1, <2>3
    <3>9. GoodWith(z, C, F \union {p}, H \ {p})
      BY <1>7, <2>1, <2>2, <2>4, <3>1, <3>2 DEF GoodWith
    <3> QED
      BY <1>7, <3>9, GoodBy
  <2>6. p \in DOMAIN z.ptr \ {Base} /\ z.size[p] >= k.size[p]
    BY <1>2, <2>1
  <2>7. \A x \in H \ {p} : z.size[x] = k.size[x]
    BY <2>1
  <2> QED
    BY <1>7, <2>5, <2>6, <2>7 DEF Freed

<1>10. CASE up /\ ~ down
  <2>1. /\ DOMAIN z.size = D \ {r} /\ z.size[p] = s[p] + s[r]
        /\ \A x \in D \ {p, r} : z.size[x] = s[x]
        /\ z.loop_head = p /\ DOMAIN z.ptr = (F \union {p}) \ {r}
        /\ z.ptr[q] = p /\ z.ptr[p] = f[r] /\ \A x \in F \ {q, r} : z.ptr[x] = f[x]
        /\ r # Base /\ r # q /\ p + s[p] = r
    BY <1>1, <1>2, <1>5, <1>7, <1>10
  <2>2. PICK g : g = [x \in F \union {p} |-> IF x = q THEN p ELSE IF x = p THEN r ELSE f[x]]
    OBVIOUS
  <2>3. /\ g[q] = p /\ g[p] = r /\ (\A x \in F \ {q} : g[x] = f[x])
        /\ g[r] = f[r] /\ p # r
    BY <1>1, <1>2, <2>1, <2>2
  <2>4. IsRing(F \union {p}, g)
    <3>1. /\ F \in SUBSET Nat /\ IsRing(F, f) /\ q \in F /\ p \in Nat \ F
          /\ (p > q /\ p < f[q]) \/ (q >= f[q] /\ (p > q \/ p < f[q]))
          /\ g[q] = p /\ g[p] = f[q] /\ \A x \in F \ {q} : g[x] = f[x]
      BY <1>1, <1>2, <1>3, <2>3
    <3> QED
      BY ONLY <3>1, RingInsert
  <2>5. IsRing((F \union {p}) \ {r}, z.ptr)
    <3>1. PICK P, y : P = F \union {p} /\ y = z.ptr
      OBVIOUS
    <3>2. \A x \in P \ {p, r} : y[x] = g[x]
      BY <2>1, <2>3, <3>1
    <3>3. p \in P /\ r \in P /\ P \in SUBSET Nat /\ y[p] = g[r] /\ g[p] = r /\ p # r /\ IsRing(P, g)
      BY <1>1, <1>2, <2>1, <2>3, <2>4, <3>1
    <3>4. IsRing(P \ {r}, y)
      BY ONLY <3>2, <3>3, RingRemove
    <3> QED
      BY <3>1, <3>4
  <2>6. ASSUME NEW a \in ((F \union {p}) \ {r}) \ {Base}, NEW b \in ((F \union {p}) \ {r}) \ {Base},
               a + z.size[a] = b
        PROVE  FALSE
    <3>1. CASE a = p
      <4>1. p + z.size[p] = r + s[r] /\ z.size[p] > 0
        BY <1>1, <1>2, <2>1
      <4> QED
        BY <1>1, <1>2, <1>3, <2>1, <2>6, <3>1, <4>1
    <3>2. CASE a # p
      <4>1. a \in F /\ a + s[a] = b
        BY <1>2, <2>1, <2>6, <3>2
      <4> QED
        BY <1>1, <1>3, <1>10, <2>6, <4>1
    <3> QED
      BY <3>1, <3>2
  <2>7. /\ D \ {r} = ((F \union {p}) \ {r}) \union (H \ {p})
        /\ ((F \union {p}) \ {r}) \cap (H \ {p}) = {}
    BY <1>1, <1>2, <1>8
  <2>8. Tiles(z.size, C) /\ Base \in (F \union {p}) \ {r} /\ p \in (F \union {p}) \ {r}
    BY <1>2, <1>6, <1>7, <1>10, <2>1, <2>3
  <2>9. Good(z, H \ {p})
    <3>1. \A a, b \in ((F \union {p}) \ {r}) \ {Base} : a + z.size[a] # b
      BY <2>6
    <3>9. GoodWith(z, C, (F \union {p}) \ {r}, H \ {p})
      BY <1>7, <2>1, <2>5, <2>7, <2>8, <3>1 DEF GoodWith
    <3> QED
      BY <1>7, <3>9, GoodBy
  <2>10. p \in DOMAIN z.ptr \ {Base} /\ z.size[p] >= k.size[p]
    BY <1>1, <1>2, <2>1, <2>8
  <2>11. \A x \in H \ {p} : z.size[x] = k.size[x]
    BY <1>8, <2>1
  <2> QED
    BY <1>7, <2>9, <2>10, <2>11 DEF Freed
<1>11. CASE ~ up /\ down
  <2>1. /\ DOMAIN z.size = D \ {p} /\ z.size[q] = s[q] + s[p]
        /\ \A x \in D \ {p, q} : z.size[x] = s[x]
        /\ z.loop_head = q /\ DOMAIN z.ptr = F
        /\ \A x \in F : z.ptr[x] = f[x]
        /\ q # Base /\ q + s[q] = p
    <3>1. /\ one.size = s /\ DOMAIN one.ptr = F \union {p} /\ one.ptr[p] = r
          /\ \A x \in F : one.ptr[x] = f[x]
      BY <1>5, <1>11
    <3>2. /\ DOMAIN z.size = DOMAIN one.size \ {p}
          /\ z.size[q] = one.size[q] + one.size[p] /\ z.loop_head = q
          /\ \A x \in DOMAIN one.size \ {p, q} : z.size[x] = one.size[x]
          /\ DOMAIN z.ptr = DOMAIN one.ptr \ {p} /\ z.ptr[q] = one.ptr[p]
          /\ \A x \in DOMAIN one.ptr \ {p, q} : z.ptr[x] = one.ptr[x]
      BY <1>7, <1>11
    <3>3. DOMAIN z.ptr = F /\ \A x \in F : z.ptr[x] = f[x]
      BY <1>2, <1>3, <3>1, <3>2
    <3> QED
      BY <1>1, <1>11, <3>1, <3>2, <3>3
  <2>2. IsRing(F, z.ptr)
    BY <1>3, <2>1 DEF IsRing
  <2>3. ASSUME NEW a \in F \ {Base}, NEW b \in F \ {Base}, a + z.size[a] = b
        PROVE  FALSE
    <3>1. CASE a = q
      <4>1. q + z.size[q] = p + s[p]
        BY <1>1, <1>2, <2>1
      <4> QED
        BY <1>1, <1>11, <2>3, <3>1, <4>1
    <3>2. CASE a # q
      <4>1. a \in F /\ a + s[a] = b
        BY <1>2, <2>1, <2>3, <3>2
      <4> QED
        BY <1>3, <2>3, <4>1
    <3> QED
      BY <3>1, <3>2
  <2>4. D \ {p} = F \union (H \ {p}) /\ F \cap (H \ {p}) = {}
    BY <1>2
  <2>5. Tiles(z.size, C)
    <3>1. /\ BlockOf(s, q) /\ p \in DOMAIN s /\ q + s[q] = p /\ DOMAIN z.size = DOMAIN s \ {p}
          /\ \A x \in DOMAIN s \ {q, p} : z.size[x] = s[x]
      BY <1>1, <1>2, <2>1 DEF BlockOf
    <3> QED
      BY <1>3, <2>1, <3>1, MergeTiles
  <2>6. Good(z, H \ {p})
    <3>1. \A a, b \in F \ {Base} : a + z.size[a] # b
      BY <2>3
    <3>9. GoodWith(z, C, F, H \ {p})
      BY <1>1, <1>2, <1>7, <2>1, <2>2, <2>4, <2>5, <3>1 DEF GoodWith
    <3> QED
      BY <1>7, <3>9, GoodBy
  <2>7. q \in DOMAIN z.ptr \ {Base} /\ z.size[q] >= k.size[p]
    BY <1>1, <1>2, <2>1
  <2>8. \A x \in H \ {p} : z.size[x] = k.size[x]
    BY <1>8, <2>1
  <2> QED
    BY <1>7, <2>6, <2>7, <2>8 DEF Freed
<1>12. CASE up /\ down
  <2>1. /\ DOMAIN z.size = (D \ {r}) \ {p} /\ z.size[q] = s[q] + (s[p] + s[r])
        /\ \A x \in D \ {p, q, r} : z.size[x] = s[x]
        /\ z.loop_head = q /\ DOMAIN z.ptr = F \ {r}
        /\ z.ptr[q] = f[r] /\ \A x \in F \ {q, r} : z.ptr[x] = f[x]
        /\ r # Base /\ r # q /\ p + s[p] = r /\ q # Base /\ q + s[q] = p
        /\ one.size[q] = s[q] /\ one.size[p] = s[p] + s[r] /\ p # q /\ p # r
    BY <1>1, <1>2, <1>3, <1>5, <1>7, <1>12
  <2>2. IsRing(F \ {r}, z.ptr)
    BY <1>1, <1>2, <1>3, <2>1, RingRemove
  <2>3. ASSUME NEW a \in (F \ {r}) \ {Base}, NEW b \in (F \ {r}) \ {Base}, a + z.size[a] = b
        PROVE  FALSE
    <3>1. CASE a = q
      <4>1. q + z.size[q] = r + s[r]
        BY <1>1, <1>2, <2>1
      <4> QED
        BY <1>1, <1>3, <2>1, <2>3, <3>1, <4>1
    <3>2. CASE a # q
      <4>1. a \in F /\ a + s[a] = b
        BY <1>2, <2>1, <2>3, <3>2
      <4> QED
        BY <1>3, <2>3, <4>1
    <3> QED
      BY <3>1, <3>2
  <2>4. /\ (D \ {r}) \ {p} = (F \ {r}) \union (H \ {p})
        /\ (F \ {r}) \cap (H \ {p}) = {}
    BY <1>1, <1>2, <1>8
  <2>5. Tiles(z.size, C)
    <3>1. BlockOf(one.size, q) /\ q + one.size[q] = p
      BY <1>6, <2>1 DEF BlockOf
    <3> QED
      BY <1>6, <1>7, <1>12, <3>1, MergeTiles
  <2>6. q \in F \ {r} /\ Base \in F \ {r}
    BY <1>1, <1>2, <2>1
  <2>7. Good(z, H \ {p})
    <3>1. \A a, b \in (F \ {r}) \ {Base} : a + z.size[a] # b
      BY <2>3
    <3>9. GoodWith(z, C, F \ {r}, H \ {p})
      BY <1>7, <2>1, <2>2, <2>4, <2>5, <2>6, <3>1 DEF GoodWith
    <3> QED
      BY <1>7, <3>9, GoodBy
  <2>8. q \in DOMAIN z.ptr \ {Base} /\ z.size[q] >= k.size[p]
    BY <1>1, <1>2, <2>1
  <2>9. \A x \in H \ {p} : z.size[x] = k.size[x]
    BY <1>8, <2>1
  <2> QED
    BY <1>7, <2>7, <2>8, <2>9 DEF Freed
<1> QED
  BY <1>9, <1>10, <1>11, <1>12, Zenon

-----------------------------------------------------------------------------
(* A new core. *)

LEMMA CeilingIs ==
    ASSUME NEW n \in Nat, NEW d \in Nat \ {0}
    PROVE  Ceiling(n, d) \in Nat /\ Ceiling(n, d) * d >= n
<1>1. PICK m, i, j : m = n + d - 1 /\ i = m \div d /\ j = m % d
  OBVIOUS
<1>2. m \in Nat /\ i \in Int /\ j \in 0..(d - 1) /\ m = d * i + j
  BY <1>1
<1>3. d * i >= n
  BY <1>1, <1>2
<1>4. d * i = i * d
  BY <1>2
<1>5. Ceiling(n, d) \in Nat
  BY DEF Ceiling
<1> QED
  BY <1>1, <1>3, <1>4, <1>5 DEF Ceiling

LEMMA PlusCore ==
    ASSUME NEW cores \in Seq(Core), NEW core \in Core, NEW more, more = <<core>> \o cores,
           Distinct(cores), core \notin Range(cores)
    PROVE  more \in Seq(Core) /\ Range(more) = Range(cores) \union {core} /\ Distinct(more)
<1> PICK n : n = Len(cores)
  OBVIOUS
<1>1. /\ n \in Nat /\ DOMAIN cores = 1..n /\ more \in Seq(Core) /\ DOMAIN more = 1..(n + 1)
      /\ more[1] = core
      /\ \A i \in 1..n : more[i + 1] = cores[i]
      /\ \A i \in 2..(n + 1) : i - 1 \in 1..n /\ more[i] = cores[i - 1]
  OBVIOUS
<1>2. \A i \in 1..(n + 1) : i = 1 \/ i \in 2..(n + 1)
  BY <1>1
<1>3. \A i \in 1..n : cores[i] # core
  BY <1>1 DEF Range
<1>4. ASSUME NEW i \in DOMAIN more, NEW j \in DOMAIN more, more[i] = more[j] PROVE i = j
  <2>0. \A x, y \in 1..n : cores[x] = cores[y] => x = y
    BY <1>1 DEF Distinct
  <2>1. CASE i = 1 \/ j = 1
    BY <1>1, <1>2, <1>3, <1>4, <2>1
  <2>2. CASE i \in 2..(n + 1) /\ j \in 2..(n + 1)
    <3>1. i - 1 = j - 1
      BY <1>1, <1>4, <2>0, <2>2
    <3> QED
      BY <2>2, <3>1
  <2> QED
    BY <1>1, <1>2, <2>1, <2>2
<1>5. ASSUME NEW c PROVE c \in Range(more) <=> c \in Range(cores) \union {core}
  <2>1. ASSUME c \in Range(more) PROVE c \in Range(cores) \union {core}
    BY <1>1, <1>2, <2>1 DEF Range
  <2>2. ASSUME c \in Range(cores) PROVE c \in Range(more)
    <3>1. PICK i \in 1..n : c = cores[i]
      BY <1>1, <2>2 DEF Range
    <3>2. i + 1 \in DOMAIN more /\ more[i + 1] = c
      BY <1>1, <3>1
    <3> QED
      BY <3>2 DEF Range
  <2>3. core \in Range(more)
    <3>1. 1 \in DOMAIN more
      BY <1>1
    <3> QED
      BY <1>1, <3>1 DEF Range
  <2> QED
    BY <2>1, <2>2, <2>3
<1> QED
  BY <1>1, <1>4, <1>5 DEF Distinct

LEMMA MorecoreIs ==
    ASSUME NEW k, NEW H, Good(k, H), NEW nu \in Nat \ {0}, NEW at,
           NEW core, core = [at |-> at, units |-> core_units(nu)], core \in Core,
           CoresApart(Range(k.core_head) \union {core}), core \notin Range(k.core_head),
           NEW z, z = morecore(k, nu, at)
    PROVE  /\ Good(z, H)
           /\ Range(z.core_head) = Range(k.core_head) \union {core}
           /\ \A x \in H : z.size[x] = k.size[x]
           /\ \E b \in DOMAIN z.ptr : z.size[b] >= nu
<1> PICK units, C, n : units = core_units(nu) /\ C = Range(k.core_head) /\ n = at + 1
  OBVIOUS
<1>1. units \in Nat /\ units >= nu + 1 /\ at \in Nat /\ n \in Nat /\ core.at = at /\ core.units = units
  <2>1. nu + 1 \in Nat /\ MinCore \in Nat \ {0} /\ core_units(nu) = Ceiling(nu + 1, MinCore) * MinCore
    BY KallocAssumption DEF core_units
  <2>2. core_units(nu) >= nu + 1
    BY <2>1, CeilingIs
  <2>3. core.at = at /\ core.units = units /\ at \in Nat /\ units \in Nat
    BY DEF Core
  <2> QED
    BY <2>2, <2>3
<1>2. PICK pre : /\ pre = [k EXCEPT !.core_head = <<core>> \o @, !.size = With(@, n, units - 1)]
                 /\ z = kfree(pre, n)
  BY DEF morecore
<1>3. DOMAIN k = Fields /\ k.panic = FALSE /\ k.core_head \in Seq(Core) /\ Tiles(k.size, C)
  BY DEF Good
<1>4. /\ DOMAIN pre = Fields /\ pre.panic = FALSE /\ pre.core_head = <<core>> \o k.core_head
      /\ pre.size = With(k.size, n, units - 1) /\ pre.ptr = k.ptr /\ pre.loop_head = k.loop_head
  BY <1>2, <1>3 DEF Fields
<1>5. /\ DOMAIN pre.size = DOMAIN k.size \union {n} /\ pre.size[n] = units - 1
      /\ \A x \in DOMAIN k.size \ {n} : pre.size[x] = k.size[x]
  BY <1>4 DEF With
<1>6. n \notin DOMAIN k.size /\ n # Base
  BY <1>1, <1>3, CoreClear
<1>7. Tiles(pre.size, C \union {core})
  <2>1. PICK s, y : s = k.size /\ y = pre.size
    OBVIOUS
  <2>2. /\ Tiles(s, C) /\ CoresApart(C \union {core}) /\ core \notin C /\ core.units > 1
        /\ DOMAIN y = DOMAIN s \union {core.at + 1} /\ y[core.at + 1] = core.units - 1
        /\ \A x \in DOMAIN s : y[x] = s[x]
    BY <1>1, <1>3, <1>5, <1>6, <2>1
  <2>3. Tiles(y, C \union {core})
    BY <2>2, CoreTiles
  <2> QED
    BY <2>1, <2>3
<1>8. Good(pre, H \union {n}) /\ n \notin H /\ Range(pre.core_head) = C \union {core}
  <2>1. /\ pre.core_head \in Seq(Core) /\ Range(pre.core_head) = C \union {core}
        /\ Distinct(pre.core_head)
    <3>1. Distinct(k.core_head)
      BY DEF Good
    <3> QED
      BY <1>3, <1>4, <3>1, PlusCore
  <2>2. /\ DOMAIN k.size = DOMAIN k.ptr \union H /\ DOMAIN k.ptr \cap H = {}
        /\ Base \in DOMAIN k.ptr /\ k.loop_head \in DOMAIN k.ptr /\ IsRing(DOMAIN k.ptr, k.ptr)
        /\ \A a, b \in DOMAIN k.ptr \ {Base} : a + k.size[a] # b
    BY DEF Good
  <2>3. /\ DOMAIN pre.size = DOMAIN pre.ptr \union (H \union {n})
        /\ DOMAIN pre.ptr \cap (H \union {n}) = {} /\ n \notin H
    BY <1>4, <1>5, <1>6, <2>2
  <2>4. \A a, b \in DOMAIN pre.ptr \ {Base} : a + pre.size[a] # b
    BY <1>4, <1>5, <1>6, <2>2
  <2> QED
    BY <1>4, <1>7, <2>1, <2>2, <2>3, <2>4 DEF Good
<1>9. /\ Good(z, (H \union {n}) \ {n})
      /\ z.core_head = pre.core_head
      /\ \A x \in (H \union {n}) \ {n} : z.size[x] = pre.size[x]
      /\ \E b \in DOMAIN z.ptr \ {Base} : z.size[b] >= pre.size[n]
  <2>1. Freed(pre, z, H \union {n}, n)
    BY <1>2, <1>8, KfreeIs
  <2> QED
    BY <2>1 DEF Freed
<1>10. Range(z.core_head) = C \union {core}
  BY <1>8, <1>9
<1>11. (H \union {n}) \ {n} = H /\ \A x \in H : x \in DOMAIN k.size
  BY <1>8 DEF Good
<1>12. \A x \in H : z.size[x] = k.size[x]
  BY <1>5, <1>6, <1>9, <1>11
<1>13. \E b \in DOMAIN z.ptr : z.size[b] >= nu
  <2>1. PICK b \in DOMAIN z.ptr \ {Base} : z.size[b] >= pre.size[n]
    BY <1>9
  <2>2. z.size[b] \in Nat
    BY <1>9, <2>1, GoodIs
  <2> QED
    BY <1>1, <1>5, <2>1, <2>2
<1> QED
  BY <1>9, <1>10, <1>11, <1>12, <1>13

-----------------------------------------------------------------------------
(* The search for a large enough block. *)

LEMMA AroundIs ==
    ASSUME NEW k, NEW H, Good(k, H)
    PROVE  /\ Around(k) \in Nat \ {0} /\ Around(k) = Cardinality(DOMAIN k.ptr)
           /\ WalksRound(Walk(k), DOMAIN k.ptr, k.ptr, Around(k))
           /\ Walk(k)[0] = k.loop_head
<1> PICK F, w, f : F = DOMAIN k.ptr /\ w = Walk(k) /\ f = k.ptr
  OBVIOUS
<1> DEFINE S == {i \in DOMAIN w : i > 0 /\ w[i] = w[0]}
<1>1. F \in SUBSET Nat /\ IsFiniteSet(F) /\ IsRing(F, f) /\ k.loop_head \in F
  BY GoodIs DEF Good
<1>2. PICK n : n = Cardinality(F) /\ n \in Nat \ {0} /\ WalksRound(w, F, f, n) /\ w[0] = k.loop_head
  BY <1>1, WalkIs
<1>3. /\ DOMAIN w = 0..n /\ w[n] = w[0]
      /\ \A i, j \in 1..n : w[i] = w[j] => i = j
  BY <1>2 DEF WalksRound
<1>4. \A i : i \in S <=> i = n
  <2> SUFFICES ASSUME NEW i PROVE i \in S <=> i = n
    OBVIOUS
  <2>1. i \in S => i \in 1..n /\ w[i] = w[n]
    BY <1>2, <1>3
  <2>2. n \in 1..n /\ n \in S
    BY <1>2, <1>3
  <2> QED
    BY <1>3, <2>1, <2>2
<1> HIDE DEF S
<1>5. S \in SUBSET Nat /\ S # {}
  BY <1>2, <1>4
<1>6. Min(S) = n
  BY <1>4, <1>5, MinIs
<1>7. Around(k) = Min(S)
  BY DEF Around, S
<1> QED
  BY <1>2, <1>6, <1>7

\* A large enough block is found, with the block before it, if there is one.
Found(k, n, q, p, i) ==
    /\ i = Min(Suitable(k, n)) /\ q = Walk(k)[i - 1] /\ p = Walk(k)[i]
    /\ q \in DOMAIN k.ptr /\ p \in DOMAIN k.ptr /\ p = k.ptr[q] /\ k.size[p] >= n
    /\ p # Base /\ p # q

LEMMA SuitableIs ==
    ASSUME NEW k, NEW H, Good(k, H), NEW n \in Nat \ {0}
    PROVE  /\ Suitable(k, n) # {} <=> \E b \in DOMAIN k.ptr : k.size[b] >= n
           /\ Suitable(k, n) # {} => \E q, p, i : Found(k, n, q, p, i)
<1> PICK F, w, f, N, s : F = DOMAIN k.ptr /\ w = Walk(k) /\ f = k.ptr /\ N = Around(k) /\ s = k.size
  OBVIOUS
<1> DEFINE S == Suitable(k, n)
<1>1. N \in Nat \ {0} /\ WalksRound(w, F, f, N)
  BY AroundIs
<1>2. /\ \A i \in 0..N : w[i] \in F
      /\ \A i \in 1..N : w[i] = f[w[i - 1]]
      /\ \A b \in F : \E i \in 1..N : w[i] = b
  BY <1>1 DEF WalksRound
<1>3. \A i : i \in S <=> i \in 1..N /\ s[w[i]] >= n
  BY DEF Suitable
<1> HIDE DEF S
<1>4. S # {} <=> \E b \in F : s[b] >= n
  <2>1. \A i \in 1..N : i \in 0..N
    BY <1>1
  <2> QED
    BY <1>2, <1>3, <2>1
<1>5. ASSUME S # {} PROVE \E q, p, i : Found(k, n, q, p, i)
  <2>1. S \in SUBSET Nat
    BY <1>3
  <2>2. PICK i : i = Min(S) /\ i \in S
    BY <1>5, <2>1, MinIs
  <2>3. PICK q, p : q = w[i - 1] /\ p = w[i]
    OBVIOUS
  <2>4. i \in 1..N /\ i - 1 \in 0..N /\ i \in 0..N
    BY <1>1, <1>3, <2>2
  <2>5. q \in F /\ p \in F /\ p = f[q] /\ s[p] >= n
    BY <1>2, <1>3, <2>2, <2>3, <2>4
  <2>6. p # Base
    BY <2>5, GoodIs
  <2>7. p # q
    <3> SUFFICES ASSUME p = q PROVE FALSE
      OBVIOUS
    <3>1. F \in SUBSET Nat /\ Base \in F /\ IsRing(F, f)
      BY GoodIs DEF Good
    <3>2. Follows(F, p, p)
      BY <2>5, <3>1 DEF IsRing
    <3>3. p \in Nat /\ Base \in Nat
      BY <2>5, <3>1
    <3>4. Base <= p /\ p <= Base
      BY <3>1, <3>2, <3>3 DEF Follows
    <3> QED
      BY <2>6, <3>3, <3>4
  <2>8. Found(k, n, q, p, i)
    BY <2>2, <2>3, <2>5, <2>6, <2>7 DEF Found, S
  <2> QED
    BY <2>8
<1> QED
  BY <1>4, <1>5 DEF S

\* What a caller of carve relies on.
Carved(k, got, H, n) ==
    /\ got.block \notin H /\ Good(got.km, H \union {got.block})
    /\ got.km.core_head = k.core_head /\ got.km.size[got.block] = n
    /\ \A x \in H : got.km.size[x] = k.size[x]

LEMMA CarveIs ==
    ASSUME NEW k, NEW H, Good(k, H), NEW n \in Nat \ {0}, Suitable(k, n) # {}
    PROVE  Carved(k, carve(k, n), H, n)
<1>1. PICK q, p, i : Found(k, n, q, p, i)
  BY SuitableIs
<1> PICK F, s, D, f, C :
      F = DOMAIN k.ptr /\ s = k.size /\ D = DOMAIN k.size /\ f = k.ptr /\ C = Range(k.core_head)
  OBVIOUS
<1>2. /\ q \in F /\ p \in F /\ p = f[q] /\ s[p] >= n /\ p # Base /\ p # q
      /\ carve(k, n).block = p + s[p] - n
      /\ carve(k, n).km = [(IF s[p] = n THEN unlink(k, q, p) ELSE split(k, p, n))
                              EXCEPT !.loop_head = q]
  BY <1>1 DEF Found, carve
<1>3. /\ F \in SUBSET Nat /\ F \in SUBSET D /\ D \in SUBSET Nat /\ Base \in F
      /\ \A x \in D : s[x] \in Nat /\ (x # Base => s[x] > 0)
      /\ D = F \union H /\ F \cap H = {}
  BY GoodIs DEF Good
<1>4. /\ Tiles(s, C) /\ IsRing(F, f) /\ DOMAIN k = Fields /\ k.panic = FALSE
      /\ \A a, b \in F \ {Base} : a + s[a] # b
  BY DEF Good
<1>5. CASE s[p] = n
  <2>1. PICK z : z = [unlink(k, q, p) EXCEPT !.loop_head = q] /\ carve(k, n).km = z
    BY <1>2, <1>5
  <2>2. /\ DOMAIN z = Fields /\ z.panic = FALSE /\ z.core_head = k.core_head /\ z.size = s
        /\ z.loop_head = q /\ z.ptr = Without([f EXCEPT ![q] = f[p]], p)
    BY <1>4, <2>1 DEF unlink, Fields
  <2>3. DOMAIN z.ptr = F \ {p} /\ z.ptr[q] = f[p] /\ \A x \in F \ {q, p} : z.ptr[x] = f[x]
    BY <1>2, <2>2 DEF Without
  <2>4. IsRing(F \ {p}, z.ptr)
    BY <1>2, <1>3, <1>4, <2>3, RingRemove
  <2>5. carve(k, n).block = p
    BY <1>2, <1>3, <1>5
  <2>6. GoodWith(z, C, F \ {p}, H \union {p}) /\ p \notin H
    <3>1. /\ D = (F \ {p}) \union (H \union {p}) /\ (F \ {p}) \cap (H \union {p}) = {}
          /\ Base \in F \ {p} /\ q \in F \ {p} /\ p \notin H
      BY <1>2, <1>3
    <3>2. \A a, b \in (F \ {p}) \ {Base} : a + z.size[a] # b
      BY <1>4, <2>2
    <3>3. DOMAIN z.size = D /\ Tiles(z.size, C)
      BY <1>4, <2>2
    <3> QED
      BY <2>2, <2>3, <2>4, <3>1, <3>2, <3>3 DEF GoodWith
  <2>7. Good(z, H \union {p})
    BY <2>2, <2>6, GoodBy
  <2> QED
    BY <1>5, <2>1, <2>2, <2>5, <2>6, <2>7 DEF Carved
<1>6. CASE s[p] # n
  <2>1. PICK z : z = [split(k, p, n) EXCEPT !.loop_head = q] /\ carve(k, n).km = z
    BY <1>2, <1>6
  <2>2. PICK e : e = p + s[p] - n
    OBVIOUS
  <2>3. /\ DOMAIN z = Fields /\ z.panic = FALSE /\ z.core_head = k.core_head /\ z.ptr = f
        /\ z.loop_head = q /\ z.size = With([s EXCEPT ![p] = s[p] - n], e, n)
    BY <1>4, <2>1, <2>2 DEF split, Fields
  <2>4. /\ p \in Nat /\ s[p] \in Nat /\ e \in Nat /\ p < e /\ e < p + s[p] /\ p \in D
        /\ e - p = s[p] - n /\ p + s[p] - e = n
    BY <1>2, <1>3, <1>6, <2>2
  <2>5. /\ DOMAIN z.size = D \union {e} /\ z.size[p] = e - p /\ z.size[e] = p + s[p] - e
        /\ \A x \in D : x # p /\ x # e => z.size[x] = s[x]
    BY <2>3, <2>4 DEF With
  <2>6. e \notin D
    <3>1. \A a, b \in D : a < b => a + s[a] <= b
      BY <1>4 DEF Tiles, Apart
    <3> QED
      BY <2>4, <3>1
  <2>7. \A x \in D \ {p} : z.size[x] = s[x]
    BY <2>5, <2>6
  <2>8. Tiles(z.size, C)
    <3>1. PICK y : y = z.size
      OBVIOUS
    <3>2. /\ Tiles(s, C) /\ BlockOf(s, p) /\ e \in Nat /\ p < e /\ e < p + s[p]
          /\ DOMAIN y = DOMAIN s \union {e} /\ y[p] = e - p /\ y[e] = p + s[p] - e
          /\ \A x \in DOMAIN s \ {p} : y[x] = s[x]
      BY <1>2, <1>4, <2>4, <2>5, <2>7, <3>1 DEF BlockOf
    <3>3. Tiles(y, C)
      BY ONLY <3>2, SplitTiles, KallocAssumption
    <3> QED
      BY <3>1, <3>3
  <2>9. \A a, b \in F \ {Base} : a + z.size[a] # b
    <3> SUFFICES ASSUME NEW a \in F \ {Base}, NEW b \in F \ {Base}, a + z.size[a] = b
                 PROVE  FALSE
      OBVIOUS
    <3>1. CASE a = p
      BY <1>3, <2>4, <2>5, <2>6, <3>1
    <3>2. CASE a # p
      BY <1>3, <1>4, <2>7, <3>2
    <3> QED
      BY <3>1, <3>2
  <2>10. GoodWith(z, C, F, H \union {e}) /\ e \notin H
    <3>1. /\ D \union {e} = F \union (H \union {e}) /\ F \cap (H \union {e}) = {}
          /\ Base \in F /\ q \in F /\ e \notin H
      BY <1>2, <1>3, <2>6
    <3>2. DOMAIN z.ptr = F /\ IsRing(F, z.ptr)
      BY <1>4, <2>3
    <3> QED
      BY <2>3, <2>5, <2>8, <2>9, <3>1, <3>2 DEF GoodWith
  <2>11. Good(z, H \union {e})
    BY <2>3, <2>10, GoodBy
  <2>12. \A x \in H : z.size[x] = s[x]
    BY <1>2, <1>3, <2>7
  <2> QED
    <3>1. PICK got : got = carve(k, n) /\ got.block = e /\ got.km = z
      BY <1>2, <2>1, <2>2
    <3>2. z.size[e] = n
      BY <2>4, <2>5
    <3> QED
      BY <2>3, <2>10, <2>11, <2>12, <3>1, <3>2 DEF Carved
<1> QED
  BY <1>5, <1>6

-----------------------------------------------------------------------------
(* The invariant, and what kmalloc obtains from a state of it. *)

\* No call has been made.
Fresh(k) ==
    /\ DOMAIN k = Fields /\ k.panic = FALSE /\ k.loop_head = Null
    /\ k.size = [b \in {Base} |-> 0] /\ k.ptr = <<>> /\ k.core_head = <<>>

Fits(k, r) == \A p \in DOMAIN r : r[p] \in Request /\ r[p] <= k.size[p] * Unit - Word

Sound ==
    /\ (Fresh(km) /\ held = {}) \/ Good(km, held)
    /\ Fits(km, request)
    /\ lost \in BOOLEAN
    /\ status \in {"open", "aborted", "destroyed"}
    /\ heap = IF status = "destroyed" THEN {} ELSE Range(km.core_head)

LEMMA OpenedIs ==
    ASSUME NEW k, NEW H, (Fresh(k) /\ H = {}) \/ Good(k, H), NEW z, z = opened(k)
    PROVE  Good(z, H) /\ z.core_head = k.core_head /\ \A x \in H : z.size[x] = k.size[x]
<1>0. Base \in Nat /\ Null \notin Nat
  BY KallocAssumption
<1>1. CASE Fresh(k) /\ H = {}
  <2>1. /\ DOMAIN z = Fields /\ z.panic = FALSE /\ z.loop_head = Base
        /\ z.size = [b \in {Base} |-> 0] /\ z.ptr = [b \in {Base} |-> Base] /\ z.core_head = <<>>
        /\ k.core_head = <<>>
    BY <1>1 DEF Fresh, opened, Fields
  <2>2. Range(z.core_head) = {} /\ z.core_head \in Seq(Core) /\ Distinct(z.core_head)
    BY <2>1 DEF Range, Distinct
  <2>3. DOMAIN z.size = {Base} /\ z.size[Base] = 0 /\ DOMAIN z.ptr = {Base} /\ z.ptr[Base] = Base
    BY <2>1
  <2>4. Tiles(z.size, {})
    <3>1. IsFiniteSet({Base})
      BY FS_Singleton
    <3> QED
      BY <1>0, <2>3, <3>1 DEF Tiles, CoresApart, Sizes, Apart, InCores, Tiled, BlockOf
  <2>5. IsRing(DOMAIN z.ptr, z.ptr)
    BY <1>0, <2>3 DEF IsRing, Follows
  <2>6. Good(z, H)
    BY <1>1, <2>1, <2>2, <2>3, <2>4, <2>5 DEF Good
  <2> QED
    BY <1>1, <2>1, <2>6
<1>2. CASE Good(k, H)
  <2>1. k.loop_head \in Nat
    BY <1>2, GoodIs DEF Good
  <2>2. z = k
    BY <1>0, <2>1 DEF opened
  <2> QED
    BY <1>2, <2>2
<1> QED
  BY <1>1, <1>2

LEMMA UnitsFit ==
    ASSUME NEW n \in Nat \ {0}
    PROVE  n_units(n) \in Nat \ {0} /\ n <= n_units(n) * Unit - Word
  BY DEF n_units, Ceiling, Unit, Word

\* One of kmalloc's results.
Obtained(res, n) ==
    /\ res.block \notin held /\ Good(res.km, held \union {res.block})
    /\ res.km.size[res.block] = n_units(n)
    /\ \A x \in held : res.km.size[x] = km.size[x]
    /\ res.heap = Range(res.km.core_head)

LEMMA ResultsAre ==
    ASSUME Sound, status = "open", NEW n \in Request, NEW res \in Results(n)
    PROVE  Obtained(res, n)
<1> PICK k, nu : k = opened(km) /\ nu = n_units(n)
  OBVIOUS
<1>1. /\ Good(k, held) /\ Range(k.core_head) = heap /\ \A x \in held : k.size[x] = km.size[x]
      /\ nu \in Nat \ {0}
  <2>1. n \in Nat \ {0}
    BY KallocAssumption
  <2>2. n_units(n) \in Nat \ {0}
    BY <2>1, UnitsFit
  <2>3. (Fresh(km) /\ held = {}) \/ Good(km, held)
    BY DEF Sound
  <2>4. Good(k, held) /\ k.core_head = km.core_head /\ \A x \in held : k.size[x] = km.size[x]
    BY <2>3, OpenedIs
  <2>5. heap = Range(km.core_head)
    BY DEF Sound
  <2> QED
    BY <2>2, <2>4, <2>5
<1>2. CASE Suitable(k, nu) # {}
  <2>1. PICK got : got = carve(k, nu) /\ res = [km |-> got.km, block |-> got.block, heap |-> heap]
    BY <1>2 DEF Results
  <2>2. Carved(k, got, held, nu)
    BY <1>1, <1>2, <2>1, CarveIs
  <2> QED
    BY <1>1, <2>1, <2>2 DEF Carved, Obtained
<1>3. CASE Suitable(k, nu) = {}
  <2>1. PICK at \in Sites(core_units(nu)) :
          res = [km |-> carve(morecore(k, nu, at), nu).km,
                 block |-> carve(morecore(k, nu, at), nu).block,
                 heap |-> heap \union {[at |-> at, units |-> core_units(nu)]}]
    BY <1>3 DEF Results
  <2>2. PICK m, got, core : /\ m = morecore(k, nu, at) /\ got = carve(m, nu)
                            /\ core = [at |-> at, units |-> core_units(nu)]
    OBVIOUS
  <2>3. /\ at \in Nat /\ core_units(nu) \in Nat /\ core_units(nu) > 0
        /\ at + core_units(nu) < Base \/ at > Base + 2
        /\ \A c \in heap : at + core_units(nu) < c.at \/ at > c.at + c.units
    <3>1. nu + 1 \in Nat /\ MinCore \in Nat \ {0}
      BY <1>1, KallocAssumption
    <3>2. Ceiling(nu + 1, MinCore) \in Nat /\ Ceiling(nu + 1, MinCore) * MinCore >= nu + 1
      BY <3>1, CeilingIs
    <3>3. core_units(nu) \in Nat /\ core_units(nu) > 0
      BY <1>1, <3>1, <3>2 DEF core_units
    <3>4. at \in Nat
      BY KallocAssumption DEF Sites
    <3> QED
      BY <3>3, <3>4 DEF Sites
  <2>4. core \in Core /\ core.at = at /\ core.units = core_units(nu)
    BY <2>2, <2>3 DEF Core
  <2>5. CoresApart(heap)
    BY <1>1 DEF Good, Tiles
  <2>6. core \notin heap
    BY <2>3, <2>4
  <2>7. CoresApart(heap \union {core})
    <3>1. \A c \in heap : /\ c.at \in Nat /\ c.units \in Nat
                          /\ c.at + c.units < Base \/ c.at > Base + 2
      BY <2>5, CoreIs
    <3>2. \A c \in heap, d \in heap : c = d \/ c.at + c.units < d.at \/ d.at + d.units < c.at
      BY <2>5, CoreIs
    <3>3. \A c \in heap : core.at + core.units < c.at \/ c.at + c.units < core.at
      BY <2>3, <2>4, <3>1
    <3>4. /\ core.at \in Nat /\ core.units \in Nat
          /\ core.at + core.units < Base \/ core.at > Base + 2
      BY <2>3, <2>4
    <3> QED
      BY <3>1, <3>2, <3>3, <3>4, Zenon DEF CoresApart
  <2>8. /\ Good(m, held) /\ Range(m.core_head) = heap \union {core}
        /\ \A x \in held : m.size[x] = k.size[x]
        /\ \E b \in DOMAIN m.ptr : m.size[b] >= nu
    BY <1>1, <2>2, <2>4, <2>6, <2>7, MorecoreIs
  <2>9. Suitable(m, nu) # {}
    BY <1>1, <2>8, SuitableIs
  <2>10. Carved(m, got, held, nu)
    BY <1>1, <2>2, <2>8, <2>9, CarveIs
  <2>11. res.km = got.km /\ res.block = got.block /\ res.heap = heap \union {core}
    BY <2>1, <2>2
  <2> QED
    BY <1>1, <2>8, <2>10, <2>11 DEF Carved, Obtained
<1> QED
  BY <1>2, <1>3

-----------------------------------------------------------------------------
(* Every action keeps the invariant. *)

LEMMA InitSound == Init => Sound
<1> SUFFICES ASSUME Init PROVE Sound
  OBVIOUS
<1>1. Fresh(km) /\ held = {}
  BY DEF Init, Fresh, Fields, held
<1>2. Fits(km, request)
  BY <1>1 DEF Fits, held
<1>3. Range(km.core_head) = {}
  BY DEF Init, Range
<1> QED
  BY <1>1, <1>2, <1>3 DEF Init, Sound

LEMMA KmallocSound ==
    ASSUME Sound, NEW n \in Request, Kmalloc(n)
    PROVE  Sound'
<1>1. PICK res \in Results(n) :
        /\ Returns(res.km, With(request, res.block, n)) /\ heap' = res.heap
  BY DEF Kmalloc
<1>2. Obtained(res, n) /\ status = "open" /\ lost' = lost
  BY ResultsAre DEF Kmalloc
<1>3. km' = res.km /\ request' = With(request, res.block, n) /\ res.km.panic = FALSE /\ status' = "open"
  BY <1>1, <1>2 DEF Returns, Obtained, Good
<1>4. /\ DOMAIN request' = DOMAIN request \union {res.block} /\ request'[res.block] = n
      /\ \A y \in DOMAIN request \ {res.block} : request'[y] = request[y]
  BY <1>3 DEF With
<1>5. held' = held \union {res.block}
  BY <1>4 DEF held
<1>6. Good(km', held')
  BY <1>2, <1>3, <1>5 DEF Obtained
<1>7. Fits(km', request')
  <2> SUFFICES ASSUME NEW p \in DOMAIN request'
               PROVE  request'[p] \in Request /\ request'[p] <= km'.size[p] * Unit - Word
    BY DEF Fits
  <2>1. CASE p = res.block
    <3>1. n \in Nat \ {0} /\ km'.size[p] = n_units(n) /\ request'[p] = n
      BY <1>2, <1>3, <1>4, <2>1, KallocAssumption DEF Obtained
    <3> QED
      BY <3>1, UnitsFit
  <2>2. CASE p # res.block
    <3>1. p \in DOMAIN request /\ request'[p] = request[p] /\ km'.size[p] = km.size[p]
      BY <1>2, <1>3, <1>4, <2>2 DEF Obtained, held
    <3> QED
      BY <3>1 DEF Sound, Fits
  <2> QED
    BY <2>1, <2>2
<1> QED
  BY <1>1, <1>2, <1>3, <1>6, <1>7 DEF Sound, Obtained

LEMMA MallocRefusesSound ==
    ASSUME Sound, NEW n, MallocRefuses(n)
    PROVE  Sound'
<1>1. /\ status = "open" /\ status' = "aborted" /\ km' = opened(km)
      /\ heap' = heap /\ request' = request /\ lost' = lost
  BY DEF MallocRefuses
<1>2. (Fresh(km) /\ held = {}) \/ Good(km, held)
  BY DEF Sound
<1>3. /\ Good(km', held) /\ km'.core_head = km.core_head
      /\ \A x \in held : km'.size[x] = km.size[x]
  BY <1>1, <1>2, OpenedIs
<1>4. held' = held
  BY <1>1 DEF held
<1>5. Fits(km', request')
  BY <1>1, <1>3 DEF Sound, Fits, held
<1> QED
  BY <1>1, <1>3, <1>4, <1>5 DEF Sound

LEMMA KfreeSound ==
    ASSUME Sound, NEW p, Kfree(p)
    PROVE  Sound'
<1>1. /\ status = "open" /\ p \in held /\ heap' = heap /\ lost' = lost
      /\ Returns(kfree(km, p), Without(request, p))
  BY DEF Kfree
<1>2. Good(km, held)
  BY <1>1 DEF Sound
<1>3. PICK z : z = kfree(km, p) /\ Freed(km, z, held, p)
  BY <1>1, <1>2, KfreeIs
<1>4. km' = z /\ request' = Without(request, p) /\ z.panic = FALSE /\ status' = "open"
  BY <1>1, <1>3 DEF Returns, Freed, Good
<1>5. /\ DOMAIN request' = DOMAIN request \ {p}
      /\ \A y \in DOMAIN request \ {p} : request'[y] = request[y]
  BY <1>4, WithoutIs
<1>6. held' = held \ {p}
  BY <1>5 DEF held
<1>7. Good(km', held') /\ km'.core_head = km.core_head
  BY <1>3, <1>4, <1>6 DEF Freed
<1>8. Fits(km', request')
  <2>1. \A x \in held \ {p} : km'.size[x] = km.size[x]
    BY <1>3, <1>4 DEF Freed
  <2> QED
    BY <1>5, <2>1 DEF Sound, Fits, held
<1> QED
  BY <1>1, <1>4, <1>7, <1>8 DEF Sound

LEMMA KreallocInPlaceSound ==
    ASSUME Sound, NEW p, NEW n \in Request, KreallocInPlace(p, n)
    PROVE  Sound'
<1>1. /\ status = "open" /\ p \in held /\ heap' = heap /\ lost' = lost
      /\ km.size[p] >= n_units_in_place(n) /\ Returns(km, [request EXCEPT ![p] = n])
  BY DEF KreallocInPlace
<1>2. Good(km, held)
  BY <1>1 DEF Sound
<1>3. km' = km /\ request' = [request EXCEPT ![p] = n] /\ status' = "open"
  BY <1>1, <1>2 DEF Returns, Good
<1>4. /\ held' = held /\ request'[p] = n /\ \A x \in held \ {p} : request'[x] = request[x]
  BY <1>1, <1>3 DEF held
<1>5. n <= km.size[p] * Unit - Word
  <2>1. n \in Nat \ {0} /\ km.size[p] \in Nat
    BY <1>1, <1>2, GoodIs, KallocAssumption
  <2> QED
    BY <1>1, <2>1 DEF n_units_in_place, Ceiling, Unit, Word
<1>6. Fits(km', request')
  BY <1>3, <1>4, <1>5 DEF Sound, Fits, held
<1> QED
  BY <1>1, <1>2, <1>3, <1>4, <1>6 DEF Sound

LEMMA KreallocMovesSound ==
    ASSUME Sound, NEW p, NEW n \in Request, KreallocMoves(p, n)
    PROVE  Sound'
<1>1. /\ status = "open" /\ p \in held
      /\ lost' = (lost \/ copied(p) < Min({n, request[p]}))
  BY DEF KreallocMoves
<1>2. PICK res \in Results(n) :
        /\ Returns(kfree(res.km, p), With(Without(request, p), res.block, n))
        /\ heap' = res.heap
  BY DEF KreallocMoves
<1>3. Obtained(res, n)
  BY <1>1, ResultsAre
<1> PICK H, b : H = held \union {res.block} /\ b = res.block
  OBVIOUS
<1>4. /\ Good(res.km, H) /\ p \in H /\ b \notin held /\ p # b
      /\ \A x \in held : res.km.size[x] = km.size[x]
  BY <1>1, <1>3 DEF Obtained
<1>5. PICK z : z = kfree(res.km, p) /\ Freed(res.km, z, H, p)
  BY <1>4, KfreeIs
<1>6. /\ km' = z /\ request' = With(Without(request, p), b, n) /\ z.panic = FALSE
      /\ status' = "open"
  BY <1>1, <1>2, <1>5 DEF Returns, Freed, Good
<1>7. /\ DOMAIN request' = (DOMAIN request \ {p}) \union {b} /\ request'[b] = n
      /\ \A y \in DOMAIN request \ {p} : y # b => request'[y] = request[y]
  BY <1>6 DEF With, Without
<1>8. held' = H \ {p}
  BY <1>4, <1>7 DEF held
<1>9. Good(km', held') /\ km'.core_head = res.km.core_head
  BY <1>5, <1>6, <1>8 DEF Freed
<1>10. Fits(km', request')
  <2> SUFFICES ASSUME NEW x \in DOMAIN request'
               PROVE  request'[x] \in Request /\ request'[x] <= km'.size[x] * Unit - Word
    BY DEF Fits
  <2>0. x \in H \ {p} /\ km'.size[x] = res.km.size[x]
    BY <1>5, <1>6, <1>8 DEF Freed, held
  <2>1. CASE x = b
    <3>1. n \in Nat \ {0} /\ km'.size[x] = n_units(n) /\ request'[x] = n
      BY <1>3, <1>7, <2>0, <2>1, KallocAssumption DEF Obtained
    <3> QED
      BY <3>1, UnitsFit
  <2>2. CASE x # b
    <3>1. x \in DOMAIN request /\ request'[x] = request[x] /\ km'.size[x] = km.size[x]
      BY <1>4, <1>7, <2>0, <2>2 DEF held
    <3> QED
      BY <3>1 DEF Sound, Fits
  <2> QED
    BY <2>1, <2>2
<1>11. lost' \in BOOLEAN
  BY <1>1, Zenon
<1>12. heap' = Range(km'.core_head)
  BY <1>2, <1>3, <1>9 DEF Obtained
<1> QED
  BY <1>6, <1>9, <1>10, <1>11, <1>12 DEF Sound

LEMMA DestroySound ==
    ASSUME Sound, Destroy
    PROVE  Sound'
<1>1. /\ status = "open" /\ status' = "destroyed" /\ heap' = heap \ Range(km.core_head)
      /\ km' = km /\ request' = request /\ lost' = lost
  BY DEF Destroy
<1>2. heap' = {}
  BY <1>1 DEF Sound
<1>3. ((Fresh(km) /\ held = {}) \/ Good(km, held))' /\ Fits(km, request)' /\ lost' \in BOOLEAN
  BY <1>1 DEF Sound, held
<1> QED
  BY <1>1, <1>2, <1>3 DEF Sound

\* Before and after every call of kmalloc, krealloc, kfree and km_destroy the ring
\* links its blocks in address order, the blocks tile the cores, and every block is
\* free or one client's.
THEOREM Soundness == Spec => []Sound
<1>1. ASSUME Sound, [Next]_vars PROVE Sound'
  <2>1. CASE \E n \in Request : Kmalloc(n) \/ MallocRefuses(n)
    BY <1>1, <2>1, KmallocSound, MallocRefusesSound
  <2>2. CASE \E p \in held : Kfree(p)
    BY <1>1, <2>2, KfreeSound
  <2>3. CASE \E p \in held, n \in Request : KreallocInPlace(p, n) \/ KreallocMoves(p, n)
    BY <1>1, <2>3, KreallocInPlaceSound, KreallocMovesSound
  <2>4. CASE Destroy
    BY <1>1, <2>4, DestroySound
  <2>5. CASE UNCHANGED vars
    BY <1>1, <2>5 DEF vars, Sound, held
  <2> QED
    BY <1>1, <2>1, <2>2, <2>3, <2>4, <2>5 DEF Next
<1> QED
  BY <1>1, InitSound, PTL DEF Spec

-----------------------------------------------------------------------------
(* What the invariant gives. *)

LEMMA SoundTypes == Sound => TypeOK
<1> SUFFICES ASSUME Sound PROVE TypeOK
  OBVIOUS
<1>0. Base \in Nat
  BY KallocAssumption
<1>1. /\ \A p \in held : request[p] \in Request
      /\ lost \in BOOLEAN
      /\ status \in {"open", "aborted", "corrupt", "destroyed"}
  BY DEF Sound, Fits, held
<1>2. /\ \A b \in DOMAIN km.size : b \in Nat /\ km.size[b] \in Nat
      /\ DOMAIN km.size = {Base} \union free \union held
      /\ free \cap held = {} /\ Base \notin held
      /\ km.loop_head \in free \union {Null}
  <2>1. CASE Fresh(km) /\ held = {}
    BY <1>0, <2>1 DEF Fresh, free
  <2>2. CASE Good(km, held)
    <3>1. /\ DOMAIN km.size \in SUBSET Nat
          /\ \A b \in DOMAIN km.size : km.size[b] \in Nat
          /\ \A b \in held : b # Base
      BY <2>2, GoodIs
    <3>2. /\ DOMAIN km.size = free \union held /\ free \cap held = {}
          /\ Base \in free /\ km.loop_head \in free
      BY <2>2 DEF Good, free
    <3> QED
      BY <3>1, <3>2
  <2> QED
    BY <2>1, <2>2 DEF Sound
<1> QED
  BY <1>1, <1>2 DEF TypeOK

LEMMA RingIs ==
    ASSUME NEW k, NEW H, Good(k, H)
    PROVE  ring(k) = DOMAIN k.ptr /\ k.loop_head # Null
<1> PICK F, w, N : F = DOMAIN k.ptr /\ w = Walk(k) /\ N = Around(k)
  OBVIOUS
<1>1. N \in Nat \ {0} /\ WalksRound(w, F, k.ptr, N)
  BY AroundIs
<1>2. (\A i \in 0..N : w[i] \in F) /\ \A b \in F : \E i \in 1..N : w[i] = b
  BY <1>1 DEF WalksRound
<1>3. k.loop_head \in Nat /\ Null \notin Nat
  BY GoodIs, KallocAssumption DEF Good
<1>4. ring(k) = {w[i] : i \in 1..N}
  BY <1>3 DEF ring
<1>5. \A i \in 1..N : i \in 0..N
  BY <1>1
<1> QED
  BY <1>2, <1>3, <1>4, <1>5

LEMMA SoundRing == Sound => RingInOrder
<1> SUFFICES ASSUME Sound PROVE RingInOrder
  OBVIOUS
<1>1. TypeOK
  BY SoundTypes
<1>2. CASE Fresh(km) /\ held = {}
  <2>1. km.loop_head = Null /\ free = {}
    BY <1>2 DEF Fresh, free
  <2> QED
    BY <1>1, <2>1 DEF RingInOrder
<1>3. CASE Good(km, held)
  <2>1. ring(km) = free
    BY <1>3, RingIs DEF free
  <2>2. /\ free \in SUBSET Nat /\ IsFiniteSet(free) /\ free # {} /\ IsRing(free, km.ptr)
        /\ \A a, b \in free \ {Base} : a + km.size[a] # b
    BY <1>3, GoodIs DEF Good, free
  <2>3. PICK m \in free : \A y \in free : y <= m
    BY <2>2, Largest
  <2>4. {b \in free : km.ptr[b] <= b} = {m}
    <3>1. PICK f : f = km.ptr
      OBVIOUS
    <3>2. ASSUME NEW b \in free PROVE f[b] <= b <=> b = m
      <4>1. /\ f[b] \in free /\ f[b] \in Nat /\ b \in Nat /\ m \in Nat /\ b <= m /\ f[b] <= m
            /\ \/ f[b] > b /\ \A x \in free : x > b => f[b] <= x
               \/ (\A x \in free : x <= b) /\ (\A x \in free : f[b] <= x)
        BY <2>2, <2>3, <3>1 DEF IsRing, Follows
      <4> QED
        BY <2>3, <4>1
    <3> QED
      BY <3>1, <3>2
  <2>5. Cardinality({b \in free : km.ptr[b] <= b}) = 1
    BY <2>4, FS_Singleton
  <2> QED
    BY <1>1, <2>1, <2>2, <2>5 DEF RingInOrder
<1> QED
  BY <1>2, <1>3 DEF Sound

LEMMA SoundNoPanic == Sound => NeverPanics
<1> SUFFICES ASSUME Sound PROVE NeverPanics
  OBVIOUS
<1>1. ~ km.panic
  BY DEF Sound, Fresh, Good
<1>2. ASSUME NEW b \in ring(km), km.ptr[b] > b, b + km.size[b] > km.ptr[b] PROVE FALSE
  <2>1. CASE Fresh(km) /\ held = {}
    BY <1>2, <2>1 DEF Fresh, ring
  <2>2. CASE Good(km, held)
    <3>1. b \in DOMAIN km.ptr /\ IsRing(DOMAIN km.ptr, km.ptr)
      BY <1>2, <2>2, RingIs DEF Good
    <3>2. km.ptr[b] \in DOMAIN km.ptr
      BY <3>1 DEF IsRing, Follows
    <3>3. PICK c : c = km.ptr[b]
      OBVIOUS
    <3>4. /\ b \in DOMAIN km.size /\ c \in DOMAIN km.size /\ b < c
          /\ b \in Nat /\ c \in Nat /\ km.size[b] \in Nat /\ b + km.size[b] > c
      BY <1>2, <2>2, <3>1, <3>2, <3>3, GoodIs
    <3>5. b + km.size[b] <= c
      BY <2>2, <3>4, GoodIs
    <3> QED
      BY <3>4, <3>5
  <2> QED
    BY <2>1, <2>2 DEF Sound
<1>3. ~ km_stat(km).panics
  BY <1>2 DEF km_stat
<1> QED
  BY <1>1, <1>3 DEF NeverPanics

-----------------------------------------------------------------------------
(* The units, counted. *)

LEMMA SumPlus ==
    ASSUME NEW S, NEW T, IsFiniteSet(S), IsFiniteSet(T), S \cap T = {},
           NEW f, \A x \in S \union T : f[x] \in Nat
    PROVE  Sum(f, S \union T) = Sum(f, S) + Sum(f, T)
<1>1. IsFiniteSet(Shares(f, S)) /\ IsFiniteSet(Shares(f, T))
  BY SharesFinite
<1>2. Shares(f, S \union T) = Shares(f, S) \union Shares(f, T)
  BY DEF Shares
<1>3. Shares(f, S) \cap Shares(f, T) = {}
  BY DEF Shares
<1>4. Cardinality(Shares(f, S) \cap Shares(f, T)) = 0
  BY <1>3, FS_EmptySet
<1>5. Cardinality(Shares(f, S)) \in Nat /\ Cardinality(Shares(f, T)) \in Nat
  BY <1>1, FS_CardinalityType
<1>6. Cardinality(Shares(f, S) \union Shares(f, T)) =
        Cardinality(Shares(f, S)) + Cardinality(Shares(f, T))
          - Cardinality(Shares(f, S) \cap Shares(f, T))
  BY <1>1, FS_Union
<1>7. Cardinality(Shares(f, S) \union Shares(f, T)) =
        Cardinality(Shares(f, S)) + Cardinality(Shares(f, T))
  BY <1>4, <1>5, <1>6
<1> QED
  BY <1>2, <1>7 DEF Sum

\* What Functions and FiniteSetsExt add up.
LEMMA SumOnSet ==
    ASSUME NEW S, IsFiniteSet(S), NEW f, \A x \in S : f[x] \in Nat
    PROVE  SumFunctionOnSet(f, S) = Sum(f, S)
<1>1. \E g : g = (CHOOSE h : h = Adding(f, S, h)) /\ SumFunctionOnSet(f, S) = g[S]
  BY DEF SumFunctionOnSet, FoldFunctionOnSet, MapThenFoldSet, Adding, Pick
<1>2. \E h : h = Adding(f, S, h)
  BY AddingIsSum
<1>3. \E g : g = Adding(f, S, g) /\ SumFunctionOnSet(f, S) = g[S]
  BY <1>1, <1>2
<1> QED
  BY <1>3, AddingIsSum

UnitsOf(C) == [c \in C |-> c.units]
AddUnits(C, h) ==
    [T \in SUBSET C |-> IF T = {} THEN 0 ELSE Pick(T).units + h[T \ {Pick(T)}]]

LEMMA UnitsSum ==
    ASSUME NEW C \in SUBSET Core, IsFiniteSet(C)
    PROVE  MapThenSumSet(LAMBDA c : c.units, C) = Sum(UnitsOf(C), C)
<1>1. \E g : /\ g = (CHOOSE h : h = AddUnits(C, h))
             /\ MapThenSumSet(LAMBDA c : c.units, C) = g[C]
  BY DEF MapThenSumSet, MapThenFoldSet, AddUnits, Pick
<1>2. PICK f : f = UnitsOf(C)
  OBVIOUS
<1>3. \A c \in C : f[c] = c.units /\ f[c] \in Nat
  BY <1>2 DEF UnitsOf, Core
<1>4. \A h : AddUnits(C, h) = Adding(f, C, h)
  <2> SUFFICES ASSUME NEW h, NEW T \in SUBSET C, T # {}
               PROVE  Pick(T).units = f[Pick(T)]
    BY DEF AddUnits, Adding
  <2> QED
    BY <1>3, PickIn
<1>5. \E g : g = AddUnits(C, g) /\ MapThenSumSet(LAMBDA c : c.units, C) = g[C]
  <2>1. \E h : h = AddUnits(C, h)
    BY <1>3, <1>4, AddingIsSum
  <2> QED
    BY <1>1, <2>1
<1> QED
  BY <1>2, <1>3, <1>4, <1>5, AddingIsSum

\* Intervals that do not meet: as many numbers as their lengths add up to.
Spread(f, g, S) == {u \in Nat : \E x \in S : g[x] <= u /\ u < g[x] + f[x]}

LEMMA SpreadSum ==
    ASSUME NEW S, IsFiniteSet(S), NEW f, NEW g, \A x \in S : f[x] \in Nat /\ g[x] \in Nat,
           \A x, y \in S : x = y \/ g[x] + f[x] <= g[y] \/ g[y] + f[y] <= g[x]
    PROVE  IsFiniteSet(Spread(f, g, S)) /\ Cardinality(Spread(f, g, S)) = Sum(f, S)
<1> PICK P, T : P = Shares(f, S) /\ T = Spread(f, g, S)
  OBVIOUS
<1>1. IsFiniteSet(P)
  BY SharesFinite
<1>2. \A p : p \in P <=> /\ p = <<p[1], p[2]>> /\ p[1] \in S /\ p[2] \in Nat /\ p[2] < f[p[1]]
  BY DEF Shares
<1>3. PICK h : h = [p \in P |-> g[p[1]] + p[2]]
  OBVIOUS
<1>4. ASSUME NEW p \in P, NEW q \in P, h[p] = h[q] PROVE p = q
  <2>1. PICK x, y, i, j : /\ x = p[1] /\ y = q[1] /\ i = p[2] /\ j = q[2]
                          /\ p = <<x, i>> /\ q = <<y, j>> /\ x \in S /\ y \in S
                          /\ i \in Nat /\ j \in Nat /\ i < f[x] /\ j < f[y]
    BY <1>2
  <2>2. g[x] + i = g[y] + j
    BY <1>3, <1>4, <2>1
  <2>3. x = y
    BY <2>1, <2>2
  <2>4. i = j
    <3>1. g[x] \in Nat /\ g[x] + i = g[x] + j /\ i \in Nat /\ j \in Nat
      BY <2>1, <2>2, <2>3
    <3> QED
      BY ONLY <3>1
  <2> QED
    BY <2>1, <2>3, <2>4
<1>5. ASSUME NEW u PROVE u \in T <=> \E p \in P : h[p] = u
  <2>1. ASSUME u \in T PROVE \E p \in P : h[p] = u
    <3>1. PICK x \in S : u \in Nat /\ g[x] <= u /\ u < g[x] + f[x]
      BY <2>1 DEF Spread
    <3>2. u - g[x] \in Nat /\ u - g[x] < f[x] /\ g[x] + (u - g[x]) = u
      BY <3>1
    <3>3. PICK p : p = <<x, u - g[x]>>
      OBVIOUS
    <3>4. p \in P /\ p[1] = x /\ p[2] = u - g[x]
      BY <1>2, <3>2, <3>3
    <3> QED
      BY <1>3, <3>2, <3>4
  <2>2. ASSUME NEW p \in P, h[p] = u PROVE u \in T
    <3>1. p[1] \in S /\ p[2] \in Nat /\ p[2] < f[p[1]] /\ u = g[p[1]] + p[2]
      BY <1>2, <1>3, <2>2
    <3>2. u \in Nat /\ g[p[1]] <= u /\ u < g[p[1]] + f[p[1]]
      BY <3>1
    <3> QED
      BY <3>1, <3>2 DEF Spread
  <2> QED
    BY <2>1, <2>2
<1>6. h \in [P -> Nat]
  <2> SUFFICES ASSUME NEW p \in P PROVE g[p[1]] + p[2] \in Nat
    BY <1>3
  <2>1. g[p[1]] \in Nat /\ p[2] \in Nat
    BY <1>2
  <2> QED
    BY <2>1
<1>7. IsFiniteSet(T) /\ Cardinality(T) = Cardinality(P)
  <2>1. OneToOne(h, P, T)
    BY <1>4, <1>5, Zenon DEF OneToOne
  <2> QED
    BY <1>1, <1>6, <2>1, SameCount
<1> QED
  BY <1>7 DEF Sum

\* The cores, as many as core_head is long.
LEMMA CoreCount ==
    ASSUME NEW cores \in Seq(Core), Distinct(cores)
    PROVE  /\ Range(cores) \in SUBSET Core /\ IsFiniteSet(Range(cores))
           /\ Cardinality(Range(cores)) = Len(cores)
<1> PICK n, C : n = Len(cores) /\ C = Range(cores)
  OBVIOUS
<1>1. /\ n \in Nat /\ DOMAIN cores = 1..n /\ cores \in [1..n -> Core]
      /\ \A i \in 1..n : cores[i] \in Core
  OBVIOUS
<1>2. IsFiniteSet(1..n) /\ Cardinality(1..n) = n
  <2>1. 1 \in Int /\ n \in Int
    BY <1>1
  <2>2. IsFiniteSet(1..n) /\ Cardinality(1..n) = IF 1 > n THEN 0 ELSE n - 1 + 1
    BY <2>1, FS_Interval, Zenon
  <2> QED
    BY <1>1, <2>2
<1>3. \A c : c \in C <=> \E i \in 1..n : cores[i] = c
  BY <1>1 DEF Range
<1>4. \A i, j \in 1..n : cores[i] = cores[j] => i = j
  BY <1>1 DEF Distinct
<1>5. IsFiniteSet(C) /\ Cardinality(C) = Cardinality(1..n)
  <2>1. OneToOne(cores, 1..n, C)
    BY <1>3, <1>4, Zenon DEF OneToOne
  <2> QED
    BY <1>1, <1>2, <2>1, SameCount
<1> QED
  BY <1>1, <1>2, <1>3, <1>5

\* A unit of a block that reaches into core c is c's, and not its header.
LEMMA OfCore ==
    ASSUME NEW C, NEW s, Tiles(s, C), NEW c \in C, NEW b \in DOMAIN s, NEW u \in Nat,
           Covers(s, b, u), c.at <= u, u < c.at + c.units
    PROVE  c.at < b /\ b + s[b] <= c.at + c.units
<1>1. b # Base /\ b \in Nat /\ s[b] \in Nat
  <2>1. b \in Nat /\ s[b] \in Nat /\ s[Base] = 0
    BY DEF Tiles, Sizes, BlockOf
  <2> QED
    BY <2>1 DEF Covers
<1>2. PICK d \in C : d.at < b /\ b + s[b] <= d.at + d.units
  BY <1>1 DEF Tiles, InCores, Inside, BlockOf
<1>3. /\ c.at \in Nat /\ c.units \in Nat /\ d.at \in Nat /\ d.units \in Nat
      /\ c = d \/ c.at + c.units < d.at \/ d.at + d.units < c.at
  <2>1. CoresApart(C)
    BY DEF Tiles
  <2> QED
    BY <2>1, CoreIs
<1>4. b <= u /\ u < b + s[b]
  BY DEF Covers
<1>5. c = d
  BY <1>1, <1>2, <1>3, <1>4
<1> QED
  BY <1>2, <1>5

\* The blocks of one core.
LEMMA CoreTiled ==
    ASSUME NEW k, NEW H, Good(k, H), NEW c \in Range(k.core_head), NEW B,
           B = {b \in DOMAIN k.size : b >= c.at /\ b < c.at + c.units}
    PROVE  /\ \A u : (u \in Nat /\ \E b \in B : b <= u /\ u < b + k.size[b])
                     <=> u \in c.at + 1 .. c.at + c.units - 1
           /\ SizeOf(k, B) = c.units - 1
<1> PICK s, C, D : s = k.size /\ C = Range(k.core_head) /\ D = DOMAIN k.size
  OBVIOUS
<1>1. /\ Tiles(s, C) /\ D \in SUBSET Nat /\ IsFiniteSet(D) /\ \A b \in D : b \in Nat /\ s[b] \in Nat
      /\ \A b \in D : b # Base => s[b] > 0
      /\ \A a, b \in D : a < b => a + s[a] <= b
  BY GoodIs DEF Good
<1>2. c.at \in Nat /\ c.units \in Nat /\ c.units > 0 /\ (c.at + c.units < Base \/ c.at > Base + 2)
  <2>1. c \in Core
    BY CoreCount DEF Good
  <2>2. c.at + c.units < Base \/ c.at > Base + 2
    BY <1>1, CoreIs DEF Tiles
  <2> QED
    BY <2>1, <2>2 DEF Core
<1>3. B \in SUBSET D /\ IsFiniteSet(B)
  BY <1>1, FS_Subset
<1>4. ASSUME NEW b \in B PROVE b # Base /\ c.at < b /\ b + s[b] <= c.at + c.units
  <2>1. b \in D /\ b \in Nat /\ b >= c.at /\ b < c.at + c.units
    BY <1>1
  <2>2. b # Base
    BY <1>2, <2>1, KallocAssumption
  <2>3. Covers(s, b, b)
    BY <1>1, <2>1, <2>2 DEF Covers
  <2> QED
    BY <1>1, <2>1, <2>2, <2>3, OfCore
<1>5. ASSUME NEW u PROVE (u \in Nat /\ \E b \in B : b <= u /\ u < b + s[b])
                         <=> u \in c.at + 1 .. c.at + c.units - 1
  <2>1. ASSUME u \in Nat, NEW b \in B, b <= u, u < b + s[b]
        PROVE  u \in c.at + 1 .. c.at + c.units - 1
    BY <1>1, <1>2, <1>3, <1>4, <2>1
  <2>2. ASSUME u \in c.at + 1 .. c.at + c.units - 1
        PROVE  u \in Nat /\ \E b \in B : b <= u /\ u < b + s[b]
    <3>1. u \in Nat /\ c.at < u /\ u < c.at + c.units
      BY <1>2, <2>2
    <3>2. PICK b \in D : Covers(s, b, u)
      BY <1>1, <3>1 DEF Tiles, Tiled
    <3>3. c.at < b /\ b + s[b] <= c.at + c.units
      <4>1. c.at <= u /\ D = DOMAIN s
        BY <1>2, <3>1
      <4> QED
        BY <1>1, <3>1, <3>2, <4>1, OfCore
    <3>4. b \in Nat /\ b <= u /\ u < b + s[b]
      BY <1>1, <3>2 DEF Covers
    <3>5. b \in B
      BY <1>2, <3>1, <3>3, <3>4
    <3> QED
      BY <3>1, <3>4, <3>5
  <2> QED
    BY <2>1, <2>2
<1>6. PICK g : g = [b \in B |-> b]
  OBVIOUS
<1>7. /\ IsFiniteSet(Spread(s, g, B)) /\ Cardinality(Spread(s, g, B)) = Sum(s, B)
  <2>1. \A b \in B : g[b] = b /\ s[b] \in Nat /\ g[b] \in Nat
    BY <1>1, <1>3, <1>6
  <2>2. \A x, y \in B : x = y \/ g[x] + s[x] <= g[y] \/ g[y] + s[y] <= g[x]
    <3>1. \A x, y \in B : x \in D /\ y \in D /\ x \in Nat /\ y \in Nat
      BY <1>1, <1>3
    <3> QED
      BY <1>1, <2>1, <3>1
  <2> QED
    BY <1>3, <2>1, <2>2, SpreadSum
<1>8. Spread(s, g, B) = c.at + 1 .. c.at + c.units - 1
  <2>1. \A u : u \in Spread(s, g, B) <=> u \in Nat /\ \E b \in B : b <= u /\ u < b + s[b]
    BY <1>6 DEF Spread
  <2> QED
    BY <1>5, <2>1
<1>9. Cardinality(c.at + 1 .. c.at + c.units - 1) = c.units - 1
  <2>1. PICK x, y : x = c.at + 1 /\ y = c.at + c.units - 1
    OBVIOUS
  <2>2. x \in Int /\ y \in Int
    BY <1>2, <2>1
  <2>3. Cardinality(x..y) = IF x > y THEN 0 ELSE y - x + 1
    BY <2>2, FS_Interval, Zenon
  <2> QED
    BY <1>2, <2>1, <2>3
<1>10. SumFunctionOnSet(s, B) = Sum(s, B)
  BY <1>1, <1>3, SumOnSet
<1> QED
  BY <1>5, <1>7, <1>8, <1>9, <1>10 DEF SizeOf

\* The units of the cores are those of the blocks, and a header in each core.
Own(s) == [b \in DOMAIN s |-> b]
At(C) == [c \in C |-> c.at]
Headers(C) == {c.at : c \in C}

Filled(s, C) ==
    /\ Spread(UnitsOf(C), At(C), C) = Spread(s, Own(s), DOMAIN s) \union Headers(C)
    /\ Spread(s, Own(s), DOMAIN s) \cap Headers(C) = {}

LEMMA UnitsAre ==
    ASSUME NEW k, NEW H, Good(k, H)
    PROVE  Filled(k.size, Range(k.core_head))
<1> PICK s, C, own, at, heads : /\ s = k.size /\ C = Range(k.core_head)
                                /\ own = Own(s) /\ at = At(C) /\ heads = Headers(C)
  OBVIOUS
<1>0. /\ own = [b \in DOMAIN s |-> b] /\ at = [c \in C |-> c.at]
      /\ \A u : u \in heads <=> \E c \in C : at[c] = u
  BY DEF Own, At, Headers
<1>1. Tiles(s, C) /\ \A b \in DOMAIN s : b \in Nat /\ s[b] \in Nat /\ own[b] = b
  <2>1. Tiles(s, C)
    BY DEF Good
  <2>2. \A b \in DOMAIN s : b \in Nat /\ s[b] \in Nat
    BY GoodIs
  <2> QED
    BY <1>0, <2>1, <2>2
<1>2. \A c \in C : /\ at[c] = c.at /\ UnitsOf(C)[c] = c.units /\ c.at \in Nat /\ c.units \in Nat
                   /\ c.units > 0
  <2>1. \A c \in C : c \in Core
    BY CoreCount DEF Good
  <2> QED
    BY <1>0, <2>1 DEF UnitsOf, Core
<1>3. \A u : u \in Spread(s, own, DOMAIN s) <=> u \in Nat /\ \E b \in DOMAIN s : Covers(s, b, u)
  <2>1. \A u : u \in Spread(s, own, DOMAIN s)
                <=> u \in Nat /\ \E b \in DOMAIN s : own[b] <= u /\ u < own[b] + s[b]
    BY DEF Spread
  <2> QED
    BY <1>1, <2>1 DEF Covers
<1>4. \A u : u \in Spread(UnitsOf(C), at, C)
              <=> u \in Nat /\ \E c \in C : c.at <= u /\ u < c.at + c.units
  <2>1. \A u : u \in Spread(UnitsOf(C), at, C)
                <=> u \in Nat /\ \E c \in C : at[c] <= u /\ u < at[c] + UnitsOf(C)[c]
    BY DEF Spread
  <2> QED
    BY <1>2, <2>1
<1>5. \A u : u \in heads <=> \E c \in C : c.at = u
  BY <1>0, <1>2
<1>6. ASSUME NEW c \in C, NEW u \in Nat, c.at <= u, u < c.at + c.units
      PROVE  c.at = u \/ \E b \in DOMAIN s : Covers(s, b, u)
  <2>1. c.at = u \/ c.at < u
    BY <1>2, <1>6
  <2> QED
    BY <1>1, <1>6, <2>1 DEF Tiles, Tiled
<1>7. ASSUME NEW b \in DOMAIN s, NEW u \in Nat, Covers(s, b, u)
      PROVE  \E c \in C : c.at <= u /\ u < c.at + c.units
  <2>1. b # Base /\ b <= u /\ u < b + s[b]
    BY <1>1, <1>7 DEF Tiles, Sizes, Covers
  <2>2. PICK c \in C : c.at < b /\ b + s[b] <= c.at + c.units
    BY <1>1, <2>1 DEF Tiles, InCores, Inside, BlockOf
  <2>3. c.at <= u /\ u < c.at + c.units
    <3>1. b \in Nat /\ s[b] \in Nat /\ c.at \in Nat /\ c.units \in Nat
      BY <1>1, <1>2
    <3> QED
      BY ONLY <2>1, <2>2, <3>1, u \in Nat
  <2> QED
    BY <2>3
<1>8. ASSUME NEW b \in DOMAIN s, NEW c \in C, NEW u \in Nat, Covers(s, b, u), c.at = u PROVE FALSE
  <2>1. c.at <= u /\ u < c.at + c.units
    BY <1>2, <1>8
  <2>2. c.at < b
    BY <1>1, <1>8, <2>1, OfCore
  <2> QED
    BY <1>1, <1>2, <1>8, <2>2 DEF Covers
<1>9. \A c \in C : c.at <= c.at /\ c.at < c.at + c.units
  BY <1>2
<1>10. ASSUME NEW u
       PROVE  u \in Spread(UnitsOf(C), at, C) <=> u \in Spread(s, own, DOMAIN s) \/ u \in heads
  <2>1. ASSUME u \in Spread(UnitsOf(C), at, C)
        PROVE  u \in Spread(s, own, DOMAIN s) \/ u \in heads
    BY <1>3, <1>4, <1>5, <1>6, <2>1
  <2>2. ASSUME u \in Spread(s, own, DOMAIN s) PROVE u \in Spread(UnitsOf(C), at, C)
    BY <1>3, <1>4, <1>7, <2>2
  <2>3. ASSUME u \in heads PROVE u \in Spread(UnitsOf(C), at, C)
    BY <1>2, <1>4, <1>5, <1>9, <2>3
  <2> QED
    BY <2>1, <2>2, <2>3
<1>11. ASSUME NEW u, u \in Spread(s, own, DOMAIN s), u \in heads PROVE FALSE
  BY <1>3, <1>5, <1>8, <1>11
<1>12. /\ Spread(UnitsOf(C), at, C) = Spread(s, own, DOMAIN s) \union heads
       /\ Spread(s, own, DOMAIN s) \cap heads = {}
  BY <1>10, <1>11
<1> QED
  BY <1>12 DEF Filled

LEMMA StatIs ==
    ASSUME NEW k, NEW H, Good(k, H)
    PROVE  MapThenSumSet(LAMBDA c : c.units, Range(k.core_head))
             = SizeOf(k, ring(k)) + SizeOf(k, H) + Len(k.core_head)
<1> PICK s, C, F, D : s = k.size /\ C = Range(k.core_head) /\ F = DOMAIN k.ptr /\ D = DOMAIN s
  OBVIOUS
<1>1. /\ D \in SUBSET Nat /\ IsFiniteSet(D) /\ \A b \in D : b \in Nat /\ s[b] \in Nat
      /\ \A a, b \in D : a < b => a + s[a] <= b
  BY GoodIs
<1>2. D = F \union H /\ F \cap H = {} /\ ring(k) = F /\ CoresApart(C)
  BY RingIs DEF Good, Tiles
<1>3. IsFiniteSet(F) /\ IsFiniteSet(H)
  <2>1. F \in SUBSET D /\ H \in SUBSET D
    BY <1>2
  <2> QED
    BY <1>1, <2>1, FS_Subset
<1>4. C \in SUBSET Core /\ IsFiniteSet(C) /\ Cardinality(C) = Len(k.core_head)
  BY CoreCount DEF Good
<1>5. SizeOf(k, ring(k)) = Sum(s, F) /\ SizeOf(k, H) = Sum(s, H)
  <2>1. (\A b \in F : s[b] \in Nat) /\ \A b \in H : s[b] \in Nat
    BY <1>1, <1>2
  <2> QED
    BY <1>2, <1>3, <2>1, SumOnSet DEF SizeOf
<1>6. Sum(s, D) = Sum(s, F) + Sum(s, H)
  <2>1. \A b \in F \union H : s[b] \in Nat
    BY <1>1, <1>2
  <2>2. Sum(s, F \union H) = Sum(s, F) + Sum(s, H)
    BY <1>2, <1>3, <2>1, SumPlus
  <2> QED
    BY <1>2, <2>2
<1>7. PICK own, at, heads : own = Own(s) /\ at = At(C) /\ heads = Headers(C)
  OBVIOUS
<1>17. /\ own = [b \in D |-> b] /\ at = [c \in C |-> c.at]
       /\ heads = {c.at : c \in C}
  BY <1>7 DEF Own, At, Headers
<1>8. IsFiniteSet(Spread(s, own, D)) /\ Cardinality(Spread(s, own, D)) = Sum(s, D)
  <2>1. \A b \in D : s[b] \in Nat /\ own[b] \in Nat
    BY <1>1, <1>17
  <2>2. \A x, y \in D : x = y \/ own[x] + s[x] <= own[y] \/ own[y] + s[y] <= own[x]
    BY <1>1, <1>17
  <2> QED
    BY <1>1, <2>1, <2>2, SpreadSum
<1>9. \A c \in C : /\ at[c] = c.at /\ UnitsOf(C)[c] = c.units /\ c.at \in Nat /\ c.units \in Nat
  BY <1>4, <1>17 DEF UnitsOf, Core
<1>10. \A c, d \in C : c = d \/ c.at + c.units < d.at \/ d.at + d.units < c.at
  BY <1>2, CoreIs
<1>11. /\ IsFiniteSet(Spread(UnitsOf(C), at, C))
       /\ Cardinality(Spread(UnitsOf(C), at, C)) = Sum(UnitsOf(C), C)
  <2> PICK f : f = UnitsOf(C)
    OBVIOUS
  <2>1. \A c \in C : f[c] \in Nat /\ at[c] \in Nat
    BY <1>9
  <2>2. \A x, y \in C : x = y \/ at[x] + f[x] <= at[y] \/ at[y] + f[y] <= at[x]
    BY <1>9, <1>10
  <2> QED
    BY <1>4, <2>1, <2>2, SpreadSum
<1>12. IsFiniteSet(heads) /\ Cardinality(heads) = Cardinality(C)
  <2>1. at \in [C -> Nat]
    BY <1>17, <1>9
  <2>2. \A x, y \in C : at[x] = at[y] => x = y
    BY <1>9, <1>10
  <2>3. \A u : u \in heads <=> \E c \in C : at[c] = u
    BY <1>17
  <2>4. OneToOne(at, C, heads)
    BY <2>2, <2>3, Zenon DEF OneToOne
  <2> QED
    BY <1>4, <2>1, <2>4, SameCount
<1>13. /\ Spread(UnitsOf(C), at, C) = Spread(s, own, D) \union heads
       /\ Spread(s, own, D) \cap heads = {}
  <2>1. Filled(s, C)
    BY UnitsAre
  <2> QED
    BY <1>7, <2>1 DEF Filled
<1>14. Cardinality(Spread(s, own, D) \union heads) = Cardinality(Spread(s, own, D)) + Cardinality(heads)
  <2>1. Cardinality(Spread(s, own, D) \cap heads) = 0
    BY <1>13, FS_EmptySet
  <2>2. Cardinality(Spread(s, own, D)) \in Nat /\ Cardinality(heads) \in Nat
    BY <1>8, <1>12, FS_CardinalityType
  <2>3. Cardinality(Spread(s, own, D) \union heads) =
          Cardinality(Spread(s, own, D)) + Cardinality(heads) - Cardinality(Spread(s, own, D) \cap heads)
    BY <1>8, <1>12, FS_Union
  <2> QED
    BY <2>1, <2>2, <2>3
<1>15. MapThenSumSet(LAMBDA c : c.units, C) = Sum(UnitsOf(C), C)
  BY <1>4, UnitsSum
<1>16. Sum(UnitsOf(C), C) = Sum(s, F) + Sum(s, H) + Len(k.core_head)
  BY <1>4, <1>6, <1>8, <1>11, <1>12, <1>13, <1>14
<1> QED
  BY <1>5, <1>15, <1>16

LEMMA NothingSums == \A f : SumFunctionOnSet(f, {}) = 0 /\ Sum(f, {}) = 0
<1> TAKE f
<1>1. IsFiniteSet({}) /\ \A x \in {} : f[x] \in Nat
  BY FS_EmptySet
<1>2. Sum(f, {}) = 0
  BY <1>1, SumParts
<1> QED
  BY <1>1, <1>2, SumOnSet

LEMMA SoundTiles == Sound => BlocksTileCores
<1> SUFFICES ASSUME Sound PROVE BlocksTileCores
  OBVIOUS
<1>1. status = "destroyed" => heap = {}
  BY DEF Sound
<1>2. ASSUME Good(km, held), status = "open", NEW c \in heap,
             NEW B, B = {b \in DOMAIN km.size : b >= c.at /\ b < c.at + c.units}
      PROVE  /\ UNION {Units(b) : b \in B} = c.at + 1 .. c.at + c.units - 1
             /\ SizeOf(km, B) = c.units - 1
  <2>1. c \in Range(km.core_head)
    BY <1>2 DEF Sound
  <2>2. /\ \A u : (u \in Nat /\ \E b \in B : b <= u /\ u < b + km.size[b])
                   <=> u \in c.at + 1 .. c.at + c.units - 1
        /\ SizeOf(km, B) = c.units - 1
    BY <1>2, <2>1, CoreTiled
  <2>3. \A b \in B : b \in Nat /\ km.size[b] \in Nat
    BY <1>2, GoodIs
  <2>4. ASSUME NEW u PROVE u \in UNION {Units(b) : b \in B}
                            <=> u \in Nat /\ \E b \in B : b <= u /\ u < b + km.size[b]
    <3>1. ASSUME NEW b \in B PROVE u \in Units(b) <=> u \in Nat /\ b <= u /\ u < b + km.size[b]
      BY <2>3 DEF Units
    <3> QED
      BY <3>1
  <2> QED
    BY <2>2, <2>4
<1>3. ASSUME Good(km, held), status = "open"
      PROVE  km_stat(km).capacity = km_stat(km).available + SizeOf(km, held) + km_stat(km).n_cores
  BY <1>3, StatIs DEF km_stat
<1>4. ASSUME Fresh(km), held = {}, status = "open"
      PROVE  heap = {} /\ km_stat(km).capacity = km_stat(km).available + SizeOf(km, held) + km_stat(km).n_cores
  <2>1. /\ km.core_head = <<>> /\ ring(km) = {} /\ Range(km.core_head) = {}
        /\ Len(km.core_head) = 0
    BY <1>4 DEF Fresh, ring, Range
  <2>2. heap = {}
    BY <1>4, <2>1 DEF Sound
  <2>3. SizeOf(km, ring(km)) = 0 /\ SizeOf(km, held) = 0
    BY <1>4, <2>1, NothingSums DEF SizeOf
  <2>4. MapThenSumSet(LAMBDA c : c.units, Range(km.core_head)) = 0
    <3>1. PICK C : C = Range(km.core_head)
      OBVIOUS
    <3>2. C \in SUBSET Core /\ IsFiniteSet(C) /\ C = {}
      BY <2>1, <3>1, FS_EmptySet
    <3>3. MapThenSumSet(LAMBDA c : c.units, C) = Sum(UnitsOf(C), C)
      BY <3>2, UnitsSum
    <3>4. Sum(UnitsOf(C), C) = 0
      BY <3>2, NothingSums
    <3> QED
      BY <3>1, <3>3, <3>4
  <2> QED
    BY <2>1, <2>2, <2>3, <2>4 DEF km_stat
<1>5. ASSUME status = "open"
      PROVE  /\ \A c \in heap :
                  LET blocks == {b \in DOMAIN km.size : b >= c.at /\ b < c.at + c.units} IN
                  /\ UNION {Units(b) : b \in blocks} = c.at + 1 .. c.at + c.units - 1
                  /\ SizeOf(km, blocks) = c.units - 1
             /\ km_stat(km).capacity
                  = km_stat(km).available + SizeOf(km, held) + km_stat(km).n_cores
  <2>1. CASE Good(km, held)
    BY <1>2, <1>3, <1>5, <2>1
  <2>2. CASE Fresh(km) /\ held = {}
    BY <1>4, <1>5, <2>2
  <2> QED
    BY <2>1, <2>2 DEF Sound
<1> QED
  BY <1>1, <1>5 DEF BlocksTileCores

-----------------------------------------------------------------------------
(* The theorems. *)

\* The state has its shape, and no block is both free and a client's.
THEOREM TypeCorrect == Spec => []TypeOK
  BY Soundness, SoundTypes, PTL

\* Whatever is freed in whatever order, wherever malloc places cores, the free
\* list is one ring in address order, and kfree leaves no two free neighbours.
THEOREM RingStaysInOrder == Spec => []RingInOrder
  BY Soundness, SoundRing, PTL

\* Neither kfree nor km_stat ever finds a block that runs into the next.
THEOREM PanicsNever == Spec => []NeverPanics
  BY Soundness, SoundNoPanic, PTL

\* A block is as large as the client was told, after every krealloc as well.
THEOREM BytesFit == Spec => []RequestFits
<1>1. Sound => RequestFits
  BY DEF Sound, Fits, RequestFits, held
<1> QED
  BY <1>1, Soundness, PTL

\* No unit of a core is lost or handed out twice, whatever is carved, merged or
\* moved; what km_stat counts and what the clients hold make up the cores, and
\* km_destroy gives every core back to malloc.
THEOREM UnitsAccounted == Spec => []BlocksTileCores
  BY Soundness, SoundTiles, PTL
=============================================================================
