--------------------------- MODULE Lemmas_proofs ---------------------------
(***************************************************************************)
(* What the proofs about several components share.  Threaded lists: what   *)
(* taking the head, putting a chunk in front and cutting after the chunk a *)
(* walk has reached do to the set of chunks a list has.  Numbers: steps    *)
(* computed one after another, powers of two.  Sums over finite sets, as   *)
(* the folds of the library compute them.                                  *)
(***************************************************************************)
EXTENDS FreeList, FiniteSetTheorems, WellFoundedInduction, TLAPS

-----------------------------------------------------------------------------
(* Lists. *)

\* An empty list is the list of no chunks.
LEMMA EmptyList ==
    ASSUME NEW F, NEW links, Null \notin F, IsListOf(Nat, F, Null, links)
    PROVE  F = {}
<1>1. PICK n \in Nat : \E s \in [1..n -> F] : Lists(n, s, F, Null, links)
  BY DEF IsListOf
<1>2. PICK s \in [1..n -> F] : Lists(n, s, F, Null, links)
  BY <1>1
<1>3. n = 0
  <2> SUFFICES ASSUME n # 0 PROVE FALSE
    OBVIOUS
  <2>1. s[1] \in F /\ s[1] = Null
    BY <1>2 DEF Lists
  <2> QED
    BY <2>1
<1> QED
  BY <1>2, <1>3 DEF Lists

\* Taking the head out of a list leaves the list of the other chunks.
LEMMA PopList ==
    ASSUME NEW C, NEW R, NEW F \in SUBSET C, NEW head, NEW links \in [C -> R],
           head # Null, IsListOf(Nat, F, head, links)
    PROVE  /\ head \in F
           /\ IsListOf(Nat, F \ {head}, links[head], [links EXCEPT ![head] = Null])
<1>a. PICK n \in Nat : \E s \in [1..n -> F] : Lists(n, s, F, head, links)
  BY DEF IsListOf
<1>b. PICK s \in [1..n -> F] : Lists(n, s, F, head, links)
  BY <1>a
<1> DEFINE m == n - 1
           t == [i \in 1..m |-> s[i + 1]]
<1> USE <1>b DEF Lists
<1>1. n # 0 /\ m \in Nat
  OBVIOUS
<1>2. \A i \in 1..m : i + 1 \in 1..n /\ i + 1 # 1 /\ t[i] = s[i + 1]
  BY <1>1
<1>3. head = s[1] /\ 1 \in 1..n
  BY <1>1
<1>4. t \in [1..m -> F \ {head}]
  BY <1>2, <1>3
<1>5. links[head] = IF m = 0 THEN Null ELSE t[1]
  BY <1>1, <1>2, <1>3
<1>6. ASSUME NEW i \in 1..m
      PROVE  [links EXCEPT ![head] = Null][t[i]] = IF i = m THEN Null ELSE t[i + 1]
  <2>1. t[i] \in C /\ t[i] # head
    BY <1>4
  <2>2. links[t[i]] = IF i + 1 = n THEN Null ELSE s[(i + 1) + 1]
    BY <1>2
  <2>3. CASE i = m
    BY <2>1, <2>2, <2>3
  <2>4. CASE i # m
    <3>1. i + 1 \in 1..m /\ t[i + 1] = s[(i + 1) + 1] /\ i + 1 # n
      BY <2>4, <1>1
    <3> QED
      BY <2>1, <2>2, <2>4, <3>1
  <2> QED
    BY <2>3, <2>4
<1>7. \A i, j \in 1..m : t[i] = t[j] => i = j
  BY <1>2
<1>8. ASSUME NEW c \in F \ {head} PROVE \E i \in 1..m : t[i] = c
  <2>1. PICK k \in 1..n : s[k] = c
    OBVIOUS
  <2>2. k # 1 /\ k - 1 \in 1..m /\ t[k - 1] = s[k]
    BY <2>1, <1>3
  <2> QED
    BY <2>1, <2>2
<1>9. Lists(m, t, F \ {head}, links[head], [links EXCEPT ![head] = Null])
  BY <1>5, <1>6, <1>7, <1>8
<1>10. head \in F
  BY <1>3
<1> HIDE DEF Lists, m, t
<1> QED
  BY <1>1, <1>4, <1>9, <1>10 DEF IsListOf

\* A list is threaded through its own chunks only: what the other words hold,
\* client data for one, does not matter.
LEMMA SameList ==
    ASSUME NEW F, NEW head, NEW links, NEW after,
           \A c \in F : after[c] = links[c], IsListOf(Nat, F, head, links)
    PROVE  IsListOf(Nat, F, head, after)
<1>1. PICK n \in Nat : \E s \in [1..n -> F] : Lists(n, s, F, head, links)
  BY DEF IsListOf
<1>2. PICK s \in [1..n -> F] : Lists(n, s, F, head, links)
  BY <1>1
<1>3. Lists(n, s, F, head, after)
  BY <1>2 DEF Lists
<1> QED
  BY <1>2, <1>3 DEF IsListOf

\* A list starts at one of its chunks, or has none.
LEMMA ListHead ==
    ASSUME NEW F, NEW head, NEW links, IsListOf(Nat, F, head, links)
    PROVE  head \in F \union {Null}
<1>1. PICK n \in Nat : \E s \in [1..n -> F] : Lists(n, s, F, head, links)
  BY DEF IsListOf
<1>2. PICK s \in [1..n -> F] : Lists(n, s, F, head, links)
  BY <1>1
<1> QED
  BY <1>2 DEF Lists

\* Taking the head out of a list, its word left as it is.
LEMMA TakeHead ==
    ASSUME NEW C, NEW R, NEW F \in SUBSET C, NEW head, NEW links \in [C -> R],
           head # Null, IsListOf(Nat, F, head, links)
    PROVE  /\ head \in F
           /\ IsListOf(Nat, F \ {head}, links[head], links)
           /\ links[head] \in (F \ {head}) \union {Null}
<1>1. /\ head \in F
      /\ IsListOf(Nat, F \ {head}, links[head], [links EXCEPT ![head] = Null])
  BY PopList
<1>2. \A c \in F \ {head} : links[c] = [links EXCEPT ![head] = Null][c]
  OBVIOUS
<1>3. IsListOf(Nat, F \ {head}, links[head], links)
  BY <1>1, <1>2, SameList
<1> QED
  BY <1>1, <1>3, ListHead

\* Linking a chunk to the head of a list makes the list one longer.
LEMMA PushList ==
    ASSUME NEW C, NEW R, NEW F \in SUBSET C, NEW head, NEW links \in [C -> R],
           NEW c \in C \ F, IsListOf(Nat, F, head, links)
    PROVE  IsListOf(Nat, F \union {c}, c, [links EXCEPT ![c] = head])
<1>a. PICK n \in Nat : \E s \in [1..n -> F] : Lists(n, s, F, head, links)
  BY DEF IsListOf
<1>b. PICK s \in [1..n -> F] : Lists(n, s, F, head, links)
  BY <1>a
<1> DEFINE m == n + 1
           t == [i \in 1..m |-> IF i = 1 THEN c ELSE s[i - 1]]
           after == [links EXCEPT ![c] = head]
<1> USE <1>b DEF Lists
<1>1. \A i \in 1..m : i # 1 => i - 1 \in 1..n /\ t[i] = s[i - 1] /\ t[i] \in F
  OBVIOUS
<1>2. t[1] = c /\ 1 \in 1..m
  OBVIOUS
<1>3. t \in [1..m -> F \union {c}]
  BY <1>1, <1>2
<1>4. ASSUME NEW i \in 1..m
      PROVE  after[t[i]] = IF i = m THEN Null ELSE t[i + 1]
  <2>1. CASE i = 1
    <3>1. after[t[i]] = head
      BY <2>1, <1>2
    <3>2. CASE n = 0
      BY <2>1, <3>1, <3>2
    <3>3. CASE n # 0
      BY <2>1, <3>1, <3>3, <1>1
    <3> QED
      BY <3>2, <3>3
  <2>2. CASE i # 1
    <3>1. t[i] = s[i - 1] /\ t[i] # c /\ t[i] \in C /\ i - 1 \in 1..n
      BY <2>2, <1>1
    <3>2. after[t[i]] = IF i - 1 = n THEN Null ELSE s[(i - 1) + 1]
      BY <3>1
    <3> QED
      BY <3>2, <2>2, <1>1
  <2> QED
    BY <2>1, <2>2
<1>5. \A i, j \in 1..m : t[i] = t[j] => i = j
  BY <1>1, <1>2
<1>6. ASSUME NEW d \in F \union {c} PROVE \E i \in 1..m : t[i] = d
  <2>1. CASE d = c
    BY <2>1, <1>2
  <2>2. CASE d # c
    <3>1. PICK k \in 1..n : s[k] = d
      BY <2>2
    <3>2. k + 1 \in 1..m /\ t[k + 1] = s[k]
      OBVIOUS
    <3> QED
      BY <3>1, <3>2
  <2> QED
    BY <2>1, <2>2
<1>7. Lists(m, t, F \union {c}, c, after)
  BY <1>2, <1>4, <1>5, <1>6
<1>8. m \in Nat
  OBVIOUS
<1> HIDE DEF Lists, m, t
<1> QED
  BY <1>3, <1>7, <1>8 DEF IsListOf

\* The length of a list of the chunks of F is the number of them.
LEMMA ListCardinality ==
    ASSUME NEW F, NEW head, NEW links, IsListOf(Nat, F, head, links)
    PROVE  IsListOf({Cardinality(F)}, F, head, links)
<1>1. PICK n \in Nat : \E s \in [1..n -> F] : Lists(n, s, F, head, links)
  BY DEF IsListOf
<1>2. PICK s \in [1..n -> F] : Lists(n, s, F, head, links)
  BY <1>1
<1>3. s \in Bijection(1..n, F)
  BY <1>2 DEF Lists, Bijection, Injection, Surjection, IsInjective
<1>4. Cardinality(F) = n
  BY <1>3, FS_CountingElements DEF ExistsBijection
<1> QED
  BY <1>2, <1>4 DEF IsListOf

-----------------------------------------------------------------------------
(* Walks along a list that unlink chunks on their way. *)

\* b is where a walk is that has passed j chunks: at the next one, or at the end.
IsAt(F, head, links, j, b) ==
    \E n \in Nat : \E s \in [1..n -> F] :
        /\ Lists(n, s, F, head, links)
        /\ j \in 0..n /\ b = IF j = n THEN Null ELSE s[j + 1]

\* A walk begins at the head.
LEMMA WalkStarts ==
    ASSUME NEW F, NEW head, NEW links, IsListOf(Nat, F, head, links)
    PROVE  IsAt(F, head, links, 0, head)
<1>1. PICK n \in Nat : \E s \in [1..n -> F] : Lists(n, s, F, head, links)
  BY DEF IsListOf
<1>2. PICK s \in [1..n -> F] : Lists(n, s, F, head, links)
  BY <1>1
<1>3. 0 \in 0..n /\ head = IF 0 = n THEN Null ELSE s[0 + 1]
  BY <1>2 DEF Lists
<1> QED
  BY <1>2, <1>3 DEF IsAt

\* It is at a chunk of the list or at the end, and it has passed all when it is at
\* the end, all but one when it is at the last.
LEMMA EndOfWalk ==
    ASSUME NEW F, NEW head, NEW links, NEW j, NEW b, Null \notin F,
           IsAt(F, head, links, j, b)
    PROVE  /\ IsListOf(Nat, F, head, links)
           /\ b \in F \union {Null}
           /\ b = Null => Cardinality(F) = j
           /\ b # Null /\ links[b] = Null => Cardinality(F) = j + 1
<1>1. PICK n \in Nat : \E s \in [1..n -> F] :
        /\ Lists(n, s, F, head, links)
        /\ j \in 0..n /\ b = IF j = n THEN Null ELSE s[j + 1]
  BY DEF IsAt
<1>2. PICK s \in [1..n -> F] :
        /\ Lists(n, s, F, head, links)
        /\ j \in 0..n /\ b = IF j = n THEN Null ELSE s[j + 1]
  BY <1>1
<1>3. IsListOf(Nat, F, head, links)
  BY <1>2 DEF IsListOf
<1>4. Cardinality(F) = n
  <2>1. s \in Bijection(1..n, F)
    BY <1>2 DEF Lists, Bijection, Injection, Surjection, IsInjective
  <2> QED
    BY <2>1, FS_CountingElements DEF ExistsBijection
<1>5. CASE j = n
  BY <1>2, <1>3, <1>4, <1>5
<1>6. CASE j # n
  <2>1. j + 1 \in 1..n /\ b = s[j + 1] /\ b \in F
    BY <1>2, <1>6
  <2>2. links[b] = IF j + 1 = n THEN Null ELSE s[(j + 1) + 1]
    BY <1>2, <2>1 DEF Lists
  <2>3. j + 1 # n => s[(j + 1) + 1] \in F
    BY <2>1
  <2> QED
    BY <1>3, <1>4, <2>1, <2>2, <2>3
<1> QED
  BY <1>5, <1>6

\* The chunk after the one the walk is at is unlinked, and the walk goes on behind it.
LEMMA UnlinkNext ==
    ASSUME NEW C, NEW R, NEW F \in SUBSET C, NEW head, NEW links \in [C -> R], NEW j, NEW b,
           Null \notin F, IsAt(F, head, links, j, b), b # Null, links[b] # Null
    PROVE  /\ links[b] \in F /\ b \in F
           /\ IsAt(F \ {links[b]}, head, [links EXCEPT ![b] = links[links[b]]],
                   j + 1, links[links[b]])
<1>1. PICK n \in Nat : \E s \in [1..n -> F] :
        /\ Lists(n, s, F, head, links)
        /\ j \in 0..n /\ b = IF j = n THEN Null ELSE s[j + 1]
  BY DEF IsAt
<1>2. PICK s \in [1..n -> F] :
        /\ Lists(n, s, F, head, links)
        /\ j \in 0..n /\ b = IF j = n THEN Null ELSE s[j + 1]
  BY <1>1
<1>0. PICK d, e, k : d = links[b] /\ e = links[d] /\ k = j + 1
  OBVIOUS
<1>3. /\ k \in 1..n /\ b = s[k] /\ b \in F /\ k # n /\ k + 1 \in 1..n
      /\ d = s[k + 1] /\ d \in F /\ d # b
      /\ e = IF k + 1 = n THEN Null ELSE s[(k + 1) + 1]
  <2>1. k \in 1..n /\ b = s[k]
    BY <1>2, <1>0
  <2>2. links[s[k]] = IF k = n THEN Null ELSE s[k + 1]
    BY <1>2, <2>1 DEF Lists
  <2>3. k # n /\ k + 1 \in 1..n /\ d = s[k + 1]
    BY <1>0, <2>1, <2>2
  <2>4. links[s[k + 1]] = IF k + 1 = n THEN Null ELSE s[(k + 1) + 1]
    BY <1>2, <2>3 DEF Lists
  <2>5. s[k + 1] # s[k]
    BY <1>2, <2>1, <2>3 DEF Lists
  <2> QED
    BY <1>0, <2>1, <2>3, <2>4, <2>5
<1> DEFINE m == n - 1
           t == [i \in 1..m |-> IF i <= k THEN s[i] ELSE s[i + 1]]
           after == [links EXCEPT ![b] = e]
<1>4. m \in Nat /\ k \in 1..m
  BY <1>3
<1>5. ASSUME NEW i \in 1..m PROVE i \in 1..n /\ i + 1 \in 1..n
  BY <1>4
<1>6. \A i, i2 \in 1..n : s[i] = s[i2] => i = i2
  BY <1>2 DEF Lists
<1>7. t \in [1..m -> F \ {d}]
  <2> SUFFICES ASSUME NEW i \in 1..m
               PROVE  (IF i <= k THEN s[i] ELSE s[i + 1]) \in F \ {d}
    OBVIOUS
  <2>1. CASE i <= k
    <3>1. i \in 1..n /\ i # k + 1
      BY <1>3, <1>5, <2>1
    <3> QED
      BY <1>3, <1>6, <2>1, <3>1
  <2>2. CASE ~ (i <= k)
    <3>1. i + 1 \in 1..n /\ i + 1 # k + 1
      BY <1>3, <1>5, <2>2
    <3> QED
      BY <1>3, <1>6, <2>2, <3>1
  <2> QED
    BY <2>1, <2>2
<1>8. head = IF m = 0 THEN Null ELSE t[1]
  BY <1>2, <1>3, <1>4 DEF Lists
<1>9. ASSUME NEW i \in 1..m PROVE after[t[i]] = IF i = m THEN Null ELSE t[i + 1]
  <2>1. CASE i < k
    <3>1. t[i] = s[i] /\ t[i + 1] = s[i + 1] /\ i # m /\ i # n /\ i \in 1..n
      BY <1>3, <1>4, <2>1
    <3>2. s[i] # b /\ s[i] \in C
      BY <1>3, <1>6, <2>1, <3>1
    <3>3. links[s[i]] = s[i + 1]
      BY <1>2, <3>1 DEF Lists
    <3> QED
      BY <3>1, <3>2, <3>3
  <2>2. CASE i = k
    <3>1. t[i] = b /\ after[t[i]] = e
      BY <1>3, <2>2
    <3>2. i = m <=> k + 1 = n
      BY <1>3, <2>2
    <3>3. i # m => t[i + 1] = s[(k + 1) + 1]
      BY <1>3, <1>4, <2>2
    <3> QED
      BY <1>3, <3>1, <3>2, <3>3
  <2>3. CASE i > k
    <3>1. t[i] = s[i + 1] /\ i + 1 \in 1..n /\ i + 1 # k
      BY <1>3, <1>4, <1>5, <2>3
    <3>2. s[i + 1] # b /\ s[i + 1] \in C
      BY <1>3, <1>6, <3>1
    <3>3. links[s[i + 1]] = IF i + 1 = n THEN Null ELSE s[(i + 1) + 1]
      BY <1>2, <3>1 DEF Lists
    <3>4. i # m => t[i + 1] = s[(i + 1) + 1]
      BY <1>3, <1>4, <2>3
    <3>5. i = m <=> i + 1 = n
      BY <1>4
    <3> QED
      BY <3>1, <3>2, <3>3, <3>4, <3>5
  <2> QED
    BY <1>3, <2>1, <2>2, <2>3
<1>10. ASSUME NEW i \in 1..m, NEW i2 \in 1..m, t[i] = t[i2] PROVE i = i2
  <2>1. \A x \in 1..m : \E y \in 1..n : t[x] = s[y] /\ y = IF x <= k THEN x ELSE x + 1
    BY <1>5
  <2> QED
    BY <1>3, <1>6, <1>10, <2>1
<1>11. ASSUME NEW c \in F \ {d} PROVE \E i \in 1..m : t[i] = c
  <2>1. PICK i \in 1..n : s[i] = c
    BY <1>2 DEF Lists
  <2>2. i # k + 1
    BY <1>3, <2>1
  <2>3. CASE i <= k
    BY <1>3, <1>4, <2>1, <2>3
  <2>4. CASE i > k + 1
    <3>1. i - 1 \in 1..m /\ t[i - 1] = s[(i - 1) + 1]
      BY <1>3, <1>4, <2>4
    <3> QED
      BY <2>1, <3>1
  <2> QED
    BY <1>3, <2>2, <2>3, <2>4
<1>12. Lists(m, t, F \ {d}, head, after)
  BY <1>8, <1>9, <1>10, <1>11 DEF Lists
<1>13. k \in 0..m /\ e = IF k = m THEN Null ELSE t[k + 1]
  BY <1>3, <1>4
<1> HIDE DEF m, t, after
<1>14. IsAt(F \ {d}, head, after, k, e)
  BY <1>4, <1>7, <1>12, <1>13 DEF IsAt
<1> QED
  BY <1>0, <1>3, <1>14 DEF after

\* Where a walk is does not depend on words outside the list.
LEMMA SameWalk ==
    ASSUME NEW F, NEW head, NEW links, NEW after, NEW j, NEW b,
           \A c \in F : after[c] = links[c], IsAt(F, head, links, j, b)
    PROVE  IsAt(F, head, after, j, b)
<1>1. PICK n \in Nat : \E s \in [1..n -> F] :
        /\ Lists(n, s, F, head, links)
        /\ j \in 0..n /\ b = IF j = n THEN Null ELSE s[j + 1]
  BY DEF IsAt
<1>2. PICK s \in [1..n -> F] :
        /\ Lists(n, s, F, head, links)
        /\ j \in 0..n /\ b = IF j = n THEN Null ELSE s[j + 1]
  BY <1>1
<1>3. Lists(n, s, F, head, after)
  BY <1>2 DEF Lists
<1> QED
  BY <1>2, <1>3 DEF IsAt

-----------------------------------------------------------------------------
(* Numbers. *)

\* A set of numbers has a least one.
LEMMA Least ==
    ASSUME NEW S \in SUBSET Nat, S # {}
    PROVE  \E e \in S : \A i \in S : e <= i
<1> DEFINE R == OpToRel(<, Nat)
<1>1. IsWellFoundedOn(R, Nat)
  BY NatLessThanWellFounded
<1>2. \A i, j \in Nat : i < j => <<i, j>> \in R
  BY DEF OpToRel
<1>3. PICK x : x \in S
  OBVIOUS
<1> HIDE DEF R
<1>4. PICK e \in S : \A i \in S : <<i, e>> \notin R
  BY <1>1, <1>3, WFMin
<1>5. \A i \in S : ~ (i < e)
  BY <1>2, <1>4
<1> QED
  BY <1>4, <1>5

\* Induction up to N, for a set of numbers.
LEMMA Climb ==
    ASSUME NEW N \in Nat, NEW S, 0 \in S,
           \A n \in 0..N : n < N /\ n \in S => n + 1 \in S
    PROVE  \A n \in 0..N : n \in S
<1> DEFINE Bad == (0..N) \ S
<1> SUFFICES ASSUME Bad # {} PROVE FALSE
  OBVIOUS
<1>1. PICK e \in Bad : \A i \in Bad : e <= i
  <2>1. Bad \in SUBSET Nat
    OBVIOUS
  <2> HIDE DEF Bad
  <2> QED
    BY <2>1, Least
<1>2. e # 0 /\ e \in 0..N /\ e - 1 \in 0..N /\ e - 1 < N /\ e - 1 \notin Bad
  BY <1>1
<1>3. e - 1 \in S
  BY <1>2
<1> QED
  BY <1>2, <1>3, <1>1

\* What a computation by steps computes: the n-th step is a function on D.
Computed(t, N, d, g) ==
    /\ DOMAIN t = 0..N
    /\ t[0] = d
    /\ \A n \in 1..N : t[n] = g[n][t[n - 1]]

LEMMA Computation ==
    ASSUME NEW D, NEW N \in Nat, NEW d \in D, NEW g \in [1..N -> [D -> D]]
    PROVE  \E t \in [0..N -> D] : Computed(t, N, d, g)
<1> DEFINE S == {n \in 0..N : \E t \in [0..n -> D] : Computed(t, n, d, g)}
<1>1. 0 \in S
  <2>1. [k \in 0..0 |-> d] \in [0..0 -> D]
    OBVIOUS
  <2>2. Computed([k \in 0..0 |-> d], 0, d, g)
    BY DEF Computed
  <2> QED
    BY <2>1, <2>2
<1>2. ASSUME NEW n \in 0..N, n < N, n \in S PROVE n + 1 \in S
  <2>1. PICK t \in [0..n -> D] : Computed(t, n, d, g)
    BY <1>2
  <2>2. n + 1 \in 1..N /\ g[n + 1] \in [D -> D] /\ t[n] \in D
    BY <1>2, <2>1
  <2> DEFINE u == [k \in 0..n + 1 |-> IF k <= n THEN t[k] ELSE g[n + 1][t[n]]]
  <2>3. u \in [0..n + 1 -> D]
    BY <2>1, <2>2
  <2>4. ASSUME NEW k \in 1..n + 1 PROVE u[k] = g[k][u[k - 1]]
    <3>1. CASE k <= n
      <4>1. k \in 1..n /\ u[k] = t[k] /\ u[k - 1] = t[k - 1]
        BY <3>1
      <4> QED
        BY <4>1, <2>1 DEF Computed
    <3>2. CASE k = n + 1
      BY <3>2
    <3> QED
      BY <3>1, <3>2
  <2>5. u[0] = d
    BY <2>1 DEF Computed
  <2>6. Computed(u, n + 1, d, g)
    BY <2>4, <2>5 DEF Computed
  <2> QED
    BY <2>2, <2>3, <2>6
<1> HIDE DEF S
<1>3. N \in S
  <2>1. N \in Nat
    OBVIOUS
  <2>2. \A n \in 0..N : n < N /\ n \in S => n + 1 \in S
    BY <1>2
  <2>3. \A n \in 0..N : n \in S
    BY ONLY <1>1, <2>1, <2>2, Climb
  <2> QED
    BY <2>1, <2>3
<1> QED
  BY <1>3 DEF S

\* A function is one to one: its values are as many as its arguments.
OneToOne(g, S, T) ==
    /\ \A x, y \in S : g[x] = g[y] => x = y
    /\ \A v : v \in T <=> \E x \in S : g[x] = v

LEMMA SameCount ==
    ASSUME NEW S, IsFiniteSet(S), NEW R, NEW g \in [S -> R], NEW T, OneToOne(g, S, T)
    PROVE  IsFiniteSet(T) /\ Cardinality(T) = Cardinality(S)
<1>1. g \in [S -> T]
  BY DEF OneToOne
<1>2. g \in Surjection(S, T)
  BY <1>1 DEF Surjection, OneToOne
<1>3. g \in Injection(S, T)
  BY <1>1 DEF Injection, IsInjective, OneToOne
<1> QED
  BY <1>2, <1>3, FS_Surjection

-----------------------------------------------------------------------------
(* Quotients. *)

\* What a quotient is.
LEMMA Quotient ==
    ASSUME NEW a \in Nat, NEW p \in Nat \ {0}
    PROVE  /\ a \div p \in Nat
           /\ (a \div p) * p <= a /\ a < (a \div p) * p + p
<1>1. a \div p \in Int /\ a % p \in 0..p - 1 /\ a = p * (a \div p) + (a % p)
  <2>1. a \div p \in Int
    OBVIOUS
  <2>2. a % p \in 0..p - 1
    OBVIOUS
  <2>3. a = p * (a \div p) + (a % p)
    OBVIOUS
  <2> QED
    BY <2>1, <2>2, <2>3
<1> DEFINE q == a \div p
           r == a % p
<1>2. q \in Int /\ r \in 0..p - 1 /\ a = p * q + r
  BY <1>1
<1> HIDE DEF q, r
<1>3. p * q = q * p /\ p * q \in Int
  BY <1>2
<1>4. q >= 0
  <2> SUFFICES ASSUME q <= -1 PROVE FALSE
    BY <1>2
  <2>1. p * q <= p * (-1)
    BY <1>2
  <2> QED
    BY <1>2, <2>1
<1>5. q \in Nat /\ q * p <= a /\ a < q * p + p
  BY <1>2, <1>3, <1>4
<1> QED
  BY <1>5 DEF q

\* Nothing else is.
LEMMA QuotientIs ==
    ASSUME NEW a \in Nat, NEW p \in Nat \ {0}, NEW q \in Nat, q * p <= a, a < q * p + p
    PROVE  a \div p = q
<1>1. PICK e : e = a \div p
  OBVIOUS
<1>2. e \in Nat /\ e * p <= a /\ a < e * p + p
  BY <1>1, Quotient
<1>3. CASE e < q
  <2>1. (e + 1) * p <= q * p
    BY <1>2, <1>3
  <2>2. (e + 1) * p = e * p + p
    BY <1>2
  <2> QED
    BY <1>2, <2>1, <2>2
<1>4. CASE e > q
  <2>1. (q + 1) * p <= e * p
    BY <1>2, <1>4
  <2>2. (q + 1) * p = q * p + p
    BY <1>2
  <2> QED
    BY <1>2, <2>1, <2>2
<1> QED
  BY <1>1, <1>2, <1>3, <1>4

\* A larger quotient is that of a larger number.
LEMMA QuotientOrder ==
    ASSUME NEW a \in Nat, NEW b \in Nat, NEW p \in Nat \ {0}, a \div p < b \div p
    PROVE  a < b
<1>1. PICK e, f : e = a \div p /\ f = b \div p
  OBVIOUS
<1>2. /\ e \in Nat /\ a < e * p + p
      /\ f \in Nat /\ f * p <= b /\ e < f
  BY <1>1, Quotient
<1>3. (e + 1) * p <= f * p /\ (e + 1) * p = e * p + p
  BY <1>2
<1> QED
  BY <1>2, <1>3

\* Half the divisor: one more bit.
LEMMA QuotientHalved ==
    ASSUME NEW a \in Nat, NEW p \in Nat \ {0}
    PROVE  /\ a \div p = 2 * (a \div (2 * p)) + ((a \div p) % 2)
           /\ (a \div p) % 2 \in {0, 1}
<1>1. PICK e : e = a \div p
  OBVIOUS
<1>2. e \in Nat /\ e * p <= a /\ a < e * p + p
  BY <1>1, Quotient
<1>3. PICK h, r : h = e \div 2 /\ r = e % 2 /\ h \in Nat /\ r \in {0, 1} /\ e = 2 * h + r
  <2>1. e % 2 \in {0, 1}
    BY <1>2
  <2>2. e \div 2 \in Nat
    BY <1>2
  <2>3. e = 2 * (e \div 2) + (e % 2)
    BY <1>2
  <2> QED
    BY <2>1, <2>2, <2>3
<1>4. e = 2 * h \/ e = 2 * h + 1
  BY <1>3
<1>5. h * (2 * p) <= a /\ a < h * (2 * p) + 2 * p
  <2>1. PICK hp : hp = h * p
    OBVIOUS
  <2>2. hp \in Nat /\ h * (2 * p) = 2 * hp
    BY <1>3, <2>1
  <2>3. e * p = 2 * hp \/ e * p = 2 * hp + p
    <3>1. CASE e = 2 * h
      BY <1>3, <2>1, <3>1
    <3>2. CASE e = 2 * h + 1
      BY <1>3, <2>1, <3>2
    <3> QED
      BY <1>4, <3>1, <3>2
  <2> QED
    BY <1>2, <2>2, <2>3
<1>6. a \div (2 * p) = h
  BY <1>3, <1>5, QuotientIs
<1> QED
  BY <1>1, <1>3, <1>6

-----------------------------------------------------------------------------
(* Powers of two. *)

LEMMA Power ==
    /\ 2^0 = 1
    /\ \A n \in Nat : 2^n \in Nat /\ n < 2^n /\ 2^(n + 1) = 2 * 2^n
<1>1. ASSUME NEW n \in Nat
      PROVE  /\ IsFiniteSet(SUBSET (1..n)) /\ Cardinality(SUBSET (1..n)) = 2^n
             /\ 2^n \in Nat
  <2>1. IsFiniteSet(1..n) /\ Cardinality(1..n) = n
    BY FS_Interval
  <2>2. IsFiniteSet(SUBSET (1..n)) /\ Cardinality(SUBSET (1..n)) = 2^Cardinality(1..n)
    BY <2>1, FS_SUBSET
  <2> QED
    BY <2>1, <2>2, FS_CardinalityType
<1>2. 2^0 = 1
  OBVIOUS
<1>3. ASSUME NEW n \in Nat PROVE 2^(n + 1) = 2 * 2^n
  <2> DEFINE A == SUBSET (1..n)
             up(a) == a \union {n + 1}
             B == {up(a) : a \in A}
             g == [a \in A |-> up(a)]
  <2>1. n + 1 \in Nat /\ n + 1 \notin 1..n /\ 1..n + 1 = (1..n) \union {n + 1}
    <3>1. n + 1 \in Nat /\ n + 1 \notin 1..n
      OBVIOUS
    <3>2. \A k : k \in 1..n + 1 <=> k \in (1..n) \union {n + 1}
      OBVIOUS
    <3>3. 1..n + 1 = (1..n) \union {n + 1}
      BY ONLY <3>2
    <3> QED
      BY <3>1, <3>3
  <2>2. OneToOne(g, A, B)
    <3>1. \A x, y \in A : up(x) = up(y) => x = y
      BY <2>1
    <3>2. \A v : v \in B <=> \E x \in A : up(x) = v
      OBVIOUS
    <3>3. \A x \in A : g[x] = up(x)
      OBVIOUS
    <3> HIDE DEF A, B, g, up
    <3>4. \A x, y \in A : g[x] = g[y] => x = y
      BY <3>1, <3>3
    <3>5. \A v : v \in B <=> \E x \in A : g[x] = v
      BY <3>2, <3>3
    <3> QED
      BY <3>4, <3>5 DEF OneToOne
  <2>3. IsFiniteSet(B) /\ Cardinality(B) = Cardinality(A)
    <3>1. g \in [A -> B] /\ IsFiniteSet(A)
      BY <1>1
    <3> HIDE DEF A, B, g
    <3> QED
      BY <3>1, <2>2, SameCount
  <2>4. SUBSET (1..n + 1) = A \union B
    <3>1. ASSUME NEW s \in SUBSET (1..n + 1), n + 1 \in s PROVE s \in B
      <4>1. s \ {n + 1} \in A /\ s = (s \ {n + 1}) \union {n + 1}
        BY <3>1, <2>1
      <4> QED
        BY <4>1
    <3>2. ASSUME NEW s \in SUBSET (1..n + 1), n + 1 \notin s PROVE s \in A
      BY <3>2, <2>1
    <3>3. ASSUME NEW s \in A \union B PROVE s \in SUBSET (1..n + 1)
      BY <2>1
    <3> QED
      BY <3>1, <3>2, <3>3
  <2>5. A \cap B = {}
    BY <2>1
  <2>6. IsFiniteSet(A) /\ Cardinality(A) = 2^n /\ 2^n \in Nat
    BY <1>1
  <2>7. Cardinality(SUBSET (1..n + 1)) = 2^(n + 1)
    BY <1>1, <2>1
  <2> HIDE DEF A, B, g
  <2>8. Cardinality(A \cap B) = 0
    BY <2>5, FS_EmptySet
  <2>9. Cardinality(A \union B) = Cardinality(A) + Cardinality(B) - Cardinality(A \cap B)
    BY <2>3, <2>6, FS_Union
  <2>10. 2^(n + 1) = Cardinality(A \union B)
    BY <2>4, <2>7
  <2>11. Cardinality(A \union B) = 2^n + 2^n - 0
    BY <2>3, <2>6, <2>8, <2>9
  <2> QED
    BY ONLY <2>6, <2>10, <2>11
<1>4. ASSUME NEW N \in Nat PROVE N < 2^N
  <2> DEFINE S == {n \in 0..N : n < 2^n}
  <2>1. 0 \in S
    BY <1>2
  <2>2. ASSUME NEW n \in 0..N, n < N, n \in S PROVE n + 1 \in S
    <3>1. n \in Nat /\ n < 2^n /\ n + 1 \in 0..N
      BY <2>2
    <3>2. 2^n \in Nat /\ 2^(n + 1) = 2 * 2^n
      BY <3>1, <1>1, <1>3
    <3> DEFINE p == 2^n
               q == 2^(n + 1)
    <3>3. n + 1 < q
      <4>1. p \in Nat /\ q = 2 * p /\ n < p
        BY <3>1, <3>2
      <4> HIDE DEF p, q
      <4> QED
        BY <4>1
    <3> QED
      BY <3>1, <3>3
  <2> HIDE DEF S
  <2>3. N \in S
    BY <2>1, <2>2, Climb
  <2> QED
    BY <2>3 DEF S
<1> QED
  BY <1>1, <1>2, <1>3, <1>4

\* They grow.
LEMMA PowersGrow ==
    ASSUME NEW i \in Nat, NEW j \in Nat, i < j
    PROVE  2 * 2^i <= 2^j
<1> DEFINE S == {n \in 0..j : i < n => 2 * 2^i <= 2^n}
<1>1. 0 \in S
  OBVIOUS
<1>2. ASSUME NEW n \in 0..j, n < j, n \in S PROVE n + 1 \in S
  <2>1. n \in Nat /\ n + 1 \in 0..j /\ (i < n => 2 * 2^i <= 2^n)
    BY <1>2
  <2> DEFINE p == 2^n
             q == 2^(n + 1)
             r == 2^i
  <2>2. p \in Nat /\ q = 2 * p /\ r \in Nat /\ (i = n => p = r) /\ (i < n => 2 * r <= p)
    BY <2>1, Power
  <2> HIDE DEF p, q, r
  <2>3. i < n + 1 => 2 * r <= q
    BY <2>1, <2>2
  <2> QED
    BY <2>1, <2>3 DEF q, r
<1> HIDE DEF S
<1>3. j \in S
  BY <1>1, <1>2, Climb
<1> QED
  BY <1>3 DEF S

\* As the powers do, so do their exponents.
LEMMA PowersOrder ==
    ASSUME NEW i \in Nat, NEW j \in Nat, 2^i < 2^j
    PROVE  i < j
<1> SUFFICES ASSUME j <= i PROVE FALSE
  OBVIOUS
<1>1. CASE i = j
  <2>1. 2^i \in Nat
    BY Power
  <2> QED
    BY <2>1, <1>1
<1>2. CASE j < i
  <2>1. 2^i \in Nat /\ 2^j \in Nat /\ 2 * 2^j <= 2^i
    BY <1>2, Power, PowersGrow
  <2> QED
    BY <2>1
<1> QED
  BY <1>1, <1>2

\* Their product.
LEMMA PowerSum ==
    ASSUME NEW i \in Nat, NEW j \in Nat
    PROVE  2^i * 2^j = 2^(i + j)
<1> DEFINE S == {n \in 0..j : 2^i * 2^n = 2^(i + n)}
<1>1. 0 \in S
  <2>1. 2^i \in Nat /\ 2^0 = 1 /\ i + 0 = i
    BY Power
  <2> QED
    BY <2>1
<1>2. ASSUME NEW n \in 0..j, n < j, n \in S PROVE n + 1 \in S
  <2>1. n \in Nat /\ n + 1 \in 0..j /\ i + n \in Nat /\ i + (n + 1) = (i + n) + 1
    BY <1>2
  <2>2. 2^(n + 1) = 2 * 2^n /\ 2^(i + (n + 1)) = 2 * 2^(i + n) /\ 2^n \in Nat
    BY <2>1, Power
  <2>3. PICK p, q, r : p = 2^i /\ q = 2^n /\ r = 2^(i + n)
    OBVIOUS
  <2>4. p \in Nat /\ q \in Nat /\ p * q = r
    BY <1>2, <2>2, <2>3, Power
  <2>5. p * (2 * q) = 2 * r
    BY <2>4
  <2>6. 2^i * 2^(n + 1) = 2^(i + (n + 1))
    BY <2>2, <2>3, <2>5
  <2> QED
    BY <2>1, <2>6
<1> HIDE DEF S
<1>3. j \in S
  BY <1>1, <1>2, Climb
<1> QED
  BY <1>3 DEF S

\* The position of the top bit of a number.
LEMMA TopBit ==
    ASSUME NEW m \in Nat \ {0}
    PROVE  /\ \E i \in Nat : i < m /\ 2^i <= m /\ m < 2^(i + 1)
           /\ \A i, j \in Nat : 2^i <= m /\ m < 2^(i + 1) /\ 2^j <= m /\ m < 2^(j + 1) => i = j
<1>1. \E i \in Nat : i < m /\ 2^i <= m /\ m < 2^(i + 1)
  <2> DEFINE S == {n \in Nat : m < 2^n}
  <2>1. S # {}
    <3>1. m \in S
      BY Power
    <3> QED
      BY <3>1
  <2>2. PICK e \in S : \A n \in S : e <= n
    <3>1. S \in SUBSET Nat
      OBVIOUS
    <3> HIDE DEF S
    <3> QED
      BY <3>1, <2>1, Least
  <2>3. e \in Nat /\ m < 2^e
    OBVIOUS
  <2>4. e # 0
    <3>1. e = 0 => 2^e = 1
      BY Power
    <3> QED
      BY <2>3, <3>1
  <2>5. e - 1 \in Nat /\ e - 1 \notin S
    BY <2>2, <2>3, <2>4
  <2>6. 2^(e - 1) \in Nat /\ e - 1 < 2^(e - 1)
    BY <2>5, Power
  <2>7. (e - 1) + 1 = e
    BY <2>3
  <2>8. 2^(e - 1) <= m /\ m < 2^((e - 1) + 1)
    <3>1. ~ (m < 2^(e - 1))
      BY <2>5
    <3>2. m < 2^((e - 1) + 1)
      BY <2>3, <2>7
    <3> QED
      BY <2>6, <3>1, <3>2
  <2>9. e - 1 < m
    BY <2>5, <2>6, <2>8
  <2> QED
    BY <2>5, <2>8, <2>9
<1>2. ASSUME NEW i \in Nat, NEW j \in Nat, 2^i <= m, m < 2^(i + 1), 2^j <= m, m < 2^(j + 1),
             i < j
      PROVE  FALSE
  <2>1. 2^(i + 1) = 2 * 2^i /\ 2 * 2^i <= 2^j /\ 2^i \in Nat /\ 2^j \in Nat
    BY <1>2, Power, PowersGrow
  <2> QED
    BY <1>2, <2>1
<1>3. ASSUME NEW i \in Nat, NEW j \in Nat, 2^i <= m, m < 2^(i + 1), 2^j <= m, m < 2^(j + 1)
      PROVE  i = j
  <2>1. ~ (i < j) /\ ~ (j < i)
    BY <1>2, <1>3
  <2> QED
    BY <2>1
<1> QED
  BY <1>1, <1>3

-----------------------------------------------------------------------------
(* Sums.  The values of f over S are counted as the elements of a set: for *)
(* each x as many shares as f[x]. A sum that is folded over S in whatever  *)
(* order comes to the same number.                                         *)

Shares(f, S) == {p \in S \X Nat : p[2] < f[p[1]]}
Sum(f, S) == Cardinality(Shares(f, S))

LEMMA SharesFinite ==
    ASSUME NEW S, IsFiniteSet(S), NEW f, \A x \in S : f[x] \in Nat
    PROVE  IsFiniteSet(Shares(f, S))
<1> DEFINE at(x) == {x} \X (0..(f[x] - 1))
           g == [x \in S |-> at(x)]
           T == {at(x) : x \in S}
<1>1. g \in Surjection(S, T)
    BY DEF Surjection
<1>2. IsFiniteSet(T)
    BY <1>1, FS_Surjection
<1>3. ASSUME NEW x \in S PROVE IsFiniteSet(at(x))
  <2>1. IsFiniteSet({x})
      BY FS_Singleton
  <2>2. f[x] - 1 \in Int
      OBVIOUS
  <2>3. IsFiniteSet(0..(f[x] - 1))
      BY <2>2, FS_Interval
  <2> QED  BY <2>1, <2>3, FS_Product, Zenon
<1>4. IsFiniteSet(UNION T)
    BY <1>2, <1>3, FS_UNION
<1>5. Shares(f, S) \subseteq UNION T
  <2> SUFFICES ASSUME NEW p \in Shares(f, S) PROVE p \in at(p[1]) /\ p[1] \in S
      OBVIOUS
  <2>1. p[1] \in S /\ p[2] \in Nat /\ p[2] < f[p[1]] /\ p = <<p[1], p[2]>>
      BY DEF Shares
  <2>2. p[2] \in 0..(f[p[1]] - 1)
      BY <2>1
  <2> QED  BY <2>1, <2>2
<1> QED  BY <1>4, <1>5, FS_Subset

\* The sum of nothing, and what one element contributes.
LEMMA SumParts ==
    ASSUME NEW S, IsFiniteSet(S), NEW f, \A x \in S : f[x] \in Nat
    PROVE  /\ Sum(f, S) \in Nat /\ Sum(f, {}) = 0
           /\ \A x \in S : Sum(f, S) = f[x] + Sum(f, S \ {x}) /\ Sum(f, S \ {x}) \in Nat
<1>1. Sum(f, S) \in Nat
    BY SharesFinite, FS_CardinalityType DEF Sum
<1>2. Shares(f, {}) = {}
    BY DEF Shares
<1>3. ASSUME NEW x \in S PROVE Sum(f, S) = f[x] + Sum(f, S \ {x}) /\ Sum(f, S \ {x}) \in Nat
  <2> DEFINE own == {x} \X (0..(f[x] - 1))
  <2>1. IsFiniteSet(own) /\ Cardinality(own) = f[x]
    <3>1. IsFiniteSet({x}) /\ Cardinality({x}) = 1
        BY FS_Singleton
    <3>2. IsFiniteSet(0..(f[x] - 1)) /\ Cardinality(0..(f[x] - 1)) = f[x]
        BY FS_Interval
    <3>3. IsFiniteSet(own) /\ Cardinality(own) = Cardinality({x}) * Cardinality(0..(f[x] - 1))
        BY <3>1, <3>2, FS_Product, Zenon
    <3> HIDE DEF own
    <3> QED  BY <3>1, <3>2, <3>3
  <2>2. IsFiniteSet(S \ {x})
      BY FS_RemoveElement
  <2>3. IsFiniteSet(Shares(f, S \ {x}))
      BY <2>2, SharesFinite
  <2>4. Shares(f, S) = own \union Shares(f, S \ {x})
      BY DEF Shares
  <2>5. own \cap Shares(f, S \ {x}) = {}
      BY DEF Shares
  <2> HIDE DEF own
  <2>6. Cardinality(own \cap Shares(f, S \ {x})) = 0
      BY <2>5, FS_EmptySet
  <2>7. Cardinality(own \union Shares(f, S \ {x})) =
            Cardinality(own) + Cardinality(Shares(f, S \ {x})) - 0
      BY <2>1, <2>3, <2>6, FS_Union
  <2> QED  BY <2>1, <2>3, <2>4, <2>7, FS_CardinalityType DEF Sum
<1> QED  BY <1>1, <1>2, <1>3, FS_EmptySet DEF Sum

\* A sum depends on the values alone.
LEMMA SameSum ==
    ASSUME NEW f, NEW g, NEW S, \A x \in S : f[x] = g[x]
    PROVE  Sum(f, S) = Sum(g, S)
<1>1. Shares(f, S) = Shares(g, S)
    BY DEF Shares
<1> QED  BY <1>1 DEF Sum

\* One value changes.
LEMMA SumChange ==
    ASSUME NEW S, IsFiniteSet(S), NEW f, NEW g, \A x \in S : f[x] \in Nat /\ g[x] \in Nat,
           NEW a \in S, \A x \in S \ {a} : g[x] = f[x]
    PROVE  Sum(g, S) = Sum(f, S) - f[a] + g[a]
<1>1. Sum(f, S \ {a}) = Sum(g, S \ {a})
    BY SameSum
<1>2. Sum(f, S) = f[a] + Sum(f, S \ {a}) /\ Sum(f, S \ {a}) \in Nat
    BY SumParts
<1>3. Sum(g, S) = g[a] + Sum(g, S \ {a})
    BY SumParts
<1> QED  BY <1>1, <1>2, <1>3

\* The folds of the library: elements are added as they are picked.
Pick(T) == CHOOSE x \in T : TRUE
Adding(f, S, h) ==
    [T \in SUBSET S |-> IF T = {} THEN 0 ELSE f[Pick(T)] + h[T \ {Pick(T)}]]

LEMMA PickIn == ASSUME NEW T, T # {} PROVE Pick(T) \in T
BY DEF Pick

LEMMA AddingIsSum ==
    ASSUME NEW S, IsFiniteSet(S), NEW f, \A x \in S : f[x] \in Nat
    PROVE  /\ \E h : h = Adding(f, S, h)
           /\ \A h : h = Adding(f, S, h) => h[S] = Sum(f, S)
<1>0. ASSUME NEW T \in SUBSET S
      PROVE  /\ IsFiniteSet(T) /\ Cardinality(T) \in Nat /\ Sum(f, T) \in Nat
             /\ T = {} => Sum(f, T) = 0
             /\ T # {} => /\ Pick(T) \in T /\ T \ {Pick(T)} \in SUBSET S
                          /\ Sum(f, T) = f[Pick(T)] + Sum(f, T \ {Pick(T)})
                          /\ Cardinality(T \ {Pick(T)}) < Cardinality(T)
  <2>1. IsFiniteSet(T) /\ Cardinality(T) \in Nat
      BY FS_Subset, FS_CardinalityType
  <2>2. \A x \in T : f[x] \in Nat
      OBVIOUS
  <2>3. Sum(f, T) \in Nat /\ Sum(f, {}) = 0 /\ \A x \in T : Sum(f, T) = f[x] + Sum(f, T \ {x})
      BY <2>1, <2>2, SumParts
  <2>4. T # {} => Pick(T) \in T
      BY PickIn
  <2>5. T # {} => Cardinality(T \ {Pick(T)}) = Cardinality(T) - 1
      BY <2>1, <2>4, FS_RemoveElement
  <2>6. T # {} => Cardinality(T \ {Pick(T)}) < Cardinality(T)
      BY <2>1, <2>5
  <2>7. T # {} => T \ {Pick(T)} \in SUBSET S
      OBVIOUS
  <2>8. T # {} => Sum(f, T) = f[Pick(T)] + Sum(f, T \ {Pick(T)})
      BY <2>3, <2>4
  <2>9. T = {} => Sum(f, T) = 0
      BY <2>3
  <2> QED  BY <2>1, <2>3, <2>4, <2>6, <2>7, <2>8, <2>9, Zenon
<1>1. PICK s : s = [T \in SUBSET S |-> Sum(f, T)]
    OBVIOUS
<1>2. s = Adding(f, S, s)
  <2>1. ASSUME NEW T \in SUBSET S
        PROVE  s[T] = IF T = {} THEN 0 ELSE f[Pick(T)] + s[T \ {Pick(T)}]
      BY <1>0, <1>1
  <2> QED  BY <1>1, <2>1 DEF Adding
<1>3. ASSUME NEW h, h = Adding(f, S, h) PROVE h[S] = Sum(f, S)
  <2>1. \A T \in SUBSET S : h[T] = IF T = {} THEN 0 ELSE f[Pick(T)] + h[T \ {Pick(T)}]
      BY <1>3 DEF Adding
  <2> DEFINE Bad == {T \in SUBSET S : h[T] # Sum(f, T)}
             Sizes == {n \in Nat : \E T \in Bad : Cardinality(T) = n}
  <2>2. SUFFICES ASSUME Bad # {} PROVE FALSE
      OBVIOUS
  <2>3. Sizes \in SUBSET Nat /\ Sizes # {}
      BY <1>0, <2>2
  <2>4. PICK n \in Sizes : \A k \in Sizes : n <= k
    <3> HIDE DEF Sizes
    <3> QED  BY <2>3, Least
  <2>5. PICK T \in Bad : Cardinality(T) = n
      OBVIOUS
  <2>6. T # {} => h[T \ {Pick(T)}] = Sum(f, T \ {Pick(T)})
    <3> SUFFICES ASSUME T # {}, T \ {Pick(T)} \in Bad PROVE FALSE
        BY <1>0
    <3>1. \E k \in Sizes : k < n
        BY <1>0, <2>5
    <3> HIDE DEF Sizes
    <3>2. \A k \in Sizes : k \in Nat /\ n \in Nat /\ n <= k
        BY <2>3, <2>4
    <3> QED  BY <3>1, <3>2
  <2>7. h[T] = Sum(f, T)
      BY <1>0, <2>1, <2>6
  <2> QED  BY <2>7
<1> QED  BY <1>2, <1>3
=============================================================================
