------------------------- MODULE FixedMemPool_proofs -------------------------
(***************************************************************************)
(* Proofs about FixedMemPool, for every set of threads (which need not be  *)
(* finite), every number of blocks, and with or without a reentrant mutex  *)
(* and a specialized handler.  Inv says what a thread inside allocate() or *)
(* deallocate() may rely on at each place: LockInv, which places hold the  *)
(* class lock; ReturnInv, that the blocks on their way back are different  *)
(* blocks, which no client has, and that the head a thread read under the  *)
(* lock is still the head; and the free list is exact at every step, not   *)
(* only when the lock is free, because each operation moves the head last. *)
(***************************************************************************)
EXTENDS FixedMemPool, Lemmas_proofs

Holding == {"alloc_look", "alloc_bad", "alloc_pop", "handler_lock", "dealloc_link", "dealloc_push"}
Giving == {"dealloc_lock", "dealloc_link", "dealloc_push", "handler_lock"}
Place == {"idle", "alloc_lock"} \union Holding \union Giving

\* Threads with a block on its way back, and those that have yet to count it.
Givers == {t \in Thread : pc[t] \in Giving}
Counted == {t \in Thread : pc[t] \in {"dealloc_lock", "handler_lock"}}

LockInv ==
    /\ pc \in [Thread -> Place]
    /\ \A t \in Thread : mtx = t <=> pc[t] \in Holding

ReturnInv ==
    /\ \A t \in Givers : block[t] \in (1..size) \ held
    /\ \A t, u \in Givers : block[t] = block[u] => t = u
    /\ \A t \in Thread : pc[t] = "alloc_pop" => block[t] = first /\ first # Null
    /\ \A t \in Thread : pc[t] = "dealloc_push" => link[block[t]] = first

ListInv == IsListOf(Nat, Free, first, link)

Count == cnt = Cardinality(held) + Cardinality(Counted)

Inv == TypeOK /\ LockInv /\ ReturnInv /\ ListInv /\ Count

-----------------------------------------------------------------------------
\* Threads that bring different blocks back, none of them with a client, are no
\* more than the blocks that are not with clients.
LEMMA Bounded ==
    ASSUME NEW n \in Nat, NEW H \in SUBSET (1..n), NEW T, NEW b,
           \A t \in T : b[t] \in (1..n) \ H,
           \A t, u \in T : b[t] = b[u] => t = u
    PROVE  /\ IsFiniteSet(H) /\ IsFiniteSet(T)
           /\ Cardinality(H) \in Nat /\ Cardinality(T) \in Nat
           /\ Cardinality(H) + Cardinality(T) <= n
<1> DEFINE f == [t \in T |-> b[t]]
<1>1. IsFiniteSet(1..n) /\ Cardinality(1..n) = n
  BY FS_Interval
<1>2. IsFiniteSet(H) /\ (1..n) \cap H = H
  BY <1>1, FS_Subset
<1>3. /\ IsFiniteSet((1..n) \ H)
      /\ Cardinality((1..n) \ H) = n - Cardinality(H)
  <2>1. /\ IsFiniteSet((1..n) \ H)
        /\ Cardinality((1..n) \ H) = Cardinality(1..n) - Cardinality((1..n) \cap H)
    BY <1>1, FS_Difference, Zenon
  <2> QED
    BY <1>1, <1>2, <2>1
<1>4. f \in Injection(T, (1..n) \ H)
  BY DEF Injection, IsInjective
<1>5. IsFiniteSet(T) /\ Cardinality(T) <= n - Cardinality(H)
  BY <1>3, <1>4, FS_Injection
<1>6. Cardinality(H) \in Nat /\ Cardinality(T) \in Nat
  BY <1>2, <1>5, FS_CardinalityType
<1> QED
  BY <1>2, <1>5, <1>6

\* The counter, in a state where threads bring back different blocks.
LEMMA CountBounded ==
    ASSUME TypeOK, ReturnInv
    PROVE  /\ IsFiniteSet(held) /\ IsFiniteSet(Counted)
           /\ Cardinality(held) \in Nat /\ Cardinality(Counted) \in Nat
           /\ Cardinality(held) + Cardinality(Counted) <= size
<1>1. Counted \subseteq Givers
  BY DEF Counted, Givers, Giving
<1>2. size \in Nat /\ held \subseteq 1..size
  BY FixedMemPoolAssumption DEF TypeOK
<1>3. /\ \A t \in Counted : block[t] \in (1..size) \ held
      /\ \A t, u \in Counted : block[t] = block[u] => t = u
  BY <1>1 DEF ReturnInv
<1> QED
  BY <1>2, <1>3, Bounded

\* A block on its way back is not free, and no free block is the null.
LEMMA FreeBlocks ==
    ASSUME TypeOK
    PROVE  /\ Free \subseteq 1..size /\ Free \subseteq Block /\ Null \notin Free
           /\ Free \cap held = {}
           /\ Free \cap {block[t] : t \in Givers} = {}
           /\ Free = (1..size) \ (held \union {block[t] : t \in Givers})
<1>1. 1..size \subseteq Block /\ Null \notin 1..size
  BY FixedMemPoolAssumption DEF TypeOK, Block
<1>2. Returning = {block[t] : t \in Givers}
  BY DEF Returning, Givers, Giving
<1> QED
  BY <1>1, <1>2 DEF Free

-----------------------------------------------------------------------------
LEMMA InitInv == Init => Inv
<1> SUFFICES ASSUME Init PROVE Inv
  OBVIOUS
<1> USE FixedMemPoolAssumption
<1>1. TypeOK
  BY DEF Init, TypeOK, Block
<1>2. LockInv /\ Givers = {} /\ Counted = {}
  BY DEF Init, LockInv, Place, Holding, Giving, Givers, Counted
<1>3. ReturnInv
  BY <1>2 DEF Init, ReturnInv
<1>4. Free = {}
  BY DEF Init, Free
<1>5. Lists(0, [i \in 1..0 |-> Null], Free, first, link)
  BY <1>4 DEF Init, Lists
<1>6. [i \in 1..0 |-> Null] \in [1..0 -> Free]
  OBVIOUS
<1>7. ListInv
  BY <1>5, <1>6 DEF ListInv, IsListOf
<1>8. Count
  BY <1>2, FS_EmptySet DEF Init, Count
<1> QED
  BY <1>1, <1>2, <1>3, <1>7, <1>8 DEF Inv

\* Nobody is in a call: no block is on its way, and cnt counts those held.
LEMMA IdleState ==
    ASSUME Inv, Idle
    PROVE  Givers = {} /\ Counted = {} /\ mtx = Null
           /\ Free = (1..size) \ held /\ cnt = Cardinality(held)
<1>1. Givers = {} /\ Counted = {}
  BY DEF Idle, Givers, Counted, Giving
<1>2. mtx = Null
  BY DEF Idle, Inv, LockInv, TypeOK, Holding
<1>3. Free = (1..size) \ held
  BY <1>1, FreeBlocks DEF Inv
<1>4. cnt = Cardinality(held)
  BY <1>1, FS_EmptySet, CountBounded DEF Inv, Count
<1> QED
  BY <1>1, <1>2, <1>3, <1>4

\* initialize() makes a list of all its blocks.
LEMMA InitializeInv == Inv /\ Initialize => Inv'
<1> SUFFICES ASSUME Inv, Initialize PROVE Inv'
  OBVIOUS
<1> USE FixedMemPoolAssumption
<1>1. PICK n \in Block :
         /\ size' = n
         /\ link' = [b \in Block |-> IF b < n THEN b + 1 ELSE IF b = n THEN Null ELSE link[b]]
  BY DEF Initialize
<1>2. size = 0 /\ first' = 1 /\ UNCHANGED <<cnt, mtx, held, pc, block>>
  BY DEF Initialize
<1>3. Givers = {} /\ Givers' = {} /\ Counted' = Counted /\ held = {}
  BY <1>2, IdleState DEF Initialize, Inv, TypeOK, Givers, Counted
<1>4. n \in Nat /\ 1 <= n /\ n <= MaxSize
  BY <1>1 DEF Block
<1>5. TypeOK'
  <2>1. link' \in [Block -> Block \union {Null, Data}]
    BY <1>1, <1>4 DEF Inv, TypeOK, Block
  <2> QED
    BY <2>1, <1>1, <1>2, <1>3, <1>4 DEF Inv, TypeOK
<1>6. LockInv' /\ ReturnInv'
  <2>1. \A t \in Thread : pc[t] = "idle"
    BY DEF Initialize, Idle
  <2> QED
    BY <2>1, <1>2, <1>3 DEF Inv, LockInv, ReturnInv
<1>7. Free' = 1..n
  <2>1. Returning' = {}
    BY <1>3 DEF Returning, Givers, Giving
  <2> QED
    BY <2>1, <1>1, <1>2, <1>3 DEF Free
<1>8. ListInv'
  <2> DEFINE s == [i \in 1..n |-> i]
  <2>1. s \in [1..n -> Free']
    BY <1>7
  <2>2. Lists(n, s, Free', first', link')
    BY <1>1, <1>2, <1>4, <1>7 DEF Lists, Block
  <2> HIDE DEF s
  <2> QED
    BY <2>1, <2>2, <1>4 DEF ListInv, IsListOf
<1>9. Count'
  BY <1>2, <1>3 DEF Inv, Count
<1> QED
  BY <1>5, <1>6, <1>8, <1>9 DEF Inv

\* deinitialize() with no block in allocation: no client has one.
LEMMA DeinitializeInv == Inv /\ Deinitialize => Inv'
<1> SUFFICES ASSUME Inv, Deinitialize PROVE Inv'
  OBVIOUS
<1> USE FixedMemPoolAssumption
<1>1. size' = 0 /\ first' = Null /\ UNCHANGED <<link, cnt, mtx, held, pc, block>> /\ cnt = 0
  BY DEF Deinitialize
<1>2. held = {} /\ Givers = {}
  BY <1>1, IdleState, CountBounded, FS_EmptySet DEF Deinitialize, Inv
<1>3. Givers' = {} /\ Counted' = Counted
  BY <1>1, <1>2 DEF Givers, Counted
<1>4. TypeOK'
  BY <1>1, <1>2 DEF Inv, TypeOK
<1>5. LockInv' /\ ReturnInv'
  <2>1. \A t \in Thread : pc[t] = "idle"
    BY DEF Deinitialize, Idle
  <2> QED
    BY <2>1, <1>1, <1>3 DEF Inv, LockInv, ReturnInv
<1>6. Free' = {}
  BY <1>1 DEF Free
<1>7. ListInv'
  <2>1. Lists(0, [i \in 1..0 |-> Null], Free', first', link')
    BY <1>1, <1>6 DEF Lists
  <2>2. [i \in 1..0 |-> Null] \in [1..0 -> Free']
    OBVIOUS
  <2> QED
    BY <2>1, <2>2 DEF ListInv, IsListOf
<1>8. Count'
  BY <1>1, <1>3 DEF Inv, Count
<1> QED
  BY <1>4, <1>5, <1>7, <1>8 DEF Inv

\* A client's data goes into a block that is neither free nor on its way back.
LEMMA ClientWritesInv == ASSUME NEW b \in Block PROVE Inv /\ ClientWrites(b) => Inv'
<1> SUFFICES ASSUME Inv, ClientWrites(b) PROVE Inv'
  OBVIOUS
<1>1. b \in held /\ link' = [link EXCEPT ![b] = Data]
      /\ UNCHANGED <<size, first, cnt, mtx, held, pc, block>>
  BY DEF ClientWrites
<1>2. Free' = Free /\ Givers' = Givers /\ Counted' = Counted
  BY <1>1 DEF Free, Returning, Givers, Counted
<1>3. \A c \in Block \ held : link'[c] = link[c]
  BY <1>1 DEF Inv, TypeOK
<1>4. TypeOK' /\ LockInv' /\ Count'
  BY <1>1, <1>2 DEF Inv, TypeOK, LockInv, Count
<1>5. ReturnInv'
  <2>1. ASSUME NEW t \in Thread, pc[t] = "dealloc_push" PROVE link'[block[t]] = first
    <3>1. block[t] \in Block \ held
      BY <2>1, FixedMemPoolAssumption DEF Inv, ReturnInv, Givers, Giving, TypeOK, Block
    <3> QED
      BY <3>1, <2>1, <1>3 DEF Inv, ReturnInv
  <2> QED
    BY <2>1, <1>1, <1>2 DEF Inv, ReturnInv
<1>6. ListInv'
  <2>1. Free \subseteq Block \ held
    BY FreeBlocks DEF Inv
  <2> QED
    BY <2>1, <1>1, <1>2, <1>3, SameList DEF Inv, ListInv
<1> QED
  BY <1>4, <1>5, <1>6 DEF Inv

-----------------------------------------------------------------------------
\* A thread that gets the lock finds nobody at a place that holds it; one that
\* holds it is alone there.
LEMMA Alone ==
    ASSUME Inv, NEW t \in Thread, mtx \in {Null, t}
    PROVE  \A u \in Thread \ {t} : pc[u] \notin Holding
  BY FixedMemPoolAssumption DEF Inv, LockInv

\* A step that leaves the blocks alone: only the lock and the caller's place
\* change, and the caller has no block to bring back before or after it.
LEMMA QuietStep ==
    ASSUME Inv, NEW t \in Thread, NEW to \in Place \ Giving,
           pc[t] \notin Giving, pc' = [pc EXCEPT ![t] = to],
           UNCHANGED <<size, first, link, cnt, held>>,
           block' \in [Thread -> Block \union {Null}],
           \A u \in Thread \ {t} : block'[u] = block[u],
           mtx' \in Thread \union {Null}, LockInv',
           to = "alloc_pop" => block'[t] = first /\ first # Null
    PROVE  Inv'
<1>1. Givers' = Givers /\ Counted' = Counted /\ t \notin Givers
  BY DEF Inv, LockInv, Givers, Counted, Giving
<1>2. \A u \in Givers : block'[u] = block[u]
  BY <1>1 DEF Givers
<1>3. Free' = Free
  <2>1. Returning' = {block'[u] : u \in Givers'} /\ Returning = {block[u] : u \in Givers}
    BY DEF Returning, Givers, Giving
  <2> QED
    BY <2>1, <1>1, <1>2 DEF Free
<1>4. TypeOK' /\ ListInv' /\ Count'
  BY <1>1, <1>3 DEF Inv, TypeOK, ListInv, Count
<1>5. ReturnInv'
  <2>1. ASSUME NEW u \in Thread, pc'[u] = "alloc_pop" PROVE block'[u] = first' /\ first' # Null
    BY <2>1 DEF Inv, LockInv, ReturnInv
  <2>2. ASSUME NEW u \in Thread, pc'[u] = "dealloc_push" PROVE link'[block'[u]] = first'
    BY <2>2 DEF Inv, LockInv, ReturnInv, Giving
  <2> QED
    BY <2>1, <2>2, <1>1, <1>2 DEF Inv, ReturnInv
<1> QED
  BY <1>4, <1>5 DEF Inv

\* The quiet steps of a call.
LEMMA QuietInv ==
    ASSUME NEW t \in Thread
    PROVE  Inv /\ (CallAllocate(t) \/ AllocLock(t) \/ AllocLook(t) \/ AllocNull(t)) => Inv'
<1> SUFFICES ASSUME Inv, CallAllocate(t) \/ AllocLock(t) \/ AllocLook(t) \/ AllocNull(t)
             PROVE  Inv'
  OBVIOUS
<1> USE FixedMemPoolAssumption DEF shared, Goto, Place, Holding, Giving
<1>1. CASE CallAllocate(t)
  <2>1. LockInv'
    BY <1>1 DEF CallAllocate, Inv, LockInv
  <2> QED
    BY <2>1, <1>1, QuietStep DEF CallAllocate, Inv, TypeOK
<1>2. CASE AllocLock(t)
  <2>1. LockInv'
    BY <1>2 DEF AllocLock, Lock, Inv, LockInv
  <2> QED
    BY <2>1, <1>2, QuietStep DEF AllocLock, Lock, Inv, TypeOK
<1>3. CASE AllocLook(t)
  <2>1. LockInv'
    BY <1>3 DEF AllocLook, Inv, LockInv
  <2>2. first \in Block \union {Null}
    BY DEF Inv, TypeOK, Block
  <2> QED
    BY <2>1, <2>2, <1>3, QuietStep DEF AllocLook, Inv, TypeOK
<1>4. CASE AllocNull(t)
  <2>1. LockInv'
    BY <1>4 DEF AllocNull, Return, Inv, LockInv
  <2> QED
    BY <2>1, <1>4, QuietStep DEF AllocNull, Return, Inv, TypeOK
<1> QED
  BY <1>1, <1>2, <1>3, <1>4

-----------------------------------------------------------------------------
\* A client's block set out on its way back, by deallocate() or by the handler:
\* from here on it is the thread's, and still counted.
LEMMA GiveInv ==
    ASSUME NEW t \in Thread
    PROVE  Inv /\ (CallDeallocate(t) \/ HandlerFrees(t)) => Inv'
<1> SUFFICES ASSUME Inv, CallDeallocate(t) \/ HandlerFrees(t) PROVE Inv'
  OBVIOUS
<1> USE FixedMemPoolAssumption
<1>1. PICK b \in held : held' = held \ {b} /\ block' = [block EXCEPT ![t] = b]
  BY DEF CallDeallocate, HandlerFrees
<1>2. PICK to \in {"dealloc_lock", "handler_lock"} :
        /\ pc' = [pc EXCEPT ![t] = to]
        /\ pc[t] \in {"idle", "alloc_bad"}
        /\ pc[t] \in Holding <=> to \in Holding
  BY DEF CallDeallocate, HandlerFrees, Goto, Holding
<1>3. UNCHANGED <<size, first, link, cnt, mtx>>
  BY DEF CallDeallocate, HandlerFrees
<1>4. t \notin Givers /\ Givers' = Givers \union {t}
      /\ t \notin Counted /\ Counted' = Counted \union {t}
  BY <1>2 DEF Inv, LockInv, Givers, Counted, Giving
<1>5. b \in 1..size /\ b \in Block
  BY DEF Inv, TypeOK, Block
<1>6. block'[t] = b /\ \A u \in Givers : block'[u] = block[u]
  BY <1>1, <1>4 DEF Inv, TypeOK, Givers
<1>7. TypeOK'
  BY <1>1, <1>3, <1>5 DEF Inv, TypeOK
<1>8. LockInv'
  BY <1>2, <1>3 DEF Inv, LockInv, Place, Holding, Giving
<1>9. ReturnInv'
  <2>1. \A u \in Givers' : block'[u] \in (1..size') \ held'
    BY <1>1, <1>3, <1>4, <1>5, <1>6 DEF Inv, ReturnInv
  <2>2. \A u \in Givers : block'[u] # b
    BY <1>6 DEF Inv, ReturnInv
  <2>3. \A u, v \in Givers' : block'[u] = block'[v] => u = v
    BY <2>2, <1>4, <1>6 DEF Inv, ReturnInv
  <2>4. ASSUME NEW u \in Thread, pc'[u] = "alloc_pop" PROVE block'[u] = first' /\ first' # Null
    BY <2>4, <1>1, <1>2, <1>3 DEF Inv, LockInv, TypeOK, ReturnInv
  <2>5. ASSUME NEW u \in Thread, pc'[u] = "dealloc_push" PROVE link'[block'[u]] = first'
    BY <2>5, <1>1, <1>2, <1>3 DEF Inv, LockInv, TypeOK, ReturnInv
  <2> QED
    BY <2>1, <2>3, <2>4, <2>5 DEF ReturnInv
<1>10. Free' = Free
  <2>1. Free = (1..size) \ (held \union {block[u] : u \in Givers})
    BY FreeBlocks DEF Inv
  <2>2. Free' = (1..size) \ (held' \union {block'[u] : u \in Givers'})
    BY <1>3 DEF Free, Returning, Givers, Giving
  <2>3. {block'[u] : u \in Givers'} = {block[u] : u \in Givers} \union {b}
    BY <1>4, <1>6
  <2> QED
    BY <1>1, <2>1, <2>2, <2>3
<1>11. Count'
  <2>1. IsFiniteSet(held) /\ IsFiniteSet(Counted)
        /\ Cardinality(held) \in Nat /\ Cardinality(Counted) \in Nat
    BY CountBounded DEF Inv
  <2>2. Cardinality(held') = Cardinality(held) - 1
    BY <1>1, <2>1, FS_RemoveElement
  <2>3. Cardinality(Counted') = Cardinality(Counted) + 1
    BY <1>4, <2>1, FS_AddElement
  <2> QED
    BY <1>3, <2>1, <2>2, <2>3 DEF Inv, Count
<1> QED
  BY <1>3, <1>7, <1>8, <1>9, <1>10, <1>11 DEF Inv, ListInv

\* allocate() takes the head that it looked at, under the lock all the while.
LEMMA AllocPopInv == ASSUME NEW t \in Thread PROVE Inv /\ AllocPop(t) => Inv'
<1> SUFFICES ASSUME Inv, AllocPop(t) PROVE Inv'
  OBVIOUS
<1> USE FixedMemPoolAssumption
<1>1. /\ pc[t] = "alloc_pop" /\ pc' = [pc EXCEPT ![t] = "idle"]
      /\ block' = [block EXCEPT ![t] = Null] /\ mtx' = Null
      /\ first' = link[first] /\ cnt' = cnt + 1 /\ held' = held \union {block[t]}
      /\ UNCHANGED <<size, link>>
  BY DEF AllocPop, Return, Goto
<1>2. block[t] = first /\ first # Null
  BY <1>1 DEF Inv, ReturnInv
<1>3. Free \subseteq Block /\ link \in [Block -> Block \union {Null, Data}]
  BY FreeBlocks DEF Inv, TypeOK
<1>4. /\ first \in Free
      /\ IsListOf(Nat, Free \ {first}, link[first], link)
      /\ link[first] \in (Free \ {first}) \union {Null}
  BY <1>2, <1>3, TakeHead DEF Inv, ListInv
<1>5. t \notin Givers /\ Givers' = Givers /\ Counted' = Counted
  BY <1>1 DEF Inv, LockInv, Givers, Counted, Giving
<1>6. \A u \in Givers : block'[u] = block[u]
  BY <1>1, <1>5 DEF Inv, TypeOK, Givers
<1>7. \A u \in Thread \ {t} : pc[u] \notin Holding
  BY <1>1, Alone DEF Inv, LockInv, Holding
<1>8. Free' = Free \ {first}
  <2>1. Free = (1..size) \ (held \union {block[u] : u \in Givers})
    BY FreeBlocks DEF Inv
  <2>2. Free' = (1..size) \ (held' \union {block'[u] : u \in Givers'})
    BY <1>1 DEF Free, Returning, Givers, Giving
  <2>3. {block'[u] : u \in Givers'} = {block[u] : u \in Givers}
    BY <1>5, <1>6
  <2> QED
    BY <1>1, <1>2, <2>1, <2>2, <2>3
<1>9. first \in 1..size /\ first \notin held /\ first \notin {block[u] : u \in Givers}
  BY <1>4, FreeBlocks DEF Inv
<1>10. LockInv'
  BY <1>1, <1>7 DEF Inv, LockInv, Place, Holding, Giving
<1>11. ReturnInv'
  <2>1. \A u \in Givers' : block'[u] \in (1..size') \ held'
    BY <1>1, <1>2, <1>5, <1>6, <1>9 DEF Inv, ReturnInv
  <2>2. \A u, v \in Givers' : block'[u] = block'[v] => u = v
    BY <1>5, <1>6 DEF Inv, ReturnInv
  <2>3. \A u \in Thread : pc'[u] \notin {"alloc_pop", "dealloc_push"}
    BY <1>1, <1>7 DEF Inv, LockInv, Holding
  <2> QED
    BY <2>1, <2>2, <2>3 DEF ReturnInv
<1>12. Count'
  <2>1. IsFiniteSet(held) /\ Cardinality(held) \in Nat /\ Cardinality(Counted) \in Nat
    BY CountBounded DEF Inv
  <2>2. Cardinality(held') = Cardinality(held) + 1
    BY <1>1, <1>2, <1>9, <2>1, FS_AddElement
  <2> QED
    BY <1>1, <1>5, <2>1, <2>2 DEF Inv, Count
<1>13. TypeOK'
  <2>1. size' \in Nat /\ held' \subseteq 1..size'
    <3>1. size \in Nat /\ held \subseteq 1..size
      BY DEF Inv, TypeOK
    <3> QED
      BY <3>1, <1>1, <1>2, <1>9
  <2>2. /\ \A u \in Counted' : block'[u] \in (1..size') \ held'
        /\ \A u, v \in Counted' : block'[u] = block'[v] => u = v
    BY <1>11 DEF ReturnInv, Givers, Giving, Counted
  <2>3. /\ Cardinality(held') \in Nat /\ Cardinality(Counted') \in Nat
        /\ Cardinality(held') + Cardinality(Counted') <= size'
    BY <2>1, <2>2, Bounded
  <2>4. cnt' \in 0..MaxSize
    BY <1>1, <1>12, <2>3 DEF Inv, TypeOK, Count
  <2>5. first' \in (1..size') \union {Null}
    BY <1>1, <1>4, FreeBlocks DEF Inv
  <2> QED
    BY <1>1, <2>1, <2>4, <2>5 DEF Inv, TypeOK
<1>14. ListInv'
  BY <1>1, <1>4, <1>8 DEF ListInv
<1> QED
  BY <1>10, <1>11, <1>12, <1>13, <1>14 DEF Inv

-----------------------------------------------------------------------------
\* The decrement of deallocate(): the block is on its way, and counted no more.
\* "assert(_S_alloc_cnt != 0)" holds, since the block was counted until now.
LEMMA Uncounted ==
    ASSUME Inv, NEW t \in Counted, Counted' = Counted \ {t}, held' = held, cnt' = cnt - 1
    PROVE  Count' /\ cnt # 0 /\ cnt' \in 0..MaxSize
<1>1. IsFiniteSet(Counted) /\ Cardinality(held) \in Nat /\ Cardinality(Counted) \in Nat
  BY CountBounded DEF Inv
<1>2. Cardinality(Counted') = Cardinality(Counted) - 1 /\ Cardinality(Counted) # 0
  BY <1>1, FS_RemoveElement, FS_EmptySet
<1> QED
  BY <1>1, <1>2, FixedMemPoolAssumption DEF Inv, Count, TypeOK

LEMMA DeallocLockInv == ASSUME NEW t \in Thread PROVE Inv /\ DeallocLock(t) => Inv'
<1> SUFFICES ASSUME Inv, DeallocLock(t) PROVE Inv'
  OBVIOUS
<1> USE FixedMemPoolAssumption
<1>1. /\ pc[t] = "dealloc_lock" /\ pc' = [pc EXCEPT ![t] = "dealloc_link"]
      /\ mtx = Null /\ mtx' = t /\ cnt' = cnt - 1
      /\ UNCHANGED <<size, first, link, held, block>>
  BY DEF DeallocLock, Lock, Goto
<1>2. Givers' = Givers /\ t \in Counted /\ Counted' = Counted \ {t}
  BY <1>1 DEF Inv, LockInv, Givers, Counted, Giving
<1>3. Free' = Free
  BY <1>1, <1>2 DEF Free, Returning, Givers, Giving
<1>4. Count' /\ cnt' \in 0..MaxSize
  BY <1>1, <1>2, Uncounted
<1>5. TypeOK'
  BY <1>1, <1>4 DEF Inv, TypeOK
<1>6. LockInv'
  BY <1>1 DEF Inv, LockInv, Place, Holding, Giving
<1>7. ReturnInv'
  BY <1>1, <1>2 DEF Inv, LockInv, ReturnInv
<1> QED
  BY <1>1, <1>3, <1>4, <1>5, <1>6, <1>7 DEF Inv, ListInv

\* The block's link is written before the head is: the list is as it was.
LEMMA DeallocLinkInv == ASSUME NEW t \in Thread PROVE Inv /\ DeallocLink(t) => Inv'
<1> SUFFICES ASSUME Inv, DeallocLink(t) PROVE Inv'
  OBVIOUS
<1> USE FixedMemPoolAssumption
<1>1. /\ pc[t] = "dealloc_link" /\ pc' = [pc EXCEPT ![t] = "dealloc_push"]
      /\ link' = [link EXCEPT ![block[t]] = first]
      /\ UNCHANGED <<size, first, cnt, mtx, held, block>>
  BY DEF DeallocLink, Goto
<1>2. t \in Givers /\ Givers' = Givers /\ Counted' = Counted
  BY <1>1 DEF Inv, LockInv, Givers, Counted, Giving
<1>3. Free' = Free
  BY <1>1, <1>2 DEF Free, Returning, Givers, Giving
<1>4. block[t] \in Block /\ block[t] \notin Free /\ first \in Block \union {Null}
  BY <1>2, FreeBlocks DEF Inv, ReturnInv, TypeOK, Block
<1>5. link'[block[t]] = first /\ \A b \in Block \ {block[t]} : link'[b] = link[b]
  BY <1>1, <1>4 DEF Inv, TypeOK
<1>6. TypeOK' /\ Count'
  BY <1>1, <1>2, <1>4 DEF Inv, TypeOK, Count
<1>7. LockInv'
  BY <1>1 DEF Inv, LockInv, Place, Holding, Giving
<1>8. ReturnInv'
  <2>1. \A u \in Thread \ {t} : pc'[u] = pc[u] /\ pc[u] \notin Holding
    BY <1>1, Alone DEF Inv, LockInv, Holding
  <2>2. \A u \in Thread : pc'[u] = "dealloc_push" => u = t
    BY <2>1 DEF Holding
  <2>3. \A u \in Thread : pc'[u] # "alloc_pop"
    BY <2>1, <1>1 DEF Inv, LockInv, Holding
  <2> QED
    BY <2>2, <2>3, <1>1, <1>2, <1>5 DEF Inv, ReturnInv
<1>9. ListInv'
  <2>1. \A b \in Free : link'[b] = link[b]
    BY <1>4, <1>5, FreeBlocks DEF Inv
  <2> QED
    BY <2>1, <1>1, <1>3, SameList DEF Inv, ListInv
<1> QED
  BY <1>6, <1>7, <1>8, <1>9 DEF Inv

\* A block goes in front of the list: deallocate()'s last step, and all of the
\* handler's call of it.
LEMMA PushedList ==
    ASSUME Inv, NEW t \in Givers, Givers' = Givers \ {t}, size' = size, held' = held,
           \A u \in Givers' : block'[u] = block[u],
           first' = block[t], link' = [link EXCEPT ![block[t]] = first]
    PROVE  ListInv' /\ block[t] \in 1..size
<1>1. block[t] \in (1..size) \ held
  BY DEF Inv, ReturnInv
<1>2. \A u \in Givers \ {t} : block[u] # block[t]
  BY DEF Inv, ReturnInv
<1>3. {block[u] : u \in Givers} = {block'[u] : u \in Givers'} \union {block[t]}
      /\ block[t] \notin {block'[u] : u \in Givers'}
  BY <1>2
<1>4. Free' = Free \union {block[t]} /\ block[t] \notin Free
  <2>1. Free = (1..size) \ (held \union {block[u] : u \in Givers})
    BY FreeBlocks DEF Inv
  <2>2. Free' = (1..size) \ (held \union {block'[u] : u \in Givers'})
    BY DEF Free, Returning, Givers, Giving
  <2> QED
    BY <1>1, <1>3, <2>1, <2>2
<1>5. Free \subseteq Block /\ block[t] \in Block
  BY <1>1, FreeBlocks, FixedMemPoolAssumption DEF Inv, TypeOK, Block
<1>6. IsListOf(Nat, Free \union {block[t]}, block[t], [link EXCEPT ![block[t]] = first])
  BY <1>4, <1>5, PushList DEF Inv, TypeOK, ListInv
<1> QED
  BY <1>1, <1>4, <1>6 DEF ListInv

LEMMA DeallocPushInv == ASSUME NEW t \in Thread PROVE Inv /\ DeallocPush(t) => Inv'
<1> SUFFICES ASSUME Inv, DeallocPush(t) PROVE Inv'
  OBVIOUS
<1> USE FixedMemPoolAssumption
<1>1. /\ pc[t] = "dealloc_push" /\ pc' = [pc EXCEPT ![t] = "idle"]
      /\ block' = [block EXCEPT ![t] = Null] /\ mtx' = Null /\ first' = block[t]
      /\ UNCHANGED <<size, link, cnt, held>>
  BY DEF DeallocPush, Return, Goto
<1>2. t \in Givers /\ Givers' = Givers \ {t} /\ Counted' = Counted
  BY <1>1 DEF Inv, LockInv, Givers, Counted, Giving
<1>3. \A u \in Givers' : block'[u] = block[u]
  BY <1>1, <1>2 DEF Inv, TypeOK, Givers
<1>4. link' = [link EXCEPT ![block[t]] = first]
  <2>1. link[block[t]] = first
    BY <1>1 DEF Inv, ReturnInv
  <2> QED
    BY <2>1, <1>1 DEF Inv, TypeOK
<1>5. ListInv' /\ block[t] \in 1..size
  BY <1>1, <1>2, <1>3, <1>4, PushedList
<1>6. \A u \in Thread \ {t} : pc[u] \notin Holding
  BY <1>1, Alone DEF Inv, LockInv, Holding
<1>7. TypeOK' /\ Count'
  BY <1>1, <1>2, <1>5 DEF Inv, TypeOK, Count
<1>8. LockInv'
  BY <1>1, <1>6 DEF Inv, LockInv, Place, Holding, Giving
<1>9. ReturnInv'
  <2>1. \A u \in Thread : pc'[u] \notin {"alloc_pop", "dealloc_push"}
    BY <1>1, <1>6 DEF Inv, LockInv, Holding
  <2> QED
    BY <2>1, <1>1, <1>2, <1>3 DEF Inv, ReturnInv
<1> QED
  BY <1>5, <1>7, <1>8, <1>9 DEF Inv

\* The handler's deallocate(), under the lock of the allocate() that called it.
LEMMA HandlerPushInv == ASSUME NEW t \in Thread PROVE Inv /\ HandlerPush(t) => Inv'
<1> SUFFICES ASSUME Inv, HandlerPush(t) PROVE Inv'
  OBVIOUS
<1> USE FixedMemPoolAssumption
<1>1. /\ pc[t] = "handler_lock" /\ pc' = [pc EXCEPT ![t] = "alloc_look"]
      /\ cnt' = cnt - 1 /\ link' = [link EXCEPT ![block[t]] = first] /\ first' = block[t]
      /\ block' = [block EXCEPT ![t] = Null]
      /\ UNCHANGED <<size, mtx, held>>
  BY DEF HandlerPush, Goto
<1>2. /\ t \in Givers /\ Givers' = Givers \ {t}
      /\ t \in Counted /\ Counted' = Counted \ {t}
  BY <1>1 DEF Inv, LockInv, Givers, Counted, Giving
<1>3. \A u \in Givers' : block'[u] = block[u]
  BY <1>1, <1>2 DEF Inv, TypeOK, Givers
<1>4. Count' /\ cnt' \in 0..MaxSize
  BY <1>1, <1>2, Uncounted
<1>5. ListInv' /\ block[t] \in 1..size
  BY <1>1, <1>2, <1>3, PushedList
<1>6. \A u \in Thread \ {t} : pc[u] \notin Holding
  BY <1>1, Alone DEF Inv, LockInv, Holding
<1>7. TypeOK'
  <2>1. first \in Block \union {Null}
    BY DEF Inv, TypeOK, Block
  <2>2. link' \in [Block -> Block \union {Null, Data}]
    BY <2>1, <1>1 DEF Inv, TypeOK
  <2> QED
    BY <2>2, <1>1, <1>4, <1>5 DEF Inv, TypeOK
<1>8. LockInv'
  BY <1>1 DEF Inv, LockInv, Place, Holding, Giving
<1>9. ReturnInv'
  <2>1. \A u \in Thread : pc'[u] \notin {"alloc_pop", "dealloc_push"}
    BY <1>1, <1>6 DEF Inv, LockInv, Holding
  <2> QED
    BY <2>1, <1>1, <1>2, <1>3 DEF Inv, ReturnInv
<1> QED
  BY <1>4, <1>5, <1>7, <1>8, <1>9 DEF Inv

-----------------------------------------------------------------------------
LEMMA StepInv == Inv /\ [Next]_vars => Inv'
<1> SUFFICES ASSUME Inv, [Next]_vars PROVE Inv'
  OBVIOUS
<1>1. CASE Initialize
  BY <1>1, InitializeInv
<1>2. CASE Deinitialize
  BY <1>2, DeinitializeInv
<1>3. CASE \E b \in Block : ClientWrites(b)
  BY <1>3, ClientWritesInv
<1>4. ASSUME NEW t \in Thread, Calls(t) \/ Work(t) PROVE Inv'
  <2>1. CASE CallAllocate(t) \/ AllocLock(t) \/ AllocLook(t) \/ AllocNull(t)
    BY <2>1, QuietInv
  <2>2. CASE CallDeallocate(t) \/ HandlerFrees(t)
    BY <2>2, GiveInv
  <2>3. CASE AllocPop(t)
    BY <2>3, AllocPopInv
  <2>4. CASE HandlerPush(t)
    BY <2>4, HandlerPushInv
  <2>5. CASE DeallocLock(t)
    BY <2>5, DeallocLockInv
  <2>6. CASE DeallocLink(t)
    BY <2>6, DeallocLinkInv
  <2>7. CASE DeallocPush(t)
    BY <2>7, DeallocPushInv
  <2> QED
    BY <1>4, <2>1, <2>2, <2>3, <2>4, <2>5, <2>6, <2>7 DEF Calls, Work
<1>5. CASE UNCHANGED vars
  BY <1>5 DEF vars, shared, Inv, TypeOK, LockInv, ReturnInv, ListInv, Count,
                Givers, Counted, Free, Returning
<1> QED
  BY <1>1, <1>2, <1>3, <1>4, <1>5 DEF Next

LEMMA InvHolds == Spec => []Inv
<1> QED
  BY InitInv, StepInv, PTL DEF Spec

\* Every fixed_mem_pool keeps a list of exactly the blocks that nobody has, and
\* its head is never what a client wrote, for any number of threads and
\* whether or not the handler gives blocks back under the lock.
THEOREM FreeListCorrect == Spec => []FreeListExact
<1>1. Inv => FreeListExact
  BY ListCardinality DEF Inv, ListInv, FreeListExact
<1> QED
  BY <1>1, InvHolds, PTL

\* _S_alloc_cnt is what deinitialize() takes it for: no memory is released that
\* a client has or is giving back.
THEOREM CountCorrect == Spec => []CountsOutstanding
<1>1. Inv => CountsOutstanding
  <2> SUFFICES ASSUME Inv PROVE CountsOutstanding
    OBVIOUS
  <2>1. size = 0 => held = {} /\ Returning = {}
    BY DEF Inv, TypeOK, ReturnInv, Returning, Givers, Giving
  <2> QED
    BY <2>1 DEF Inv, Count, Counted, CountsOutstanding
<1> QED
  BY <1>1, InvHolds, PTL

\* Inside allocate() and deallocate() a thread has the class lock to itself, and
\* "assert(_S_alloc_cnt != 0)" holds wherever the counter is about to go down.
THEOREM LockExcludes ==
    Spec => [](/\ \A t, u \in Thread : pc[t] \in Holding /\ pc[u] \in Holding => t = u
               /\ Counted # {} => cnt # 0)
<1>1. Inv => \A t, u \in Thread : pc[t] \in Holding /\ pc[u] \in Holding => t = u
  BY DEF Inv, LockInv
<1>2. Inv /\ Counted # {} => cnt # 0
  BY CountBounded, FS_EmptySet DEF Inv, Count
<1> QED
  BY <1>1, <1>2, InvHolds, PTL
=============================================================================
