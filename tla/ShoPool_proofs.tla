---------------------------- MODULE ShoPool_proofs ----------------------------
(***************************************************************************)
(* Proofs about ShoPool, for every set of blocks and number of chunks per  *)
(* block.  FreeListExact is not inductive: Inv adds that clients hold      *)
(* chunks of blocks the pool took, so that a chunk given back was on no    *)
(* list.  Nothing is known of the words off the list, where clients write. *)
(***************************************************************************)
EXTENDS ShoPool, Lemmas_proofs

ChunksOf(B) == B \X (1..ChunksPerBlock)

Inv ==
    /\ TypeOK
    /\ held \subseteq ChunksOf(heap)
    /\ IsListOf(Nat, Free, mAlloc, word)

-----------------------------------------------------------------------------
\* A new PoolAllocator has no block and an empty list.
LEMMA InitInv == Init => Inv
<1> SUFFICES ASSUME Init PROVE Inv
  OBVIOUS
<1>1. TypeOK /\ held \subseteq ChunksOf(heap)
  BY DEF Init, TypeOK
<1>3. Free = {}
  BY DEF Init, Free
<1>4. Lists(0, [i \in 1..0 |-> Null], Free, mAlloc, word)
  BY <1>3 DEF Init, Lists
<1>5. [i \in 1..0 |-> Null] \in [1..0 -> Free]
  OBVIOUS
<1>6. IsListOf(Nat, Free, mAlloc, word)
  BY <1>4, <1>5 DEF IsListOf
<1> QED
  BY <1>1, <1>6 DEF Inv

\* The chunks on the list are chunks, and none of them is the null.
LEMMA FreeChunks == Inv => Free \subseteq Chunk /\ Null \notin Free /\ Free \cap held = {}
  BY ShoPoolAssumption DEF Inv, TypeOK, Free, Chunk

\* allocateBlock's loop links the chunks of the block, in order.
LEMMA ChainList ==
    ASSUME TypeOK, NEW b \in Block
    PROVE  /\ Chained(b) \in [Chunk -> Chunk \union {Null, Data}]
           /\ IsListOf(Nat, ChunksOf({b}), <<b, 1>>, Chained(b))
<1> DEFINE t == [i \in 1..ChunksPerBlock |-> <<b, i>>]
<1> USE ShoPoolAssumption
<1>1. t \in [1..ChunksPerBlock -> ChunksOf({b})]
  BY DEF ChunksOf
<1>2. ASSUME NEW i \in 1..ChunksPerBlock
      PROVE  Chained(b)[t[i]] = IF i = ChunksPerBlock THEN Null ELSE t[i + 1]
  <2>1. t[i] \in Chunk /\ t[i][1] = b /\ t[i][2] = i
    BY DEF Chunk
  <2>2. Chained(b)[t[i]] = IF i < ChunksPerBlock THEN <<b, i + 1>> ELSE Null
    BY <2>1 DEF Chained
  <2> QED
    BY <2>2
<1>3. \A i, j \in 1..ChunksPerBlock : t[i] = t[j] => i = j
  OBVIOUS
<1>4. \A c \in ChunksOf({b}) : \E i \in 1..ChunksPerBlock : t[i] = c
  BY DEF ChunksOf
<1>5. <<b, 1>> = t[1]
  OBVIOUS
<1>6. Lists(ChunksPerBlock, t, ChunksOf({b}), <<b, 1>>, Chained(b))
  BY <1>2, <1>3, <1>4, <1>5 DEF Lists
<1>7. Chained(b) \in [Chunk -> Chunk \union {Null, Data}]
  <2> SUFFICES ASSUME NEW c \in Chunk, c[1] = b, c[2] < ChunksPerBlock
               PROVE  <<b, c[2] + 1>> \in Chunk
    BY DEF Chained, TypeOK
  <2> QED
    BY DEF Chunk
<1> HIDE DEF t
<1> QED
  BY <1>1, <1>6, <1>7 DEF IsListOf

-----------------------------------------------------------------------------
\* What allocate() takes off the list, and what it leaves on it.
LEMMA AllocateStep ==
    ASSUME Inv, Allocate
    PROVE  /\ mAlloc \in Free
           /\ held' = held \union {mAlloc}
           /\ Free' = Free \ {mAlloc}
           /\ mAlloc' \in Free' \union {Null}
           /\ IsListOf(Nat, Free', mAlloc', word')
<1>1. mAlloc # Null /\ mAlloc' = word[mAlloc] /\ word' = word
      /\ held' = held \union {mAlloc} /\ heap' = heap
  BY DEF Allocate, Bump
<1>2. Free' = Free \ {mAlloc}
  BY <1>1 DEF Free
<1>3. Free \subseteq Chunk /\ word \in [Chunk -> Chunk \union {Null, Data}]
  BY FreeChunks DEF Inv, TypeOK
<1>4. /\ mAlloc \in Free
      /\ IsListOf(Nat, Free \ {mAlloc}, word[mAlloc], word)
      /\ word[mAlloc] \in (Free \ {mAlloc}) \union {Null}
  BY <1>1, <1>3, TakeHead DEF Inv
<1> QED
  BY <1>1, <1>2, <1>4

\* What allocateBlock() does for the call that found the list empty: every
\* chunk owned is with a client, and the new block, less its first chunk, is
\* the list.
LEMMA NewBlockStep ==
    ASSUME Inv, AllocateNewBlock
    PROVE  \E b \in Block \ heap :
             /\ Free = {}
             /\ heap' = heap \union {b}
             /\ held' = held \union {<<b, 1>>}
             /\ Free' = ChunksOf({b}) \ {<<b, 1>>}
             /\ word' = Chained(b)
             /\ mAlloc' \in Free' \union {Null}
             /\ IsListOf(Nat, Free', mAlloc', word')
<1> USE ShoPoolAssumption
<1>1. PICK b \in Block \ heap : heap' = heap \union {b} /\ Bump(<<b, 1>>, Chained(b))
  BY DEF AllocateNewBlock
<1> DEFINE head == <<b, 1>>
           fresh == ChunksOf({b})
<1>2. Free = {}
  BY FreeChunks, EmptyList DEF Inv, AllocateNewBlock
<1>3. mAlloc' = Chained(b)[head] /\ word' = Chained(b) /\ held' = held \union {head}
  BY <1>1 DEF Bump
<1>4. head \in fresh /\ fresh \subseteq Chunk /\ Null \notin fresh
  BY DEF ChunksOf, Chunk
<1>5. Free' = fresh \ {head}
  <2>1. ChunksOf(heap') = ChunksOf(heap) \union fresh /\ ChunksOf(heap) \cap fresh = {}
    BY <1>1 DEF ChunksOf
  <2>2. Free = ChunksOf(heap) \ held /\ Free' = ChunksOf(heap') \ held'
    BY DEF Free, ChunksOf
  <2>3. held \subseteq ChunksOf(heap)
    BY DEF Inv
  <2> QED
    BY <1>2, <1>3, <2>1, <2>2, <2>3
<1>6. /\ Chained(b) \in [Chunk -> Chunk \union {Null, Data}]
      /\ IsListOf(Nat, fresh, head, Chained(b))
  BY ChainList DEF Inv
<1> HIDE DEF head, fresh
<1>7. /\ IsListOf(Nat, fresh \ {head}, Chained(b)[head], Chained(b))
      /\ Chained(b)[head] \in (fresh \ {head}) \union {Null}
  BY <1>4, <1>6, TakeHead
<1>8. /\ mAlloc' \in Free' \union {Null}
      /\ IsListOf(Nat, Free', mAlloc', word')
  BY <1>3, <1>5, <1>7
<1> QED
  BY <1>1, <1>2, <1>3, <1>5, <1>8 DEF head, fresh

-----------------------------------------------------------------------------
LEMMA AllocateInv == Inv /\ Allocate => Inv'
<1> SUFFICES ASSUME Inv, Allocate PROVE Inv'
  OBVIOUS
<1>1. word' = word /\ heap' = heap /\ crashed' = crashed
  BY DEF Allocate, Bump
<1>2. held' \subseteq ChunksOf(heap') /\ held' \subseteq Chunk /\ mAlloc' \in Chunk \union {Null}
  BY <1>1, AllocateStep, FreeChunks DEF Inv, TypeOK, Free, ChunksOf
<1> QED
  BY <1>1, <1>2, AllocateStep DEF Inv, TypeOK

LEMMA AllocateNewBlockInv == Inv /\ AllocateNewBlock => Inv'
<1> SUFFICES ASSUME Inv, AllocateNewBlock PROVE Inv'
  OBVIOUS
<1>1. PICK b \in Block \ heap :
             /\ heap' = heap \union {b}
             /\ held' = held \union {<<b, 1>>}
             /\ Free' = ChunksOf({b}) \ {<<b, 1>>}
             /\ word' = Chained(b)
             /\ mAlloc' \in Free' \union {Null}
             /\ IsListOf(Nat, Free', mAlloc', word')
  BY NewBlockStep
<1>3. <<b, 1>> \in ChunksOf({b}) /\ ChunksOf({b}) \subseteq ChunksOf(heap')
      /\ ChunksOf(heap) \subseteq ChunksOf(heap') /\ ChunksOf({b}) \subseteq Chunk
  BY <1>1, ShoPoolAssumption DEF ChunksOf, Chunk
<1>4. held' \subseteq ChunksOf(heap') /\ held' \subseteq Chunk /\ mAlloc' \in Chunk \union {Null}
  BY <1>1, <1>3 DEF Inv, TypeOK
<1>5. word' \in [Chunk -> Chunk \union {Null, Data}] /\ heap' \subseteq Block
      /\ crashed' \in BOOLEAN
  BY <1>1, ChainList DEF Inv, TypeOK, AllocateNewBlock
<1> QED
  BY <1>1, <1>4, <1>5 DEF Inv, TypeOK

LEMMA DeallocateInv == ASSUME NEW c \in Chunk PROVE Inv /\ Deallocate(c) => Inv'
<1> SUFFICES ASSUME Inv, Deallocate(c) PROVE Inv'
  OBVIOUS
<1>1. /\ c \in held /\ held' = held \ {c} /\ mAlloc' = c
      /\ word' = [word EXCEPT ![c] = mAlloc] /\ heap' = heap /\ crashed' = crashed
  BY DEF Deallocate
<1>2. c \in ChunksOf(heap) /\ c \notin Free
  BY <1>1 DEF Inv, Free
<1>3. Free' = Free \union {c}
  BY <1>1, <1>2 DEF Free, ChunksOf
<1>4. Free \subseteq Chunk /\ word \in [Chunk -> Chunk \union {Null, Data}]
  BY FreeChunks DEF Inv, TypeOK
<1>5. IsListOf(Nat, Free \union {c}, c, [word EXCEPT ![c] = mAlloc])
  BY <1>2, <1>4, PushList DEF Inv
<1> QED
  BY <1>1, <1>3, <1>5 DEF Inv, TypeOK

\* A client's object overwrites the link of a chunk that is on no list.
LEMMA ClientWritesInv == ASSUME NEW c \in Chunk PROVE Inv /\ ClientWrites(c) => Inv'
<1> SUFFICES ASSUME Inv, ClientWrites(c) PROVE Inv'
  OBVIOUS
<1>1. /\ c \in held /\ word' = [word EXCEPT ![c] = Data]
      /\ UNCHANGED <<mAlloc, heap, held, crashed>>
  BY DEF ClientWrites
<1>2. Free' = Free /\ c \notin Free /\ Free \subseteq Chunk
  BY <1>1, FreeChunks DEF Free
<1>3. \A d \in Free : word'[d] = word[d]
  BY <1>1, <1>2 DEF Inv, TypeOK
<1>4. IsListOf(Nat, Free, mAlloc, word')
  BY <1>3, SameList DEF Inv
<1> QED
  BY <1>1, <1>2, <1>4 DEF Inv, TypeOK

LEMMA StepInv == Inv /\ [Next]_vars => Inv'
<1> SUFFICES ASSUME Inv, [Next]_vars PROVE Inv'
  OBVIOUS
<1>1. CASE Allocate
  BY <1>1, AllocateInv
<1>2. CASE AllocateNewBlock
  BY <1>2, AllocateNewBlockInv
<1>3. CASE HeapRefuses
  BY <1>3 DEF HeapRefuses, Inv, TypeOK, Free
<1>4. ASSUME NEW c \in Chunk, Deallocate(c) \/ ClientWrites(c) PROVE Inv'
  BY <1>4, DeallocateInv, ClientWritesInv
<1>5. CASE UNCHANGED vars
  BY <1>5 DEF vars, Inv, TypeOK, Free
<1> QED
  BY <1>1, <1>2, <1>3, <1>4, <1>5 DEF Next

LEMMA InvHolds == Spec => []Inv
<1> QED
  BY InitInv, StepInv, PTL DEF Spec

LEMMA ListLength == Inv => FreeListExact
  BY ListCardinality DEF Inv, FreeListExact

\* The list from mAlloc is at all times null-terminated and has exactly the
\* chunks that no client holds, whatever clients wrote where their chunks'
\* links were; mAlloc is never a client's data.
THEOREM FreeListCorrect == Spec => []FreeListExact
<1> QED
  BY ListLength, InvHolds, PTL

-----------------------------------------------------------------------------
LEMMA InitMaps == Init => Pool!Init
  BY DEF Init, Pool!Init

LEMMA StepMaps == Inv /\ [Next]_vars => [Pool!Next]_(Pool!vars)
<1> SUFFICES ASSUME Inv, [Next]_vars PROVE Pool!Next \/ UNCHANGED Pool!vars
  OBVIOUS
<1> USE DEF Pool!ChunksOf, ChunksOf
<1>1. CASE Allocate
  <2>1. mAlloc \in Free /\ held' = held \union {mAlloc} /\ heap' = heap
    BY <1>1, AllocateStep DEF Allocate
  <2>2. Pool!Reuse
    BY <2>1 DEF Pool!Reuse, Free
  <2> QED
    BY <2>2 DEF Pool!Next
<1>2. CASE AllocateNewBlock
  <2>1. PICK b \in Block \ heap :
             /\ Free = {} /\ heap' = heap \union {b} /\ held' = held \union {<<b, 1>>}
    BY <1>2, NewBlockStep
  <2>2. <<b, 1>> \in ChunksOf({b})
    BY ShoPoolAssumption
  <2>3. Pool!Grow
    BY <2>1, <2>2 DEF Pool!Grow, Free
  <2> QED
    BY <2>3 DEF Pool!Next
<1>3. CASE HeapRefuses
  BY <1>3 DEF HeapRefuses, Pool!vars
<1>4. ASSUME NEW c \in Chunk, Deallocate(c) PROVE Pool!Next
  <2>1. c \in held /\ held' = held \ {c} /\ heap' = heap
    BY <1>4 DEF Deallocate
  <2> QED
    BY <2>1 DEF Pool!Next, Pool!Release
<1>5. ASSUME NEW c \in Chunk, ClientWrites(c) PROVE UNCHANGED Pool!vars
  BY <1>5 DEF ClientWrites, Pool!vars
<1>6. CASE UNCHANGED vars
  BY <1>6 DEF vars, Pool!vars
<1> QED
  BY <1>1, <1>2, <1>3, <1>4, <1>5, <1>6 DEF Next

\* PoolAllocator keeps the promise of ChunkPool: a chunk is with one client at
\* a time, and the heap is asked for a block only when all the chunks of those
\* taken before are with clients.
THEOREM Refinement == Spec => ImplementsChunkPool
<1> QED
  BY InitMaps, StepMaps, InvHolds, PTL DEF Spec, ImplementsChunkPool, Pool!Spec
=============================================================================
