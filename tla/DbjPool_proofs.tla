--------------------------- MODULE DbjPool_proofs ---------------------------
(***************************************************************************)
(* Proofs about DbjPool, for every set of blocks, every number of chunks   *)
(* per block and every capacity of the registry.  The properties are not   *)
(* inductive: Inv adds that the registry is filled from slot 0 without     *)
(* gaps and without repetition, that it lists the blocks the pool holds,   *)
(* that the client only holds chunks of those blocks, and that the program *)
(* stopped at a full registry when no chunk was free.                      *)
(*                                                                         *)
(* Then come the chunks at their addresses, for every object size.         *)
(***************************************************************************)
EXTENDS DbjPoolMemory, PoolSession, Lemmas_proofs, FiniteSetTheorems, FunctionTheorems

\* blocks_ is filled from slot 0 up to level_, and names the blocks taken.
RegistryInv ==
    /\ \A j \in Slot : blocks[j] # Null <=> j < level
    /\ \A i, j \in Slot : blocks[i] = blocks[j] /\ blocks[i] # Null => i = j
    /\ Owned \subseteq heap
    /\ status = "running" => heap = Owned
    /\ status = "destroyed" => heap = {} /\ level = 0 /\ held = {}

\* The free list, of whatever length.
ListInv == status # "destroyed" => IsListOf(Nat, Free, next_free, next)

\* append() stops the program with every slot taken and every chunk held.
StopInv == status = "registry_full" => level = MaxBlocks /\ Free = {}

Inv ==
    /\ TypeOK
    /\ RegistryInv
    /\ StopInv
    /\ held \subseteq ChunksOf(Owned)
    /\ DeallocateAsserts
    /\ ListInv

-----------------------------------------------------------------------------
\* The constructor leaves a pool without blocks: DbjPool's initial state.
LEMMA InitInv == Init => Inv
<1> SUFFICES ASSUME Init PROVE Inv
  OBVIOUS
<1> USE DbjPoolAssumption
<1>1. TypeOK
  BY DEF Init, TypeOK, Slot, Chunk
<1>2. Owned = {}
  BY DEF Init, Owned
<1>3. RegistryInv
  BY <1>2 DEF Init, RegistryInv, Slot
<1>8. StopInv
  BY DEF Init, StopInv
<1>4. held \subseteq ChunksOf(Owned) /\ DeallocateAsserts
  BY <1>2 DEF Init, DeallocateAsserts, Free, ChunksOf
<1>5. Lists(0, [i \in 1..0 |-> Null], Free, next_free, next)
  BY <1>2 DEF Init, Lists, Free, ChunksOf
<1>6. [i \in 1..0 |-> Null] \in [1..0 -> Free]
  OBVIOUS
<1>7. ListInv
  BY <1>5, <1>6 DEF ListInv, IsListOf
<1> QED
  BY <1>1, <1>3, <1>4, <1>7, <1>8 DEF Inv

\* Registering a block at level_ adds it, and nothing else, to the pool.
LEMMA AppendOwned ==
    ASSUME TypeOK, RegistryInv, level < MaxBlocks, NEW b \in Block,
           blocks' = [blocks EXCEPT ![level] = b]
    PROVE  Owned' = Owned \union {b}
<1> USE DbjPoolAssumption
<1>1. level \in Slot
  BY DEF TypeOK, Slot
<1>2. blocks[level] = Null
  BY <1>1 DEF RegistryInv, TypeOK, Slot
<1>3. \A j \in Slot : blocks'[j] = IF j = level THEN b ELSE blocks[j]
  BY <1>1 DEF TypeOK
<1>4. Owned' \subseteq Owned \union {b}
  BY <1>3 DEF Owned
<1>5. b \in Owned'
  BY <1>1, <1>3 DEF Owned
<1>6. Owned \subseteq Owned'
  <2> SUFFICES ASSUME NEW j \in Slot, blocks[j] # Null PROVE blocks[j] \in Owned'
    BY DEF Owned
  <2>1. j # level
    BY <1>2
  <2> QED
    BY <1>3, <2>1 DEF Owned
<1> QED
  BY <1>4, <1>5, <1>6

\* The destructor's walk, which stops at the first null, meets every block.
LEMMA VisitedAll ==
    ASSUME TypeOK, RegistryInv
    PROVE  Owned = {blocks[j] : j \in Visited} /\ \A j \in Slot : j \in Visited <=> blocks[j] # Null
<1>1. \A j \in Slot : j \in Visited <=> blocks[j] # Null
  <2> SUFFICES ASSUME NEW j \in Slot, blocks[j] # Null PROVE j \in Visited
    BY DEF Visited, Slot
  <2>1. j < level
    BY DEF RegistryInv
  <2>2. \A i \in 0..j : i \in Slot /\ i < level
    BY <2>1, DbjPoolAssumption DEF Slot, TypeOK
  <2> QED
    BY <2>2 DEF Visited, RegistryInv
<1> QED
  BY <1>1 DEF Owned, Visited

-----------------------------------------------------------------------------
\* A fresh block, chained, is the list of its chunks.
LEMMA ChainList ==
    ASSUME TypeOK, NEW b \in Block
    PROVE  IsListOf(Nat, ChunksOf({b}), <<b, 1>>, Chained(b))
<1> DEFINE t == [i \in 1..ChunksPerBlock |-> <<b, i>>]
<1> USE DbjPoolAssumption
<1>1. t \in [1..ChunksPerBlock -> ChunksOf({b})]
  BY DEF ChunksOf
<1>2. ASSUME NEW i \in 1..ChunksPerBlock
      PROVE  Chained(b)[t[i]] = IF i = ChunksPerBlock THEN Null ELSE t[i + 1]
  <2>1. t[i] \in Chunk /\ t[i][1] = b /\ t[i][2] = i
    BY DEF Chunk
  <2>2. Chained(b)[t[i]] = IF i < ChunksPerBlock THEN <<b, i + 1>> ELSE Null
    BY <2>1 DEF Chained
  <2> QED
    BY <2>2
<1>3. \A i, j \in 1..ChunksPerBlock : t[i] = t[j] => i = j
  OBVIOUS
<1>4. \A c \in ChunksOf({b}) : \E i \in 1..ChunksPerBlock : t[i] = c
  BY DEF ChunksOf
<1>5. <<b, 1>> = t[1]
  OBVIOUS
<1>6. Lists(ChunksPerBlock, t, ChunksOf({b}), <<b, 1>>, Chained(b))
  BY <1>2, <1>3, <1>4, <1>5 DEF Lists
<1> HIDE DEF t
<1> QED
  BY <1>1, <1>6 DEF IsListOf

-----------------------------------------------------------------------------
\* allocate() from a non-empty list.
LEMMA AllocateInv == Inv /\ Allocate => Inv'
<1> SUFFICES ASSUME Inv, Allocate PROVE Inv'
  OBVIOUS
<1> USE DbjPoolAssumption
<1>1. IsListOf(Nat, Free, next_free, next)
  BY DEF Inv, ListInv, Allocate
<1>2. next_free # Null
  BY DEF Allocate
<1>3. Free \subseteq Chunk /\ Owned \subseteq Block
  BY DEF Inv, TypeOK, RegistryInv, Free, ChunksOf, Chunk
<1>4. /\ next_free \in Free
      /\ IsListOf(Nat, Free \ {next_free}, next[next_free],
                  [next EXCEPT ![next_free] = Null])
  BY <1>1, <1>2, <1>3, PopList DEF Inv, TypeOK
<1>5. Owned' = Owned /\ held' = held \union {next_free} /\ Free' = Free \ {next_free}
  BY DEF Allocate, Bump, registry, Owned, Free
<1>6. TypeOK'
  BY <1>3, <1>4 DEF Inv, TypeOK, Allocate, Bump, registry
<1>7. RegistryInv'
  BY <1>5 DEF Inv, RegistryInv, Allocate, registry
<1>8. held' \subseteq ChunksOf(Owned')
  BY <1>4, <1>5 DEF Inv, Free
<1>9. DeallocateAsserts'
  <2>1. ASSUME NEW c \in held' PROVE in_use'[c] /\ next'[c] = Null
    BY <1>3, <1>4, <1>5 DEF Inv, TypeOK, DeallocateAsserts, Allocate, Bump
  <2>2. ASSUME NEW c \in Free' PROVE ~in_use'[c]
    BY <1>3, <1>5 DEF Inv, TypeOK, DeallocateAsserts, Allocate, Bump
  <2> QED
    BY <2>1, <2>2 DEF DeallocateAsserts
<1>10. ListInv'
  BY <1>4, <1>5 DEF ListInv, Allocate, Bump
<1>11. StopInv'
  BY DEF StopInv, Allocate
<1> QED
  BY <1>6, <1>7, <1>8, <1>9, <1>10, <1>11 DEF Inv

\* allocate() when the list is empty: a block is taken, chained and popped.
LEMMA AllocateNewBlockInv == Inv /\ AllocateNewBlock => Inv'
<1> SUFFICES ASSUME Inv, AllocateNewBlock PROVE Inv'
  OBVIOUS
<1> USE DbjPoolAssumption
<1>1. PICK b \in Block \ heap :
        /\ heap' = heap \union {b}
        /\ blocks' = [blocks EXCEPT ![level] = b]
        /\ Bump(<<b, 1>>, Chained(b), Unused(b))
  BY DEF AllocateNewBlock
<1> DEFINE head == <<b, 1>>
           fresh == ChunksOf({b})
<1>2. TypeOK /\ RegistryInv /\ level < MaxBlocks /\ level' = level + 1
      /\ status = "running" /\ status' = status /\ next_free = Null
  BY DEF Inv, AllocateNewBlock
<1>3. Owned' = Owned \union {b} /\ b \notin Owned /\ Owned \subseteq Block
  BY <1>1, <1>2, AppendOwned DEF RegistryInv, TypeOK
<1>4. Free = {}
  <2>1. Null \notin Free
    BY <1>3 DEF Free, ChunksOf
  <2> QED
    BY <2>1, <1>2, EmptyList DEF Inv, ListInv
<1>5. head \in fresh /\ head \in Chunk /\ fresh \subseteq Chunk
  BY DEF ChunksOf, Chunk
<1>6. Chained(b) \in [Chunk -> Chunk \union {Null}]
  <2> SUFFICES ASSUME NEW c \in Chunk, c[1] = b, c[2] < ChunksPerBlock
               PROVE  <<b, c[2] + 1>> \in Chunk
    BY <1>2 DEF Chained, TypeOK
  <2> QED
    BY DEF Chunk
<1>7. Unused(b) \in [Chunk -> BOOLEAN]
  BY <1>2 DEF Unused, TypeOK
<1>8. /\ head \in fresh
      /\ IsListOf(Nat, fresh \ {head}, Chained(b)[head], [Chained(b) EXCEPT ![head] = Null])
  <2>1. IsListOf(Nat, fresh, head, Chained(b))
    BY <1>2, ChainList
  <2>2. head # Null
    BY <1>5 DEF Chunk
  <2> HIDE DEF head, fresh
  <2> QED
    BY <2>1, <2>2, <1>5, <1>6, PopList
<1>9. ChunksOf(Owned') = ChunksOf(Owned) \union fresh
      /\ ChunksOf(Owned) \cap fresh = {} /\ held' = held \union {head}
  BY <1>1, <1>3 DEF ChunksOf, Bump
<1>10. Free' = fresh \ {head}
  BY <1>4, <1>5, <1>9 DEF Inv, Free
<1>11. TypeOK'
  <2>1. blocks' \in [Slot -> Block \union {Null}] /\ level' \in 0..MaxBlocks
    BY <1>1, <1>2 DEF TypeOK, Slot
  <2>2. /\ next' \in [Chunk -> Chunk \union {Null}] /\ in_use' \in [Chunk -> BOOLEAN]
        /\ next_free' \in Chunk \union {Null} /\ held' \subseteq Chunk
    BY <1>1, <1>2, <1>5, <1>6, <1>7 DEF TypeOK, Bump
  <2> QED
    BY <2>1, <2>2, <1>1, <1>2 DEF TypeOK
<1>12. RegistryInv'
  <2>1. \A j \in Slot : blocks'[j] # Null <=> j < level'
    BY <1>1, <1>2 DEF TypeOK, RegistryInv, Slot
  <2>2. \A j \in Slot : blocks'[j] = IF j = level THEN b ELSE blocks[j]
    BY <1>1, <1>2 DEF TypeOK
  <2>3. \A j \in Slot : blocks[j] # b
    BY <1>3 DEF Owned
  <2>4. \A i, j \in Slot : blocks'[i] = blocks'[j] /\ blocks'[i] # Null => i = j
    BY <2>2, <2>3, <1>2 DEF RegistryInv
  <2> QED
    BY <2>1, <2>4, <1>1, <1>2, <1>3 DEF RegistryInv
<1>13. held' \subseteq ChunksOf(Owned')
  BY <1>5, <1>9 DEF Inv
<1>14. DeallocateAsserts'
  <2>1. ASSUME NEW c \in held' PROVE in_use'[c] /\ next'[c] = Null
    <3>1. CASE c = head
      BY <3>1, <1>1, <1>5, <1>6, <1>7 DEF Bump
    <3>2. CASE c # head
      <4>1. c \in held /\ c \notin fresh /\ c \in Chunk
        BY <3>2, <1>2, <1>9 DEF Inv, TypeOK
      <4>2. c[1] # b
        BY <4>1 DEF Chunk, ChunksOf
      <4>3. Chained(b)[c] = next[c] /\ Unused(b)[c] = in_use[c]
        BY <4>1, <4>2 DEF Chained, Unused
      <4>4. next'[c] = Chained(b)[c] /\ in_use'[c] = Unused(b)[c]
        BY <3>2, <4>1, <1>1, <1>6, <1>7 DEF Bump
      <4> QED
        BY <4>1, <4>3, <4>4 DEF Inv, DeallocateAsserts
    <3> QED
      BY <3>1, <3>2
  <2>2. ASSUME NEW c \in Free' PROVE ~in_use'[c]
    <3>1. c \in Chunk /\ c # head /\ c[1] = b
      BY <1>5, <1>10 DEF ChunksOf
    <3> QED
      BY <3>1, <1>1, <1>7 DEF Bump, Unused
  <2> QED
    BY <2>1, <2>2 DEF DeallocateAsserts
<1>15. ListInv'
  BY <1>1, <1>8, <1>10 DEF ListInv, Bump
<1>16. StopInv'
  BY <1>2 DEF StopInv
<1> QED
  BY <1>11, <1>12, <1>13, <1>14, <1>15, <1>16 DEF Inv

\* The two assertions that stop the program leave the pool as it was.
LEMMA TrapInv == Inv /\ (HeapRefuses \/ RegistryFull) => Inv'
<1> SUFFICES ASSUME Inv, HeapRefuses \/ RegistryFull PROVE Inv'
  OBVIOUS
<1>1. /\ UNCHANGED <<registry, next, in_use, next_free, held>>
      /\ status = "running"
      /\ status' \in {"no_memory", "registry_full"}
      /\ heap \subseteq heap' /\ heap' \subseteq heap \union Block
  BY DEF HeapRefuses, RegistryFull
<1>2. Owned' = Owned /\ Free' = Free
  BY <1>1 DEF registry, Owned, Free
<1>3. TypeOK'
  BY <1>1 DEF Inv, TypeOK, registry
<1>4. RegistryInv'
  BY <1>1, <1>2 DEF Inv, RegistryInv, registry
<1>5. DeallocateAsserts' /\ ListInv' /\ held' \subseteq ChunksOf(Owned')
  BY <1>1, <1>2 DEF Inv, DeallocateAsserts, ListInv
<1>6. StopInv'
  <2> SUFFICES ASSUME status' = "registry_full" PROVE level' = MaxBlocks /\ Free' = {}
    BY DEF StopInv
  <2>1. level = MaxBlocks /\ level' = level /\ next_free = Null
    BY DEF HeapRefuses, RegistryFull, registry
  <2>2. Null \notin Free
    BY DbjPoolAssumption DEF Inv, TypeOK, Free, ChunksOf, Owned
  <2> QED
    BY <1>1, <1>2, <2>1, <2>2, EmptyList DEF Inv, ListInv
<1> QED
  BY <1>3, <1>4, <1>5, <1>6 DEF Inv

\* deallocate() of a chunk the client holds.
LEMMA DeallocateInv == ASSUME NEW c \in Chunk PROVE Inv /\ Deallocate(c) => Inv'
<1> SUFFICES ASSUME Inv, Deallocate(c) PROVE Inv'
  OBVIOUS
<1> USE DbjPoolAssumption
<1>1. Free \subseteq Chunk /\ c \notin Free /\ c \in ChunksOf(Owned)
  BY DEF Inv, TypeOK, Free, Deallocate, Owned, ChunksOf, Chunk
<1>2. Owned' = Owned /\ held' = held \ {c} /\ Free' = Free \union {c}
  <2>1. Owned' = Owned /\ held' = held \ {c}
    BY DEF Deallocate, registry, Owned
  <2> QED
    BY ONLY <1>1, <2>1 DEF Free, ChunksOf
<1>3. TypeOK'
  BY DEF Inv, TypeOK, Deallocate, registry
<1>4. RegistryInv'
  BY <1>2 DEF Inv, RegistryInv, Deallocate, registry
<1>5. held' \subseteq ChunksOf(Owned')
  BY <1>2 DEF Inv
<1>6. DeallocateAsserts'
  BY <1>1, <1>2 DEF Inv, TypeOK, DeallocateAsserts, Deallocate
<1>7. IsListOf(Nat, Free \union {c}, c, [next EXCEPT ![c] = next_free])
  BY <1>1, PushList DEF Inv, TypeOK, ListInv, Deallocate
<1>8. ListInv'
  BY <1>2, <1>7 DEF ListInv, Deallocate
<1>9. StopInv'
  BY DEF StopInv, Deallocate
<1> QED
  BY <1>3, <1>4, <1>5, <1>6, <1>8, <1>9 DEF Inv

\* The pool's destructor.
LEMMA DestroyInv == Inv /\ Destroy => Inv'
<1> SUFFICES ASSUME Inv, Destroy PROVE Inv'
  OBVIOUS
<1> USE DbjPoolAssumption
<1>1. /\ Owned = {blocks[j] : j \in Visited}
      /\ \A j \in Slot : j \in Visited <=> blocks[j] # Null
  BY VisitedAll DEF Inv
<1>2. blocks' = [j \in Slot |-> Null]
  BY <1>1 DEF Destroy, Inv, TypeOK
<1>3. Owned' = {} /\ heap' = {} /\ held' = {} /\ level' = 0 /\ status' = "destroyed"
  BY <1>1, <1>2 DEF Owned, Destroy, Inv, RegistryInv
<1>4. TypeOK'
  BY <1>2, <1>3 DEF Destroy, Inv, TypeOK
<1>5. RegistryInv'
  BY <1>2, <1>3 DEF RegistryInv, Slot
<1>6. held' \subseteq ChunksOf(Owned') /\ DeallocateAsserts'
  BY <1>3 DEF DeallocateAsserts, Free, ChunksOf
<1> QED
  BY <1>3, <1>4, <1>5, <1>6 DEF Inv, ListInv, StopInv

-----------------------------------------------------------------------------
LEMMA StepInv == Inv /\ [Next]_vars => Inv'
<1> SUFFICES ASSUME Inv, [Next]_vars PROVE Inv'
  OBVIOUS
<1>1. CASE Allocate
  BY <1>1, AllocateInv
<1>2. CASE AllocateNewBlock
  BY <1>2, AllocateNewBlockInv
<1>3. CASE HeapRefuses \/ RegistryFull
  BY <1>3, TrapInv
<1>4. CASE \E c \in Chunk : Deallocate(c)
  BY <1>4, DeallocateInv
<1>5. CASE Destroy
  BY <1>5, DestroyInv
<1>6. CASE UNCHANGED vars
  BY <1>6 DEF vars, Inv, TypeOK, RegistryInv, StopInv, DeallocateAsserts, ListInv,
                Owned, Free, registry
<1> QED
  BY <1>1, <1>2, <1>3, <1>4, <1>5, <1>6 DEF Next

LEMMA InvHolds == Spec => []Inv
<1> QED
  BY InitInv, StepInv, PTL DEF Spec

LEMMA ListLength == Inv => FreeListExact
  BY ListCardinality DEF Inv, ListInv, FreeListExact

\* The pool's fields keep the values their types allow.
THEOREM TypeCorrect == Spec => []TypeOK
<1>1. Inv => TypeOK
  BY DEF Inv
<1> QED
  BY <1>1, InvHolds, PTL

\* The list from next_free_chunk_ is at all times null-terminated and made of
\* exactly the chunks that are not with the client, each once: allocate() and
\* deallocate() lose no chunk and never thread one in twice.
THEOREM FreeListCorrect == Spec => []FreeListExact
<1> QED
  BY ListLength, InvHolds, PTL

\* deallocate()'s assertions cannot fail for a client that frees each pointer
\* it got once.
THEOREM AssertionsHold == Spec => []DeallocateAsserts
<1>1. Inv => DeallocateAsserts
  BY DEF Inv
<1> QED
  BY <1>1, InvHolds, PTL

\* ~block_registry frees every block the pool took.
THEOREM NoBlockLeaked == Spec => []NothingLeaked
<1>1. Inv => NothingLeaked
  BY VisitedAll DEF Inv, NothingLeaked, RegistryInv
<1> QED
  BY <1>1, InvHolds, PTL

\* No chunk that report() lists as free or next free is in use.
THEOREM ReportSound == Spec => []ReportedFreeIsFree
<1>1. Inv => ReportedFreeIsFree
  <2> SUFFICES ASSUME Inv, NEW c \in ChunksOf(Owned), Reported(c) \in {"next_free", "free"},
                      status = "running"
               PROVE  ~in_use[c]
    BY DEF ReportedFreeIsFree
  <2>1. CASE c \in held
    <3>1. next[c] = Null
      BY <2>1 DEF Inv, DeallocateAsserts
    <3>2. c = next_free
      BY <3>1 DEF Reported
    <3>3. Free \subseteq Chunk /\ next_free # Null
      BY <3>2, DbjPoolAssumption DEF Inv, TypeOK, Free, ChunksOf, Chunk, Owned
    <3>4. next_free \in Free
      BY <3>3, PopList DEF Inv, ListInv, TypeOK
    <3> QED
      BY <2>1, <3>2, <3>4 DEF Free
  <2>2. CASE c \notin held
    BY <2>2 DEF Inv, DeallocateAsserts, Free
  <2> QED
    BY <2>1, <2>2
<1> QED
  BY <1>1, InvHolds, PTL

\* The registry names level_ different blocks.
LEMMA RegistrySize ==
    ASSUME TypeOK, RegistryInv
    PROVE  IsFiniteSet(Owned) /\ Cardinality(Owned) = level
<1> DEFINE f == [i \in 1..level |-> blocks[i - 1]]
<1> USE DbjPoolAssumption
<1>1. \A j \in Slot : j < level => blocks[j] \in Owned /\ blocks[j] # Null
  BY DEF RegistryInv, Owned, Slot
<1>2. \A i \in 1..level : i - 1 \in Slot /\ i - 1 < level /\ f[i] = blocks[i - 1]
  BY DEF Slot, TypeOK
<1>3. f \in [1..level -> Owned]
  BY <1>1, <1>2
<1>4. \A i, j \in 1..level : f[i] = f[j] => i = j
  BY <1>1, <1>2 DEF RegistryInv, TypeOK
<1>5. \A b \in Owned : \E i \in 1..level : f[i] = b
  <2> SUFFICES ASSUME NEW j \in Slot, blocks[j] # Null
               PROVE  \E i \in 1..level : f[i] = blocks[j]
    BY DEF Owned
  <2>1. j + 1 \in 1..level /\ (j + 1) - 1 = j
    BY DEF RegistryInv, Slot, TypeOK
  <2> QED
    BY <1>2, <2>1
<1> HIDE DEF f
<1>6. f \in Bijection(1..level, Owned)
  BY <1>3, <1>4, <1>5 DEF Bijection, Injection, Surjection, IsInjective
<1>7. level \in Nat
  BY DEF TypeOK
<1> QED
  BY <1>6, <1>7, FS_CountingElements, FS_NatBijection DEF ExistsBijection

\* append() finds no room only when clients hold every chunk of MaxBlocks
\* blocks: the limit is the registry's size and nothing less.
THEOREM StopsAtTheLimit == Spec => []StopsOnlyWhenExhausted
<1>1. Inv => StopsOnlyWhenExhausted
  BY RegistrySize DEF Inv, StopInv, StopsOnlyWhenExhausted, Free
<1> QED
  BY <1>1, InvHolds, PTL

-----------------------------------------------------------------------------
LEMMA InitMaps == Init => Pool!Init
<1>1. Init => Owned = {}
  BY DEF Init, Owned
<1> QED
  BY <1>1 DEF Init, Pool!Init

LEMMA StepMaps == Inv /\ [Next]_vars => [Pool!Next]_(Pool!vars)
<1> SUFFICES ASSUME Inv, [Next]_vars PROVE Pool!Next \/ UNCHANGED Pool!vars
  OBVIOUS
<1> USE DbjPoolAssumption
<1>0. Free \subseteq Chunk /\ Owned \subseteq Block
  BY DEF Inv, TypeOK, Free, ChunksOf, Chunk, Owned
<1>1. CASE Allocate
  <2>1. next_free \in Free
    <3>1. IsListOf(Nat, Free, next_free, next) /\ next_free # Null
      BY <1>1 DEF Inv, ListInv, Allocate
    <3>2. Free \in SUBSET Chunk /\ next \in [Chunk -> Chunk \union {Null}]
      BY <1>0 DEF Inv, TypeOK
    <3> QED
      BY <3>1, <3>2, PopList
  <2>2. Owned' = Owned /\ status' = status /\ status = "running"
        /\ held' = held \union {next_free}
    BY <1>1 DEF Allocate, Bump, registry, Owned
  <2>3. Pool!Reuse
    BY <2>1, <2>2 DEF Pool!Reuse, Pool!ChunksOf, Free, ChunksOf
  <2> QED
    BY <2>3 DEF Pool!Next
<1>2. CASE AllocateNewBlock
  <2>1. PICK b \in Block \ heap :
          /\ blocks' = [blocks EXCEPT ![level] = b]
          /\ Bump(<<b, 1>>, Chained(b), Unused(b))
    BY <1>2 DEF AllocateNewBlock
  <2>2. status = "running" /\ status' = status /\ level < MaxBlocks /\ next_free = Null
    BY <1>2 DEF AllocateNewBlock
  <2>3. Owned' = Owned \union {b} /\ b \notin Owned
    BY <2>1, <2>2, AppendOwned DEF Inv, RegistryInv
  <2>4. Free = {}
    BY <1>0, <2>2, EmptyList DEF Inv, ListInv, Chunk
  <2>5. held' = held \union {<<b, 1>>} /\ <<b, 1>> \in ChunksOf({b})
    BY <2>1 DEF Bump, ChunksOf
  <2>6. Pool!Grow
    BY <2>2, <2>3, <2>4, <2>5 DEF Pool!Grow, Pool!ChunksOf, Free, ChunksOf
  <2> QED
    BY <2>6 DEF Pool!Next
<1>3. CASE HeapRefuses \/ RegistryFull
  <2>1. Owned' = Owned /\ held' = held /\ status # "destroyed" /\ status' # "destroyed"
    BY <1>3 DEF HeapRefuses, RegistryFull, registry, Owned
  <2> QED
    BY <2>1 DEF Pool!vars
<1>4. CASE \E c \in Chunk : Deallocate(c)
  <2>1. PICK c \in held : held' = held \ {c} /\ Owned' = Owned /\ status' = status
                          /\ status = "running"
    BY <1>4 DEF Deallocate, registry, Owned
  <2>2. Pool!Release
    BY <2>1 DEF Pool!Release
  <2> QED
    BY <2>2 DEF Pool!Next
<1>5. CASE Destroy
  <2>1. Owned' = {} /\ held' = {} /\ status' = "destroyed" /\ status = "running"
    BY <1>5, VisitedAll DEF Destroy, Inv, TypeOK, Owned
  <2>2. Pool!Destroy
    BY <2>1 DEF Pool!Destroy
  <2> QED
    BY <2>2 DEF Pool!Next
<1>6. CASE UNCHANGED vars
  BY <1>6 DEF vars, Pool!vars, Owned
<1> QED
  BY <1>1, <1>2, <1>3, <1>4, <1>5, <1>6 DEF Next

\* dbj_pool_allocator implements ChunkPool: it never hands out a chunk that is
\* with a client, and takes a block from the heap only when every chunk of the
\* blocks it has is with the client.
THEOREM Refinement == Spec => ImplementsChunkPool
<1> QED
  BY InitMaps, StepMaps, InvHolds, PTL DEF Spec, Pool!Spec, ImplementsChunkPool

-----------------------------------------------------------------------------
(* The layout of the chunks, for every object size, every number of chunks *)
(* per block and both word sizes (DbjPoolMemory).                          *)

\* align() rounds up to a whole number of words, by less than a word.
LEMMA AlignUp ==
    ASSUME NEW n \in Nat
    PROVE  align(n) \in Nat /\ n <= align(n) /\ align(n) < n + Word /\ align(n) % Word = 0
<1>1. CASE Word = 4
  BY <1>1 DEF align
<1>2. CASE Word = 8
  BY <1>2 DEF align
<1> QED
  BY <1>1, <1>2, ChunkLayoutAssumption

\* A chunk is long enough for its header and an object of the requested size.
LEMMA ChunkHoldsObject ==
    ASSUME NEW size \in Nat
    PROVE  /\ chunk_allocation_size(constructedSize(size)) \in Nat
           /\ offsetofData \in Nat
           /\ offsetofData + size <= chunk_allocation_size(constructedSize(size))
<1>1. Word \in {4, 8}
  BY ChunkLayoutAssumption
<1>2. constructedSize(size) \in Nat /\ size <= constructedSize(size)
  BY <1>1, AlignUp DEF constructedSize, sizeofChunk
<1> QED
  BY <1>1, <1>2, AlignUp DEF chunk_allocation_size, sizeofChunk, offsetofData

\* The stride of chunks is a whole number of words.
LEMMA WholeWords ==
    ASSUME NEW size \in Nat
    PROVE  \E q \in Nat : chunk_allocation_size(constructedSize(size)) = Word * q
<1>1. Word \in {4, 8}
  BY ChunkLayoutAssumption
<1>2. constructedSize(size) \in Nat
  BY <1>1, AlignUp DEF constructedSize, sizeofChunk
<1> DEFINE n == align(constructedSize(size))
<1>3. n \in Nat /\ n % Word = 0
  BY <1>2, AlignUp
<1>4. chunk_allocation_size(constructedSize(size)) = n + 2 * Word
  BY <1>1, <1>3 DEF chunk_allocation_size, sizeofChunk
<1> HIDE DEF n
<1>5. CASE Word = 4
  <2>1. n \div 4 \in Nat /\ n = 4 * (n \div 4)
    BY <1>3, <1>5
  <2>2. n \div 4 + 2 \in Nat
    BY <2>1
  <2>3. chunk_allocation_size(constructedSize(size)) = Word * (n \div 4 + 2)
    BY <2>1, <1>3, <1>4, <1>5
  <2> QED
    BY <2>2, <2>3
<1>6. CASE Word = 8
  <2>1. n \div 8 \in Nat /\ n = 8 * (n \div 8)
    BY <1>3, <1>6
  <2>2. n \div 8 + 2 \in Nat
    BY <2>1
  <2>3. chunk_allocation_size(constructedSize(size)) = Word * (n \div 8 + 2)
    BY <2>1, <1>3, <1>4, <1>6
  <2> QED
    BY <2>2, <2>3
<1> QED
  BY <1>1, <1>5, <1>6

\* Objects written at the pointers that clients hold overlap no other chunk's
\* link, flag or object, and stay within their block.
LEMMA ObjectsDoNotOverlap == TypeOK => ObjectsApart
<1> SUFFICES ASSUME TypeOK, NEW size \in Request, NEW c \in held
             PROVE  /\ Data(c, size) + size <= BlockEnd(size)
                    /\ \A n \in 1..ChunksPerBlock :
                         LET d == <<c[1], n>> IN
                         \/ d = c /\ Start(d, size) + offsetofData <= Data(c, size)
                         \/ Data(d, size) + size <= Start(c, size)
                         \/ Data(c, size) + size <= Start(d, size)
  BY DEF ObjectsApart
<1> DEFINE stride == chunk_allocation_size(constructedSize(size))
<1>1. size \in Nat /\ ChunksPerBlock \in Nat
  BY RequestAssumption, DbjPoolAssumption
<1>2. c \in Block \X (1..ChunksPerBlock) /\ c[2] \in 1..ChunksPerBlock
  BY DEF TypeOK, Chunk
<1>3. stride \in Nat /\ offsetofData \in Nat /\ offsetofData + size <= stride
  BY <1>1, ChunkHoldsObject
<1>4. /\ BlockEnd(size) = ChunksPerBlock * stride
      /\ \A d : Start(d, size) = (d[2] - 1) * stride
      /\ \A d : Data(d, size) = (d[2] - 1) * stride + offsetofData
  BY DEF BlockEnd, Start, Data, chunkAt, dataAt
<1> HIDE DEF stride
<1>5. ASSUME NEW i \in Nat, NEW j \in Nat, i < j
      PROVE  /\ i * stride \in Nat /\ j * stride \in Nat
             /\ i * stride + offsetofData + size <= j * stride
  <2>1. j * stride = i * stride + (j - i) * stride
    BY <1>3
  <2>2. (j - i) * stride = stride + (j - i - 1) * stride
    BY <1>3
  <2>3. \A k \in Nat : k * stride \in Nat
    BY <1>3
  <2>4. j - i - 1 \in Nat
    BY <1>5
  <2> QED
    BY <2>1, <2>2, <2>3, <2>4, <1>1, <1>3
<1>6. Data(c, size) + size <= BlockEnd(size)
  BY <1>1, <1>2, <1>4, <1>5
<1>7. ASSUME NEW n \in 1..ChunksPerBlock
      PROVE  \/ <<c[1], n>> = c /\ Start(<<c[1], n>>, size) + offsetofData <= Data(c, size)
             \/ Data(<<c[1], n>>, size) + size <= Start(c, size)
             \/ Data(c, size) + size <= Start(<<c[1], n>>, size)
  <2>1. CASE n < c[2]
    BY <2>1, <1>1, <1>2, <1>4, <1>5, n - 1 \in Nat, c[2] - 1 \in Nat
  <2>2. CASE n > c[2]
    BY <2>2, <1>1, <1>2, <1>4, <1>5, n - 1 \in Nat, c[2] - 1 \in Nat
  <2>3. CASE n = c[2]
    <3>1. <<c[1], n>> = c
      BY <2>3, <1>2
    <3>2. (c[2] - 1) * stride \in Nat
      BY <1>2, <1>3
    <3> QED
      BY <3>1, <3>2, <1>3, <1>4
  <2> QED
    BY <2>1, <2>2, <2>3, <1>2
<1> QED
  BY <1>6, <1>7

\* Pointers are word aligned.
LEMMA PointersAreAligned == TypeOK => PointersAligned
<1> SUFFICES ASSUME TypeOK, NEW size \in Request, NEW c \in held
             PROVE  Data(c, size) % Word = 0
  BY DEF PointersAligned
<1>1. size \in Nat /\ c[2] \in 1..ChunksPerBlock
  BY RequestAssumption DEF TypeOK, Chunk
<1>2. PICK q \in Nat : chunk_allocation_size(constructedSize(size)) = Word * q
  BY <1>1, WholeWords
<1> DEFINE k == c[2] - 1
<1>3. k \in Nat
  BY <1>1, DbjPoolAssumption
<1>4. Data(c, size) = k * (Word * q) + 2 * Word
  BY <1>2, ChunkLayoutAssumption DEF Data, dataAt, chunkAt, offsetofData, sizeofChunk
<1> HIDE DEF k
<1>5. k * q \in Nat /\ Data(c, size) = Word * (k * q) + 2 * Word
  BY <1>2, <1>3, <1>4, ChunkLayoutAssumption
<1> DEFINE r == k * q
<1> HIDE DEF r
<1>6. r \in Nat /\ Data(c, size) = Word * r + 2 * Word
  BY <1>5 DEF r
<1> QED
  BY <1>6, ChunkLayoutAssumption

\* deallocate() finds the chunk of each pointer.
LEMMA ChunksAreFound == TypeOK => FreesItsChunk
<1> SUFFICES ASSUME TypeOK, NEW size \in Request, NEW c \in held
             PROVE  chunk_from_data(Data(c, size)) = Start(c, size)
  BY DEF FreesItsChunk
<1>1. size \in Nat /\ c[2] \in 1..ChunksPerBlock
  BY RequestAssumption DEF TypeOK, Chunk
<1>2. chunk_allocation_size(constructedSize(size)) \in Nat
  BY <1>1, ChunkHoldsObject
<1>3. Start(c, size) \in Int
  BY <1>1, <1>2, DbjPoolAssumption DEF Start, chunkAt
<1> QED
  BY <1>3, ChunkLayoutAssumption DEF Data, dataAt, Start, chunk_from_data, offsetofData, sizeofChunk

\* Whatever object size a pool is made for: what clients write through their
\* pointers reaches no link, flag or object but their own, pointers are word
\* aligned, and deallocate() computes the chunk they came from.
THEOREM LayoutSound == Spec => []ChunksSound
<1>1. TypeOK => ChunksSound
  BY ObjectsDoNotOverlap, PointersAreAligned, ChunksAreFound DEF ChunksSound
<1> QED
  BY <1>1, TypeCorrect, PTL
-----------------------------------------------------------------------------
(* The benchmark's rounds (PoolSession).                                   *)

\* The client holds what it made in this round and has not deleted: as many
\* chunks as it has pointers, each pointer once.
SessionInv ==
    /\ test_data \in Seq(Chunk)
    /\ Len(test_data) <= DataSize
    /\ removed \in 0..Len(test_data)
    /\ removed > 0 => Len(test_data) = DataSize
    /\ \A i, j \in 1..Len(test_data) : test_data[i] = test_data[j] => i = j
    /\ held = {test_data[i] : i \in (removed + 1)..Len(test_data)}
    /\ loop \in Nat
    /\ loop > Loops => test_data = <<>>

AllInv == Inv /\ SessionInv /\ FewestBlocks

LEMMA UpTo == ASSUME NEW n \in Nat PROVE IsFiniteSet(1..n) /\ Cardinality(1..n) = n
<1>1. 1 \in Int /\ n \in Int
  OBVIOUS
<1> QED
  BY <1>1, FS_Interval

\* allocate() hands out one chunk that was not with the client.
LEMMA OneMore ==
    ASSUME Inv, Allocate \/ AllocateNewBlock
    PROVE  \E c \in Chunk : c \notin held /\ held' = held \union {c}
<1> USE DbjPoolAssumption
<1>1. CASE Allocate
  <2>1. Free \subseteq Chunk
    BY DEF Inv, TypeOK, RegistryInv, Free, ChunksOf, Chunk, Owned
  <2>2. /\ IsListOf(Nat, Free, next_free, next) /\ next_free # Null
        /\ next \in [Chunk -> Chunk \union {Null}]
    BY <1>1 DEF Inv, TypeOK, ListInv, Allocate
  <2>3. next_free \in Free
    BY ONLY <2>1, <2>2, PopList
  <2> QED
    BY <1>1, <2>1, <2>3 DEF Allocate, Bump, Free
<1>2. CASE AllocateNewBlock
  <2>1. PICK b \in Block \ heap : held' = held \union {<<b, 1>>}
    BY <1>2 DEF AllocateNewBlock, Bump
  <2>2. b \notin Owned
    BY <2>1 DEF Inv, RegistryInv
  <2>3. <<b, 1>> \in Chunk /\ <<b, 1>> \notin ChunksOf(Owned)
    BY <2>1, <2>2 DEF Chunk, ChunksOf
  <2> QED
    BY <2>1, <2>3 DEF Inv
<1> QED
  BY <1>1, <1>2

\* A block is taken only when the client holds every chunk there is: fewer
\* than it will hold at the end of its round.
LEMMA BlockNeeded ==
    ASSUME Inv, SessionInv, FewestBlocks, Len(test_data) < DataSize, removed = 0,
           Allocate \/ AllocateNewBlock
    PROVE  FewestBlocks'
<1> USE DbjPoolAssumption, PoolSessionAssumption
<1>1. CASE Allocate
  BY <1>1 DEF FewestBlocks, Allocate, registry
<1>2. CASE AllocateNewBlock
  <2>1. next_free = Null /\ level' = level + 1 /\ level \in Nat
    BY <1>2 DEF AllocateNewBlock, Inv, TypeOK
  <2>2. Null \notin Free
    BY DEF Inv, TypeOK, Free, ChunksOf, Owned
  <2>3. Free = {}
    BY <1>2, <2>1, <2>2, EmptyList DEF Inv, ListInv, AllocateNewBlock
  <2>4. held = ChunksOf(Owned)
    BY <2>3 DEF Inv, Free
  <2>5. IsFiniteSet(Owned) /\ Cardinality(Owned) = level
    BY RegistrySize DEF Inv
  <2>6. IsFiniteSet(1..ChunksPerBlock) /\ Cardinality(1..ChunksPerBlock) = ChunksPerBlock
    <3>1. ChunksPerBlock \in Nat
      OBVIOUS
    <3> QED
      BY <3>1, UpTo, Zenon
  <2>7. IsFiniteSet(held) /\ Cardinality(held) = level * ChunksPerBlock
    <3>1. /\ IsFiniteSet(Owned \X (1..ChunksPerBlock))
          /\ Cardinality(Owned \X (1..ChunksPerBlock)) = Cardinality(Owned) * Cardinality(1..ChunksPerBlock)
      BY <2>5, <2>6, FS_Product, Zenon
    <3> QED
      BY <2>4, <2>5, <2>6, <3>1 DEF ChunksOf
  <2>8. Cardinality(held) <= Len(test_data)
    <3> DEFINE I == 1..Len(test_data)
               g == [i \in I |-> test_data[i]]
    <3>1. g \in Surjection(I, held)
      BY DEF SessionInv, Surjection
    <3>2. Len(test_data) \in Nat
      BY DEF SessionInv
    <3>3. IsFiniteSet(I) /\ Cardinality(I) = Len(test_data)
      BY <3>2, UpTo
    <3> HIDE DEF I, g
    <3>4. Cardinality(held) <= Cardinality(I)
      BY <3>1, <3>3, FS_Surjection
    <3> QED
      BY <3>3, <3>4
  <2>9. Len(test_data) \in Nat
    BY DEF SessionInv
  <2>10. level * ChunksPerBlock < DataSize
    <3>1. level * ChunksPerBlock \in Nat
      BY <2>1
    <3> QED
      BY <2>7, <2>8, <2>9, <3>1
  <2>11. level' * ChunksPerBlock = level * ChunksPerBlock + ChunksPerBlock
    BY <2>1
  <2> QED
    BY <2>1, <2>10, <2>11 DEF FewestBlocks
<1> QED
  BY <1>1, <1>2

LEMMA NewInv == AllInv /\ New => AllInv'
<1> SUFFICES ASSUME AllInv, New PROVE AllInv'
  OBVIOUS
<1>1. Inv /\ SessionInv /\ FewestBlocks /\ (Allocate \/ AllocateNewBlock)
  BY DEF AllInv, New
<1>2. Inv'
  BY <1>1, AllocateInv, AllocateNewBlockInv
<1>3. FewestBlocks'
  BY <1>1, BlockNeeded DEF New, Filling
<1>4. PICK c \in Chunk : c \notin held /\ held' = held \union {c}
  BY <1>1, OneMore
<1>5. test_data' = Append(test_data, c)
  <2>1. (CHOOSE d \in held' : d \notin held) = c
    BY <1>4
  <2> QED
    BY <2>1 DEF New
<1>6. removed' = removed /\ loop' = loop /\ removed = 0 /\ loop <= Loops /\ Len(test_data) < DataSize
  BY DEF New, Filling
<1>7. /\ test_data \in Seq(Chunk) /\ Len(test_data) \in Nat
      /\ \A i \in 1..Len(test_data) : test_data[i] \in held
  BY <1>1, <1>6 DEF SessionInv
<1>8. /\ test_data' \in Seq(Chunk)
      /\ Len(test_data') = Len(test_data) + 1
      /\ \A i \in 1..Len(test_data) : test_data'[i] = test_data[i]
      /\ test_data'[Len(test_data) + 1] = c
  BY <1>5, <1>7
<1>9. \A i, j \in 1..Len(test_data') : test_data'[i] = test_data'[j] => i = j
  <2>1. \A i \in 1..Len(test_data) : test_data'[i] # c
    BY <1>4, <1>7, <1>8
  <2>2. \A i \in 1..Len(test_data') : i \in 1..Len(test_data) \/ i = Len(test_data) + 1
    BY <1>7, <1>8
  <2> QED
    BY <1>1, <1>8, <2>1, <2>2 DEF SessionInv
<1>10. held' = {test_data'[i] : i \in (removed' + 1)..Len(test_data')}
  <2>1. 1..Len(test_data') = (1..Len(test_data)) \union {Len(test_data) + 1}
    BY <1>7, <1>8
  <2>2. held = {test_data[i] : i \in 1..Len(test_data)}
    BY <1>1, <1>6 DEF SessionInv
  <2>3. held' = {test_data'[i] : i \in 1..Len(test_data')}
    BY <1>4, <1>8, <2>1, <2>2
  <2> QED
    BY <1>6, <2>3
<1>11. SessionInv'
  BY <1>1, <1>6, <1>7, <1>8, <1>9, <1>10, PoolSessionAssumption DEF SessionInv
<1> QED
  BY <1>2, <1>3, <1>11 DEF AllInv

LEMMA DeleteInv == AllInv /\ Delete => AllInv'
<1> SUFFICES ASSUME AllInv, Delete PROVE AllInv'
  OBVIOUS
<1> DEFINE c == test_data[removed + 1]
<1>1. Inv /\ SessionInv /\ FewestBlocks /\ Deallocate(c)
  BY DEF AllInv, Delete
<1>2. c \in held /\ c \in Chunk /\ held' = held \ {c}
  BY <1>1 DEF Deallocate, Inv, TypeOK
<1>3. Inv'
  BY <1>1, <1>2, DeallocateInv
<1>4. FewestBlocks'
  BY <1>1 DEF FewestBlocks, Deallocate, registry
<1>5. /\ removed' = removed + 1 /\ test_data' = test_data /\ loop' = loop
      /\ Len(test_data) = DataSize /\ removed < DataSize /\ removed \in Nat
  BY <1>1 DEF Delete, SessionInv
<1>6. held' = {test_data'[i] : i \in (removed' + 1)..Len(test_data')}
  <2>1. DataSize \in Nat
    BY PoolSessionAssumption
  <2>2. (removed + 1)..DataSize = ((removed' + 1)..DataSize) \union {removed + 1}
    BY <1>5, <2>1
  <2>3. \A i \in (removed' + 1)..DataSize : test_data[i] # c
    <3>1. \A i \in (removed' + 1)..DataSize : i \in 1..DataSize /\ i # removed + 1
      BY <1>5, <2>1
    <3>2. removed + 1 \in 1..DataSize
      BY <1>5, <2>1
    <3> QED
      BY <1>1, <1>5, <3>1, <3>2 DEF SessionInv
  <2>4. held = {test_data[i] : i \in (removed + 1)..DataSize}
    BY <1>1, <1>5 DEF SessionInv
  <2> QED
    BY <1>2, <1>5, <2>2, <2>3, <2>4
<1>7. SessionInv'
  BY <1>1, <1>5, <1>6, PoolSessionAssumption DEF SessionInv
<1> QED
  BY <1>3, <1>4, <1>7 DEF AllInv

\* The start, the end of a round, the end of the program, and an assertion that
\* stops it.
LEMMA RestInv == AllInv /\ (NewStops \/ Repeat \/ Exit \/ UNCHANGED <<vars, session>>) => AllInv'
<1> USE PoolSessionAssumption, DbjPoolAssumption
<1>1. ASSUME AllInv, NewStops PROVE AllInv'
  <2>1. Inv'
    BY <1>1, TrapInv DEF AllInv, NewStops
  <2>2. SessionInv' /\ FewestBlocks'
    BY <1>1 DEF AllInv, SessionInv, FewestBlocks, NewStops, HeapRefuses, RegistryFull, session, registry
  <2> QED
    BY <2>1, <2>2 DEF AllInv
<1>2. ASSUME AllInv, Repeat PROVE AllInv'
  <2>1. Inv' /\ FewestBlocks'
    BY <1>2, StepInv DEF AllInv, Repeat, FewestBlocks, vars
  <2>2. held' = {}
    BY <1>2 DEF AllInv, SessionInv, Repeat, vars
  <2>3. SessionInv'
    BY <1>2, <2>2 DEF AllInv, SessionInv, Repeat
  <2> QED
    BY <2>1, <2>3 DEF AllInv
<1>3. ASSUME AllInv, Exit PROVE AllInv'
  <2>1. Inv'
    BY <1>3, DestroyInv DEF AllInv, Exit
  <2>2. level' = 0 /\ held' = {} /\ test_data = <<>> /\ UNCHANGED session
    BY <1>3 DEF AllInv, SessionInv, Exit, Destroy
  <2>3. SessionInv' /\ FewestBlocks'
    BY <1>3, <2>2 DEF AllInv, SessionInv, FewestBlocks, session
  <2> QED
    BY <2>1, <2>3 DEF AllInv
<1>4. ASSUME AllInv, UNCHANGED <<vars, session>> PROVE AllInv'
  <2>1. Inv'
    BY <1>4, StepInv DEF AllInv
  <2>2. SessionInv' /\ FewestBlocks'
    BY <1>4 DEF AllInv, SessionInv, FewestBlocks, vars, session
  <2> QED
    BY <2>1, <2>2 DEF AllInv
<1> QED
  BY <1>1, <1>2, <1>3, <1>4

LEMMA SessionInitInv == SessionInit => AllInv
<1> SUFFICES ASSUME SessionInit PROVE AllInv
  OBVIOUS
<1> USE PoolSessionAssumption, DbjPoolAssumption
<1>1. Inv
  BY InitInv DEF SessionInit
<1>2. level = 0 /\ held = {} /\ test_data = <<>> /\ removed = 0 /\ loop = 1
  BY DEF SessionInit, Init
<1>3. SessionInv /\ FewestBlocks
  BY <1>2 DEF SessionInv, FewestBlocks
<1> QED
  BY <1>1, <1>3 DEF AllInv

\* However many objects a round makes, in blocks of whatever length, and however
\* many rounds there are, the benchmark's pool never has a block more than one
\* round needs: what a round gives back serves the next.
THEOREM FewestBlocksTaken == SessionSpec => []FewestBlocks
<1>1. AllInv /\ [SessionNext]_<<vars, session>> => AllInv'
  BY NewInv, DeleteInv, RestInv DEF SessionNext
<1>2. AllInv => FewestBlocks
  BY DEF AllInv
<1> QED
  BY <1>1, <1>2, SessionInitInv, PTL DEF SessionSpec
=============================================================================
