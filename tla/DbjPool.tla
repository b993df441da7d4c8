------------------------------- MODULE DbjPool -------------------------------
(***************************************************************************)
(* dbj_pool_allocator (dbj_pool_allocator/dbj_shoshnikov_pool_allocator.h) *)
(* with its block_registry, in the build with assertions.  A block is what *)
(* one HeapAlloc call returned; its chunks are numbered from 1 in address  *)
(* order, so the walk "chunk_walker + chunk_allocation_size_" is c[2] + 1. *)
(* The pool has no lock: every operation is one step.                      *)
(***************************************************************************)
EXTENDS Integers, FiniteSets, FreeList

CONSTANTS Block,           \* addresses the process heap can return
          ChunksPerBlock,  \* legal_block_size, the constructor's argument
          MaxBlocks        \* block_registry::max_blocks (0xFF in the code)

ASSUME DbjPoolAssumption ==
    /\ ChunksPerBlock \in Nat \ {0}
    /\ MaxBlocks \in Nat \ {0}
    /\ Null \notin Block
    /\ Null \notin Block \X (1..ChunksPerBlock)

VARIABLES
    blocks,     \* block_registry::blocks_
    level,      \* block_registry::level_
    next,       \* Chunk::next of every chunk
    in_use,     \* Chunk::in_use of every chunk
    next_free,  \* next_free_chunk_
    heap,       \* blocks taken from the process heap and not given back
    held,       \* chunks whose data pointer the client has and may free
    status      \* running, destroyed, or the assertion that stopped it

registry == <<blocks, level>>
vars == <<blocks, level, next, in_use, next_free, heap, held, status>>

Slot == 0..(MaxBlocks - 1)
Chunk == Block \X (1..ChunksPerBlock)
ChunksOf(B) == B \X (1..ChunksPerBlock)
Owned == {blocks[j] : j \in Slot} \ {Null}
Free == ChunksOf(Owned) \ held

-----------------------------------------------------------------------------
Init ==
    /\ blocks = [j \in Slot |-> Null]
    /\ level = 0
    /\ next = [c \in Chunk |-> Null]
    /\ in_use = [c \in Chunk |-> FALSE]
    /\ next_free = Null
    /\ heap = {}
    /\ held = {}
    /\ status = "running"

\* Mutant of Chained: the loop links one chunk too few.
ChainedShort(b) ==
    [c \in Chunk |-> IF c[1] # b THEN next[c]
                     ELSE IF c[2] < ChunksPerBlock - 1 THEN <<b, c[2] + 1>> ELSE Null]
\* allocateBlock's loop over a fresh block b: each chunk unused and linked to
\* its neighbour, the last one to nothing.
Chained(b) ==
    [c \in Chunk |-> IF c[1] # b THEN next[c]
                     ELSE IF c[2] < ChunksPerBlock THEN <<b, c[2] + 1>> ELSE Null]
Unused(b) == [c \in Chunk |-> IF c[1] = b THEN FALSE ELSE in_use[c]]

\* Mutant of Bump: the chunk handed out keeps its link.
BumpKeepsLink(head, links, flags) ==
    /\ next_free' = links[head]
    /\ in_use' = [flags EXCEPT ![head] = TRUE]
    /\ next' = links
    /\ held' = held \union {head}

\* allocate() from the chunk "head" on: advance next_free_chunk_ to its
\* successor, mark it used, take it out of the list, give it to the client.
Bump(head, links, flags) ==
    /\ next_free' = links[head]
    /\ in_use' = [flags EXCEPT ![head] = TRUE]
    /\ next' = [links EXCEPT ![head] = Null]
    /\ held' = held \union {head}

Allocate ==
    /\ status = "running"
    /\ next_free # Null
    /\ Bump(next_free, next, in_use)
    /\ UNCHANGED <<registry, heap, status>>

AllocateNewBlock ==
    /\ status = "running"
    /\ next_free = Null
    /\ level < MaxBlocks
    /\ \E b \in Block \ heap :
         /\ heap' = heap \union {b}
         /\ blocks' = [blocks EXCEPT ![level] = b]
         /\ Bump(<<b, 1>>, Chained(b), Unused(b))
    /\ level' = level + 1
    /\ UNCHANGED status

\* HeapAlloc, which may refuse at any call, returns null:
\* _ASSERTE(start_address) stops the program.
HeapRefuses ==
    /\ status = "running"
    /\ next_free = Null
    /\ status' = "no_memory"
    /\ UNCHANGED <<registry, next, in_use, next_free, heap, held>>

\* append() finds its array full: _ASSERT(level_ < max_blocks) stops the
\* program, the block just taken being in no registry.
RegistryFull ==
    /\ status = "running"
    /\ next_free = Null
    /\ level = MaxBlocks
    /\ \E b \in Block \ heap : heap' = heap \union {b}
    /\ status' = "registry_full"
    /\ UNCHANGED <<registry, next, in_use, next_free, held>>

\* Mutant of Deallocate: the freed chunk never becomes the head of the list.
DeallocateForgets(c) ==
    /\ status = "running"
    /\ c \in held
    /\ in_use' = [in_use EXCEPT ![c] = FALSE]
    /\ next' = [next EXCEPT ![c] = next_free]
    /\ held' = held \ {c}
    /\ UNCHANGED <<registry, next_free, heap, status>>

\* A client frees what it holds, once, as operator delete does.
Deallocate(c) ==
    /\ status = "running"
    /\ c \in held
    /\ in_use' = [in_use EXCEPT ![c] = FALSE]
    /\ next' = [next EXCEPT ![c] = next_free]
    /\ next_free' = c
    /\ held' = held \ {c}
    /\ UNCHANGED <<registry, heap, status>>

\* Mutant of Visited: the walk stops one slot short.
VisitedShort == {j \in Slot : j < MaxBlocks - 1 /\ \A i \in 0..j : blocks[i] # Null}

\* The slots for_each and ~block_registry reach: they stop at the first null.
Visited == {j \in Slot : \A i \in 0..j : blocks[i] # Null}

Destroy ==
    /\ status = "running"
    /\ heap' = heap \ {blocks[j] : j \in Visited}
    /\ blocks' = [j \in Slot |-> IF j \in Visited THEN Null ELSE blocks[j]]
    /\ level' = 0
    /\ held' = {}
    /\ status' = "destroyed"
    /\ UNCHANGED <<next, in_use, next_free>>

Next ==
    \/ Allocate
    \/ AllocateNewBlock
    \/ HeapRefuses
    \/ RegistryFull
    \/ \E c \in Chunk : Deallocate(c)
    \/ Destroy

Spec == Init /\ [][Next]_vars

-----------------------------------------------------------------------------
\* The pool's variables hold what their C++ types allow.
TypeOK ==
    /\ blocks \in [Slot -> Block \union {Null}]
    /\ level \in 0..MaxBlocks
    /\ next \in [Chunk -> Chunk \union {Null}]
    /\ in_use \in [Chunk -> BOOLEAN]
    /\ next_free \in Chunk \union {Null}
    /\ heap \subseteq Block
    /\ held \subseteq Chunk
    /\ status \in {"running", "destroyed", "no_memory", "registry_full"}

\* After any sequence of calls the list that starts at next_free_chunk_ is
\* acyclic and contains exactly the free chunks of all blocks: allocate and
\* deallocate neither lose a chunk nor thread one in twice.
FreeListExact ==
    status # "destroyed" => IsListOf({Cardinality(Free)}, Free, next_free, next)

\* What deallocate() asserts of its argument is true of every pointer that a
\* client may legally pass, and no chunk the client lacks is marked in use.
DeallocateAsserts ==
    /\ \A c \in held : in_use[c] /\ next[c] = Null
    /\ \A c \in Free : ~in_use[c]

\* ~block_registry gives every block back: none is skipped by the stop at the
\* first null, and none that the pool still uses is missing from the registry.
NothingLeaked ==
    /\ status = "destroyed" => heap = {}
    /\ status = "running" => heap = {blocks[j] : j \in Visited}

-----------------------------------------------------------------------------
\* pool_alloc_instrument::print_address: the state it reports for a chunk.
Reported(c) ==
    IF c = next_free THEN "next_free"
    ELSE IF next[c] # Null THEN "free"
    ELSE "in_use"

\* A chunk that report() lists as free or next free is never in use, so the
\* "!in_use == true!" warning is never printed.
ReportedFreeIsFree ==
    status = "running" =>
        \A c \in ChunksOf(Owned) :
            Reported(c) \in {"next_free", "free"} => ~in_use[c]

\* The pool stops at a full registry only when clients hold every chunk that
\* max_blocks blocks have: no free chunk is out of allocate()'s reach.
StopsOnlyWhenExhausted ==
    status = "registry_full" =>
        /\ Cardinality(Owned) = MaxBlocks
        /\ held = ChunksOf(Owned)

-----------------------------------------------------------------------------
Pool == INSTANCE ChunkPool WITH owned <- Owned,
                                live <- held,
                                open <- status # "destroyed"

\* The pool keeps the promise of ChunkPool: no chunk handed out twice, a block
\* requested only when every chunk is with the client, none returned early.
ImplementsChunkPool == Pool!Spec
=============================================================================
