------------------------------- MODULE ShoPool -------------------------------
(***************************************************************************)
(* PoolAllocator (shoshnikov_pool_allocator/shoshnikov_pool_allocator.h),  *)
(* the allocator dbj_pool_allocator grew from.  A chunk is its first word: *)
(* the link while the chunk is free, the client's data while it is not, so *)
(* the client overwrites links.  Every caller asks for one size.  There is *)
(* no registry and no destructor: blocks never go back to the heap.        *)
(***************************************************************************)
EXTENDS Integers, FiniteSets, FreeList

CONSTANTS Block,           \* addresses the process heap can return
          ChunksPerBlock,  \* mChunksPerBlock
          Data             \* what a client leaves in a chunk's first word

ASSUME ShoPoolAssumption ==
    /\ ChunksPerBlock \in Nat \ {0}
    /\ Null \notin Block \X (1..ChunksPerBlock)

VARIABLES word,     \* first word of every chunk: Chunk::next or client data
          mAlloc,
          heap,     \* blocks taken from the process heap
          held,     \* chunks that are with the client
          crashed   \* allocateBlock wrote through a null block

vars == <<word, mAlloc, heap, held, crashed>>

Chunk == Block \X (1..ChunksPerBlock)
Free == (heap \X (1..ChunksPerBlock)) \ held

Init ==
    /\ word = [c \in Chunk |-> Null]
    /\ mAlloc = Null
    /\ heap = {}
    /\ held = {}
    /\ crashed = FALSE

\* allocate() from the chunk "head" on; the chunk's own word is left as it is.
Bump(head, words) ==
    /\ mAlloc' = words[head]
    /\ word' = words
    /\ held' = held \union {head}

Allocate ==
    /\ ~crashed
    /\ mAlloc # Null
    /\ Bump(mAlloc, word)
    /\ UNCHANGED <<heap, crashed>>

\* Mutant of Chained: one link too few, as with "i < int(mChunksPerBlock - 2)".
ChainedShort(b) ==
    [c \in Chunk |-> IF c[1] # b THEN word[c]
                     ELSE IF c[2] < ChunksPerBlock - 1 THEN <<b, c[2] + 1>> ELSE Null]
\* allocateBlock's loop over a fresh block.
Chained(b) ==
    [c \in Chunk |-> IF c[1] # b THEN word[c]
                     ELSE IF c[2] < ChunksPerBlock THEN <<b, c[2] + 1>> ELSE Null]

AllocateNewBlock ==
    /\ ~crashed
    /\ mAlloc = Null
    /\ \E b \in Block \ heap :
         /\ heap' = heap \union {b}
         /\ Bump(<<b, 1>>, Chained(b))
    /\ UNCHANGED crashed

\* calloc refuses: the chaining loop, or "chunk->next = nullptr", faults.
HeapRefuses ==
    /\ ~crashed
    /\ mAlloc = Null
    /\ crashed' = TRUE
    /\ UNCHANGED <<word, mAlloc, heap, held>>

\* Mutant of Deallocate: the link is not written before the head moves.
DeallocateUnlinked(c) ==
    /\ ~crashed
    /\ c \in held
    /\ mAlloc' = c
    /\ held' = held \ {c}
    /\ UNCHANGED <<word, heap, crashed>>

Deallocate(c) ==
    /\ ~crashed
    /\ c \in held
    /\ word' = [word EXCEPT ![c] = mAlloc]
    /\ mAlloc' = c
    /\ held' = held \ {c}
    /\ UNCHANGED <<heap, crashed>>

\* The client writes its object, over the place of the link.
ClientWrites(c) ==
    /\ ~crashed
    /\ c \in held
    /\ word' = [word EXCEPT ![c] = Data]
    /\ UNCHANGED <<mAlloc, heap, held, crashed>>

Next ==
    \/ Allocate
    \/ AllocateNewBlock
    \/ HeapRefuses
    \/ \E c \in Chunk : Deallocate(c) \/ ClientWrites(c)

Spec == Init /\ [][Next]_vars

-----------------------------------------------------------------------------
\* A link that mAlloc or a chunk holds names a chunk of an owned block.
TypeOK ==
    /\ word \in [Chunk -> Chunk \union {Null, Data}]
    /\ mAlloc \in Chunk \union {Null}
    /\ heap \subseteq Block
    /\ held \subseteq Chunk
    /\ crashed \in BOOLEAN

\* Whatever clients write into their chunks, the list from mAlloc is acyclic
\* and has exactly the chunks that no client holds.
FreeListExact ==
    /\ TypeOK
    /\ IsListOf({Cardinality(Free)}, Free, mAlloc, word)

Pool == INSTANCE ChunkPool WITH owned <- heap, live <- held, open <- TRUE

\* PoolAllocator keeps the promise of ChunkPool.
ImplementsChunkPool == Pool!Spec
=============================================================================
