---------------------------- MODULE DbjPoolMemory ----------------------------
(***************************************************************************)
(* The chunks of DbjPool at their addresses.  DbjPool knows a chunk by its *)
(* block and number; ChunkLayout says where in the block it lies when the  *)
(* pool is made for objects of some size.                                  *)
(***************************************************************************)
EXTENDS DbjPool, ChunkLayout

CONSTANT Request   \* the object sizes a pool may be made for

ASSUME RequestAssumption == Request \subseteq Nat \ {0}

\* Where chunk c and its data start in their block, and where the block ends.
Start(c, size) == chunkAt(size, c[2] - 1)
Data(c, size) == dataAt(size, c[2] - 1)
BlockEnd(size) == chunkAt(size, ChunksPerBlock)

\* Objects of the requested size, written at the pointers allocate() returned,
\* overlap neither each other nor any chunk's link and flag, and stay within
\* the block: clients cannot clobber the free list.
ObjectsApart ==
    \A size \in Request : \A c \in held :
        /\ Data(c, size) + size <= BlockEnd(size)
        /\ \A n \in 1..ChunksPerBlock :
             LET d == <<c[1], n>> IN
             \/ d = c /\ Start(d, size) + offsetofData <= Data(c, size)
             \/ Data(d, size) + size <= Start(c, size)
             \/ Data(c, size) + size <= Start(d, size)

\* Every pointer a client has is word aligned, for every requested size.
PointersAligned ==
    \A size \in Request : \A c \in held : Data(c, size) % Word = 0

\* deallocate() finds the chunk that allocate() took the data pointer from.
FreesItsChunk ==
    \A size \in Request : \A c \in held :
        chunk_from_data(Data(c, size)) = Start(c, size)

\* What clients do with their pointers leaves the pool's own words alone, and
\* deallocate() gets back from each pointer to the right ones.
ChunksSound == ObjectsApart /\ PointersAligned /\ FreesItsChunk
=============================================================================
