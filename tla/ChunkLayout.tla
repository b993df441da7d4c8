----------------------------- MODULE ChunkLayout -----------------------------
(***************************************************************************)
(* The address arithmetic of dbj_shoshnikov_pool_allocator.h: how many     *)
(* bytes a chunk takes for a requested size, and where its data starts.    *)
(* Word is sizeof(word_t), 4 or 8; a Chunk is its link, its flag padded to *)
(* a word, and the first word of its data.                                 *)
(***************************************************************************)
EXTENDS Integers

CONSTANT Word   \* sizeof(word_t)

ASSUME ChunkLayoutAssumption == Word \in {4, 8}

\* Mutant of align: the addend is forgotten, the size rounded down.
alignDown(n) == n - (n % Word)
\* (n + Word - 1) & ~(Word - 1), Word being a power of two
align(n) == (n + Word - 1) - ((n + Word - 1) % Word)

sizeofChunk == 3 * Word
offsetofData == sizeofChunk - Word

\* chunk_size_, as the constructor computes it
constructedSize(size) == IF align(size) < sizeofChunk THEN sizeofChunk ELSE size

chunk_allocation_size(size) == align(size) + sizeofChunk - Word

\* Addresses within the block of chunk i and of the data allocate() returns,
\* and the chunk that deallocate() computes from that data.
chunkAt(size, i) == i * chunk_allocation_size(constructedSize(size))
dataAt(size, i) == chunkAt(size, i) + offsetofData
chunk_from_data(data) == data + Word - sizeofChunk
=============================================================================
