----------------------------- MODULE MallocSizes -----------------------------
(***************************************************************************)
(* The size arithmetic of nedmalloc/malloc.c.h: how a request becomes a    *)
(* chunk size, which bin a chunk size belongs to, and the roundings of     *)
(* what is asked of the system.  The constants carry the source's names;   *)
(* sizes are counted in whatever unit their values are given in.           *)
(***************************************************************************)
EXTENDS Integers

CONSTANTS
  SizeBits,          \* SIZE_T_BITSIZE: sizes are taken modulo 2^SizeBits
  SIZE_T_SIZE,       \* a machine word, in the unit of the model
  MALLOC_ALIGNMENT,
  NTREEBINS, SMALLBIN_SHIFT, TREEBIN_SHIFT

ASSUME SizesAssumption ==
  /\ {SizeBits, SIZE_T_SIZE, NTREEBINS} \subseteq Nat \ {0}
  /\ MALLOC_ALIGNMENT = 2 * SIZE_T_SIZE /\ NTREEBINS % 2 = 0
  /\ SMALLBIN_SHIFT \in Nat /\ TREEBIN_SHIFT \in Nat /\ TREEBIN_SHIFT >= 2

\* The nested chunk sizes are multiples of MALLOC_ALIGNMENT; a chunk has four
\* words, two of them overhead (FOOTERS is defined).
CHUNK_OVERHEAD == 2 * SIZE_T_SIZE
MIN_CHUNK_SIZE == 4 * SIZE_T_SIZE
MIN_LARGE_SIZE == 2 ^ TREEBIN_SHIFT
MIN_REQUEST == MIN_CHUNK_SIZE - CHUNK_OVERHEAD - 1
MAX_SMALL_REQUEST == (MIN_LARGE_SIZE - 1) - (MALLOC_ALIGNMENT - 1) - CHUNK_OVERHEAD

\* size_t arithmetic wraps around.
USub(a, b) == (a - b) % 2 ^ SizeBits
MAX_SIZE_T == 2 ^ SizeBits - 1
MAX_REQUEST == MAX_SIZE_T + 1 - 4 * MIN_CHUNK_SIZE

\* n rounded up to a multiple of unit.
AlignUp(n, unit) == ((n + unit - 1) \div unit) * unit

pad_request(req) == AlignUp(req + CHUNK_OVERHEAD, MALLOC_ALIGNMENT)

\* As if the overhead were not added.
request2size_bare(req) ==
  IF req < MIN_REQUEST THEN MIN_CHUNK_SIZE ELSE AlignUp(req, MALLOC_ALIGNMENT)

request2size(req) == IF req < MIN_REQUEST THEN MIN_CHUNK_SIZE ELSE pad_request(req)

\* What mspace_malloc adds: a request nobody can satisfy becomes MAX_SIZE_T.
request2chunk(req) == IF req >= MAX_REQUEST THEN MAX_SIZE_T ELSE request2size(req)

is_small(s) == s < MIN_LARGE_SIZE
small_index(s) == s \div 2 ^ SMALLBIN_SHIFT
small_index2size(i) == i * 2 ^ SMALLBIN_SHIFT

\* Two bins for each power of two, the last one for everything larger.
compute_tree_index(s) ==
  LET x == s \div 2 ^ TREEBIN_SHIFT
      k == CHOOSE n \in 0 .. SizeBits : 2 ^ n <= x /\ x < 2 ^ (n + 1)
  IN  IF x = 0 THEN 0
      ELSE IF x >= 2 ^ (NTREEBINS \div 2) THEN NTREEBINS - 1
      ELSE 2 * k + ((s \div 2 ^ (k + TREEBIN_SHIFT - 1)) % 2)

minsize_for_tree_index(i) ==
  2 ^ ((i \div 2) + TREEBIN_SHIFT) + (i % 2) * 2 ^ ((i \div 2) + TREEBIN_SHIFT - 1)

\* The bit that decides a chunk's child at the root of bin i; one level down it
\* is the bit to its right (S << leftshift_for_tree_index(i), then << 1).
bit_for_tree_index(i) ==
  IF i = NTREEBINS - 1 THEN SizeBits - 1 ELSE (i \div 2) + TREEBIN_SHIFT - 2

\* Bit b of s; below bit 0 the shifted word holds zeros.
SizeBit(s, b) == IF b < 0 THEN 0 ELSE (s \div 2 ^ b) % 2

=============================================================================
