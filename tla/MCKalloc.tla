----------------------------- MODULE MCKalloc -----------------------------
(* kalloc with small cores, some below kmem_t and some above it. *)
EXTENDS Kalloc

Sites3 == {1, 10, 20}

\* Blocks of three, four and five units: a core of MinCore holds one of the
\* first, a core of twice that two blocks, a 24 byte block grows to 40 bytes
\* in place and a 40 byte block just fails to grow to 48 where it has 3 units.
Sizes  == {24, 40, 48}

\* What kv_push asks for as a vector of ten-byte elements doubles.
Doublings == {20, 40, 80}

=============================================================================
