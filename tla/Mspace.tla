------------------------------- MODULE Mspace -------------------------------
(***************************************************************************)
(* A dlmalloc mspace (nedmalloc/malloc.c.h): boundary-tagged chunks in     *)
(* segments got from the system, small bins, tree bins, the designated     *)
(* victim and the top chunk.  An action is a whole call: nedmalloc takes   *)
(* the mspace's recursive lock around it, but for mspace_realloc2, which   *)
(* takes the lock to resize in place, then again to allocate and to free;  *)
(* these are taken together here.  The record m holds malloc_state and the *)
(* memory it manages, and an operator on m is one function of the source.  *)
(*                                                                         *)
(* Chunks are named by their addresses.  m.head and m.foot are the head    *)
(* and prev_foot words at the addresses where chunks start; what lies      *)
(* inside a chunk is not read by the code and is not kept (Forget).        *)
(***************************************************************************)
EXTENDS MallocTrees, Sequences, SequencesExt

CONSTANTS
  Limit,             \* the end of the address space
  page_size, granularity,
  mmap_threshold, trim_threshold,     \* mparams
  MAX_RELEASE_CHECK_RATE,
  MSIZE,             \* pad_request(sizeof(struct malloc_state))
  MARK               \* what mark_inuse_foot writes, the encoded mstate

ASSUME MspaceAssumption ==
  /\ {page_size, granularity, MSIZE, MAX_RELEASE_CHECK_RATE} \subseteq Nat \ {0}
  /\ granularity % page_size = 0 /\ page_size % MALLOC_ALIGNMENT = 0
  /\ MSIZE % MALLOC_ALIGNMENT = 0 /\ MARK \notin Nat

\* The embedded malloc_segment (four words) as a chunk, and what stays free
\* behind the top chunk for it and its fenceposts.
SegmentChunk == pad_request(4 * SIZE_T_SIZE)
TOP_FOOT_SIZE == SegmentChunk + MIN_CHUNK_SIZE
SYS_ALLOC_PADDING == TOP_FOOT_SIZE + MALLOC_ALIGNMENT
MMAP_FOOT_PAD == 4 * SIZE_T_SIZE
MMAP_CHUNK_OVERHEAD == 3 * SIZE_T_SIZE

\* The region mmap_alloc asks for; the sum wraps around as size_t does.  On POSIX
\* mmapped_granularity is the page size (malloc.c.h:3355).
mmap_size(nb) ==
  AlignUp((nb + 7 * SIZE_T_SIZE + MALLOC_ALIGNMENT - 1) % 2 ^ SizeBits, page_size)

-----------------------------------------------------------------------------
(* The system: m.os holds the pages that are mapped, m.site the addresses at which *)
(* it may map more. *)

Pages(base, size) == (base \div page_size) .. ((base + size - 1) \div page_size)

\* Where the system could map size bytes; it may also refuse.
MapAt(m, size) ==
  {a \in m.site : a + size <= Limit /\ Pages(a, size) \cap m.os = {}}

\* Where mremap could put a region that is resized: where it is, if there is room
\* behind it, or elsewhere, if it may move.
RemapAt(m, mm, old, new, prevent_move) ==
  LET stays == new <= old \/ (/\ mm + new <= Limit
                              /\ Pages(mm, new) \cap (m.os \ Pages(mm, old)) = {})
  IN  {a \in {mm} : stays} \cup {a \in MapAt(m, new) : ~prevent_move}

Map(m, base, size) == [m EXCEPT !.os = @ \cup Pages(base, size)]
Unmap(m, base, size) == [m EXCEPT !.os = IF size = 0 THEN @ ELSE @ \ Pages(base, size)]

\* footprint follows each change of what the mspace has mapped (max_footprint, which
\* is only reported, is not kept).
Grow(m, size) == [m EXCEPT !.footprint = @ + size]

\* As if what is given back still counted.
Shrink_not(m, size) == m

Shrink(m, size) == [m EXCEPT !.footprint = @ - size]

-----------------------------------------------------------------------------
(* Heads and feet *)

NoHead == [size |-> 0, pin |-> FALSE, cin |-> FALSE]
HeadAt(m, a) == IF a \in DOMAIN m.head THEN m.head[a] ELSE NoHead

is_inuse(m, p) == ~HeadAt(m, p).pin \/ HeadAt(m, p).cin
is_mmapped(m, p) == ~HeadAt(m, p).pin /\ ~HeadAt(m, p).cin
chunksize(m, p) == HeadAt(m, p).size
next_chunk(m, p) == p + chunksize(m, p)
is_fence(m, p) == m.head[p] = [size |-> SIZE_T_SIZE, pin |-> TRUE, cin |-> TRUE]

SetHead(m, p, s, pin, cin) ==
  [m EXCEPT !.head = p :> [size |-> s, pin |-> pin, cin |-> cin] @@ @]
SetPinuse(m, n, bit) ==
  [m EXCEPT !.head = n :> [HeadAt(m, n) EXCEPT !.pin = bit] @@ @]
SetFoot(m, p, s, v) == [m EXCEPT !.foot = (p + s) :> v @@ @]

set_size_and_pinuse_of_inuse_chunk(m, p, s) == SetFoot(SetHead(m, p, s, TRUE, TRUE), p, s, MARK)

\* As if no footer were written.
set_inuse_bare(m, p, s) == SetPinuse(SetHead(m, p, s, HeadAt(m, p).pin, TRUE), p + s, TRUE)

set_inuse(m, p, s) ==
  SetFoot(SetPinuse(SetHead(m, p, s, HeadAt(m, p).pin, TRUE), p + s, TRUE), p, s, MARK)
set_inuse_and_pinuse(m, p, s) ==
  SetFoot(SetPinuse(SetHead(m, p, s, TRUE, TRUE), p + s, TRUE), p, s, MARK)
set_size_and_pinuse_of_free_chunk(m, p, s) == SetFoot(SetHead(m, p, s, TRUE, FALSE), p, s, s)
set_free_with_pinuse(m, p, s, n) ==
  set_size_and_pinuse_of_free_chunk(SetPinuse(m, n, FALSE), p, s)

\* overhead_for, and what mspace_usable_size answers.
overhead_for(m, p) == IF is_mmapped(m, p) THEN MMAP_CHUNK_OVERHEAD ELSE CHUNK_OVERHEAD
usable_size(m, p) == chunksize(m, p) - overhead_for(m, p)

-----------------------------------------------------------------------------
(* Bins *)

insert_small_chunk(m, p, s) ==
  LET i == small_index(s) IN
  [m EXCEPT !.small[i] = <<p>> \o @, !.smallmap = @ \cup {i}]

unlink_small_chunk(m, p, s) ==
  LET i == small_index(s)
      rest == SelectSeq(m.small[i], LAMBDA q : q # p)
  IN  [m EXCEPT !.small[i] = rest, !.smallmap = IF rest = <<>> THEN @ \ {i} ELSE @]

insert_chunk(m, p, s) ==
  IF is_small(s) THEN insert_small_chunk(m, p, s)
  ELSE [m EXCEPT !.tree = insert_large_chunk(@, p, s)]

unlink_large(m, p) == [m EXCEPT !.tree = unlink_large_chunk(@, p)]

unlink_chunk(m, p, s) ==
  IF is_small(s) THEN unlink_small_chunk(m, p, s) ELSE unlink_large(m, p)

SetDv(m, p, s) == [m EXCEPT !.dv = p, !.dvsize = s]

\* As if the old dv were dropped.
replace_dv_dropping(m, p, s) == SetDv(m, p, s)

replace_dv(m, p, s) ==
  SetDv(IF m.dvsize = 0 THEN m ELSE insert_small_chunk(m, m.dv, m.dvsize), p, s)

-----------------------------------------------------------------------------
(* Segments and the top chunk *)

End(seg) == seg.base + seg.size
segment_holds(seg, a) == a \in seg.base .. End(seg) - 1

\* The place in m.seg of the segment that holds a; 1 is m->seg itself.
segment_holding(m, a) == CHOOSE k \in DOMAIN m.seg : segment_holds(m.seg[k], a)

has_segment_link(m, k) == \E j \in DOMAIN m.seg : segment_holds(m.seg[k], m.seg[j].at)

init_top(m, p, psize) ==
  [SetHead(m, p, psize, TRUE, FALSE) EXCEPT
     !.top = p, !.topsize = psize, !.trim_check = trim_threshold]

\* The top chunk becomes p without the rest of init_top.
SetTop(m, p, size) == [SetHead(m, p, size, TRUE, FALSE) EXCEPT !.top = p, !.topsize = size]

\* The starts of chunks from a up to the top chunk, a fencepost or the end.
Starts(m, seg) ==
  LET w[a \in DOMAIN m.head \cup {Limit}] ==
        IF a \notin DOMAIN m.head \/ ~segment_holds(seg, a) THEN {}
        ELSE IF a = m.top \/ is_fence(m, a) \/ m.head[a].size = 0 THEN {a}
        ELSE LET n == next_chunk(m, a) IN
             {a} \cup (IF n \in DOMAIN m.head THEN w[n] ELSE {})
  IN  w[seg.base]

InSegments(m) == UNION {Starts(m, m.seg[k]) : k \in DOMAIN m.seg}

\* The chunks mapped one by one, which the mspace does not keep track of.
Mmapped(m) ==
  {p \in DOMAIN m.head : /\ p \div page_size \in m.os
                         /\ \A k \in DOMAIN m.seg : ~segment_holds(m.seg[k], p)}

\* Only words at the starts of chunks are kept between two calls.
Forget(m) ==
  LET keep == InSegments(m) \cup Mmapped(m) IN
  [m EXCEPT !.head = Restrict(@, keep), !.foot = Restrict(@, keep \cap DOMAIN @)]

-----------------------------------------------------------------------------
(* System allocation *)

Result(m, mem) == [m |-> m, mem |-> mem]
Fails(m) == {Result(m, NULL)}

\* mmap_alloc: each large chunk has a mapping of its own, a word of which holds
\* the handle; prev_foot is the chunk's offset in it.
mmap_alloc(m, nb) ==
  LET mmsize == mmap_size(nb)
      psize  == mmsize - MALLOC_ALIGNMENT - MMAP_FOOT_PAD
      placed(mm) ==
        LET p  == mm + MALLOC_ALIGNMENT
            m1 == SetFoot(SetHead(m, p, psize, FALSE, FALSE), p, 0, MALLOC_ALIGNMENT)
            m2 == [m1 EXCEPT !.least_addr = IF mm < @ THEN mm ELSE @]
        IN  Result(Grow(Map(m2, mm, mmsize), mmsize), p)
  IN  IF mmsize > nb THEN {placed(mm) : mm \in MapAt(m, mmsize)} ELSE {}

\* prepend_alloc: the request takes the front of the new memory, the rest joins
\* the chunk at the old base.
prepend_alloc(m, newbase, oldbase, nb) ==
  LET p  == newbase
      q  == p + nb
      qs == oldbase - p - nb
      m1 == set_size_and_pinuse_of_inuse_chunk(m, p, nb)
      n  == next_chunk(m, oldbase)
  IN  CASE oldbase = m.top -> SetTop(m1, q, m.topsize + qs)
        [] oldbase = m.dv ->
             SetDv(set_size_and_pinuse_of_free_chunk(m1, q, m.dvsize + qs), q, m.dvsize + qs)
        [] oldbase \notin {m.top, m.dv} /\ is_inuse(m, oldbase) ->
             insert_chunk(set_free_with_pinuse(m1, q, qs, oldbase), q, qs)
        [] OTHER ->
             LET all == qs + chunksize(m, oldbase)
                 m2  == unlink_chunk(m1, oldbase, chunksize(m, oldbase))
             IN  insert_chunk(set_free_with_pinuse(m2, q, all, n), q, all)

\* add_segment: the record of the segment that was topmost moves into its tail,
\* what is left of its top becomes an ordinary free chunk.
add_segment(m, tbase, tsize) ==
  LET old  == m.seg[segment_holding(m, m.top)]
      asp  == End(old) - TOP_FOOT_SIZE
      csp  == IF asp < m.top + MIN_CHUNK_SIZE THEN m.top ELSE asp
      rec  == csp + 2 * SIZE_T_SIZE
      m1   == init_top(m, tbase, tsize - TOP_FOOT_SIZE)
      m2   == set_size_and_pinuse_of_inuse_chunk(m1, csp, SegmentChunk)
      m3   == SetHead(m2, csp + SegmentChunk, SIZE_T_SIZE, TRUE, TRUE)
      m4   == [m3 EXCEPT !.seg =
                 <<[base |-> tbase, size |-> tsize, mmapped |-> TRUE, extern |-> FALSE,
                    at |-> @[1].at],
                   [@[1] EXCEPT !.at = rec]>> \o Tail(@)]
  IN  IF csp = m.top THEN m4
      ELSE insert_chunk(set_free_with_pinuse(m4, m.top, csp - m.top, csp),
                        m.top, csp - m.top)

\* The front of the top chunk, where the top chunk is larger than the request.
FromTop(m, nb) ==
  LET p == m.top IN
  IF nb < m.topsize
  THEN Result(set_size_and_pinuse_of_inuse_chunk(SetTop(m, p + nb, m.topsize - nb), p, nb), p)
  ELSE Result(m, NULL)

\* sys_alloc with memory at tbase: append, prepend, or a segment of its own.
Extend(m, tbase, tsize, nb) ==
  LET m1 == Grow(Map(m, tbase, tsize), tsize)
      joins(k) == m.seg[k].mmapped /\ ~m.seg[k].extern
      append == {k \in DOMAIN m.seg : /\ End(m.seg[k]) = tbase /\ joins(k)
                                      /\ segment_holds(m.seg[k], m.top)}
      prepend == {k \in DOMAIN m.seg : m.seg[k].base = tbase + tsize /\ joins(k)}
      m2 == [m1 EXCEPT !.least_addr = IF tbase < @ THEN tbase ELSE @]
  IN CASE append # {} ->
            LET k == CHOOSE k \in append : TRUE
                m3 == [m1 EXCEPT !.seg[k].size = @ + tsize]
            IN  FromTop(init_top(m3, m.top, m.topsize + tsize), nb)
       [] append = {} /\ prepend # {} ->
            LET k == CHOOSE k \in prepend : TRUE
                m3 == [m2 EXCEPT !.seg[k].base = tbase, !.seg[k].size = @ + tsize]
            IN  Result(prepend_alloc(m3, tbase, m.seg[k].base, nb), tbase)
       [] OTHER -> FromTop(add_segment(m2, tbase, tsize), nb)

\* A large chunk, or any the caller wants so, by a mapping of its own.
Direct(m, nb, always_mmap) ==
  IF m.use_mmap /\ (nb >= mmap_threshold \/ always_mmap) /\ m.topsize # 0
  THEN mmap_alloc(m, nb) ELSE {}

\* sys_alloc.  An mspace never extends contiguously, so that memory comes from a
\* mapping of its own for a large chunk or, if that fails, from a new segment.
sys_alloc(m, nb, always_mmap) ==
  LET rsize  == AlignUp((nb + SYS_ALLOC_PADDING) % 2 ^ SizeBits, granularity)
      direct == Direct(m, nb, always_mmap)
      grown  == IF rsize > nb THEN {Extend(m, a, rsize, nb) : a \in MapAt(m, rsize)} ELSE {}
  IN  IF m.use_mmap /\ always_mmap THEN direct \cup Fails(m)
      ELSE direct \cup grown \cup Fails(m)

-----------------------------------------------------------------------------
(* Giving memory back to the system *)

\* The k-th segment is one free chunk: its mapping goes, or munmap fails and the
\* chunk goes into a tree (also when it was the dv).
ReleaseSegment(m, base) ==
  LET k   == CHOOSE k \in DOMAIN m.seg : m.seg[k].base = base
      seg == m.seg[k]
      ps  == chunksize(m, base)
      out == IF base = m.dv THEN SetDv(m, NULL, 0) ELSE unlink_large(m, base)
  IN  IF /\ seg.mmapped /\ ~seg.extern /\ ~is_inuse(m, base)
         /\ base + ps >= End(seg) - TOP_FOOT_SIZE
      THEN { Shrink(Unmap([out EXCEPT !.seg = RemoveAt(@, k)], base, seg.size), seg.size),
             [out EXCEPT !.tree = insert_large_chunk(@, base, ps)] }
      ELSE {m}

\* release_unused_segments: all segments but the topmost one.
release_unused_segments(m) ==
  LET bases == [k \in 1 .. Len(m.seg) - 1 |-> m.seg[k + 1].base]
      nsegs == Len(bases)
      after == FoldLeft(LAMBDA ms, b : UNION {ReleaseSegment(n, b) : n \in ms}, {m}, bases)
      rate  == IF nsegs > MAX_RELEASE_CHECK_RATE THEN nsegs ELSE MAX_RELEASE_CHECK_RATE
  IN  {[n EXCEPT !.release_checks = rate] : n \in after}

\* What sys_trim would cut off the top chunk, in whole units, keeping pad.
Extra(m, pad) ==
  ((m.topsize - pad + granularity - 1) \div granularity - 1) * granularity

\* The tail of the topmost segment goes, unless a segment record lies in that
\* segment or the system refuses.
TrimTop(m, pad) ==
  LET k == segment_holding(m, m.top)
      seg == m.seg[k]
      extra == Extra(m, pad)
      cut == [Shrink(Unmap(m, End(seg) - extra, extra), extra) EXCEPT !.seg[k].size = @ - extra]
  IN  IF /\ m.topsize > pad /\ ~seg.extern /\ seg.mmapped
         /\ seg.size >= extra /\ ~has_segment_link(m, k) /\ extra # 0
      THEN {m, init_top(cut, m.top, m.topsize - extra)}
      ELSE {m}

sys_trim(m, pad) ==
  LET all == UNION {release_unused_segments(n) : n \in TrimTop(m, pad + TOP_FOOT_SIZE)} IN
  IF pad >= MAX_REQUEST THEN {m}
  ELSE {IF n.footprint = m.footprint /\ n.topsize > n.trim_check
        THEN [n EXCEPT !.trim_check = MAX_SIZE_T] ELSE n : n \in all}

-----------------------------------------------------------------------------
(* malloc *)

\* What is left of a chunk split for nb becomes the dv or goes into a bin, if it is
\* large enough to be a chunk.
Split(m, v, s, nb, dv) ==
  LET rs == s - nb
      m1 == set_size_and_pinuse_of_free_chunk(
              set_size_and_pinuse_of_inuse_chunk(m, v, nb), v + nb, rs)
  IN  IF rs < MIN_CHUNK_SIZE THEN Result(set_inuse_and_pinuse(m, v, s), v)
      ELSE Result(IF dv THEN replace_dv(m1, v + nb, rs) ELSE insert_chunk(m1, v + nb, rs), v)

\* The first chunk of small bin i serves nb.
FromSmallBin(m, i, nb) ==
  LET p == Head(m.small[i]) IN
  Split(unlink_small_chunk(m, p, small_index2size(i)), p, small_index2size(i), nb, TRUE)

FromDv(m, nb) ==
  LET gone == SetDv(m, NULL, 0) IN Split(gone, m.dv, m.dvsize, nb, TRUE)

tmalloc_small(m, nb) ==
  LET fit == SmallFit(m.tree, nb) IN
  Split(unlink_large(m, fit.v), fit.v, nb + fit.rsize, nb, TRUE)

\* tmalloc_large leaves the request to dv where that fits better.
PrefersTree(m, nb) ==
  LET fit == LargeFit(m.tree, nb) IN
  m.tree.map # {} /\ fit.v # NULL /\ fit.rsize < USub(m.dvsize, nb)

tmalloc_large(m, nb) ==
  LET fit == LargeFit(m.tree, nb) IN
  Split(unlink_large(m, fit.v), fit.v, nb + fit.rsize, nb, FALSE)

\* mspace_malloc_implementation without flags.
malloc(m, bytes) ==
  LET nb    == request2chunk(bytes)
      small == bytes <= MAX_SMALL_REQUEST
      exact == m.smallmap \cap {small_index(nb), small_index(nb) + 1}
      larger == {i \in m.smallmap : i > small_index(nb)}
  IN CASE small /\ exact # {} ->
            LET i == Min(exact) IN
            {Result(set_inuse_and_pinuse(unlink_small_chunk(m, Head(m.small[i]),
                      small_index2size(i)), Head(m.small[i]), small_index2size(i)),
                    Head(m.small[i]))}
       [] small /\ exact = {} /\ nb > m.dvsize /\ larger # {} ->
            {FromSmallBin(m, Min(larger), nb)}
       [] small /\ exact = {} /\ nb > m.dvsize /\ larger = {} /\ m.tree.map # {} ->
            {tmalloc_small(m, nb)}
       [] ~small /\ bytes < MAX_REQUEST /\ PrefersTree(m, nb) -> {tmalloc_large(m, nb)}
       [] OTHER -> IF nb <= m.dvsize THEN {FromDv(m, nb)}
                   ELSE IF nb < m.topsize THEN {FromTop(m, nb)}
                   ELSE sys_alloc(m, nb, FALSE)

\* With M2_ALWAYS_MMAP the request goes to sys_alloc as it is, unpadded.
malloc_always_mmap(m, bytes) == sys_alloc(m, bytes, TRUE)

\* mspace_calloc's request: the product wraps around and is then checked.
calloc_request(n, elem) ==
  LET req == (n * elem) % 2 ^ SizeBits
      wide(x) == x >= 2 ^ (SizeBits \div 4)
  IN  IF n # 0 /\ (wide(n) \/ wide(elem)) /\ req \div n # elem THEN MAX_SIZE_T ELSE req

-----------------------------------------------------------------------------
(* free *)

Abort(m) == {[m EXCEPT !.aborted = TRUE]}

\* Consolidation with a free chunk before p: the chunk that is now p, its size.
Backward(m, p) ==
  LET prevsize == m.foot[p]
      prev     == p - prevsize
  IN  IF m.head[p].pin THEN [m |-> m, p |-> p, s |-> chunksize(m, p)]
      ELSE [m |-> IF prev = m.dv THEN m ELSE unlink_chunk(m, prev, prevsize),
            p |-> prev, s |-> prevsize + chunksize(m, p)]

\* The free chunk goes into its bin; now and then segments are scanned.
Bin(m, p, s) ==
  IF is_small(s) THEN {insert_small_chunk(m, p, s)}
  ELSE LET m1 == [insert_chunk(m, p, s) EXCEPT !.release_checks = @ - 1] IN
       IF m1.release_checks = 0 THEN release_unused_segments(m1) ELSE {m1}

\* The free chunk becomes part of the top chunk after it.
IntoTop(m, p, s) ==
  LET m1 == SetTop(m, p, m.topsize + s)
      m2 == IF p = m.dv THEN SetDv(m1, NULL, 0) ELSE m1
  IN  IF m2.topsize > m2.trim_check THEN sys_trim(m2, 0) ELSE {m2}

\* A chunk of a mapping of its own: the mapping goes, or munmap fails and it is
\* neither freed nor known to anyone.
FreeMmapped(m, p) ==
  LET mm == p - m.foot[p]
      mmsize == chunksize(m, p) + m.foot[p] + MMAP_FOOT_PAD
  IN  {m, Shrink(Unmap(m, mm, mmsize), mmsize)}

\* The chunk that ended before "next", already consolidated to b, is consolidated
\* with what follows and put away.
Forward(m, b, next) ==
  LET free_next == ~m.head[next].cin
      Away(m1, s) == IF b.p = m.dv THEN {SetDv(m1, b.p, s)} ELSE Bin(m1, b.p, s)
      Joined(s) == Away(set_size_and_pinuse_of_free_chunk(
                          unlink_chunk(b.m, next, chunksize(m, next)), b.p, s), s)
  IN CASE free_next /\ next = m.top -> IntoTop(b.m, b.p, b.s)
       [] free_next /\ next = m.dv ->
            {SetDv(set_size_and_pinuse_of_free_chunk(b.m, b.p, b.s + m.dvsize),
                   b.p, b.s + m.dvsize)}
       [] free_next /\ next \notin {m.top, m.dv} -> Joined(b.s + chunksize(m, next))
       [] OTHER -> Away(set_free_with_pinuse(b.m, b.p, b.s, next), b.s)

\* mspace_free.  The checks abort where a head or a footer is not what malloc
\* left there.
free(m, p) ==
  LET next == next_chunk(m, p)
      footer_ok == next \in DOMAIN m.foot /\ m.foot[next] = MARK
  IN CASE p < m.least_addr \/ ~is_inuse(m, p) -> Abort(m)
       [] is_mmapped(m, p) -> FreeMmapped(m, p)
       [] ~is_mmapped(m, p) /\ (~footer_ok \/ ~m.head[next].pin) -> Abort(m)
       [] OTHER -> Forward(m, Backward(m, p), next)

\* The chunks ps given back one after the other; NULL stands for none.
free_all(m, ps) ==
  FoldLeft(LAMBDA ms, p : IF p = NULL THEN ms ELSE UNION {free(n, p) : n \in ms}, {m}, ps)

-----------------------------------------------------------------------------
(* memalign, realloc and the independent allocations *)

\* An aligned place in the chunk p for a chunk of nb bytes: what lies before it
\* and behind it is a chunk in use of its own, to be freed.
Align(m, p, alignment, nb) ==
  LET mem  == p + 2 * SIZE_T_SIZE
      br   == AlignUp(mem, alignment) - 2 * SIZE_T_SIZE
      pos  == IF mem % alignment = 0 THEN p
              ELSE IF br - p >= MIN_CHUNK_SIZE THEN br ELSE br + alignment
      lead == pos - p
      size == chunksize(m, p) - lead
      led  == IF lead = 0 THEN m
              ELSE IF is_mmapped(m, p)
              THEN SetFoot(SetHead([m EXCEPT !.head = Restrict(@, DOMAIN @ \ {p})],
                                   pos, size, FALSE, FALSE), pos, 0, m.foot[p] + lead)
              ELSE set_inuse(set_inuse(m, pos, size), p, lead)
      spare == ~is_mmapped(m, p) /\ size > nb + MIN_CHUNK_SIZE
      cut  == IF spare THEN set_inuse(set_inuse(led, pos, nb), pos + nb, size - nb) ELSE led
  IN  [m |-> cut, mem |-> pos,
       leader  |-> IF lead > 0 /\ ~is_mmapped(m, p) THEN p ELSE NULL,
       trailer |-> IF spare THEN pos + nb ELSE NULL]

\* internal_memalign.
memalign(m, alignment, bytes) ==
  LET al  == Min({a \in {MALLOC_ALIGNMENT * 2 ^ k : k \in 1 .. SizeBits} : a >= alignment})
      nb  == request2size(bytes)
      give(r) == LET a == Align(r.m, r.mem, al, nb) IN
                 {Result(n, a.mem) : n \in free_all(a.m, <<a.leader, a.trailer>>)}
  IN  IF alignment <= MALLOC_ALIGNMENT THEN malloc(m, bytes)
      ELSE IF bytes >= MAX_REQUEST - al THEN Fails(m)
      ELSE UNION {IF r.mem = NULL THEN {r} ELSE give(r) :
                  r \in malloc(m, nb + al + MIN_CHUNK_SIZE - CHUNK_OVERHEAD)}

\* mmap_resize: the region is kept, resized where it is, or moved.
mmap_resize(m, p, nb, prevent_move) ==
  LET oldsize == chunksize(m, p)
      offset  == m.foot[p]
      mm      == p - offset
      old     == oldsize + offset + MMAP_FOOT_PAD
      new     == mmap_size(nb)
      gone    == Unmap(m, mm, old)
      moved(a) ==
        LET q  == a + offset
            m1 == SetHead([gone EXCEPT !.head = Restrict(@, DOMAIN @ \ {p})], q,
                          new - offset - MMAP_FOOT_PAD, FALSE, FALSE)
            m2 == SetFoot(m1, q, 0, offset)
            m3 == [m2 EXCEPT !.least_addr = IF a < @ THEN a ELSE @]
        IN  Result(Grow(Map(m3, a, new), new - old), q)
  IN  IF is_small(nb) THEN Fails(m)
      ELSE IF oldsize >= nb + SIZE_T_SIZE /\ oldsize - nb <= 2 * granularity
      THEN {Result(m, p)}
      ELSE {moved(a) : a \in RemapAt(m, mm, old, new, prevent_move)} \cup Fails(m)

\* As if the chunk grew into a top chunk that does not follow it.
realloc_in_place_anywhere(m, p, nb) ==
  LET oldsize == chunksize(m, p)
      all     == oldsize + m.topsize
  IN CASE oldsize >= nb -> {Result(m, p)}
       [] oldsize < nb /\ all > nb -> {Result(SetTop(set_inuse(m, p, nb), p + nb, all - nb), p)}
       [] OTHER -> Fails(m)

\* internal_realloc without moving: where the chunk is large enough the remainder
\* is freed; where the top chunk follows it grows into that.
realloc_in_place(m, p, nb) ==
  LET oldsize == chunksize(m, p)
      rest    == oldsize - nb
      all     == oldsize + m.topsize
  IN CASE oldsize >= nb /\ rest < MIN_CHUNK_SIZE -> {Result(m, p)}
       [] oldsize >= nb /\ rest >= MIN_CHUNK_SIZE ->
            {Result(n, p) : n \in free(set_inuse_and_pinuse(set_inuse(m, p, nb),
                                                            p + nb, rest), p + nb)}
       [] oldsize < nb /\ next_chunk(m, p) = m.top /\ all > nb ->
            {Result(SetTop(set_inuse(m, p, nb), p + nb, all - nb), p)}
       [] OTHER -> Fails(m)

\* Its checks of the old chunk; behind a mapped one stands a fencepost.
may_realloc(m, p) ==
  /\ p >= m.least_addr /\ is_inuse(m, p)
  /\ is_mmapped(m, p) \/ m.head[next_chunk(m, p)].pin

\* internal_realloc: in place, else a new chunk, the copy, and the old one freed.
realloc(m, p, bytes, alignment, prevent_move) ==
  LET nb == request2size(bytes)
      kept == IF is_mmapped(m, p) THEN mmap_resize(m, p, nb, prevent_move)
              ELSE realloc_in_place(m, p, nb)
      fresh(n) == IF alignment > MALLOC_ALIGNMENT THEN memalign(n, alignment, bytes)
                  ELSE malloc(n, bytes)
      copied(n) == UNION {IF r.mem = NULL THEN {r}
                          ELSE {Result(k, r.mem) : k \in free(r.m, p)} : r \in fresh(n)}
  IN  IF bytes >= MAX_REQUEST THEN Fails(m)
      ELSE IF ~may_realloc(m, p) THEN {Result(n, NULL) : n \in Abort(m)}
      ELSE UNION {IF r.mem # NULL \/ prevent_move THEN {r} ELSE copied(r.m) : r \in kept}

\* ialloc: one chunk, not mapped by itself, cut into one for each size and, where
\* the caller brings no array, one for the array of pointers.  The last piece
\* takes what malloc gave beyond the sum.
ialloc(m, sizes, own_array) ==
  LET n     == Len(sizes)
      piece == [i \in 1 .. n |-> request2size(sizes[i])]
      array == IF own_array THEN <<>> ELSE <<request2size(n * SIZE_T_SIZE)>>
      cuts  == piece \o array
      total == FoldLeft(LAMBDA a, b : a + b, 0, cuts)
      before(i) == FoldLeft(LAMBDA a, b : a + b, 0, SubSeq(cuts, 1, i - 1))
      at(p, i) == p + before(i)
      len(k, p, i) == IF i < Len(cuts) THEN cuts[i] ELSE chunksize(k, p) - before(i)
      cut(k, p) == FoldLeft(LAMBDA a, i :
                     set_size_and_pinuse_of_inuse_chunk(a, at(p, i), len(k, p, i)),
                     k, [i \in 1 .. Len(cuts) |-> i])
  IN  {IF r.mem = NULL THEN [m |-> r.m, mems |-> <<>>]
       ELSE [m |-> cut(r.m, r.mem), mems |-> [i \in 1 .. Len(cuts) |-> at(r.mem, i)]] :
       r \in {[q EXCEPT !.m.use_mmap = m.use_mmap] :
              q \in malloc([m EXCEPT !.use_mmap = FALSE], total - CHUNK_OVERHEAD)}}

-----------------------------------------------------------------------------
(* Statistics *)

FreeChunks(m) == {p \in InSegments(m) : ~is_inuse(m, p) /\ p # m.top}
SizeSum(m, S) == FoldSet(LAMBDA p, a : a + chunksize(m, p), 0, S)

\* internal_mallinfo: what the walk over all segments adds up to.
internal_mallinfo(m) ==
  LET mfree == m.topsize + TOP_FOOT_SIZE + SizeSum(m, FreeChunks(m))
      sum   == m.topsize + TOP_FOOT_SIZE
               + SizeSum(m, {p \in InSegments(m) : p # m.top /\ ~is_fence(m, p)})
  IN  [arena |-> sum, ordblks |-> 1 + Cardinality(FreeChunks(m)),
       hblkhd |-> m.footprint - sum,
       uordblks |-> m.footprint - mfree, fordblks |-> mfree, keepcost |-> m.topsize]

-----------------------------------------------------------------------------
(* The mspace and its clients *)

CONSTANTS
  Worlds,             \* settings: where an mspace is created, by create_mspace or
                      \* by create_mspace_with_base (extern), what the system has
                      \* to offer (site), and what clients ask for (bytes, align)
  HomeSize,           \* the memory an mspace is created with
  AlwaysBytes,        \* requests made with M2_ALWAYS_MMAP
  Products, SizeLists,
  MaxHeld             \* how many chunks clients hold at once

ASSUME WorldsAssumption ==
  \A w \in Worlds : \A a \in w.site \cup {w.base} : a > 0 /\ a % page_size = 0

VARIABLES
  world,    \* one of Worlds
  m,        \* malloc_state and memory
  user,     \* of each chunk that is with a client, the bytes asked for
  open      \* whether the mspace has not been destroyed

vars == <<world, m, user, open>>

\* init_user_mstate: the mstate is the first chunk, the rest is the top chunk.
init_user_mstate(base, size, extern, site) ==
  init_top(
    SetHead([head |-> <<>>, foot |-> <<>>,
             small |-> [i \in 0 .. small_index(MIN_LARGE_SIZE) - 1 |-> <<>>], smallmap |-> {},
             tree |-> NoTrees, dv |-> NULL, dvsize |-> 0, top |-> NULL, topsize |-> 0,
             seg |-> <<[base |-> base, size |-> size, mmapped |-> ~extern,
                        extern |-> extern, at |-> base + 2 * SIZE_T_SIZE]>>,
             footprint |-> size, trim_check |-> 0,
             release_checks |-> MAX_RELEASE_CHECK_RATE, use_mmap |-> TRUE,
             least_addr |-> base, os |-> Pages(base, size), site |-> site, aborted |-> FALSE],
            base, MSIZE, TRUE, TRUE),
    base + MSIZE, size - MSIZE - TOP_FOOT_SIZE)

Init ==
  /\ world \in Worlds
  /\ m = Forget(init_user_mstate(world.base, AlignUp(HomeSize, granularity), world.extern,
                                 world.site))
  /\ user = <<>> /\ open = TRUE

Holding(p, bytes) == p :> bytes @@ user

\* One of the outcomes R of a call that hands out a chunk for so many bytes.
Obtain(R, bytes) ==
  /\ open /\ ~m.aborted /\ Cardinality(DOMAIN user) < MaxHeld
  /\ \E r \in R : /\ m' = Forget(r.m)
                  /\ user' = IF r.mem = NULL THEN user ELSE Holding(r.mem, bytes)
  /\ UNCHANGED <<world, open>>

Malloc(bytes) == Obtain(malloc(m, bytes), bytes)

\* Unpadded, such a request must not reach the top chunk, nor end where a page
\* does: the clients modelled keep from both.
MallocAlwaysMmap(bytes) == m.use_mmap /\ Obtain(malloc_always_mmap(m, bytes), bytes)

Calloc(n, elem) == Obtain(malloc(m, calloc_request(n, elem)), n * elem)

Memalign(alignment, bytes) == Obtain(memalign(m, alignment, bytes), bytes)

\* mspace_independent_calloc and _comalloc; without an array of the caller's the
\* pointers lie in a chunk that comes with the others.
IndependentAlloc(sizes, own_array) ==
  /\ open /\ ~m.aborted
  /\ Cardinality(DOMAIN user) + Len(sizes) + (IF own_array THEN 0 ELSE 1) <= MaxHeld
  /\ LET asked == IF own_array THEN sizes ELSE Append(sizes, Len(sizes) * SIZE_T_SIZE) IN
     \E r \in ialloc(m, sizes, own_array) :
       /\ m' = Forget(r.m)
       /\ user' = FoldLeft(LAMBDA u, i : r.mems[i] :> asked[i] @@ u, user,
                           [i \in DOMAIN r.mems |-> i])
  /\ UNCHANGED <<world, open>>

Free(p) ==
  /\ open /\ ~m.aborted
  /\ \E n \in free(m, p) : m' = Forget(n)
  /\ user' = Restrict(user, DOMAIN user \ {p})
  /\ UNCHANGED <<world, open>>

Realloc(p, bytes, alignment, prevent_move) ==
  /\ open /\ ~m.aborted
  /\ \E r \in realloc(m, p, bytes, alignment, prevent_move) :
       /\ m' = Forget(r.m)
       /\ user' = IF r.mem = NULL THEN user
                  ELSE r.mem :> bytes @@ Restrict(user, DOMAIN user \ {p})
  /\ UNCHANGED <<world, open>>

Trim(pad) ==
  /\ open /\ ~m.aborted
  /\ \E n \in sys_trim(m, pad) : m' = Forget(n)
  /\ UNCHANGED <<world, user, open>>

TrackLargeChunks(enable) ==
  /\ open /\ ~m.aborted
  /\ m' = [m EXCEPT !.use_mmap = ~enable]
  /\ UNCHANGED <<world, user, open>>

\* destroy_mspace: each segment is unmapped or, where munmap fails, stays; the
\* chunks that have mappings of their own are nobody's now.
DestroyMspace ==
  /\ open /\ ~m.aborted
  /\ \E kept \in SUBSET DOMAIN m.seg :
       LET gone == {k \in DOMAIN m.seg \ kept : m.seg[k].mmapped /\ ~m.seg[k].extern} IN
       m' = [m EXCEPT !.os = @ \ UNION {Pages(m.seg[k].base, m.seg[k].size) : k \in gone}]
  /\ user' = <<>> /\ open' = FALSE /\ UNCHANGED world

Next ==
  \/ \E bytes \in world.bytes : Malloc(bytes)
  \/ \E bytes \in AlwaysBytes : MallocAlwaysMmap(bytes)
  \/ \E c \in Products : Calloc(c.n, c.elem)
  \/ \E a \in world.align, bytes \in world.bytes : Memalign(a, bytes)
  \/ \E sizes \in SizeLists, own_array \in BOOLEAN : IndependentAlloc(sizes, own_array)
  \/ \E p \in DOMAIN user : Free(p)
  \/ \E p \in DOMAIN user, bytes \in world.bytes, a \in world.align \cup {0}, prevent \in BOOLEAN :
       Realloc(p, bytes, a, prevent)
  \/ \E pad \in {0, granularity} : Trim(pad)
  \/ \E enable \in BOOLEAN : TrackLargeChunks(enable)
  \/ DestroyMspace

Spec == Init /\ [][Next]_vars

-----------------------------------------------------------------------------
(* The debugging checks of the source *)

check_top_chunk ==
  LET seg == m.seg[segment_holding(m, m.top)] IN
  /\ m.topsize > 0 /\ m.head[m.top] = [size |-> m.topsize, pin |-> TRUE, cin |-> FALSE]
  /\ m.top + m.topsize + TOP_FOOT_SIZE = End(seg)

check_inuse_chunk(p) ==
  /\ is_inuse(m, p) /\ p >= m.least_addr
  /\ ~is_mmapped(m, p) => m.head[next_chunk(m, p)].pin

\* The length of a mapped chunk's region is that of whole pages, and is mapped.
check_mmapped_chunk(p) ==
  LET mm == p - m.foot[p]
      len == chunksize(m, p) + m.foot[p] + MMAP_FOOT_PAD
  IN  len % page_size = 0 /\ Pages(mm, len) \subseteq m.os /\ ~is_small(chunksize(m, p))

check_free_chunk(p) ==
  LET next == next_chunk(m, p) IN
  /\ ~m.head[next].pin /\ m.head[p].pin /\ m.foot[next] = chunksize(m, p)
  /\ chunksize(m, p) >= MIN_CHUNK_SIZE /\ chunksize(m, p) % MALLOC_ALIGNMENT = 0
  /\ next = m.top \/ is_inuse(m, next)

\* At the point p is malloced for a chunk of s bytes; memalign and realloc may
\* leave it one minimal chunk larger.
check_malloced_chunk(p, s) ==
  /\ chunksize(m, p) % MALLOC_ALIGNMENT = 0 /\ chunksize(m, p) >= MIN_CHUNK_SIZE
  /\ chunksize(m, p) >= s
  /\ is_mmapped(m, p) \/ chunksize(m, p) <= s + MIN_CHUNK_SIZE

check_smallbin(i) ==
  /\ (i \in m.smallmap) <=> m.small[i] # <<>>
  /\ \A p \in Range(m.small[i]) :
       p \in DOMAIN m.head /\ chunksize(m, p) = small_index2size(i) /\ ~is_inuse(m, p)

\* The chunks bin_find finds.
InBins == UNION {Range(m.small[i]) : i \in DOMAIN m.small} \cup DOMAIN m.tree.node
Dv == IF m.dvsize = 0 THEN {} ELSE {m.dv}

\* A segment is one chunk after the other, up to the top chunk or a fencepost.
traverse_and_check(seg) ==
  LET S == Starts(m, seg) IN
  /\ m.head[seg.base].pin
  /\ \A p \in S : p # m.top /\ ~is_fence(m, p) =>
       /\ next_chunk(m, p) \in S
       /\ IF is_inuse(m, p) THEN p \notin InBins /\ check_inuse_chunk(p)
          ELSE (p \in Dv \/ p \in InBins) /\ check_free_chunk(p)

check_malloc_state ==
  /\ \A i \in DOMAIN m.small : check_smallbin(i)
  /\ CheckTrees(m.tree)
  /\ \A p \in DOMAIN m.tree.node : chunksize(m, p) = m.tree.node[p].size
  /\ \A p \in Dv : p \notin InBins /\ m.dvsize = chunksize(m, p) /\ m.dvsize >= MIN_CHUNK_SIZE
  /\ check_top_chunk /\ m.top \notin InBins
  /\ \A k \in DOMAIN m.seg : traverse_and_check(m.seg[k])
  /\ internal_mallinfo(m).arena <= m.footprint

-----------------------------------------------------------------------------
(* Properties *)

TypeOK ==
  /\ DOMAIN m.foot \subseteq DOMAIN m.head
  /\ \A p \in DOMAIN m.head : m.head[p].size \in Nat
  /\ m.smallmap \subseteq DOMAIN m.small /\ m.tree.map \subseteq 0 .. NTREEBINS - 1
  /\ m.dvsize \in Nat /\ m.topsize \in Nat /\ m.trim_check \in {trim_threshold, MAX_SIZE_T}
  /\ m.release_checks \in 1 .. MAX_RELEASE_CHECK_RATE + Len(m.seg)
  /\ DOMAIN user \subseteq Nat \ {NULL} /\ open \in BOOLEAN

\* footprint is what the mspace has mapped, page for page, through appended,
\* prepended, trimmed and released segments and remapped chunks; of it clients
\* hold at most what mallinfo calls uordblks.
AccountsExact ==
  /\ m.footprint = page_size * Cardinality(m.os)
  /\ SizeSum(m, DOMAIN user) <= internal_mallinfo(m).uordblks

\* After every call all that do_check_malloc_state asserts holds, and the mspace
\* accounts for all the memory it has.
StateChecked == TypeOK /\ (open => check_malloc_state /\ AccountsExact)

\* In the segments, what is in use is what clients hold, the mstate and the
\* records of segments; what is free is the dv or in one bin, or the top chunk.
\* No call loses a chunk or has it twice.
EveryChunkHasOneOwner ==
  open =>
    LET inside == InSegments(m)
        own == {m.seg[k].at - 2 * SIZE_T_SIZE : k \in DOMAIN m.seg}
        used == {p \in inside : is_inuse(m, p) /\ ~is_fence(m, p)}
    IN  /\ used = own \cup (DOMAIN user \cap inside)
        /\ DOMAIN user \cap own = {} /\ DOMAIN user \ inside \subseteq Mmapped(m)
        /\ FreeChunks(m) = InBins \cup Dv
        /\ \A i, j \in DOMAIN m.small : \A p \in Range(m.small[i]) :
             /\ p \notin DOMAIN m.tree.node
             /\ p \in Range(m.small[j]) => i = j

\* mmap_resize sizes the new region as if the chunk stood at its front, and keeps it
\* where memalign moved it: that much may be missing at its end (malloc.c.h:4148).
Missing(p) == IF is_mmapped(m, p) THEN m.foot[p] - MALLOC_ALIGNMENT ELSE 0

\* "assert(sz >= s)" of do_check_malloced_chunk, here for as long as a client
\* holds the chunk: but for what mmap_resize may take off, it never has fewer bytes
\* than asked for, nor more than the code promises, and all of them are mapped,
\* whatever is trimmed or released.
RequestFits ==
  open => \A p \in DOMAIN user :
    /\ usable_size(m, p) >= user[p] - Missing(p)
    /\ check_malloced_chunk(p, IF is_mmapped(m, p) THEN user[p] - Missing(p)
                               ELSE request2size(user[p]))
    /\ is_mmapped(m, p) => check_mmapped_chunk(p)
    /\ Pages(p, chunksize(m, p)) \subseteq m.os

\* As long as clients free what they hold, the checks of heads and footers in
\* free and realloc never abort the program.
NeverAborts == ~m.aborted

\* Clients see an allocator: what one holds is its alone and stays as it is.
Held == IF open THEN [p \in DOMAIN user |-> usable_size(m, p)] ELSE <<>>
HeapView == INSTANCE Heap WITH held <- Held
ImplementsHeap == HeapView!Spec

=============================================================================
