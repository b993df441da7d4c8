------------------------------ MODULE FreeList ------------------------------
(***************************************************************************)
(* Singly linked, null-terminated lists of chunks, threaded through the    *)
(* chunks themselves: what the pool allocators of the repository keep.     *)
(***************************************************************************)
EXTENDS Integers

CONSTANT Null

\* s lists the chunks of F, each once, from head along links to a null.
Lists(n, s, F, head, links) ==
    /\ head = IF n = 0 THEN Null ELSE s[1]
    /\ \A i \in 1..n : links[s[i]] = IF i = n THEN Null ELSE s[i + 1]
    /\ \A i, j \in 1..n : s[i] = s[j] => i = j
    /\ \A c \in F : \E i \in 1..n : s[i] = c

\* head starts a list of exactly the chunks of F, whose length is in Lengths.
IsListOf(Lengths, F, head, links) ==
    \E n \in Lengths : \E s \in [1..n -> F] : Lists(n, s, F, head, links)
=============================================================================
