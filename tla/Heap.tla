-------------------------------- MODULE Heap --------------------------------
(***************************************************************************)
(* What an allocator promises its clients: the memory a client holds       *)
(* overlaps no other client's, and stays the client's, where it is and as  *)
(* large as it is, until that client gives it back or resizes it.          *)
(***************************************************************************)
EXTENDS Integers

VARIABLE held    \* of each pointer a client holds, how many bytes are its own

Apart(h) == \A p, q \in DOMAIN h : p < q => p + h[p] <= q

Init == held = [p \in {} |-> 0]

\* The blocks of everyone but p are where they were.
Others(p) == \A q \in DOMAIN held \ {p} : q \in DOMAIN held' /\ held'[q] = held[q]

\* One block or several are handed out.
Allocate == Apart(held') /\ \A q \in DOMAIN held : q \in DOMAIN held' /\ held'[q] = held[q]

Release(p) == held' = [q \in DOMAIN held \ {p} |-> held[q]]

\* p's block grows, shrinks or moves.
Resize(p) ==
  /\ Apart(held') /\ Others(p)
  /\ \E q \in DOMAIN held' : DOMAIN held' = (DOMAIN held \ {p}) \cup {q}

\* All is given back at once.
ReleaseAll == held' = [p \in {} |-> 0]

Next == Allocate \/ ReleaseAll \/ \E p \in DOMAIN held : Release(p) \/ Resize(p)

Spec == Init /\ [][Next]_held

=============================================================================
