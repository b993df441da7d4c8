----------------------------- MODULE MCNedPool -----------------------------
(* Three threads, a pool of two mspaces, and two caches for the three; or the *)
(* pools themselves, made and destroyed by threads.  The two parts share no   *)
(* state: a behaviour works on one of them.                                   *)
EXTENDS NedPool, NedPoolList

\* Three at once; two, of which one allocates, frees and turns its cache off.
Calls == {<<1, 1, 1>>, <<3, 2, 0>>, <<0, 0, 0>>}
ListCalls == {<<0, 0, 0>>, <<2, 1, 1>>, <<3, 2, 0>>}
Rest == [t \in Thread |-> 0]

NedInit ==
    /\ Init /\ ListInit
    /\ calls = Rest <=> todo # Rest

NedNext ==
    \/ Next /\ UNCHANGED listvars
    \/ ListNext /\ UNCHANGED vars

NedSpec == NedInit /\ [][NedNext]_<<vars, listvars>> /\ WF_vars(\E t \in Thread : Step(t))
=============================================================================
