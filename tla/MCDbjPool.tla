------------------------------ MODULE MCDbjPool ------------------------------
(***************************************************************************)
(* DbjPool on a small heap, used by any client or by the benchmark: three  *)
(* objects in blocks of two, the last block partly used like the last of   *)
(* 0xFFFF objects in blocks of 16384 chunks.  Model values for the blocks, *)
(* interchangeable.                                                        *)
(***************************************************************************)
EXTENDS DbjPoolMemory, PoolSession, TLC

VARIABLE client   \* who uses the pool

\* Up to nine words and every remainder.
Sizes == 1..70

ClientsInit == SessionInit /\ client \in {"any", "benchmark"}

ClientsNext ==
    /\ \/ client = "any" /\ Next /\ UNCHANGED session
       \/ client = "benchmark" /\ SessionNext
    /\ UNCHANGED client

ClientsSpec == ClientsInit /\ [][ClientsNext]_<<vars, session, client>>

\* The benchmark's pool never has a block more than one round of its objects needs
\* (is_it_feasible.h: test_data_size objects, deleted in the order they were made).
BenchmarkFewestBlocks == client = "benchmark" => FewestBlocks

Symmetry == Permutations(Block)
=============================================================================
