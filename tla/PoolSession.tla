----------------------------- MODULE PoolSession -----------------------------
(***************************************************************************)
(* compare_individual_pool_and_system (dbj_concept/is_it_feasible.h) over  *)
(* DbjPool: meta_driver makes test_data_size objects one by one, deletes   *)
(* them in the order they were made, and is run test_loop_size times over  *)
(* one pool, the static of Pooled::allocator(), destroyed at exit.         *)
(***************************************************************************)
EXTENDS DbjPool, Sequences

CONSTANTS DataSize,  \* test_data_size (0xFFFF in the code)
          Loops      \* test_loop_size (0xF in the code)

ASSUME PoolSessionAssumption == DataSize \in Nat \ {0} /\ Loops \in Nat \ {0}

VARIABLES test_data,  \* pointers of the objects made in this round
          removed,    \* objects of this round already deleted
          loop        \* round, from 1

session == <<test_data, removed, loop>>

SessionInit ==
    /\ Init
    /\ test_data = <<>>
    /\ removed = 0
    /\ loop = 1

Filling == loop <= Loops /\ Len(test_data) < DataSize /\ removed = 0

New ==
    /\ Filling
    /\ Allocate \/ AllocateNewBlock
    /\ test_data' = Append(test_data, CHOOSE c \in held' : c \notin held)
    /\ UNCHANGED <<removed, loop>>

NewStops ==
    /\ Filling
    /\ HeapRefuses \/ RegistryFull
    /\ UNCHANGED session

Delete ==
    /\ Len(test_data) = DataSize
    /\ removed < DataSize
    /\ Deallocate(test_data[removed + 1])
    /\ removed' = removed + 1
    /\ UNCHANGED <<test_data, loop>>

\* meta_driver returns, its array with it, and is called again.
Repeat ==
    /\ removed = DataSize
    /\ test_data' = <<>>
    /\ removed' = 0
    /\ loop' = loop + 1
    /\ UNCHANGED vars

Exit ==
    /\ loop > Loops
    /\ Destroy
    /\ UNCHANGED session

SessionNext == New \/ NewStops \/ Delete \/ Repeat \/ Exit

SessionSpec == SessionInit /\ [][SessionNext]_<<vars, session>>

-----------------------------------------------------------------------------
\* The pool is never larger than the fewest blocks that hold one round's data:
\* after the first round it does not ask the heap again, being served from what
\* the rounds before gave back.
FewestBlocks == level * ChunksPerBlock < DataSize + ChunksPerBlock
=============================================================================
