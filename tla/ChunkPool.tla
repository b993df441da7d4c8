------------------------------ MODULE ChunkPool ------------------------------
(***************************************************************************)
(* What a chunk pool promises its client, whatever list it keeps inside:   *)
(* a chunk is with at most one client at a time, memory is asked from the  *)
(* heap only when every chunk already owned is with the client, and no     *)
(* block goes back to the heap before the pool itself is destroyed.        *)
(* dbj_pool_allocator (DbjPool) and PoolAllocator (ShoPool) implement it.  *)
(***************************************************************************)
EXTENDS Naturals

CONSTANTS Block,          \* blocks the heap can hand out
          ChunksPerBlock  \* chunks carved from one block

VARIABLES owned,  \* blocks the pool has taken from the heap
          live,   \* chunks that are with the client
          open    \* FALSE once the pool is destroyed

vars == <<owned, live, open>>

ChunksOf(B) == B \X (1..ChunksPerBlock)

Init ==
    /\ owned = {}
    /\ live = {}
    /\ open = TRUE

\* A chunk the pool already owns, and that no client has, is handed out.
Reuse ==
    /\ open
    /\ \E c \in ChunksOf(owned) \ live : live' = live \union {c}
    /\ UNCHANGED <<owned, open>>

\* Every owned chunk is with the client: one more block is taken.
Grow ==
    /\ open
    /\ ChunksOf(owned) \subseteq live
    /\ \E b \in Block \ owned :
         /\ owned' = owned \union {b}
         /\ \E c \in ChunksOf({b}) : live' = live \union {c}
    /\ UNCHANGED open

Release ==
    /\ open
    /\ \E c \in live : live' = live \ {c}
    /\ UNCHANGED <<owned, open>>

Destroy ==
    /\ open
    /\ owned' = {}
    /\ live' = {}
    /\ open' = FALSE

Next == Reuse \/ Grow \/ Release \/ Destroy

Spec == Init /\ [][Next]_vars
=============================================================================
