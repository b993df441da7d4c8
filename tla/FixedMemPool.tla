---------------------------- MODULE FixedMemPool ----------------------------
(***************************************************************************)
(* nvwa's fixed_mem_pool (nvwa/fixed_mem_pool.h): one chunk of memory cut  *)
(* into blocks by initialize(), handed out and taken back under a lock,    *)
(* and released by deinitialize().  "Only allocate and deallocate are      *)
(* protected by a lock": initialize() and deinitialize() are called while  *)
(* no other call is under way, and are one step each.  A client writes     *)
(* over the link of the block it has.                                      *)
(***************************************************************************)
EXTENDS Integers, FiniteSets, FreeList

CONSTANTS Thread,
          MaxSize,    \* bound: blocks asked of initialize()
          Reentrant,  \* the class lock's mutex may be locked again by its holder
          Reclaims,   \* bad_alloc_handler is specialized to free a block
          Data        \* what a client writes

ASSUME FixedMemPoolAssumption ==
    /\ MaxSize \in Nat \ {0}
    /\ Reentrant \in BOOLEAN
    /\ Reclaims \in BOOLEAN
    /\ Null \notin Thread \union (1..MaxSize)

VARIABLES
    size,   \* blocks of the pool, 0 while _S_mem_pool_ptr is null
    first,  \* _S_first_avail_ptr
    link,   \* first word of each block
    cnt,    \* _S_alloc_cnt
    mtx,    \* holder of the class lock
    held,   \* blocks that are with clients
    pc, block

shared == <<size, first, link, cnt, mtx, held>>
vars == <<shared, pc, block>>

Block == 1..MaxSize

Init ==
    /\ size = 0
    /\ first = Null
    /\ link = [b \in Block |-> Null]
    /\ cnt = 0
    /\ mtx = Null
    /\ held = {}
    /\ pc = [t \in Thread |-> "idle"]
    /\ block = [t \in Thread |-> Null]

Goto(t, from, to) ==
    /\ pc[t] = from
    /\ pc' = [pc EXCEPT ![t] = to]

Idle == \A t \in Thread : pc[t] = "idle"

-----------------------------------------------------------------------------
\* Chain the blocks.  When alloc_sys fails nothing changes: no step.
Initialize ==
    /\ Idle
    /\ size = 0
    /\ \E n \in Block :
         /\ size' = n
         /\ link' = [b \in Block |-> IF b < n THEN b + 1 ELSE IF b = n THEN Null ELSE link[b]]
    /\ first' = 1
    /\ UNCHANGED <<cnt, mtx, held, pc, block>>

\* With blocks still in allocation deinitialize() only returns their number.
Deinitialize ==
    /\ Idle
    /\ size # 0
    /\ cnt = 0
    /\ size' = 0
    /\ first' = Null
    /\ UNCHANGED <<link, cnt, mtx, held, pc, block>>

-----------------------------------------------------------------------------
CallAllocate(t) ==
    /\ Goto(t, "idle", "alloc_lock")
    /\ UNCHANGED <<shared, block>>

CallDeallocate(t) ==
    /\ Goto(t, "idle", "dealloc_lock")
    /\ \E b \in held : held' = held \ {b} /\ block' = [block EXCEPT ![t] = b]
    /\ UNCHANGED <<size, first, link, cnt, mtx>>

ClientWrites(b) ==
    /\ b \in held
    /\ link' = [link EXCEPT ![b] = Data]
    /\ UNCHANGED <<size, first, cnt, mtx, held, pc, block>>

Lock(t, from, to) ==
    /\ Goto(t, from, to)
    /\ mtx = Null
    /\ mtx' = t

Return(t, from) ==
    /\ Goto(t, from, "idle")
    /\ block' = [block EXCEPT ![t] = Null]
    /\ mtx' = Null

AllocLock(t) ==
    /\ Lock(t, "alloc_lock", "alloc_look")
    /\ UNCHANGED <<size, first, link, cnt, held, block>>

AllocLook(t) ==
    /\ Goto(t, "alloc_look", IF first = Null THEN "alloc_bad" ELSE "alloc_pop")
    /\ block' = [block EXCEPT ![t] = first]
    /\ UNCHANGED shared

\* Mutant of AllocPop: the allocation is not counted.
AllocPopUncounted(t) ==
    /\ Return(t, "alloc_pop")
    /\ first' = link[first]
    /\ held' = held \union {block[t]}
    /\ UNCHANGED <<size, link, cnt>>

AllocPop(t) ==
    /\ Return(t, "alloc_pop")
    /\ first' = link[first]
    /\ cnt' = cnt + 1
    /\ held' = held \union {block[t]}
    /\ UNCHANGED <<size, link>>

\* bad_alloc_handler() returns false, as it does unless specialized and as a
\* specialized one may when it can spare nothing, and allocate() a null.
AllocNull(t) ==
    /\ Return(t, "alloc_bad")
    /\ UNCHANGED <<size, first, link, cnt, held>>

\* A specialized handler gives back a block that the program can spare, through
\* deallocate(): it is called, and takes the lock, under the caller's lock, for
\* which the mutex has to be reentrant.
HandlerFrees(t) ==
    /\ Goto(t, "alloc_bad", "handler_lock")
    /\ Reclaims
    /\ \E b \in held : held' = held \ {b} /\ block' = [block EXCEPT ![t] = b]
    /\ UNCHANGED <<size, first, link, cnt, mtx>>

HandlerPush(t) ==
    /\ Goto(t, "handler_lock", "alloc_look")
    /\ Reentrant \/ mtx # t
    /\ cnt' = cnt - 1
    /\ link' = [link EXCEPT ![block[t]] = first]
    /\ first' = block[t]
    /\ block' = [block EXCEPT ![t] = Null]
    /\ UNCHANGED <<size, mtx, held>>

DeallocLock(t) ==
    /\ Lock(t, "dealloc_lock", "dealloc_link")
    /\ cnt' = cnt - 1
    /\ UNCHANGED <<size, first, link, held, block>>

\* Mutant of DeallocLink: the block keeps what its client wrote.
DeallocLinkKept(t) ==
    /\ Goto(t, "dealloc_link", "dealloc_push")
    /\ UNCHANGED <<shared, block>>

DeallocLink(t) ==
    /\ Goto(t, "dealloc_link", "dealloc_push")
    /\ link' = [link EXCEPT ![block[t]] = first]
    /\ UNCHANGED <<size, first, cnt, mtx, held, block>>

\* Mutant of DeallocPush: the lock is not released.
DeallocPushHeld(t) ==
    /\ Goto(t, "dealloc_push", "idle")
    /\ first' = block[t]
    /\ block' = [block EXCEPT ![t] = Null]
    /\ UNCHANGED <<size, link, cnt, mtx, held>>

DeallocPush(t) ==
    /\ Return(t, "dealloc_push")
    /\ first' = block[t]
    /\ UNCHANGED <<size, link, cnt, held>>

Calls(t) == CallAllocate(t) \/ CallDeallocate(t)

Work(t) ==
    \/ AllocLock(t) \/ AllocLook(t) \/ AllocPop(t) \/ AllocNull(t)
    \/ HandlerFrees(t) \/ HandlerPush(t)
    \/ DeallocLock(t) \/ DeallocLink(t) \/ DeallocPush(t)

Next ==
    \/ Initialize \/ Deinitialize
    \/ \E b \in Block : ClientWrites(b)
    \/ \E t \in Thread : Calls(t) \/ Work(t)

Spec == Init /\ [][Next]_vars

\* Threads inside a call go on running while they can.
FairSpec == Spec /\ \A t \in Thread : WF_vars(Work(t))

-----------------------------------------------------------------------------
\* The variables hold what their C++ types allow, and the head of the free list
\* is never what a client wrote over a link.
TypeOK ==
    /\ size \in 0..MaxSize
    /\ first \in (1..size) \union {Null}
    /\ link \in [Block -> Block \union {Null, Data}]
    /\ cnt \in 0..MaxSize
    /\ mtx \in Thread \union {Null}
    /\ held \subseteq 1..size
    /\ block \in [Thread -> Block \union {Null}]

\* Blocks on their way back, no longer with a client and not yet on the list.
Returning == {block[t] : t \in {u \in Thread :
                pc[u] \in {"dealloc_lock", "dealloc_link", "dealloc_push", "handler_lock"}}}
Free == ((1..size) \ held) \ Returning

\* Whenever no thread is inside the lock, the free list has exactly the blocks
\* that nobody has, whatever clients wrote into theirs.
FreeListExact ==
    /\ TypeOK
    /\ mtx = Null => IsListOf({Cardinality(Free)}, Free, first, link)

\* _S_alloc_cnt counts the blocks in allocation (the decrement of deallocate()
\* comes first under the lock), so "assert(_S_alloc_cnt != 0)" cannot fail and
\* deinitialize(), which trusts it, never frees memory that a client has or is
\* giving back.
CountsOutstanding ==
    /\ cnt = Cardinality(held)
             + Cardinality({t \in Thread : pc[t] \in {"dealloc_lock", "handler_lock"}})
    /\ size = 0 => held = {} /\ Returning = {}

\* Once clients stop calling, every allocate and deallocate returns.
CallsReturn ==
    <>[][~\E t \in Thread : Calls(t)]_vars => []<>Idle
=============================================================================
