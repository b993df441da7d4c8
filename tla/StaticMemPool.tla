---------------------------- MODULE StaticMemPool ----------------------------
(***************************************************************************)
(* nvwa's static_mem_pool and static_mem_pool_set (nvwa/static_mem_pool.h, *)
(* .cpp): one singleton pool per block size, each with a lock of its own,  *)
(* and the set of all pools, whose lock also guards requests to the        *)
(* system.  When the system refuses memory every pool of the set gives     *)
(* back half of its free blocks and the request is made once more.         *)
(* A step is one access to shared memory or one lock operation.            *)
(***************************************************************************)
EXTENDS Integers, FiniteSets, Sequences

CONSTANTS Thread,
          Pool,       \* one per instantiated (_Sz, _Gid)
          Locked,     \* the pools with _Gid < 0, whose lock is a real one
          Users,      \* the threads whose code uses each pool
          Block,      \* memory that pools may get from the system, in blocks
          Reentrant,  \* the set's mutex may be locked again by its holder
          None        \* no owner, or a null pointer

ASSUME StaticMemPoolAssumption ==
    /\ Locked \subseteq Pool
    /\ Users \in [Pool -> SUBSET Thread]
    /\ Reentrant \in BOOLEAN
    /\ None \notin Thread \union Pool \union Block

VARIABLES
    set_mtx,   \* holder of class_level_lock<static_mem_pool_set>
    mtx,       \* holder of each pool's class_level_lock
    pending,   \* pools whose static initializer has yet to run
    instance,  \* _S_instance_p is set
    set,       \* _M_memory_pool_set, a vector
    head,      \* _S_memory_block_p of each pool
    next,      \* _M_next of each block
    sys,       \* blocks that no pool has
    held,      \* blocks of each pool that are with clients
    pc, pool, block, temp, idx, \* per thread: place, this pool, locals, iterator
    count      \* per thread: free blocks of the pool when its recycle began

shared == <<set_mtx, mtx, pending, instance, set, head, next, sys, held>>
locals == <<pool, block, temp, idx, count>>
vars == <<shared, pc, locals>>

-----------------------------------------------------------------------------
Init ==
    /\ set_mtx = None
    /\ mtx = [p \in Pool |-> None]
    /\ pending = Pool
    /\ instance = [p \in Pool |-> FALSE]
    /\ set = <<>>
    /\ head = [p \in Pool |-> None]
    /\ next = [b \in Block |-> None]
    /\ sys = Block
    /\ held = [p \in Pool |-> {}]
    /\ pc = [t \in Thread |-> "idle"]
    /\ pool = [t \in Thread |-> None]
    /\ block = [t \in Thread |-> None]
    /\ temp = [t \in Thread |-> None]
    /\ idx = [t \in Thread |-> 0]
    /\ count = [t \in Thread |-> 0]

\* Mutant of LockPool: no pool has a real lock.
LockPoolNever(t, p) == mtx' = mtx

\* fast_mutex on a pool: a null lock for the pools that are not Locked.
LockPool(t, p) ==
    /\ mtx[p] = None
    /\ mtx' = IF p \in Locked THEN [mtx EXCEPT ![p] = t] ELSE mtx
UnlockPool(p) == mtx' = [mtx EXCEPT ![p] = None]

Goto(t, from, to) ==
    /\ pc[t] = from
    /\ pc' = [pc EXCEPT ![t] = to]

\* b->_M_next, or nothing at the end of a list
After(b) == IF b = None THEN None ELSE next[b]

\* The free list of p, followed along _M_next.
FreeOf(p) ==
    LET walk[i \in 1..Cardinality(Block)] ==
            IF i = 1 THEN head[p] ELSE After(walk[i - 1])
    IN {walk[i] : i \in 1..Cardinality(Block)} \ {None}

-----------------------------------------------------------------------------
\* Calls.  A client may use a pool whose instance exists, may give a block back
\* from any thread, and may ask for any pool's instance, also before the static
\* initializer of _S_instance_p has run: from the initializer of another object
\* or from a thread that one has started.
Call(t, p, op) ==
    /\ t \in Users[p]
    /\ Goto(t, "idle", op)
    /\ pool' = [pool EXCEPT ![t] = p]

CallInstance(t) ==
    /\ \E p \in Pool : Call(t, p, "inst_lock")
    /\ UNCHANGED <<shared, block, temp, idx, count>>

CallAllocate(t) ==
    /\ \E p \in Pool : instance[p] /\ Call(t, p, "alloc_lock")
    /\ UNCHANGED <<shared, block, temp, idx, count>>

CallDeallocate(t) ==
    /\ \E p \in Pool : \E b \in held[p] :
         /\ Call(t, p, "dealloc_lock")
         /\ block' = [block EXCEPT ![t] = b]
         /\ held' = [held EXCEPT ![p] = @ \ {b}]
    /\ UNCHANGED <<set_mtx, mtx, pending, instance, set, head, next, sys,
                   temp, idx, count>>

\* Initializers run one at a time.
Initializing == {"static_force", "static_add", "static_publish"}

StaticInit(t) ==
    /\ \A u \in Thread : pc[u] \notin Initializing
    /\ \E p \in pending : Call(t, p, "static_force") /\ pending' = pending \ {p}
    /\ UNCHANGED <<set_mtx, mtx, instance, set, head, next, sys, held,
                   block, temp, idx, count>>

Return(t, from) ==
    /\ Goto(t, from, "idle")
    /\ block' = [block EXCEPT ![t] = None]
    /\ temp' = [temp EXCEPT ![t] = None]
    /\ idx' = [idx EXCEPT ![t] = 0]
    /\ count' = [count EXCEPT ![t] = 0]
    /\ pool' = [pool EXCEPT ![t] = None]

-----------------------------------------------------------------------------
\* static_mem_pool::instance(): under the pool's lock, create the pool unless
\* it exists.  Creation takes the set's lock twice, in set::instance() and in
\* set::add(), while the pool's lock is held.
InstLock(t) ==
    /\ Goto(t, "inst_lock", "inst_check")
    /\ LockPool(t, pool[t])
    /\ UNCHANGED <<set_mtx, pending, instance, set, head, next, sys, held, locals>>

InstKnown(t) ==
    /\ Return(t, "inst_check")
    /\ instance[pool[t]]
    /\ UnlockPool(pool[t])
    /\ UNCHANGED <<set_mtx, pending, instance, set, head, next, sys, held>>

\* Mutant of InstForceSet: the set's lock is not released by instance().
InstForceSetHeld(t) ==
    /\ Goto(t, "inst_check", "inst_add")
    /\ ~instance[pool[t]]
    /\ set_mtx = None
    /\ set_mtx' = t
    /\ UNCHANGED <<mtx, pending, instance, set, head, next, sys, held, locals>>

InstForceSet(t) ==
    /\ Goto(t, "inst_check", "inst_add")
    /\ ~instance[pool[t]]
    /\ set_mtx = None
    /\ UNCHANGED <<shared, locals>>

\* set::add()
Add(t) ==
    /\ set_mtx = None
    /\ set' = Append(set, pool[t])

InstAdd(t) ==
    /\ Goto(t, "inst_add", "inst_publish")
    /\ Add(t)
    /\ UNCHANGED <<set_mtx, mtx, pending, instance, head, next, sys, held, locals>>

InstPublish(t) ==
    /\ Return(t, "inst_publish")
    /\ instance' = [instance EXCEPT ![pool[t]] = TRUE]
    /\ UnlockPool(pool[t])
    /\ UNCHANGED <<set_mtx, pending, set, head, next, sys, held>>

-----------------------------------------------------------------------------
\* The static initializer of _S_instance_p creates the pool, whether there is one
\* or not, and without the pool's lock.
StaticForceSet(t) ==
    /\ Goto(t, "static_force", "static_add")
    /\ set_mtx = None
    /\ UNCHANGED <<shared, locals>>

StaticAdd(t) ==
    /\ Goto(t, "static_add", "static_publish")
    /\ Add(t)
    /\ UNCHANGED <<set_mtx, mtx, pending, instance, head, next, sys, held, locals>>

StaticPublish(t) ==
    /\ Return(t, "static_publish")
    /\ instance' = [instance EXCEPT ![pool[t]] = TRUE]
    /\ UNCHANGED <<set_mtx, mtx, pending, set, head, next, sys, held>>

-----------------------------------------------------------------------------
\* allocate(): pop a free block under the pool's lock ...
AllocLock(t) ==
    /\ Goto(t, "alloc_lock", "alloc_read")
    /\ LockPool(t, pool[t])
    /\ UNCHANGED <<set_mtx, pending, instance, set, head, next, sys, held, locals>>

AllocRead(t) ==
    /\ Goto(t, "alloc_read", "alloc_pop")
    /\ head[pool[t]] # None
    /\ block' = [block EXCEPT ![t] = head[pool[t]]]
    /\ UNCHANGED <<shared, pool, temp, idx, count>>

\* ... or, when there is none, go to the system without it.
AllocEmpty(t) ==
    /\ Goto(t, "alloc_read", "sys_lock")
    /\ head[pool[t]] = None
    /\ UnlockPool(pool[t])
    /\ UNCHANGED <<set_mtx, pending, instance, set, head, next, sys, held, locals>>

AllocPop(t) ==
    /\ Return(t, "alloc_pop")
    /\ head' = [head EXCEPT ![pool[t]] = next[block[t]]]
    /\ held' = [held EXCEPT ![pool[t]] = @ \union {block[t]}]
    /\ UnlockPool(pool[t])
    /\ UNCHANGED <<set_mtx, pending, instance, set, next, sys>>

\* _S_alloc_sys: the set's lock guards the request, the recycling and the
\* second request.  The system may refuse either: blocks of the other pools may
\* be too small for this one, and the heap has other users.
SysLock(t) ==
    /\ Goto(t, "sys_lock", "sys_alloc")
    /\ set_mtx = None
    /\ set_mtx' = t
    /\ UNCHANGED <<mtx, pending, instance, set, head, next, sys, held, locals>>

SysAlloc(t) ==
    /\ Return(t, "sys_alloc")
    /\ \E b \in sys :
         /\ sys' = sys \ {b}
         /\ held' = [held EXCEPT ![pool[t]] = @ \union {b}]
    /\ set_mtx' = None
    /\ UNCHANGED <<mtx, pending, instance, set, head, next>>

SysRefused(t) ==
    /\ Goto(t, "sys_alloc", "sys_instance")
    /\ UNCHANGED <<shared, locals>>

\* Mutant of SysInstance: the set's lock is let go before the pools recycle.
SysInstanceUnlocked(t) ==
    /\ Goto(t, "sys_instance", "rec_lock")
    /\ idx' = [idx EXCEPT ![t] = 1]
    /\ set_mtx' = None
    /\ UNCHANGED <<mtx, pending, instance, set, head, next, sys, held,
                   pool, block, temp, count>>

\* static_mem_pool_set::instance() locks the set's mutex, which this thread
\* already holds: a non-reentrant mutex never lets it through.
SysInstance(t) ==
    /\ Goto(t, "sys_instance", "rec_lock")
    /\ Reentrant \/ set_mtx # t
    /\ idx' = [idx EXCEPT ![t] = 1]
    /\ UNCHANGED <<shared, pool, block, temp, count>>

\* The second request: memory, or null for the client.
RetryAlloc(t) ==
    /\ Return(t, "sys_retry")
    /\ \E b \in sys :
         /\ sys' = sys \ {b}
         /\ held' = [held EXCEPT ![pool[t]] = @ \union {b}]
    /\ set_mtx' = None
    /\ UNCHANGED <<mtx, pending, instance, set, head, next>>

RetryRefused(t) ==
    /\ Return(t, "sys_retry")
    /\ set_mtx' = None
    /\ UNCHANGED <<mtx, pending, instance, set, head, next, sys, held>>

-----------------------------------------------------------------------------
\* recycle() of each pool of the set in turn: every second block of its list
\* goes back to the system.  The pool being recycled is set[idx[t]].
RecLock(t) ==
    /\ Goto(t, "rec_lock", "rec_head")
    /\ idx[t] <= Len(set)
    /\ LockPool(t, set[idx[t]])
    /\ UNCHANGED <<set_mtx, pending, instance, set, head, next, sys, held, locals>>

RecDone(t) ==
    /\ Goto(t, "rec_lock", "sys_retry")
    /\ idx[t] > Len(set)
    /\ UNCHANGED <<shared, locals>>

RecHead(t) ==
    /\ Goto(t, "rec_head", "rec_look")
    /\ block' = [block EXCEPT ![t] = head[set[idx[t]]]]
    /\ count' = [count EXCEPT ![t] = Cardinality(FreeOf(set[idx[t]]))]
    /\ UNCHANGED <<shared, pool, temp, idx>>

\* temp = block->_M_next is not null
RecLook(t) ==
    /\ Goto(t, "rec_look", "rec_free")
    /\ After(block[t]) # None
    /\ temp' = [temp EXCEPT ![t] = next[block[t]]]
    /\ UNCHANGED <<shared, pool, block, idx, count>>

\* the list, or the pair, has ended: unlock and go to the next pool
RecEnd(t) ==
    /\ Goto(t, "rec_look", "rec_lock")
    /\ After(block[t]) = None
    /\ UnlockPool(set[idx[t]])
    /\ idx' = [idx EXCEPT ![t] = @ + 1]
    /\ block' = [block EXCEPT ![t] = None]
    /\ temp' = [temp EXCEPT ![t] = None]
    /\ count' = [count EXCEPT ![t] = 0]
    /\ UNCHANGED <<set_mtx, pending, instance, set, head, next, sys, held, pool>>

\* Mutant of RecFree: the walk goes on at the block just unlinked.
RecFreeAll(t) ==
    /\ Goto(t, "rec_free", "rec_look")
    /\ next' = [next EXCEPT ![block[t]] = next[temp[t]]]
    /\ sys' = sys \union {temp[t]}
    /\ UNCHANGED <<set_mtx, mtx, pending, instance, set, head, held, pool, block, temp, idx, count>>

\* unlink temp, give it to the system, go on behind it
RecFree(t) ==
    /\ Goto(t, "rec_free", "rec_look")
    /\ next' = [next EXCEPT ![block[t]] = next[temp[t]]]
    /\ sys' = sys \union {temp[t]}
    /\ block' = [block EXCEPT ![t] = next[temp[t]]]
    /\ UNCHANGED <<set_mtx, mtx, pending, instance, set, head, held, pool, temp, idx, count>>

-----------------------------------------------------------------------------
\* deallocate(): push under the pool's lock.
DeallocLock(t) ==
    /\ Goto(t, "dealloc_lock", "dealloc_link")
    /\ LockPool(t, pool[t])
    /\ UNCHANGED <<set_mtx, pending, instance, set, head, next, sys, held, locals>>

DeallocLink(t) ==
    /\ Goto(t, "dealloc_link", "dealloc_push")
    /\ next' = [next EXCEPT ![block[t]] = head[pool[t]]]
    /\ UNCHANGED <<set_mtx, mtx, pending, instance, set, head, sys, held, locals>>

DeallocPush(t) ==
    /\ Return(t, "dealloc_push")
    /\ head' = [head EXCEPT ![pool[t]] = block[t]]
    /\ UnlockPool(pool[t])
    /\ UNCHANGED <<set_mtx, pending, instance, set, next, sys, held>>

-----------------------------------------------------------------------------
Calls(t) == CallInstance(t) \/ CallAllocate(t) \/ CallDeallocate(t) \/ StaticInit(t)

\* What a thread does inside a call.
Work(t) ==
    \/ InstLock(t) \/ InstKnown(t) \/ InstForceSet(t) \/ InstAdd(t) \/ InstPublish(t)
    \/ StaticForceSet(t) \/ StaticAdd(t) \/ StaticPublish(t)
    \/ AllocLock(t) \/ AllocRead(t) \/ AllocEmpty(t) \/ AllocPop(t)
    \/ SysLock(t) \/ SysAlloc(t) \/ SysRefused(t) \/ SysInstance(t)
    \/ RetryAlloc(t) \/ RetryRefused(t)
    \/ RecLock(t) \/ RecDone(t) \/ RecHead(t) \/ RecLook(t) \/ RecEnd(t) \/ RecFree(t)
    \/ DeallocLock(t) \/ DeallocLink(t) \/ DeallocPush(t)

Next == \E t \in Thread : Calls(t) \/ Work(t)

Spec == Init /\ [][Next]_vars

\* A thread inside a call that can take a step goes on running; nothing is
\* assumed about which of the threads that wait for a mutex gets it.
FairSpec == Spec /\ \A t \in Thread : WF_vars(Work(t))

-----------------------------------------------------------------------------
Place == {"idle",
          "inst_lock", "inst_check", "inst_add", "inst_publish",
          "static_force", "static_add", "static_publish",
          "alloc_lock", "alloc_read", "alloc_pop",
          "sys_lock", "sys_alloc", "sys_instance", "sys_retry",
          "rec_lock", "rec_head", "rec_look", "rec_free",
          "dealloc_lock", "dealloc_link", "dealloc_push"}

\* The shared and local variables hold what their C++ types allow; a client is
\* never given a null for a block.
TypeOK ==
    /\ pc \in [Thread -> Place]
    /\ count \in [Thread -> Nat]
    /\ set_mtx \in Thread \union {None}
    /\ mtx \in [Pool -> Thread \union {None}]
    /\ pending \subseteq Pool
    /\ instance \in [Pool -> BOOLEAN]
    /\ set \in Seq(Pool)
    /\ head \in [Pool -> Block \union {None}]
    /\ next \in [Block -> Block \union {None}]
    /\ sys \subseteq Block
    /\ held \in [Pool -> SUBSET Block]
    /\ pool \in [Thread -> Pool \union {None}]
    /\ block \in [Thread -> Block \union {None}]
    /\ temp \in [Thread -> Block \union {None}]
    /\ idx \in [Thread -> Nat]

\* Blocks a thread carries between the client and a free list.
Carried(t) ==
    IF pc[t] \in {"dealloc_lock", "dealloc_link", "dealloc_push"} THEN {block[t]} ELSE {}

\* Whatever the interleaving, every block is in exactly one place: with the
\* system, on the free list of one pool, with one client, or carried by one
\* deallocating thread.  None is handed out twice, freed while in use, or lost.
EachBlockOnce ==
    /\ TypeOK
    /\ \A b \in Block :
         Cardinality({p \in Pool : b \in FreeOf(p)}) + Cardinality({p \in Pool : b \in held[p]})
           + Cardinality({t \in Thread : b \in Carried(t)}) + (IF b \in sys THEN 1 ELSE 0) = 1

\* From the refusal of a request until the request is repeated.
Recycling == {"sys_instance", "rec_lock", "rec_head", "rec_look", "rec_free", "sys_retry"}

\* The set's lock covers the first request, the recycling and the second request.
\* Meanwhile no other pool takes memory, so that what the recycling released is there
\* for the request that caused it (though it may not fit), and the vector that
\* recycle() iterates over does not change ("to prevent other operations ... during its
\* execution", static_mem_pool.cpp:75).
RecyclingUndisturbed ==
    [][\A t \in Thread :
         pc[t] \in Recycling /\ pc'[t] \in Recycling => set' = set /\ sys \subseteq sys']_vars

\* recycle() leaves each pool the larger half of its free blocks.
RecyclesHalf ==
    \A t \in Thread :
        pc[t] = "rec_look" /\ After(block[t]) = None
            => Cardinality(FreeOf(set[idx[t]])) = (count[t] + 1) \div 2

Entries(p) == {i \in 1..Len(set) : set[i] = p}

\* A pool is in the set, so that its memory can be recycled, by the time a client can
\* reach it.  instance() adds it once, whatever calls of it coincide, and only if it
\* comes before the static initializer is through; the initializer adds it once, though
\* "Singleton class template to manage ... memory blocks of one specific size"
\* (static_mem_pool.h:82) would have it find the pool there.
PoolsRegistered ==
    \A p \in Pool :
        /\ instance[p] => Entries(p) # {}
        /\ Cardinality(Entries(p)) <= IF p \in pending THEN 1 ELSE 2

\* A pool's static initializer runs while another thread creates the pool in instance().
Overlapping ==
    \E t, u \in Thread :
        /\ pool[t] = pool[u]
        /\ pc[t] \in Initializing /\ pc[u] \in {"inst_check", "inst_add"}

\* If clients stop calling, every call returns: taking the set's lock before
\* pool locks in recycle() ("Only here ...  However, no race conditions are found so
\* far", static_mem_pool.h:225) and after them in instance() deadlocks nobody.  A pool
\* that is being created is not yet in the set, unless its static initializer, which
\* does without the pool's lock, has put it there meanwhile: then who recycles waits
\* for that lock and who creates for the set's.
CallsReturn ==
    [](~ Overlapping) /\ <>[][~\E t \in Thread : Calls(t)]_vars
        => \A t \in Thread : []<>(pc[t] = "idle")

\* fast_mutex's assertion "lock(): already locked": no thread locks the set's
\* mutex while it holds it.
NeverRelocked ==
    \A t \in Thread : pc[t] = "sys_instance" => set_mtx # t
=============================================================================
