------------------------ MODULE StaticMemPool_proofs ------------------------
(***************************************************************************)
(* Proofs about StaticMemPool for any threads, pools and amount of memory. *)
(***************************************************************************)
EXTENDS StaticMemPool, SequenceTheorems, FiniteSetTheorems, WellFoundedInduction, TLAPS

L == INSTANCE Lemmas_proofs WITH Null <- None

\* Where a thread holds the set's lock.
InSystem == {"sys_alloc"} \union Recycling

\* The thread that talks to the system holds the set's lock.
SystemInv ==
    /\ pc \in [Thread -> Place]
    /\ \A t \in Thread : pc[t] \in InSystem => set_mtx = t

LEMMA InitSystemInv == Init => SystemInv
  BY DEF Init, Place, SystemInv, InSystem, Recycling

\* Calls and the steps of instance(), of the static initializer, of allocate() and of
\* deallocate() do not touch the set's lock ...
LEMMA PoolStepInv ==
    ASSUME NEW t \in Thread, SystemInv,
           \/ Calls(t) \/ InstLock(t) \/ InstForceSet(t) \/ InstAdd(t)
           \/ StaticForceSet(t) \/ StaticAdd(t)
           \/ AllocLock(t) \/ AllocRead(t) \/ AllocEmpty(t)
           \/ DeallocLock(t) \/ DeallocLink(t)
    PROVE  SystemInv'
<1>1. \E from, to \in Place :
        /\ Goto(t, from, to)
        /\ from \notin InSystem /\ to \notin InSystem
        /\ UNCHANGED set_mtx
  BY DEF Calls, CallInstance, CallAllocate, CallDeallocate, StaticInit, Call, InstLock,
         InstForceSet, InstAdd, StaticForceSet, StaticAdd, AllocLock, AllocRead, AllocEmpty,
         DeallocLock, DeallocLink, shared, locals, InSystem, Recycling, Place
<1> QED
  BY <1>1 DEF Place, SystemInv, Goto, InSystem, Recycling

\* ... nor do their returns.
LEMMA PoolReturnInv ==
    ASSUME NEW t \in Thread, SystemInv,
           InstKnown(t) \/ InstPublish(t) \/ StaticPublish(t) \/ AllocPop(t) \/ DeallocPush(t)
    PROVE  SystemInv'
<1>1. \E from \in Place : Return(t, from) /\ from \notin InSystem /\ UNCHANGED set_mtx
  BY DEF InstKnown, InstPublish, StaticPublish, AllocPop, DeallocPush, InSystem, Recycling, Place
<1> QED
  BY <1>1 DEF Place, SystemInv, Return, Goto, InSystem, Recycling

\* The end of a request gives up the set's lock: no other thread relies on it.
LEMMA RequestInv ==
    ASSUME NEW t \in Thread, SystemInv,
           SysAlloc(t) \/ RetryAlloc(t) \/ RetryRefused(t)
    PROVE  SystemInv'
<1>1. \E from \in InSystem : Return(t, from)
  BY DEF SysAlloc, RetryAlloc, RetryRefused, InSystem, Recycling
<1>2. set_mtx = t
  BY <1>1 DEF SystemInv, Return, Goto
<1>3. \A u \in Thread : u # t => pc[u] \notin InSystem
  BY <1>2 DEF SystemInv
<1>4. \A u \in Thread : pc'[u] \notin InSystem
  BY <1>1, <1>3 DEF Place, SystemInv, Return, Goto, InSystem, Recycling
<1>5. pc' \in [Thread -> Place]
  BY <1>1 DEF Place, SystemInv, Return, Goto
<1> QED
  BY <1>4, <1>5 DEF SystemInv

\* Taking the set's lock, and the walk over the pools.
LEMMA RecycleInv ==
    ASSUME NEW t \in Thread, SystemInv,
           \/ SysLock(t) \/ SysRefused(t) \/ SysInstance(t)
           \/ RecLock(t) \/ RecDone(t) \/ RecHead(t) \/ RecLook(t) \/ RecEnd(t) \/ RecFree(t)
    PROVE  SystemInv'
<1> USE DEF Place, SystemInv, Goto, InSystem, Recycling, shared, locals
<1>1. CASE SysLock(t)
  BY <1>1, StaticMemPoolAssumption DEF SysLock
<1>2. CASE SysRefused(t) \/ SysInstance(t)
  BY <1>2 DEF SysRefused, SysInstance
<1>3. CASE RecLock(t) \/ RecDone(t)
  BY <1>3 DEF RecLock, RecDone
<1>4. CASE RecHead(t) \/ RecLook(t) \/ RecEnd(t) \/ RecFree(t)
  BY <1>4 DEF RecHead, RecLook, RecEnd, RecFree
<1> QED
  BY <1>1, <1>2, <1>3, <1>4

LEMMA SystemInvHolds == Spec => []SystemInv
<1>1. SystemInv /\ [Next]_vars => SystemInv'
  <2> SUFFICES ASSUME SystemInv, [Next]_vars PROVE SystemInv'
    OBVIOUS
  <2>1. CASE \E t \in Thread : Calls(t) \/ Work(t)
    BY <2>1, PoolStepInv, PoolReturnInv, RequestInv, RecycleInv DEF Work
  <2>2. CASE UNCHANGED vars
    BY <2>2 DEF vars, shared, locals, SystemInv
  <2> QED
    BY <2>1, <2>2 DEF Next
<1> QED
  BY <1>1, InitSystemInv, PTL DEF Spec

\* What a step does to the set of pools and to what no pool has: a pool is added while
\* the set's lock is free; memory is released by the walk, and taken by a request that
\* ends the call.
LEMMA SystemEffect ==
    ASSUME NEW u \in Thread, Calls(u) \/ Work(u)
    PROVE  \/ UNCHANGED <<set, sys>>
           \/ set_mtx = None /\ UNCHANGED sys
              /\ pc[u] \notin InSystem
           \/ pc[u] = "rec_free" /\ UNCHANGED set /\ sys \subseteq sys'
           \/ pc[u] \in InSystem /\ pc' = [pc EXCEPT ![u] = "idle"]
<1> USE DEF shared, locals, Goto, InSystem, Recycling
<1>1. CASE Calls(u)
  BY <1>1 DEF Calls, CallInstance, CallAllocate, CallDeallocate, StaticInit
<1>2. CASE InstAdd(u) \/ StaticAdd(u)
  BY <1>2 DEF InstAdd, StaticAdd, Add
<1>3. CASE SysAlloc(u) \/ RetryAlloc(u)
  BY <1>3 DEF SysAlloc, RetryAlloc, Return
<1>4. CASE RecFree(u)
  BY <1>4 DEF RecFree
<1>5. CASE \/ InstLock(u) \/ InstKnown(u) \/ InstForceSet(u) \/ InstPublish(u)
           \/ StaticForceSet(u) \/ StaticPublish(u)
           \/ AllocLock(u) \/ AllocRead(u) \/ AllocEmpty(u) \/ AllocPop(u)
           \/ DeallocLock(u) \/ DeallocLink(u) \/ DeallocPush(u)
  BY <1>5 DEF InstLock, InstKnown, InstForceSet, InstPublish, StaticForceSet, StaticPublish,
              AllocLock, AllocRead, AllocEmpty, AllocPop, DeallocLock, DeallocLink, DeallocPush
<1>6. CASE \/ SysLock(u) \/ SysRefused(u) \/ SysInstance(u) \/ RetryRefused(u)
           \/ RecLock(u) \/ RecDone(u) \/ RecHead(u) \/ RecLook(u) \/ RecEnd(u)
  BY <1>6 DEF SysLock, SysRefused, SysInstance, RetryRefused, RecLock, RecDone, RecHead,
              RecLook, RecEnd
<1> QED
  BY <1>1, <1>2, <1>3, <1>4, <1>5, <1>6 DEF Work

\* From the refusal of a request until it is repeated no other thread takes memory from
\* the system or adds a pool to the set that is being recycled: for any threads, pools
\* and memory, and whatever the other threads do meanwhile.
THEOREM RecyclingIsUndisturbed == Spec => RecyclingUndisturbed
<1>1. SystemInv /\ [Next]_vars =>
        [\A t \in Thread :
           pc[t] \in Recycling /\ pc'[t] \in Recycling => set' = set /\ sys \subseteq sys']_vars
  <2> SUFFICES ASSUME SystemInv, NEW u \in Thread, Calls(u) \/ Work(u), NEW t \in Thread,
                      pc[t] \in Recycling, pc'[t] \in Recycling
               PROVE  set' = set /\ sys \subseteq sys'
    BY DEF Next
  <2>1. set_mtx = t /\ t # None /\ pc[t] \in InSystem
    BY StaticMemPoolAssumption DEF SystemInv, InSystem
  <2>2. pc[u] \in InSystem => u = t
    BY <2>1 DEF SystemInv
  <2>3. ~ (pc[u] \in InSystem /\ pc' = [pc EXCEPT ![u] = "idle"])
    BY <2>2 DEF SystemInv, Recycling
  <2> QED
    BY <2>1, <2>3, SystemEffect
<1> QED
  BY <1>1, SystemInvHolds, PTL DEF Spec, RecyclingUndisturbed

\* Two threads are never both between a request to the system and its retry.
THEOREM OneRecycler ==
    Spec => [](\A t, u \in Thread : pc[t] \in InSystem /\ pc[u] \in InSystem => t = u)
<1>1. SystemInv => \A t, u \in Thread : pc[t] \in InSystem /\ pc[u] \in InSystem => t = u
  BY DEF SystemInv
<1> QED
  BY <1>1, SystemInvHolds, PTL

-----------------------------------------------------------------------------
(* The locks of the pools, and the set of them. *)

UnderPool == {"inst_check", "inst_add", "inst_publish", "alloc_read", "alloc_pop",
              "dealloc_link", "dealloc_push"}
Walking == {"rec_head", "rec_look", "rec_free"}
Creating == {"inst_check", "inst_add", "inst_publish"}

\* Thread t is where it has taken the lock of p: its own pool's, or the one it recycles.
Holding(t, p) ==
    \/ pc[t] \in UnderPool /\ pool[t] = p
    \/ pc[t] \in Walking /\ set[idx[t]] = p

LocksInv == \A p \in Locked, t \in Thread : Holding(t, p) => mtx[p] = t

\* A pool without a lock is used by one thread: what _Gid >= 0 asks of a program
\* ("no protection is given").
OneUser == \A p \in Pool \ Locked : \A t, u \in Users[p] : t = u

InSet(p) == \E i \in 1..Len(set) : set[i] = p

SetShapes ==
    /\ pc \in [Thread -> Place] /\ mtx \in [Pool -> Thread \union {None}]
    /\ instance \in [Pool -> BOOLEAN] /\ set \in Seq(Pool)
    /\ pool \in [Thread -> Pool \union {None}] /\ idx \in [Thread -> Nat]
    /\ \A t \in Thread :
         /\ pc[t] # "idle" => pool[t] \in Pool /\ t \in Users[pool[t]]
         /\ pc[t] \in {"rec_lock"} \union Walking => idx[t] # 0
         /\ pc[t] \in Walking => idx[t] \in 1..Len(set)

\* The static initializer of p has put the pool in the set; an instance() call can have.
StaticDone(p) ==
    /\ p \notin pending
    /\ ~ \E t \in Thread : pc[t] \in {"static_force", "static_add"} /\ pool[t] = p
InstDone(p) ==
    /\ instance[p] \/ \E t \in Thread : pc[t] = "inst_publish" /\ pool[t] = p
    /\ ~ \E t \in Thread : pc[t] = "inst_add" /\ pool[t] = p

\* Each of the two has added p once at most.
Bounded(p) ==
    Cardinality(Entries(p)) <= (IF StaticDone(p) THEN 1 ELSE 0) + (IF InstDone(p) THEN 1 ELSE 0)

Registered ==
    /\ pending \subseteq Pool
    /\ \A p \in Pool : instance[p] => InSet(p)
    /\ \A t \in Thread, p \in Pool :
         pc[t] \in {"inst_publish", "static_publish"} /\ pool[t] = p => InSet(p)
    /\ \A t \in Thread : pc[t] \in Initializing => pool[t] \notin pending
    /\ \A t, u \in Thread : pc[t] \in Initializing /\ pc[u] \in Initializing => t = u
    /\ \A p \in Pool : Bounded(p)

SetInv == SetShapes /\ LocksInv /\ Registered

\* What a step of one thread may do to the locks: leave them, take one, or give one up.
OneLock(t) ==
    \/ /\ mtx' = mtx /\ \A p \in Pool : Holding(t, p)' => Holding(t, p)
    \/ \E q \in Pool : LockPool(t, q) /\ \A p \in Pool : Holding(t, p)' => p = q
    \/ \E q \in Pool : /\ Holding(t, q) /\ UnlockPool(q)
                       /\ \A p \in Pool : ~ Holding(t, p)'

\* Only thread t moves, and the set of pools keeps the pools it has.
Moves(t) ==
    /\ \A u \in Thread \ {t} : pc'[u] = pc[u] /\ pool'[u] = pool[u] /\ idx'[u] = idx[u]
    /\ \A i \in 1..Len(set) : i \in 1..Len(set') /\ set'[i] = set[i]

LEMMA LocksStep ==
    ASSUME SetShapes, LocksInv, NEW t \in Thread, Moves(t), OneLock(t)
    PROVE  LocksInv'
<1> USE StaticMemPoolAssumption
<1>1. \A u \in Thread \ {t} : \A p \in Pool : Holding(u, p)' <=> Holding(u, p)
  BY DEF Holding, Moves, SetShapes
<1>2. CASE mtx' = mtx /\ \A p \in Pool : Holding(t, p)' => Holding(t, p)
  BY <1>1, <1>2 DEF LocksInv
<1>3. ASSUME NEW q \in Pool, LockPool(t, q), \A p \in Pool : Holding(t, p)' => p = q
      PROVE  LocksInv'
  <2> SUFFICES ASSUME NEW p \in Locked, NEW u \in Thread, Holding(u, p)' PROVE mtx'[p] = u
    BY DEF LocksInv
  <2>1. p \in Pool /\ (u = t => p = q) /\ (u # t => Holding(u, p) /\ mtx[p] = u)
    BY <1>1, <1>3 DEF LocksInv
  <2> QED
    BY <1>3, <2>1 DEF LockPool, SetShapes
<1>4. ASSUME NEW q \in Pool, Holding(t, q), UnlockPool(q), \A p \in Pool : ~ Holding(t, p)'
      PROVE  LocksInv'
  <2> SUFFICES ASSUME NEW p \in Locked, NEW u \in Thread, Holding(u, p)' PROVE mtx'[p] = u
    BY DEF LocksInv
  <2>1. u # t /\ Holding(u, p) /\ p \in Pool
    BY <1>1, <1>4
  <2>2. mtx[p] = u /\ (q = p => mtx[p] = t)
    BY <1>4, <2>1 DEF LocksInv
  <2> QED
    BY <1>4, <2>1, <2>2 DEF UnlockPool, SetShapes
<1> QED
  BY <1>2, <1>3, <1>4 DEF OneLock

\* Two threads are never both creating one pool.
LEMMA OneCreator ==
    ASSUME OneUser, SetShapes, LocksInv, NEW t \in Thread, NEW u \in Thread,
           pc[t] \in Creating, pc[u] \in Creating, pool[t] = pool[u]
    PROVE  t = u
<1>1. pool[t] \in Pool /\ t \in Users[pool[t]] /\ u \in Users[pool[t]]
  BY DEF SetShapes, Creating
<1>2. CASE pool[t] \in Locked
  BY <1>2 DEF LocksInv, Holding, Creating, UnderPool
<1>3. CASE pool[t] \notin Locked
  BY <1>1, <1>3 DEF OneUser
<1> QED
  BY <1>2, <1>3

\* What has been added stays added.
Keeps(p) == (StaticDone(p) => StaticDone(p)') /\ (InstDone(p) => InstDone(p)')

LEMMA EntriesCount ==
    ASSUME SetShapes, NEW p
    PROVE  IsFiniteSet(Entries(p)) /\ Cardinality(Entries(p)) \in Nat
<1>1. Len(set) \in Int /\ Entries(p) \in SUBSET (1..Len(set))
  BY DEF SetShapes, Entries
<1>2. IsFiniteSet(1..Len(set))
  BY <1>1, FS_Interval
<1>3. IsFiniteSet(Entries(p))
  BY <1>1, <1>2, FS_Subset
<1> QED
  BY <1>3, FS_CardinalityType

LEMMA KeepBound ==
    ASSUME SetShapes, NEW p, Bounded(p), Entries(p)' = Entries(p), Keeps(p)
    PROVE  Bounded(p)'
  BY EntriesCount DEF Bounded, Keeps

\* Steps that leave the set, the initializers and which pools exist as they are, at
\* places where no pool is created.
LEMMA SameSet ==
    ASSUME SetInv, NEW t \in Thread, Moves(t), UNCHANGED <<set, pending, instance>>,
           pc[t] \notin {"inst_add", "inst_publish"} \union Initializing,
           pc'[t] \notin {"inst_add", "inst_publish"} \union Initializing
    PROVE  Registered'
<1> USE DEF SetInv, Registered, Initializing
<1>1. \A p : (InSet(p)' <=> InSet(p)) /\ Entries(p)' = Entries(p)
  BY DEF InSet, Entries
<1>2. \A u \in Thread \ {t} : pc'[u] = pc[u] /\ pool'[u] = pool[u]
  BY DEF Moves
<1>3. ASSUME NEW p \in Pool PROVE Bounded(p)'
  <2>1. Keeps(p)
    BY <1>2 DEF Keeps, StaticDone, InstDone
  <2>2. Bounded(p) /\ Entries(p)' = Entries(p)
    BY <1>1
  <2> QED
    BY <2>1, <2>2, KeepBound
<1>4. \A u \in Thread, p \in Pool :
        pc'[u] \in {"inst_publish", "static_publish"} /\ pool'[u] = p => InSet(p)'
  BY <1>1, <1>2
<1>5. \A u \in Thread : pc'[u] \in Initializing => pool'[u] \notin pending'
  BY <1>2
<1>6. \A u, v \in Thread : pc'[u] \in Initializing /\ pc'[v] \in Initializing => u = v
  BY <1>2
<1> QED
  BY <1>1, <1>3, <1>4, <1>5, <1>6

\* Every step keeps these shapes, moves one thread and touches one lock.
LEMMA CallShape ==
    ASSUME SetInv, NEW t \in Thread, Calls(t)
    PROVE  SetShapes' /\ Moves(t) /\ OneLock(t)
<1>1. PICK p \in Pool, op \in {"inst_lock", "alloc_lock", "dealloc_lock", "static_force"} :
        /\ Call(t, p, op)
        /\ UNCHANGED <<mtx, instance, set, idx>>
  <2>1. CASE StaticInit(t)
    <3>1. PICK p \in pending : /\ Call(t, p, "static_force")
                              /\ UNCHANGED <<mtx, instance, set, idx>>
      BY <2>1 DEF StaticInit
    <3>2. p \in Pool
      BY DEF SetInv, Registered
    <3> QED
      BY <3>1, <3>2
  <2>2. CASE CallInstance(t) \/ CallAllocate(t) \/ CallDeallocate(t)
    BY <2>2 DEF CallInstance, CallAllocate, CallDeallocate, shared
  <2> QED
    BY <2>1, <2>2 DEF Calls
<1>2. Moves(t)
  BY <1>1 DEF Moves, Call, Goto, SetInv, SetShapes
<1>3. OneLock(t)
  BY <1>1 DEF OneLock, Call, Goto, SetInv, SetShapes, Holding, UnderPool, Walking
<1>4. SetShapes'
  BY <1>1 DEF Call, Goto, SetInv, SetShapes, Walking, Place
<1> QED
  BY <1>2, <1>3, <1>4

LEMMA TakeShape ==
    ASSUME SetInv, NEW t \in Thread,
           InstLock(t) \/ AllocLock(t) \/ DeallocLock(t) \/ RecLock(t)
    PROVE  SetShapes' /\ Moves(t) /\ OneLock(t)
<1> USE DEF SetInv, SetShapes, Walking, UnderPool, Place, locals, Goto, LockPool
<1>1. CASE InstLock(t) \/ AllocLock(t) \/ DeallocLock(t)
  <2>1. PICK to \in UnderPool :
          /\ pc' = [pc EXCEPT ![t] = to] /\ pc[t] # "idle"
          /\ LockPool(t, pool[t])
          /\ UNCHANGED <<instance, set, pool, idx>>
    BY <1>1 DEF InstLock, AllocLock, DeallocLock
  <2>2. pool[t] \in Pool /\ LockPool(t, pool[t])
    BY <2>1
  <2>3. \A p \in Pool : Holding(t, p)' => p = pool[t]
    BY <2>1 DEF Holding
  <2>4. OneLock(t)
    BY <2>2, <2>3 DEF OneLock
  <2>5. Moves(t)
    BY <2>1 DEF Moves
  <2>6. SetShapes'
    BY <2>1
  <2> QED
    BY <2>4, <2>5, <2>6
<1>2. CASE RecLock(t)
  <2>1. /\ pc' = [pc EXCEPT ![t] = "rec_head"] /\ pc[t] = "rec_lock"
        /\ idx[t] <= Len(set) /\ idx[t] # 0
        /\ LockPool(t, set[idx[t]])
        /\ UNCHANGED <<instance, set, pool, idx>>
    BY <1>2 DEF RecLock
  <2>2. idx[t] \in 1..Len(set) /\ set[idx[t]] \in Pool
    BY <2>1
  <2>3. \A p \in Pool : Holding(t, p)' => p = set[idx[t]]
    BY <2>1 DEF Holding
  <2>4. OneLock(t)
    BY <2>1, <2>2, <2>3 DEF OneLock
  <2>5. Moves(t)
    BY <2>1 DEF Moves
  <2>6. SetShapes'
    BY <2>1, <2>2
  <2> QED
    BY <2>4, <2>5, <2>6
<1> QED
  BY <1>1, <1>2

LEMMA GiveShape ==
    ASSUME SetInv, NEW t \in Thread,
           InstKnown(t) \/ InstPublish(t) \/ AllocPop(t) \/ DeallocPush(t)
             \/ AllocEmpty(t) \/ RecEnd(t)
    PROVE  SetShapes' /\ Moves(t) /\ OneLock(t)
<1> USE DEF SetInv, SetShapes, Walking, UnderPool, Place, locals, Goto, UnlockPool
<1>1. CASE InstKnown(t) \/ InstPublish(t) \/ AllocPop(t) \/ DeallocPush(t)
  <2>1. /\ pc' = [pc EXCEPT ![t] = "idle"] /\ pc[t] \in UnderPool
        /\ UnlockPool(pool[t])
        /\ instance' \in [Pool -> BOOLEAN]
        /\ pool' = [pool EXCEPT ![t] = None] /\ idx' = [idx EXCEPT ![t] = 0]
        /\ UNCHANGED set
    <3>1. CASE InstPublish(t)
      BY <3>1 DEF InstPublish, Return
    <3>2. CASE InstKnown(t) \/ AllocPop(t) \/ DeallocPush(t)
      BY <3>2 DEF InstKnown, AllocPop, DeallocPush, Return
    <3> QED
      BY <1>1, <3>1, <3>2
  <2>2. pool[t] \in Pool /\ Holding(t, pool[t])
    BY <2>1 DEF Holding
  <2>3. \A p \in Pool : ~ Holding(t, p)'
    BY <2>1 DEF Holding
  <2>4. OneLock(t)
    BY <2>1, <2>2, <2>3 DEF OneLock
  <2>5. Moves(t)
    BY <2>1 DEF Moves
  <2>6. SetShapes'
    BY <2>1
  <2> QED
    BY <2>4, <2>5, <2>6
<1>2. CASE AllocEmpty(t)
  <2>1. /\ pc' = [pc EXCEPT ![t] = "sys_lock"] /\ pc[t] = "alloc_read"
        /\ UnlockPool(pool[t])
        /\ UNCHANGED <<set, instance, pool, idx>>
    BY <1>2 DEF AllocEmpty
  <2>2. pool[t] \in Pool /\ Holding(t, pool[t])
    BY <2>1 DEF Holding
  <2>3. \A p \in Pool : ~ Holding(t, p)'
    BY <2>1 DEF Holding
  <2>4. OneLock(t)
    BY <2>1, <2>2, <2>3 DEF OneLock
  <2>5. Moves(t)
    BY <2>1 DEF Moves
  <2>6. SetShapes'
    BY <2>1
  <2> QED
    BY <2>4, <2>5, <2>6
<1>3. CASE RecEnd(t)
  <2>1. /\ pc' = [pc EXCEPT ![t] = "rec_lock"] /\ pc[t] = "rec_look"
        /\ UnlockPool(set[idx[t]])
        /\ idx' = [idx EXCEPT ![t] = @ + 1]
        /\ UNCHANGED <<set, instance, pool>>
    BY <1>3 DEF RecEnd
  <2>2. set[idx[t]] \in Pool /\ Holding(t, set[idx[t]])
    BY <2>1 DEF Holding
  <2>3. \A p \in Pool : ~ Holding(t, p)'
    BY <2>1 DEF Holding
  <2>4. OneLock(t)
    BY <2>1, <2>2, <2>3 DEF OneLock
  <2>5. Moves(t)
    BY <2>1 DEF Moves
  <2>6. SetShapes'
    BY <2>1
  <2> QED
    BY <2>4, <2>5, <2>6
<1> QED
  BY <1>1, <1>2, <1>3

\* A step within the places where a thread has a lock, or outside them.
LEMMA PassShape ==
    ASSUME SetInv, NEW t \in Thread, NEW to \in Place, pc' = [pc EXCEPT ![t] = to],
           \/ pc[t] \in UnderPool /\ to \in UnderPool
           \/ pc[t] \in Walking /\ to \in Walking
           \/ pc[t] # "idle" /\ to \in {"sys_alloc", "sys_instance", "sys_retry", "static_add"},
           UNCHANGED <<mtx, instance, set, pool, idx>>
    PROVE  SetShapes' /\ Moves(t) /\ OneLock(t)
<1> USE DEF SetInv, SetShapes
<1>1. SetShapes'
  BY DEF Walking, UnderPool
<1>2. \A p \in Pool : Holding(t, p)' => Holding(t, p)
  BY DEF Holding, Walking, UnderPool
<1>3. OneLock(t)
  BY <1>2 DEF OneLock
<1>4. Moves(t)
  BY DEF Moves
<1> QED
  BY <1>1, <1>3, <1>4

LEMMA OtherShape ==
    ASSUME SetInv, NEW t \in Thread,
           \/ InstForceSet(t) \/ InstAdd(t) \/ AllocRead(t) \/ DeallocLink(t)
           \/ StaticForceSet(t) \/ StaticAdd(t) \/ StaticPublish(t)
           \/ SysLock(t) \/ SysAlloc(t) \/ SysRefused(t) \/ SysInstance(t)
           \/ RetryAlloc(t) \/ RetryRefused(t)
           \/ RecDone(t) \/ RecHead(t) \/ RecLook(t) \/ RecFree(t)
    PROVE  SetShapes' /\ Moves(t) /\ OneLock(t)
<1> USE DEF SetInv, SetShapes, Walking, UnderPool, Place, locals, shared, Goto, OneLock, Moves,
            Holding
<1>1. CASE InstForceSet(t) \/ AllocRead(t) \/ DeallocLink(t)
  <2>1. PICK to \in UnderPool : pc' = [pc EXCEPT ![t] = to]
    BY <1>1 DEF InstForceSet, AllocRead, DeallocLink
  <2>2. pc[t] \in UnderPool /\ UNCHANGED <<mtx, instance, set, pool, idx>>
    BY <1>1 DEF InstForceSet, AllocRead, DeallocLink
  <2>3. to \in Place
    OBVIOUS
  <2> HIDE DEF SetInv, SetShapes, Place, UnderPool, Walking, OneLock, Moves, Holding
  <2> QED
    BY <2>1, <2>2, <2>3, PassShape
<1>2. CASE InstAdd(t) \/ StaticAdd(t)
  <2>1. /\ \/ pc' = [pc EXCEPT ![t] = "inst_publish"] /\ pc[t] = "inst_add"
           \/ pc' = [pc EXCEPT ![t] = "static_publish"] /\ pc[t] = "static_add"
        /\ set' = Append(set, pool[t]) /\ pool[t] \in Pool
        /\ UNCHANGED <<mtx, instance, pool, idx>>
    BY <1>2 DEF InstAdd, StaticAdd, Add
  <2>2. /\ set' \in Seq(Pool) /\ Len(set') = Len(set) + 1
        /\ \A i \in 1..Len(set) : i \in 1..Len(set') /\ set'[i] = set[i]
    BY <2>1, AppendProperties
  <2>3. Moves(t) /\ OneLock(t)
    BY <2>1, <2>2
  <2>4. SetShapes'
    BY <2>1, <2>2
  <2> QED
    BY <2>3, <2>4
<1>3. CASE SysLock(t) \/ SysRefused(t) \/ RecDone(t) \/ StaticForceSet(t)
  <2>1. PICK to \in {"sys_alloc", "sys_instance", "sys_retry", "static_add"} :
          pc' = [pc EXCEPT ![t] = to]
    BY <1>3 DEF SysLock, SysRefused, RecDone, StaticForceSet
  <2>2. pc[t] # "idle" /\ UNCHANGED <<mtx, instance, set, pool, idx>>
    BY <1>3 DEF SysLock, SysRefused, RecDone, StaticForceSet
  <2>3. to \in Place
    OBVIOUS
  <2> HIDE DEF SetInv, SetShapes, Place, UnderPool, Walking, OneLock, Moves, Holding
  <2> QED
    BY <2>1, <2>2, <2>3, PassShape
<1>4. CASE SysInstance(t)
  BY <1>4 DEF SysInstance
<1>5. CASE SysAlloc(t) \/ RetryAlloc(t) \/ RetryRefused(t) \/ StaticPublish(t)
  <2>1. /\ pc' = [pc EXCEPT ![t] = "idle"]
        /\ pool' = [pool EXCEPT ![t] = None] /\ idx' = [idx EXCEPT ![t] = 0]
        /\ instance' \in [Pool -> BOOLEAN]
        /\ UNCHANGED <<mtx, set>>
    BY <1>5 DEF SysAlloc, RetryAlloc, RetryRefused, StaticPublish, Return
  <2> QED
    BY <2>1
<1>6. CASE RecHead(t) \/ RecLook(t) \/ RecFree(t)
  <2>1. PICK to \in Walking : pc' = [pc EXCEPT ![t] = to]
    BY <1>6 DEF RecHead, RecLook, RecFree
  <2>2. pc[t] \in Walking /\ UNCHANGED <<mtx, instance, set, pool, idx>>
    BY <1>6 DEF RecHead, RecLook, RecFree
  <2>3. to \in Place
    OBVIOUS
  <2> HIDE DEF SetInv, SetShapes, Place, UnderPool, Walking, OneLock, Moves, Holding
  <2> QED
    BY <2>1, <2>2, <2>3, PassShape
<1> QED
  BY <1>1, <1>2, <1>3, <1>4, <1>5, <1>6


\* A static initializer begins: what it will add is not there yet.
LEMMA BeginStep ==
    ASSUME SetInv, NEW t \in Thread, StaticInit(t)
    PROVE  Registered'
<1> USE DEF SetInv, Registered, Initializing
<1>1. PICK q \in pending :
        /\ pc[t] = "idle" /\ pc' = [pc EXCEPT ![t] = "static_force"]
        /\ pool' = [pool EXCEPT ![t] = q] /\ pending' = pending \ {q}
        /\ UNCHANGED <<instance, set>>
        /\ \A u \in Thread : pc[u] \notin Initializing
  BY DEF StaticInit, Call, Goto
<1>2. /\ \A u \in Thread \ {t} : pc'[u] = pc[u] /\ pool'[u] = pool[u]
      /\ pc'[t] = "static_force" /\ pool'[t] = q
  BY <1>1 DEF SetShapes
<1>3. \A p : (InSet(p)' <=> InSet(p)) /\ Entries(p)' = Entries(p)
  BY <1>1 DEF InSet, Entries
<1>4. ASSUME NEW p \in Pool PROVE Bounded(p)'
  <2>1. Keeps(p)
    BY <1>1, <1>2 DEF Keeps, StaticDone, InstDone
  <2>2. Bounded(p) /\ Entries(p)' = Entries(p)
    BY <1>3
  <2> QED
    BY <2>1, <2>2, KeepBound
<1>5. \A u \in Thread, p \in Pool :
        pc'[u] \in {"inst_publish", "static_publish"} /\ pool'[u] = p => InSet(p)'
  BY <1>2, <1>3
<1>6. \A u \in Thread : pc'[u] \in Initializing => u = t /\ pool'[u] \notin pending'
  BY <1>1, <1>2
<1> QED
  BY <1>1, <1>3, <1>4, <1>5, <1>6

\* A thread decides to create a pool: no other is creating it, and none has.
LEMMA ForceStep ==
    ASSUME OneUser, SetInv, NEW t \in Thread, InstForceSet(t) \/ StaticForceSet(t)
    PROVE  Registered'
<1> USE DEF SetInv, Registered, Initializing
<1>1. /\ \/ pc[t] = "inst_check" /\ pc' = [pc EXCEPT ![t] = "inst_add"] /\ ~ instance[pool[t]]
         \/ pc[t] = "static_force" /\ pc' = [pc EXCEPT ![t] = "static_add"]
      /\ UNCHANGED <<pool, pending, instance, set>>
  BY DEF InstForceSet, StaticForceSet, Goto, shared, locals
<1>2. /\ \A u \in Thread \ {t} : pc'[u] = pc[u] /\ pool'[u] = pool[u]
      /\ pool'[t] = pool[t]
      /\ \/ pc[t] = "inst_check" /\ pc'[t] = "inst_add"
         \/ pc[t] = "static_force" /\ pc'[t] = "static_add"
  BY <1>1 DEF SetShapes
<1>3. \A p : (InSet(p)' <=> InSet(p)) /\ Entries(p)' = Entries(p)
  BY <1>1 DEF InSet, Entries
<1>4. pc[t] = "inst_check" => ~ InstDone(pool[t])
  BY <1>1, OneCreator DEF InstDone, Creating
<1>5. ASSUME NEW p \in Pool PROVE Bounded(p)'
  <2>1. Keeps(p)
    BY <1>1, <1>2, <1>4 DEF Keeps, StaticDone, InstDone
  <2>2. Bounded(p) /\ Entries(p)' = Entries(p)
    BY <1>3
  <2> QED
    BY <2>1, <2>2, KeepBound
<1>6. \A u \in Thread, p \in Pool :
        pc'[u] \in {"inst_publish", "static_publish"} /\ pool'[u] = p => InSet(p)'
  BY <1>2, <1>3
<1>7. \A u \in Thread : pc'[u] \in Initializing <=> pc[u] \in Initializing
  BY <1>2
<1>8. \A u \in Thread : pc'[u] \in Initializing => pool'[u] \notin pending'
  BY <1>1, <1>2, <1>7
<1> QED
  BY <1>1, <1>3, <1>5, <1>6, <1>7, <1>8

\* The pool enters the set, for the call or the initializer that creates it ...
LEMMA AddStep ==
    ASSUME OneUser, SetInv, NEW t \in Thread, InstAdd(t) \/ StaticAdd(t)
    PROVE  Registered'
<1> USE DEF SetInv, Registered, Initializing
<1>1. /\ \/ pc[t] = "inst_add" /\ pc' = [pc EXCEPT ![t] = "inst_publish"]
         \/ pc[t] = "static_add" /\ pc' = [pc EXCEPT ![t] = "static_publish"]
      /\ set' = Append(set, pool[t]) /\ UNCHANGED <<pool, pending, instance>>
  BY DEF InstAdd, StaticAdd, Add, Goto, locals
<1>2. PICK q \in Pool : q = pool[t]
  BY <1>1 DEF SetShapes
<1>3. /\ \A u \in Thread \ {t} : pc'[u] = pc[u] /\ pool'[u] = pool[u]
      /\ pool'[t] = q
      /\ \/ pc[t] = "inst_add" /\ pc'[t] = "inst_publish"
         \/ pc[t] = "static_add" /\ pc'[t] = "static_publish"
  BY <1>1, <1>2 DEF SetShapes
<1>4. /\ Len(set') = Len(set) + 1 /\ set'[Len(set) + 1] = q /\ Len(set) \in Nat
      /\ \A i \in 1..Len(set) : set'[i] = set[i]
  BY <1>1, <1>2, AppendProperties DEF SetShapes
<1>5. \A p \in Pool : InSet(p)' <=> InSet(p) \/ p = q
  BY <1>4 DEF InSet
<1>6. \A p \in Pool : Keeps(p)
  BY <1>1, <1>3, OneCreator DEF Keeps, StaticDone, InstDone, Creating
<1>7. Bounded(q)'
  <2>1. Entries(q)' = Entries(q) \union {Len(set) + 1} /\ Len(set) + 1 \notin Entries(q)
    BY <1>4 DEF Entries
  <2>2. IsFiniteSet(Entries(q)) /\ Cardinality(Entries(q)) \in Nat
    BY EntriesCount
  <2>3. Cardinality(Entries(q)') = Cardinality(Entries(q)) + 1
    BY <2>1, <2>2, FS_AddElement
  <2>4. CASE pc[t] = "inst_add"
    <3>1. ~ InstDone(q) /\ InstDone(q)'
      <4>1. \A u \in Thread : pc[u] = "inst_add" /\ pool[u] = q => u = t
        BY <1>2, <2>4, OneCreator DEF Creating
      <4> QED
        BY <1>2, <1>3, <2>4, <4>1 DEF InstDone
    <3> QED
      BY <1>6, <2>2, <2>3, <3>1 DEF Bounded, Keeps
  <2>5. CASE pc[t] = "static_add"
    <3>1. ~ StaticDone(q) /\ StaticDone(q)'
      <4>1. \A u \in Thread : pc[u] \in Initializing => u = t
        BY <2>5
      <4>2. q \notin pending'
        BY <1>1, <1>2, <2>5
      <4> QED
        BY <1>2, <1>3, <2>5, <4>1, <4>2 DEF StaticDone
    <3> QED
      BY <1>6, <2>2, <2>3, <3>1 DEF Bounded, Keeps
  <2> QED
    BY <1>1, <2>4, <2>5
<1>8. ASSUME NEW p \in Pool, p # q PROVE Bounded(p)'
  <2>1. Entries(p)' = Entries(p)
    BY <1>4, <1>8 DEF Entries
  <2>2. Bounded(p) /\ Keeps(p)
    BY <1>6
  <2> QED
    BY <2>1, <2>2, KeepBound
<1>9. \A u \in Thread, p \in Pool :
        pc'[u] \in {"inst_publish", "static_publish"} /\ pool'[u] = p => InSet(p)'
  BY <1>1, <1>2, <1>3, <1>5
<1>10. \A u \in Thread : pc'[u] \in Initializing <=> pc[u] \in Initializing
  BY <1>3
<1>11. \A u \in Thread : pc'[u] \in Initializing => pool'[u] \notin pending'
  BY <1>1, <1>10
<1>12. \A p \in Pool : instance'[p] => InSet(p)'
  BY <1>1, <1>5
<1> QED
  BY <1>1, <1>7, <1>8, <1>9, <1>10, <1>11, <1>12

\* ... and a client can reach it only from then on.
LEMMA PublishStep ==
    ASSUME SetInv, NEW t \in Thread, InstPublish(t) \/ StaticPublish(t)
    PROVE  Registered'
<1> USE DEF SetInv, Registered, Initializing
<1>1. /\ pc[t] \in {"inst_publish", "static_publish"} /\ pc' = [pc EXCEPT ![t] = "idle"]
      /\ pool' = [pool EXCEPT ![t] = None]
      /\ instance' = [instance EXCEPT ![pool[t]] = TRUE] /\ UNCHANGED <<set, pending>>
  BY DEF InstPublish, StaticPublish, Return, Goto
<1>2. PICK q \in Pool : q = pool[t]
  BY <1>1 DEF SetShapes
<1>3. \A p : (InSet(p)' <=> InSet(p)) /\ Entries(p)' = Entries(p)
  BY <1>1 DEF InSet, Entries
<1>4. /\ instance'[q] = TRUE
      /\ \A p \in Pool \ {q} : instance'[p] = instance[p]
      /\ \A u \in Thread \ {t} : pc'[u] = pc[u] /\ pool'[u] = pool[u]
      /\ pc'[t] = "idle"
  BY <1>1, <1>2 DEF SetShapes
<1>5. InSet(q)
  BY <1>1, <1>2
<1>6. ASSUME NEW p \in Pool PROVE Bounded(p)'
  <2>1. Keeps(p)
    BY <1>1, <1>2, <1>4 DEF Keeps, StaticDone, InstDone
  <2>2. Bounded(p) /\ Entries(p)' = Entries(p)
    BY <1>3
  <2> QED
    BY <2>1, <2>2, KeepBound
<1>7. \A u \in Thread, p \in Pool :
        pc'[u] \in {"inst_publish", "static_publish"} /\ pool'[u] = p => InSet(p)'
  BY <1>3, <1>4
<1>8. \A u \in Thread : pc'[u] \in Initializing => pc[u] \in Initializing /\ pool'[u] \notin pending'
  BY <1>1, <1>4
<1>9. \A p \in Pool : instance'[p] => InSet(p)'
  BY <1>3, <1>4, <1>5
<1> QED
  BY <1>1, <1>6, <1>7, <1>8, <1>9

LEMMA RegisteredStep ==
    ASSUME OneUser, SetInv, NEW t \in Thread, Calls(t) \/ Work(t), Moves(t)
    PROVE  Registered'
<1> DEFINE Elsewhere == {"inst_add", "inst_publish"} \union Initializing
<1> USE DEF SetInv, SetShapes, Goto, Call, shared, locals, Initializing
<1>1. CASE InstAdd(t) \/ StaticAdd(t)
  BY <1>1, AddStep
<1>2. CASE InstPublish(t) \/ StaticPublish(t)
  BY <1>2, PublishStep
<1>3. CASE InstForceSet(t) \/ StaticForceSet(t)
  BY <1>3, ForceStep
<1>4. CASE StaticInit(t)
  BY <1>4, BeginStep
<1>5. CASE CallInstance(t) \/ CallAllocate(t) \/ CallDeallocate(t)
  <2>1. /\ UNCHANGED <<set, pending, instance>> /\ pc[t] = "idle"
        /\ pc'[t] \in {"inst_lock", "alloc_lock", "dealloc_lock"}
    BY <1>5 DEF CallInstance, CallAllocate, CallDeallocate
  <2> QED
    BY <2>1, SameSet
<1>6. CASE InstKnown(t) \/ AllocPop(t) \/ DeallocPush(t) \/ SysAlloc(t) \/ RetryAlloc(t)
             \/ RetryRefused(t)
  <2>1. /\ UNCHANGED <<set, pending, instance>> /\ pc[t] \notin Elsewhere /\ pc'[t] = "idle"
    BY <1>6 DEF InstKnown, AllocPop, DeallocPush, SysAlloc, RetryAlloc, RetryRefused, Return
  <2> QED
    BY <2>1, SameSet
<1>7. CASE InstLock(t) \/ AllocLock(t) \/ AllocRead(t) \/ AllocEmpty(t) \/ DeallocLock(t)
             \/ DeallocLink(t)
  <2>1. /\ UNCHANGED <<set, pending, instance>> /\ pc[t] \notin Elsewhere
        /\ pc'[t] \notin Elsewhere
    BY <1>7 DEF InstLock, AllocLock, AllocRead, AllocEmpty, DeallocLock, DeallocLink
  <2> QED
    BY <2>1, SameSet
<1>8. CASE SysLock(t) \/ SysRefused(t) \/ SysInstance(t) \/ RecLock(t) \/ RecDone(t)
             \/ RecHead(t) \/ RecLook(t) \/ RecEnd(t) \/ RecFree(t)
  <2>1. /\ UNCHANGED <<set, pending, instance>> /\ pc[t] \notin Elsewhere
        /\ pc'[t] \notin Elsewhere
    BY <1>8 DEF SysLock, SysRefused, SysInstance, RecLock, RecDone, RecHead, RecLook, RecEnd,
                RecFree
  <2> QED
    BY <2>1, SameSet
<1> QED
  BY <1>1, <1>2, <1>3, <1>4, <1>5, <1>6, <1>7, <1>8 DEF Calls, Work

LEMMA InitSetInv == Init => SetInv
<1> SUFFICES ASSUME Init PROVE SetInv
  OBVIOUS
<1>1. SetShapes /\ LocksInv
  BY DEF Init, SetShapes, LocksInv, Holding, UnderPool, Walking, Place
<1>2. \A p : Cardinality(Entries(p)) = 0
  <2>1. \A p : Entries(p) = {}
    BY DEF Init, Entries
  <2> QED
    BY <2>1, FS_EmptySet
<1>3. Registered
  BY <1>2 DEF Init, Registered, Initializing, Bounded
<1> QED
  BY <1>1, <1>3 DEF SetInv

LEMMA SetInvHolds == ASSUME OneUser PROVE Spec => []SetInv
<1>1. SetInv /\ [Next]_vars => SetInv'
  <2> SUFFICES ASSUME SetInv, [Next]_vars PROVE SetInv'
    OBVIOUS
  <2>1. ASSUME NEW t \in Thread, Calls(t) \/ Work(t) PROVE SetInv'
    <3>1. SetShapes' /\ Moves(t) /\ OneLock(t)
      BY <2>1, CallShape, TakeShape, GiveShape, OtherShape DEF Work
    <3>2. LocksInv'
      BY <3>1, LocksStep DEF SetInv
    <3>3. Registered'
      BY <2>1, <3>1, RegisteredStep
    <3> QED
      BY <3>1, <3>2, <3>3 DEF SetInv
  <2>2. CASE UNCHANGED vars
    <3>1. UNCHANGED <<mtx, pending, instance, set, pc, pool, idx>>
      BY <2>2 DEF vars, shared, locals
    <3>2. Registered'
      BY <3>1 DEF SetInv, Registered, InSet, Bounded, Entries, StaticDone, InstDone
    <3> QED
      BY <3>1, <3>2 DEF SetInv, SetShapes, LocksInv, Holding
  <2> QED
    BY <2>1, <2>2 DEF Next
<1> QED
  BY <1>1, InitSetInv, PTL DEF Spec

\* Concurrent instance() calls add a pool to the set once, its static initializer once
\* more, and it is there, so that its memory can be recycled, by the time a client can
\* reach it: for any threads and pools, when a pool without a lock is used by one thread
\* only.
THEOREM EveryPoolRegistered == ASSUME OneUser PROVE Spec => []PoolsRegistered
<1>1. SetInv => PoolsRegistered
  <2> SUFFICES ASSUME SetInv, NEW p \in Pool
               PROVE  /\ instance[p] => Entries(p) # {}
                      /\ Cardinality(Entries(p)) <= IF p \in pending THEN 1 ELSE 2
    BY DEF PoolsRegistered
  <2>1. instance[p] => Entries(p) # {}
    BY DEF SetInv, Registered, InSet, Entries
  <2>2. Cardinality(Entries(p)) \in Nat /\ Bounded(p)
    BY EntriesCount DEF SetInv, Registered
  <2>3. Cardinality(Entries(p)) <= IF p \in pending THEN 1 ELSE 2
    BY <2>2 DEF Bounded, StaticDone
  <2> QED
    BY <2>1, <2>3
<1> QED
  BY <1>1, SetInvHolds, PTL

-----------------------------------------------------------------------------
(* What FreeOf finds: the blocks of the list that starts at the head. *)

OneStep(p, g) ==
    [i \in 1..Cardinality(Block) |-> IF i = 1 THEN head[p] ELSE After(g[i - 1])]

LEMMA SameCardinality == ASSUME NEW F PROVE L!Cardinality(F) = Cardinality(F)
  BY DEF L!Cardinality, Cardinality

LEMMA FreeIs ==
    ASSUME NEW p, IsFiniteSet(Block), NEW F \in SUBSET Block,
           L!IsListOf(Nat, F, head[p], next)
    PROVE  FreeOf(p) = F
<1> USE StaticMemPoolAssumption
<1>1. PICK N : N = Cardinality(Block)
  OBVIOUS
<1>2. IsFiniteSet(F) /\ Cardinality(F) <= N /\ N \in Nat /\ Cardinality(F) \in Nat
  BY <1>1, FS_Subset, FS_CardinalityType
<1>3. PICK n \in {Cardinality(F)} : \E s \in [1..n -> F] : L!Lists(n, s, F, head[p], next)
  <2>1. L!IsListOf({Cardinality(F)}, F, head[p], next)
    BY L!ListCardinality, SameCardinality
  <2> QED
    BY <2>1 DEF L!IsListOf
<1>4. PICK s \in [1..n -> F] : L!Lists(n, s, F, head[p], next)
  BY <1>3
<1>5. n \in 0..N
  BY <1>2, <1>3
<1>6. \A i \in 1..n : s[i] # None
  BY <1>4
<1> DEFINE h == [i \in 1..N |-> IF i <= n THEN s[i] ELSE None]
<1>a. /\ h = [i \in 1..N |-> h[i]]
      /\ \A i \in 1..N : h[i] = IF i <= n THEN s[i] ELSE None
  OBVIOUS
<1> HIDE DEF h
<1>7. OneStep(p, h) = h
  <2> SUFFICES ASSUME NEW i \in 1..N
               PROVE  (IF i = 1 THEN head[p] ELSE After(h[i - 1])) = h[i]
    BY <1>1, <1>a DEF OneStep
  <2>1. CASE i = 1
    BY <1>4, <1>5, <1>a, <2>1 DEF L!Lists
  <2>2. CASE i # 1 /\ i - 1 <= n
    <3>1. i - 1 \in 1..n /\ h[i - 1] = s[i - 1] /\ s[i - 1] # None
      BY <1>2, <1>5, <1>6, <1>a, <2>2
    <3>2. next[s[i - 1]] = IF i - 1 = n THEN None ELSE s[(i - 1) + 1]
      BY <1>4, <3>1 DEF L!Lists
    <3> QED
      BY <1>5, <1>a, <2>2, <3>1, <3>2 DEF After
  <2>3. CASE i # 1 /\ ~ (i - 1 <= n)
    <3>1. h[i - 1] = None /\ h[i] = None
      BY <1>2, <1>5, <1>a, <2>3
    <3> QED
      BY <2>3, <3>1 DEF After
  <2> QED
    BY <2>1, <2>2, <2>3
<1>8. PICK g : g = OneStep(p, g) /\ FreeOf(p) = {g[i] : i \in 1..N} \ {None}
  <2>1. PICK g : /\ g = CHOOSE k : k = OneStep(p, k)
                 /\ FreeOf(p) = {g[i] : i \in 1..Cardinality(Block)} \ {None}
    BY DEF FreeOf, OneStep
  <2>2. \E k : k = OneStep(p, k)
    BY <1>7, Zenon
  <2>3. g = OneStep(p, g)
    BY <2>1, <2>2, Zenon
  <2>4. FreeOf(p) = {g[i] : i \in 1..N} \ {None}
    BY <1>1, <2>1
  <2> QED
    BY <2>3, <2>4, Zenon
<1>9. \A i \in 1..N : g[i] = h[i]
  <2> DEFINE S == {i \in 1..N : g[i] # h[i]}
  <2> SUFFICES ASSUME S # {} PROVE FALSE
    OBVIOUS
  <2>0. S \in SUBSET Nat
    BY <1>2
  <2>1. PICK e \in S : \A i \in S : e <= i
    <3> HIDE DEF S
    <3> QED
      BY <2>0, L!Least
  <2>2. /\ g[e] = IF e = 1 THEN head[p] ELSE After(g[e - 1])
        /\ h[e] = IF e = 1 THEN head[p] ELSE After(h[e - 1])
    BY <1>1, <1>7, <1>8, <2>1 DEF OneStep
  <2>3. e # 1 => e - 1 \in 1..N /\ e - 1 \notin S
    BY <1>2, <2>1
  <2>4. e # 1 => g[e - 1] = h[e - 1]
    BY <2>3
  <2> QED
    BY <2>1, <2>2, <2>4
<1>10. {h[i] : i \in 1..N} \ {None} = F
  <2>1. \A i \in 1..N : h[i] \in F \union {None}
    BY <1>2, <1>5, <1>a
  <2>2. ASSUME NEW c \in F PROVE \E i \in 1..N : h[i] = c /\ c # None
    <3>1. PICK i \in 1..n : s[i] = c
      BY <1>4 DEF L!Lists
    <3>2. i \in 1..N /\ h[i] = c
      BY <1>2, <1>5, <1>a, <3>1
    <3> QED
      BY <3>2
  <2> QED
    BY <2>1, <2>2
<1> QED
  BY <1>8, <1>9, <1>10

-----------------------------------------------------------------------------
(* Where each block is. *)

\* Every pool has a real lock, or the program has one thread.
Protected == \A p \in Pool \ Locked : \A t, u \in Thread : t = u

\* A thread brings a block back.
Carrying == {"dealloc_lock", "dealloc_link", "dealloc_push"}

Free(kind, of, p) == {b \in Block : kind[b] = "free" /\ of[b] = p}

\* kind says of each block in what kind of place it is, and of in whose.
Owners(kind, of) ==
    /\ kind \in [Block -> {"free", "held", "carried", "sys"}]
    /\ of \in [Block -> Pool \union Thread \union {None}]
    /\ \A b \in Block : kind[b] = "carried" => of[b] \in Thread
    /\ \A b \in Block : kind[b] \in {"free", "held"} => of[b] \in Pool
    /\ \A b \in Block : b \in sys <=> kind[b] = "sys"
    /\ \A p \in Pool, b \in Block : b \in held[p] <=> kind[b] = "held" /\ of[b] = p
    /\ \A t \in Thread, b \in Block :
         pc[t] \in Carrying /\ block[t] = b <=> kind[b] = "carried" /\ of[b] = t
    /\ \A t \in Thread : pc[t] \in Carrying => block[t] \in Block

InLists(kind, of) == \A p \in Pool : L!IsListOf(Nat, Free(kind, of, p), head[p], next)

\* What the walk of thread t's recycling has passed and what it has unlinked are
\* together what was free when it began.
Walked(F, p, t) ==
    \E j \in Nat : /\ count[t] = Cardinality(F) + j
                   /\ L!IsAt(F, head[p], next, j, block[t])

\* What a thread relies on at each place, under the lock of the pool it works on.
AtPlace(kind, of, t) ==
    /\ pc[t] = "alloc_pop" => block[t] = head[pool[t]] /\ block[t] # None
    /\ pc[t] = "dealloc_push" => next[block[t]] = head[pool[t]]
    /\ pc[t] \in {"rec_look", "rec_free"} =>
         \A p \in Pool : set[idx[t]] = p => Walked(Free(kind, of, p), p, t)
    /\ pc[t] = "rec_free" => block[t] # None /\ temp[t] # None /\ temp[t] = next[block[t]]

Mem(kind, of) ==
    /\ Owners(kind, of)
    /\ InLists(kind, of)
    /\ \A t \in Thread : AtPlace(kind, of, t)

\* What a step needs of the locals for the types to be kept.
Blocks(t) ==
    /\ pc[t] \in Carrying \union {"alloc_pop"} => block[t] \in Block
    /\ pc[t] = "rec_free" => block[t] \in Block /\ temp[t] \in Block
    /\ pc[t] = "rec_head" => Cardinality(FreeOf(set[idx[t]])) \in Nat

LEMMA TypeStep ==
    ASSUME TypeOK, SetInv, NEW t \in Thread, Blocks(t), Calls(t) \/ Work(t), SetShapes'
    PROVE  TypeOK'
<1> USE StaticMemPoolAssumption DEF TypeOK, Goto, Call, locals, shared, Return
<1>a. /\ mtx' \in [Pool -> Thread \union {None}] /\ instance' \in [Pool -> BOOLEAN]
      /\ set' \in Seq(Pool) /\ pool' \in [Thread -> Pool \union {None}]
      /\ idx' \in [Thread -> Nat] /\ pc' \in [Thread -> Place]
  BY DEF SetShapes
<1>b. /\ pc[t] # "idle" => pool[t] \in Pool
      /\ pc[t] \in Walking => set[idx[t]] \in Pool
  BY DEF SetInv, SetShapes
<1> DEFINE Rest ==
             /\ head' \in [Pool -> Block \union {None}]
             /\ next' \in [Block -> Block \union {None}]
             /\ block' \in [Thread -> Block \union {None}]
             /\ temp' \in [Thread -> Block \union {None}]
             /\ count' \in [Thread -> Nat]
             /\ pending' \subseteq Pool
             /\ held' \in [Pool -> SUBSET Block]
             /\ sys' \subseteq Block
             /\ set_mtx' \in Thread \union {None}
<1>1. CASE CallInstance(t) \/ CallAllocate(t) \/ StaticInit(t)
  BY <1>a, <1>1 DEF CallInstance, CallAllocate, StaticInit
<1>2. CASE CallDeallocate(t)
  <2>1. PICK p \in Pool : \E b \in held[p] :
          /\ block' = [block EXCEPT ![t] = b]
          /\ held' = [held EXCEPT ![p] = @ \ {b}]
          /\ UNCHANGED <<set_mtx, pending, head, next, sys, temp, count>>
    BY <1>2 DEF CallDeallocate
  <2>2. Rest
    BY <2>1
  <2> QED
    BY <1>a, <2>2
<1>3. CASE InstLock(t) \/ InstForceSet(t) \/ InstAdd(t) \/ AllocLock(t) \/ AllocEmpty(t)
             \/ SysRefused(t) \/ RecLock(t) \/ RecDone(t) \/ DeallocLock(t)
             \/ StaticForceSet(t) \/ StaticAdd(t)
  BY <1>a, <1>3 DEF InstLock, InstForceSet, InstAdd, AllocLock, AllocEmpty, SysRefused,
                    RecLock, RecDone, DeallocLock, StaticForceSet, StaticAdd
<1>4. CASE InstKnown(t) \/ InstPublish(t) \/ RetryRefused(t) \/ StaticPublish(t)
  <2>1. /\ block' = [block EXCEPT ![t] = None] /\ temp' = [temp EXCEPT ![t] = None]
        /\ count' = [count EXCEPT ![t] = 0] /\ pending' = pending
        /\ set_mtx' \in {set_mtx, None}
        /\ UNCHANGED <<head, next, sys, held>>
    BY <1>4 DEF InstKnown, InstPublish, RetryRefused, StaticPublish
  <2>2. Rest
    BY <2>1
  <2> QED
    BY <1>a, <2>2
<1>5. CASE SysLock(t) \/ SysInstance(t) \/ RecLook(t)
  <2>1. CASE SysLock(t) \/ SysInstance(t)
    BY <1>a, <2>1 DEF SysLock, SysInstance
  <2>2. CASE RecLook(t)
    <3>1. block[t] \in Block
      BY <2>2 DEF RecLook, After
    <3>2. Rest
      BY <2>2, <3>1 DEF RecLook
    <3> QED
      BY <1>a, <3>2
  <2> QED
    BY <1>5, <2>1, <2>2
<1>6. CASE SysAlloc(t) \/ RetryAlloc(t)
  <2>1. /\ block' = [block EXCEPT ![t] = None] /\ temp' = [temp EXCEPT ![t] = None]
        /\ count' = [count EXCEPT ![t] = 0] /\ pending' = pending
        /\ set_mtx' = None
        /\ \E b \in sys : /\ sys' = sys \ {b}
                          /\ held' = [held EXCEPT ![pool[t]] = @ \union {b}]
        /\ UNCHANGED <<head, next>> /\ pool[t] \in Pool
    BY <1>b, <1>6 DEF SysAlloc, RetryAlloc
  <2>2. Rest
    BY <2>1
  <2> QED
    BY <1>a, <2>2
<1>7. CASE AllocRead(t) \/ RecHead(t)
  <2>1. CASE AllocRead(t)
    <3>1. head[pool[t]] \in Block \union {None}
      BY <1>b, <2>1 DEF AllocRead
    <3>2. Rest
      BY <2>1, <3>1 DEF AllocRead
    <3> QED
      BY <1>a, <3>2
  <2>2. CASE RecHead(t)
    <3>1. PICK c \in Block \union {None}, n \in Nat :
            c = head[set[idx[t]]] /\ n = Cardinality(FreeOf(set[idx[t]]))
      BY <1>b, <2>2 DEF RecHead, Blocks, Walking
    <3>2. Rest
      BY <2>2, <3>1 DEF RecHead
    <3> QED
      BY <1>a, <3>2
  <2> QED
    BY <1>7, <2>1, <2>2
<1>8. CASE AllocPop(t) \/ DeallocPush(t)
  <2>1. /\ block' = [block EXCEPT ![t] = None] /\ temp' = [temp EXCEPT ![t] = None]
        /\ count' = [count EXCEPT ![t] = 0] /\ pending' = pending
        /\ pool[t] \in Pool /\ block[t] \in Block
        /\ UNCHANGED <<set_mtx, next, sys>>
    BY <1>b, <1>8 DEF AllocPop, DeallocPush, Blocks, Carrying
  <2>2. CASE AllocPop(t)
    <3>1. Rest
      BY <2>1, <2>2 DEF AllocPop
    <3> QED
      BY <1>a, <3>1
  <2>3. CASE DeallocPush(t)
    <3>1. Rest
      BY <2>1, <2>3 DEF DeallocPush
    <3> QED
      BY <1>a, <3>1
  <2> QED
    BY <1>8, <2>2, <2>3
<1>9. CASE RecEnd(t)
  <2>1. Rest
    BY <1>9 DEF RecEnd
  <2> QED
    BY <1>a, <2>1
<1>10. CASE RecFree(t)
  <2>1. block[t] \in Block /\ temp[t] \in Block
    BY <1>10 DEF RecFree, Blocks
  <2>2. Rest
    BY <1>10, <2>1 DEF RecFree
  <2> QED
    BY <1>a, <2>2
<1>11. CASE DeallocLink(t)
  <2>1. block[t] \in Block /\ pool[t] \in Pool
    BY <1>b, <1>11 DEF DeallocLink, Blocks, Carrying
  <2>2. Rest
    BY <1>11, <2>1 DEF DeallocLink
  <2> QED
    BY <1>a, <2>2
<1> QED
  BY <1>1, <1>2, <1>3, <1>4, <1>5, <1>6, <1>7, <1>8, <1>9, <1>10, <1>11 DEF Calls, Work

-----------------------------------------------------------------------------
(* What one thread's step leaves to the others. *)

LEMMA OneHolder ==
    ASSUME Protected, SetInv, NEW p \in Pool, NEW t \in Thread, NEW u \in Thread,
           Holding(t, p), Holding(u, p)
    PROVE  t = u
  BY DEF Protected, SetInv, LocksInv

OwnLocals(t) ==
    \A u \in Thread \ {t} : block'[u] = block[u] /\ temp'[u] = temp[u] /\ count'[u] = count[u]

PoolStays(kind, of, k2, o2, p) ==
    /\ head'[p] = head[p]
    /\ Free(k2, o2, p) = Free(kind, of, p)
    /\ \A b \in Free(kind, of, p) : next'[b] = next[b]

LEMMA NoneIsFree == ASSUME NEW kind, NEW of, NEW p PROVE None \notin Free(kind, of, p)
  BY StaticMemPoolAssumption DEF Free

\* The pools that thread t has not locked keep their lists, and every other thread
\* finds at its place what it relies on.
LEMMA Frame ==
    ASSUME Protected, SetInv, NEW t \in Thread, Moves(t), OwnLocals(t),
           NEW kind, NEW of, NEW k2, NEW o2, Mem(kind, of),
           NEW W \in SUBSET Pool, \A q \in W : Holding(t, q),
           \A p \in Pool \ W : PoolStays(kind, of, k2, o2, p),
           \A u \in Thread \ {t} : pc[u] = "dealloc_push" => next'[block[u]] = next[block[u]]
    PROVE  /\ \A p \in Pool \ W : L!IsListOf(Nat, Free(k2, o2, p), head'[p], next')
           /\ \A u \in Thread \ {t} : AtPlace(k2, o2, u)'
<1>1. ASSUME NEW p \in Pool \ W
      PROVE  L!IsListOf(Nat, Free(k2, o2, p), head'[p], next')
  <2>1. L!IsListOf(Nat, Free(kind, of, p), head[p], next)
    BY DEF Mem, InLists
  <2>2. L!IsListOf(Nat, Free(kind, of, p), head[p], next')
    BY <2>1, L!SameList DEF PoolStays
  <2> QED
    BY <2>2 DEF PoolStays
<1>2. ASSUME NEW u \in Thread \ {t} PROVE AtPlace(k2, o2, u)'
  <2>1. /\ pc'[u] = pc[u] /\ pool'[u] = pool[u] /\ idx'[u] = idx[u]
        /\ block'[u] = block[u] /\ temp'[u] = temp[u] /\ count'[u] = count[u]
    BY DEF Moves, OwnLocals
  <2>2. ASSUME NEW p \in Pool, Holding(u, p) PROVE PoolStays(kind, of, k2, o2, p)
    BY <2>2, OneHolder
  <2>3. AtPlace(kind, of, u)
    BY DEF Mem
  <2>4. CASE pc[u] \in {"alloc_pop", "dealloc_push"}
    <3>1. pool[u] \in Pool /\ Holding(u, pool[u])
      BY <2>4 DEF SetInv, SetShapes, Holding, UnderPool
    <3>2. head'[pool[u]] = head[pool[u]]
      BY <2>2, <3>1 DEF PoolStays
    <3> QED
      BY <2>1, <2>3, <2>4, <3>2 DEF AtPlace
  <2>5. CASE pc[u] \in {"rec_look", "rec_free"}
    <3>1. PICK p : p = set[idx[u]]
      OBVIOUS
    <3>2. p \in Pool /\ Holding(u, p) /\ set'[idx'[u]] = p
      BY <2>1, <2>5, <3>1 DEF SetInv, SetShapes, Holding, Walking, Moves
    <3>3. PoolStays(kind, of, k2, o2, p)
      BY <2>2, <3>2
    <3>4. Walked(Free(kind, of, p), p, u)
      BY <2>3, <2>5, <3>1, <3>2 DEF AtPlace
    <3>5. PICK j \in Nat : /\ count[u] = Cardinality(Free(kind, of, p)) + j
                           /\ L!IsAt(Free(kind, of, p), head[p], next, j, block[u])
      BY <3>4 DEF Walked
    <3>6. L!IsAt(Free(kind, of, p), head[p], next', j, block[u])
      BY <3>3, <3>5, L!SameWalk DEF PoolStays
    <3>7. Walked(Free(k2, o2, p), p, u)'
      BY <2>1, <3>3, <3>5, <3>6 DEF Walked, PoolStays
    <3>8. pc[u] = "rec_free" => next'[block[u]] = next[block[u]]
      <4> SUFFICES ASSUME pc[u] = "rec_free" PROVE next'[block[u]] = next[block[u]]
        OBVIOUS
      <4>1. block[u] \in Free(kind, of, p) \union {None}
        BY <3>5, NoneIsFree, L!EndOfWalk
      <4>2. block[u] # None
        BY <2>3 DEF AtPlace
      <4> QED
        BY <3>3, <4>1, <4>2 DEF PoolStays
    <3> QED
      BY <2>1, <2>3, <2>5, <3>2, <3>7, <3>8 DEF AtPlace
  <2>6. CASE pc[u] \notin {"alloc_pop", "dealloc_push", "rec_look", "rec_free"}
    BY <2>1, <2>6 DEF AtPlace
  <2> QED
    BY <2>4, <2>5, <2>6
<1> QED
  BY <1>1, <1>2

\* A step that moves no block and links nothing.
LEMMA QuietStep ==
    ASSUME Protected, SetInv, NEW t \in Thread, Moves(t), OwnLocals(t), pc' \in [Thread -> Place],
           NEW kind, NEW of, Mem(kind, of), UNCHANGED <<head, next, held, sys>>,
           pc'[t] \in Carrying <=> pc[t] \in Carrying,
           pc[t] \in Carrying => block'[t] = block[t],
           AtPlace(kind, of, t)'
    PROVE  Mem(kind, of)'
<1>1. \A p \in Pool : PoolStays(kind, of, kind, of, p)
  BY DEF PoolStays
<1>2. PICK W \in SUBSET Pool : W = {}
  OBVIOUS
<1>3. /\ \A p \in Pool : L!IsListOf(Nat, Free(kind, of, p), head'[p], next')
      /\ \A u \in Thread \ {t} : AtPlace(kind, of, u)'
  BY <1>1, <1>2, Frame
<1>4. Owners(kind, of)'
  <2>1. \A u \in Thread : /\ pc'[u] \in Carrying <=> pc[u] \in Carrying
                          /\ pc[u] \in Carrying => block'[u] = block[u]
    BY DEF Moves, OwnLocals
  <2> QED
    BY <2>1 DEF Owners, Mem
<1> QED
  BY <1>3, <1>4 DEF Mem, InLists

\* Calls, locks, instance() and requests refused.
LEMMA LockStep ==
    ASSUME Protected, TypeOK, SetInv, NEW t \in Thread, SetShapes', Moves(t),
           NEW kind, NEW of, Mem(kind, of),
           \/ CallInstance(t) \/ CallAllocate(t) \/ StaticInit(t)
           \/ StaticForceSet(t) \/ StaticAdd(t) \/ StaticPublish(t)
           \/ InstLock(t) \/ InstKnown(t) \/ InstForceSet(t) \/ InstAdd(t) \/ InstPublish(t)
           \/ AllocLock(t) \/ AllocEmpty(t) \/ DeallocLock(t)
           \/ SysLock(t) \/ SysRefused(t) \/ SysInstance(t) \/ RetryRefused(t)
           \/ RecLock(t) \/ RecDone(t) \/ RecEnd(t)
    PROVE  Mem(kind, of)'
<1> DEFINE Quiet == /\ UNCHANGED <<head, next, held, sys>> /\ OwnLocals(t)
                    /\ pc'[t] \in Carrying <=> pc[t] \in Carrying
                    /\ pc[t] \in Carrying => block'[t] = block[t]
                    /\ pc'[t] \notin {"alloc_pop", "dealloc_push", "rec_look", "rec_free"}
<1> USE DEF Goto, Call, shared, locals, OwnLocals, TypeOK, Carrying
<1>1. CASE CallInstance(t) \/ CallAllocate(t) \/ StaticInit(t)
  <2>1. Quiet
    BY <1>1 DEF CallInstance, CallAllocate, StaticInit
  <2> QED
    BY <2>1, QuietStep DEF SetShapes, AtPlace
<1>2. CASE InstLock(t) \/ InstForceSet(t) \/ InstAdd(t) \/ AllocLock(t) \/ AllocEmpty(t)
             \/ DeallocLock(t) \/ StaticForceSet(t) \/ StaticAdd(t)
  <2>1. Quiet
    BY <1>2 DEF InstLock, InstForceSet, InstAdd, AllocLock, AllocEmpty, DeallocLock,
                StaticForceSet, StaticAdd
  <2> QED
    BY <2>1, QuietStep DEF SetShapes, AtPlace
<1>3. CASE InstKnown(t) \/ InstPublish(t) \/ RetryRefused(t) \/ StaticPublish(t)
  <2>1. Quiet
    BY <1>3 DEF InstKnown, InstPublish, RetryRefused, StaticPublish, Return
  <2> QED
    BY <2>1, QuietStep DEF SetShapes, AtPlace
<1>4. CASE SysLock(t) \/ SysRefused(t) \/ SysInstance(t) \/ RecLock(t) \/ RecDone(t) \/ RecEnd(t)
  <2>1. Quiet
    BY <1>4 DEF SysLock, SysRefused, SysInstance, RecLock, RecDone, RecEnd
  <2> QED
    BY <2>1, QuietStep DEF SetShapes, AtPlace
<1> QED
  BY <1>1, <1>2, <1>3, <1>4

LEMMA FreeCount ==
    ASSUME IsFiniteSet(Block), TypeOK, NEW kind, NEW of, Mem(kind, of), NEW p \in Pool
    PROVE  /\ FreeOf(p) = Free(kind, of, p)
           /\ IsFiniteSet(Free(kind, of, p)) /\ Cardinality(Free(kind, of, p)) \in Nat
<1>1. Free(kind, of, p) \in SUBSET Block
  BY DEF Free
<1>2. L!IsListOf(Nat, Free(kind, of, p), head[p], next)
  BY DEF Mem, InLists
<1>3. FreeOf(p) = Free(kind, of, p)
  BY <1>1, <1>2, FreeIs
<1> QED
  BY <1>1, <1>3, FS_Subset, FS_CardinalityType

\* Reading the head of a list, and the walk's look at the next block.
LEMMA LookStep ==
    ASSUME Protected, TypeOK, IsFiniteSet(Block), SetInv, NEW t \in Thread, SetShapes', Moves(t),
           NEW kind, NEW of, Mem(kind, of),
           AllocRead(t) \/ RecHead(t) \/ RecLook(t)
    PROVE  Mem(kind, of)'
<1> USE DEF Goto, shared, locals, OwnLocals, TypeOK, Carrying
<1>1. /\ UNCHANGED <<head, next, held, sys>> /\ OwnLocals(t)
      /\ pc'[t] \notin Carrying /\ pc[t] \notin Carrying
  BY DEF AllocRead, RecHead, RecLook
<1>2. AtPlace(kind, of, t)'
  <2>1. CASE AllocRead(t)
    BY <2>1 DEF AllocRead, AtPlace
  <2>2. CASE RecHead(t)
    <3>1. PICK p : p = set[idx[t]]
      OBVIOUS
    <3>2. /\ pc[t] = "rec_head" /\ pc'[t] = "rec_look" /\ set'[idx'[t]] = p
          /\ block'[t] = head[p] /\ count'[t] = Cardinality(FreeOf(p))
      BY <2>2, <3>1 DEF RecHead
    <3>3. p \in Pool
      BY <3>1, <3>2 DEF SetInv, SetShapes, Walking
    <3>4. L!IsListOf(Nat, Free(kind, of, p), head[p], next)
      BY <3>3 DEF Mem, InLists
    <3>5. L!IsAt(Free(kind, of, p), head'[p], next', 0, block'[t])
      <4>1. L!IsAt(Free(kind, of, p), head[p], next, 0, head[p])
        BY <3>4, L!WalkStarts
      <4> QED
        BY <1>1, <3>2, <4>1
    <3>6. count'[t] = Cardinality(Free(kind, of, p)) + 0
      BY <3>2, <3>3, FreeCount
    <3>7. Walked(Free(kind, of, p), p, t)'
      BY <3>5, <3>6 DEF Walked
    <3> QED
      BY <3>2, <3>7 DEF AtPlace
  <2>3. CASE RecLook(t)
    <3>1. /\ pc[t] = "rec_look" /\ pc'[t] = "rec_free"
          /\ block[t] # None /\ next[block[t]] # None /\ temp'[t] = next[block[t]]
          /\ UNCHANGED <<set, idx, block, count>>
      BY <2>3 DEF RecLook, After
    <3>2. ASSUME NEW p \in Pool, set[idx[t]] = p PROVE Walked(Free(kind, of, p), p, t)'
      <4>1. Walked(Free(kind, of, p), p, t)
        BY <3>1, <3>2 DEF Mem, AtPlace
      <4> QED
        BY <1>1, <3>1, <4>1 DEF Walked
    <3> QED
      BY <1>1, <3>1, <3>2 DEF AtPlace
  <2> QED
    BY <2>1, <2>2, <2>3
<1> QED
  BY <1>1, <1>2, QuietStep DEF SetShapes

-----------------------------------------------------------------------------
(* Steps that move a block. *)

\* A client gives a block back, and starts to carry it.
LEMMA GiveBackStep ==
    ASSUME Protected, TypeOK, SetInv, NEW t \in Thread, SetShapes', Moves(t),
           NEW kind, NEW of, Mem(kind, of), CallDeallocate(t)
    PROVE  \E k2, o2 : Mem(k2, o2)'
<1>1. PICK p \in Pool : \E b \in held[p] :
        /\ pc[t] = "idle" /\ pc' = [pc EXCEPT ![t] = "dealloc_lock"]
        /\ block' = [block EXCEPT ![t] = b] /\ held' = [held EXCEPT ![p] = @ \ {b}]
        /\ UNCHANGED <<head, next, sys, temp, count>>
  BY DEF CallDeallocate, Call, Goto
<1>0. PICK b \in held[p] :
        /\ pc[t] = "idle" /\ pc' = [pc EXCEPT ![t] = "dealloc_lock"]
        /\ block' = [block EXCEPT ![t] = b] /\ held' = [held EXCEPT ![p] = @ \ {b}]
        /\ UNCHANGED <<head, next, sys, temp, count>>
  BY <1>1
<1>2. b \in Block /\ kind[b] = "held" /\ of[b] = p
  BY <1>0 DEF Mem, Owners, TypeOK
<1>3. PICK k2, o2 : k2 = [kind EXCEPT ![b] = "carried"] /\ o2 = [of EXCEPT ![b] = t]
  OBVIOUS
<1>4. Owners(k2, o2)'
  BY <1>0, <1>2, <1>3 DEF Mem, Owners, TypeOK, Carrying
<1>5. \A q \in Pool : PoolStays(kind, of, k2, o2, q)
  BY <1>0, <1>2, <1>3 DEF PoolStays, Free, Mem, Owners
<1>6. OwnLocals(t)
  BY <1>0 DEF OwnLocals, TypeOK
<1>7. PICK W \in SUBSET Pool : W = {}
  OBVIOUS
<1>8. /\ \A q \in Pool : L!IsListOf(Nat, Free(k2, o2, q), head'[q], next')
      /\ \A u \in Thread \ {t} : AtPlace(k2, o2, u)'
  BY <1>0, <1>5, <1>6, <1>7, Frame
<1>9. AtPlace(k2, o2, t)'
  BY <1>0 DEF AtPlace, TypeOK
<1> QED
  BY <1>4, <1>8, <1>9 DEF Mem, InLists

\* The system gives a block, which goes straight to the client.
LEMMA RequestStep ==
    ASSUME Protected, TypeOK, SetInv, NEW t \in Thread, SetShapes', Moves(t),
           NEW kind, NEW of, Mem(kind, of), SysAlloc(t) \/ RetryAlloc(t)
    PROVE  \E k2, o2 : Mem(k2, o2)'
<1>1. PICK b \in sys :
        /\ pc[t] \in {"sys_alloc", "sys_retry"} /\ pc' = [pc EXCEPT ![t] = "idle"]
        /\ sys' = sys \ {b} /\ held' = [held EXCEPT ![pool[t]] = @ \union {b}]
        /\ block' = [block EXCEPT ![t] = None] /\ temp' = [temp EXCEPT ![t] = None]
        /\ count' = [count EXCEPT ![t] = 0]
        /\ UNCHANGED <<head, next>>
  BY DEF SysAlloc, RetryAlloc, Return, Goto
<1>2. PICK p \in Pool : p = pool[t]
  BY <1>1 DEF SetInv, SetShapes
<1>3. b \in Block /\ kind[b] = "sys"
  BY <1>1 DEF Mem, Owners, TypeOK
<1>4. PICK k2, o2 : k2 = [kind EXCEPT ![b] = "held"] /\ o2 = [of EXCEPT ![b] = p]
  OBVIOUS
<1>5. Owners(k2, o2)'
  BY <1>1, <1>2, <1>3, <1>4 DEF Mem, Owners, TypeOK, Carrying
<1>6. \A q \in Pool : PoolStays(kind, of, k2, o2, q)
  BY <1>1, <1>3, <1>4 DEF PoolStays, Free, Mem, Owners
<1>7. OwnLocals(t)
  BY <1>1 DEF OwnLocals, TypeOK
<1>8. PICK W \in SUBSET Pool : W = {}
  OBVIOUS
<1>9. /\ \A q \in Pool : L!IsListOf(Nat, Free(k2, o2, q), head'[q], next')
      /\ \A u \in Thread \ {t} : AtPlace(k2, o2, u)'
  <2>1. \A u \in Thread \ {t} : pc[u] = "dealloc_push" => next'[block[u]] = next[block[u]]
    BY <1>1
  <2>2. \A q \in W : Holding(t, q)
    BY <1>8
  <2>3. \A q \in Pool \ W : PoolStays(kind, of, k2, o2, q)
    BY <1>6
  <2>4. /\ \A q \in Pool \ W : L!IsListOf(Nat, Free(k2, o2, q), head'[q], next')
        /\ \A u \in Thread \ {t} : AtPlace(k2, o2, u)'
    BY <1>7, <2>1, <2>2, <2>3, Frame
  <2> QED
    BY <1>8, <2>4
<1>10. AtPlace(k2, o2, t)'
  BY <1>1 DEF AtPlace, TypeOK
<1> QED
  BY <1>5, <1>9, <1>10 DEF Mem, InLists

\* The word of a carried block is in no list.
LEMMA LinkStep ==
    ASSUME Protected, TypeOK, SetInv, NEW t \in Thread, SetShapes', Moves(t),
           NEW kind, NEW of, Mem(kind, of), DeallocLink(t)
    PROVE  Mem(kind, of)'
<1>1. /\ pc[t] = "dealloc_link" /\ pc' = [pc EXCEPT ![t] = "dealloc_push"]
      /\ next' = [next EXCEPT ![block[t]] = head[pool[t]]]
      /\ UNCHANGED <<head, sys, held, block, pool, temp, count>>
  BY DEF DeallocLink, Goto, locals
<1>2. PICK b \in Block : b = block[t] /\ kind[b] = "carried" /\ of[b] = t
  BY <1>1 DEF Mem, Owners, Carrying
<1>3. \A c \in Block \ {b} : next'[c] = next[c]
  BY <1>1, <1>2 DEF TypeOK
<1>4. \A q \in Pool : PoolStays(kind, of, kind, of, q)
  BY <1>1, <1>2, <1>3 DEF PoolStays, Free
<1>5. \A u \in Thread \ {t} : pc[u] = "dealloc_push" => next'[block[u]] = next[block[u]]
  <2> SUFFICES ASSUME NEW u \in Thread \ {t}, pc[u] = "dealloc_push"
               PROVE  next'[block[u]] = next[block[u]]
    OBVIOUS
  <2>1. block[u] \in Block /\ of[block[u]] = u
    BY DEF Mem, Owners, Carrying
  <2> QED
    BY <1>2, <1>3, <2>1
<1>6. OwnLocals(t)
  BY <1>1 DEF OwnLocals
<1>7. PICK W \in SUBSET Pool : W = {}
  OBVIOUS
<1>8. /\ \A q \in Pool : L!IsListOf(Nat, Free(kind, of, q), head'[q], next')
      /\ \A u \in Thread \ {t} : AtPlace(kind, of, u)'
  BY <1>4, <1>5, <1>6, <1>7, Frame
<1>9. AtPlace(kind, of, t)'
  BY <1>1, <1>2 DEF AtPlace, TypeOK
<1>10. \A u \in Thread : pc'[u] \in Carrying <=> pc[u] \in Carrying
  BY <1>1 DEF Carrying, TypeOK
<1>11. Owners(kind, of)'
  BY <1>1, <1>10 DEF Mem, Owners
<1> QED
  BY <1>8, <1>9, <1>11 DEF Mem, InLists

\* The carried block becomes the head of its pool's list.
LEMMA PushStep ==
    ASSUME Protected, TypeOK, SetInv, NEW t \in Thread, SetShapes', Moves(t),
           NEW kind, NEW of, Mem(kind, of), DeallocPush(t)
    PROVE  \E k2, o2 : Mem(k2, o2)'
<1>1. PICK p \in Pool, b \in Block :
        /\ p = pool[t] /\ b = block[t] /\ Holding(t, p)
        /\ kind[b] = "carried" /\ of[b] = t /\ next[b] = head[p]
        /\ pc[t] = "dealloc_push" /\ pc' = [pc EXCEPT ![t] = "idle"]
        /\ head' = [head EXCEPT ![p] = b]
        /\ block' = [block EXCEPT ![t] = None] /\ temp' = [temp EXCEPT ![t] = None]
        /\ count' = [count EXCEPT ![t] = 0]
        /\ UNCHANGED <<next, sys, held>>
  <2>1. pc[t] = "dealloc_push" /\ pool[t] \in Pool /\ Holding(t, pool[t])
    BY DEF DeallocPush, Return, Goto, SetInv, SetShapes, Holding, UnderPool
  <2>2. block[t] \in Block /\ kind[block[t]] = "carried" /\ of[block[t]] = t
    BY <2>1 DEF Mem, Owners, Carrying
  <2>3. next[block[t]] = head[pool[t]]
    BY <2>1 DEF Mem, AtPlace
  <2> QED
    BY <2>1, <2>2, <2>3 DEF DeallocPush, Return, Goto
<1>2. PICK k2, o2 : k2 = [kind EXCEPT ![b] = "free"] /\ o2 = [of EXCEPT ![b] = p]
  OBVIOUS
<1>3. Owners(k2, o2)'
  BY <1>1, <1>2 DEF Mem, Owners, TypeOK, Carrying
<1>4. /\ Free(k2, o2, p) = Free(kind, of, p) \union {b} /\ b \notin Free(kind, of, p)
      /\ \A q \in Pool \ {p} : Free(k2, o2, q) = Free(kind, of, q)
  BY <1>1, <1>2 DEF Free, Mem, Owners
<1>5. OwnLocals(t)
  BY <1>1 DEF OwnLocals, TypeOK
<1>6. PICK W \in SUBSET Pool : W = {p}
  OBVIOUS
<1>7. /\ \A q \in Pool \ W : L!IsListOf(Nat, Free(k2, o2, q), head'[q], next')
      /\ \A u \in Thread \ {t} : AtPlace(k2, o2, u)'
  <2>1. \A q \in W : Holding(t, q)
    BY <1>1, <1>6
  <2>2. \A q \in Pool \ W : PoolStays(kind, of, k2, o2, q)
    BY <1>1, <1>4, <1>6 DEF PoolStays, TypeOK
  <2>3. \A u \in Thread \ {t} : pc[u] = "dealloc_push" => next'[block[u]] = next[block[u]]
    BY <1>1
  <2> QED
    BY <1>5, <2>1, <2>2, <2>3, Frame
<1>8. L!IsListOf(Nat, Free(k2, o2, p), head'[p], next')
  <2>1. L!IsListOf(Nat, Free(kind, of, p), head[p], next)
    BY DEF Mem, InLists
  <2>2. Free(kind, of, p) \in SUBSET Block /\ b \in Block \ Free(kind, of, p)
    BY <1>4 DEF Free
  <2>3. next \in [Block -> Block \union {None}]
    BY DEF TypeOK
  <2>4. L!IsListOf(Nat, Free(kind, of, p) \union {b}, b, [next EXCEPT ![b] = head[p]])
    BY <2>1, <2>2, <2>3, L!PushList
  <2>5. [next EXCEPT ![b] = head[p]] = next
    BY <1>1, <2>3
  <2>6. next' = next /\ head'[p] = b
    BY <1>1 DEF TypeOK
  <2> QED
    BY <1>4, <2>4, <2>5, <2>6
<1>9. AtPlace(k2, o2, t)'
  BY <1>1 DEF AtPlace, TypeOK
<1> QED
  BY <1>3, <1>6, <1>7, <1>8, <1>9 DEF Mem, InLists

\* The head of the list that the thread read goes to the client.
LEMMA PopStep ==
    ASSUME Protected, TypeOK, SetInv, NEW t \in Thread, SetShapes', Moves(t),
           NEW kind, NEW of, Mem(kind, of), AllocPop(t)
    PROVE  \E k2, o2 : Mem(k2, o2)'
<1>1. PICK p \in Pool, b \in Block :
        /\ p = pool[t] /\ Holding(t, p) /\ b = head[p] /\ b # None
        /\ pc[t] = "alloc_pop" /\ pc' = [pc EXCEPT ![t] = "idle"]
        /\ head' = [head EXCEPT ![p] = next[b]] /\ held' = [held EXCEPT ![p] = @ \union {b}]
        /\ block' = [block EXCEPT ![t] = None] /\ temp' = [temp EXCEPT ![t] = None]
        /\ count' = [count EXCEPT ![t] = 0]
        /\ UNCHANGED <<next, sys>>
  <2>1. pc[t] = "alloc_pop" /\ pool[t] \in Pool /\ Holding(t, pool[t])
    BY DEF AllocPop, Return, Goto, SetInv, SetShapes, Holding, UnderPool
  <2>2. block[t] = head[pool[t]] /\ block[t] # None
    BY <2>1 DEF Mem, AtPlace
  <2>3. block[t] \in Block
    BY <2>2 DEF TypeOK
  <2> QED
    BY <2>1, <2>2, <2>3 DEF AllocPop, Return, Goto
<1>2. PICK k2, o2 : k2 = [kind EXCEPT ![b] = "held"] /\ o2 = [of EXCEPT ![b] = p]
  OBVIOUS
<1>3. /\ b \in Free(kind, of, p)
      /\ L!IsListOf(Nat, Free(kind, of, p) \ {b}, next[b], next)
  <2>1. L!IsListOf(Nat, Free(kind, of, p), b, next)
    BY <1>1 DEF Mem, InLists
  <2>2. Free(kind, of, p) \in SUBSET Block /\ next \in [Block -> Block \union {None}]
    BY DEF Free, TypeOK
  <2> QED
    BY <1>1, <2>1, <2>2, L!TakeHead
<1>4. kind[b] = "free" /\ of[b] = p
  BY <1>3 DEF Free
<1>5. Owners(k2, o2)'
  BY <1>1, <1>2, <1>4 DEF Mem, Owners, TypeOK, Carrying
<1>6. /\ Free(k2, o2, p) = Free(kind, of, p) \ {b}
      /\ \A q \in Pool \ {p} : Free(k2, o2, q) = Free(kind, of, q)
  BY <1>1, <1>2, <1>4 DEF Free, Mem, Owners
<1>7. OwnLocals(t)
  BY <1>1 DEF OwnLocals, TypeOK
<1>8. PICK W \in SUBSET Pool : W = {p}
  OBVIOUS
<1>9. /\ \A q \in Pool \ W : L!IsListOf(Nat, Free(k2, o2, q), head'[q], next')
      /\ \A u \in Thread \ {t} : AtPlace(k2, o2, u)'
  <2>1. \A q \in W : Holding(t, q)
    BY <1>1, <1>8
  <2>2. \A q \in Pool \ W : PoolStays(kind, of, k2, o2, q)
    BY <1>1, <1>6, <1>8 DEF PoolStays, TypeOK
  <2>3. \A u \in Thread \ {t} : pc[u] = "dealloc_push" => next'[block[u]] = next[block[u]]
    BY <1>1
  <2> QED
    BY <1>7, <2>1, <2>2, <2>3, Frame
<1>10. L!IsListOf(Nat, Free(k2, o2, p), head'[p], next')
  <2>1. next' = next /\ head'[p] = next[b]
    BY <1>1 DEF TypeOK
  <2> QED
    BY <1>3, <1>6, <2>1
<1>11. AtPlace(k2, o2, t)'
  BY <1>1 DEF AtPlace, TypeOK
<1> QED
  BY <1>5, <1>8, <1>9, <1>10, <1>11 DEF Mem, InLists


\* The block after the one the walk is at goes to the system.
LEMMA UnlinkStep ==
    ASSUME Protected, IsFiniteSet(Block), TypeOK, SetInv, NEW t \in Thread, SetShapes', Moves(t),
           NEW kind, NEW of, Mem(kind, of), RecFree(t)
    PROVE  \E k2, o2 : Mem(k2, o2)'
<1>1. PICK p \in Pool, a \in Block, b \in Block :
        /\ p = set[idx[t]] /\ Holding(t, p) /\ a = block[t] /\ a # None
        /\ b = temp[t] /\ b = next[a] /\ b # None
        /\ Walked(Free(kind, of, p), p, t)
        /\ pc[t] = "rec_free" /\ pc' = [pc EXCEPT ![t] = "rec_look"]
        /\ next' = [next EXCEPT ![a] = next[b]]
        /\ sys' = sys \union {b}
        /\ block' = [block EXCEPT ![t] = next[b]]
        /\ UNCHANGED <<set, head, held, idx, temp, count>>
  <2>1. pc[t] = "rec_free" /\ set[idx[t]] \in Pool /\ Holding(t, set[idx[t]])
    BY DEF RecFree, Goto, SetInv, SetShapes, Holding, Walking
  <2>2. block[t] # None /\ temp[t] # None /\ temp[t] = next[block[t]]
    BY <2>1 DEF Mem, AtPlace
  <2>3. block[t] \in Block /\ temp[t] \in Block
    BY <2>2 DEF TypeOK
  <2>4. Walked(Free(kind, of, set[idx[t]]), set[idx[t]], t)
    BY <2>1 DEF Mem, AtPlace
  <2> QED
    BY <2>1, <2>2, <2>3, <2>4 DEF RecFree, Goto
<1>2. PICK k2, o2 : k2 = [kind EXCEPT ![b] = "sys"] /\ o2 = of
  OBVIOUS
<1>3. PICK j \in Nat : /\ count[t] = Cardinality(Free(kind, of, p)) + j
                       /\ L!IsAt(Free(kind, of, p), head[p], next, j, a)
  BY <1>1 DEF Walked
<1>4. /\ b \in Free(kind, of, p) /\ a \in Free(kind, of, p)
      /\ L!IsAt(Free(kind, of, p) \ {b}, head[p], [next EXCEPT ![a] = next[b]], j + 1, next[b])
  <2>1. Free(kind, of, p) \in SUBSET Block /\ next \in [Block -> Block \union {None}]
    BY DEF Free, TypeOK
  <2>2. a # None /\ next[a] # None /\ None \notin Free(kind, of, p)
    BY <1>1, NoneIsFree
  <2>a. L!IsAt(Free(kind, of, p), head[p], next, j, a)
    BY <1>3
  <2>3. /\ next[a] \in Free(kind, of, p) /\ a \in Free(kind, of, p)
        /\ L!IsAt(Free(kind, of, p) \ {next[a]}, head[p],
                  [next EXCEPT ![a] = next[next[a]]], j + 1, next[next[a]])
    BY <2>1, <2>2, <2>a, L!UnlinkNext
  <2> QED
    BY <1>1, <2>3
<1>5. kind[b] = "free" /\ of[b] = p /\ kind[a] = "free" /\ of[a] = p
  BY <1>4 DEF Free
<1>6. Owners(k2, o2)'
  <2>1. \A u \in Thread : /\ pc'[u] \in Carrying <=> pc[u] \in Carrying
                          /\ pc[u] \in Carrying => block'[u] = block[u]
    BY <1>1 DEF TypeOK, Carrying
  <2> QED
    BY <1>1, <1>2, <1>5, <2>1 DEF Mem, Owners, TypeOK
<1>7. /\ Free(k2, o2, p) = Free(kind, of, p) \ {b}
      /\ \A q \in Pool \ {p} : Free(k2, o2, q) = Free(kind, of, q) /\ a \notin Free(kind, of, q)
  BY <1>1, <1>2, <1>5 DEF Free, Mem, Owners
<1>8. OwnLocals(t)
  BY <1>1 DEF OwnLocals, TypeOK
<1>9. PICK W \in SUBSET Pool : W = {p}
  OBVIOUS
<1>10. /\ \A q \in Pool \ W : L!IsListOf(Nat, Free(k2, o2, q), head'[q], next')
       /\ \A u \in Thread \ {t} : AtPlace(k2, o2, u)'
  <2>1. \A q \in W : Holding(t, q)
    BY <1>1, <1>9
  <2>2. \A q \in Pool \ W : PoolStays(kind, of, k2, o2, q)
    <3>1. \A c \in Block \ {a} : next'[c] = next[c]
      BY <1>1 DEF TypeOK
    <3> QED
      BY <1>1, <1>7, <1>9, <3>1 DEF PoolStays, Free
  <2>3. \A u \in Thread \ {t} : pc[u] = "dealloc_push" => next'[block[u]] = next[block[u]]
    <3> SUFFICES ASSUME NEW u \in Thread \ {t}, pc[u] = "dealloc_push"
                 PROVE  next'[block[u]] = next[block[u]]
      OBVIOUS
    <3>1. block[u] \in Block /\ kind[block[u]] = "carried"
      BY DEF Mem, Owners, Carrying
    <3> QED
      BY <1>1, <1>5, <3>1 DEF TypeOK
  <2> QED
    BY <1>8, <2>1, <2>2, <2>3, Frame
<1>11. L!IsAt(Free(k2, o2, p), head'[p], next', j + 1, block'[t])
  <2>1. next' = [next EXCEPT ![a] = next[b]] /\ head'[p] = head[p] /\ block'[t] = next[b]
    BY <1>1 DEF TypeOK
  <2> QED
    BY <1>4, <1>7, <2>1
<1>12. L!IsListOf(Nat, Free(k2, o2, p), head'[p], next')
  BY <1>11, NoneIsFree, L!EndOfWalk
<1>13. AtPlace(k2, o2, t)'
  <2>1. count'[t] = Cardinality(Free(k2, o2, p)) + (j + 1)
    <3>1. /\ IsFiniteSet(Free(kind, of, p)) /\ Cardinality(Free(kind, of, p)) \in Nat
      BY FreeCount
    <3>2. Cardinality(Free(k2, o2, p)) = Cardinality(Free(kind, of, p)) - 1
      <4>1. Cardinality(Free(kind, of, p) \ {b}) = Cardinality(Free(kind, of, p)) - 1
        BY <1>4, <3>1, FS_RemoveElement
      <4> QED
        BY <1>7, <4>1
    <3> QED
      BY <1>1, <1>3, <3>1, <3>2
  <2>2. j + 1 \in Nat
    OBVIOUS
  <2>3. Walked(Free(k2, o2, p), p, t)'
    BY <1>11, <2>1, <2>2 DEF Walked
  <2>4. pc'[t] = "rec_look" /\ set'[idx'[t]] = p
    BY <1>1 DEF TypeOK
  <2> QED
    BY <2>3, <2>4 DEF AtPlace
<1> QED
  BY <1>6, <1>9, <1>10, <1>12, <1>13 DEF Mem, InLists

-----------------------------------------------------------------------------
MemInv == TypeOK /\ \E kind, of : Mem(kind, of)

LEMMA InitMem == Init => MemInv
<1> SUFFICES ASSUME Init PROVE MemInv
  OBVIOUS
<1> USE DEF Init
<1>1. TypeOK
  BY DEF TypeOK, Place
<1>2. PICK kind, of : kind = [b \in Block |-> "sys"] /\ of = [b \in Block |-> None]
  OBVIOUS
<1>3. Owners(kind, of)
  BY <1>2 DEF Owners, Carrying
<1>4. ASSUME NEW p \in Pool PROVE L!IsListOf(Nat, Free(kind, of, p), head[p], next)
  <2>1. Free(kind, of, p) = {} /\ head[p] = None
    BY <1>2 DEF Free
  <2>2. PICK s : s = [i \in 1..0 |-> None]
    OBVIOUS
  <2>3. s \in [1..0 -> {}]
    BY <2>2
  <2>4. L!Lists(0, s, {}, None, next)
    BY <2>2 DEF L!Lists
  <2>5. L!IsListOf(Nat, {}, None, next)
    BY <2>3, <2>4 DEF L!IsListOf
  <2> QED
    BY <2>1, <2>5
<1>5. \A t \in Thread : AtPlace(kind, of, t)
  BY DEF AtPlace
<1> QED
  BY <1>1, <1>3, <1>4, <1>5 DEF MemInv, Mem, InLists

LEMMA MemStep ==
    ASSUME Protected, IsFiniteSet(Block), MemInv, SetInv, NEW t \in Thread,
           Calls(t) \/ Work(t), SetShapes', Moves(t)
    PROVE  MemInv'
<1>1. PICK kind, of : Mem(kind, of)
  BY DEF MemInv
<1>2. Blocks(t)
  <2>1. pc[t] \in Carrying => block[t] \in Block
    BY <1>1 DEF Mem, Owners
  <2>2. pc[t] = "alloc_pop" => block[t] \in Block
    BY <1>1 DEF Mem, AtPlace, MemInv, TypeOK
  <2>3. pc[t] = "rec_free" => block[t] \in Block /\ temp[t] \in Block
    BY <1>1 DEF Mem, AtPlace, MemInv, TypeOK
  <2>4. pc[t] = "rec_head" => Cardinality(FreeOf(set[idx[t]])) \in Nat
    <3> SUFFICES ASSUME pc[t] = "rec_head" PROVE Cardinality(FreeOf(set[idx[t]])) \in Nat
      OBVIOUS
    <3>1. set[idx[t]] \in Pool
      BY DEF SetInv, SetShapes, Walking
    <3> QED
      BY <1>1, <3>1, FreeCount DEF MemInv
  <2> QED
    BY <2>1, <2>2, <2>3, <2>4 DEF Blocks
<1>3. TypeOK'
  BY <1>2, TypeStep DEF MemInv
<1>4. \E k2, o2 : Mem(k2, o2)'
  <2>1. CASE \/ CallInstance(t) \/ CallAllocate(t) \/ StaticInit(t)
             \/ StaticForceSet(t) \/ StaticAdd(t) \/ StaticPublish(t)
             \/ InstLock(t) \/ InstKnown(t) \/ InstForceSet(t) \/ InstAdd(t) \/ InstPublish(t)
             \/ AllocLock(t) \/ AllocEmpty(t) \/ DeallocLock(t)
             \/ SysLock(t) \/ SysRefused(t) \/ SysInstance(t) \/ RetryRefused(t)
             \/ RecLock(t) \/ RecDone(t) \/ RecEnd(t)
    <3>1. Mem(kind, of)'
      BY <1>1, <2>1, LockStep DEF MemInv
    <3> QED
      BY <3>1
  <2>2. CASE AllocRead(t) \/ RecHead(t) \/ RecLook(t)
    <3>1. Mem(kind, of)'
      BY <1>1, <2>2, LookStep DEF MemInv
    <3> QED
      BY <3>1
  <2>3. CASE DeallocLink(t)
    <3>1. Mem(kind, of)'
      BY <1>1, <2>3, LinkStep DEF MemInv
    <3> QED
      BY <3>1
  <2>4. CASE CallDeallocate(t)
    BY <1>1, <2>4, GiveBackStep DEF MemInv
  <2>5. CASE SysAlloc(t) \/ RetryAlloc(t)
    BY <1>1, <2>5, RequestStep DEF MemInv
  <2>6. CASE DeallocPush(t)
    BY <1>1, <2>6, PushStep DEF MemInv
  <2>7. CASE AllocPop(t)
    BY <1>1, <2>7, PopStep DEF MemInv
  <2>8. CASE RecFree(t)
    BY <1>1, <2>8, UnlinkStep DEF MemInv
  <2> QED
    BY <2>1, <2>2, <2>3, <2>4, <2>5, <2>6, <2>7, <2>8 DEF Calls, Work
<1> QED
  BY <1>3, <1>4 DEF MemInv

LEMMA MemInvHolds ==
    ASSUME Protected, IsFiniteSet(Block)
    PROVE  Spec => [](SetInv /\ MemInv)
<1>1. OneUser
  BY StaticMemPoolAssumption DEF Protected, OneUser
<1>2. MemInv /\ SetInv /\ [Next]_vars /\ SetInv' => MemInv'
  <2> SUFFICES ASSUME MemInv, SetInv, [Next]_vars, SetInv' PROVE MemInv'
    OBVIOUS
  <2>1. ASSUME NEW t \in Thread, Calls(t) \/ Work(t) PROVE MemInv'
    <3>1. SetShapes' /\ Moves(t)
      BY <2>1, CallShape, TakeShape, GiveShape, OtherShape DEF Work
    <3> QED
      BY <2>1, <3>1, MemStep
  <2>2. CASE UNCHANGED vars
    <3>1. UNCHANGED <<set_mtx, mtx, pending, instance, set, head, next, sys, held, pc, pool,
                      block, temp, idx, count>>
      BY <2>2 DEF vars, shared, locals
    <3>2. PICK kind, of : Mem(kind, of)
      BY DEF MemInv
    <3>3. Owners(kind, of)' /\ InLists(kind, of)'
      BY <3>1, <3>2 DEF Mem, Owners, InLists
    <3>4. ASSUME NEW t \in Thread PROVE AtPlace(kind, of, t)'
      BY <3>1, <3>2 DEF Mem, AtPlace, Walked
    <3>5. TypeOK'
      BY <3>1 DEF MemInv, TypeOK
    <3> QED
      BY <3>3, <3>4, <3>5 DEF MemInv, Mem
  <2> QED
    BY <2>1, <2>2 DEF Next
<1>3. Spec => []SetInv
  BY <1>1, SetInvHolds
<1> QED
  BY <1>2, <1>3, InitMem, PTL DEF Spec

LEMMA OneOf == ASSUME NEW S, NEW x \in S PROVE Cardinality({y \in S : y = x}) = 1
<1>1. {y \in S : y = x} = {x}
  OBVIOUS
<1> QED
  BY <1>1, FS_Singleton

\* Whatever the interleaving, every block is in exactly one place: with the system,
\* on the free list of one pool, with one client of one pool, or carried by one
\* deallocating thread, for any number of threads, pools and blocks, when every pool
\* has a real lock or the program has one thread.
THEOREM BlocksHaveOnePlace ==
    ASSUME Protected, IsFiniteSet(Block)
    PROVE  Spec => []EachBlockOnce
<1>1. SetInv /\ MemInv => EachBlockOnce
  <2> SUFFICES ASSUME MemInv, NEW b \in Block
               PROVE  Cardinality({p \in Pool : b \in FreeOf(p)})
                        + Cardinality({p \in Pool : b \in held[p]})
                        + Cardinality({t \in Thread : b \in Carried(t)})
                        + (IF b \in sys THEN 1 ELSE 0) = 1
    BY DEF EachBlockOnce, MemInv
  <2>1. PICK kind, of : Mem(kind, of)
    BY DEF MemInv
  <2>2. \A p \in Pool : b \in FreeOf(p) <=> kind[b] = "free" /\ of[b] = p
    <3> SUFFICES ASSUME NEW p \in Pool
                 PROVE  b \in FreeOf(p) <=> kind[b] = "free" /\ of[b] = p
      OBVIOUS
    <3>1. FreeOf(p) = Free(kind, of, p)
      BY <2>1, FreeCount DEF MemInv
    <3> QED
      BY <3>1 DEF Free
  <2>3. \A p \in Pool : b \in held[p] <=> kind[b] = "held" /\ of[b] = p
    BY <2>1 DEF Mem, Owners
  <2>4. \A t \in Thread : b \in Carried(t) <=> kind[b] = "carried" /\ of[b] = t
    BY <2>1 DEF Mem, Owners, Carried, Carrying
  <2>5. b \in sys <=> kind[b] = "sys"
    BY <2>1 DEF Mem, Owners
  <2>6. Cardinality({}) = 0
    BY FS_EmptySet
  <2>7. CASE kind[b] = "free"
    <3>1. of[b] \in Pool
      BY <2>1, <2>7 DEF Mem, Owners
    <3>2. /\ {p \in Pool : b \in FreeOf(p)} = {p \in Pool : p = of[b]}
          /\ {p \in Pool : b \in held[p]} = {} /\ {t \in Thread : b \in Carried(t)} = {}
      BY <2>2, <2>3, <2>4, <2>7
    <3>3. Cardinality({p \in Pool : b \in FreeOf(p)}) = 1
      BY <3>1, <3>2, OneOf
    <3>4. Cardinality({p \in Pool : b \in held[p]}) = 0
      BY <3>1, <3>2, <2>6
    <3>5. Cardinality({t \in Thread : b \in Carried(t)}) = 0
      BY <3>1, <3>2, <2>6
    <3> QED
      BY <2>5, <2>7, <3>3, <3>4, <3>5
  <2>8. CASE kind[b] = "held"
    <3>1. of[b] \in Pool
      BY <2>1, <2>8 DEF Mem, Owners
    <3>2. /\ {p \in Pool : b \in held[p]} = {p \in Pool : p = of[b]}
          /\ {p \in Pool : b \in FreeOf(p)} = {} /\ {t \in Thread : b \in Carried(t)} = {}
      BY <2>2, <2>3, <2>4, <2>8
    <3>3. Cardinality({p \in Pool : b \in FreeOf(p)}) = 0
      BY <3>1, <3>2, <2>6
    <3>4. Cardinality({p \in Pool : b \in held[p]}) = 1
      BY <3>1, <3>2, OneOf
    <3>5. Cardinality({t \in Thread : b \in Carried(t)}) = 0
      BY <3>1, <3>2, <2>6
    <3> QED
      BY <2>5, <2>8, <3>3, <3>4, <3>5
  <2>9. CASE kind[b] = "carried"
    <3>1. of[b] \in Thread
      BY <2>1, <2>9 DEF Mem, Owners
    <3>2. /\ {t \in Thread : b \in Carried(t)} = {t \in Thread : t = of[b]}
          /\ {p \in Pool : b \in FreeOf(p)} = {} /\ {p \in Pool : b \in held[p]} = {}
      BY <2>2, <2>3, <2>4, <2>9
    <3>3. Cardinality({p \in Pool : b \in FreeOf(p)}) = 0
      BY <3>1, <3>2, <2>6
    <3>4. Cardinality({p \in Pool : b \in held[p]}) = 0
      BY <3>1, <3>2, <2>6
    <3>5. Cardinality({t \in Thread : b \in Carried(t)}) = 1
      BY <3>1, <3>2, OneOf
    <3> QED
      BY <2>5, <2>9, <3>3, <3>4, <3>5
  <2>10. CASE kind[b] = "sys"
    <3>1. /\ {t \in Thread : b \in Carried(t)} = {}
          /\ {p \in Pool : b \in FreeOf(p)} = {} /\ {p \in Pool : b \in held[p]} = {}
      BY <2>2, <2>3, <2>4, <2>10
    <3>2. /\ Cardinality({p \in Pool : b \in FreeOf(p)}) = 0
          /\ Cardinality({p \in Pool : b \in held[p]}) = 0
          /\ Cardinality({t \in Thread : b \in Carried(t)}) = 0
      BY <2>6, <3>1
    <3> QED
      BY <2>5, <2>10, <3>2
  <2> QED
    BY <2>1, <2>7, <2>8, <2>9, <2>10 DEF Mem, Owners
<1> QED
  BY <1>1, MemInvHolds, PTL

\* recycle() leaves each pool the larger half of its free blocks, whatever other
\* threads do meanwhile, under the same conditions.
THEOREM RecycleHalves ==
    ASSUME Protected, IsFiniteSet(Block)
    PROVE  Spec => []RecyclesHalf
<1>1. SetInv /\ MemInv => RecyclesHalf
  <2> SUFFICES ASSUME SetInv, MemInv,
                      NEW t \in Thread, pc[t] = "rec_look", After(block[t]) = None
               PROVE  Cardinality(FreeOf(set[idx[t]])) = (count[t] + 1) \div 2
    BY DEF RecyclesHalf
  <2>1. PICK kind, of : Mem(kind, of)
    BY DEF MemInv
  <2>2. PICK p \in Pool : p = set[idx[t]]
    BY DEF SetInv, SetShapes, Walking
  <2>3. PICK F : F = Free(kind, of, p)
    OBVIOUS
  <2>4. FreeOf(p) = F /\ Cardinality(F) \in Nat
    BY <2>1, <2>3, FreeCount DEF MemInv
  <2>5. PICK j \in Nat : /\ count[t] = Cardinality(F) + j
                         /\ L!IsAt(F, head[p], next, j, block[t])
    BY <2>1, <2>2, <2>3 DEF Mem, AtPlace, Walked
  <2>6. /\ block[t] = None => Cardinality(F) = j
        /\ block[t] # None /\ next[block[t]] = None => Cardinality(F) = j + 1
    <3>1. None \notin F
      BY <2>3, NoneIsFree
    <3> QED
      BY <2>5, <3>1, L!EndOfWalk, SameCardinality
  <2>7. Cardinality(F) = j \/ Cardinality(F) = j + 1
    BY <2>6 DEF After
  <2>8. PICK c \in Nat : c = Cardinality(F)
    BY <2>4
  <2>9. c = (c + j + 1) \div 2
    <3>1. CASE j = c
      <4>1. c + j + 1 = 2 * c + 1
        BY <3>1
      <4>2. (2 * c + 1) \div 2 = c
        OBVIOUS
      <4> QED
        BY <4>1, <4>2
    <3>2. CASE c = j + 1
      <4>1. c + j + 1 = 2 * c
        BY <3>2
      <4>2. (2 * c) \div 2 = c
        OBVIOUS
      <4> QED
        BY <4>1, <4>2
    <3> QED
      BY <2>7, <2>8, <3>1, <3>2
  <2> QED
    BY <2>2, <2>4, <2>5, <2>8, <2>9
<1> QED
  BY <1>1, MemInvHolds, PTL
=============================================================================
