--------------------------- MODULE NedPool_proofs ---------------------------
(***************************************************************************)
(* LocksHeld, MspacesListed, CacheIsOwn, SettingsStay and BlocksAccounted  *)
(* (NedPool) for any number of threads, mspaces and caches; ListExact      *)
(* (NedPoolList) for any number of threads and pools.                      *)
(*                                                                         *)
(* First the locks: they exclude, and each is released as often as it is   *)
(* taken.  The inductive invariant, Inv, says for each lock that its owner *)
(* is at a place where it holds it and that whoever is at such a place     *)
(* owns it.  Beside it are the facts the steps rest on: until InitPool is  *)
(* through no thread is past it, and from then on there is a first mspace. *)
(* All steps but two are regular: one thread moves, and each lock it does  *)
(* not leave alone it takes on entering a place or gives up on leaving it. *)
(*                                                                         *)
(* Inv2 then adds what is in the list of mspaces and in the caches.  The   *)
(* list of pools shares no state with the rest.                            *)
(*                                                                         *)
(* Last, the blocks.  Books is the property for one mspace, the invariant  *)
(* adds where a thread has a block in hand and what it knows of its        *)
(* mspace: a thread that allocates does so in an mspace of the list, one   *)
(* that is destroyed again has no blocks, and a cache that is being freed  *)
(* is empty.  Most steps count nothing (Uncounted).  A block otherwise     *)
(* moves between a client, a cache and a thread (CacheStepInv3), or an     *)
(* mspace's own count changes with one of them (UsedStepInv3).             *)
(***************************************************************************)
EXTENDS NedPool, NedPoolList, FiniteSetTheorems, WellFoundedInduction, TLAPS

INSTANCE Lemmas_proofs

UnderMutex == {"alloc_lock", "alloc_in", "install_lock"}
UnderGlobal == {"mparams_in", "initpool"}
\* The places a thread can be at while the pool is not initialised.
Outside == {"idle", "ensure", "mparams", "change", "init", "aborted"} \union UnderGlobal

In(t, i) ==
    \/ pc[t] \in {"enter", "inside", "walk_in"} /\ me[t].m = i
    \/ pc[t] = "alloc_in" /\ m[0] = i
    \/ pc[t] = "free_in" /\ me[t].block = i

Lock == [owner : Thread \union {Null}, c : Int]
Locals == {"op", "cache", "ms", "n", "end", "m", "block", "retiring"}

Shapes ==
    /\ DOMAIN pc = Thread /\ DOMAIN me = Thread /\ DOMAIN m = Index
    /\ \A t \in Thread : DOMAIN me[t] = Locals
    /\ lock \in [Id -> Lock] /\ mutex \in Lock /\ global \in Lock

Ready ==
    /\ threads \in {0, MaxThreads}
    /\ threads = 0 => /\ \A t \in Thread : pc[t] \in Outside
                      /\ \A i \in Id : held[i] = 0
                      /\ DOMAIN used = {}
    /\ threads # 0 => m[0] \in Id

AllocOp ==
    \A t \in Thread :
        pc[t] \in {"alloc", "alloc_lock", "alloc_in"} => me[t].op \in {"malloc", "free"}

MspaceLocks ==
    \A i \in Id :
        /\ lock[i] = Open \/ \E t \in Thread : lock[i].owner = t /\ In(t, i)
        /\ \A t \in Thread : In(t, i) => lock[i].owner = t /\ lock[i].c = Depth(t)

MutexHeld ==
    /\ mutex.owner = Null => mutex = Open
    /\ mutex.owner # Null => pc[mutex.owner] \in UnderMutex
    /\ \A t \in Thread : pc[t] \in UnderMutex => mutex.owner = t /\ mutex.c = 1

GlobalHeld ==
    \/ \A t \in Thread : pc[t] = "aborted"
    \/ /\ global.owner = Null => global = Open
       /\ global.owner # Null => pc[global.owner] \in UnderGlobal
       /\ \A t \in Thread : pc[t] \in UnderGlobal => global.owner = t /\ global.c = 1

Inv == Shapes /\ Ready /\ AllocOp /\ MspaceLocks /\ MutexHeld /\ GlobalHeld

-----------------------------------------------------------------------------
(* Regular steps. *)

OnlyMoves(t) == \A u \in Thread \ {t} : pc'[u] = pc[u] /\ me'[u] = me[u]

Stays(t, i) ==
    lock'[i] = lock[i] /\ (In(t, i)' <=> In(t, i)) /\ (In(t, i) => Depth(t)' = Depth(t))
Enters(t, i) ==
    /\ Acquirable(lock[i], t) /\ lock'[i] = Acquired(lock[i], t)
    /\ In(t, i)' /\ Depth(t)' = IF In(t, i) THEN Depth(t) + 1 ELSE 1
Leaves(t, i) == lock'[i] = Open /\ In(t, i) /\ ~ In(t, i)'

\* The mutex or the global mutex: l before, k after, held at the places in under.
Turns(t, l, k, under) ==
    \/ k = l /\ (pc'[t] \in under <=> pc[t] \in under)
    \/ Acquirable(l, t) /\ k = Acquired(l, t) /\ pc[t] \notin under /\ pc'[t] \in under
    \/ k = Released(l) /\ pc[t] \in under /\ pc'[t] \notin under

Regular(t) ==
    /\ OnlyMoves(t) /\ DOMAIN pc' = Thread /\ DOMAIN me' = Thread /\ DOMAIN me'[t] = Locals
    /\ DOMAIN m' = Index /\ m'[0] = m[0] /\ lock' \in [Id -> Lock]
    /\ \A i \in Id : Stays(t, i) \/ Enters(t, i) \/ Leaves(t, i)
    /\ Turns(t, mutex, mutex', UnderMutex)
    /\ Turns(t, global, global', UnderGlobal) /\ pc[t] # "aborted"
    /\ threads' = threads
    /\ threads = 0 => pc'[t] \in Outside /\ UNCHANGED <<used, held>>
    /\ pc'[t] \in {"alloc", "alloc_lock", "alloc_in"} => me'[t].op \in {"malloc", "free"}

\* Taking and releasing make a lock of a lock.
LEMMA LockMoves ==
    ASSUME NEW l \in Lock, NEW t \in Thread
    PROVE  Acquired(l, t) \in Lock /\ Released(l) \in Lock /\ Open \in Lock
BY NedPoolAssumption DEF Lock, Acquired, Released, Open

\* So does a try_lock, on whatever place in the list.
LEMMA TryLockMoves ==
    ASSUME Shapes, NEW t \in Thread, NEW n, TryLock(t, n)
    PROVE  lock' \in [Id -> Lock]
BY LockMoves DEF TryLock, Shapes

\* One thread that moves regularly keeps every mspace's lock in order.
LEMMA MspaceStep ==
    ASSUME Shapes, MspaceLocks, NEW t \in Thread, OnlyMoves(t),
           m'[0] = m[0] \/ \A u \in Thread : pc[u] # "alloc_in",
           \A i \in Id : Stays(t, i) \/ Enters(t, i) \/ Leaves(t, i)
    PROVE  MspaceLocks'
<1> SUFFICES ASSUME NEW i \in Id
             PROVE  /\ \/ lock'[i] = Open /\ lock'[i].owner = Null
                       \/ \E u \in Thread : lock'[i].owner = u /\ In(u, i)'
                    /\ \A u \in Thread :
                         In(u, i)' => lock'[i].owner = u /\ lock'[i].c = Depth(u)'
    BY NedPoolAssumption DEF MspaceLocks, Open, In, Depth
<1>1. \A u \in Thread \ {t} : (In(u, i)' <=> In(u, i)) /\ Depth(u)' = Depth(u)
    BY DEF In, Depth, OnlyMoves
<1>2. /\ lock[i] \in Lock
      /\ lock[i] = Open \/ \E u \in Thread : lock[i].owner = u /\ In(u, i)
      /\ \A u \in Thread : In(u, i) => lock[i].owner = u /\ lock[i].c = Depth(u)
    BY DEF MspaceLocks, Shapes
<1>3. CASE Stays(t, i)
    BY <1>1, <1>2, <1>3, NedPoolAssumption DEF In, Depth, Stays, Open
<1>4. CASE Enters(t, i)
  <2>1. lock[i] = Open \/ In(t, i)
      BY <1>2, <1>4, NedPoolAssumption DEF Enters, Acquirable
  <2>2. \A u \in Thread \ {t} : ~ In(u, i)
      BY <1>2, <2>1, NedPoolAssumption DEF Open
  <2>3. lock'[i].owner = t /\ lock'[i].c = Depth(t)'
      BY <1>2, <1>4, <2>1, NedPoolAssumption DEF Enters, Acquired, Open
  <2> QED  BY <1>1, <1>4, <2>2, <2>3 DEF Enters
<1>5. CASE Leaves(t, i)
    BY <1>1, <1>2, <1>5 DEF Leaves, Open
<1> QED  BY <1>3, <1>4, <1>5

\* A regular step keeps the invariant.
LEMMA RegularInv == ASSUME Inv, NEW t \in Thread, Regular(t) PROVE Inv'
<1> USE NedPoolAssumption DEF Inv
<1>1. Shapes'
  <2>1. mutex' \in Lock /\ global' \in Lock
      BY LockMoves DEF Shapes, Regular, Turns
  <2> QED  BY <2>1 DEF Shapes, Regular, OnlyMoves
<1>2. Ready'
    BY DEF Ready, Regular, OnlyMoves
<1>3. AllocOp'
    BY DEF AllocOp, Regular, OnlyMoves
<1>4. MspaceLocks'
    BY MspaceStep DEF Regular
<1>5. MutexHeld'
    BY DEF MutexHeld, Shapes, Lock, Open, Regular, OnlyMoves, Turns, Acquirable, Acquired, Released,
           UnderMutex
<1>6. GlobalHeld'
    BY DEF GlobalHeld, Shapes, Lock, Open, Regular, OnlyMoves, Turns, Acquirable, Acquired, Released,
           UnderGlobal
<1> QED  BY <1>1, <1>2, <1>3, <1>4, <1>5, <1>6

-----------------------------------------------------------------------------
(* Each action, one by one. *)

\* What a step that leaves every lock alone has to be shown to do.
Quiet(t) ==
    /\ OnlyMoves(t) /\ DOMAIN pc' = Thread /\ DOMAIN me' = Thread /\ DOMAIN me'[t] = Locals
    /\ UNCHANGED <<threads, global, mutex, lock, m>>
    /\ {pc[t], pc'[t]} \cap (UnderMutex \union UnderGlobal) = {}
    /\ {pc[t], pc'[t]} \cap {"enter", "inside", "walk_in", "alloc_in", "free_in"} = {}
    /\ pc[t] # "aborted"
    /\ threads = 0 => pc'[t] \in Outside /\ UNCHANGED <<used, held>>
    /\ pc'[t] = "alloc" => me'[t].op \in {"malloc", "free"}

\* A step that leaves every lock alone is regular.
LEMMA QuietRegular == ASSUME Inv, NEW t \in Thread, Quiet(t) PROVE Regular(t)
<1>1. \A i \in Id : Stays(t, i)
    BY DEF Quiet, Stays, In
<1> QED  BY <1>1 DEF Inv, Shapes, Quiet, Regular, Turns, UnderMutex

\* The actions that leave every lock alone.
LEMMA QuietSteps ==
    ASSUME Inv, NEW t \in Thread
    PROVE  (\/ Begin(t) \/ EnsureInitialization(t) \/ ChangeMparam(t)
            \/ GetThreadCache(t) \/ CacheRefused(t) \/ CacheHit(t) \/ CreateMspace(t)
            \/ Discard(t) \/ FreeToCache(t) \/ Drain(t) \/ Drained(t) \/ Retire(t)
            \/ Retired(t) \/ TrimThreadCache(t) \/ WalkEnds(t))
           => Quiet(t)
<1> USE NedPoolAssumption DEF Inv
<1>1. CASE Begin(t)
    BY <1>1
       DEF Begin, At, Go, locks, pool, Quiet, OnlyMoves, Outside, UnderMutex, UnderGlobal,
           Shapes, Ready
<1>2. CASE EnsureInitialization(t)
    BY <1>2
       DEF EnsureInitialization, At, Go, Ensured, locks, pool, Quiet, OnlyMoves, Outside,
           UnderMutex, UnderGlobal, Shapes
<1>3. CASE ChangeMparam(t)
    BY <1>3
       DEF ChangeMparam, At, Return, Go, NoLocals, locks, pool, Quiet, OnlyMoves, Outside,
           UnderMutex, UnderGlobal, Shapes, Locals
<1>4. CASE GetThreadCache(t)
    BY <1>4
       DEF GetThreadCache, At, Go, AfterCache, locks, pool, Quiet, OnlyMoves, Outside,
           UnderMutex, UnderGlobal, Shapes, Ready
<1>5. CASE CacheRefused(t)
    BY <1>5
       DEF CacheRefused, At, AfterCache, Go, locks, Quiet, OnlyMoves, Outside, UnderMutex,
           UnderGlobal, Shapes, Ready, AllocOp
<1>6. CASE CacheHit(t)
    BY <1>6
       DEF CacheHit, At, Return, Go, NoLocals, locks, Quiet, OnlyMoves, Outside, UnderMutex,
           UnderGlobal, Shapes, Ready, Locals
<1>7. CASE CreateMspace(t)
    BY <1>7
       DEF CreateMspace, At, Go, locks, Quiet, OnlyMoves, Outside, UnderMutex, UnderGlobal,
           Shapes, Ready
<1>8. CASE Discard(t)
    BY <1>8
       DEF Discard, At, Go, locks, Quiet, OnlyMoves, Outside, UnderMutex, UnderGlobal, Shapes,
           Ready
<1>9. CASE FreeToCache(t)
    BY <1>9
       DEF FreeToCache, At, Go, locks, Quiet, OnlyMoves, Outside, UnderMutex, UnderGlobal,
           Shapes, Ready
<1>10. CASE Drain(t)
    BY <1>10
       DEF Drain, At, Go, locks, Quiet, OnlyMoves, Outside, UnderMutex, UnderGlobal, Shapes,
           Ready
<1>11. CASE Drained(t)
    BY <1>11
       DEF Drained, At, Return, Go, NoLocals, locks, pool, Quiet, OnlyMoves, Outside,
           UnderMutex, UnderGlobal, Shapes, Locals
<1>12. CASE Retire(t)
    BY <1>12
       DEF Retire, At, Go, locks, Quiet, OnlyMoves, Outside, UnderMutex, UnderGlobal, Shapes,
           Ready
<1>13. CASE Retired(t)
    BY <1>13
       DEF Retired, At, Return, Go, NoLocals, locks, Quiet, OnlyMoves, Outside, UnderMutex,
           UnderGlobal, Shapes, Locals
<1>14. CASE TrimThreadCache(t)
  <2>1. pc[t] = "start" /\ threads # 0
      BY <1>14 DEF TrimThreadCache, At, Ready, Outside, UnderGlobal
  <2>2. pc' = [pc EXCEPT ![t] = "drain"] \/ pc' = [pc EXCEPT ![t] = "idle"]
      BY <1>14 DEF TrimThreadCache, Go, Return
  <2>3. \/ me' = [me EXCEPT ![t] = NoLocals]
        \/ me' = [me EXCEPT ![t].cache = mycache[t]]
      BY <1>14 DEF TrimThreadCache, Return
  <2>4. UNCHANGED <<threads, global, mutex, lock, m>>
      BY <1>14 DEF TrimThreadCache, locks
  <2> QED
      BY <2>1, <2>2, <2>3, <2>4
         DEF Quiet, OnlyMoves, UnderMutex, UnderGlobal, Shapes, Locals, NoLocals
<1>15. CASE WalkEnds(t)
    BY <1>15
       DEF WalkEnds, Return, Go, NoLocals, Walking, At, locks, pool, Quiet, OnlyMoves,
           Outside, UnderMutex, UnderGlobal, Shapes, Locals
<1> QED  BY <1>1, <1>2, <1>3, <1>4, <1>5, <1>6, <1>7, <1>8, <1>9, <1>10, <1>11, <1>12,
             <1>13, <1>14, <1>15

\* The actions that take or release the global mutex, or take the pool's.
LEMMA MutexSteps ==
    ASSUME Inv, NEW t \in Thread
    PROVE  (\/ EnterInitMparams(t) \/ InitMparams(t) \/ EnterInitPool(t)
            \/ AllocCache(t) \/ Install(t))
           => Regular(t)
<1> USE NedPoolAssumption DEF Inv
<1>1. CASE EnterInitMparams(t)
  <2>1. OnlyMoves(t) /\ DOMAIN pc' = Thread /\ DOMAIN me' = Thread /\ DOMAIN me'[t] = Locals
      BY <1>1 DEF EnterInitMparams, Go, OnlyMoves, Shapes
  <2>2. \A i \in Id : Stays(t, i)
      BY <1>1 DEF EnterInitMparams, At, Go, Stays, In
  <2>3. Turns(t, mutex, mutex', UnderMutex) /\ Turns(t, global, global', UnderGlobal)
      BY <1>1 DEF EnterInitMparams, At, Go, Turns, UnderMutex, UnderGlobal, Shapes
  <2> QED
      BY <1>1, <2>1, <2>2, <2>3
         DEF EnterInitMparams, At, Go, pool, Regular, Shapes, Outside, UnderGlobal
<1>2. CASE InitMparams(t)
  <2>1. OnlyMoves(t) /\ DOMAIN pc' = Thread /\ DOMAIN me' = Thread /\ DOMAIN me'[t] = Locals
      BY <1>2 DEF InitMparams, Go, OnlyMoves, Shapes
  <2>2. \A i \in Id : Stays(t, i)
      BY <1>2 DEF InitMparams, At, Go, Ensured, Stays, In
  <2>3. Turns(t, mutex, mutex', UnderMutex) /\ Turns(t, global, global', UnderGlobal)
      BY <1>2 DEF InitMparams, At, Go, Ensured, Turns, UnderMutex, UnderGlobal, Shapes
  <2> QED
      BY <1>2, <2>1, <2>2, <2>3
         DEF InitMparams, At, Go, Ensured, pool, Regular, Shapes, Outside
<1>3. CASE EnterInitPool(t)
  <2>1. OnlyMoves(t) /\ DOMAIN pc' = Thread /\ DOMAIN me' = Thread /\ DOMAIN me'[t] = Locals
      BY <1>3 DEF EnterInitPool, Go, OnlyMoves, Shapes
  <2>2. \A i \in Id : Stays(t, i)
      BY <1>3 DEF EnterInitPool, At, Go, Stays, In
  <2>3. Turns(t, mutex, mutex', UnderMutex) /\ Turns(t, global, global', UnderGlobal)
      BY <1>3 DEF EnterInitPool, At, Go, Turns, UnderMutex, UnderGlobal, Shapes
  <2> QED
      BY <1>3, <2>1, <2>2, <2>3
         DEF EnterInitPool, At, Go, pool, Regular, Shapes, Outside, UnderGlobal
<1>4. CASE AllocCache(t)
  <2>1. OnlyMoves(t) /\ DOMAIN pc' = Thread /\ DOMAIN me' = Thread /\ DOMAIN me'[t] = Locals
      BY <1>4 DEF AllocCache, Go, OnlyMoves, Shapes
  <2>2. pc[t] = "alloc" /\ pc'[t] = "alloc_lock" /\ me'[t].op \in {"malloc", "free"}
      BY <1>4 DEF AllocCache, At, Go, Shapes, AllocOp
  <2>3. /\ Acquirable(mutex, t) /\ mutex' = Acquired(mutex, t)
        /\ UNCHANGED <<threads, m, global, lock>>
      BY <1>4 DEF AllocCache, pool
  <2>4. \A i \in Id : Stays(t, i)
      BY <2>2, <2>3 DEF Stays, In
  <2> QED
      BY <2>1, <2>2, <2>3, <2>4
         DEF Regular, Shapes, Ready, Outside, Turns, UnderMutex, UnderGlobal
<1>5. CASE Install(t)
  <2>1. OnlyMoves(t) /\ DOMAIN pc' = Thread /\ DOMAIN me' = Thread /\ DOMAIN me'[t] = Locals
      BY <1>5 DEF Install, Go, OnlyMoves, Shapes
  <2>2. pc[t] = "install" /\ pc'[t] = "install_lock" /\ threads # 0
      BY <1>5 DEF Install, At, Go, Shapes, Ready, Outside, UnderGlobal
  <2>3. DOMAIN m' = Index /\ m'[0] = m[0]
      BY <1>5, <2>2 DEF Install, Places, Shapes, Ready
  <2>4. /\ Acquirable(mutex, t) /\ mutex' = Acquired(mutex, t)
        /\ UNCHANGED <<threads, global, lock>>
      BY <1>5 DEF Install
  <2>5. \A i \in Id : Stays(t, i)
      BY <2>2, <2>4 DEF Stays, In
  <2> QED
      BY <2>1, <2>2, <2>3, <2>4, <2>5 DEF Regular, Shapes, Turns, UnderMutex, UnderGlobal
<1> QED  BY <1>1, <1>2, <1>3, <1>4, <1>5

\* The actions that take or release an mspace's lock, and perhaps the pool's mutex.
LEMMA MspaceSteps ==
    ASSUME Inv, NEW t \in Thread
    PROVE  (\/ AllocCacheLocks(t) \/ CacheMade(t) \/ CacheFailed(t) \/ GetMSpace(t)
            \/ ScanOn(t) \/ Rescan(t) \/ InstallLocks(t) \/ WaitForLast(t)
            \/ EnterMalloc(t) \/ LeaveMalloc(t) \/ EnterFree(t) \/ LeaveFree(t)
            \/ WalkEnters(t) \/ WalkLeaves(t))
           => Regular(t)
<1> USE NedPoolAssumption DEF Inv
<1>1. CASE AllocCacheLocks(t)
  <2>1. \A i \in Id : Stays(t, i) \/ Enters(t, i) \/ Leaves(t, i)
      BY <1>1 DEF AllocCacheLocks, At, Go, pool, Shapes, In, Depth, Stays, Enters
  <2>2. lock' \in [Id -> Lock]
      BY <1>1, LockMoves DEF AllocCacheLocks, Shapes
  <2> QED
      BY <1>1, <2>1, <2>2
         DEF AllocCacheLocks, At, Go, pool, Regular, OnlyMoves, Turns, Outside, UnderMutex,
             UnderGlobal, Shapes, Ready, AllocOp
<1>2. CASE CacheMade(t)
  <2>1. OnlyMoves(t) /\ m' = m /\ lock' = [lock EXCEPT ![m[0]] = Released(@)]
      BY <1>2 DEF CacheMade, AfterCache, Go, Shapes, OnlyMoves
  <2>2. pc[t] = "alloc_in" /\ pc'[t] \in {"malloc", "free"}
      BY <1>2 DEF CacheMade, AfterCache, At, Go, Shapes, AllocOp
  <2>3. m[0] \in Id /\ lock[m[0]].c = 1
      BY <2>2 DEF Ready, Outside, UnderGlobal, MspaceLocks, In, Depth
  <2>4. Leaves(t, m[0])
      BY <2>1, <2>2, <2>3 DEF Shapes, Leaves, In, Released
  <2>5. ASSUME NEW i \in Id, i # m[0] PROVE Stays(t, i)
      BY <2>1, <2>2, <2>5 DEF Stays, In
  <2>6. DOMAIN pc' = Thread /\ DOMAIN me' = Thread /\ DOMAIN me'[t] = Locals
      BY <1>2 DEF CacheMade, AfterCache, Go, Shapes
  <2>7. threads' = threads /\ global' = global /\ mutex' = Released(mutex)
      BY <1>2 DEF CacheMade
  <2>8. lock' \in [Id -> Lock]
      BY <2>1, LockMoves DEF Shapes
  <2> QED
      BY <2>1, <2>2, <2>4, <2>5, <2>6, <2>7, <2>8
         DEF Regular, Shapes, Ready, Outside, Turns, UnderMutex, UnderGlobal
<1>3. CASE CacheFailed(t)
  <2>1. OnlyMoves(t) /\ m' = m /\ lock' = [lock EXCEPT ![m[0]] = Released(@)]
      BY <1>3 DEF CacheFailed, AfterCache, Go, Shapes, OnlyMoves
  <2>2. pc[t] = "alloc_in" /\ pc'[t] \in {"malloc", "free"}
      BY <1>3 DEF CacheFailed, AfterCache, At, Go, Shapes, AllocOp
  <2>3. m[0] \in Id /\ lock[m[0]].c = 1
      BY <2>2 DEF Ready, Outside, UnderGlobal, MspaceLocks, In, Depth
  <2>4. Leaves(t, m[0])
      BY <2>1, <2>2, <2>3 DEF Shapes, Leaves, In, Released
  <2>5. ASSUME NEW i \in Id, i # m[0] PROVE Stays(t, i)
      BY <2>1, <2>2, <2>5 DEF Stays, In
  <2>6. DOMAIN pc' = Thread /\ DOMAIN me' = Thread /\ DOMAIN me'[t] = Locals
      BY <1>3 DEF CacheFailed, AfterCache, Go, Shapes
  <2>7. threads' = threads /\ global' = global /\ mutex' = Released(mutex)
      BY <1>3 DEF CacheFailed
  <2>8. lock' \in [Id -> Lock]
      BY <2>1, LockMoves DEF Shapes
  <2> QED
      BY <2>1, <2>2, <2>4, <2>5, <2>6, <2>7, <2>8
         DEF Regular, Shapes, Ready, Outside, Turns, UnderMutex, UnderGlobal
<1>4. CASE GetMSpace(t)
  <2>1. \A i \in Id : Stays(t, i) \/ Enters(t, i) \/ Leaves(t, i)
      BY <1>4 DEF GetMSpace, At, Go, TryLock, Shapes, Locals, In, Depth, Stays, Enters
  <2>2. lock' \in [Id -> Lock]
      BY <1>4, LockMoves, TryLockMoves DEF GetMSpace, Shapes
  <2>3. OnlyMoves(t) /\ DOMAIN pc' = Thread /\ DOMAIN me' = Thread /\ DOMAIN me'[t] = Locals
      BY <1>4 DEF GetMSpace, Go, Shapes, OnlyMoves
  <2>4. pc[t] = "malloc" /\ pc'[t] \in {"enter", "scan"}
      BY <1>4 DEF GetMSpace, At, Go, Shapes
  <2>5. UNCHANGED <<threads, m, global, mutex>>
      BY <1>4 DEF GetMSpace, pool
  <2> QED
      BY <2>1, <2>2, <2>3, <2>4, <2>5
         DEF Regular, Shapes, Ready, Outside, Turns, UnderMutex, UnderGlobal
<1>5. CASE ScanOn(t)
  <2>1. \A i \in Id : Stays(t, i) \/ Enters(t, i)
      BY <1>5 DEF ScanOn, At, Go, TryLock, Found, Shapes, Locals, In, Depth, Stays, Enters
  <2>2. lock' \in [Id -> Lock]
      BY <1>5, TryLockMoves DEF ScanOn, Shapes
  <2>3. OnlyMoves(t) /\ DOMAIN pc' = Thread /\ DOMAIN me' = Thread /\ DOMAIN me'[t] = Locals
      BY <1>5 DEF ScanOn, Found, Go, Shapes, OnlyMoves
  <2>4. pc[t] = "scan" /\ pc'[t] \in {"scan", "rescan", "enter"}
      BY <1>5 DEF ScanOn, At, Found, Go, Shapes
  <2>5. UNCHANGED <<threads, m, global, mutex>>
      BY <1>5 DEF ScanOn
  <2> QED
      BY <2>1, <2>2, <2>3, <2>4, <2>5
         DEF Regular, Shapes, Ready, Outside, Turns, UnderMutex, UnderGlobal
<1>6. CASE Rescan(t)
  <2>1. \A i \in Id : Stays(t, i) \/ Enters(t, i)
      BY <1>6 DEF Rescan, At, Go, TryLock, Found, Shapes, Locals, In, Depth, Stays, Enters
  <2>2. lock' \in [Id -> Lock]
      BY <1>6, TryLockMoves DEF Rescan, Shapes
  <2>3. OnlyMoves(t) /\ DOMAIN pc' = Thread /\ DOMAIN me' = Thread /\ DOMAIN me'[t] = Locals
      BY <1>6 DEF Rescan, Found, Go, Shapes, OnlyMoves
  <2>4. pc[t] = "rescan" /\ pc'[t] \in {"rescan", "enter", "create", "wait"}
      BY <1>6 DEF Rescan, At, Found, Go, Shapes
  <2>5. UNCHANGED <<threads, m, global, mutex>>
      BY <1>6 DEF Rescan
  <2> QED
      BY <2>1, <2>2, <2>3, <2>4, <2>5
         DEF Regular, Shapes, Ready, Outside, Turns, UnderMutex, UnderGlobal
<1>7. CASE InstallLocks(t)
  <2>1. \A i \in Id : Stays(t, i) \/ Enters(t, i) \/ Leaves(t, i)
      BY <1>7 DEF InstallLocks, At, Found, Go, Shapes, In, Depth, Stays, Enters
  <2>2. lock' \in [Id -> Lock]
      BY <1>7, LockMoves DEF InstallLocks, Shapes
  <2> QED
      BY <1>7, <2>1, <2>2
         DEF InstallLocks, At, Found, Go, Regular, OnlyMoves, Turns, Outside, UnderMutex,
             UnderGlobal, Shapes, Ready
<1>8. CASE WaitForLast(t)
  <2>1. \A i \in Id : Stays(t, i) \/ Enters(t, i) \/ Leaves(t, i)
      BY <1>8 DEF WaitForLast, At, Go, Shapes, In, Depth, Stays, Enters
  <2>2. lock' \in [Id -> Lock]
      BY <1>8, LockMoves DEF WaitForLast, Shapes
  <2> QED
      BY <1>8, <2>1, <2>2
         DEF WaitForLast, At, Go, pool, Regular, OnlyMoves, Turns, Outside, UnderMutex,
             UnderGlobal, Shapes, Ready
<1>9. CASE EnterMalloc(t)
  <2>1. \A i \in Id : Stays(t, i) \/ Enters(t, i) \/ Leaves(t, i)
      BY <1>9 DEF EnterMalloc, At, Go, Shapes, In, Depth, Stays, Enters
  <2>2. lock' \in [Id -> Lock]
      BY <1>9, LockMoves DEF EnterMalloc, Shapes
  <2> QED
      BY <1>9, <2>1, <2>2
         DEF EnterMalloc, At, Go, pool, Regular, OnlyMoves, Turns, Outside, UnderMutex,
             UnderGlobal, Shapes, Ready
<1>10. CASE LeaveMalloc(t)
  <2>a. /\ pc[t] = "inside" /\ pc'[t] = "idle"
        /\ lock' = [lock EXCEPT ![me[t].m] = Released(Released(@))]
      BY <1>10 DEF LeaveMalloc, At, Return, Go, Shapes
  <2>1. ASSUME NEW i \in Id PROVE Stays(t, i) \/ Leaves(t, i)
    <3>1. CASE i = me[t].m
      <4>1. In(t, i) /\ ~ In(t, i)' /\ lock[i].c = 2
          BY <2>a, <3>1 DEF In, MspaceLocks, Depth
      <4> QED  BY <2>a, <3>1, <4>1 DEF Released, Shapes, Leaves
    <3>2. CASE i # me[t].m
        BY <2>a, <3>2 DEF Stays, In, Shapes
    <3> QED  BY <3>1, <3>2
  <2>2. lock' \in [Id -> Lock]
      BY <1>10, LockMoves DEF LeaveMalloc, Shapes
  <2> QED
      BY <1>10, <2>1, <2>2
         DEF LeaveMalloc, At, Return, Go, NoLocals, Regular, OnlyMoves, Turns, Outside,
             UnderMutex, UnderGlobal, Shapes, Ready, Locals
<1>11. CASE EnterFree(t)
  <2>1. \A i \in Id : Stays(t, i) \/ Enters(t, i) \/ Leaves(t, i)
      BY <1>11 DEF EnterFree, Go, Shapes, In, Depth, Stays, Enters
  <2>2. lock' \in [Id -> Lock]
      BY <1>11, LockMoves DEF EnterFree, Shapes
  <2> QED
      BY <1>11, <2>1, <2>2
         DEF EnterFree, Go, pool, Regular, OnlyMoves, Turns, Outside, UnderMutex, UnderGlobal,
             Shapes, Ready
<1>12. CASE LeaveFree(t)
  <2>1. \A i \in Id : Stays(t, i) \/ Enters(t, i) \/ Leaves(t, i)
      BY <1>12
         DEF LeaveFree, At, Go, Released, Shapes, MspaceLocks, In, Depth, Stays, Leaves
  <2>2. lock' \in [Id -> Lock]
      BY <1>12, LockMoves DEF LeaveFree, Shapes
  <2> QED
      BY <1>12, <2>1, <2>2
         DEF LeaveFree, At, Go, Regular, OnlyMoves, Turns, Outside, UnderMutex, UnderGlobal,
             Shapes, Ready
<1>13. CASE WalkEnters(t)
  <2>1. \A i \in Id : Stays(t, i) \/ Enters(t, i) \/ Leaves(t, i)
      BY <1>13 DEF WalkEnters, Go, Walking, At, Shapes, In, Depth, Stays, Enters
  <2>2. lock' \in [Id -> Lock]
      BY <1>13, LockMoves DEF WalkEnters, Shapes
  <2> QED
      BY <1>13, <2>1, <2>2
         DEF WalkEnters, Go, Walking, At, pool, Regular, OnlyMoves, Turns, Outside,
             UnderMutex, UnderGlobal, Shapes, Ready
<1>14. CASE WalkLeaves(t)
  <2>1. \A i \in Id : Stays(t, i) \/ Enters(t, i) \/ Leaves(t, i)
      BY <1>14
         DEF WalkLeaves, At, Go, Released, Shapes, MspaceLocks, In, Depth, Stays, Leaves
  <2>2. lock' \in [Id -> Lock]
      BY <1>14, LockMoves DEF WalkLeaves, Shapes
  <2> QED
      BY <1>14, <2>1, <2>2
         DEF WalkLeaves, At, Go, pool, Regular, OnlyMoves, Turns, Outside, UnderMutex,
             UnderGlobal, Shapes, Ready
<1> QED  BY <1>1, <1>2, <1>3, <1>4, <1>5, <1>6, <1>7, <1>8, <1>9, <1>10, <1>11, <1>12,
             <1>13, <1>14

\* The pool's first mspace appears while nobody is in one.
LEMMA InitPoolInv == ASSUME Inv, NEW t \in Thread, InitPool(t) PROVE Inv'
<1> USE NedPoolAssumption DEF Inv
<1>1. /\ OnlyMoves(t) /\ DOMAIN pc' = Thread /\ pc[t] = "initpool" /\ pc'[t] = "start"
      /\ me' = me /\ lock' = lock /\ mutex' = mutex /\ global' = Released(global)
    BY DEF InitPool, At, Go, OnlyMoves, Shapes
<1>2. threads' # 0 /\ threads' \in {0, MaxThreads} /\ m'[0] \in Id /\ DOMAIN m' = Index
  <2>1. CASE threads # 0
      BY <2>1 DEF InitPool, Ready, Shapes
  <2>2. CASE threads = 0
    <3>1. Fresh \in Id
        BY <2>2 DEF Fresh, Exists, Ready
    <3> QED  BY <2>2, <3>1 DEF InitPool, Shapes, Index
  <2> QED  BY <2>1, <2>2
<1>3. Shapes'
    BY <1>1, <1>2, LockMoves DEF Shapes
<1>4. Ready'
    BY <1>2 DEF Ready
<1>5. AllocOp'
    BY <1>1 DEF AllocOp, OnlyMoves
<1>6. MspaceLocks'
  <2>1. m'[0] = m[0] \/ \A u \in Thread : pc[u] # "alloc_in"
      BY DEF InitPool, Ready, Outside, UnderGlobal
  <2>2. \A i \in Id : Stays(t, i)
      BY <1>1 DEF Stays, In
  <2> QED  BY <1>1, <2>1, <2>2, MspaceStep
<1>7. MutexHeld'
    BY <1>1
     DEF MutexHeld, Shapes, Lock, OnlyMoves, UnderMutex
<1>8. GlobalHeld'
    BY <1>1 DEF GlobalHeld, OnlyMoves, UnderGlobal, Released, Open
<1> QED  BY <1>3, <1>4, <1>5, <1>6, <1>7, <1>8

\* abort() is called before any mspace or the pool's mutex was locked.
LEMMA InitPoolAbortsInv == ASSUME Inv, NEW t \in Thread, InitPoolAborts(t) PROVE Inv'
<1> USE NedPoolAssumption DEF Inv
<1>1. /\ threads = 0 /\ pc' = [u \in Thread |-> "aborted"]
      /\ UNCHANGED <<threads, m, used, held, me, lock, mutex, global>>
    BY DEF InitPoolAborts, pool, locks
<1>2. \A i \in Id : lock[i] = Open
  <2>1. \A u \in Thread, i \in Id : ~ In(u, i)
      BY <1>1 DEF Ready, Outside, UnderGlobal, In
  <2> QED  BY <2>1 DEF MspaceLocks
<1>3. mutex = Open
    BY <1>1 DEF Shapes, Ready, Outside, UnderMutex, UnderGlobal, MutexHeld, Lock
<1>4. Shapes' /\ Ready' /\ AllocOp'
    BY <1>1 DEF Shapes, Ready, Outside, AllocOp
<1>5. MspaceLocks'
    BY <1>1, <1>2 DEF MspaceLocks, In
<1>6. MutexHeld' /\ GlobalHeld'
    BY <1>1, <1>3 DEF MutexHeld, GlobalHeld, UnderMutex, Open
<1> QED  BY <1>4, <1>5, <1>6

-----------------------------------------------------------------------------
\* Nobody is at a place under a lock, and every lock is open.
LEMMA InitInv == Init => Inv
<1> SUFFICES ASSUME Init PROVE Inv
    OBVIOUS
<1> USE NedPoolAssumption
<1>1. \A t \in Thread, i \in Id : ~ In(t, i)
    BY
     DEF Init, In
<1>2. Shapes
    BY DEF Init, Shapes, NoLocals, Locals, Open, Lock
<1>3. Ready /\ AllocOp /\ MutexHeld /\ GlobalHeld
    BY DEF Init, Ready, Outside, NoBlocks, AllocOp, MutexHeld, GlobalHeld, UnderMutex,
           UnderGlobal, Open
<1>4. MspaceLocks
    BY <1>1 DEF Init, MspaceLocks
<1> QED  BY <1>2, <1>3, <1>4 DEF Inv

\* Every step keeps the invariant.
LEMMA NextInv == Inv /\ [Next]_vars => Inv'
<1>1. ASSUME Inv, NEW t \in Thread, Begin(t) \/ Step(t) PROVE Inv'
  <2>1. CASE InitPool(t)
      BY <1>1, <2>1, InitPoolInv
  <2>2. CASE InitPoolAborts(t)
      BY <1>1, <2>2, InitPoolAbortsInv
  <2>3. CASE ~ InitPool(t) /\ ~ InitPoolAborts(t)
    <3>1. Regular(t)
        BY <1>1, <2>3, QuietSteps, QuietRegular, MutexSteps, MspaceSteps
         DEF Step
    <3> QED  BY <1>1, <3>1, RegularInv
  <2> QED  BY <2>1, <2>2, <2>3
<1>2. ASSUME Inv, UNCHANGED vars PROVE Inv'
    BY <1>2
       DEF vars, pool, locks, Inv, Shapes, Ready, AllocOp, MspaceLocks, In, Depth,
           MutexHeld, GlobalHeld
<1> QED  BY <1>1, <1>2 DEF Next

\* The invariant implies LocksHeld: who is at a place under a lock is one thread, its owner.
LEMMA InvLocksHeld == Inv => LocksHeld
<1> SUFFICES ASSUME Inv PROVE LocksHeld
    OBVIOUS
<1> USE NedPoolAssumption DEF Inv, Shapes
<1>1. ASSUME NEW l \in Lock, NEW in \in SUBSET Thread,
             l = Open \/ l.owner \in in,
             \A t \in in : l.owner = t /\ l.c = Depth(t)
      PROVE  HeldBy(l, in)
  <2>1. CASE l.owner \in in
    <3>1. PICK t \in in : l.owner = t
        BY <2>1
    <3>2. in = {t} /\ l.c = Depth(t)
        BY <1>1, <3>1
    <3>3. l = [owner |-> t, c |-> Depth(t)]
        BY <3>1, <3>2 DEF Lock
    <3> QED  BY <3>2, <3>3 DEF HeldBy
  <2>2. CASE l.owner \notin in
    <3>1. l = Open
        BY <1>1, <2>2
    <3>2. in = {}
        BY <1>1, <2>2
    <3> QED  BY <3>1, <3>2 DEF HeldBy
  <2> QED  BY <2>1, <2>2
<1>2. ASSUME NEW i \in Id PROVE HeldBy(lock[i], {t \in Thread : i \in Inside(t)})
  <2> DEFINE in == {t \in Thread : i \in Inside(t)}
  <2>1. in \in SUBSET Thread /\ \A t \in Thread : t \in in <=> In(t, i)
      BY DEF Inside, In
  <2>2. lock[i] \in Lock
      BY DEF Shapes
  <2>3. lock[i] = Open \/ \E t \in Thread : lock[i].owner = t /\ In(t, i)
      BY DEF MspaceLocks
  <2>4. \A t \in in : lock[i].owner = t /\ lock[i].c = Depth(t)
      BY <2>1 DEF MspaceLocks
  <2>5. lock[i] = Open \/ lock[i].owner \in in
      BY <2>1, <2>3
  <2> HIDE DEF in
  <2>6. HeldBy(lock[i], in)
      BY <1>1, <2>1, <2>2, <2>4, <2>5
  <2> QED  BY <2>6 DEF in
<1>3. HeldBy(mutex, {t \in Thread : pc[t] \in UnderMutex})
    BY <1>1 DEF MutexHeld, UnderMutex, Depth, Lock
<1>4. \/ HeldBy(global, {t \in Thread : pc[t] \in UnderGlobal})
      \/ \A t \in Thread : pc[t] = "aborted"
    BY <1>1 DEF GlobalHeld, UnderGlobal, Depth, Lock
<1> QED  BY <1>2, <1>3, <1>4 DEF LocksHeld, UnderMutex, UnderGlobal

\* The locks of a pool exclude, whatever the number of threads, mspaces and caches: a
\* thread that works in an mspace, changes the pool's lists or initialises the library
\* is alone there and holds the lock as often as it will release it; a lock nobody is
\* to release is open (malloc.c.h's recursive locks as nedmalloc.c uses them).
THEOREM LocksAreHeld == Spec => []LocksHeld
BY InitInv, NextInv, InvLocksHeld, PTL DEF Spec

-----------------------------------------------------------------------------
(***************************************************************************)
(* MspacesListed, CacheIsOwn and SettingsStay (NedPool), for any number of *)
(* threads, mspaces and caches: what the pool's lists and the number each  *)
(* thread keeps say of one another.                                        *)
(*                                                                         *)
(* To what Inv says of the locks the invariant Inv2 adds three             *)
(* parts.  ListInv is about the list of mspaces and those not yet in it.   *)
(* Settled says what each thread knows at each place: where it is to look  *)
(* there is an mspace, and a search has passed only places in use, which   *)
(* stay in use, since the list never shrinks.  CacheLocal and CacheInv tie *)
(* a cache to the one thread that may touch it, from both ends: a cache    *)
(* that is being turned off is no longer named by its thread's number, but *)
(* is in that thread's hands until it is freed.                            *)
(*                                                                         *)
(* No step touches a cache but the moving thread's own (SoleUser), so what *)
(* other threads know lasts; each action is then a matter of its thread.   *)
(***************************************************************************)

Cache == 1..MaxCaches
CacheRec == [threadid : Nat, mymspace : Int, blocks : [Id -> Int]]

\* Places where a thread has no cache in hand; where it makes one; where it
\* looks for an mspace or works in one; and where it gives blocks back.
Early == {"idle", "ensure", "mparams", "mparams_in", "change", "init", "initpool", "aborted",
          "start", "alloc", "walk", "walk_in"}
Making == {"alloc_lock", "alloc_in"}
Searching == {"scan", "rescan", "create", "install"}
Mallocing == {"malloc", "install_lock", "wait", "enter", "inside"} \union Searching
Freeing == {"free_lock", "free_in", "retire"}
Place == Early \union Making \union Mallocing \union Freeing \union {"free", "drain"}

Listed(i) == i \in Index /\ m[i] # Null
Listing == {m[i] : i \in Index} \ {Null}
InHand == {t \in Thread : pc[t] = "install"}
New == {me[t].m : t \in InHand}

ListInv ==
    /\ m \in [Index -> Id \union {Null}]
    /\ threads = 0 => \A i \in Index : m[i] = Null
    /\ m[MaxThreads] = Null
    /\ \A i, j \in Index : i < j /\ m[j] # Null => m[i] # Null
    /\ \A i, j \in Index : m[i] # Null /\ m[i] = m[j] => i = j
    /\ \A t \in InHand : me[t].m \in Id \ Listing
    /\ \A t, u \in InHand : me[t].m = me[u].m => t = u
    /\ IsFiniteSet(Exists) /\ Exists = Listing \union New

Settled(t) ==
    /\ pc[t] \in Place
    /\ me[t].ms \in Index /\ me[t].n \in Index /\ me[t].end \in Index
    /\ me[t].cache \in {0} \union Cache /\ me[t].retiring \in BOOLEAN
    /\ pc[t] \in Early => me[t].cache = 0
    /\ pc[t] \in Mallocing => me[t].op = "malloc"
    /\ pc[t] = "free" => me[t].op = "free"
    /\ pc[t] \in {"drain"} \union Freeing => me[t].op \in {"free", "trim", "disable"}
    /\ me[t].retiring => pc[t] \in Freeing /\ me[t].op = "disable" /\ me[t].cache # 0
    /\ pc[t] = "retire" => me[t].retiring
    /\ pc[t] \in {"drain"} \union Freeing /\ me[t].op = "disable" => me[t].cache # 0
    /\ pc[t] \in {"malloc", "wait"} \union Searching => m[me[t].ms] # Null
    /\ pc[t] = "scan" => me[t].end = me[t].n
    /\ pc[t] \in Searching => \A i \in 0..(me[t].end - 1) : m[i] # Null
    /\ pc[t] = "install_lock" => m[me[t].end] # Null
    /\ pc[t] = "walk_in" => m[me[t].n] # Null

Owns(c, t) == c \in Cache /\ caches[c] # Null /\ caches[c].threadid = t

CacheLocal(t) ==
    /\ mycache[t] \in Int
    /\ mycache[t] > 0 => Owns(mycache[t], t)
    /\ mycache[t] < 0 => Listed(MspaceOf(mycache[t]))
    /\ t \in off => mycache[t] < 0
    /\ pc[t] \in Making \union {"alloc"} => mycache[t] = 0
    /\ pc[t] \in Mallocing /\ me[t].cache = 0 => mycache[t] < 0
    /\ pc[t] \in Making => me[t].cache # 0 /\ caches[me[t].cache] = Null
    /\ pc[t] \notin Making /\ me[t].cache # 0 =>
         /\ Owns(me[t].cache, IF me[t].retiring THEN 0 ELSE t)
         /\ IF me[t].op = "disable" THEN pc[t] \in {"drain"} \union Freeing /\ mycache[t] <= 0
            ELSE mycache[t] = me[t].cache

CacheInv(c) ==
    \/ caches[c] = Null
    \/ caches[c].threadid = 0 /\ \E t \in Thread : me[t].retiring /\ me[t].cache = c
    \/ /\ caches[c].threadid \in Thread /\ Listed(caches[c].mymspace)
       /\ \/ mycache[caches[c].threadid] = c
          \/ me[caches[c].threadid].cache = c

CacheTypes ==
    /\ caches \in [Cache -> CacheRec \union {Null}]
    /\ DOMAIN mycache = Thread /\ off \subseteq Thread

Inv2 ==
    /\ CacheTypes
    /\ ListInv
    /\ \A t \in Thread : Settled(t) /\ CacheLocal(t)
    /\ \A t, u \in Thread :
         me[t].retiring /\ me[u].retiring /\ me[t].cache = me[u].cache => t = u
    /\ \A c \in Cache : CacheInv(c)

-----------------------------------------------------------------------------
\* The cache a thread has in hand is in no other's, and no other's number names it.
LEMMA SoleUser ==
    ASSUME Inv, Inv2, NEW t \in Thread, me[t].cache # 0, NEW u \in Thread \ {t}
    PROVE  me[u].cache # me[t].cache /\ mycache[u] # me[t].cache
<1> DEFINE c == me[t].cache
<1> USE NedPoolAssumption DEF Inv2
<1>1. c \in Cache /\ c > 0 /\ 0 \notin Thread
    BY DEF Settled, Cache
<1>2. mycache[u] = c => Owns(c, u)
    BY <1>1 DEF CacheLocal
<1>3. me[u].cache = c /\ pc[u] \notin Making =>
        Owns(c, IF me[u].retiring THEN 0 ELSE u)
    BY <1>1 DEF CacheLocal
<1>4. CASE pc[t] \notin Making
  <2>1. Owns(c, IF me[t].retiring THEN 0 ELSE t)
      BY <1>1, <1>4 DEF CacheLocal
  <2>2. mycache[u] # c
      BY <1>1, <1>2, <2>1 DEF Owns
  <2>3. CASE pc[u] \in Making
      BY <2>1, <2>2, <2>3 DEF Owns, CacheLocal
  <2>4. CASE pc[u] \notin Making
      BY <1>1, <1>3, <2>1, <2>2, <2>4 DEF Owns
  <2> QED  BY <2>3, <2>4
<1>5. CASE pc[t] \in Making
  <2>1. caches[c] = Null
      BY <1>5 DEF CacheLocal
  <2>2. pc[u] \notin Making
      BY <1>5 DEF Inv, MutexHeld, UnderMutex, Making
  <2> QED  BY <1>2, <1>3, <2>1, <2>2 DEF Owns
<1> QED  BY <1>4, <1>5

\* What a thread knows of the list lasts while the list only grows, and what it
\* knows of caches while only another thread's own changes.
LEMMA OthersKeep ==
    ASSUME Inv, Inv2, NEW t \in Thread, NEW u \in Thread \ {t},
           pc'[u] = pc[u], me'[u] = me[u], mycache'[u] = mycache[u], u \in off' => u \in off,
           \A i \in Index : m[i] # Null => m'[i] = m[i],
           \A c \in Cache : caches'[c] = caches[c] \/ c = me[t].cache
    PROVE  Settled(u)' /\ CacheLocal(u)'
<1> USE DEF Inv2
<1>1. Settled(u) /\ CacheLocal(u) /\ me[u].cache \in {0} \union Cache
    BY DEF Settled
<1>2. Settled(u)'
  <2>1. \A i \in Index : m[i] # Null => m'[i] # Null
      OBVIOUS
  <2>2. pc[u] \in Searching => \A i \in 0..(me[u].end - 1) : i \in Index
      BY <1>1, NedPoolAssumption DEF Settled, Index
  <2> QED  BY <1>1, <2>1, <2>2 DEF Settled, Index
<1>3. me[u].cache # 0 => caches'[me[u].cache] = caches[me[u].cache]
    BY <1>1, SoleUser DEF Cache
<1>4. mycache[u] > 0 => caches'[mycache[u]] = caches[mycache[u]]
    BY <1>1, SoleUser DEF CacheLocal, Owns
<1>5. CacheLocal(u)'
    BY <1>1, <1>3, <1>4 DEF CacheLocal, Owns, Listed, MspaceOf, Settled
<1> QED  BY <1>2, <1>5

\* A step of one thread keeps Inv2 when what it does to the list, to the thread
\* and to the caches that the thread has or names is in order.
LEMMA MoveInv2 ==
    ASSUME Inv, Inv2, NEW t \in Thread, OnlyMoves(t),
           \A u \in Thread \ {t} : mycache'[u] = mycache[u] /\ (u \in off' => u \in off),
           \A i \in Index : m[i] # Null => m'[i] = m[i],
           \A c \in Cache : caches'[c] = caches[c] \/ c = me[t].cache,
           CacheTypes', ListInv', Settled(t)', CacheLocal(t)',
           me'[t].retiring => me'[t].cache = me[t].cache,
           \A c \in Cache : c = me[t].cache \/ c = mycache[t] => CacheInv(c)'
    PROVE  Inv2'
<1> USE NedPoolAssumption DEF Inv2
<1>1. \A u \in Thread : Settled(u)' /\ CacheLocal(u)'
    BY OthersKeep DEF OnlyMoves
<1>2. ASSUME NEW u \in Thread, NEW v \in Thread,
             me'[u].retiring /\ me'[v].retiring /\ me'[u].cache = me'[v].cache
      PROVE  u = v
  <2>1. \A x \in Thread \ {t} : me'[x] = me[x]
      BY DEF OnlyMoves
  <2>2. me'[t].retiring => me'[t].cache = me[t].cache /\ me[t].cache # 0
      BY <1>1 DEF Settled
  <2> QED  BY <1>2, <2>1, <2>2, SoleUser
<1>3. ASSUME NEW c \in Cache, c # me[t].cache, c # mycache[t] PROVE CacheInv(c)'
  <2>1. caches'[c] = caches[c] /\ CacheInv(c)
      BY <1>3
  <2>2. CASE caches[c] = Null
      BY <2>1, <2>2 DEF CacheInv
  <2>3. CASE caches[c].threadid = 0 /\ \E u \in Thread : me[u].retiring /\ me[u].cache = c
    <3>1. PICK u \in Thread : me[u].retiring /\ me[u].cache = c
        BY <2>3
    <3>2. me'[u] = me[u]
        BY <1>3, <3>1 DEF OnlyMoves
    <3> QED  BY <2>1, <2>3, <3>1, <3>2 DEF CacheInv
  <2>4. CASE /\ caches[c].threadid \in Thread /\ Listed(caches[c].mymspace)
             /\ \/ mycache[caches[c].threadid] = c
                \/ me[caches[c].threadid].cache = c
    <3> DEFINE u == caches[c].threadid
    <3>1. u \in Thread \ {t}
        BY <1>3, <2>4
    <3>2. mycache'[u] = mycache[u] /\ me'[u] = me[u]
        BY <3>1 DEF OnlyMoves
    <3> QED  BY <2>1, <2>4, <3>2 DEF CacheInv, Listed
  <2> QED  BY <2>1, <2>2, <2>3, <2>4 DEF CacheInv
<1> QED  BY <1>1, <1>2, <1>3

\* The list of mspaces, and those not yet in it, while nobody makes one.
LEMMA ListKept ==
    ASSUME Inv, ListInv, NEW t \in Thread, OnlyMoves(t), UNCHANGED <<threads, m>>,
           Exists' = Exists, "install" \notin {pc[t], pc'[t]}
    PROVE  ListInv'
<1>1. InHand' = InHand /\ \A u \in InHand : me'[u] = me[u]
    BY DEF InHand, OnlyMoves
<1>2. Listing' = Listing /\ New' = New
    BY <1>1 DEF Listing, New
<1> QED  BY <1>1, <1>2 DEF ListInv

\* A step that leaves caches, numbers and the list as they are.
Plain(t) ==
    /\ OnlyMoves(t) /\ UNCHANGED <<threads, m, caches, mycache, off>> /\ Exists' = Exists
    /\ "install" \notin {pc[t], pc'[t]}
    /\ \/ me'[t].cache = me[t].cache /\ me'[t].retiring = me[t].retiring
       \/ /\ ~ me[t].retiring /\ ~ me'[t].retiring
          /\ me[t].cache # 0 => mycache[t] = me[t].cache
    /\ Settled(t)' /\ CacheLocal(t)'

LEMMA PlainInv2 == ASSUME Inv, Inv2, NEW t \in Thread, Plain(t) PROVE Inv2'
<1> USE DEF Inv2, Plain
<1>1. ListInv'
    BY ListKept
<1>2. ASSUME NEW c \in Cache, c = me[t].cache \/ c = mycache[t] PROVE CacheInv(c)'
  <2>1. CacheInv(c) /\ caches'[c] = caches[c] /\ mycache' = mycache /\ m' = m
      OBVIOUS
  <2>2. \A u \in Thread \ {t} : me'[u] = me[u]
      BY DEF OnlyMoves
  <2>3. CASE caches[c].threadid \in Thread \ {t} \/ caches[c] = Null
      BY <2>1, <2>2, <2>3 DEF CacheInv, Listed
  <2>4. CASE caches[c] # Null /\ caches[c].threadid = 0
    <3>1. PICK u \in Thread : me[u].retiring /\ me[u].cache = c
        BY <2>1, <2>4, NedPoolAssumption DEF CacheInv
    <3>2. me'[u].retiring /\ me'[u].cache = c
        BY <2>2, <3>1
    <3> QED  BY <2>1, <2>4, <3>2 DEF CacheInv
  <2>5. CASE caches[c] # Null /\ caches[c].threadid = t
    <3>1. t # 0 /\ Listed(caches[c].mymspace) /\ (mycache[t] = c \/ me[t].cache = c)
        BY <2>1, <2>5, NedPoolAssumption DEF CacheInv
    <3>2. mycache'[t] = c \/ me'[t].cache = c
        BY <3>1, NedPoolAssumption DEF Cache
    <3> QED  BY <2>1, <2>5, <3>1, <3>2 DEF CacheInv, Listed
  <2> QED  BY <2>1, <2>3, <2>4, <2>5 DEF CacheInv
<1>3. CacheTypes'
    BY DEF CacheTypes
<1> QED  BY <1>1, <1>2, <1>3, MoveInv2

\* Before a place in use all places are, and after it there is one more.
LEMMA ListPrefix ==
    ASSUME Inv2, NEW n \in Index, m[n] # Null
    PROVE  n + 1 \in Index /\ \A i \in 0..n : i \in Index /\ m[i] # Null
<1>1. n # MaxThreads
    BY DEF Inv2, ListInv
<1>2. n \in 0..MaxThreads /\ MaxThreads \in Nat
    BY NedPoolAssumption DEF Index
<1>3. n + 1 \in Index
    BY <1>1, <1>2 DEF Index
<1>4. ASSUME NEW i \in 0..n PROVE i \in Index /\ m[i] # Null
  <2>1. i \in Index
      BY <1>2 DEF Index
  <2>2. i = n \/ i < n
      BY <1>2
  <2> QED  BY <2>1, <2>2 DEF Inv2, ListInv
<1> QED  BY <1>3, <1>4

\* The actions that leave caches, numbers and the list as they are.
LEMMA PlainSteps ==
    ASSUME Inv, Inv2, NEW t \in Thread
    PROVE  (\/ Begin(t)
            \/ EnsureInitialization(t)
            \/ EnterInitMparams(t)
            \/ InitMparams(t)
            \/ ChangeMparam(t)
            \/ EnterInitPool(t)
            \/ GetThreadCache(t)
            \/ AllocCache(t)
            \/ AllocCacheLocks(t)
            \/ GetMSpace(t)
            \/ WaitForLast(t)
            \/ EnterMalloc(t)
            \/ LeaveMalloc(t)
            \/ EnterFree(t)
            \/ LeaveFree(t)
            \/ Drained(t)
            \/ WalkEnters(t)
            \/ WalkLeaves(t)
            \/ WalkEnds(t))
           => Plain(t)
<1> USE NedPoolAssumption
<1>a. Shapes /\ Ready /\ AllocOp /\ Settled(t) /\ CacheLocal(t)
    BY DEF Inv, Inv2
<1>b. m[MaxThreads] = Null /\ (threads # 0 => m[0] # Null)
    BY DEF Inv, Inv2, Ready, ListInv
<1> USE <1>a, <1>b
<1>1. CASE \/ EnsureInitialization(t) \/ EnterInitMparams(t) \/ InitMparams(t)
           \/ EnterInitPool(t) \/ AllocCacheLocks(t) \/ EnterMalloc(t) \/ EnterFree(t)
  <2>1. /\ OnlyMoves(t) /\ UNCHANGED <<threads, m, caches, mycache, off>> /\ Exists' = Exists
        /\ me' = me
      BY <1>1
         DEF EnsureInitialization, EnterInitMparams, InitMparams, EnterInitPool,
             AllocCacheLocks, EnterMalloc, EnterFree, Go, pool, process, Exists, Shapes, OnlyMoves
  <2>2. \/ pc[t] \in Outside /\ pc'[t] \in Outside
        \/ pc[t] = "alloc_lock" /\ pc'[t] = "alloc_in"
        \/ pc[t] = "enter" /\ pc'[t] = "inside"
        \/ pc[t] \in {"free", "free_lock"} /\ pc'[t] = "free_in"
      BY <1>1
         DEF EnsureInitialization, EnterInitMparams, InitMparams, EnterInitPool, Ensured, At,
             AllocCacheLocks, EnterMalloc, EnterFree, Go, Outside, UnderGlobal, Shapes
  <2>3. Settled(t)'
      BY <2>1, <2>2
         DEF Settled, Outside, UnderGlobal, Place, Early, Making, Mallocing, Searching, Freeing
  <2>4. CacheLocal(t)'
      BY <2>1, <2>2
         DEF Settled, CacheLocal, Owns, Listed, Outside, UnderGlobal, Early, Making, Mallocing,
             Searching, Freeing
  <2> QED
      BY <2>1, <2>2, <2>3, <2>4 DEF Plain, Outside, UnderGlobal
<1>2. CASE ChangeMparam(t) \/ LeaveMalloc(t) \/ Drained(t) \/ WalkEnds(t)
  <2>1. /\ UNCHANGED <<threads, m, caches, mycache, off>> /\ Exists' = Exists
        /\ Return(t) /\ pc[t] \in {"change", "inside", "drain", "walk", "start"}
        /\ pc[t] = "drain" => me[t].op # "disable"
      BY <1>2
         DEF ChangeMparam, LeaveMalloc, Drained, WalkEnds, Walking, At, pool, process, Exists
  <2>2. OnlyMoves(t) /\ pc'[t] = "idle" /\ me'[t] = NoLocals
      BY <2>1 DEF Return, Go, Shapes, OnlyMoves
  <2>3. ~ me[t].retiring /\ (me[t].cache # 0 => mycache[t] = me[t].cache)
      BY <2>1 DEF Settled, CacheLocal, Early, Making, Mallocing, Freeing
  <2>4. Settled(t)'
      BY <2>2 DEF NoLocals, Settled, Index, Place, Early, Making, Mallocing, Searching, Freeing
  <2>5. CacheLocal(t)'
      BY <2>1, <2>2
         DEF NoLocals, CacheLocal, Owns, Listed, Making, Mallocing, Searching, Freeing
  <2>6. ~ me'[t].retiring
      BY <2>2 DEF NoLocals
  <2> QED
      BY <2>1, <2>2, <2>3, <2>4, <2>5, <2>6 DEF Plain
<1>3. CASE Begin(t)
  <2>1. OnlyMoves(t) /\ UNCHANGED <<threads, m, caches, mycache, off>> /\ Exists' = Exists
      BY <1>3 DEF Begin, At, Go, pool, process, Exists, Shapes, OnlyMoves
  <2>2. Settled(t)'
    <3>1. pc[t] = "idle" /\ pc'[t] \in {"ensure", "start"}
        BY <1>3 DEF Begin, At, Go, Shapes
    <3>2. /\ me'[t].ms = me[t].ms /\ me'[t].n = me[t].n /\ me'[t].end = me[t].end
          /\ me'[t].cache = me[t].cache /\ me'[t].retiring = me[t].retiring
        BY <1>3 DEF Begin, At, Go, Shapes, Locals
    <3> QED  BY <3>1, <3>2 DEF Settled, Place, Early, Making, Mallocing, Searching, Freeing
  <2>3. CacheLocal(t)'
      BY <1>3, <2>1
         DEF Begin, At, Go, Shapes, Locals, AllocOp, Settled, CacheLocal, Owns,
             Listed, Cache, Place, Early, Making, Mallocing, Searching, Freeing
  <2>4. /\ "install" \notin {pc[t], pc'[t]}
        /\ \/ me'[t].cache = me[t].cache /\ me'[t].retiring = me[t].retiring
           \/ /\ ~ me[t].retiring /\ ~ me'[t].retiring
              /\ me[t].cache # 0 => mycache[t] = me[t].cache
      BY <1>3, <2>1
         DEF Begin, At, Go, Shapes, Locals, AllocOp, Settled, CacheLocal, Place,
             Early, Making, Mallocing, Searching, Freeing
  <2> QED
      BY <2>1, <2>2, <2>3, <2>4 DEF Plain
<1>4. CASE GetThreadCache(t)
  <2>1. OnlyMoves(t) /\ UNCHANGED <<threads, m, caches, mycache, off>> /\ Exists' = Exists
      BY <1>4 DEF GetThreadCache, At, Go, AfterCache, pool, process, Exists, Shapes, OnlyMoves
  <2>2. Settled(t)'
    <3>0. pc[t] = "start" /\ me[t].op \in {"malloc", "free"} /\ threads # 0
        BY <1>4 DEF GetThreadCache, At, Ready, Outside, UnderGlobal
    <3>1. /\ me'[t].n = me[t].n /\ me'[t].end = me[t].end
          /\ me'[t].op = me[t].op /\ me'[t].retiring = me[t].retiring
        BY <1>4 DEF GetThreadCache, AfterCache, Shapes, Locals
    <3>2. CASE mycache[t] > 0
      <4>1. Owns(mycache[t], t) /\ CacheInv(mycache[t])
          BY <3>2 DEF CacheLocal, Owns, Inv2
      <4>2. Listed(caches[mycache[t]].mymspace)
          BY <4>1 DEF Owns, CacheInv
      <4>3. /\ pc'[t] = me[t].op /\ me'[t].cache = mycache[t]
            /\ me'[t].ms = caches[mycache[t]].mymspace
          BY <1>4, <3>2 DEF GetThreadCache, At, Go, AfterCache, Shapes, Locals, CacheLocal
      <4> QED  BY <2>1, <3>0, <3>1, <4>1, <4>2, <4>3
                  DEF Settled, Owns, Listed, Place, Early, Making,
                      Mallocing, Searching, Freeing
    <3>3. CASE mycache[t] < 0
      <4>1. Listed(MspaceOf(mycache[t]))
          BY <3>3 DEF CacheLocal
      <4>2. pc'[t] = me[t].op /\ me'[t].cache = 0 /\ me'[t].ms = MspaceOf(mycache[t])
          BY <1>4, <3>3 DEF GetThreadCache, At, Go, AfterCache, Shapes, Locals, CacheLocal
      <4> QED  BY <2>1, <3>0, <3>1, <4>1, <4>2
                  DEF Settled, Listed, Place, Early, Making, Mallocing,
                      Searching, Freeing
    <3>4. CASE mycache[t] = 0
      <4>1. pc'[t] = "alloc" /\ me' = me
          BY <1>4, <3>4 DEF GetThreadCache, At, Go, AfterCache, Shapes
      <4> QED  BY <3>0, <3>1, <4>1
                  DEF Settled, Place, Early, Making, Mallocing, Searching,
                      Freeing
    <3> QED  BY <3>2, <3>3, <3>4 DEF CacheLocal
  <2>3. CacheLocal(t)'
      BY <1>4, <2>1
         DEF GetThreadCache, At, Go, AfterCache, Shapes, Locals, AllocOp, Settled,
             CacheLocal, Owns, Listed, Cache, Place, Early, Making, Mallocing,
             Searching, Freeing
  <2>4. /\ "install" \notin {pc[t], pc'[t]}
        /\ \/ me'[t].cache = me[t].cache /\ me'[t].retiring = me[t].retiring
           \/ /\ ~ me[t].retiring /\ ~ me'[t].retiring
              /\ me[t].cache # 0 => mycache[t] = me[t].cache
      BY <1>4, <2>1
         DEF GetThreadCache, At, Go, AfterCache, Shapes, Locals, AllocOp, Settled,
             CacheLocal, Place, Early, Making, Mallocing, Searching, Freeing
  <2> QED
      BY <2>1, <2>2, <2>3, <2>4 DEF Plain
<1>5. CASE AllocCache(t)
  <2>1. OnlyMoves(t) /\ UNCHANGED <<threads, m, caches, mycache, off>> /\ Exists' = Exists
      BY <1>5 DEF AllocCache, At, Go, pool, process, Exists, Shapes, OnlyMoves
  <2>2. Settled(t)'
    <3>1. pc[t] = "alloc" /\ pc'[t] = "alloc_lock"
        BY <1>5 DEF AllocCache, At, Go, Shapes
    <3>2. /\ me'[t].ms = me[t].ms /\ me'[t].n = me[t].n /\ me'[t].end = me[t].end
          /\ me'[t].cache \in Cache /\ me'[t].retiring = me[t].retiring
        BY <1>5 DEF AllocCache, At, Go, Shapes, Locals, Cache
    <3> QED  BY <3>1, <3>2 DEF Settled, Place, Early, Making, Mallocing, Searching, Freeing
  <2>3. CacheLocal(t)'
      BY <1>5, <2>1
         DEF AllocCache, At, Go, Shapes, Locals, AllocOp, Settled, CacheLocal, Owns,
             Listed, Cache, Place, Early, Making, Mallocing, Searching, Freeing
  <2>4. /\ "install" \notin {pc[t], pc'[t]}
        /\ \/ me'[t].cache = me[t].cache /\ me'[t].retiring = me[t].retiring
           \/ /\ ~ me[t].retiring /\ ~ me'[t].retiring
              /\ me[t].cache # 0 => mycache[t] = me[t].cache
      BY <1>5, <2>1
         DEF AllocCache, At, Go, Shapes, Locals, AllocOp, Settled, CacheLocal, Place,
             Early, Making, Mallocing, Searching, Freeing
  <2> QED
      BY <2>1, <2>2, <2>3, <2>4 DEF Plain
<1>6. CASE GetMSpace(t)
  <2>1. OnlyMoves(t) /\ UNCHANGED <<threads, m, caches, mycache, off>> /\ Exists' = Exists
      BY <1>6 DEF GetMSpace, At, Go, TryLock, pool, process, Exists, Shapes, OnlyMoves
  <2>2. Settled(t)'
    <3>1. /\ pc[t] = "malloc" /\ pc'[t] \in {"enter", "scan"}
          /\ me'[t].ms = me[t].ms /\ me'[t].op = me[t].op
          /\ me'[t].cache = me[t].cache /\ me'[t].retiring = me[t].retiring
          /\ \/ me'[t].n = me[t].n /\ me'[t].end = me[t].end /\ pc'[t] = "enter"
             \/ me'[t].n = me[t].ms + 1 /\ me'[t].end = me[t].ms + 1 /\ pc'[t] = "scan"
        BY <1>6 DEF GetMSpace, At, Go, TryLock, Shapes, Locals
    <3>2. /\ Listed(me[t].ms) /\ me[t].ms + 1 \in Index
          /\ \A i \in 0..me[t].ms : m[i] # Null
      <4>1. me[t].ms \in Index /\ m[me[t].ms] # Null
          BY <3>1 DEF Settled
      <4> QED  BY <4>1, ListPrefix DEF Listed
    <3>3. CASE pc'[t] = "enter" /\ me'[t].n = me[t].n /\ me'[t].end = me[t].end
        BY <3>1, <3>3 DEF Settled, Place, Early, Making, Mallocing, Searching, Freeing
    <3>4. CASE pc'[t] = "scan" /\ me'[t].n = me[t].ms + 1 /\ me'[t].end = me[t].ms + 1
      <4>1. me[t].ms \in Index /\ (me[t].ms + 1) - 1 = me[t].ms
          BY NedPoolAssumption DEF Settled, Index
      <4>2. \A i \in 0..(me'[t].end - 1) : m'[i] # Null
          BY <2>1, <3>2, <3>4, <4>1
      <4> QED  BY <2>1, <3>1, <3>2, <3>4, <4>1, <4>2
                DEF Settled, Listed, Place, Early, Making, Mallocing, Searching, Freeing
    <3> QED  BY <3>1, <3>3, <3>4
  <2>3. CacheLocal(t)'
      BY <1>6, <2>1
         DEF GetMSpace, At, Go, TryLock, Shapes, Locals, AllocOp, Settled,
             CacheLocal, Owns, Listed, Cache, Place, Early, Making, Mallocing,
             Searching, Freeing
  <2>4. /\ "install" \notin {pc[t], pc'[t]}
        /\ \/ me'[t].cache = me[t].cache /\ me'[t].retiring = me[t].retiring
           \/ /\ ~ me[t].retiring /\ ~ me'[t].retiring
              /\ me[t].cache # 0 => mycache[t] = me[t].cache
      BY <1>6, <2>1
         DEF GetMSpace, At, Go, TryLock, Shapes, Locals, AllocOp, Settled,
             CacheLocal, Place, Early, Making, Mallocing, Searching, Freeing
  <2> QED
      BY <2>1, <2>2, <2>3, <2>4 DEF Plain
<1>7. CASE WaitForLast(t)
  <2>1. OnlyMoves(t) /\ UNCHANGED <<threads, m, caches, mycache, off>> /\ Exists' = Exists
      BY <1>7 DEF WaitForLast, At, Go, pool, process, Exists, Shapes, OnlyMoves
  <2>a. /\ pc[t] = "wait" /\ pc'[t] = "enter" /\ me'[t].n = 0 /\ me'[t].end = 0
        /\ me'[t].ms = me[t].ms /\ me'[t].op = me[t].op /\ me'[t].cache = me[t].cache
        /\ me'[t].retiring = me[t].retiring
      BY <1>7 DEF WaitForLast, At, Go, Shapes, Locals
  <2>2. Settled(t)'
      BY <2>1, <2>a
         DEF Settled, Index, Place, Early, Making, Mallocing, Searching, Freeing
  <2>3. CacheLocal(t)'
      BY <2>1, <2>a
         DEF CacheLocal, Owns, Listed, Making, Mallocing, Searching, Freeing
  <2>4. /\ "install" \notin {pc[t], pc'[t]}
        /\ \/ me'[t].cache = me[t].cache /\ me'[t].retiring = me[t].retiring
           \/ /\ ~ me[t].retiring /\ ~ me'[t].retiring
              /\ me[t].cache # 0 => mycache[t] = me[t].cache
      BY <1>7, <2>1
         DEF WaitForLast, At, Go, Shapes, Locals, AllocOp, Settled, CacheLocal,
             Place, Early, Making, Mallocing, Searching, Freeing
  <2> QED
      BY <2>1, <2>2, <2>3, <2>4 DEF Plain
<1>8. CASE LeaveFree(t)
  <2>1. OnlyMoves(t) /\ UNCHANGED <<threads, m, caches, mycache, off>> /\ Exists' = Exists
      BY <1>8 DEF LeaveFree, At, Go, pool, process, Exists, Shapes, OnlyMoves
  <2>2. Settled(t)'
    <3>1. /\ pc[t] = "free_in"
          /\ pc'[t] = IF me[t].retiring THEN "retire" ELSE "drain"
        BY <1>8 DEF LeaveFree, At, Go, Shapes
    <3>2. /\ me'[t].ms = me[t].ms /\ me'[t].n = me[t].n /\ me'[t].end = me[t].end
          /\ me'[t].cache = me[t].cache /\ me'[t].retiring = me[t].retiring
          /\ me'[t].op = me[t].op
        BY <1>8 DEF LeaveFree, At, Go, Shapes, Locals
    <3> QED  BY <3>1, <3>2 DEF Settled, Place, Early, Making, Mallocing, Searching, Freeing
  <2>3. CacheLocal(t)'
      BY <1>8, <2>1
         DEF LeaveFree, At, Go, Shapes, Locals, AllocOp, Settled, CacheLocal, Owns,
             Listed, Cache, Place, Early, Making, Mallocing, Searching, Freeing
  <2>4. /\ "install" \notin {pc[t], pc'[t]}
        /\ \/ me'[t].cache = me[t].cache /\ me'[t].retiring = me[t].retiring
           \/ /\ ~ me[t].retiring /\ ~ me'[t].retiring
              /\ me[t].cache # 0 => mycache[t] = me[t].cache
      BY <1>8, <2>1
         DEF LeaveFree, At, Go, Shapes, Locals, AllocOp, Settled, CacheLocal, Place,
             Early, Making, Mallocing, Searching, Freeing
  <2> QED
      BY <2>1, <2>2, <2>3, <2>4 DEF Plain
<1>9. CASE WalkEnters(t)
  <2>1. OnlyMoves(t) /\ UNCHANGED <<threads, m, caches, mycache, off>> /\ Exists' = Exists
      BY <1>9 DEF WalkEnters, At, Go, Walking, pool, process, Exists, Shapes, OnlyMoves
  <2>2. Settled(t)'
      BY <1>9, <2>1
         DEF WalkEnters, At, Go, Walking, Shapes, Locals, Ready, AllocOp, Outside,
             UnderGlobal, Settled, Index, Place, Early, Making, Mallocing, Searching,
             Freeing
  <2>3. CacheLocal(t)'
      BY <1>9, <2>1
         DEF WalkEnters, At, Go, Walking, Shapes, Locals, AllocOp, Settled,
             CacheLocal, Owns, Listed, Cache, Place, Early, Making, Mallocing,
             Searching, Freeing
  <2>4. /\ "install" \notin {pc[t], pc'[t]}
        /\ \/ me'[t].cache = me[t].cache /\ me'[t].retiring = me[t].retiring
           \/ /\ ~ me[t].retiring /\ ~ me'[t].retiring
              /\ me[t].cache # 0 => mycache[t] = me[t].cache
      BY <1>9, <2>1
         DEF WalkEnters, At, Go, Walking, Shapes, Locals, AllocOp, Settled,
             CacheLocal, Place, Early, Making, Mallocing, Searching, Freeing
  <2> QED
      BY <2>1, <2>2, <2>3, <2>4 DEF Plain
<1>10. CASE WalkLeaves(t)
  <2>1. OnlyMoves(t) /\ UNCHANGED <<threads, m, caches, mycache, off>> /\ Exists' = Exists
      BY <1>10 DEF WalkLeaves, At, Go, pool, process, Exists, Shapes, OnlyMoves
  <2>2. Settled(t)'
      BY <1>10, <2>1
         DEF WalkLeaves, At, Go, Shapes, Locals, Ready, AllocOp, Outside,
             UnderGlobal, Settled, Index, Place, Early, Making, Mallocing, Searching,
             Freeing
  <2>3. CacheLocal(t)'
      BY <1>10, <2>1
         DEF WalkLeaves, At, Go, Shapes, Locals, AllocOp, Settled, CacheLocal, Owns,
             Listed, Cache, Place, Early, Making, Mallocing, Searching, Freeing
  <2>4. /\ "install" \notin {pc[t], pc'[t]}
        /\ \/ me'[t].cache = me[t].cache /\ me'[t].retiring = me[t].retiring
           \/ /\ ~ me[t].retiring /\ ~ me'[t].retiring
              /\ me[t].cache # 0 => mycache[t] = me[t].cache
      BY <1>10, <2>1
         DEF WalkLeaves, At, Go, Shapes, Locals, AllocOp, Settled, CacheLocal, Place,
             Early, Making, Mallocing, Searching, Freeing
  <2> QED
      BY <2>1, <2>2, <2>3, <2>4 DEF Plain
<1> QED  BY <1>1, <1>2, <1>3, <1>4, <1>5, <1>6, <1>7, <1>8, <1>9, <1>10

-----------------------------------------------------------------------------
\* The number for an mspace is below 0, and names that mspace.
LEMMA AsMspaceNumber ==
    \A n \in Nat : AsMspace(n) \in Int /\ AsMspace(n) < 0 /\ MspaceOf(AsMspace(n)) = n
BY DEF AsMspace, MspaceOf

\* A step that changes the thread's own number, and its own cache.
OwnCache(t) ==
    /\ OnlyMoves(t) /\ UNCHANGED <<threads, m>> /\ Exists' = Exists
    /\ "install" \notin {pc[t], pc'[t]}
    /\ \A u \in Thread \ {t} : mycache'[u] = mycache[u] /\ (u \in off' => u \in off)
    /\ \A c \in Cache : caches'[c] = caches[c] \/ c = me[t].cache
    /\ CacheTypes' /\ Settled(t)' /\ CacheLocal(t)'
    /\ me'[t].retiring => me'[t].cache = me[t].cache
    /\ \A c \in Cache : c = me[t].cache \/ c = mycache[t] => CacheInv(c)'

LEMMA OwnCacheInv2 == ASSUME Inv, Inv2, NEW t \in Thread, OwnCache(t) PROVE Inv2'
<1>1. ListInv'
    BY ListKept DEF OwnCache, Inv2
<1> QED  BY <1>1, MoveInv2 DEF OwnCache

\* Where a thread has a cache in hand that it does not just make, the cache is its own.
LEMMA HandCache ==
    ASSUME Inv2, NEW t \in Thread, pc[t] \notin Making, me[t].cache # 0
    PROVE  /\ me[t].cache \in Cache /\ caches[me[t].cache] \in CacheRec
           /\ ~ me[t].retiring => /\ caches[me[t].cache].threadid = t
                                  /\ Listed(caches[me[t].cache].mymspace)
           /\ me[t].retiring => caches[me[t].cache].threadid = 0
           /\ me[t].op # "disable" => mycache[t] = me[t].cache
           /\ me[t].op = "disable" => mycache[t] <= 0
<1> USE NedPoolAssumption
<1>1. Owns(me[t].cache, IF me[t].retiring THEN 0 ELSE t) /\ CacheInv(me[t].cache)
    BY DEF Inv2, CacheLocal, Owns
<1>2. caches[me[t].cache] \in CacheRec
    BY <1>1 DEF Inv2, CacheTypes, Owns
<1> QED  BY <1>1, <1>2 DEF Owns, CacheInv, Inv2, CacheLocal

\* Counting the blocks of a cache, or where its thread works, leaves it the thread's.
LEMMA CacheMoves ==
    ASSUME NEW c \in Cache, CacheTypes, caches[c] \in CacheRec, NEW r \in CacheRec,
           caches' = [caches EXCEPT ![c] = r]
    PROVE  /\ caches' \in [Cache -> CacheRec \union {Null}]
           /\ caches'[c] = r /\ r # Null
           /\ \A d \in Cache : caches'[d] = caches[d] \/ d = c
BY NedPoolAssumption DEF CacheTypes, CacheRec

\* The end of the list, as AllocCache finds it: there is one, after the first place.
LEMMA ListEndFound ==
    ASSUME Inv2, m[0] # Null
    PROVE  ListEnd \in Nat \ {0} /\ \A i \in 0..(ListEnd - 1) : Listed(i)
<1> USE NedPoolAssumption DEF Inv2, ListInv
<1> DEFINE S == {i \in Index : m[i] = Null}
<1>1. S \in SUBSET Nat /\ MaxThreads \in S
    BY DEF Index
<1>2. PICK e \in S : \A i \in S : e <= i
  <2> DEFINE R == OpToRel(<, Nat)
  <2>1. IsWellFoundedOn(R, Nat)
      BY NatLessThanWellFounded
  <2>2. \A i, j \in Nat : i < j => <<i, j>> \in R
      BY DEF OpToRel
  <2> HIDE DEF R, S
  <2>3. \E e \in S : \A i \in S : <<i, e>> \notin R
      BY <1>1, <2>1, WFMin
  <2>4. PICK e \in S : \A i \in S : <<i, e>> \notin R
      BY <2>3
  <2>5. \A i \in S : i \in Nat /\ e \in Nat /\ ~ (i < e)
      BY <1>1, <2>2, <2>4
  <2> QED  BY <2>4, <2>5
<1>3. \A i \in 0..(e - 1) : m[i] # Null
  <2> SUFFICES ASSUME NEW i \in 0..(e - 1), m[i] = Null PROVE FALSE
      OBVIOUS
  <2>1. i \in S /\ i < e
      BY <1>1, <1>2 DEF Index
  <2> QED  BY <1>1, <1>2, <2>1
<1>4. \E x \in Index : m[x] = Null /\ \A i \in 0..(x - 1) : m[i] # Null
    BY <1>2, <1>3
<1>5. ListEnd \in Index /\ m[ListEnd] = Null /\ \A i \in 0..(ListEnd - 1) : m[i] # Null
    BY <1>4 DEF ListEnd
<1>6. ListEnd # 0
    BY <1>5
<1> QED  BY <1>5, <1>6 DEF Index, Listed

\* The cache of one thread is made, refused, and freed again.
LEMMA MakingSteps ==
    ASSUME Inv, Inv2, NEW t \in Thread,
           CacheRefused(t) \/ CacheMade(t) \/ CacheFailed(t)
    PROVE  OwnCache(t)
<1> USE NedPoolAssumption
<1>a. Shapes /\ Ready /\ AllocOp /\ Settled(t) /\ CacheLocal(t) /\ CacheTypes
    BY DEF Inv, Inv2
<1>b. /\ pc[t] \in {"alloc", "alloc_in"} /\ me[t].op \in {"malloc", "free"}
      /\ mycache[t] = 0 /\ threads # 0
    BY <1>a DEF CacheRefused, CacheMade, CacheFailed, At, Ready, Outside, UnderGlobal, AllocOp,
                CacheLocal, Making
<1>c. Listed(0)
    BY <1>a, <1>b DEF Ready, Listed, Index
<1>d. UNCHANGED <<threads, m>> /\ Exists' = Exists /\ OnlyMoves(t) /\ pc'[t] = me[t].op
    BY <1>a DEF CacheRefused, CacheMade, CacheFailed, AfterCache, Go, Exists, Shapes, OnlyMoves
<1>e. ~ me[t].retiring /\ t \notin off
    BY <1>a, <1>b DEF Settled, Freeing, CacheLocal
<1>1. CASE CacheRefused(t) \/ CacheFailed(t)
  <2>1. /\ mycache' = [mycache EXCEPT ![t] = AsMspace(0)] /\ caches' = caches
        /\ off' = off \union {t} /\ me' = [me EXCEPT ![t].cache = 0, ![t].ms = 0]
      BY <1>1 DEF CacheRefused, CacheFailed, AfterCache
  <2>2. /\ me'[t].cache = 0 /\ me'[t].ms = 0 /\ me'[t].n = me[t].n /\ me'[t].end = me[t].end
        /\ me'[t].op = me[t].op /\ me'[t].retiring = me[t].retiring
      BY <2>1, <1>a DEF Shapes, Locals
  <2>3. mycache'[t] < 0 /\ mycache'[t] \in Int /\ MspaceOf(mycache'[t]) = 0
      BY <2>1, <1>a, AsMspaceNumber DEF CacheTypes
  <2>4. Settled(t)'
      BY <1>a, <1>b, <1>c, <1>d, <1>e, <2>2
         DEF Settled, Listed, Place, Early, Making, Mallocing, Searching, Freeing
  <2>5. CacheLocal(t)'
      BY <1>b, <1>c, <1>d, <2>2, <2>3 DEF CacheLocal, Listed, Making
  <2>6. \A c \in Cache : c = me[t].cache \/ c = mycache[t] => CacheInv(c)'
      BY <1>a, <1>b, <2>1 DEF CacheInv, CacheLocal, Cache, Settled, Early, Making
  <2> QED
      BY <1>a, <1>b, <1>d, <1>e, <2>1, <2>2, <2>4, <2>5, <2>6 DEF OwnCache, CacheTypes
<1>2. CASE CacheMade(t)
  <2>0. PICK c, ms, r : c = me[t].cache /\ ms = t % ListEnd /\ r = NewCache(t, ms)
      OBVIOUS
  <2>1. /\ mycache' = [mycache EXCEPT ![t] = c] /\ caches' = [caches EXCEPT ![c] = r]
        /\ off' = off /\ me' = [me EXCEPT ![t].cache = c, ![t].ms = ms] /\ pc[t] = "alloc_in"
      BY <1>2, <2>0 DEF CacheMade, AfterCache, At
  <2>2. ms \in 0..(ListEnd - 1) /\ Listed(ms) /\ ms \in Int
    <3>1. ListEnd \in Nat \ {0} /\ \A i \in 0..(ListEnd - 1) : Listed(i)
        BY <1>c, ListEndFound DEF Listed
    <3>2. ms \in 0..(ListEnd - 1)
        BY <2>0, <3>1
    <3> QED  BY <3>1, <3>2
  <2>3. c \in Cache /\ c > 0
      BY <1>a, <2>0, <2>1 DEF Settled, CacheLocal, Making, Cache
  <2>4. r \in CacheRec /\ r # Null /\ r.threadid = t /\ r.mymspace = ms
      BY <2>0, <2>2 DEF NewCache, CacheRec, NoBlocks
  <2>5. /\ me'[t].cache = c /\ me'[t].ms = ms /\ me'[t].n = me[t].n /\ me'[t].end = me[t].end
        /\ me'[t].op = me[t].op /\ me'[t].retiring = me[t].retiring
      BY <2>1, <1>a DEF Shapes, Locals
  <2>6. mycache'[t] = c /\ caches'[c] = r
      BY <2>1, <2>3, <1>a DEF CacheTypes
  <2>7. Settled(t)'
      BY <1>a, <1>b, <1>d, <1>e, <2>2, <2>3, <2>5
         DEF Settled, Listed, Place, Early, Making, Mallocing, Searching, Freeing
  <2>8. Owns(c, t)'
      BY <2>3, <2>4, <2>6 DEF Owns
  <2>9. CacheLocal(t)'
      BY <1>b, <1>d, <1>e, <2>1, <2>3, <2>5, <2>6, <2>8 DEF CacheLocal, Making, Cache
  <2>10. CacheInv(c)'
      BY <1>d, <2>2, <2>4, <2>6 DEF CacheInv, Listed
  <2>11. CacheTypes' /\ \A d \in Cache : caches'[d] = caches[d] \/ d = c
      BY <1>a, <2>1, <2>4 DEF CacheTypes
  <2>12. \A d \in Cache : d = me[t].cache \/ d = mycache[t] => CacheInv(d)'
      BY <1>b, <2>0, <2>10 DEF Cache
  <2> QED
      BY <1>a, <1>b, <1>d, <1>e, <2>0, <2>1, <2>5, <2>7, <2>9, <2>11, <2>12
         DEF OwnCache, CacheTypes
<1> QED  BY <1>1, <1>2

\* FindMSpace settles on an mspace of the list.
LEMMA FoundStep ==
    ASSUME Inv, Inv2, NEW t \in Thread, pc[t] \in {"scan", "rescan", "install_lock"},
           NEW n, Listed(n), Found(t, n), UNCHANGED <<threads, m, off>>, Exists' = Exists
    PROVE  OwnCache(t)
<1> USE NedPoolAssumption
<1>a. Shapes /\ Settled(t) /\ CacheLocal(t) /\ CacheTypes
    BY DEF Inv, Inv2
<1>b. /\ n \in Index /\ n \in Nat /\ me[t].op = "malloc" /\ ~ me[t].retiring
      /\ me[t].cache \in {0} \union Cache
    BY <1>a DEF Listed, Index, Settled, Mallocing, Searching, Freeing
<1>c. OnlyMoves(t) /\ pc'[t] = "enter"
    BY <1>a DEF Found, Go, Shapes, OnlyMoves
<1>d. /\ me'[t].ms = n /\ me'[t].n = 0 /\ me'[t].end = 0 /\ me'[t].op = me[t].op
      /\ me'[t].cache = me[t].cache /\ me'[t].retiring = me[t].retiring
    BY <1>a DEF Found, Shapes, Locals
<1>e. Settled(t)'
    BY <1>a, <1>b, <1>c, <1>d
       DEF Settled, Index, Place, Early, Making, Mallocing, Searching, Freeing
<1>1. CASE me[t].cache = 0
  <2>1. mycache' = [mycache EXCEPT ![t] = AsMspace(n)] /\ caches' = caches
      BY <1>1 DEF Found
  <2>2. mycache'[t] = AsMspace(n)
      BY <2>1, <1>a DEF CacheTypes
  <2>3. AsMspace(n) < 0 /\ AsMspace(n) \in Int /\ MspaceOf(AsMspace(n)) = n
      BY <1>b, AsMspaceNumber
  <2>4. CacheLocal(t)'
      BY <1>1, <1>b, <1>c, <1>d, <2>2, <2>3 DEF CacheLocal, Listed, Making
  <2>5. mycache[t] < 0
      BY <1>a, <1>1 DEF CacheLocal, Mallocing, Searching
  <2>6. \A c \in Cache : c # me[t].cache /\ c # mycache[t]
      BY <1>a, <1>1, <2>5 DEF Cache, CacheLocal
  <2> QED  BY <1>a, <1>b, <1>c, <1>d, <1>e, <2>1, <2>4, <2>6 DEF OwnCache, CacheTypes
<1>2. CASE me[t].cache # 0
  <2>0. PICK c, r : c = me[t].cache /\ r = [caches[c] EXCEPT !.mymspace = n]
      OBVIOUS
  <2>1. /\ c \in Cache /\ c > 0 /\ caches[c] \in CacheRec /\ caches[c].threadid = t
        /\ mycache[t] = c
    <3>1. pc[t] \notin Making
        BY DEF Making
    <3> QED  BY <1>2, <1>b, <2>0, <3>1, HandCache DEF Cache
  <2>2. caches' = [caches EXCEPT ![c] = r] /\ mycache' = mycache
      BY <1>2, <1>a, <2>0, <2>1 DEF Found, CacheTypes
  <2>3. r \in CacheRec /\ r.threadid = t /\ r.mymspace = n
      BY <2>0, <2>1, <1>b DEF CacheRec
  <2>4. /\ caches' \in [Cache -> CacheRec \union {Null}] /\ caches'[c] = r /\ r # Null
        /\ \A d \in Cache : caches'[d] = caches[d] \/ d = c
      BY <1>a, <2>1, <2>2, <2>3, CacheMoves
  <2>5. Owns(c, t)'
      BY <2>1, <2>3, <2>4 DEF Owns
  <2>6. CacheLocal(t)'
      BY <1>2, <1>a, <1>b, <1>c, <1>d, <2>0, <2>1, <2>2, <2>5 DEF CacheLocal, Making
  <2>7. CacheInv(c)'
      BY <2>1, <2>2, <2>3, <2>4 DEF CacheInv, Listed
  <2>8. \A d \in Cache : d = me[t].cache \/ d = mycache[t] => CacheInv(d)'
      BY <2>0, <2>1, <2>7
  <2> QED  BY <1>a, <1>b, <1>c, <1>d, <1>e, <2>0, <2>2, <2>4, <2>6, <2>8 DEF OwnCache, CacheTypes
<1> QED  BY <1>1, <1>2

\* The search for an mspace that is free.
LEMMA SearchSteps ==
    ASSUME Inv, Inv2, NEW t \in Thread, ScanOn(t) \/ Rescan(t) \/ InstallLocks(t)
    PROVE  Inv2'
<1> USE NedPoolAssumption
<1>a. Shapes /\ Settled(t) /\ CacheLocal(t) /\ CacheTypes
    BY DEF Inv, Inv2
<1>b. UNCHANGED <<threads, m, off>> /\ Exists' = Exists
    BY DEF ScanOn, Rescan, InstallLocks, Exists
<1>c. /\ pc[t] \in {"scan", "rescan", "install_lock"}
      /\ me[t].n \in Index /\ me[t].end \in Index /\ me[t].ms \in Index
    BY <1>a DEF ScanOn, Rescan, InstallLocks, At, Settled
<1>1. CASE \E n : Listed(n) /\ Found(t, n)
    BY <1>1, <1>b, <1>c, FoundStep, OwnCacheInv2
<1>2. CASE InstallLocks(t)
  <2>1. Found(t, me[t].end) /\ Listed(me[t].end)
      BY <1>2, <1>a, <1>c DEF InstallLocks, At, Settled, Listed
  <2> QED  BY <1>1, <2>1
<1>3. ASSUME ScanOn(t) \/ Rescan(t), me'[t].cache = me[t].cache,
             me'[t].retiring = me[t].retiring, UNCHANGED <<caches, mycache>>,
             OnlyMoves(t), "install" # pc'[t], Settled(t)', CacheLocal(t)'
      PROVE  Inv2'
    BY <1>b, <1>c, <1>3, PlainInv2 DEF Plain
<1>4. ASSUME me'[t].cache = me[t].cache, me'[t].retiring = me[t].retiring,
             me'[t].op = me[t].op, UNCHANGED <<caches, mycache>>,
             pc[t] \in {"scan", "rescan"}, pc'[t] \in {"scan", "rescan", "create", "wait"}
      PROVE  CacheLocal(t)'
    BY <1>4, <1>a, <1>b
       DEF CacheLocal, Settled, Owns, Listed, Making, Mallocing, Searching, Freeing
<1>5. CASE ScanOn(t) /\ m[me[t].n] # Null
  <2>1. pc[t] = "scan" /\ Listed(me[t].n)
      BY <1>5, <1>c DEF ScanOn, At, Listed
  <2>2. CASE Found(t, me[t].n)
      BY <1>1, <2>1, <2>2
  <2>3. CASE /\ me' = [me EXCEPT ![t].n = me[t].n + 1, ![t].end = me[t].n + 1]
             /\ UNCHANGED <<caches, mycache, pc>>
    <3>1. /\ me'[t].n = me[t].n + 1 /\ me'[t].end = me[t].n + 1
          /\ me'[t].ms = me[t].ms /\ me'[t].op = me[t].op
          /\ me'[t].cache = me[t].cache /\ me'[t].retiring = me[t].retiring
        BY <2>3, <1>a DEF Shapes, Locals
    <3>2. me[t].n + 1 \in Index /\ \A i \in 0..me[t].n : m[i] # Null
        BY <2>1, ListPrefix DEF Listed
    <3>3. \A i \in 0..(me'[t].end - 1) : m'[i] # Null
        BY <1>b, <1>c, <3>1, <3>2 DEF Index
    <3>4. Settled(t)'
        BY <1>a, <1>b, <2>1, <2>3, <3>1, <3>2, <3>3
           DEF Settled, Place, Early, Making, Mallocing, Searching, Freeing
    <3>5. OnlyMoves(t)
        BY <2>3, <1>a DEF OnlyMoves, Shapes
    <3> QED  BY <1>3, <1>4, <1>5, <2>1, <2>3, <3>1, <3>4, <3>5
  <2> QED  BY <1>5, <2>2, <2>3 DEF ScanOn
<1>6. CASE ScanOn(t) /\ m[me[t].n] = Null
  <2>1. /\ pc[t] = "scan" /\ pc'[t] = "rescan" /\ me' = [me EXCEPT ![t].n = 0]
        /\ UNCHANGED <<caches, mycache>> /\ OnlyMoves(t)
      BY <1>6, <1>a DEF ScanOn, At, Go, Shapes, OnlyMoves
  <2>2. /\ me'[t].n = 0 /\ me'[t].end = me[t].end /\ me'[t].ms = me[t].ms
        /\ me'[t].op = me[t].op
        /\ me'[t].cache = me[t].cache /\ me'[t].retiring = me[t].retiring
      BY <2>1, <1>a DEF Shapes, Locals
  <2>3. Settled(t)'
      BY <1>a, <1>b, <2>1, <2>2
         DEF Settled, Index, Place, Early, Making, Mallocing, Searching, Freeing
  <2> QED  BY <1>3, <1>4, <1>6, <2>1, <2>2, <2>3
<1>7. CASE Rescan(t) /\ me[t].n < me[t].ms
  <2>1. pc[t] = "rescan" /\ Listed(me[t].n) /\ me[t].n + 1 \in Index
    <3>1. pc[t] = "rescan" /\ m[me[t].ms] # Null
        BY <1>7, <1>a DEF Rescan, At, Settled, Searching
    <3>2. me[t].n \in 0..me[t].ms
        BY <1>7, <1>c DEF Index
    <3>3. me[t].n + 1 \in Index
        BY <1>7, <1>c DEF Index
    <3> QED  BY <1>c, <3>1, <3>2, <3>3, ListPrefix DEF Listed
  <2>2. CASE Found(t, me[t].n)
      BY <1>1, <2>1, <2>2
  <2>3. CASE me' = [me EXCEPT ![t].n = me[t].n + 1] /\ UNCHANGED <<caches, mycache, pc>>
    <3>1. /\ me'[t].n = me[t].n + 1 /\ me'[t].end = me[t].end
          /\ me'[t].ms = me[t].ms /\ me'[t].op = me[t].op
          /\ me'[t].cache = me[t].cache /\ me'[t].retiring = me[t].retiring
        BY <2>3, <1>a DEF Shapes, Locals
    <3>2. Settled(t)'
        BY <1>a, <1>b, <2>1, <2>3, <3>1
           DEF Settled, Place, Early, Making, Mallocing, Searching, Freeing
    <3>3. OnlyMoves(t)
        BY <2>3, <1>a DEF OnlyMoves, Shapes
    <3> QED  BY <1>3, <1>4, <1>7, <2>1, <2>3, <3>1, <3>2, <3>3
  <2> QED  BY <1>7, <2>2, <2>3 DEF Rescan
<1>8. CASE Rescan(t) /\ ~ (me[t].n < me[t].ms)
  <2>1. /\ pc[t] = "rescan" /\ pc'[t] \in {"create", "wait"} /\ me' = me
        /\ UNCHANGED <<caches, mycache>> /\ OnlyMoves(t)
      BY <1>8, <1>a DEF Rescan, At, Go, Shapes, OnlyMoves
  <2>2. Settled(t)'
      BY <1>a, <1>b, <2>1
         DEF Settled, Index, Place, Early, Making, Mallocing, Searching, Freeing
  <2> QED  BY <1>3, <1>4, <1>8, <2>1, <2>2
<1> QED  BY <1>2, <1>5, <1>6, <1>7, <1>8

\* A thread counts blocks into its cache, or out of it.
LEMMA CountStep ==
    ASSUME Inv, Inv2, NEW t \in Thread, pc[t] \in {"malloc", "free", "drain"},
           me[t].cache # 0, NEW b \in [Id -> Int],
           caches' = [caches EXCEPT ![me[t].cache] = [caches[me[t].cache] EXCEPT !.blocks = b]],
           UNCHANGED <<threads, m, mycache, off>>, Exists' = Exists, OnlyMoves(t), Settled(t)',
           \/ /\ pc'[t] = "idle" /\ me'[t].cache = 0 /\ ~ me'[t].retiring
              /\ me[t].op # "disable"
           \/ /\ pc'[t] \in {"drain", "free_lock"} /\ me'[t].cache = me[t].cache
              /\ me'[t].retiring = me[t].retiring /\ me'[t].op = me[t].op
              /\ me[t].op = "disable" => pc[t] = "drain"
    PROVE  OwnCache(t)
<1> USE NedPoolAssumption
<1>a. Shapes /\ Settled(t) /\ CacheLocal(t) /\ CacheTypes
    BY DEF Inv, Inv2
<1>0. PICK c, r : c = me[t].cache /\ r = [caches[c] EXCEPT !.blocks = b]
    OBVIOUS
<1>1. /\ c \in Cache /\ c > 0 /\ caches[c] \in CacheRec /\ ~ me[t].retiring
      /\ caches[c].threadid = t /\ Listed(caches[c].mymspace)
      /\ me[t].op # "disable" => mycache[t] = c
      /\ me[t].op = "disable" => mycache[t] <= 0
  <2>1. pc[t] \notin Making /\ ~ me[t].retiring
      BY <1>a DEF Making, Settled, Freeing
  <2> QED  BY <1>a, <1>0, <2>1, HandCache DEF Cache, Settled
<1>2. r \in CacheRec /\ r.threadid = t /\ Listed(r.mymspace)
    BY <1>0, <1>1 DEF CacheRec
<1>3. /\ caches' \in [Cache -> CacheRec \union {Null}] /\ caches'[c] = r /\ r # Null
      /\ \A d \in Cache : caches'[d] = caches[d] \/ d = c
    BY <1>a, <1>0, <1>1, <1>2, CacheMoves
<1>4. Owns(c, t)'
    BY <1>1, <1>2, <1>3 DEF Owns
<1>5. CacheLocal(t)'
    BY <1>a, <1>0, <1>1, <1>4 DEF CacheLocal, Making, Mallocing, Searching, Freeing, Listed
<1>6. CacheInv(c)'
  <2>1. mycache'[t] = c \/ me'[t].cache = c
      BY <1>0, <1>1
  <2>2. Listed(r.mymspace)'
      BY <1>2 DEF Listed
  <2> QED  BY <1>2, <1>3, <2>1, <2>2 DEF CacheInv
<1>7. \A d \in Cache : d = me[t].cache \/ d = mycache[t] => CacheInv(d)'
    BY <1>0, <1>1, <1>6 DEF Cache
<1>8. CacheTypes'
    BY <1>a, <1>3 DEF CacheTypes
<1>9. "install" \notin {pc[t], pc'[t]} /\ (me'[t].retiring => me'[t].cache = me[t].cache)
    BY <1>1
<1> QED  BY <1>0, <1>3, <1>5, <1>7, <1>8, <1>9 DEF OwnCache

\* One block more or less.
LEMMA BlocksCounted ==
    ASSUME NEW f \in [Id -> Int], NEW i
    PROVE  [f EXCEPT ![i] = @ + 1] \in [Id -> Int] /\ [f EXCEPT ![i] = @ - 1] \in [Id -> Int]
<1>1. CASE i \in Id
    BY <1>1
<1>2. CASE i \notin Id
    BY <1>2
<1> QED  BY <1>1, <1>2

\* A block is taken from the thread's cache, put into it, or taken out to be freed.
LEMMA CountSteps ==
    ASSUME Inv, Inv2, NEW t \in Thread, CacheHit(t) \/ FreeToCache(t) \/ Drain(t)
    PROVE  OwnCache(t)
<1> USE NedPoolAssumption
<1>a. Shapes /\ Settled(t) /\ CacheLocal(t) /\ CacheTypes
    BY DEF Inv, Inv2
<1>b. UNCHANGED <<threads, m, mycache, off>> /\ Exists' = Exists /\ OnlyMoves(t)
    BY <1>a DEF CacheHit, FreeToCache, Drain, Return, Go, Exists, Shapes, OnlyMoves
<1>c. pc[t] \in {"malloc", "free", "drain"} /\ me[t].cache # 0
  <2>1. CASE Drain(t)
    <3>1. pc[t] = "drain" /\ Cached(t) > Room(t)
        BY <2>1 DEF Drain, At
    <3>2. me[t].cache = 0 => Cached(t) = 0
        BY DEF Cached
    <3>3. Room(t) \in Nat
        BY DEF Room
    <3> HIDE DEF Room, Cached
    <3> QED  BY <3>1, <3>2, <3>3
  <2> QED  BY <2>1 DEF CacheHit, FreeToCache, At
<1>0. PICK c : c = me[t].cache
    OBVIOUS
<1>d. c \in Cache /\ caches[c] \in CacheRec /\ ~ me[t].retiring
  <2>1. pc[t] \notin Making /\ ~ me[t].retiring
      BY <1>a, <1>c DEF Making, Settled, Freeing
  <2> QED  BY <1>0, <1>c, <2>1, HandCache
<1>1. CASE CacheHit(t)
  <2>1. PICK i \in Exists : caches' = [caches EXCEPT ![c].blocks[i] = @ - 1]
      BY <1>1, <1>0 DEF CacheHit
  <2>2. PICK b : b = [caches[c].blocks EXCEPT ![i] = @ - 1]
      OBVIOUS
  <2>3. b \in [Id -> Int]
      BY <1>d, <2>2, BlocksCounted DEF CacheRec
  <2>4. caches' = [caches EXCEPT ![c] = [caches[c] EXCEPT !.blocks = b]]
      BY <1>a, <1>d, <2>1, <2>2 DEF CacheTypes, CacheRec
  <2>5. /\ pc[t] = "malloc" /\ pc'[t] = "idle" /\ me'[t] = NoLocals
      BY <1>1, <1>a DEF CacheHit, At, Return, Go, Shapes
  <2>6. Settled(t)'
      BY <2>5 DEF NoLocals, Settled, Index, Place, Early, Making, Mallocing, Searching, Freeing
  <2>7. me[t].op # "disable"
      BY <1>a, <2>5 DEF Settled, Mallocing
  <2>8. me'[t].cache = 0 /\ ~ me'[t].retiring
      BY <2>5 DEF NoLocals
  <2> QED  BY <1>b, <1>c, <1>0, <2>3, <2>4, <2>5, <2>6, <2>7, <2>8, CountStep
<1>2. CASE FreeToCache(t)
  <2>1. PICK i : caches' = [caches EXCEPT ![c].blocks[i] = @ + 1]
      BY <1>2, <1>0 DEF FreeToCache
  <2>2. PICK b : b = [caches[c].blocks EXCEPT ![i] = @ + 1]
      OBVIOUS
  <2>3. b \in [Id -> Int]
      BY <1>d, <2>2, BlocksCounted DEF CacheRec
  <2>4. caches' = [caches EXCEPT ![c] = [caches[c] EXCEPT !.blocks = b]]
      BY <1>a, <1>d, <2>1, <2>2 DEF CacheTypes, CacheRec
  <2>5. /\ pc[t] = "free" /\ pc'[t] = "drain" /\ me' = [me EXCEPT ![t].block = Null]
        /\ me[t].op = "free"
      BY <1>2, <1>a DEF FreeToCache, At, Go, Shapes, Settled
  <2>6. /\ me'[t].n = me[t].n /\ me'[t].end = me[t].end /\ me'[t].ms = me[t].ms
        /\ me'[t].op = me[t].op
        /\ me'[t].cache = me[t].cache /\ me'[t].retiring = me[t].retiring
      BY <2>5, <1>a DEF Shapes, Locals
  <2>7. Settled(t)'
      BY <1>a, <1>c, <1>d, <2>5, <2>6
         DEF Settled, Place, Early, Making, Mallocing, Searching, Freeing
  <2> QED  BY <1>b, <1>c, <1>0, <2>3, <2>4, <2>5, <2>6, <2>7, CountStep
<1>3. CASE Drain(t)
  <2>1. PICK i \in Id : /\ caches' = [caches EXCEPT ![c].blocks[i] = @ - 1]
                        /\ me' = [me EXCEPT ![t].block = i]
      BY <1>3, <1>0 DEF Drain
  <2>2. PICK b : b = [caches[c].blocks EXCEPT ![i] = @ - 1]
      OBVIOUS
  <2>3. b \in [Id -> Int]
      BY <1>d, <2>2, BlocksCounted DEF CacheRec
  <2>4. caches' = [caches EXCEPT ![c] = [caches[c] EXCEPT !.blocks = b]]
      BY <1>a, <1>d, <2>1, <2>2 DEF CacheTypes, CacheRec
  <2>5. pc[t] = "drain" /\ pc'[t] = "free_lock"
      BY <1>3, <1>a DEF Drain, At, Go, Shapes
  <2>6. /\ me'[t].n = me[t].n /\ me'[t].end = me[t].end /\ me'[t].ms = me[t].ms
        /\ me'[t].op = me[t].op
        /\ me'[t].cache = me[t].cache /\ me'[t].retiring = me[t].retiring
      BY <2>1, <1>a DEF Shapes, Locals
  <2>7. Settled(t)'
      BY <1>a, <1>c, <1>d, <2>5, <2>6
         DEF Settled, Place, Early, Making, Mallocing, Searching, Freeing
  <2> QED  BY <1>b, <1>c, <1>0, <2>3, <2>4, <2>5, <2>6, <2>7, CountStep
<1> QED  BY <1>1, <1>2, <1>3

\* A cache that is turned off, and freed.
LEMMA RetireSteps ==
    ASSUME Inv, Inv2, NEW t \in Thread, Retire(t) \/ Retired(t)
    PROVE  OwnCache(t)
<1> USE NedPoolAssumption
<1>a. Shapes /\ Settled(t) /\ CacheLocal(t) /\ CacheTypes
    BY DEF Inv, Inv2
<1>b. /\ UNCHANGED <<threads, m, mycache, off>> /\ Exists' = Exists /\ OnlyMoves(t)
      /\ pc[t] \in {"drain", "retire"} /\ me[t].op = "disable"
    BY <1>a DEF Retire, Retired, Return, Go, Exists, Shapes, OnlyMoves, At, Settled
<1>0. PICK c : c = me[t].cache
    OBVIOUS
<1>c. c \in Cache /\ c # 0 /\ caches[c] \in CacheRec /\ mycache[t] <= 0 /\ mycache[t] \in Int
  <2>1. pc[t] \notin Making /\ me[t].cache # 0
      BY <1>a, <1>b DEF Making, Settled, Freeing
  <2> QED  BY <1>a, <1>b, <1>0, <2>1, HandCache DEF CacheLocal
<1>d. \A d \in Cache : d # mycache[t]
    BY <1>c DEF Cache
<1>1. CASE Retire(t)
  <2>1. PICK r : r = [caches[c] EXCEPT !.threadid = 0, !.mymspace = -1]
      OBVIOUS
  <2>2. r \in CacheRec /\ r.threadid = 0
    <3>1. -1 \in Int
        OBVIOUS
    <3> QED  BY <1>c, <2>1, <3>1 DEF CacheRec
  <2>3. caches' = [caches EXCEPT ![c] = r]
      BY <1>1, <1>0, <1>a, <1>c, <2>1 DEF Retire, CacheTypes, CacheRec
  <2>4. /\ caches' \in [Cache -> CacheRec \union {Null}] /\ caches'[c] = r /\ r # Null
        /\ \A d \in Cache : caches'[d] = caches[d] \/ d = c
      BY <1>a, <1>c, <2>2, <2>3, CacheMoves
  <2>5. /\ pc'[t] = "free_lock"
        /\ me'[t].n = me[t].n /\ me'[t].end = me[t].end /\ me'[t].ms = me[t].ms
        /\ me'[t].op = "disable" /\ me'[t].cache = c /\ me'[t].retiring
      BY <1>1, <1>0, <1>a, <1>b DEF Retire, Go, Shapes, Locals
  <2>6. Settled(t)'
      BY <1>a, <1>c, <2>5 DEF Settled, Place, Early, Making, Mallocing, Searching, Freeing
  <2>7. Owns(c, 0)'
      BY <1>c, <2>2, <2>4 DEF Owns
  <2>8. CacheLocal(t)'
      BY <1>a, <1>b, <1>c, <2>5, <2>7
         DEF CacheLocal, Making, Mallocing, Searching, Freeing, Listed
  <2>9. CacheInv(c)'
      BY <2>2, <2>4, <2>5 DEF CacheInv
  <2>10. \A d \in Cache : d = me[t].cache \/ d = mycache[t] => CacheInv(d)'
      BY <1>0, <1>d, <2>9
  <2> QED  BY <1>a, <1>b, <1>0, <2>4, <2>5, <2>6, <2>8, <2>10 DEF OwnCache, CacheTypes
<1>2. CASE Retired(t)
  <2>1. caches' = [caches EXCEPT ![c] = Null]
      BY <1>2, <1>0 DEF Retired
  <2>2. /\ caches' \in [Cache -> CacheRec \union {Null}] /\ caches'[c] = Null
        /\ \A d \in Cache : caches'[d] = caches[d] \/ d = c
      BY <1>a, <1>c, <2>1 DEF CacheTypes
  <2>3. /\ pc'[t] = "idle" /\ me'[t].n = 0 /\ me'[t].end = 0 /\ me'[t].ms = 0
        /\ me'[t].cache = 0 /\ me'[t].retiring = FALSE /\ me'[t] = NoLocals
      BY <1>2, <1>a DEF Retired, Return, NoLocals, Go, Shapes
  <2>4. Settled(t)'
      BY <2>3 DEF NoLocals, Settled, Index, Place, Early, Making, Mallocing, Searching, Freeing
  <2>5. CacheLocal(t)'
      BY <1>a, <1>b, <1>c, <2>3
         DEF CacheLocal, Making, Mallocing, Searching, Freeing, Listed
  <2>6. CacheInv(c)'
      BY <2>2 DEF CacheInv
  <2>7. \A d \in Cache : d = me[t].cache \/ d = mycache[t] => CacheInv(d)'
      BY <1>0, <1>d, <2>6
  <2> QED  BY <1>a, <1>b, <1>0, <2>2, <2>3, <2>4, <2>5, <2>7 DEF OwnCache, CacheTypes
<1> QED  BY <1>1, <1>2

\* A thread trims its cache, or gives it up for the mspace before the one it used.
LEMMA TrimStep ==
    ASSUME Inv, Inv2, NEW t \in Thread, TrimThreadCache(t)
    PROVE  OwnCache(t)
<1> USE NedPoolAssumption
<1>a. Shapes /\ Ready /\ Settled(t) /\ CacheLocal(t) /\ CacheTypes
    BY DEF Inv, Inv2
<1>b. /\ UNCHANGED <<threads, m, caches>> /\ Exists' = Exists /\ OnlyMoves(t)
      /\ pc[t] = "start" /\ me[t].op \in {"trim", "disable"}
      /\ me[t].cache = 0 /\ ~ me[t].retiring /\ mycache[t] \in Int
    BY <1>a DEF TrimThreadCache, Return, Go, Exists, Shapes, OnlyMoves, At, Settled, CacheLocal,
                Early, Freeing
<1>c. Listed(0)
    BY <1>a, <1>b DEF Ready, Listed, Index, Outside, UnderGlobal
<1>1. CASE mycache[t] > 0
  <2>0. PICK c, ms : c = mycache[t] /\ ms = caches[c].mymspace
      OBVIOUS
  <2>1. Owns(c, t) /\ t \notin off /\ c \in Cache /\ c # 0
      BY <1>1, <1>a, <2>0 DEF CacheLocal, Owns
  <2>2. Listed(ms) /\ ms \in Nat
    <3>1. CacheInv(c)
        BY <2>1 DEF Inv2
    <3> QED  BY <2>0, <2>1, <3>1 DEF CacheInv, Owns, Listed, Index
  <2>3. /\ me' = [me EXCEPT ![t].cache = c] /\ pc'[t] = "drain"
        /\ mycache' = [mycache EXCEPT ![t] = IF me[t].op = "disable" THEN -ms ELSE c]
        /\ off' = IF me[t].op = "disable" /\ ms # 0 THEN off \union {t} ELSE off
    <3>1. me' = [me EXCEPT ![t].cache = c] /\ pc'[t] = "drain"
        BY <1>1, <1>a, <1>b, <2>0 DEF TrimThreadCache, Go, Shapes
    <3>2. mycache' = [mycache EXCEPT ![t] = IF me[t].op = "disable" THEN Stored(ms) ELSE c]
        BY <1>1, <1>b, <2>0 DEF TrimThreadCache
    <3>3. Stored(ms) = -ms
        BY DEF Stored
    <3>4. off' = IF me[t].op = "disable" /\ ms # 0 THEN off \union {t} ELSE off
        BY <1>1, <1>b, <2>0 DEF TrimThreadCache
    <3> QED  BY <3>1, <3>2, <3>3, <3>4
  <2>4. /\ me'[t].n = me[t].n /\ me'[t].end = me[t].end /\ me'[t].ms = me[t].ms
        /\ me'[t].op = me[t].op /\ me'[t].cache = c /\ ~ me'[t].retiring
      BY <1>a, <1>b, <2>3 DEF Shapes, Locals
  <2>5. mycache'[t] = IF me[t].op = "disable" THEN -ms ELSE c
      BY <1>a, <2>3 DEF CacheTypes
  <2>6. Settled(t)'
      BY <1>a, <1>b, <2>1, <2>3, <2>4
         DEF Settled, Place, Early, Making, Mallocing, Searching, Freeing
  <2>7. Owns(c, t)'
      BY <1>b, <2>1 DEF Owns
  <2>8. ASSUME me[t].op = "disable" PROVE CacheLocal(t)'
    <3>1. mycache'[t] = -ms /\ mycache'[t] \in Int /\ mycache'[t] <= 0
        BY <2>2, <2>5, <2>8
    <3>2. ms # 0 => /\ mycache'[t] < 0 /\ MspaceOf(mycache'[t]) = ms - 1
                    /\ Listed(ms - 1)
      <4>1. ms # 0 => -ms < 0 /\ MspaceOf(-ms) = ms - 1 /\ ms - 1 \in 0..ms
          BY <2>2 DEF MspaceOf
      <4>2. \A i \in 0..ms : Listed(i)
          BY <2>2, ListPrefix DEF Listed
      <4> QED  BY <3>1, <4>1, <4>2
    <3>3. ms = 0 => ~ (mycache'[t] < 0)
        BY <2>2, <3>1
    <3>4. Listed(ms - 1)' <=> Listed(ms - 1)
        BY <1>b DEF Listed
    <3> QED
        BY <1>b, <2>1, <2>3, <2>4, <2>7, <2>8, <3>1, <3>2, <3>3, <3>4
           DEF CacheLocal, Making, Mallocing, Searching, Freeing, Listed
  <2>9. ASSUME me[t].op # "disable" PROVE CacheLocal(t)'
      BY <1>1, <1>b, <2>0, <2>1, <2>3, <2>4, <2>5, <2>7, <2>9
         DEF CacheLocal, Making, Mallocing, Searching, Freeing
  <2>10. CacheLocal(t)'
      BY <2>8, <2>9
  <2>11. CacheInv(c)'
      BY <1>b, <2>0, <2>1, <2>2, <2>4 DEF CacheInv, Owns, Listed
  <2>12. \A d \in Cache : d = me[t].cache \/ d = mycache[t] => CacheInv(d)'
      BY <1>b, <2>0, <2>11 DEF Cache
  <2> QED  BY <1>a, <1>b, <2>3, <2>4, <2>6, <2>10, <2>12 DEF OwnCache, CacheTypes
<1>2. CASE mycache[t] <= 0
  <2>1. /\ pc'[t] = "idle" /\ me'[t].n = 0 /\ me'[t].end = 0 /\ me'[t].ms = 0
        /\ me'[t].cache = 0 /\ me'[t].retiring = FALSE /\ me'[t] = NoLocals
    <3>1. Return(t)
        BY <1>2, <1>b DEF TrimThreadCache
    <3>2. pc'[t] = "idle" /\ me'[t] = NoLocals
        BY <3>1, <1>a DEF Return, Go, Shapes
    <3> QED  BY <3>2 DEF NoLocals
  <2>2. /\ mycache' = [mycache EXCEPT ![t] =
                         IF me[t].op = "disable" /\ mycache[t] = 0 THEN AsMspace(0)
                         ELSE mycache[t]]
        /\ off' = IF me[t].op = "disable" THEN off \union {t} ELSE off
      BY <1>2, <1>b DEF TrimThreadCache
  <2>3. mycache'[t] = IF me[t].op = "disable" /\ mycache[t] = 0 THEN AsMspace(0)
                      ELSE mycache[t]
      BY <1>a, <2>2 DEF CacheTypes
  <2>4. Settled(t)'
      BY <2>1 DEF NoLocals, Settled, Index, Place, Early, Making, Mallocing, Searching, Freeing
  <2>5. ASSUME me[t].op = "disable" /\ mycache[t] = 0 PROVE CacheLocal(t)'
      BY <1>b, <1>c, <2>1, <2>3, <2>5, AsMspaceNumber
         DEF CacheLocal, Making, Mallocing, Searching, Freeing, Listed
  <2>6. ASSUME ~ (me[t].op = "disable" /\ mycache[t] = 0) PROVE CacheLocal(t)'
      BY <1>2, <1>a, <1>b, <2>1, <2>2, <2>3, <2>6
         DEF CacheLocal, Making, Mallocing, Searching, Freeing, Listed
  <2>7. CacheLocal(t)'
      BY <2>5, <2>6
  <2>8. \A d \in Cache : d # me[t].cache /\ d # mycache[t]
      BY <1>2, <1>b DEF Cache
  <2> QED  BY <1>a, <1>b, <2>1, <2>2, <2>4, <2>7, <2>8 DEF OwnCache, CacheTypes
<1> QED  BY <1>1, <1>2, <1>b

-----------------------------------------------------------------------------
(* The list of mspaces grows. *)

\* What a step that may add to the list does to the thread that takes it.
Grows(t) ==
    /\ OnlyMoves(t) /\ UNCHANGED <<caches, mycache, off>>
    /\ \A i \in Index : m[i] # Null => m'[i] = m[i]
    /\ ListInv' /\ Settled(t)'
    /\ \/ pc[t] = "initpool" /\ pc'[t] = "start"
       \/ pc[t] \in {"create", "install"} /\ pc'[t] \in {"install", "install_lock", "wait"}
    /\ me'[t].op = me[t].op /\ me'[t].cache = me[t].cache /\ me'[t].retiring = me[t].retiring

LEMMA GrowsInv2 == ASSUME Inv, Inv2, NEW t \in Thread, Grows(t) PROVE Inv2'
<1> USE NedPoolAssumption DEF Grows
<1>a. Settled(t) /\ CacheLocal(t) /\ CacheTypes
    BY DEF Inv2
<1>1. \A i \in Index : Listed(i) => m'[i] # Null
    BY DEF Listed
<1>2. CacheLocal(t)'
    BY <1>a, <1>1
       DEF CacheLocal, Settled, Owns, Listed, Early, Making, Mallocing, Searching, Freeing
<1>3. \A u \in Thread : me'[u].cache = me[u].cache /\ me'[u].retiring = me[u].retiring
    BY DEF OnlyMoves
<1>4. \A c \in Cache : CacheInv(c)'
  <2> SUFFICES ASSUME NEW c \in Cache PROVE CacheInv(c)'
      OBVIOUS
  <2>1. CacheInv(c) /\ caches' = caches /\ mycache' = mycache
      BY DEF Inv2
  <2>2. CASE caches[c] = Null
      BY <2>1, <2>2 DEF CacheInv
  <2>3. CASE caches[c].threadid = 0 /\ \E u \in Thread : me[u].retiring /\ me[u].cache = c
      BY <1>3, <2>1, <2>3 DEF CacheInv
  <2>4. CASE /\ caches[c].threadid \in Thread /\ Listed(caches[c].mymspace)
             /\ \/ mycache[caches[c].threadid] = c
                \/ me[caches[c].threadid].cache = c
    <3>1. me'[caches[c].threadid].cache = me[caches[c].threadid].cache
        BY <1>3, <2>4
    <3>2. Listed(caches[c].mymspace)'
        BY <1>1, <2>1, <2>4 DEF Listed
    <3> QED  BY <2>1, <2>4, <3>1, <3>2 DEF CacheInv
  <2> QED  BY <2>1, <2>2, <2>3, <2>4 DEF CacheInv
<1>5. CacheTypes'
    BY <1>a DEF CacheTypes
<1> QED  BY <1>2, <1>4, <1>5, MoveInv2

\* An mspace that nobody has is one that does not exist yet.
LEMMA FreshIsNew ==
    ASSUME ListInv, Exists # Id, \A t \in InHand : me[t].m \in Id
    PROVE  Fresh \in Id \ Exists
<1>1. Listing \subseteq Id /\ New \subseteq Id
    BY DEF ListInv, Listing, New
<1>2. \E i \in Id : i \notin Exists
    BY <1>1 DEF ListInv
<1> QED  BY <1>2 DEF Fresh

\* The pool's first mspace.
LEMMA InitPoolInv2 == ASSUME Inv, Inv2, NEW t \in Thread, InitPool(t) PROVE Inv2'
<1> USE NedPoolAssumption
<1>a. Shapes /\ Ready /\ Settled(t) /\ CacheLocal(t) /\ ListInv
    BY DEF Inv, Inv2
<1>b. /\ pc[t] = "initpool" /\ pc'[t] = "start" /\ OnlyMoves(t) /\ me' = me
      /\ UNCHANGED <<caches, mycache, off>>
    BY <1>a DEF InitPool, At, Go, Shapes, OnlyMoves
<1>c. me[t].cache = 0 /\ ~ me[t].retiring
    BY <1>a, <1>b DEF Settled, Early, Freeing
<1>1. CASE threads # 0
  <2>1. UNCHANGED <<threads, m>> /\ Exists' = Exists
      BY <1>1 DEF InitPool, Exists
  <2>2. Settled(t)'
      BY <1>a, <1>b, <2>1 DEF Settled, Place, Early, Making, Mallocing, Searching, Freeing
  <2>3. CacheLocal(t)'
      BY <1>a, <1>b, <1>c, <2>1
         DEF CacheLocal, Owns, Listed, Making, Mallocing, Searching, Freeing
  <2> QED  BY <1>b, <2>1, <2>2, <2>3, PlainInv2 DEF Plain
<1>2. CASE threads = 0
  <2>1. Exists = {} /\ (\A u \in Thread : pc[u] \in Outside) /\ \A i \in Index : m[i] = Null
      BY <1>a, <1>2 DEF Ready, Exists, ListInv
  <2>2. InHand = {} /\ InHand' = {} /\ Listing = {}
      BY <1>b, <2>1 DEF InHand, OnlyMoves, Outside, UnderGlobal, Listing
  <2>3. Fresh \in Id
      BY <2>1 DEF Fresh
  <2>4. PICK x : x = Fresh
      OBVIOUS
  <2>5. m' = [m EXCEPT ![0] = x] /\ threads' = MaxThreads /\ Exists' = {x}
      BY <1>2, <2>1, <2>4 DEF InitPool, With, Exists
  <2>6. x \in Id /\ x # Null /\ 0 \in Index /\ MaxThreads \in Index /\ MaxThreads # 0
      BY <2>3, <2>4 DEF Index
  <2>7. /\ m' \in [Index -> Id \union {Null}] /\ m'[0] = x
        /\ \A i \in Index \ {0} : m'[i] = Null
      BY <1>a, <2>1, <2>5, <2>6 DEF ListInv
  <2>8. Listing' = {x} /\ New' = {}
      BY <2>2, <2>6, <2>7 DEF Listing, New
  <2>9. IsFiniteSet(Exists')
      BY <2>5, FS_Singleton
  <2>10. \A i, j \in Index : i < j => j # 0
      BY DEF Index
  <2>11. ListInv'
      BY <2>2, <2>5, <2>6, <2>7, <2>8, <2>9, <2>10 DEF ListInv
  <2>12. Settled(t)'
      BY <1>a, <1>b DEF Settled, Place, Early, Making, Mallocing, Searching, Freeing
  <2>13. \A i \in Index : m[i] # Null => m'[i] = m[i]
      BY <2>1
  <2>14. Grows(t)
      BY <1>b, <2>11, <2>12, <2>13 DEF Grows
  <2> QED  BY <2>14, GrowsInv2
<1> QED  BY <1>1, <1>2

\* A thread makes an mspace; it is in nobody else's hands, and not in the list.
LEMMA CreateInv2 == ASSUME Inv, Inv2, NEW t \in Thread, CreateMspace(t) PROVE Inv2'
<1> USE NedPoolAssumption
<1>a. Shapes /\ Settled(t) /\ CacheLocal(t) /\ ListInv
    BY DEF Inv, Inv2
<1>b. pc[t] = "create" /\ UNCHANGED <<threads, m, caches, mycache, off>> /\ OnlyMoves(t)
    BY <1>a DEF CreateMspace, At, Go, Shapes, OnlyMoves
<1>1. CASE pc'[t] = "wait" /\ UNCHANGED <<used, me>>
  <2>1. Settled(t)'
      BY <1>a, <1>b, <1>1 DEF Settled, Place, Early, Making, Mallocing, Searching, Freeing
  <2>2. CacheLocal(t)'
      BY <1>a, <1>b, <1>1, <2>1
         DEF CacheLocal, Settled, Owns, Listed, Making, Mallocing, Searching, Freeing
  <2> QED  BY <1>1, <1>b, <2>1, <2>2, PlainInv2 DEF Plain, Exists
<1>2. CASE /\ Exists # Id /\ used' = With(used, Fresh, 0)
           /\ me' = [me EXCEPT ![t].m = Fresh] /\ pc'[t] = "install"
  <2>0. PICK x : x = Fresh
      OBVIOUS
  <2>1. x \in Id /\ x \notin Listing /\ x \notin New
    <3>1. x \in Id \ Exists
        BY <1>2, <1>a, <2>0, FreshIsNew DEF ListInv
    <3> QED  BY <1>a, <3>1 DEF ListInv
  <2>2. Exists' = Exists \union {x}
      BY <1>2, <2>0 DEF With, Exists
  <2>3. /\ me'[t].m = x /\ me'[t].ms = me[t].ms /\ me'[t].n = me[t].n
        /\ me'[t].end = me[t].end /\ me'[t].op = me[t].op
        /\ me'[t].cache = me[t].cache /\ me'[t].retiring = me[t].retiring
      BY <1>2, <1>a, <2>0 DEF Shapes, Locals
  <2>4. /\ InHand' = InHand \union {t} /\ t \notin InHand
        /\ \A u \in InHand : u # t /\ me'[u].m = me[u].m
      BY <1>2, <1>b DEF InHand, OnlyMoves
  <2>5. Listing' = Listing /\ New' = New \union {x}
      BY <1>b, <2>3, <2>4 DEF Listing, New
  <2>6. IsFiniteSet(Exists')
      BY <1>a, <2>2, FS_AddElement DEF ListInv
  <2>7. \A u \in InHand : me[u].m \in Id \ Listing /\ me[u].m # x
      BY <1>a, <2>1 DEF ListInv, New
  <2>8. \A u \in InHand' : me'[u].m \in Id \ Listing'
      BY <2>1, <2>3, <2>4, <2>5, <2>7
  <2>9. \A u, v \in InHand' : me'[u].m = me'[v].m => u = v
      BY <1>a, <2>3, <2>4, <2>7 DEF ListInv
  <2>10. Exists' = Listing' \union New'
      BY <1>a, <2>2, <2>5 DEF ListInv
  <2>11. ListInv'
      BY <1>a, <1>b, <2>6, <2>8, <2>9, <2>10 DEF ListInv
  <2>12. Settled(t)'
      BY <1>a, <1>b, <1>2, <2>3
         DEF Settled, Place, Early, Making, Mallocing, Searching, Freeing
  <2>13. Grows(t)
      BY <1>2, <1>b, <2>3, <2>11, <2>12 DEF Grows
  <2> QED  BY <2>13, GrowsInv2
<1> QED  BY <1>1, <1>2, <1>a DEF CreateMspace, Go, Shapes

\* The hands that installing, or discarding, an mspace empties.
LEMMA HandEmptied ==
    ASSUME ListInv, NEW t \in InHand, OnlyMoves(t), pc'[t] # "install"
    PROVE  /\ InHand' = InHand \ {t} /\ \A u \in InHand' : me'[u].m = me[u].m
           /\ New' = New \ {me[t].m}
<1>1. InHand' = InHand \ {t} /\ \A u \in InHand' : me'[u] = me[u]
    BY DEF InHand, OnlyMoves
<1>2. \A u \in InHand : me[u].m = me[t].m <=> u = t
    BY DEF ListInv
<1> QED  BY <1>1, <1>2 DEF New

\* It goes into the first place of the list that is free.
LEMMA InstallInv2 == ASSUME Inv, Inv2, NEW t \in Thread, Install(t) PROVE Inv2'
<1> USE NedPoolAssumption
<1>a. Shapes /\ Ready /\ Settled(t) /\ CacheLocal(t) /\ ListInv
    BY DEF Inv, Inv2
<1>b. /\ pc[t] = "install" /\ pc'[t] = "install_lock" /\ OnlyMoves(t)
      /\ UNCHANGED <<threads, caches, mycache, off>> /\ Exists' = Exists
      /\ t \in InHand
    BY <1>a DEF Install, At, Go, Shapes, OnlyMoves, Exists, InHand
<1>0. PICK x : x = me[t].m
    OBVIOUS
<1>1. PICK end \in Places(me[t].end) :
        /\ m' = [m EXCEPT ![end] = x]
        /\ me' = [me EXCEPT ![t].end = end, ![t].m = Null]
    BY <1>0 DEF Install
<1>2. threads # 0 /\ x \in Id \ Listing /\ x # Null
    BY <1>a, <1>b, <1>0 DEF Ready, Outside, UnderGlobal, ListInv
<1>3. end \in Index /\ end # MaxThreads /\ m[end] = Null /\ me[t].end \in Index
    BY <1>a DEF Places, Settled, Index
<1>4. ASSUME NEW i \in Index, i < end PROVE m[i] # Null
  <2>1. i \in me[t].end..(end - 1) => m[i] # Null
      BY DEF Places
  <2>2. i \in 0..(me[t].end - 1) => m[i] # Null
      BY <1>a, <1>b DEF Settled, Searching
  <2>3. i \in me[t].end..(end - 1) \/ i \in 0..(me[t].end - 1)
      BY <1>3, <1>4 DEF Index
  <2> QED  BY <2>1, <2>2, <2>3
<1>5. m'[end] = x /\ \A i \in Index \ {end} : m'[i] = m[i]
    BY <1>1, <1>3, <1>a DEF ListInv
<1>6. m' \in [Index -> Id \union {Null}] /\ m'[MaxThreads] = Null
  <2>1. MaxThreads \in Index
      BY DEF Index
  <2> QED  BY <1>1, <1>2, <1>3, <1>5, <2>1, <1>a DEF ListInv
<1>7. \A i, j \in Index : i < j /\ m'[j] # Null => m'[i] # Null
  <2> SUFFICES ASSUME NEW i \in Index, NEW j \in Index, i < j, m'[j] # Null
               PROVE  m'[i] # Null
      OBVIOUS
  <2>1. i # j
      BY DEF Index
  <2>2. CASE j = end
      BY <1>4, <1>5, <2>1, <2>2
  <2>3. CASE j # end
      BY <1>2, <1>5, <1>a, <2>3 DEF ListInv
  <2> QED  BY <2>2, <2>3
<1>8. \A i, j \in Index : m'[i] # Null /\ m'[i] = m'[j] => i = j
    BY <1>2, <1>5, <1>a DEF ListInv, Listing
<1>9. Listing' = Listing \union {x}
    BY <1>2, <1>3, <1>5 DEF Listing
<1>10. /\ InHand' = InHand \ {t} /\ \A u \in InHand' : me'[u].m = me[u].m
       /\ New' = New \ {x} /\ x \in New
    BY <1>a, <1>b, <1>0, HandEmptied DEF New
<1>11. \A u \in InHand' : me'[u].m \in Id \ Listing'
    BY <1>a, <1>b, <1>0, <1>9, <1>10 DEF ListInv
<1>12. \A u, v \in InHand' : me'[u].m = me'[v].m => u = v
    BY <1>a, <1>10 DEF ListInv
<1>13. IsFiniteSet(Exists') /\ Exists' = Listing' \union New'
    BY <1>a, <1>b, <1>9, <1>10 DEF ListInv
<1>14. ListInv'
    BY <1>b, <1>2, <1>6, <1>7, <1>8, <1>11, <1>12, <1>13 DEF ListInv
<1>15. /\ me'[t].ms = me[t].ms /\ me'[t].n = me[t].n
       /\ me'[t].end = end /\ me'[t].op = me[t].op
       /\ me'[t].cache = me[t].cache /\ me'[t].retiring = me[t].retiring
    BY <1>1, <1>a DEF Shapes, Locals
<1>16. Settled(t)'
    BY <1>a, <1>b, <1>2, <1>3, <1>5, <1>15
       DEF Settled, Place, Early, Making, Mallocing, Searching, Freeing
<1>17. Grows(t)
    BY <1>b, <1>3, <1>5, <1>14, <1>15, <1>16 DEF Grows
<1> QED  BY <1>17, GrowsInv2

\* Or it is destroyed: there is no place left.
LEMMA DiscardInv2 == ASSUME Inv, Inv2, NEW t \in Thread, Discard(t) PROVE Inv2'
<1> USE NedPoolAssumption
<1>a. Shapes /\ Settled(t) /\ ListInv
    BY DEF Inv, Inv2
<1>b. /\ pc[t] = "install" /\ pc'[t] = "wait" /\ OnlyMoves(t)
      /\ UNCHANGED <<threads, m, caches, mycache, off>> /\ t \in InHand
    BY <1>a DEF Discard, At, Go, Shapes, OnlyMoves, InHand
<1>0. PICK x : x = me[t].m
    OBVIOUS
<1>1. x \notin Listing /\ x \in New
    BY <1>a, <1>b, <1>0 DEF ListInv, New
<1>2. Exists' = Exists \ {x}
    BY <1>0 DEF Discard, Without, Restrict, Exists
<1>3. /\ InHand' = InHand \ {t} /\ \A u \in InHand' : me'[u].m = me[u].m
      /\ New' = New \ {x}
    BY <1>a, <1>b, <1>0, HandEmptied
<1>4. Listing' = Listing
    BY <1>b DEF Listing
<1>5. IsFiniteSet(Exists')
    BY <1>a, <1>2, FS_RemoveElement DEF ListInv
<1>6. Exists' = Listing' \union New'
    BY <1>a, <1>1, <1>2, <1>3, <1>4 DEF ListInv
<1>7. /\ \A u \in InHand' : me'[u].m \in Id \ Listing'
      /\ \A u, v \in InHand' : me'[u].m = me'[v].m => u = v
    BY <1>a, <1>3, <1>4 DEF ListInv
<1>8. ListInv'
    BY <1>a, <1>b, <1>5, <1>6, <1>7 DEF ListInv
<1>9. /\ me'[t].ms = me[t].ms /\ me'[t].n = me[t].n
      /\ me'[t].end = me[t].end /\ me'[t].op = me[t].op
      /\ me'[t].cache = me[t].cache /\ me'[t].retiring = me[t].retiring
    BY <1>a DEF Discard, Shapes, Locals
<1>10. Settled(t)'
    BY <1>a, <1>b, <1>9 DEF Settled, Place, Early, Making, Mallocing, Searching, Freeing
<1>11. Grows(t)
    BY <1>b, <1>8, <1>9, <1>10 DEF Grows
<1> QED  BY <1>11, GrowsInv2

-----------------------------------------------------------------------------
\* abort() is called before the pool has anything.
LEMMA AbortInv2 == ASSUME Inv, Inv2, NEW t \in Thread, InitPoolAborts(t) PROVE Inv2'
<1> USE NedPoolAssumption
<1>a. Shapes /\ Ready /\ CacheTypes /\ ListInv
    BY DEF Inv, Inv2
<1>b. /\ pc' = [u \in Thread |-> "aborted"] /\ me' = me /\ threads = 0
      /\ UNCHANGED <<threads, m, caches, mycache, off>> /\ Exists' = Exists
    BY DEF InitPoolAborts, pool, Exists
<1>1. \A u \in Thread : pc[u] \in Outside /\ pc'[u] = "aborted"
    BY <1>a, <1>b DEF Ready
<1>2. InHand = {} /\ InHand' = {}
    BY <1>1 DEF InHand, Outside, UnderGlobal
<1>3. Listing' = Listing /\ New' = New
    BY <1>b, <1>2 DEF Listing, New
<1>4. ListInv'
    BY <1>a, <1>b, <1>2, <1>3 DEF ListInv
<1>5. ASSUME NEW u \in Thread PROVE Settled(u)' /\ CacheLocal(u)'
  <2>1. Settled(u) /\ CacheLocal(u) /\ pc[u] \in Early /\ pc[u] \notin Freeing
      BY <1>1 DEF Inv2, Outside, UnderGlobal, Early, Freeing
  <2>2. Settled(u)'
      BY <1>b, <1>1, <2>1 DEF Settled, Place, Early, Making, Mallocing, Searching, Freeing
  <2>3. CacheLocal(u)'
      BY <1>b, <1>1, <2>1
         DEF CacheLocal, Settled, Owns, Listed, Making, Mallocing, Searching, Freeing
  <2> QED  BY <2>2, <2>3
<1>6. \A c \in Cache : CacheInv(c)'
    BY <1>b DEF Inv2, CacheInv, Listed
<1>7. \A u, v \in Thread :
        me'[u].retiring /\ me'[v].retiring /\ me'[u].cache = me'[v].cache => u = v
    BY <1>b DEF Inv2
<1>8. CacheTypes'
    BY <1>a, <1>b DEF CacheTypes
<1> QED  BY <1>4, <1>5, <1>6, <1>7, <1>8 DEF Inv2

LEMMA InitInv2 == Init => Inv2
<1> SUFFICES ASSUME Init PROVE Inv2
    OBVIOUS
<1> USE NedPoolAssumption
<1>1. Exists = {} /\ InHand = {} /\ Listing = {} /\ New = {} /\ MaxThreads \in Index
    BY DEF Init, Exists, InHand, Listing, New, Index
<1>2. ListInv
    BY <1>1, FS_EmptySet DEF Init, ListInv
<1>3. CacheTypes /\ \A c \in Cache : CacheInv(c)
    BY DEF Init, CacheTypes, CacheInv, Cache
<1>4. ASSUME NEW t \in Thread PROVE Settled(t) /\ CacheLocal(t) /\ ~ me[t].retiring
  <2>1. pc[t] = "idle" /\ me[t] = NoLocals /\ mycache[t] = 0 /\ off = {}
      BY DEF Init
  <2>2. Settled(t)
      BY <2>1 DEF NoLocals, Settled, Index, Place, Early, Making, Mallocing, Searching, Freeing
  <2>3. CacheLocal(t)
      BY <2>1 DEF NoLocals, CacheLocal, Making, Mallocing, Searching, Freeing
  <2> QED  BY <2>1, <2>2, <2>3 DEF NoLocals
<1> QED  BY <1>2, <1>3, <1>4 DEF Inv2

LEMMA NextInv2 == Inv /\ Inv2 /\ [Next]_vars => Inv2'
<1>1. ASSUME Inv, Inv2, NEW t \in Thread, Begin(t) \/ Step(t) PROVE Inv2'
  <2>1. CASE Plain(t)
      BY <1>1, <2>1, PlainInv2
  <2>2. CASE OwnCache(t)
      BY <1>1, <2>2, OwnCacheInv2
  <2>3. CASE ScanOn(t) \/ Rescan(t) \/ InstallLocks(t)
      BY <1>1, <2>3, SearchSteps
  <2>4. CASE CreateMspace(t) \/ Install(t) \/ Discard(t)
      BY <1>1, <2>4, CreateInv2, InstallInv2, DiscardInv2
  <2>5. CASE InitPool(t) \/ InitPoolAborts(t)
      BY <1>1, <2>5, InitPoolInv2, AbortInv2
  <2> QED  BY <1>1, <2>1, <2>2, <2>3, <2>4, <2>5, PlainSteps, MakingSteps, CountSteps,
              RetireSteps, TrimStep DEF Step
<1>2. ASSUME Inv2, UNCHANGED vars PROVE Inv2'
  <2>1. UNCHANGED <<threads, m, used, caches, mycache, pc, me, off>>
      BY <1>2 DEF vars, pool
  <2>2. \A t \in Thread : Settled(t)' /\ CacheLocal(t)'
      BY <1>2, <2>1 DEF Inv2, Settled, CacheLocal, Owns, Listed
  <2>3. ListInv' /\ CacheTypes'
      BY <1>2, <2>1 DEF Inv2, ListInv, Listing, New, InHand, Exists, CacheTypes
  <2>4. \A c \in Cache : CacheInv(c)'
      BY <1>2, <2>1 DEF Inv2, CacheInv, Listed
  <2> QED  BY <1>2, <2>1, <2>2, <2>3, <2>4 DEF Inv2
<1> QED  BY <1>1, <1>2 DEF Next

\* The invariant gives the properties.
LEMMA ListedOrInHand == Inv2 => MspacesListed
<1> SUFFICES ASSUME Inv2 PROVE MspacesListed
    OBVIOUS
<1> USE NedPoolAssumption
<1>a. ListInv
    BY DEF Inv2
<1>1. \A i \in 1..MaxThreads : m[i] # Null => m[i - 1] # Null
  <2> SUFFICES ASSUME NEW i \in 1..MaxThreads, m[i] # Null PROVE m[i - 1] # Null
      OBVIOUS
  <2>1. i \in Index /\ i - 1 \in Index /\ i - 1 < i
      BY DEF Index
  <2> QED  BY <1>a, <2>1 DEF ListInv
<1>2. IsFiniteSet(Listing) /\ IsFiniteSet(New) /\ Listing \cap New = {}
  <2>1. Listing \in SUBSET Exists /\ New \in SUBSET Exists /\ IsFiniteSet(Exists)
      BY <1>a DEF ListInv
  <2>2. Listing \cap New = {}
      BY <1>a DEF ListInv, New
  <2> QED  BY <2>1, <2>2, FS_Subset
<1>3. Cardinality(InHand) = Cardinality(New)
  <2> DEFINE f == [x \in New |-> CHOOSE t \in InHand : me[t].m = x]
  <2>1. ASSUME NEW x \in New PROVE f[x] \in InHand /\ me[f[x]].m = x
      BY DEF New
  <2>2. ASSUME NEW t \in InHand PROVE me[t].m \in New /\ f[me[t].m] = t
    <3>1. me[t].m \in New
        BY DEF New
    <3>2. f[me[t].m] \in InHand /\ me[f[me[t].m]].m = me[t].m
        BY <2>1, <3>1
    <3> QED  BY <1>a, <3>1, <3>2 DEF ListInv
  <2>3. f \in [New -> InHand]
      BY <2>1
  <2> HIDE DEF f
  <2>4. f \in Bijection(New, InHand)
      BY <2>1, <2>2, <2>3 DEF Bijection, Injection, IsInjective, Surjection
  <2> QED  BY <1>2, <2>4, FS_Bijection DEF ExistsBijection
<1>4. Cardinality(Exists) = Cardinality(Listing) + Cardinality(InHand)
  <2>1. /\ Cardinality(Listing \union New) =
             Cardinality(Listing) + Cardinality(New) - Cardinality(Listing \cap New)
        /\ Cardinality(Listing) \in Nat /\ Cardinality(New) \in Nat
      BY <1>2, FS_Union, FS_CardinalityType
  <2>2. Cardinality(Listing \cap New) = 0
      BY <1>2, FS_EmptySet
  <2> QED  BY <1>3, <1>a, <2>1, <2>2 DEF ListInv
<1>5. /\ m[MaxThreads] = Null
      /\ \A i, j \in Index : m[i] # Null /\ m[i] = m[j] => i = j
      /\ Exists = Listing \union New
    BY <1>a DEF ListInv
<1> QED  BY <1>1, <1>4, <1>5 DEF MspacesListed, Listing, InHand, New

LEMMA OwnByInv2 == Inv2 => CacheIsOwn
<1> SUFFICES ASSUME Inv2 PROVE CacheIsOwn
    OBVIOUS
<1> USE NedPoolAssumption
<1>1. ASSUME NEW t \in Thread
      PROVE  /\ mycache[t] > 0 => caches[mycache[t]] # Null /\ caches[mycache[t]].threadid = t
             /\ mycache[t] < 0 => m[MspaceOf(mycache[t])] # Null
    BY DEF Inv2, CacheLocal, Owns, Listed
<1>2. ASSUME NEW c \in 1..MaxCaches, caches[c] # Null
      PROVE  IF caches[c].threadid = 0
             THEN \E t \in Thread : me[t].retiring /\ me[t].cache = c
             ELSE /\ m[caches[c].mymspace] # Null
                  /\ \/ mycache[caches[c].threadid] = c
                     \/ me[caches[c].threadid].cache = c
    BY <1>2 DEF Inv2, CacheInv, Listed, Cache
<1> QED  BY <1>1, <1>2 DEF CacheIsOwn

\* No step of two threads, in whatever order, leaves a gap in a pool's list of mspaces,
\* lists one twice or loses one: what is not listed is with the thread that has just
\* made it and installs it, or destroys it, under the mutex (FindMSpace).
THEOREM MspacesAreListed == Spec => []MspacesListed
BY InitInv, NextInv, InitInv2, NextInv2, ListedOrInHand, PTL DEF Spec

\* The number a thread keeps always names a cache that is its own, or an mspace of the
\* list, and a cache always has one thread that may use it or is about to free it: what
\* GetThreadCache asserts of a cache it finds, whatever AllocCache, FindMSpace and
\* neddisablethreadcache of other threads did meanwhile.
THEOREM CachesAreOwned == Spec => []CacheIsOwn
BY InitInv, NextInv, InitInv2, NextInv2, OwnByInv2, PTL DEF Spec

\* A parameter that mallopt has set is not reset by a thread late in init_mparams.
Tuned == tuned \in BOOLEAN /\ (tuned => mparams = "changed")

LEMMA TunedStep == Tuned /\ [Next]_vars => Tuned'
<1> SUFFICES ASSUME Tuned, [Next]_vars PROVE Tuned'
    OBVIOUS
<1>1. ASSUME NEW t \in Thread, Begin(t) \/ Step(t) PROVE Tuned'
  <2>1. CASE InitMparams(t)
      BY <2>1 DEF Tuned, InitMparams
  <2>2. CASE ChangeMparam(t)
    <3>1. CASE mparams' = "changed" /\ tuned' = TRUE
        BY <3>1 DEF Tuned
    <3>2. CASE mparams' = mparams /\ tuned' = tuned
        BY <3>2 DEF Tuned
    <3> QED  BY <2>2, <3>1, <3>2 DEF ChangeMparam, process
  <2>3. CASE ~ InitMparams(t) /\ ~ ChangeMparam(t)
    <3>1. UNCHANGED <<mparams, tuned>>
        BY <1>1, <2>3
           DEF Begin, Step, process, EnsureInitialization, EnterInitMparams, EnterInitPool,
               InitPool, InitPoolAborts, GetThreadCache, CacheRefused, AllocCache,
               AllocCacheLocks, CacheMade, CacheFailed, CacheHit, GetMSpace, ScanOn, Rescan,
               CreateMspace, Install, Discard, InstallLocks, WaitForLast, EnterMalloc,
               LeaveMalloc, FreeToCache, EnterFree, LeaveFree, Drain, Drained, Retire, Retired,
               TrimThreadCache, WalkEnters, WalkLeaves, WalkEnds
    <3> QED  BY <3>1 DEF Tuned
  <2> QED  BY <2>1, <2>2, <2>3
<1>2. CASE UNCHANGED vars
    BY <1>2 DEF Tuned, vars, process
<1> QED  BY <1>1, <1>2 DEF Next

LEMMA SettledStay == Inv2 /\ Tuned => SettingsStay
BY DEF Inv2, CacheTypes, CacheLocal, Tuned, SettingsStay

\* A thread that was refused a cache, or gave its own up, goes without from then on
\* (AllocCache, neddisablethreadcache), and what mallopt changed stays changed
\* (init_mparams, change_mparam).
THEOREM SettingsLast == Spec => []SettingsStay
<1>1. Init => Tuned
    BY DEF Init, Tuned
<1> QED  BY <1>1, InitInv, NextInv, InitInv2, NextInv2, TunedStep, SettledStay, PTL DEF Spec

-----------------------------------------------------------------------------
(***************************************************************************)
(* ListExact (NedPoolList), for any number of threads and pools.           *)
(*                                                                         *)
(* Threads that test for a list without its lock find the right answer     *)
(* because whoever is in a call while there is no pool is the only one     *)
(* (AtMostOne): PoolsInv says so, says who holds the lock, and counts the  *)
(* entries of each address (Tally).  An entry that goes is matched with    *)
(* the one that moves into its place (RemovedIs); the list ends in a null  *)
(* until it grows (Array).                                                 *)
(***************************************************************************)

Holding == {"set", "append", "remove", "copy", "stopped"}
Destroying == {"destroy", "lock_remove", "remove"}
Unlisted == {"idle", "create", "list"}
Renewing == {"new", "set"}
Label == Holding \union Destroying \union Unlisted \union Renewing
           \union {"lock", "lock_copy"}

\* The list as an array: its entries, and nulls after them as long as it has not grown.
Array(l) ==
    /\ DOMAIN l = {"size", "length", "list"}
    /\ l.size \in Nat /\ l.length \in Nat /\ l.length <= l.size /\ FirstSize <= l.size
    /\ DOMAIN l.list = 0..l.size
    /\ \A i \in 0..(l.length - 1) : l.list[i] \in Pool
    /\ l.size = FirstSize => \A i \in l.length..l.size : l.list[i] = NULL

EntriesOf(l, p) == {i \in 0..(l.length - 1) : l.list[i] = p}
HeldAs(C, p) == {c \in C : c = p}
Losing(v, p) == {t \in Caller : v[t] = p}

\* The entries of p are the clients' p and the p's on their way out.
Tally(l, C, v, p) ==
    /\ IsFiniteSet(Losing(v, p))
    /\ Cardinality(EntriesOf(l, p)) = Cardinality(HeldAs(C, p)) + Cardinality(Losing(v, p))

AtMostOne == \A t, u \in Caller : at[t] # "idle" /\ at[u] # "idle" => t = u

PoolsInv ==
    /\ at \in [Caller -> Label] /\ victim \in [Caller -> Pool \union {NULL}]
    /\ clients \in SUBSET Pool
    /\ \A t \in Caller : victim[t] # NULL <=> at[t] \in Destroying
    /\ clients = {} => AtMostOne
    /\ poollistlock \in Caller \union {NULL}
    /\ \A t \in Caller : at[t] \in Holding <=> poollistlock = t
    /\ poollist = NULL => clients = {} /\ \A t \in Caller : at[t] \in Unlisted \union Renewing
    /\ poollist # NULL => /\ \A t \in Caller : at[t] \notin Renewing
                          /\ Array(poollist)
                          /\ \A p \in Pool : Tally(poollist, clients, victim, p)

\* No list is NULL, which is any value that is not a record with a list's fields.
NullIsNoList == DOMAIN NULL # {"size", "length", "list"}

-----------------------------------------------------------------------------
LEMMA HeldIs ==
    ASSUME NEW C, NEW p
    PROVE  /\ p \in C => Cardinality(HeldAs(C, p)) = 1
           /\ p \notin C => Cardinality(HeldAs(C, p)) = 0
<1>1. p \in C => HeldAs(C, p) = {p}
  BY DEF HeldAs
<1>2. p \notin C => HeldAs(C, p) = {}
  BY DEF HeldAs
<1> QED
  BY <1>1, <1>2, FS_Singleton, FS_EmptySet

LEMMA EntriesFinite ==
    ASSUME NEW l, Array(l), NEW p
    PROVE  IsFiniteSet(EntriesOf(l, p)) /\ Cardinality(EntriesOf(l, p)) \in Nat
<1>1. EntriesOf(l, p) \in SUBSET (0..(l.length - 1))
  BY DEF EntriesOf
<1>2. IsFiniteSet(0..(l.length - 1))
  <2>1. PICK x, y : x = 0 /\ y = l.length - 1
    OBVIOUS
  <2>2. x \in Int /\ y \in Int
    BY <2>1 DEF Array
  <2>3. IsFiniteSet(x..y)
    BY <2>2, FS_Interval, Zenon
  <2> QED
    BY <2>1, <2>3
<1> QED
  BY <1>1, <1>2, FS_Subset, FS_CardinalityType

\* A larger list has the entries of the one it replaces.
LEMMA GrownIs ==
    ASSUME NEW l, Array(l), NEW g \in Grown(l)
    PROVE  /\ Array(g) /\ g.length = l.length /\ g.length < g.size
           /\ \A i \in 0..(l.length - 1) : g.list[i] = l.list[i]
<1>1. CASE l.length < l.size
  BY <1>1 DEF Grown, Array
<1>2. CASE ~ (l.length < l.size)
  <2>1. PICK spare \in {NULL, Junk} :
          g = [l EXCEPT !.size = @ + 1,
                        !.list = [i \in 0..(l.size + 1) |->
                                    CASE i < l.size -> l.list[i]
                                      [] i = l.size -> NULL
                                      [] OTHER -> spare]]
    BY <1>2 DEF Grown
  <2>2. /\ l.length = l.size /\ l.size \in Nat /\ l.length \in Nat /\ FirstSize <= l.size
        /\ DOMAIN l.list = 0..l.size
        /\ DOMAIN l = {"size", "length", "list"}
        /\ \A i \in 0..(l.length - 1) : l.list[i] \in Pool
    BY <1>2 DEF Array
  <2>3. /\ g.size = l.size + 1 /\ g.length = l.length /\ DOMAIN g = {"size", "length", "list"}
        /\ g.list = [i \in 0..(l.size + 1) |->
                       CASE i < l.size -> l.list[i]
                         [] i = l.size -> NULL
                         [] OTHER -> spare]
    BY <2>1, <2>2
  <2>4. DOMAIN g.list = 0..(l.size + 1) /\ \A i \in 0..(l.length - 1) : g.list[i] = l.list[i]
    BY <2>2, <2>3
  <2>5. g.size # FirstSize
    BY <2>2, <2>3, NedPoolListAssumption
  <2> QED
    BY <2>2, <2>3, <2>4, <2>5, NedPoolListAssumption DEF Array
<1> QED
  BY <1>1, <1>2

\* Of the same entries there are as many.
LEMMA SameEntries ==
    ASSUME NEW l, NEW g, g.length = l.length,
           \A i \in 0..(l.length - 1) : g.list[i] = l.list[i], NEW p
    PROVE  EntriesOf(g, p) = EntriesOf(l, p)
  BY DEF EntriesOf

Extended(g, p) == [g EXCEPT !.list[g.length] = p, !.length = @ + 1]

LEMMA Appended ==
    ASSUME NEW g, Array(g), g.length < g.size, NEW p \in Pool, NEW l, l = Extended(g, p)
    PROVE  /\ Array(l)
           /\ \A q \in Pool : Cardinality(EntriesOf(l, q)) =
                Cardinality(EntriesOf(g, q)) + (IF q = p THEN 1 ELSE 0)
<1>1. /\ DOMAIN g = {"size", "length", "list"} /\ g.size \in Nat /\ g.length \in Nat
      /\ FirstSize <= g.size /\ DOMAIN g.list = 0..g.size
      /\ \A i \in 0..(g.length - 1) : g.list[i] \in Pool
      /\ g.size = FirstSize => \A i \in g.length..g.size : g.list[i] = NULL
  BY DEF Array
<1>2. /\ l.size = g.size /\ l.length = g.length + 1 /\ DOMAIN l = {"size", "length", "list"}
      /\ l.list = [g.list EXCEPT ![g.length] = p]
  BY <1>1 DEF Extended
<1>3. /\ DOMAIN l.list = 0..g.size /\ l.list[g.length] = p
      /\ \A i \in 0..g.size : i # g.length => l.list[i] = g.list[i]
  BY <1>1, <1>2
<1>4. Array(l)
  BY <1>1, <1>2, <1>3 DEF Array
<1>5. ASSUME NEW q \in Pool
      PROVE  Cardinality(EntriesOf(l, q)) =
               Cardinality(EntriesOf(g, q)) + (IF q = p THEN 1 ELSE 0)
  <2>1. ASSUME NEW i PROVE i \in EntriesOf(l, q) <=> i \in EntriesOf(g, q) \/ (i = g.length /\ q = p)
    BY <1>1, <1>2, <1>3 DEF EntriesOf
  <2>2. g.length \notin EntriesOf(g, q)
    BY <1>1 DEF EntriesOf
  <2>3. IsFiniteSet(EntriesOf(g, q)) /\ Cardinality(EntriesOf(g, q)) \in Nat
    BY EntriesFinite
  <2>4. CASE q = p
    <3>1. EntriesOf(l, q) = EntriesOf(g, q) \union {g.length}
      BY <2>1, <2>4
    <3> QED
      BY <2>2, <2>3, <2>4, <3>1, FS_AddElement
  <2>5. CASE q # p
    <3>1. EntriesOf(l, q) = EntriesOf(g, q)
      BY <2>1, <2>5
    <3> QED
      BY <2>3, <2>5, <3>1
  <2> QED
    BY <2>4, <2>5
<1> QED
  BY <1>4, <1>5

LEMMA RemovedIs ==
    ASSUME NEW l, Array(l), NEW n \in 0..(l.length - 1), NEW r, r = Removed(l, n)
    PROVE  /\ Array(r) /\ r.length = l.length - 1
           /\ \A q \in Pool : Cardinality(EntriesOf(r, q)) =
                Cardinality(EntriesOf(l, q)) - (IF q = l.list[n] THEN 1 ELSE 0)
<1>1. /\ DOMAIN l = {"size", "length", "list"} /\ l.size \in Nat /\ l.length \in Nat
      /\ l.length <= l.size /\ FirstSize <= l.size /\ DOMAIN l.list = 0..l.size
      /\ \A i \in 0..(l.length - 1) : l.list[i] \in Pool
      /\ l.size = FirstSize => \A i \in l.length..l.size : l.list[i] = NULL
  BY DEF Array
<1>2. /\ r.size = l.size /\ r.length = l.length - 1 /\ DOMAIN r = {"size", "length", "list"}
      /\ r.list = [i \in DOMAIN l.list |-> IF n <= i /\ i < l.length THEN l.list[i + 1] ELSE l.list[i]]
  BY <1>1 DEF Removed
<1>3. /\ DOMAIN r.list = 0..l.size /\ n \in Nat /\ n < l.length
      /\ \A i \in 0..l.size : r.list[i] = IF n <= i /\ i < l.length THEN l.list[i + 1] ELSE l.list[i]
  BY <1>1, <1>2
<1>4. Array(r)
  <2>1. \A i \in 0..(r.length - 1) : r.list[i] \in Pool
    BY <1>1, <1>2, <1>3
  <2>2. ASSUME r.size = FirstSize, NEW i \in r.length..r.size PROVE r.list[i] = NULL
    <3>1. CASE i = l.length - 1
      <4>1. r.list[i] = l.list[l.length] /\ l.length \in l.length..l.size
        BY <1>1, <1>2, <1>3, <3>1
      <4> QED
        BY <1>1, <1>2, <2>2, <4>1
    <3>2. CASE i # l.length - 1
      <4>1. r.list[i] = l.list[i] /\ i \in l.length..l.size
        BY <1>1, <1>2, <1>3, <3>2
      <4> QED
        BY <1>1, <1>2, <2>2, <4>1
    <3> QED
      BY <3>1, <3>2
  <2> QED
    BY <1>1, <1>2, <1>3, <2>1, <2>2 DEF Array
<1>5. ASSUME NEW q \in Pool
      PROVE  Cardinality(EntriesOf(r, q)) =
               Cardinality(EntriesOf(l, q)) - (IF q = l.list[n] THEN 1 ELSE 0)
  <2> PICK E, S, T, g : /\ E = EntriesOf(l, q) /\ S = E \ {n} /\ T = EntriesOf(r, q)
                        /\ g = [i \in S |-> IF i < n THEN i ELSE i - 1]
    OBVIOUS
  <2>1. IsFiniteSet(E) /\ Cardinality(E) \in Nat
    BY EntriesFinite
  <2>2. \A i : i \in S <=> i \in 0..(l.length - 1) /\ l.list[i] = q /\ i # n
    BY DEF EntriesOf
  <2>3. \A i : i \in T <=> i \in 0..(l.length - 2) /\ r.list[i] = q
    BY <1>1, <1>2 DEF EntriesOf
  <2>4. \A i \in S : g[i] = (IF i < n THEN i ELSE i - 1) /\ i \in Nat /\ i # n
    BY <1>1, <2>2
  <2>5. \A x, y \in S : g[x] = g[y] => x = y
    BY <1>3, <2>4
  <2>6. ASSUME NEW v PROVE v \in T <=> \E x \in S : g[x] = v
    <3>1. ASSUME v \in T, v < n PROVE v \in S /\ g[v] = v
      BY <1>1, <1>3, <2>2, <2>3, <2>4, <3>1
    <3>2. ASSUME v \in T, ~ (v < n) PROVE v + 1 \in S /\ g[v + 1] = v
      <4>0. v \in 0..(l.length - 2) /\ r.list[v] = q
        BY <2>3, <3>2
      <4>1. v \in Nat /\ n <= v /\ v < l.length - 1 /\ l.list[v + 1] = q
        <5>1. /\ l.length \in Nat /\ l.size \in Nat /\ l.length <= l.size /\ n \in Nat
              /\ \A i \in 0..l.size : r.list[i] = IF n <= i /\ i < l.length THEN l.list[i + 1] ELSE l.list[i]
          BY <1>1, <1>3
        <5>2. v \in Nat /\ n <= v /\ v < l.length - 1 /\ v \in 0..l.size /\ v < l.length
          BY <3>2, <4>0, <5>1
        <5> QED
          BY <4>0, <5>1, <5>2
      <4>2. v + 1 \in S
        BY <1>1, <1>3, <2>2, <4>1
      <4> QED
        BY <1>3, <2>4, <4>1, <4>2
    <3>3. ASSUME NEW x \in S, g[x] = v PROVE v \in T
      <4>1. x \in Nat /\ x < l.length /\ l.list[x] = q /\ x # n
        BY <1>1, <2>2
      <4>2. CASE x < n
        BY <1>1, <1>3, <2>3, <2>4, <3>3, <4>1, <4>2
      <4>3. CASE ~ (x < n)
        <5>1. v = x - 1 /\ v \in Nat /\ n <= v /\ v + 1 = x
          BY <1>3, <2>4, <3>3, <4>1, <4>3
        <5>2. r.list[v] = l.list[v + 1]
          BY <1>1, <1>3, <4>1, <5>1
        <5> QED
          BY <1>1, <2>3, <4>1, <5>1, <5>2
      <4> QED
        BY <4>2, <4>3
    <3> QED
      BY <3>1, <3>2, <3>3
  <2>7. g \in [S -> Nat]
    BY <1>3, <2>4
  <2>8. IsFiniteSet(S)
    BY <2>1, FS_RemoveElement
  <2>9. IsFiniteSet(T) /\ Cardinality(T) = Cardinality(S)
    <3>1. OneToOne(g, S, T)
      BY <2>5, <2>6, Zenon DEF OneToOne
    <3> QED
      BY ONLY <2>7, <2>8, <3>1, SameCount
  <2>10. n \in E <=> q = l.list[n]
    BY DEF EntriesOf
  <2>11. Cardinality(S) = IF n \in E THEN Cardinality(E) - 1 ELSE Cardinality(E)
    BY <2>1, FS_RemoveElement
  <2> QED
    BY <2>1, <2>9, <2>10, <2>11
<1> QED
  BY <1>2, <1>4, <1>5

LEMMA IndexIs ==
    ASSUME Array(poollist), NEW p \in Pool, EntriesOf(poollist, p) # {}
    PROVE  IndexOf(p) \in 0..(poollist.length - 1) /\ poollist.list[IndexOf(p)] = p
<1>1. poollist.length \in Nat
  BY DEF Array
<1>2. EntriesOf(poollist, p) \in SUBSET Nat
  BY <1>1 DEF EntriesOf
<1>3. PICK e \in EntriesOf(poollist, p) : \A i \in EntriesOf(poollist, p) : e <= i
  BY <1>2, Least
<1>4. e \in Nat /\ e < poollist.length /\ poollist.list[e] = p
  BY <1>1 DEF EntriesOf
<1>5. \A i \in 0..(e - 1) : poollist.list[i] # p
  <2> SUFFICES ASSUME NEW i \in 0..(e - 1), poollist.list[i] = p PROVE FALSE
    OBVIOUS
  <2>1. i \in EntriesOf(poollist, p) /\ i < e
    BY <1>1, <1>4 DEF EntriesOf
  <2> QED
    BY <1>3, <1>4, <2>1
<1>6. \E n \in 0..poollist.length : /\ n = poollist.length \/ poollist.list[n] = p
                                    /\ \A i \in 0..(n - 1) : poollist.list[i] # p
  <2>1. e \in 0..poollist.length
    BY <1>1, <1>4
  <2> QED
    BY <1>4, <1>5, <2>1
<1>7. PICK n : n = IndexOf(p)
  OBVIOUS
<1>8. /\ n \in 0..poollist.length
      /\ n = poollist.length \/ poollist.list[n] = p
      /\ \A i \in 0..(n - 1) : poollist.list[i] # p
  BY <1>6, <1>7 DEF IndexOf
<1>9. n # poollist.length
  BY <1>1, <1>4, <1>8
<1>10. n \in 0..(poollist.length - 1) /\ poollist.list[n] = p
  <2>1. n \in 0..poollist.length /\ poollist.list[n] = p
    BY <1>8, <1>9
  <2> QED
    BY ONLY <1>1, <1>9, <2>1
<1> QED
  BY <1>7, <1>10

-----------------------------------------------------------------------------
(* The steps. *)

LEMMA InitPools == ListInit => PoolsInv
<1> SUFFICES ASSUME ListInit PROVE PoolsInv
  OBVIOUS
<1>1. at \in [Caller -> Label] /\ \A t \in Caller : at[t] = "idle" /\ victim[t] = NULL
  BY DEF ListInit, Label, Unlisted
<1>2. AtMostOne
  BY <1>1 DEF AtMostOne
<1> QED
  BY <1>1, <1>2, NedPoolListAssumption
     DEF ListInit, PoolsInv, Holding, Destroying, Unlisted, Renewing

\* A step of t by which the lock is where it should be, and alone when no pool is left.
PoolsGuarded(t, label) ==
    /\ Goes(t, label)
    /\ clients = {} /\ at[t] = "idle" => \A u \in Caller \ {t} : at[u] = "idle"
    /\ clients' = {} => clients = {} \/ \A u \in Caller \ {t} : at[u] = "idle"
    /\ \/ label \in Holding /\ poollistlock' = t
          /\ \A u \in Caller \ {t} : at[u] \notin Holding
       \/ label \notin Holding /\ at[t] \in Holding /\ poollistlock' = NULL
       \/ label \notin Holding /\ at[t] \notin Holding /\ poollistlock' = poollistlock

\* A step of t by which the list keeps to the pools there are.
PoolsKept(t, label) ==
    /\ victim' \in [Caller -> Pool \union {NULL}]
    /\ \A u \in Caller \ {t} : victim'[u] = victim[u]
    /\ victim'[t] # NULL <=> label \in Destroying
    /\ clients' \in SUBSET Pool
    /\ poollist' = NULL => clients' = {} /\ label \in Unlisted \union Renewing
                            /\ \A u \in Caller \ {t} : at[u] \in Unlisted \union Renewing
    /\ poollist' # NULL => /\ label \notin Renewing
                           /\ \A u \in Caller \ {t} : at[u] \notin Renewing
                           /\ Array(poollist')
                           /\ \A p \in Pool : Tally(poollist', clients', victim', p)

LEMMA StepBy ==
    ASSUME PoolsInv, NEW t \in Caller, NEW label \in Label, PoolsGuarded(t, label), PoolsKept(t, label)
    PROVE  PoolsInv'
<1>1. /\ at' \in [Caller -> Label] /\ at'[t] = label
      /\ \A u \in Caller \ {t} : at'[u] = at[u]
  BY DEF PoolsGuarded, Goes, PoolsInv
<1>2. \A u \in Caller : victim'[u] # NULL <=> at'[u] \in Destroying
  BY <1>1 DEF PoolsInv, PoolsKept
<1>3. clients' = {} => AtMostOne'
  BY <1>1 DEF PoolsInv, AtMostOne, PoolsGuarded
<1>4. /\ poollistlock' \in Caller \union {NULL}
      /\ \A u \in Caller : at'[u] \in Holding <=> poollistlock' = u
  BY <1>1, NedPoolListAssumption DEF PoolsInv, PoolsGuarded
<1>5. poollist' = NULL => clients' = {} /\ \A u \in Caller : at'[u] \in Unlisted \union Renewing
  BY <1>1 DEF PoolsKept
<1>6. poollist' # NULL => /\ \A u \in Caller : at'[u] \notin Renewing
                          /\ Array(poollist')
                          /\ \A p \in Pool : Tally(poollist', clients', victim', p)
  <2> SUFFICES ASSUME poollist' # NULL
               PROVE  /\ \A u \in Caller : at'[u] \notin Renewing
                      /\ Array(poollist')
                      /\ \A p \in Pool : Tally(poollist', clients', victim', p)
    OBVIOUS
  <2>1. /\ label \notin Renewing
        /\ \A u \in Caller \ {t} : at[u] \notin Renewing
        /\ Array(poollist')
        /\ \A p \in Pool : Tally(poollist', clients', victim', p)
    BY DEF PoolsKept
  <2> QED
    BY <1>1, <2>1
<1> QED
  BY <1>1, <1>2, <1>3, <1>4, <1>5, <1>6 DEF PoolsInv, PoolsKept

\* A step that leaves the list and the pools as they are.
LEMMA PassBy ==
    ASSUME PoolsInv, NEW t \in Caller, NEW label \in Label, PoolsGuarded(t, label),
           UNCHANGED <<poollist, clients, victim>>,
           at[t] \in Destroying <=> label \in Destroying,
           IF poollist = NULL THEN label \in Unlisted \union Renewing ELSE label \notin Renewing
    PROVE  PoolsInv'
<1>1. PoolsKept(t, label)
  BY DEF PoolsKept, PoolsInv
<1> QED
  BY <1>1, StepBy

LEMMA SimpleSteps ==
    ASSUME PoolsInv, NEW t \in Caller,
           \/ BeginCreate(t) \/ BeginList(t) \/ TestList(t) \/ TestListed(t) \/ FreePool(t)
           \/ LockList(t) \/ LockRemove(t) \/ LockCopy(t) \/ Copy(t)
    PROVE  PoolsInv'
<1> USE DEF Holding, Destroying, Unlisted, Renewing
<1>0. Label = {"idle", "create", "list", "new", "set", "lock", "append", "destroy", "lock_remove",
               "remove", "lock_copy", "copy", "stopped"}
  BY DEF Label
<1>1. ASSUME BeginCreate(t) PROVE PoolsInv'
  <2>1. PoolsGuarded(t, "create")
    BY <1>1 DEF BeginCreate, PoolsGuarded, Alone
  <2> QED
    BY <1>0, <1>1, <2>1, PassBy DEF BeginCreate
<1>2. ASSUME BeginList(t) PROVE PoolsInv'
  <2>1. PoolsGuarded(t, "list")
    BY <1>2 DEF BeginList, PoolsGuarded, Alone
  <2> QED
    BY <1>0, <1>2, <2>1, PassBy DEF BeginList
<1>3. ASSUME TestList(t) PROVE PoolsInv'
  <2>1. PoolsGuarded(t, IF poollist = NULL THEN "new" ELSE "lock")
    BY <1>3 DEF TestList, PoolsGuarded
  <2> QED
    BY <1>0, <1>3, <2>1, PassBy DEF TestList
<1>4. ASSUME TestListed(t) PROVE PoolsInv'
  <2>1. PoolsGuarded(t, IF poollist = NULL THEN "idle" ELSE "lock_copy")
    BY <1>4 DEF TestListed, PoolsGuarded
  <2> QED
    BY <1>0, <1>4, <2>1, PassBy DEF TestListed
<1>5. ASSUME FreePool(t) PROVE PoolsInv'
  <2>1. PoolsGuarded(t, "lock_remove") /\ poollist # NULL
    BY <1>5 DEF FreePool, PoolsGuarded, PoolsInv
  <2> QED
    BY <1>0, <1>5, <2>1, PassBy DEF FreePool
<1>6. ASSUME LockList(t) PROVE PoolsInv'
  <2>1. PoolsGuarded(t, "append") /\ poollist # NULL
    BY <1>6, NedPoolListAssumption DEF LockList, PoolsGuarded, PoolsInv
  <2> QED
    BY <1>0, <1>6, <2>1, PassBy DEF LockList
<1>7. ASSUME LockRemove(t) PROVE PoolsInv'
  <2>1. PoolsGuarded(t, "remove") /\ poollist # NULL
    BY <1>7, NedPoolListAssumption DEF LockRemove, PoolsGuarded, PoolsInv
  <2> QED
    BY <1>0, <1>7, <2>1, PassBy DEF LockRemove
<1>8. ASSUME LockCopy(t) PROVE PoolsInv'
  <2>1. PoolsGuarded(t, "copy") /\ poollist # NULL
    BY <1>8, NedPoolListAssumption DEF LockCopy, PoolsGuarded, PoolsInv
  <2> QED
    BY <1>0, <1>8, <2>1, PassBy DEF LockCopy
<1>9. ASSUME Copy(t) PROVE PoolsInv'
  <2>1. PoolsGuarded(t, "idle")
    BY <1>9 DEF Copy, PoolsGuarded
  <2> QED
    BY <1>0, <1>9, <2>1, PassBy DEF Copy
<1> QED
  BY <1>1, <1>2, <1>3, <1>4, <1>5, <1>6, <1>7, <1>8, <1>9

\* The maker of a list is alone.
LEMMA NewListPools ==
    ASSUME PoolsInv, NEW t \in Caller, NewList(t)
    PROVE  PoolsInv'
<1> USE DEF Holding, Destroying, Unlisted, Renewing
<1>1. poollist = NULL /\ clients = {} /\ \A u \in Caller \ {t} : at[u] = "idle"
  BY DEF NewList, PoolsInv, AtMostOne
<1>2. CASE poollistlock' = t /\ Goes(t, "set")
  <2>1. PoolsGuarded(t, "set")
    BY <1>1, <1>2 DEF PoolsGuarded, NewList
  <2> QED
    BY <1>1, <1>2, <2>1, PassBy DEF NewList, Label
<1>3. CASE UNCHANGED poollistlock /\ Goes(t, "idle")
  <2>1. PoolsGuarded(t, "idle")
    BY <1>1, <1>3 DEF PoolsGuarded, NewList
  <2> QED
    BY <1>1, <1>3, <2>1, PassBy DEF NewList, Label
<1> QED
  BY <1>2, <1>3 DEF NewList

LEMMA NoEntries ==
    ASSUME NEW l, l.length = 0, NEW v, NEW p, \A t \in Caller : v[t] # p
    PROVE  Tally(l, {}, v, p)
<1>1. EntriesOf(l, p) = {} /\ HeldAs({}, p) = {} /\ Losing(v, p) = {}
  BY DEF EntriesOf, HeldAs, Losing
<1> QED
  BY <1>1, FS_EmptySet DEF Tally

LEMMA SetListPools ==
    ASSUME NullIsNoList, PoolsInv, NEW t \in Caller, SetList(t)
    PROVE  PoolsInv'
<1> USE DEF Holding, Destroying, Unlisted, Renewing
<1>1. poollist = NULL /\ clients = {} /\ \A u \in Caller \ {t} : at[u] = "idle"
  BY DEF SetList, PoolsInv, AtMostOne
<1>2. PICK l : l = [size |-> FirstSize, length |-> 0, list |-> [i \in 0..FirstSize |-> NULL]]
  OBVIOUS
<1>3. /\ l.size = FirstSize /\ l.length = 0 /\ l.list = [i \in 0..FirstSize |-> NULL]
      /\ DOMAIN l = {"size", "length", "list"}
  BY <1>2
<1>4. l # NULL
  BY <1>3 DEF NullIsNoList
<1>5. Array(l)
  BY <1>3, NedPoolListAssumption DEF Array
<1>6. \A u \in Caller : victim[u] = NULL
  BY <1>1 DEF PoolsInv
<1>7. \A p \in Pool : Tally(l, {}, victim, p)
  BY <1>3, <1>6, NoEntries, NedPoolListAssumption
<1>8. PoolsGuarded(t, "append")
  BY <1>1 DEF PoolsGuarded, SetList, PoolsInv
<1>9. poollist' = l /\ clients' = {} /\ victim' = victim
  BY <1>1, <1>2 DEF SetList
<1>10. PoolsKept(t, "append")
  BY <1>1, <1>4, <1>5, <1>6, <1>7, <1>9 DEF PoolsKept, PoolsInv
<1> QED
  BY <1>8, <1>10, StepBy DEF Label

\* Destroying a pool moves it from the clients to those on their way out.
LEMMA BeginDestroyPools ==
    ASSUME PoolsInv, NEW t \in Caller, BeginDestroy(t)
    PROVE  PoolsInv'
<1> USE DEF Holding, Destroying, Unlisted, Renewing
<1>1. PICK q \in clients : /\ clients = {q} => Alone(t)
                           /\ clients' = clients \ {q}
                           /\ victim' = [victim EXCEPT ![t] = q]
  BY DEF BeginDestroy
<1>2. /\ at[t] = "idle" /\ Goes(t, "destroy") /\ poollist' = poollist
      /\ poollistlock' = poollistlock /\ poollist # NULL /\ q \in Pool /\ q # NULL
  BY NedPoolListAssumption DEF BeginDestroy, PoolsInv
<1>3. /\ victim' \in [Caller -> Pool \union {NULL}] /\ victim'[t] = q /\ victim[t] = NULL
      /\ \A u \in Caller \ {t} : victim'[u] = victim[u]
  BY <1>1, <1>2 DEF PoolsInv
<1>4. PoolsGuarded(t, "destroy")
  BY <1>1, <1>2 DEF PoolsGuarded, Alone
<1>5. ASSUME NEW p \in Pool PROVE Tally(poollist, clients', victim', p)
  <2>1. Tally(poollist, clients, victim, p)
    BY <1>2 DEF PoolsInv
  <2>2. CASE p # q
    <3>1. HeldAs(clients', p) = HeldAs(clients, p)
      BY <1>1, <2>2 DEF HeldAs
    <3>2. Losing(victim', p) = Losing(victim, p)
      BY <1>3, <2>2, NedPoolListAssumption DEF Losing
    <3> QED
      BY <2>1, <3>1, <3>2 DEF Tally
  <2>3. CASE p = q
    <3>1. Cardinality(HeldAs(clients, p)) = 1 /\ Cardinality(HeldAs(clients', p)) = 0
      BY <1>1, <2>3, HeldIs
    <3>2. Losing(victim', p) = Losing(victim, p) \union {t} /\ t \notin Losing(victim, p)
      BY <1>2, <1>3, <2>3 DEF Losing
    <3>3. IsFiniteSet(Losing(victim, p)) /\ Cardinality(Losing(victim, p)) \in Nat
      BY <2>1, FS_CardinalityType DEF Tally
    <3>4. /\ IsFiniteSet(Losing(victim', p))
          /\ Cardinality(Losing(victim', p)) = Cardinality(Losing(victim, p)) + 1
      BY <3>2, <3>3, FS_AddElement
    <3> QED
      BY <2>1, <3>1, <3>3, <3>4 DEF Tally
  <2> QED
    BY <2>2, <2>3
<1>6. PoolsKept(t, "destroy")
  <2>1. clients' \in SUBSET Pool /\ Array(poollist) /\ \A u \in Caller : at[u] \notin Renewing
    BY <1>1, <1>2 DEF PoolsInv
  <2> QED
    BY <1>2, <1>3, <1>5, <2>1 DEF PoolsKept
<1> QED
  BY <1>4, <1>6, StepBy DEF Label

LEMMA AppendPools ==
    ASSUME NullIsNoList, PoolsInv, NEW t \in Caller, Append(t)
    PROVE  PoolsInv'
<1> USE DEF Holding, Destroying, Unlisted, Renewing
<1>1. /\ at[t] = "append" /\ Goes(t, "idle") /\ poollistlock' = NULL /\ victim' = victim
      /\ poollist # NULL /\ Array(poollist)
  BY DEF Append, PoolsInv
<1>2. PICK g \in Grown(poollist), q \in Pool \ Allocated :
        /\ poollist' = [g EXCEPT !.list[g.length] = q, !.length = @ + 1]
        /\ clients' = clients \union {q}
  BY DEF Append
<1>3. /\ Array(g) /\ g.length = poollist.length /\ g.length < g.size
      /\ \A i \in 0..(poollist.length - 1) : g.list[i] = poollist.list[i]
  BY <1>1, GrownIs
<1>4. /\ Array(poollist')
      /\ \A p \in Pool : Cardinality(EntriesOf(poollist', p)) =
           Cardinality(EntriesOf(g, p)) + (IF p = q THEN 1 ELSE 0)
  <2>1. PICK l : l = poollist'
    OBVIOUS
  <2>2. l = Extended(g, q)
    BY <1>2, <2>1 DEF Extended
  <2>3. /\ Array(l)
        /\ \A p \in Pool : Cardinality(EntriesOf(l, p)) =
             Cardinality(EntriesOf(g, p)) + (IF p = q THEN 1 ELSE 0)
    <3>1. q \in Pool
      OBVIOUS
    <3> QED
      BY <1>3, <2>2, <3>1, Appended
  <2> QED
    BY <2>1, <2>3
<1>5. poollist' # NULL
  BY <1>4 DEF Array, NullIsNoList
<1>6. q \notin clients /\ q \in Pool
  BY DEF Allocated
<1>7. ASSUME NEW p \in Pool PROVE Tally(poollist', clients', victim', p)
  <2>1. Tally(poollist, clients, victim, p)
    BY <1>1 DEF PoolsInv
  <2>2. EntriesOf(g, p) = EntriesOf(poollist, p)
    BY <1>3, SameEntries
  <2>3. Cardinality(HeldAs(clients', p)) = Cardinality(HeldAs(clients, p)) + (IF p = q THEN 1 ELSE 0)
    <3>1. CASE p = q
      BY <1>2, <1>6, <3>1, HeldIs
    <3>2. CASE p # q
      <4>1. HeldAs(clients', p) = HeldAs(clients, p)
        BY <1>2, <3>2 DEF HeldAs
      <4>2. Cardinality(HeldAs(clients, p)) \in Nat
        BY HeldIs
      <4> QED
        BY <3>2, <4>1, <4>2
    <3> QED
      BY <3>1, <3>2
  <2>4. Cardinality(HeldAs(clients, p)) \in Nat /\ Cardinality(Losing(victim, p)) \in Nat
    BY <2>1, HeldIs, FS_CardinalityType DEF Tally
  <2>5. Cardinality(EntriesOf(poollist', p)) = Cardinality(EntriesOf(g, p)) + (IF p = q THEN 1 ELSE 0)
    BY <1>4
  <2> QED
    BY <1>1, <2>1, <2>2, <2>3, <2>4, <2>5 DEF Tally
<1>8. PoolsGuarded(t, "idle")
  BY <1>1, <1>2 DEF PoolsGuarded
<1>9. PoolsKept(t, "idle")
  <2>1. /\ clients' \in SUBSET Pool /\ \A u \in Caller : at[u] \notin Renewing
        /\ victim \in [Caller -> Pool \union {NULL}] /\ victim[t] = NULL
    BY <1>1, <1>2 DEF PoolsInv
  <2> QED
    BY <1>1, <1>4, <1>5, <1>7, <2>1 DEF PoolsKept
<1> QED
  BY <1>8, <1>9, StepBy DEF Label

LEMMA AppendFailsPools ==
    ASSUME NullIsNoList, PoolsInv, NEW t \in Caller, AppendFails(t)
    PROVE  PoolsInv'
<1> USE DEF Holding, Destroying, Unlisted, Renewing
<1>1. /\ at[t] = "append" /\ Goes(t, "idle") /\ poollistlock' = NULL /\ victim' = victim
      /\ clients' = clients /\ poollist # NULL /\ Array(poollist)
  BY DEF AppendFails, PoolsInv
<1>2. PoolsGuarded(t, "idle")
  BY <1>1 DEF PoolsGuarded
<1>3. CASE poollist' = poollist
  BY <1>1, <1>2, <1>3, PassBy DEF Label
<1>4. ASSUME NEW g \in Grown(poollist), poollist' = g PROVE PoolsInv'
  <2>1. /\ Array(g) /\ g.length = poollist.length
        /\ \A i \in 0..(poollist.length - 1) : g.list[i] = poollist.list[i]
    BY <1>1, GrownIs
  <2>2. g # NULL
    BY <2>1 DEF Array, NullIsNoList
  <2>3. ASSUME NEW p \in Pool PROVE Tally(g, clients, victim, p)
    <3>1. Tally(poollist, clients, victim, p)
      BY <1>1 DEF PoolsInv
    <3>2. EntriesOf(g, p) = EntriesOf(poollist, p)
      BY <2>1, SameEntries
    <3> QED
      BY <3>1, <3>2 DEF Tally
  <2>4. PoolsKept(t, "idle")
    BY <1>1, <1>4, <2>1, <2>2, <2>3 DEF PoolsKept, PoolsInv
  <2> QED
    BY <1>2, <2>4, StepBy DEF Label
<1> QED
  BY <1>3, <1>4 DEF AppendFails

\* An entry goes, and the list with the last of them, unless the assertion stops the
\* program first.
LEMMA RemovePools ==
    ASSUME NullIsNoList, PoolsInv, NEW t \in Caller, Remove(t) \/ RemoveStops(t)
    PROVE  PoolsInv'
<1> USE DEF Holding, Destroying, Unlisted, Renewing
<1>1. /\ at[t] = "remove" /\ victim' = [victim EXCEPT ![t] = NULL]
      /\ clients' = clients /\ victim[t] # NULL
      /\ poollist # NULL /\ Array(poollist)
  BY DEF Remove, RemoveStops, PoolsInv
<1>2. PICK q : q = victim[t]
  OBVIOUS
<1>3. q \in Pool /\ q # NULL /\ victim \in [Caller -> Pool \union {NULL}]
  BY <1>1, <1>2 DEF PoolsInv
<1>4. /\ victim' \in [Caller -> Pool \union {NULL}] /\ victim'[t] = NULL
      /\ \A u \in Caller \ {t} : victim'[u] = victim[u]
  BY <1>1, <1>3
<1>5. \A p \in Pool : Tally(poollist, clients, victim, p)
  BY <1>1 DEF PoolsInv
<1>6. EntriesOf(poollist, q) # {}
  <2>1. t \in Losing(victim, q) /\ IsFiniteSet(Losing(victim, q))
    BY <1>2, <1>3, <1>5 DEF Losing, Tally
  <2>2. Cardinality(Losing(victim, q)) \in Nat /\ Cardinality(Losing(victim, q)) # 0
    BY <2>1, FS_CardinalityType, FS_EmptySet
  <2>3. Cardinality(HeldAs(clients, q)) \in Nat
    BY HeldIs
  <2>4. Cardinality(EntriesOf(poollist, q)) # 0
    BY <1>3, <1>5, <2>2, <2>3 DEF Tally
  <2> QED
    BY <2>4, FS_EmptySet
<1>7. PICK n, r : n = IndexOf(q) /\ r = Removed(poollist, n)
  OBVIOUS
<1>8. n \in 0..(poollist.length - 1) /\ poollist.list[n] = q
  BY <1>1, <1>3, <1>6, <1>7, IndexIs
<1>9. /\ Array(r) /\ r.length = poollist.length - 1
      /\ \A p \in Pool : Cardinality(EntriesOf(r, p)) =
           Cardinality(EntriesOf(poollist, p)) - (IF p = q THEN 1 ELSE 0)
  BY <1>1, <1>7, <1>8, RemovedIs
<1>10. Remove(t) => poollist' = IF r.length = 0 THEN NULL ELSE r
  BY <1>2, <1>7 DEF Remove
<1>11. r # NULL
  BY <1>9 DEF Array, NullIsNoList
<1>12. ASSUME NEW p \in Pool PROVE Tally(r, clients, victim', p)
  <2>1. Tally(poollist, clients, victim, p)
    BY <1>5
  <2>2. Cardinality(EntriesOf(r, p)) = Cardinality(EntriesOf(poollist, p)) - (IF p = q THEN 1 ELSE 0)
    BY <1>9
  <2>3. CASE p # q
    <3>1. Losing(victim', p) = Losing(victim, p)
      BY <1>2, <1>4, <2>3, NedPoolListAssumption DEF Losing
    <3>2. Cardinality(EntriesOf(poollist, p)) \in Nat
      BY <1>1, EntriesFinite
    <3> QED
      BY <2>1, <2>2, <2>3, <3>1, <3>2 DEF Tally
  <2>4. CASE p = q
    <3>1. Losing(victim', p) = Losing(victim, p) \ {t} /\ t \in Losing(victim, p)
      BY <1>2, <1>3, <1>4, <2>4 DEF Losing
    <3>2. IsFiniteSet(Losing(victim, p)) /\ Cardinality(Losing(victim, p)) \in Nat
      BY <2>1, FS_CardinalityType DEF Tally
    <3>3. /\ IsFiniteSet(Losing(victim', p))
          /\ Cardinality(Losing(victim', p)) = Cardinality(Losing(victim, p)) - 1
      BY <3>1, <3>2, FS_RemoveElement
    <3>4. Cardinality(HeldAs(clients, p)) \in Nat
      BY HeldIs
    <3> QED
      BY <2>1, <2>2, <2>4, <3>2, <3>3, <3>4 DEF Tally
  <2> QED
    BY <2>3, <2>4
<1>13. ASSUME r.length = 0
       PROVE  clients = {} /\ \A u \in Caller : victim'[u] = NULL
  <2>1. ASSUME NEW p \in Pool PROVE p \notin clients /\ Losing(victim', p) = {}
    <3>1. EntriesOf(r, p) = {}
      BY <1>13 DEF EntriesOf
    <3>2. Cardinality(EntriesOf(r, p)) = 0
      BY <3>1, FS_EmptySet
    <3>3. /\ IsFiniteSet(Losing(victim', p)) /\ Cardinality(Losing(victim', p)) \in Nat
          /\ Cardinality(EntriesOf(r, p)) = Cardinality(HeldAs(clients, p)) + Cardinality(Losing(victim', p))
      BY <1>12, FS_CardinalityType DEF Tally
    <3>4. Cardinality(HeldAs(clients, p)) \in {0, 1} /\ (p \in clients => Cardinality(HeldAs(clients, p)) = 1)
      BY HeldIs
    <3>5. p \notin clients /\ Cardinality(Losing(victim', p)) = 0
      BY <3>2, <3>3, <3>4
    <3> QED
      BY <3>3, <3>5, FS_EmptySet
  <2>2. clients \in SUBSET Pool
    BY DEF PoolsInv
  <2>3. ASSUME NEW u \in Caller, victim'[u] # NULL PROVE FALSE
    <3>1. victim'[u] \in Pool /\ u \in Losing(victim', victim'[u])
      BY <1>4, <2>3 DEF Losing
    <3> QED
      BY <2>1, <3>1
  <2> QED
    BY <2>1, <2>2, <2>3
<1>14. clients \in SUBSET Pool /\ \A u \in Caller : at[u] \notin Renewing
  BY <1>1 DEF PoolsInv
<1>15. ASSUME Remove(t) PROVE PoolsInv'
  <2>1. PoolsGuarded(t, "idle")
    BY <1>1, <1>15 DEF PoolsGuarded, Remove
  <2>2. PoolsKept(t, "idle")
    <3>1. CASE r.length = 0
      <4>1. \A u \in Caller \ {t} : at[u] = "idle"
        BY <1>1, <1>13, <3>1 DEF PoolsInv, AtMostOne
      <4> QED
        BY <1>1, <1>4, <1>10, <1>13, <1>15, <3>1, <4>1 DEF PoolsKept
    <3>2. CASE r.length # 0
      BY <1>1, <1>4, <1>9, <1>10, <1>11, <1>12, <1>14, <1>15, <3>2 DEF PoolsKept
    <3> QED
      BY <3>1, <3>2
  <2> QED
    BY <2>1, <2>2, StepBy DEF Label
<1>16. ASSUME RemoveStops(t) PROVE PoolsInv'
  <2>1. poollist' = r /\ Goes(t, "stopped") /\ poollistlock' = poollistlock
    BY <1>2, <1>7, <1>16 DEF RemoveStops
  <2>2. PoolsGuarded(t, "stopped")
    BY <1>1, <2>1 DEF PoolsGuarded, PoolsInv
  <2>3. PoolsKept(t, "stopped")
    BY <1>1, <1>4, <1>9, <1>11, <1>12, <1>14, <2>1 DEF PoolsKept
  <2> QED
    BY <2>2, <2>3, StepBy DEF Label
<1> QED
  BY <1>15, <1>16

LEMMA ListNextPools ==
    ASSUME NullIsNoList, PoolsInv, [ListNext]_listvars
    PROVE  PoolsInv'
<1>1. CASE UNCHANGED listvars
  BY <1>1 DEF listvars, PoolsInv, AtMostOne
<1>2. ASSUME NEW t \in Caller, ListStep(t) PROVE PoolsInv'
  BY <1>2, SimpleSteps, BeginDestroyPools, NewListPools, SetListPools, AppendPools,
     AppendFailsPools, RemovePools DEF ListStep
<1> QED
  BY <1>1, <1>2 DEF ListNext

LEMMA PoolsInvExact == PoolsInv => ListExact
<1> SUFFICES ASSUME PoolsInv PROVE ListExact
  OBVIOUS
<1>1. ASSUME NEW t \in Caller, at[t] \in {"append", "remove", "copy", "stopped"}
      PROVE  poollist # NULL /\ poollistlock = t
  BY <1>1 DEF PoolsInv, Holding, Unlisted, Renewing
<1>2. ASSUME poollist = NULL PROVE clients = {} /\ \A t \in Caller : victim[t] = NULL
  BY <1>2 DEF PoolsInv, Destroying, Unlisted, Renewing
<1>3. ASSUME poollist # NULL
      PROVE  /\ poollist.length <= poollist.size
             /\ \A p \in Pool :
                  Cardinality({i \in 0..(poollist.length - 1) : poollist.list[i] = p})
                  = Cardinality({c \in clients : c = p})
                    + Cardinality({t \in Caller : victim[t] = p})
             /\ poollist.list[poollist.length] # NULL => poollist.size > FirstSize
  <2>1. Array(poollist) /\ \A p \in Pool : Tally(poollist, clients, victim, p)
    BY <1>3 DEF PoolsInv
  <2>2. \A p \in Pool :
           Cardinality({i \in 0..(poollist.length - 1) : poollist.list[i] = p})
           = Cardinality({c \in clients : c = p})
             + Cardinality({t \in Caller : victim[t] = p})
    BY <2>1 DEF Tally, EntriesOf, HeldAs, Losing
  <2>3. poollist.list[poollist.length] # NULL => poollist.size > FirstSize
    BY <2>1, NedPoolListAssumption DEF Array
  <2> QED
    BY <2>1, <2>2, <2>3 DEF Array
<1> QED
  BY <1>1, <1>2, <1>3 DEF ListExact

\* The list of pools has every pool of the process, and those only whose destruction has
\* not come to it, however many threads create, destroy and list pools; whoever holds
\* its lock finds a list, and the pool that neddestroypool looks for is in it; only a
\* list that has grown may lack its end and fail the assertion made as it is emptied.
\* A list is a record here and no list is NULL; that they differ is NullIsNoList.
THEOREM PoolsAreListed ==
    ASSUME NullIsNoList
    PROVE  ListSpec => []ListExact
<1>1. PoolsInv /\ [ListNext]_listvars => PoolsInv'
  BY ListNextPools
<1> QED
  BY <1>1, InitPools, PoolsInvExact, PTL DEF ListSpec

-----------------------------------------------------------------------------
(* Blocks.  The property adds up folds, over the caches and over the       *)
(* blocks of one cache.  A fold is by definition a value chosen to satisfy *)
(* a recursive equation; Lemmas_proofs shows it to be the number of        *)
(* elements of a set, with as many for each cache as it has blocks         *)
(* (CachedSum, FunctionSum).  What one step changes is then a matter of    *)
(* finite sets.                                                            *)

\* The blocks of mspace i in the caches: cache by cache, and as the property adds them.
CachedOf(i) == [c \in Cache |-> IF caches[c] = Null THEN 0 ELSE caches[c].blocks[i]]
Live == {c \in Cache : caches[c] # Null}
BStep(i, S, h) ==
    [T \in SUBSET S |-> IF T = {} THEN 0 ELSE caches[Pick(T)].blocks[i] + h[T \ {Pick(T)}]]

LEMMA CachesFinite == IsFiniteSet(Cache)
<1>1. 1 \in Int /\ MaxCaches \in Int
    BY NedPoolAssumption
<1> QED  BY <1>1, FS_Interval DEF Cache

LEMMA CachedSum ==
    ASSUME NEW i, \A c \in Live : caches[c].blocks[i] \in Nat
    PROVE  MapThenSumSet(LAMBDA c : caches[c].blocks[i], Live) = Sum(CachedOf(i), Cache)
<1>1. \E g : /\ g = (CHOOSE h : h = BStep(i, Live, h))
             /\ MapThenSumSet(LAMBDA c : caches[c].blocks[i], Live) = g[Live]
    BY DEF MapThenSumSet, MapThenFoldSet, BStep, Pick
<1>2. PICK f : f = CachedOf(i)
    OBVIOUS
<1>3. /\ \A c \in Cache : f[c] \in Nat /\ (caches[c] = Null => f[c] = 0)
      /\ \A c \in Live : f[c] = caches[c].blocks[i]
    BY <1>2 DEF CachedOf, Live
<1>4. IsFiniteSet(Live) /\ IsFiniteSet(Cache) /\ \A c \in Live : f[c] \in Nat
  <2>1. IsFiniteSet(Cache)
      BY CachesFinite
  <2>2. Live \in SUBSET Cache
      BY DEF Live
  <2> QED  BY <1>3, <2>1, <2>2, FS_Subset
<1>5. \A h : BStep(i, Live, h) = Adding(f, Live, h)
  <2> SUFFICES ASSUME NEW h, NEW T \in SUBSET Live, T # {}
               PROVE  caches[Pick(T)].blocks[i] = f[Pick(T)]
      BY DEF BStep, Adding
  <2> QED  BY <1>3, PickIn
<1>6. PICK g : /\ g = BStep(i, Live, g)
               /\ MapThenSumSet(LAMBDA c : caches[c].blocks[i], Live) = g[Live]
  <2>1. \E h : h = BStep(i, Live, h)
      BY <1>4, <1>5, AddingIsSum
  <2> QED  BY <1>1, <2>1
<1>7. g[Live] = Sum(f, Live)
    BY <1>4, <1>5, <1>6, AddingIsSum
<1>8. Shares(f, Live) = Shares(f, Cache)
    BY <1>3 DEF Shares, Live
<1> QED  BY <1>2, <1>6, <1>7, <1>8 DEF Sum

\* What SumFunction adds up.
LEMMA FunctionSum ==
    ASSUME NEW S, IsFiniteSet(S), NEW f \in [S -> Nat]
    PROVE  SumFunction(f) = Sum(f, S)
<1>1. \E g : g = (CHOOSE h : h = Adding(f, S, h)) /\ SumFunction(f) = g[S]
    BY DEF SumFunction, SumFunctionOnSet, FoldFunctionOnSet, MapThenFoldSet, Adding, Pick
<1>2. \E h : h = Adding(f, S, h)
    BY AddingIsSum
<1>3. \E g : g = Adding(f, S, g) /\ SumFunction(f) = g[S]
    BY <1>1, <1>2
<1> QED  BY <1>3, AddingIsSum

-----------------------------------------------------------------------------
(* The invariant. *)

UsedOf(i) == IF i \in Exists THEN used[i] ELSE 0
InCaches(i) == Sum(CachedOf(i), Cache)
Returning(i) == {t \in Thread : me[t].block = i /\ ~ me[t].retiring}
\* The caches that are still blocks of the first mspace.
Kept == {c \in Cache : /\ caches[c] # Null
                       /\ \A t \in Thread : pc[t] = "retire" => me[t].cache # c}
KeptIn(i) == IF i = m[0] THEN Cardinality(Kept) ELSE 0

Books(i) == UsedOf(i) = held[i] + InCaches(i) + Cardinality(Returning(i)) + KeptIn(i)

BlockTypes ==
    held \in [Id -> Nat] /\ \A c \in Live : \A i \in Id : caches[c].blocks[i] \in Nat

\* Where a thread has a block in hand, and what it knows of the mspace it is in.
BlockLocal(t) ==
    /\ me[t].block \in Id \union {Null}
    /\ me[t].block # Null <=>
         \/ pc[t] \in {"free", "free_lock", "free_in"}
         \/ pc[t] \in {"start", "alloc", "alloc_lock", "alloc_in"} /\ me[t].op = "free"
    /\ pc[t] \in {"ensure", "mparams", "mparams_in", "init", "initpool"} => me[t].op # "free"
    /\ me[t].retiring => \A i \in Id : caches[me[t].cache].blocks[i] = 0
    /\ me[t].retiring /\ pc[t] # "retire" => me[t].block = m[0]
    /\ pc[t] \in {"enter", "inside"} => me[t].m \in Listing
    /\ pc[t] = "install" => used[me[t].m] = 0

Inv3 == BlockTypes /\ (\A i \in Id : Books(i)) /\ \A t \in Thread : BlockLocal(t)

\* What other threads know of blocks, caches and mspaces stays true.
LEMMA OthersBlocks ==
    ASSUME Inv, Inv2, NEW t \in Thread, NEW u \in Thread \ {t}, BlockLocal(u),
           pc'[u] = pc[u], me'[u] = me[u],
           \A i \in Index : m[i] # Null => m'[i] = m[i],
           \A c \in Cache : caches'[c] = caches[c] \/ c = me[t].cache,
           u \in InHand => used'[me[u].m] = used[me[u].m]
    PROVE  BlockLocal(u)'
<1>1. Settled(u) /\ CacheLocal(u)
    BY DEF Inv2
<1>2. me[u].retiring => caches'[me[u].cache] = caches[me[u].cache]
  <2> SUFFICES ASSUME me[u].retiring PROVE caches'[me[u].cache] = caches[me[u].cache]
      OBVIOUS
  <2>1. me[u].cache \in Cache /\ me[u].cache # 0
      BY <1>1 DEF Settled
  <2>2. me[u].cache # me[t].cache
    <3>1. CASE me[t].cache = 0
        BY <2>1, <3>1
    <3>2. CASE me[t].cache # 0
        BY <3>2, SoleUser
    <3> QED  BY <3>1, <3>2
  <2> QED  BY <2>1, <2>2
<1>3. me[u].retiring => m'[0] = m[0]
  <2>1. me[u].retiring => threads # 0
      BY <1>1 DEF Inv, Ready, Settled, Freeing, Outside, UnderGlobal
  <2>2. threads # 0 => m[0] \in Id /\ 0 \in Index
      BY NedPoolAssumption DEF Inv, Ready, Index
  <2> QED  BY <2>1, <2>2, NedPoolAssumption
<1>4. Listing \subseteq Listing'
    BY DEF Listing
<1> QED  BY <1>1, <1>2, <1>3, <1>4 DEF BlockLocal, InHand

\* A cache that changes, by what was in it and what is.
LEMMA CacheCounted ==
    ASSUME NEW i \in Id, BlockTypes, BlockTypes', NEW a \in Cache,
           \A c \in Cache \ {a} : caches'[c] = caches[c]
    PROVE  /\ InCaches(i) \in Nat /\ CachedOf(i)[a] \in Nat /\ CachedOf(i)[a] <= InCaches(i)
           /\ InCaches(i)' = InCaches(i) - CachedOf(i)[a] + CachedOf(i)'[a]
<1>1. PICK f, g : f = CachedOf(i) /\ g = CachedOf(i)'
    OBVIOUS
<1>2. /\ \A c \in Cache : f[c] \in Nat /\ g[c] \in Nat
      /\ \A c \in Cache \ {a} : g[c] = f[c]
    BY <1>1 DEF CachedOf, BlockTypes, Live
<1>3. IsFiniteSet(Cache)
    BY CachesFinite
<1>4. Sum(g, Cache) = Sum(f, Cache) - f[a] + g[a]
    BY <1>2, <1>3, SumChange
<1>5. /\ Sum(f, Cache) \in Nat /\ Sum(f, Cache \ {a}) \in Nat
      /\ Sum(f, Cache) = f[a] + Sum(f, Cache \ {a})
    BY <1>2, <1>3, SumParts
<1>6. InCaches(i) = Sum(f, Cache)
    BY <1>1 DEF InCaches
<1>7. InCaches(i)' = Sum(g, Cache)
    BY <1>1 DEF InCaches
<1> QED  BY <1>1, <1>2, <1>4, <1>5, <1>6, <1>7

LEMMA CachesNat == ASSUME BlockTypes, NEW i \in Id PROVE InCaches(i) \in Nat
<1>1. PICK f : f = CachedOf(i)
    OBVIOUS
<1>2. \A c \in Cache : f[c] \in Nat
    BY <1>1 DEF CachedOf, BlockTypes, Live
<1> QED  BY <1>1, <1>2, CachesFinite, SumParts DEF InCaches

\* Caches that keep their blocks.
LEMMA CachesSame ==
    ASSUME \A c \in Cache : /\ caches[c] = Null <=> caches'[c] = Null
                            /\ caches[c] # Null => caches'[c].blocks = caches[c].blocks
    PROVE  Live' = Live /\ \A i : InCaches(i)' = InCaches(i)
<1>1. Live' = Live
    BY DEF Live
<1>2. ASSUME NEW i PROVE CachedOf(i)' = CachedOf(i)
    BY DEF CachedOf
<1> QED  BY <1>1, <1>2 DEF InCaches

\* Who has a block of mspace i in hand: nobody but the moving thread changes that.
Mine(t, i) == IF me[t].block = i /\ ~ me[t].retiring THEN 1 ELSE 0

LEMMA ReturningMoves ==
    ASSUME IsFiniteSet(Thread), NEW t \in Thread, OnlyMoves(t), NEW i
    PROVE  /\ Cardinality(Returning(i)) \in Nat /\ Mine(t, i) <= Cardinality(Returning(i))
           /\ Cardinality(Returning(i)') =
                Cardinality(Returning(i)) - Mine(t, i) + Mine(t, i)'
<1> DEFINE rest == Returning(i) \ {t}
<1>1. IsFiniteSet(Returning(i))
  <2>1. Returning(i) \in SUBSET Thread
      BY DEF Returning
  <2> QED  BY <2>1, FS_Subset
<1>2. IsFiniteSet(rest)
    BY <1>1, FS_RemoveElement
<1>3. Cardinality(Returning(i)) \in Nat /\ Cardinality(rest) \in Nat
    BY <1>1, <1>2, FS_CardinalityType
<1>r. Cardinality(rest \union {t}) = Cardinality(rest) + 1
  <2>1. t \notin rest
      OBVIOUS
  <2> HIDE DEF rest
  <2> QED  BY <1>2, <2>1, FS_AddElement
<1>4. Cardinality(Returning(i)) = Cardinality(rest) + Mine(t, i)
  <2>1. Returning(i) = IF Mine(t, i) = 1 THEN rest \union {t} ELSE rest
      BY DEF Returning, Mine
  <2> HIDE DEF rest
  <2> QED  BY <1>3, <1>r, <2>1 DEF Mine
<1>5. Cardinality(Returning(i)') = Cardinality(rest) + Mine(t, i)'
  <2>1. Returning(i)' = IF Mine(t, i)' = 1 THEN rest \union {t} ELSE rest
      BY DEF Returning, Mine, OnlyMoves
  <2> HIDE DEF rest
  <2> QED  BY <1>3, <1>r, <2>1 DEF Mine
<1>6. Mine(t, i) \in {0, 1} /\ Mine(t, i)' \in {0, 1}
    BY DEF Mine
<1> QED  BY <1>3, <1>4, <1>5, <1>6

\* A step of one thread keeps Inv3 when the books balance after it.
LEMMA MoveInv3 ==
    ASSUME Inv, Inv2, Inv3, NEW t \in Thread, OnlyMoves(t),
           \A i \in Index : m[i] # Null => m'[i] = m[i],
           \A c \in Cache : caches'[c] = caches[c] \/ c = me[t].cache,
           \A u \in InHand \ {t} : used'[me[u].m] = used[me[u].m],
           BlockTypes', BlockLocal(t)', \A i \in Id : Books(i)'
    PROVE  Inv3'
<1>1. ASSUME NEW u \in Thread \ {t} PROVE BlockLocal(u)'
  <2>1. BlockLocal(u) /\ pc'[u] = pc[u] /\ me'[u] = me[u]
      BY DEF Inv3, OnlyMoves
  <2>2. u \in InHand => used'[me[u].m] = used[me[u].m]
      OBVIOUS
  <2> QED  BY <2>1, <2>2, OthersBlocks
<1> QED  BY <1>1 DEF Inv3

\* A step that counts nothing.
Uncounted(t) ==
    /\ OnlyMoves(t) /\ held' = held
    /\ \A i \in Id : UsedOf(i)' = UsedOf(i)
    /\ \A u \in InHand \ {t} : used'[me[u].m] = used[me[u].m]
    /\ \A i \in Index : m[i] # Null => m'[i] = m[i]
    /\ m'[0] = m[0] \/ Kept = {}
    /\ \A c \in Cache :
         \/ caches'[c] = caches[c]
         \/ /\ c = me[t].cache /\ caches[c] # Null /\ caches'[c] # Null
            /\ caches'[c].blocks = caches[c].blocks
    /\ me'[t].block = me[t].block /\ me'[t].retiring = me[t].retiring
    /\ "retire" \notin {pc[t], pc'[t]}
    /\ BlockLocal(t)'

LEMMA UncountedInv3 ==
    ASSUME Inv, Inv2, Inv3, NEW t \in Thread, Uncounted(t)
    PROVE  Inv3'
<1>1. Live' = Live /\ \A i : InCaches(i)' = InCaches(i)
    BY CachesSame DEF Uncounted
<1>2. BlockTypes'
    BY <1>1 DEF Inv3, BlockTypes, Uncounted, Live
<1>3. Kept' = Kept
  <2>1. \A u \in Thread : (pc'[u] = "retire" <=> pc[u] = "retire")
                          /\ (pc[u] = "retire" => me'[u].cache = me[u].cache)
      BY DEF Uncounted, OnlyMoves
  <2>2. \A c \in Cache : caches'[c] = Null <=> caches[c] = Null
      BY DEF Uncounted
  <2> QED  BY <2>1, <2>2 DEF Kept
<1>4. ASSUME NEW i \in Id PROVE Books(i)'
  <2>1. Books(i) /\ UsedOf(i)' = UsedOf(i) /\ held'[i] = held[i] /\ InCaches(i)' = InCaches(i)
      BY <1>1 DEF Inv3, Uncounted
  <2>2. Returning(i)' = Returning(i)
      BY DEF Returning, Uncounted, OnlyMoves
  <2>3. KeptIn(i)' = KeptIn(i)
    <3>1. CASE m'[0] = m[0]
        BY <1>3, <3>1 DEF KeptIn
    <3>2. CASE Kept = {}
        BY <1>3, <3>2, FS_EmptySet DEF KeptIn
    <3> QED  BY <3>1, <3>2 DEF Uncounted
  <2> QED  BY <2>1, <2>2, <2>3 DEF Books
<1>5. \A c \in Cache : caches'[c] = caches[c] \/ c = me[t].cache
    BY DEF Uncounted
<1> QED  BY <1>2, <1>4, <1>5, MoveInv3 DEF Uncounted

\* A cache lies in the first mspace, which does not go while the pool has caches.
LEMMA NothingYet ==
    ASSUME Inv, Inv2, threads = 0
    PROVE  Kept = {} /\ Live = {} /\ InHand = {} /\ \A t \in Thread : ~ me[t].retiring
<1>1. \A t \in Thread : ~ me[t].retiring /\ pc[t] # "install"
    BY DEF Inv, Inv2, Ready, Settled, Freeing, Outside, UnderGlobal
<1>2. \A i : ~ Listed(i)
    BY DEF Inv2, ListInv, Listed
<1>3. \A c \in Cache : caches[c] = Null
    BY <1>1, <1>2 DEF Inv2, CacheInv
<1> QED  BY <1>1, <1>3 DEF Kept, Live, InHand

-----------------------------------------------------------------------------
(* Steps that count nothing. *)

\* A step that leaves the pool as it is, by where its thread goes and what it has.
LEMMA PassUncounted ==
    ASSUME Inv, Inv2, Inv3, NEW t \in Thread, OnlyMoves(t), UNCHANGED <<m, used, caches, held>>,
           me'[t].block = me[t].block, me'[t].retiring = me[t].retiring,
           me'[t].retiring => me'[t].cache = me[t].cache,
           "retire" \notin {pc[t], pc'[t]}, BlockLocal(t)'
    PROVE  Uncounted(t)
BY DEF Uncounted, UsedOf, Exists

LEMMA PassSteps ==
    ASSUME Inv, Inv2, Inv3, NEW t \in Thread,
           \/ EnsureInitialization(t) \/ EnterInitMparams(t) \/ InitMparams(t)
           \/ EnterInitPool(t) \/ AllocCacheLocks(t) \/ EnterMalloc(t) \/ EnterFree(t)
    PROVE  Uncounted(t)
<1>a. Shapes /\ BlockLocal(t)
    BY DEF Inv, Inv3
<1>1. OnlyMoves(t) /\ UNCHANGED <<m, used, caches, held, me>>
    BY <1>a DEF EnsureInitialization, EnterInitMparams, InitMparams, EnterInitPool,
                AllocCacheLocks, EnterMalloc, EnterFree, Go, pool, Shapes, OnlyMoves
<1>2. \/ /\ pc[t] \in {"ensure", "mparams", "mparams_in", "init"}
         /\ pc'[t] \in {"mparams", "mparams_in", "change", "init", "initpool"}
      \/ pc[t] = "alloc_lock" /\ pc'[t] = "alloc_in"
      \/ pc[t] = "enter" /\ pc'[t] = "inside"
      \/ pc[t] \in {"free", "free_lock"} /\ pc'[t] = "free_in"
    BY <1>a
       DEF EnsureInitialization, EnterInitMparams, InitMparams, EnterInitPool, Ensured, At,
           AllocCacheLocks, EnterMalloc, EnterFree, Go, Shapes
<1>3. BlockLocal(t)'
    BY <1>a, <1>1, <1>2 DEF BlockLocal, Listing
<1>4. "retire" \notin {pc[t], pc'[t]}
    BY <1>2
<1> QED  BY <1>1, <1>3, <1>4, PassUncounted

\* A call that ends with nothing in hand.
LEMMA ReturnUncounted ==
    ASSUME Inv, Inv2, Inv3, NEW t \in Thread, UNCHANGED <<m, used, caches, held>>, Return(t),
           pc[t] \in {"change", "drain", "walk", "start", "inside"},
           pc[t] = "start" => me[t].op # "free"
    PROVE  Uncounted(t)
<1>a. Shapes /\ BlockLocal(t) /\ Settled(t)
    BY DEF Inv, Inv2, Inv3
<1>1. OnlyMoves(t) /\ pc'[t] = "idle" /\ me'[t] = NoLocals
    BY <1>a DEF Return, Go, Shapes, OnlyMoves
<1>2. me'[t].block = Null /\ me'[t].retiring = FALSE
    BY <1>1 DEF NoLocals
<1>3. me[t].block = Null /\ me[t].retiring = FALSE
    BY <1>a DEF BlockLocal, Settled, Freeing
<1>4. BlockLocal(t)'
    BY <1>1, <1>2 DEF BlockLocal
<1> QED  BY <1>1, <1>2, <1>3, <1>4, PassUncounted

LEMMA ReturnSteps ==
    ASSUME Inv, Inv2, Inv3, NEW t \in Thread, ChangeMparam(t) \/ Drained(t) \/ WalkEnds(t)
    PROVE  Uncounted(t)
<1>1. /\ UNCHANGED <<m, used, caches, held>> /\ Return(t)
      /\ pc[t] \in {"change", "drain", "walk", "start"}
      /\ pc[t] = "start" => me[t].op # "free"
    BY DEF ChangeMparam, Drained, WalkEnds, Walking, At, pool
<1> QED  BY <1>1, ReturnUncounted

\* A call begins that is not free.
LEMMA BeginUncounted ==
    ASSUME Inv, Inv2, Inv3, NEW t \in Thread, NEW op, op # "free",
           pc[t] = "idle", me' = [me EXCEPT ![t].op = op], pc'[t] \in {"ensure", "start"},
           DOMAIN pc' = Thread, \A u \in Thread \ {t} : pc'[u] = pc[u],
           UNCHANGED <<m, used, caches, held>>
    PROVE  Uncounted(t)
<1>a. Shapes /\ BlockLocal(t) /\ Settled(t)
    BY DEF Inv, Inv2, Inv3
<1>1. /\ OnlyMoves(t) /\ me'[t].op = op /\ me'[t].block = me[t].block
      /\ me'[t].retiring = me[t].retiring /\ me'[t].cache = me[t].cache
    BY <1>a DEF Shapes, Locals, OnlyMoves
<1>2. me[t].block = Null /\ ~ me[t].retiring
    BY <1>a DEF BlockLocal, Settled, Freeing
<1>3. BlockLocal(t)'
    BY <1>1, <1>2 DEF BlockLocal
<1> QED  BY <1>1, <1>3, PassUncounted

\* A thread looks for its cache, is refused one, or begins to make one.
LEMMA OwnCacheSteps ==
    ASSUME Inv, Inv2, Inv3, NEW t \in Thread,
           GetThreadCache(t) \/ CacheRefused(t) \/ AllocCache(t) \/ CacheFailed(t)
    PROVE  Uncounted(t)
<1>a. Shapes /\ AllocOp /\ BlockLocal(t) /\ Settled(t)
    BY DEF Inv, Inv2, Inv3
<1>1. UNCHANGED <<m, used, caches, held>>
    BY DEF GetThreadCache, CacheRefused, AllocCache, CacheFailed, pool
<1>2. /\ pc[t] \in {"start", "alloc", "alloc_in"} /\ me[t].op \in {"malloc", "free"}
    BY <1>a DEF GetThreadCache, CacheRefused, AllocCache, CacheFailed, At, AllocOp
<1>3. OnlyMoves(t) /\ pc'[t] \in {me[t].op, "alloc", "alloc_lock"}
    BY <1>a DEF GetThreadCache, CacheRefused, AllocCache, CacheFailed, AfterCache, Go, Shapes,
                OnlyMoves
<1>4. \/ me' = me
      \/ \E c : me' = [me EXCEPT ![t].cache = c]
      \/ \E c, ms : me' = [me EXCEPT ![t].cache = c, ![t].ms = ms]
  <2>1. CASE GetThreadCache(t)
      BY <2>1 DEF GetThreadCache, AfterCache
  <2>2. CASE AllocCache(t)
      BY <2>2 DEF AllocCache
  <2>3. CASE CacheRefused(t) \/ CacheFailed(t)
      BY <2>3 DEF CacheRefused, CacheFailed, AfterCache
  <2> QED  BY <2>1, <2>2, <2>3
<1>5. /\ me'[t].block = me[t].block /\ me'[t].op = me[t].op
      /\ me'[t].retiring = me[t].retiring /\ ~ me[t].retiring
  <2>1. ~ me[t].retiring
      BY <1>a, <1>2 DEF Settled, Freeing
  <2>2. CASE me' = me
      BY <2>1, <2>2
  <2>3. CASE \E c : me' = [me EXCEPT ![t].cache = c]
      BY <1>a, <2>1, <2>3 DEF Shapes, Locals
  <2>4. CASE \E c, ms : me' = [me EXCEPT ![t].cache = c, ![t].ms = ms]
      BY <1>a, <2>1, <2>4 DEF Shapes, Locals
  <2> QED  BY <1>4, <2>2, <2>3, <2>4
<1>6. BlockLocal(t)'
    BY <1>a, <1>2, <1>3, <1>5 DEF BlockLocal
<1>7. "retire" \notin {pc[t], pc'[t]}
    BY <1>2, <1>3
<1> QED  BY <1>1, <1>3, <1>5, <1>6, <1>7, PassUncounted

\* A thread settles on an mspace, waits for one, or walks over them.
LEMMA WalkSteps ==
    ASSUME Inv, Inv2, Inv3, NEW t \in Thread,
           GetMSpace(t) \/ WaitForLast(t) \/ WalkEnters(t) \/ WalkLeaves(t)
    PROVE  Uncounted(t)
<1>a. Shapes /\ BlockLocal(t) /\ Settled(t)
    BY DEF Inv, Inv2, Inv3
<1>1. OnlyMoves(t) /\ UNCHANGED <<m, used, caches, held>>
    BY <1>a DEF GetMSpace, WaitForLast, WalkEnters, WalkLeaves, Go, pool, Shapes, OnlyMoves
<1>2. /\ pc[t] \in {"malloc", "wait", "walk", "start", "walk_in"}
      /\ pc[t] = "start" => me[t].op = "info"
      /\ pc[t] = "malloc" => me[t].op = "malloc"
      /\ pc'[t] \in {"scan", "walk_in", "walk"} \/ (pc'[t] = "enter" /\ pc[t] \in {"malloc", "wait"})
  <2>1. CASE GetMSpace(t)
      BY <2>1, <1>a DEF GetMSpace, Go, At, Settled, Mallocing, Shapes
  <2>2. CASE WaitForLast(t) \/ WalkEnters(t) \/ WalkLeaves(t)
      BY <2>2, <1>a DEF WaitForLast, WalkEnters, WalkLeaves, Walking, Go, At, Shapes
  <2> QED  BY <2>1, <2>2
<1>3. /\ me'[t].block = me[t].block /\ me'[t].op = me[t].op
      /\ me'[t].retiring = me[t].retiring /\ ~ me[t].retiring
      /\ pc'[t] = "enter" => me'[t].m = m[me[t].ms]
  <2>1. ~ me[t].retiring
      BY <1>a, <1>2 DEF Settled, Freeing
  <2>2. CASE GetMSpace(t)
      BY <2>1, <2>2, <1>a DEF GetMSpace, Go, Shapes, Locals
  <2>3. CASE WaitForLast(t)
      BY <2>1, <2>3, <1>a DEF WaitForLast, Shapes, Locals
  <2>4. CASE WalkEnters(t) \/ WalkLeaves(t)
      BY <2>1, <2>4, <1>a DEF WalkEnters, WalkLeaves, Go, Shapes, Locals
  <2> QED  BY <2>2, <2>3, <2>4
<1>4. pc'[t] = "enter" => me'[t].m \in Listing
    BY <1>a, <1>2, <1>3 DEF Settled, Listing
<1>5. BlockLocal(t)'
    BY <1>a, <1>1, <1>2, <1>3, <1>4 DEF BlockLocal, Listing
<1>6. "retire" \notin {pc[t], pc'[t]}
    BY <1>2
<1> QED  BY <1>1, <1>3, <1>5, <1>6, PassUncounted

LEMMA FoundUncounted ==
    ASSUME Inv, Inv2, Inv3, NEW t \in Thread, pc[t] \in {"scan", "rescan", "install_lock"},
           NEW n, Listed(n), Found(t, n), UNCHANGED <<m, used, held>>
    PROVE  Uncounted(t)
<1> USE NedPoolAssumption
<1>a. Shapes /\ BlockLocal(t) /\ Settled(t) /\ CacheTypes
    BY DEF Inv, Inv2, Inv3
<1>1. /\ OnlyMoves(t) /\ pc'[t] = "enter" /\ me'[t].block = me[t].block
      /\ me'[t].retiring = me[t].retiring /\ me'[t].m = m[n]
    BY <1>a DEF Found, Go, Shapes, OnlyMoves, Locals
<1>2. ~ me[t].retiring /\ me[t].block = Null
    BY <1>a DEF Settled, BlockLocal, Freeing
<1>3. m[n] \in Listing
    BY DEF Listed, Listing
<1>4. BlockLocal(t)'
    BY <1>1, <1>2, <1>3 DEF BlockLocal, Listing
<1>5. \A c \in Cache :
         \/ caches'[c] = caches[c]
         \/ /\ c = me[t].cache /\ caches[c] # Null /\ caches'[c] # Null
            /\ caches'[c].blocks = caches[c].blocks
  <2>1. CASE me[t].cache = 0
      BY <2>1 DEF Found
  <2>2. CASE me[t].cache # 0
    <3>0. PICK c, r : c = me[t].cache /\ r = [caches[c] EXCEPT !.mymspace = n]
        OBVIOUS
    <3>1. c \in Cache /\ caches[c] \in CacheRec
      <4>1. pc[t] \notin Making
          BY DEF Making
      <4> QED  BY <2>2, <3>0, <4>1, HandCache
    <3>2. caches' = [caches EXCEPT ![c] = r]
        BY <2>2, <1>a, <3>0, <3>1 DEF Found, CacheTypes
    <3>3. r \in CacheRec /\ r.blocks = caches[c].blocks
        BY <3>0, <3>1 DEF CacheRec, Listed, Index
    <3>4. r # Null /\ caches[c] # Null
        BY <3>1, <3>3 DEF CacheRec
    <3> QED  BY <1>a, <3>0, <3>1, <3>2, <3>3, <3>4 DEF CacheTypes
  <2> QED  BY <2>1, <2>2
<1> QED  BY <1>1, <1>4, <1>5 DEF Uncounted, UsedOf, Exists

LEMMA FindSteps ==
    ASSUME Inv, Inv2, Inv3, NEW t \in Thread, ScanOn(t) \/ Rescan(t) \/ InstallLocks(t)
    PROVE  Uncounted(t)
<1>a. Shapes /\ BlockLocal(t) /\ Settled(t)
    BY DEF Inv, Inv2, Inv3
<1>1. /\ UNCHANGED <<m, used, held>> /\ pc[t] \in {"scan", "rescan", "install_lock"}
      /\ me[t].n \in Index /\ me[t].end \in Index
    BY <1>a DEF ScanOn, Rescan, InstallLocks, At, Settled
<1>2. CASE \E n : Listed(n) /\ Found(t, n)
    BY <1>1, <1>2, FoundUncounted
<1>3. CASE /\ UNCHANGED caches /\ pc'[t] \in {"scan", "rescan", "create", "wait"} /\ OnlyMoves(t)
           /\ me'[t].block = me[t].block /\ me'[t].retiring = me[t].retiring
  <2>1. ~ me[t].retiring /\ me[t].block = Null
      BY <1>a, <1>1 DEF Settled, BlockLocal, Freeing
  <2>2. BlockLocal(t)'
      BY <1>3, <2>1 DEF BlockLocal
  <2>3. "retire" \notin {pc[t], pc'[t]}
      BY <1>1, <1>3
  <2> QED  BY <1>1, <1>3, <2>1, <2>2, <2>3, PassUncounted
<1>4. CASE ScanOn(t)
  <2>1. CASE m[me[t].n] # Null /\ Found(t, me[t].n)
      BY <1>1, <1>2, <2>1 DEF Listed
  <2>2. CASE ~ (m[me[t].n] # Null /\ Found(t, me[t].n))
    <3>1. UNCHANGED caches /\ pc'[t] \in {"scan", "rescan"} /\ \A u \in Thread \ {t} : pc'[u] = pc[u]
        BY <1>4, <2>2, <1>a DEF ScanOn, At, Go, Shapes
    <3>2. (\E n : me' = [me EXCEPT ![t].n = n]) \/ (\E n : me' = [me EXCEPT ![t].n = n, ![t].end = n])
        BY <1>4, <2>2 DEF ScanOn
    <3>3. me'[t].block = me[t].block /\ me'[t].retiring = me[t].retiring
      <4>1. CASE \E n : me' = [me EXCEPT ![t].n = n]
          BY <4>1, <1>a DEF Shapes, Locals
      <4>2. CASE \E n : me' = [me EXCEPT ![t].n = n, ![t].end = n]
          BY <4>2, <1>a DEF Shapes, Locals
      <4> QED  BY <3>2, <4>1, <4>2
    <3>4. OnlyMoves(t)
        BY <3>1, <3>2, <1>a DEF Shapes, OnlyMoves
    <3> QED  BY <1>3, <3>1, <3>3, <3>4
  <2> QED  BY <2>1, <2>2
<1>5. CASE Rescan(t)
  <2>1. CASE me[t].n < me[t].ms /\ Found(t, me[t].n)
    <3>1. m[me[t].ms] # Null
        BY <1>5, <1>a DEF Rescan, At, Settled, Searching
    <3>2. me[t].n \in 0..me[t].ms /\ me[t].ms \in Index
        BY <2>1, <1>1, <1>a DEF Settled, Index
    <3> QED  BY <1>2, <2>1, <3>1, <3>2, ListPrefix DEF Listed
  <2>2. CASE ~ (me[t].n < me[t].ms /\ Found(t, me[t].n))
    <3>1. /\ UNCHANGED caches /\ pc'[t] \in {"rescan", "create", "wait"}
          /\ \A u \in Thread \ {t} : pc'[u] = pc[u]
        BY <1>5, <2>2, <1>a DEF Rescan, At, Go, Shapes
    <3>2. me' = me \/ \E n : me' = [me EXCEPT ![t].n = n]
        BY <1>5, <2>2 DEF Rescan
    <3>3. me'[t].block = me[t].block /\ me'[t].retiring = me[t].retiring
        BY <3>2, <1>a DEF Shapes, Locals
    <3>4. OnlyMoves(t)
        BY <3>1, <3>2, <1>a DEF Shapes, OnlyMoves
    <3> QED  BY <1>3, <3>1, <3>3, <3>4
  <2> QED  BY <2>1, <2>2
<1>6. CASE InstallLocks(t)
  <2>1. Found(t, me[t].end) /\ Listed(me[t].end)
      BY <1>6, <1>1, <1>a DEF InstallLocks, At, Settled, Listed
  <2> QED  BY <1>2, <2>1
<1> QED  BY <1>4, <1>5, <1>6

LEMMA TrimUncounted ==
    ASSUME Inv, Inv2, Inv3, NEW t \in Thread, TrimThreadCache(t)
    PROVE  Uncounted(t)
<1>a. Shapes /\ BlockLocal(t) /\ Settled(t)
    BY DEF Inv, Inv2, Inv3
<1>1. /\ UNCHANGED <<m, used, caches, held>> /\ pc[t] = "start"
      /\ me[t].op \in {"trim", "disable"}
    BY DEF TrimThreadCache, At
<1>2. ~ me[t].retiring /\ me[t].block = Null
    BY <1>a, <1>1 DEF Settled, BlockLocal, Freeing
<1>3. CASE Return(t)
    BY <1>1, <1>3, ReturnUncounted
<1>4. CASE Go(t, "drain") /\ me' = [me EXCEPT ![t].cache = mycache[t]]
  <2>1. /\ OnlyMoves(t) /\ pc'[t] = "drain" /\ me'[t].block = me[t].block
        /\ me'[t].retiring = me[t].retiring
      BY <1>4, <1>a DEF Go, Shapes, Locals, OnlyMoves
  <2>2. BlockLocal(t)'
      BY <1>2, <2>1 DEF BlockLocal
  <2> QED  BY <1>1, <1>2, <2>1, <2>2, PassUncounted
<1> QED  BY <1>3, <1>4 DEF TrimThreadCache

-----------------------------------------------------------------------------
(* The list of mspaces grows: what is made or destroyed has no blocks. *)

\* An mspace in the hands of the thread that has made it is in no other's.
LEMMA OthersInHand ==
    ASSUME Inv2, NEW t \in Thread, NEW i, i \notin Exists \/ (pc[t] = "install" /\ i = me[t].m)
    PROVE  \A u \in InHand \ {t} : me[u].m # i
BY DEF Inv2, ListInv, New, InHand

LEMMA CreateUncounted ==
    ASSUME Inv, Inv2, Inv3, NEW t \in Thread, CreateMspace(t)
    PROVE  Uncounted(t)
<1>a. Shapes /\ BlockLocal(t) /\ Settled(t) /\ ListInv
    BY DEF Inv, Inv2, Inv3
<1>1. /\ UNCHANGED <<m, caches, held>> /\ pc[t] = "create" /\ OnlyMoves(t)
    BY <1>a DEF CreateMspace, At, Go, Shapes, OnlyMoves
<1>2. ~ me[t].retiring /\ me[t].block = Null
    BY <1>a, <1>1 DEF Settled, BlockLocal, Freeing
<1>3. CASE Exists # Id /\ used' = With(used, Fresh, 0) /\ me' = [me EXCEPT ![t].m = Fresh]
           /\ Go(t, "install")
  <2>1. PICK i : i = Fresh
      OBVIOUS
  <2>2. i \in Id \ Exists
      BY <1>3, <1>a, <2>1, FreshIsNew DEF ListInv
  <2>3. Exists' = Exists \union {i} /\ used'[i] = 0 /\ \A j \in Exists : used'[j] = used[j]
      BY <1>3, <2>1, <2>2 DEF With, Exists
  <2>4. \A j \in Id : UsedOf(j)' = UsedOf(j)
      BY <2>2, <2>3 DEF UsedOf
  <2>5. \A u \in InHand \ {t} : used'[me[u].m] = used[me[u].m]
      BY <1>a, <2>3 DEF ListInv, New
  <2>6. /\ pc'[t] = "install" /\ me'[t].m = i /\ me'[t].block = me[t].block
        /\ me'[t].retiring = me[t].retiring
      BY <1>3, <1>a, <2>1 DEF Go, Shapes, Locals
  <2>7. BlockLocal(t)'
      BY <1>2, <2>3, <2>6 DEF BlockLocal
  <2> QED  BY <1>1, <2>4, <2>5, <2>6, <2>7 DEF Uncounted
<1>4. CASE Go(t, "wait") /\ UNCHANGED <<used, me>>
  <2>1. pc'[t] = "wait"
      BY <1>4, <1>a DEF Go, Shapes
  <2>2. BlockLocal(t)'
      BY <1>2, <1>4, <2>1 DEF BlockLocal
  <2> QED  BY <1>1, <1>2, <1>4, <2>1, <2>2, PassUncounted
<1> QED  BY <1>3, <1>4 DEF CreateMspace

LEMMA InstallUncounted ==
    ASSUME Inv, Inv2, Inv3, NEW t \in Thread, Install(t)
    PROVE  Uncounted(t)
<1> USE NedPoolAssumption
<1>a. Shapes /\ BlockLocal(t) /\ Settled(t) /\ ListInv
    BY DEF Inv, Inv2, Inv3
<1>1. /\ UNCHANGED <<used, caches, held>> /\ pc[t] = "install" /\ pc'[t] = "install_lock"
      /\ \A u \in Thread \ {t} : pc'[u] = pc[u]
    BY <1>a DEF Install, At, Go, Shapes
<1>2. ~ me[t].retiring /\ me[t].block = Null
    BY <1>a, <1>1 DEF Settled, BlockLocal, Freeing
<1>3. PICK end \in Places(me[t].end) :
         /\ m' = [m EXCEPT ![end] = me[t].m]
         /\ me' = [me EXCEPT ![t].end = end, ![t].m = Null]
    BY DEF Install
<1>4. /\ OnlyMoves(t) /\ me'[t].block = me[t].block /\ me'[t].retiring = me[t].retiring
    BY <1>a, <1>1, <1>3 DEF OnlyMoves, Shapes, Locals
<1>5. m[end] = Null /\ \A i \in Index : m[i] # Null => m'[i] = m[i]
    BY <1>3, <1>a DEF Places, Shapes
<1>6. m'[0] = m[0]
  <2>1. m[0] \in Id /\ 0 \in Index
      BY <1>1 DEF Inv, Ready, Outside, UnderGlobal, Index
  <2> QED  BY <1>5, <2>1
<1>7. BlockLocal(t)'
    BY <1>1, <1>2, <1>4 DEF BlockLocal
<1> QED  BY <1>1, <1>4, <1>5, <1>6, <1>7 DEF Uncounted, UsedOf, Exists

\* "Drat, must destroy it now": nothing in it is with anyone.
LEMMA DiscardUncounted ==
    ASSUME Inv, Inv2, Inv3, NEW t \in Thread, Discard(t)
    PROVE  Uncounted(t)
<1> USE NedPoolAssumption
<1>a. Shapes /\ BlockLocal(t) /\ Settled(t) /\ ListInv
    BY DEF Inv, Inv2, Inv3
<1>1. /\ UNCHANGED <<m, caches, held>> /\ pc[t] = "install" /\ pc'[t] = "wait" /\ OnlyMoves(t)
      /\ me'[t].block = me[t].block /\ me'[t].retiring = me[t].retiring
    BY <1>a DEF Discard, At, Go, Shapes, OnlyMoves, Locals
<1>2. ~ me[t].retiring /\ me[t].block = Null
    BY <1>a, <1>1 DEF Settled, BlockLocal, Freeing
<1>3. PICK i : i = me[t].m
    OBVIOUS
<1>4. used[i] = 0 /\ i \in Exists
  <2>1. t \in InHand
      BY <1>1 DEF InHand
  <2> QED  BY <1>a, <1>1, <1>3, <2>1 DEF BlockLocal, ListInv, New
<1>5. Exists' = Exists \ {i} /\ \A j \in Exists \ {i} : used'[j] = used[j]
  <2>1. used' = Restrict(used, DOMAIN used \ {i})
      BY <1>3 DEF Discard, Without
  <2> QED  BY <2>1 DEF Restrict, Exists
<1>6. \A j \in Id : UsedOf(j)' = UsedOf(j)
    BY <1>4, <1>5 DEF UsedOf
<1>7. \A u \in InHand \ {t} : used'[me[u].m] = used[me[u].m]
  <2>1. \A u \in InHand \ {t} : me[u].m # i
      BY <1>1, <1>3, OthersInHand
  <2> QED  BY <1>a, <1>5, <2>1 DEF ListInv, New
<1>8. BlockLocal(t)'
    BY <1>1, <1>2 DEF BlockLocal
<1> QED  BY <1>1, <1>6, <1>7, <1>8 DEF Uncounted

LEMMA InitPoolUncounted ==
    ASSUME Inv, Inv2, Inv3, NEW t \in Thread, InitPool(t)
    PROVE  Uncounted(t)
<1> USE NedPoolAssumption
<1>a. Shapes /\ Ready /\ BlockLocal(t) /\ Settled(t) /\ ListInv
    BY DEF Inv, Inv2, Inv3
<1>1. /\ UNCHANGED <<caches, held, me>> /\ pc[t] = "initpool" /\ pc'[t] = "start" /\ OnlyMoves(t)
    BY <1>a DEF InitPool, At, Go, Shapes, OnlyMoves
<1>2. ~ me[t].retiring /\ me[t].block = Null /\ me[t].op # "free"
    BY <1>a, <1>1 DEF Settled, BlockLocal, Freeing
<1>3. BlockLocal(t)'
    BY <1>1, <1>2 DEF BlockLocal
<1>4. CASE threads # 0
  <2>1. UNCHANGED <<m, used>>
      BY <1>4 DEF InitPool
  <2>2. "retire" \notin {pc[t], pc'[t]}
      BY <1>1
  <2> QED  BY <1>1, <1>2, <1>3, <2>1, <2>2, PassUncounted
<1>5. CASE threads = 0
  <2>1. /\ m' = [m EXCEPT ![0] = Fresh] /\ used' = With(used, Fresh, 0) /\ Exists = {}
      BY <1>5, <1>a DEF InitPool, Ready, Exists
  <2>2. Kept = {} /\ InHand = {}
      BY <1>5, NothingYet
  <2>3. PICK i : i = Fresh
      OBVIOUS
  <2>4. Exists' = {i} /\ used'[i] = 0
      BY <2>1, <2>3 DEF With, Exists
  <2>5. \A j \in Id : UsedOf(j)' = UsedOf(j)
      BY <2>1, <2>4 DEF UsedOf
  <2>6. \A j \in Index : m[j] # Null => m'[j] = m[j]
      BY <1>5, <1>a DEF ListInv
  <2> QED  BY <1>1, <1>2, <1>3, <2>2, <2>5, <2>6 DEF Uncounted
<1> QED  BY <1>4, <1>5

-----------------------------------------------------------------------------
(* Steps that count. *)

\* The same blocks in other numbers, in one cache.
OneCache(c) ==
    /\ c \in Cache /\ caches[c] \in CacheRec /\ caches[c].blocks \in [Id -> Nat]
    /\ caches'[c] \in CacheRec /\ caches'[c].blocks \in [Id -> Nat]
    /\ \A d \in Cache \ {c} : caches'[d] = caches[d]

LEMMA OneCacheCounts ==
    ASSUME Inv2, Inv3, NEW c, OneCache(c), held' \in [Id -> Nat]
    PROVE  /\ BlockTypes' /\ Live' = Live
           /\ \A j \in Id : /\ InCaches(j) \in Nat /\ caches[c].blocks[j] <= InCaches(j)
                            /\ InCaches(j)' =
                                 InCaches(j) - caches[c].blocks[j] + caches'[c].blocks[j]
<1> USE NedPoolAssumption
<1>1. c \in Cache /\ caches[c] # Null /\ caches'[c] # Null
    BY DEF OneCache, CacheRec
<1>2. Live' = Live
    BY <1>1 DEF Live, OneCache
<1>3. BlockTypes /\ BlockTypes'
    BY <1>2 DEF Inv3, BlockTypes, Live, OneCache
<1>4. ASSUME NEW j \in Id
      PROVE  CachedOf(j)[c] = caches[c].blocks[j] /\ CachedOf(j)'[c] = caches'[c].blocks[j]
    BY <1>1 DEF CachedOf
<1>5. ASSUME NEW j \in Id
      PROVE  /\ InCaches(j) \in Nat /\ CachedOf(j)[c] \in Nat /\ CachedOf(j)[c] <= InCaches(j)
             /\ InCaches(j)' = InCaches(j) - CachedOf(j)[c] + CachedOf(j)'[c]
  <2>1. \A d \in Cache \ {c} : caches'[d] = caches[d]
      BY DEF OneCache
  <2> QED  BY <1>1, <1>3, <2>1, CacheCounted
<1> QED  BY <1>2, <1>3, <1>4, <1>5

\* Which caches are blocks of the first mspace, while none is made or freed.
LEMMA KeptSame ==
    ASSUME NEW t \in Thread, OnlyMoves(t), "retire" \notin {pc[t], pc'[t]}, m'[0] = m[0],
           \A c \in Cache : caches'[c] = Null <=> caches[c] = Null
    PROVE  Kept' = Kept /\ \A i : KeptIn(i)' = KeptIn(i)
<1>1. Kept' = Kept
    BY DEF Kept, OnlyMoves
<1> QED  BY <1>1 DEF KeptIn

LEMMA KeptType == IsFiniteSet(Kept) /\ \A i : KeptIn(i) \in Nat
<1>1. Kept \in SUBSET Cache
    BY DEF Kept
<1>2. IsFiniteSet(Kept)
    BY <1>1, CachesFinite, FS_Subset
<1> QED  BY <1>2, FS_CardinalityType DEF KeptIn

\* A client gives a block back ...
LEMMA BeginInv3 ==
    ASSUME IsFiniteSet(Thread), Inv, Inv2, Inv3, NEW t \in Thread, Begin(t)
    PROVE  Inv3'
<1>a. Shapes /\ BlockLocal(t) /\ Settled(t) /\ BlockTypes
    BY DEF Inv, Inv2, Inv3
<1>1. /\ UNCHANGED <<m, used, caches>> /\ pc[t] = "idle" /\ DOMAIN pc' = Thread
      /\ \A u \in Thread \ {t} : pc'[u] = pc[u]
    BY <1>a DEF Begin, At, Go, pool, Shapes
<1>2. CASE \E op : /\ op # "free" /\ me' = [me EXCEPT ![t].op = op] /\ UNCHANGED held
                   /\ pc'[t] \in {"ensure", "start"}
    BY <1>1, <1>2, BeginUncounted, UncountedInv3
<1>3. ASSUME NEW i \in Id, held[i] > 0, me' = [me EXCEPT ![t].op = "free", ![t].block = i],
             held' = [held EXCEPT ![i] = @ - 1], pc'[t] = "start"
      PROVE  Inv3'
  <2>1. /\ OnlyMoves(t) /\ me'[t].op = "free" /\ me'[t].block = i
        /\ me'[t].retiring = me[t].retiring
      BY <1>1, <1>3, <1>a DEF Shapes, Locals, OnlyMoves
  <2>2. me[t].block = Null /\ ~ me[t].retiring
      BY <1>1, <1>a DEF BlockLocal, Settled, Freeing
  <2>3. BlockLocal(t)'
      BY <1>3, <2>1, <2>2, NedPoolAssumption DEF BlockLocal
  <2>4. held' \in [Id -> Nat] /\ held'[i] = held[i] - 1 /\ held[i] \in Nat
        /\ \A j \in Id \ {i} : held'[j] = held[j]
      BY <1>3, <1>a DEF BlockTypes
  <2>5. Live' = Live /\ \A j : InCaches(j)' = InCaches(j)
      BY <1>1, CachesSame
  <2>6. BlockTypes'
      BY <1>1, <1>a, <2>4, <2>5 DEF BlockTypes, Live
  <2>7. \A j : KeptIn(j)' = KeptIn(j)
    <3>1. "retire" \notin {pc[t], pc'[t]}
        BY <1>1, <1>3
    <3> QED  BY <1>1, <2>1, <3>1, KeptSame
  <2>8. ASSUME NEW j \in Id PROVE Books(j)'
    <3>1. Cardinality(Returning(j)) \in Nat
        /\ Cardinality(Returning(j)') = Cardinality(Returning(j)) - Mine(t, j) + Mine(t, j)'
        BY <2>1, ReturningMoves
    <3>2. Mine(t, j) = 0 /\ Mine(t, j)' = IF j = i THEN 1 ELSE 0
        BY <2>1, <2>2, NedPoolAssumption DEF Mine
    <3>3. UsedOf(j) = held[j] + InCaches(j) + Cardinality(Returning(j)) + KeptIn(j)
        BY DEF Inv3, Books
    <3>4. UsedOf(j)' = UsedOf(j)
        BY <1>1 DEF UsedOf, Exists
    <3>5. held[j] \in Nat /\ InCaches(j) \in Nat /\ KeptIn(j) \in Nat
        BY <1>a, KeptType, CachesNat DEF BlockTypes
    <3> QED  BY <2>4, <2>5, <2>7, <3>1, <3>2, <3>3, <3>4, <3>5 DEF Books
  <2> QED  BY <1>1, <2>1, <2>3, <2>6, <2>8, MoveInv3
<1> QED
  <2>1. CASE \E op \in {"malloc", "trim", "disable", "info"} :
               /\ me' = [me EXCEPT ![t].op = op] /\ UNCHANGED held
               /\ Go(t, IF threads = 0 THEN "ensure" ELSE "start")
      BY <1>2, <1>a, <2>1 DEF Go, Shapes
  <2>2. CASE me' = [me EXCEPT ![t].op = "mallopt"] /\ UNCHANGED held /\ Go(t, "ensure")
      BY <1>2, <1>a, <2>2 DEF Go, Shapes
  <2>3. CASE \E i \in {j \in Id : held[j] > 0} :
               /\ me' = [me EXCEPT ![t].op = "free", ![t].block = i]
               /\ held' = [held EXCEPT ![i] = @ - 1]
               /\ Go(t, "start")
      BY <1>3, <1>a, <2>3 DEF Go, Shapes
  <2> QED  BY <2>1, <2>2, <2>3 DEF Begin

\* A block moves between the clients, a cache and the thread that has the cache.
LEMMA CacheStepInv3 ==
    ASSUME IsFiniteSet(Thread), Inv, Inv2, Inv3, NEW t \in Thread, OnlyMoves(t),
           UNCHANGED <<m, used>>, "retire" \notin {pc[t], pc'[t]}, BlockLocal(t)',
           NEW c, c = me[t].cache, OneCache(c), held' \in [Id -> Nat],
           \A j \in Id : held[j] + caches[c].blocks[j] + Mine(t, j)
                           = held'[j] + caches'[c].blocks[j] + Mine(t, j)'
    PROVE  Inv3'
<1>1. /\ BlockTypes' /\ Live' = Live
      /\ \A j \in Id : /\ InCaches(j) \in Nat /\ caches[c].blocks[j] <= InCaches(j)
                       /\ InCaches(j)' =
                            InCaches(j) - caches[c].blocks[j] + caches'[c].blocks[j]
    BY OneCacheCounts
<1>2. \A j : KeptIn(j)' = KeptIn(j)
  <2>1. \A d \in Cache : caches'[d] = Null <=> caches[d] = Null
      BY <1>1 DEF Live
  <2>2. m'[0] = m[0]
      OBVIOUS
  <2> QED  BY <2>1, <2>2, KeptSame
<1>3. ASSUME NEW j \in Id PROVE Books(j)'
  <2>1. Cardinality(Returning(j)) \in Nat
        /\ Cardinality(Returning(j)') = Cardinality(Returning(j)) - Mine(t, j) + Mine(t, j)'
      BY ReturningMoves
  <2>2. Mine(t, j) \in {0, 1} /\ Mine(t, j)' \in {0, 1}
      BY DEF Mine
  <2>3. UsedOf(j) = held[j] + InCaches(j) + Cardinality(Returning(j)) + KeptIn(j)
      BY DEF Inv3, Books
  <2>4. UsedOf(j)' = UsedOf(j)
      BY DEF UsedOf, Exists
  <2>5. held[j] \in Nat /\ held'[j] \in Nat /\ KeptIn(j) \in Nat
      BY KeptType DEF Inv3, BlockTypes
  <2>6. held[j] + caches[c].blocks[j] + Mine(t, j)
          = held'[j] + caches'[c].blocks[j] + Mine(t, j)'
      OBVIOUS
  <2>7. /\ caches[c].blocks[j] \in Nat /\ caches'[c].blocks[j] \in Nat /\ InCaches(j) \in Nat
        /\ InCaches(j)' = InCaches(j) - caches[c].blocks[j] + caches'[c].blocks[j]
      BY <1>1 DEF OneCache
  <2>8. KeptIn(j)' = KeptIn(j)
      BY <1>2
  <2>9. /\ held'[j] + InCaches(j)' + Mine(t, j)' = held[j] + InCaches(j) + Mine(t, j)
        /\ InCaches(j)' \in Int
      BY ONLY <2>2, <2>5, <2>6, <2>7
  <2>10. UsedOf(j)' = held'[j] + InCaches(j)' + Cardinality(Returning(j)') + KeptIn(j)'
      BY ONLY <2>1, <2>2, <2>3, <2>4, <2>5, <2>7, <2>8, <2>9
  <2> QED  BY <2>10 DEF Books
<1>4. \A d \in Cache : caches'[d] = caches[d] \/ d = me[t].cache
    BY DEF OneCache
<1>5. \A j \in Index : m[j] # Null => m'[j] = m[j]
    OBVIOUS
<1>6. \A u \in InHand \ {t} : used'[me[u].m] = used[me[u].m]
    OBVIOUS
<1> QED  BY <1>1, <1>3, <1>4, <1>5, <1>6, MoveInv3

\* The cache a thread has in hand, when one of its counts changes.
LEMMA CacheInHand ==
    ASSUME Inv, Inv2, Inv3, NEW t \in Thread, pc[t] \notin Making, me[t].cache # 0
    PROVE  /\ me[t].cache \in Cache /\ caches[me[t].cache] \in CacheRec
           /\ caches[me[t].cache].blocks \in [Id -> Nat]
<1> USE NedPoolAssumption
<1>1. PICK c : c = me[t].cache
    OBVIOUS
<1>2. c \in Cache /\ caches[c] \in CacheRec
    BY <1>1, HandCache
<1>3. c \in Live /\ caches[c].blocks \in [Id -> Int]
    BY <1>2 DEF Live, CacheRec
<1>4. caches[c].blocks \in [Id -> Nat]
    BY <1>3 DEF Inv3, BlockTypes
<1> QED  BY <1>1, <1>2, <1>4

Recounts(c, i, n) == caches' = [caches EXCEPT ![c].blocks[i] = n]

LEMMA CountChanges ==
    ASSUME Inv, Inv2, Inv3, NEW t \in Thread, pc[t] \notin Making, NEW c, c = me[t].cache,
           c # 0, NEW i \in Id, NEW n \in Nat, Recounts(c, i, n)
    PROVE  /\ OneCache(c) /\ caches'[c].blocks[i] = n
           /\ \A j \in Id \ {i} : caches'[c].blocks[j] = caches[c].blocks[j]
<1>1. c \in Cache /\ caches[c] \in CacheRec /\ caches[c].blocks \in [Id -> Nat]
    BY CacheInHand
<1>2. PICK b : b = [caches[c].blocks EXCEPT ![i] = n]
    OBVIOUS
<1>3. PICK r : r = [caches[c] EXCEPT !.blocks = b]
    OBVIOUS
<1>4. b \in [Id -> Nat] /\ b[i] = n /\ \A j \in Id \ {i} : b[j] = caches[c].blocks[j]
    BY <1>1, <1>2
<1>5. r \in CacheRec /\ r.blocks = b
    BY <1>1, <1>3, <1>4 DEF CacheRec
<1>6. caches' = [caches EXCEPT ![c] = r]
    BY <1>2, <1>3 DEF Recounts
<1>7. caches'[c] = r /\ \A d \in Cache \ {c} : caches'[d] = caches[d]
    BY <1>1, <1>6 DEF Inv2, CacheTypes
<1> QED  BY <1>1, <1>4, <1>5, <1>7 DEF OneCache

\* ... and puts it into its cache,
LEMMA FreeToCacheInv3 ==
    ASSUME IsFiniteSet(Thread), Inv, Inv2, Inv3, NEW t \in Thread, FreeToCache(t)
    PROVE  Inv3'
<1> USE NedPoolAssumption
<1>a. Shapes /\ BlockLocal(t) /\ Settled(t) /\ BlockTypes
    BY DEF Inv, Inv2, Inv3
<1>1. /\ UNCHANGED <<m, used, held>> /\ pc[t] = "free" /\ pc'[t] = "drain" /\ OnlyMoves(t)
      /\ me[t].cache # 0 /\ me' = [me EXCEPT ![t].block = Null] /\ pc[t] \notin Making
    BY <1>a DEF FreeToCache, At, Go, Shapes, OnlyMoves, Making
<1>2. /\ me[t].block \in Id /\ ~ me[t].retiring /\ me'[t].block = Null
      /\ me'[t].retiring = me[t].retiring
    BY <1>a, <1>1 DEF BlockLocal, Settled, Freeing, Shapes, Locals
<1>3. PICK c, i, n : c = me[t].cache /\ i = me[t].block /\ n = caches[c].blocks[i] + 1
    OBVIOUS
<1>4. caches[c].blocks \in [Id -> Nat] /\ n \in Nat
    BY <1>1, <1>2, <1>3, CacheInHand
<1>5. Recounts(c, i, n)
    BY <1>3 DEF FreeToCache, Recounts
<1>6. /\ OneCache(c) /\ caches'[c].blocks[i] = n
      /\ \A j \in Id \ {i} : caches'[c].blocks[j] = caches[c].blocks[j]
  <2>1. c = me[t].cache /\ c # 0 /\ i \in Id /\ n \in Nat /\ pc[t] \notin Making
      BY <1>1, <1>2, <1>3, <1>4
  <2> QED  BY <1>5, <2>1, CountChanges
<1>7. BlockLocal(t)'
    BY <1>1, <1>2 DEF BlockLocal
<1>8. held' \in [Id -> Nat] /\ "retire" \notin {pc[t], pc'[t]}
    BY <1>a, <1>1 DEF BlockTypes
<1>9. ASSUME NEW j \in Id
      PROVE  held[j] + caches[c].blocks[j] + Mine(t, j)
               = held'[j] + caches'[c].blocks[j] + Mine(t, j)'
  <2>1. Mine(t, j)' = 0 /\ Mine(t, j) = IF j = i THEN 1 ELSE 0
      BY <1>2, <1>3 DEF Mine
  <2>2. held[j] \in Nat /\ caches[c].blocks[j] \in Nat
      BY <1>a, <1>4 DEF BlockTypes
  <2>3. held'[j] = held[j]
      BY <1>1
  <2>4. CASE j = i
    <3>1. caches'[c].blocks[j] = caches[c].blocks[j] + 1
        BY <1>3, <1>6, <2>4
    <3> QED  BY <2>1, <2>2, <2>3, <2>4, <3>1
  <2>5. CASE j # i
    <3>1. caches'[c].blocks[j] = caches[c].blocks[j]
        BY <1>6, <2>5
    <3> QED  BY <2>1, <2>2, <2>3, <2>5, <3>1
  <2> QED  BY <2>4, <2>5
<1> QED  BY <1>1, <1>3, <1>6, <1>7, <1>8, <1>9, CacheStepInv3

\* or a client takes one out of it,
LEMMA CacheHitInv3 ==
    ASSUME IsFiniteSet(Thread), Inv, Inv2, Inv3, NEW t \in Thread, CacheHit(t)
    PROVE  Inv3'
<1> USE NedPoolAssumption
<1>a. Shapes /\ BlockLocal(t) /\ Settled(t) /\ BlockTypes /\ Exists \subseteq Id
    BY DEF Inv, Inv2, Inv3, ListInv, New, Listing
<1>1. /\ UNCHANGED <<m, used>> /\ pc[t] = "malloc" /\ pc'[t] = "idle" /\ OnlyMoves(t)
      /\ me[t].cache # 0 /\ me'[t] = NoLocals /\ pc[t] \notin Making
    BY <1>a DEF CacheHit, Return, At, Go, Shapes, OnlyMoves, Making
<1>2. /\ me[t].block = Null /\ ~ me[t].retiring /\ me'[t].block = Null /\ ~ me'[t].retiring
    BY <1>a, <1>1 DEF BlockLocal, Settled, Freeing, NoLocals
<1>3. PICK i \in Id : /\ caches[me[t].cache].blocks[i] > 0
                      /\ caches' = [caches EXCEPT ![me[t].cache].blocks[i] = @ - 1]
                      /\ held' = [held EXCEPT ![i] = @ + 1]
    BY <1>a DEF CacheHit
<1>4. PICK c, n : c = me[t].cache /\ n = caches[c].blocks[i] - 1
    OBVIOUS
<1>5. caches[c].blocks \in [Id -> Nat] /\ n \in Nat
  <2>1. caches[c].blocks \in [Id -> Nat]
      BY <1>1, <1>4, CacheInHand
  <2> QED  BY <1>3, <1>4, <2>1
<1>6. /\ OneCache(c) /\ caches'[c].blocks[i] = n
      /\ \A j \in Id \ {i} : caches'[c].blocks[j] = caches[c].blocks[j]
  <2>1. Recounts(c, i, n)
      BY <1>3, <1>4 DEF Recounts
  <2>2. c = me[t].cache /\ c # 0 /\ n \in Nat /\ pc[t] \notin Making
      BY <1>1, <1>4, <1>5
  <2> QED  BY <2>1, <2>2, CountChanges
<1>7. BlockLocal(t)'
    BY <1>1, <1>2 DEF BlockLocal
<1>8. held' \in [Id -> Nat] /\ held'[i] = held[i] + 1 /\ \A j \in Id \ {i} : held'[j] = held[j]
    BY <1>a, <1>3 DEF BlockTypes
<1>9. ASSUME NEW j \in Id
      PROVE  held[j] + caches[c].blocks[j] + Mine(t, j)
               = held'[j] + caches'[c].blocks[j] + Mine(t, j)'
  <2>1. Mine(t, j)' = 0 /\ Mine(t, j) = 0
      BY <1>2 DEF Mine
  <2>2. held[j] \in Nat /\ caches[c].blocks[j] \in Nat
      BY <1>a, <1>5 DEF BlockTypes
  <2> QED  BY <1>4, <1>6, <1>8, <2>1, <2>2
<1> QED
  <2>1. "retire" \notin {pc[t], pc'[t]}
      BY <1>1
  <2> QED  BY <1>1, <1>4, <1>6, <1>7, <1>8, <1>9, <2>1, CacheStepInv3

\* or it goes on to its mspace.
LEMMA DrainInv3 ==
    ASSUME IsFiniteSet(Thread), Inv, Inv2, Inv3, NEW t \in Thread, Drain(t), me[t].cache # 0
    PROVE  Inv3'
<1> USE NedPoolAssumption
<1>a. Shapes /\ BlockLocal(t) /\ Settled(t) /\ BlockTypes
    BY DEF Inv, Inv2, Inv3
<1>1. PICK i \in Id : /\ caches[me[t].cache].blocks[i] > 0
                      /\ caches' = [caches EXCEPT ![me[t].cache].blocks[i] = @ - 1]
                      /\ me' = [me EXCEPT ![t].block = i]
    BY DEF Drain
<1>2. /\ UNCHANGED <<m, used, held>> /\ pc[t] = "drain" /\ pc'[t] = "free_lock" /\ OnlyMoves(t)
      /\ pc[t] \notin Making
    BY <1>a, <1>1 DEF Drain, At, Go, Shapes, OnlyMoves, Making
<1>3. /\ me[t].block = Null /\ ~ me[t].retiring /\ me'[t].block = i /\ ~ me'[t].retiring
    BY <1>a, <1>1, <1>2 DEF BlockLocal, Settled, Freeing, Shapes, Locals
<1>4. PICK c, n : c = me[t].cache /\ n = caches[c].blocks[i] - 1
    OBVIOUS
<1>5. caches[c].blocks \in [Id -> Nat] /\ n \in Nat
  <2>1. caches[c].blocks \in [Id -> Nat]
      BY <1>2, <1>4, CacheInHand
  <2> QED  BY <1>1, <1>4, <2>1
<1>6. /\ OneCache(c) /\ caches'[c].blocks[i] = n
      /\ \A j \in Id \ {i} : caches'[c].blocks[j] = caches[c].blocks[j]
  <2>1. Recounts(c, i, n)
      BY <1>1, <1>4 DEF Recounts
  <2>2. c = me[t].cache /\ c # 0 /\ n \in Nat /\ pc[t] \notin Making
      BY <1>2, <1>4, <1>5
  <2> QED  BY <2>1, <2>2, CountChanges
<1>7. BlockLocal(t)'
    BY <1>2, <1>3 DEF BlockLocal
<1>8. held' \in [Id -> Nat] /\ "retire" \notin {pc[t], pc'[t]}
    BY <1>a, <1>2 DEF BlockTypes
<1>9. ASSUME NEW j \in Id
      PROVE  held[j] + caches[c].blocks[j] + Mine(t, j)
               = held'[j] + caches'[c].blocks[j] + Mine(t, j)'
  <2>1. Mine(t, j) = 0 /\ Mine(t, j)' = IF j = i THEN 1 ELSE 0
      BY <1>3 DEF Mine
  <2>2. held[j] \in Nat /\ caches[c].blocks[j] \in Nat
      BY <1>a, <1>5 DEF BlockTypes
  <2> QED  BY <1>2, <1>4, <1>6, <2>1, <2>2
<1> QED  BY <1>2, <1>4, <1>6, <1>7, <1>8, <1>9, CacheStepInv3

\* Steps that count in an mspace: the books of each must balance, the rest is in order.
LEMMA UsedStepInv3 ==
    ASSUME IsFiniteSet(Thread), Inv, Inv2, Inv3, NEW t \in Thread, OnlyMoves(t), m' = m,
           BlockTypes', BlockLocal(t)', \A j \in Id : InCaches(j)' = InCaches(j),
           \A c \in Cache : caches'[c] = caches[c] \/ c = me[t].cache,
           \A u \in InHand \ {t} : used'[me[u].m] = used[me[u].m],
           \A j \in Id : UsedOf(j)' = UsedOf(j) + (held'[j] - held[j])
                             + (Mine(t, j)' - Mine(t, j)) + (KeptIn(j)' - KeptIn(j))
    PROVE  Inv3'
<1>1. ASSUME NEW j \in Id PROVE Books(j)'
  <2>1. Cardinality(Returning(j)) \in Nat
        /\ Cardinality(Returning(j)') = Cardinality(Returning(j)) - Mine(t, j) + Mine(t, j)'
      BY ReturningMoves
  <2>2. Mine(t, j) \in {0, 1} /\ Mine(t, j)' \in {0, 1}
      BY DEF Mine
  <2>3. UsedOf(j) = held[j] + InCaches(j) + Cardinality(Returning(j)) + KeptIn(j)
      BY DEF Inv3, Books
  <2>4. UsedOf(j)' = UsedOf(j) + (held'[j] - held[j]) + (Mine(t, j)' - Mine(t, j))
                       + (KeptIn(j)' - KeptIn(j))
      OBVIOUS
  <2>5. held[j] \in Nat /\ held'[j] \in Nat
      BY DEF Inv3, BlockTypes
  <2>6. KeptIn(j) \in Nat /\ KeptIn(j)' \in Nat /\ InCaches(j) \in Nat
    <3>1. Cardinality(Kept)' \in Nat
      <4>1. Kept' \in SUBSET Cache
          BY DEF Kept
      <4> QED  BY <4>1, CachesFinite, FS_Subset, FS_CardinalityType
    <3> QED  BY <3>1, KeptType, CachesNat DEF Inv3, KeptIn
  <2>7. InCaches(j)' = InCaches(j)
      OBVIOUS
  <2> QED  BY <2>1, <2>2, <2>3, <2>4, <2>5, <2>6, <2>7 DEF Books
<1>2. \A i \in Index : m[i] # Null => m'[i] = m[i]
    OBVIOUS
<1> QED  BY <1>1, <1>2, MoveInv3

\* What is counted is there to be counted.
LEMMA UsedNat ==
    ASSUME IsFiniteSet(Thread), Inv3, NEW t \in Thread, NEW j \in Id
    PROVE  /\ UsedOf(j) \in Nat /\ held[j] \in Nat /\ KeptIn(j) \in Nat
           /\ Mine(t, j) \in {0, 1} /\ UsedOf(j) >= Mine(t, j) + KeptIn(j)
<1>1. Cardinality(Returning(j)) \in Nat /\ Mine(t, j) <= Cardinality(Returning(j))
  <2>1. Returning(j) \in SUBSET Thread
      BY DEF Returning
  <2>2. IsFiniteSet(Returning(j))
      BY <2>1, FS_Subset
  <2>3. Cardinality(Returning(j)) \in Nat
      BY <2>2, FS_CardinalityType
  <2>4. Mine(t, j) = 1 => Returning(j) # {}
      BY DEF Mine, Returning
  <2>5. Returning(j) # {} => Cardinality(Returning(j)) # 0
      BY <2>2, FS_EmptySet
  <2> QED  BY <2>3, <2>4, <2>5 DEF Mine
<1>2. UsedOf(j) = held[j] + InCaches(j) + Cardinality(Returning(j)) + KeptIn(j)
    BY DEF Inv3, Books
<1>3. held[j] \in Nat /\ KeptIn(j) \in Nat /\ InCaches(j) \in Nat
    BY KeptType, CachesNat DEF Inv3, BlockTypes
<1>4. Mine(t, j) \in {0, 1}
    BY DEF Mine
<1> QED  BY <1>1, <1>2, <1>3, <1>4

LEMMA UsedChanges ==
    ASSUME NEW i \in Exists, NEW n, used' = [used EXCEPT ![i] = n]
    PROVE  UsedOf(i)' = n /\ \A j : j # i => UsedOf(j)' = UsedOf(j) /\ used'[j] = used[j]
BY DEF UsedOf, Exists

\* A block is allocated for a client, or there is no memory.
LEMMA LeaveMallocInv3 ==
    ASSUME IsFiniteSet(Thread), Inv, Inv2, Inv3, NEW t \in Thread, LeaveMalloc(t)
    PROVE  Inv3'
<1> USE NedPoolAssumption
<1>a. Shapes /\ BlockLocal(t) /\ Settled(t) /\ BlockTypes /\ ListInv
    BY DEF Inv, Inv2, Inv3
<1>1. UNCHANGED <<m, caches>> /\ pc[t] = "inside" /\ Return(t)
    BY DEF LeaveMalloc, At
<1>2. OnlyMoves(t) /\ pc'[t] = "idle" /\ me'[t] = NoLocals
    BY <1>1, <1>a DEF Return, Go, Shapes, OnlyMoves
<1>3. /\ me[t].block = Null /\ ~ me[t].retiring /\ me'[t].block = Null /\ ~ me'[t].retiring
    BY <1>a, <1>1, <1>2 DEF BlockLocal, Settled, Freeing, NoLocals
<1>4. PICK i : i = me[t].m
    OBVIOUS
<1>5. i \in Listing /\ i \in Exists /\ i \in Id
    BY <1>a, <1>1, <1>4 DEF BlockLocal, ListInv, Listing
<1>6. CASE UNCHANGED <<used, held>>
  <2>1. pc[t] \in {"change", "drain", "walk", "start", "inside"} /\ pc[t] # "start"
      BY <1>1
  <2>2. Uncounted(t)
      BY <1>1, <1>6, <2>1, ReturnUncounted
  <2> QED  BY <2>2, UncountedInv3
<1>7. CASE /\ used' = [used EXCEPT ![i] = @ + 1]
           /\ held' = [held EXCEPT ![i] = @ + 1]
  <2>1. PICK n : n = used[i] + 1
      OBVIOUS
  <2>2. UsedOf(i)' = n /\ UsedOf(i) = used[i]
        /\ \A j : j # i => UsedOf(j)' = UsedOf(j) /\ used'[j] = used[j]
    <3>1. used' = [used EXCEPT ![i] = n]
        BY <1>7, <2>1
    <3> QED  BY <1>5, <3>1, UsedChanges DEF UsedOf
  <2>3. held' \in [Id -> Nat] /\ held'[i] = held[i] + 1 /\ \A j \in Id \ {i} : held'[j] = held[j]
      BY <1>a, <1>5, <1>7 DEF BlockTypes
  <2>4. Live' = Live /\ \A j : InCaches(j)' = InCaches(j)
      BY <1>1, CachesSame
  <2>5. BlockTypes'
      BY <1>1, <1>a, <2>3, <2>4 DEF BlockTypes, Live
  <2>6. BlockLocal(t)'
      BY <1>2, <1>3 DEF BlockLocal
  <2>7. \A j : KeptIn(j)' = KeptIn(j)
    <3>1. "retire" \notin {pc[t], pc'[t]}
        BY <1>1, <1>2
    <3> QED  BY <1>1, <1>2, <3>1, KeptSame
  <2>8. \A u \in InHand \ {t} : used'[me[u].m] = used[me[u].m]
    <3>1. \A u \in InHand : me[u].m # i
        BY <1>a, <1>5 DEF ListInv
    <3> QED  BY <2>2, <3>1
  <2>9. ASSUME NEW j \in Id
        PROVE  UsedOf(j)' = UsedOf(j) + (held'[j] - held[j])
                             + (Mine(t, j)' - Mine(t, j)) + (KeptIn(j)' - KeptIn(j))
    <3>1. UsedOf(j) \in Nat /\ held[j] \in Nat /\ KeptIn(j) \in Nat
        BY UsedNat
    <3>2. Mine(t, j) = 0 /\ Mine(t, j)' = 0
        BY <1>3 DEF Mine
    <3> QED  BY <2>1, <2>2, <2>3, <2>7, <3>1, <3>2
  <2> QED  BY <1>1, <1>2, <2>4, <2>5, <2>6, <2>8, <2>9, UsedStepInv3
<1> QED  BY <1>4, <1>6, <1>7 DEF LeaveMalloc

\* A cache is a block of the first mspace, and begins with nothing in it.
LEMMA CacheMadeInv3 ==
    ASSUME IsFiniteSet(Thread), Inv, Inv2, Inv3, NEW t \in Thread, CacheMade(t)
    PROVE  Inv3'
<1> USE NedPoolAssumption
<1>a. Shapes /\ BlockLocal(t) /\ Settled(t) /\ CacheLocal(t) /\ BlockTypes /\ ListInv /\ CacheTypes
    BY DEF Inv, Inv2, Inv3
<1>1. /\ UNCHANGED <<m, held>> /\ pc[t] = "alloc_in" /\ pc'[t] = me[t].op /\ OnlyMoves(t)
      /\ me' = [me EXCEPT ![t].cache = me[t].cache, ![t].ms = t % ListEnd]
    BY <1>a DEF CacheMade, AfterCache, At, Go, Shapes, OnlyMoves
<1>2. /\ ~ me[t].retiring /\ me'[t].block = me[t].block /\ me'[t].op = me[t].op
      /\ me'[t].retiring = me[t].retiring
    BY <1>a, <1>1 DEF Settled, Freeing, Shapes, Locals
<1>3. me[t].op \in {"malloc", "free"}
    BY <1>1 DEF Inv, AllocOp
<1>4. PICK c, r : c = me[t].cache /\ r = NewCache(t, t % ListEnd)
    OBVIOUS
<1>5. c \in Cache /\ caches[c] = Null /\ c # 0
    BY <1>a, <1>1, <1>4 DEF CacheLocal, Settled, Making
<1>6. /\ caches'[c] = r /\ \A d \in Cache \ {c} : caches'[d] = caches[d]
      /\ \A j \in Id : r.blocks[j] = 0
  <2>1. caches' = [caches EXCEPT ![c] = r]
      BY <1>4 DEF CacheMade
  <2> QED  BY <1>a, <1>4, <1>5, <2>1 DEF CacheTypes, NewCache, NoBlocks
<1>7. r # Null
  <2>1. CacheLocal(t)'
      BY MakingSteps, OwnCacheInv2 DEF Inv2
  <2>2. mycache'[t] = c /\ c > 0
      BY <1>a, <1>4, <1>5 DEF CacheMade, CacheTypes, Cache
  <2> QED  BY <1>6, <2>1, <2>2 DEF CacheLocal, Owns
<1>8. PICK i : i = m[0]
    OBVIOUS
<1>9. i \in Id /\ i \in Exists /\ i \in Listing
  <2>1. i \in Id
      BY <1>1, <1>8 DEF Inv, Ready, Outside, UnderGlobal
  <2> QED  BY <1>a, <1>8, <2>1 DEF ListInv, Listing, Index
<1>10. \A j \in Id : InCaches(j)' = InCaches(j)
  <2>1. ASSUME NEW j \in Id PROVE CachedOf(j)' = CachedOf(j)
      BY <1>5, <1>6, <1>7 DEF CachedOf
  <2> QED  BY <2>1 DEF InCaches
<1>11. BlockTypes'
  <2>1. Live' = Live \union {c}
      BY <1>5, <1>6, <1>7 DEF Live
  <2> QED  BY <1>a, <1>1, <1>5, <1>6, <2>1 DEF BlockTypes, Live
<1>12. BlockLocal(t)'
    BY <1>a, <1>1, <1>2, <1>3 DEF BlockLocal
<1>13. Kept' = Kept \union {c} /\ c \notin Kept
  <2>1. \A u \in Thread : pc'[u] = "retire" <=> pc[u] = "retire"
      BY <1>1, <1>3 DEF OnlyMoves
  <2>2. \A u \in Thread : pc[u] = "retire" => me'[u].cache = me[u].cache /\ me[u].cache # c
    <3>1. me[t].cache # 0
        BY <1>4, <1>5
    <3>2. \A u \in Thread \ {t} : me[u].cache # me[t].cache
        BY <3>1, SoleUser
    <3> QED  BY <1>1, <1>4, <3>2 DEF OnlyMoves
  <2> QED  BY <1>5, <1>6, <1>7, <2>1, <2>2 DEF Kept
<1>14. Cardinality(Kept') = Cardinality(Kept) + 1 /\ Cardinality(Kept) \in Nat
    BY <1>13, KeptType, FS_AddElement, FS_CardinalityType
<1>15. PICK n : n = used[i] + 1
    OBVIOUS
<1>16. UsedOf(i)' = n /\ UsedOf(i) = used[i]
       /\ \A j : j # i => UsedOf(j)' = UsedOf(j) /\ used'[j] = used[j]
  <2>1. used' = [used EXCEPT ![i] = n]
      BY <1>8, <1>15 DEF CacheMade
  <2> QED  BY <1>9, <2>1, UsedChanges DEF UsedOf
<1>17. \A u \in InHand \ {t} : used'[me[u].m] = used[me[u].m]
  <2>1. \A u \in InHand : me[u].m # i
      BY <1>a, <1>9 DEF ListInv
  <2> QED  BY <1>16, <2>1
<1>18. ASSUME NEW j \in Id
       PROVE  UsedOf(j)' = UsedOf(j) + (held'[j] - held[j])
                            + (Mine(t, j)' - Mine(t, j)) + (KeptIn(j)' - KeptIn(j))
  <2>1. UsedOf(j) \in Nat /\ held[j] \in Nat /\ KeptIn(j) \in Nat /\ Mine(t, j) \in {0, 1}
      BY UsedNat
  <2>2. Mine(t, j)' = Mine(t, j) /\ held'[j] = held[j]
      BY <1>1, <1>2 DEF Mine
  <2>3. KeptIn(j)' = IF j = i THEN KeptIn(j) + 1 ELSE KeptIn(j)
      BY <1>1, <1>8, <1>14 DEF KeptIn
  <2> QED  BY <1>15, <1>16, <2>1, <2>2, <2>3
<1>19. \A d \in Cache : caches'[d] = caches[d] \/ d = me[t].cache
    BY <1>4, <1>6
<1> QED  BY <1>1, <1>10, <1>11, <1>12, <1>17, <1>18, <1>19, UsedStepInv3

\* A block is freed into its mspace: one from a client or a cache, or a cache itself.
LEMMA LeaveFreeInv3 ==
    ASSUME IsFiniteSet(Thread), Inv, Inv2, Inv3, NEW t \in Thread, LeaveFree(t)
    PROVE  Inv3'
<1> USE NedPoolAssumption
<1>a. Shapes /\ BlockLocal(t) /\ Settled(t) /\ CacheLocal(t) /\ BlockTypes /\ ListInv
    BY DEF Inv, Inv2, Inv3
<1>1. /\ UNCHANGED <<m, caches, held>> /\ pc[t] = "free_in" /\ OnlyMoves(t)
      /\ me' = [me EXCEPT ![t].block = Null]
      /\ pc'[t] = IF me[t].retiring THEN "retire" ELSE "drain"
    BY <1>a DEF LeaveFree, At, Go, Shapes, OnlyMoves
<1>2. /\ me'[t].block = Null /\ me'[t].op = me[t].op /\ me'[t].cache = me[t].cache
      /\ me'[t].retiring = me[t].retiring /\ me[t].retiring \in BOOLEAN
    BY <1>a, <1>1 DEF Settled, Shapes, Locals
<1>3. PICK i, n : i = me[t].block /\ n = used[i] - 1
    OBVIOUS
<1>4. i \in Id
    BY <1>a, <1>1, <1>3 DEF BlockLocal
<1>5. ASSUME NEW j \in Id
      PROVE  /\ UsedOf(j) \in Nat /\ held[j] \in Nat /\ KeptIn(j) \in Nat
             /\ Mine(t, j) \in {0, 1} /\ UsedOf(j) >= Mine(t, j) + KeptIn(j)
             /\ Mine(t, j)' = 0
             /\ Mine(t, j) = IF j = i /\ ~ me[t].retiring THEN 1 ELSE 0
  <2>1. Mine(t, j)' = 0 /\ Mine(t, j) = IF j = i /\ ~ me[t].retiring THEN 1 ELSE 0
      BY <1>2, <1>3 DEF Mine
  <2> QED  BY <2>1, UsedNat
<1>6. /\ \A j \in Id : KeptIn(j)' =
           IF j = i /\ me[t].retiring THEN KeptIn(j) - 1 ELSE KeptIn(j)
      /\ me[t].retiring => KeptIn(i) >= 1
  <2>1. CASE ~ me[t].retiring
    <3>1. "retire" \notin {pc[t], pc'[t]}
        BY <1>1, <2>1
    <3>2. \A j : KeptIn(j)' = KeptIn(j)
        BY <1>1, <3>1, KeptSame
    <3> QED  BY <2>1, <3>2
  <2>2. CASE me[t].retiring
    <3>1. PICK c : c = me[t].cache
        OBVIOUS
    <3>2. c \in Cache /\ caches[c] # Null /\ i = m[0]
        BY <1>a, <1>1, <1>3, <2>2, <3>1 DEF Settled, CacheLocal, Owns, BlockLocal, Making
    <3>3. \A u \in Thread \ {t} : me[u].cache # c
      <4>1. me[t].cache # 0
          BY <1>a, <2>2 DEF Settled
      <4> QED  BY <3>1, <4>1, SoleUser
    <3>4. c \in Kept
        BY <1>1, <3>1, <3>2, <3>3 DEF Kept
    <3>5. Kept' = Kept \ {c}
      <4>1. pc'[t] = "retire" /\ me'[t].cache = c /\ pc[t] # "retire"
          BY <1>1, <1>2, <2>2, <3>1
      <4> QED  BY <1>1, <3>3, <4>1 DEF Kept, OnlyMoves
    <3>6. /\ Cardinality(Kept') = Cardinality(Kept) - 1 /\ Cardinality(Kept) \in Nat
          /\ Cardinality(Kept) # 0
      <4>1. IsFiniteSet(Kept)
          BY KeptType
      <4> QED  BY <3>4, <3>5, <4>1, FS_RemoveElement, FS_CardinalityType, FS_EmptySet
    <3> QED  BY <1>1, <2>2, <3>2, <3>6 DEF KeptIn
  <2> QED  BY <2>1, <2>2
<1>7. UsedOf(i) >= 1
    BY <1>2, <1>4, <1>5, <1>6
<1>8. i \in Exists /\ UsedOf(i) = used[i]
    BY <1>7 DEF UsedOf
<1>9. UsedOf(i)' = n /\ \A j : j # i => UsedOf(j)' = UsedOf(j) /\ used'[j] = used[j]
  <2>1. used' = [used EXCEPT ![i] = n]
      BY <1>3 DEF LeaveFree
  <2> QED  BY <1>8, <2>1, UsedChanges
<1>10. \A u \in InHand \ {t} : used'[me[u].m] = used[me[u].m]
  <2>1. \A u \in InHand \ {t} : used[me[u].m] = 0
      BY DEF Inv3, BlockLocal, InHand
  <2>2. used[i] # 0
      BY <1>7, <1>8
  <2> QED  BY <1>9, <2>1, <2>2
<1>11. \A j : InCaches(j)' = InCaches(j)
    BY <1>1, CachesSame
<1>12. BlockTypes'
    BY <1>1, <1>a DEF BlockTypes, Live
<1>13. BlockLocal(t)'
    BY <1>a, <1>1, <1>2 DEF BlockLocal, Settled
<1>14. ASSUME NEW j \in Id
       PROVE  UsedOf(j)' = UsedOf(j) + (held'[j] - held[j])
                            + (Mine(t, j)' - Mine(t, j)) + (KeptIn(j)' - KeptIn(j))
  <2>1. held'[j] = held[j]
      BY <1>1
  <2>2. CASE j # i
      BY <1>5, <1>6, <1>9, <2>1, <2>2
  <2>3. CASE j = i /\ me[t].retiring
      BY <1>3, <1>5, <1>6, <1>8, <1>9, <2>1, <2>3
  <2>4. CASE j = i /\ ~ me[t].retiring
      BY <1>3, <1>5, <1>6, <1>8, <1>9, <2>1, <2>4
  <2> QED  BY <1>2, <2>2, <2>3, <2>4
<1> QED  BY <1>1, <1>10, <1>11, <1>12, <1>13, <1>14, UsedStepInv3

\* Turning a cache off: nothing is in it by now ...
LEMMA RetireInv3 ==
    ASSUME IsFiniteSet(Thread), IsFiniteSet(Id), Inv, Inv2, Inv3, NEW t \in Thread, Retire(t)
    PROVE  Inv3'
<1> USE NedPoolAssumption
<1>a. Shapes /\ BlockLocal(t) /\ Settled(t) /\ BlockTypes /\ CacheTypes
    BY DEF Inv, Inv2, Inv3
<1>1. /\ UNCHANGED <<m, used, held>> /\ pc[t] = "drain" /\ pc'[t] = "free_lock" /\ OnlyMoves(t)
      /\ pc[t] \notin Making /\ me[t].op = "disable" /\ Cached(t) <= 0
      /\ me' = [me EXCEPT ![t].block = m[0], ![t].retiring = TRUE]
    BY <1>a DEF Retire, At, Go, Shapes, OnlyMoves, Making, Room
<1>2. /\ me[t].block = Null /\ ~ me[t].retiring /\ me'[t].block = m[0] /\ me'[t].retiring
      /\ me'[t].cache = me[t].cache /\ me[t].cache # 0
    BY <1>a, <1>1 DEF BlockLocal, Settled, Freeing, Shapes, Locals
<1>3. PICK c, r, b : /\ c = me[t].cache /\ b = caches[c].blocks
                     /\ r = [caches[c] EXCEPT !.threadid = 0, !.mymspace = -1]
    OBVIOUS
<1>4. c \in Cache /\ caches[c] \in CacheRec /\ b \in [Id -> Nat]
    BY <1>1, <1>2, <1>3, CacheInHand
<1>5. r \in CacheRec /\ r.blocks = b
  <2>1. -1 \in Int
      OBVIOUS
  <2> QED  BY <1>3, <1>4, <2>1 DEF CacheRec
<1>6. caches'[c] = r /\ \A d \in Cache \ {c} : caches'[d] = caches[d]
  <2>1. caches' = [caches EXCEPT ![c] = r]
      BY <1>3 DEF Retire
  <2> QED  BY <1>a, <1>4, <2>1 DEF CacheTypes
<1>7. OneCache(c)
    BY <1>3, <1>4, <1>5, <1>6 DEF OneCache
<1>8. \A j \in Id : b[j] = 0
  <2>1. SumFunction(b) = Sum(b, Id)
      BY <1>4, FunctionSum
  <2>2. SumFunction(b) <= 0
      BY <1>1, <1>2, <1>3 DEF Cached
  <2>3. \A j \in Id : b[j] \in Nat
      BY <1>4
  <2>4. ASSUME NEW j \in Id PROVE b[j] = 0
    <3>1. Sum(b, Id) = b[j] + Sum(b, Id \ {j}) /\ Sum(b, Id \ {j}) \in Nat
        BY <2>3, SumParts
    <3> QED  BY <2>1, <2>2, <2>3, <3>1
  <2> QED  BY <2>4
<1>9. m[0] \in Id
    BY <1>1 DEF Inv, Ready, Outside, UnderGlobal
<1>10. BlockLocal(t)'
  <2>1. \A j \in Id : caches'[me'[t].cache].blocks[j] = 0
      BY <1>2, <1>3, <1>5, <1>6, <1>8
  <2>2. me'[t].block = m'[0] /\ me'[t].block \in Id /\ me'[t].block # Null
      BY <1>1, <1>2, <1>9
  <2> QED  BY <1>1, <2>1, <2>2 DEF BlockLocal
<1>11. held' \in [Id -> Nat] /\ "retire" \notin {pc[t], pc'[t]}
    BY <1>a, <1>1 DEF BlockTypes
<1>12. ASSUME NEW j \in Id
       PROVE  held[j] + caches[c].blocks[j] + Mine(t, j)
                = held'[j] + caches'[c].blocks[j] + Mine(t, j)'
  <2>1. Mine(t, j) = 0 /\ Mine(t, j)' = 0
      BY <1>2 DEF Mine
  <2> QED  BY <1>1, <1>3, <1>5, <1>6, <2>1
<1> QED  BY <1>1, <1>3, <1>7, <1>10, <1>11, <1>12, CacheStepInv3

\* ... and what is left of it is freed.
LEMMA RetiredInv3 ==
    ASSUME IsFiniteSet(Thread), Inv, Inv2, Inv3, NEW t \in Thread, Retired(t)
    PROVE  Inv3'
<1> USE NedPoolAssumption
<1>a. Shapes /\ BlockLocal(t) /\ Settled(t) /\ BlockTypes /\ CacheTypes
    BY DEF Inv, Inv2, Inv3
<1>1. /\ UNCHANGED <<m, used, held>> /\ pc[t] = "retire" /\ pc'[t] = "idle" /\ OnlyMoves(t)
      /\ me'[t] = NoLocals
    BY <1>a DEF Retired, Return, At, Go, Shapes, OnlyMoves
<1>2. /\ me[t].block = Null /\ me[t].retiring /\ me'[t].block = Null /\ ~ me'[t].retiring
      /\ me[t].cache # 0
    BY <1>a, <1>1 DEF BlockLocal, Settled, NoLocals
<1>3. PICK c : c = me[t].cache
    OBVIOUS
<1>4. c \in Cache /\ \A j \in Id : caches[c].blocks[j] = 0
    BY <1>a, <1>2, <1>3 DEF Settled, BlockLocal
<1>5. caches'[c] = Null /\ \A d \in Cache \ {c} : caches'[d] = caches[d]
    BY <1>a, <1>3, <1>4 DEF Retired, CacheTypes
<1>6. \A j \in Id : InCaches(j)' = InCaches(j)
  <2>1. ASSUME NEW j \in Id PROVE CachedOf(j)' = CachedOf(j)
      BY <1>4, <1>5 DEF CachedOf
  <2> QED  BY <2>1 DEF InCaches
<1>7. BlockTypes'
    BY <1>a, <1>1, <1>5 DEF BlockTypes, Live
<1>8. BlockLocal(t)'
    BY <1>1, <1>2 DEF BlockLocal
<1>9. Kept' = Kept
    BY <1>1, <1>3, <1>5 DEF Kept, OnlyMoves
<1>10. ASSUME NEW j \in Id
       PROVE  UsedOf(j)' = UsedOf(j) + (held'[j] - held[j])
                            + (Mine(t, j)' - Mine(t, j)) + (KeptIn(j)' - KeptIn(j))
  <2>1. UsedOf(j) \in Nat /\ held[j] \in Nat /\ KeptIn(j) \in Nat
      BY UsedNat
  <2>2. Mine(t, j)' = 0 /\ Mine(t, j) = 0
      BY <1>2 DEF Mine
  <2>3. KeptIn(j)' = KeptIn(j) /\ held'[j] = held[j] /\ UsedOf(j)' = UsedOf(j)
      BY <1>1, <1>9 DEF KeptIn, UsedOf, Exists
  <2> QED  BY <2>1, <2>2, <2>3
<1>11. \A d \in Cache : caches'[d] = caches[d] \/ d = me[t].cache
    BY <1>3, <1>5
<1>12. \A u \in InHand \ {t} : used'[me[u].m] = used[me[u].m]
    BY <1>1
<1> QED  BY <1>1, <1>6, <1>7, <1>8, <1>10, <1>11, <1>12, UsedStepInv3

-----------------------------------------------------------------------------
(* The invariant holds. *)

\* "If you can't allocate for system pool, we're screwed": then nothing is in any cache.
LEMMA AbortInv3 ==
    ASSUME Inv, Inv2, Inv3, NEW t \in Thread, InitPoolAborts(t)
    PROVE  Inv3'
<1>1. /\ UNCHANGED <<threads, m, used, caches, held, me>> /\ threads = 0
      /\ pc' = [u \in Thread |-> "aborted"]
    BY DEF InitPoolAborts, pool
<1>2. Kept = {} /\ Live = {} /\ \A u \in Thread : ~ me[u].retiring
    BY <1>1, NothingYet
<1>3. Live' = {} /\ Kept' = {}
    BY <1>1, <1>2 DEF Live, Kept
<1>4. BlockTypes'
    BY <1>1, <1>3 DEF Inv3, BlockTypes
<1>5. ASSUME NEW u \in Thread PROVE BlockLocal(u)'
  <2>1. pc[u] \in Outside /\ pc'[u] = "aborted"
      BY <1>1 DEF Inv, Ready
  <2>2. me[u].block = Null
      BY <2>1 DEF Inv3, BlockLocal, Outside, UnderGlobal
  <2> QED  BY <1>1, <1>2, <2>1, <2>2 DEF BlockLocal
<1>6. ASSUME NEW i \in Id PROVE Books(i)'
  <2>1. /\ UsedOf(i)' = UsedOf(i) /\ held'[i] = held[i] /\ Returning(i)' = Returning(i)
        /\ CachedOf(i)' = CachedOf(i)
      BY <1>1 DEF UsedOf, Exists, Returning, CachedOf
  <2>2. KeptIn(i)' = KeptIn(i)
      BY <1>1, <1>2, <1>3 DEF KeptIn
  <2>3. Books(i)
      BY DEF Inv3
  <2> QED  BY <2>1, <2>2, <2>3 DEF Books, InCaches
<1> QED  BY <1>4, <1>5, <1>6 DEF Inv3

LEMMA InitInv3 == Init => Inv3
<1> SUFFICES ASSUME Init PROVE Inv3
    OBVIOUS
<1> USE NedPoolAssumption
<1>1. Live = {} /\ Kept = {} /\ held \in [Id -> Nat] /\ Exists = {}
      /\ \A i \in Id : held[i] = 0
    BY DEF Init, Live, Kept, NoBlocks, Exists, Cache
<1>2. \A t \in Thread : pc[t] = "idle" /\ me[t].block = Null /\ me[t].retiring = FALSE
    BY DEF Init, NoLocals
<1>3. BlockTypes
    BY <1>1 DEF BlockTypes
<1>4. ASSUME NEW t \in Thread PROVE BlockLocal(t)
    BY <1>2 DEF BlockLocal
<1>5. ASSUME NEW i \in Id PROVE Books(i)
  <2>1. Shares(CachedOf(i), Cache) = {}
      BY <1>1 DEF Shares, CachedOf, Live
  <2>2. Returning(i) = {}
      BY <1>2 DEF Returning
  <2>3. UsedOf(i) = 0 /\ KeptIn(i) = 0 /\ InCaches(i) = 0 /\ Cardinality(Returning(i)) = 0
      BY <1>1, <2>1, <2>2, FS_EmptySet DEF UsedOf, KeptIn, InCaches, Sum
  <2> QED  BY <1>1, <2>3 DEF Books
<1> QED  BY <1>3, <1>4, <1>5 DEF Inv3

LEMMA NextInv3 ==
    ASSUME IsFiniteSet(Thread), IsFiniteSet(Id)
    PROVE  Inv /\ Inv2 /\ Inv3 /\ [Next]_vars => Inv3'
<1>1. ASSUME Inv, Inv2, Inv3, NEW t \in Thread, Step(t) PROVE Inv3'
  <2>1. CASE Uncounted(t)
      BY <1>1, <2>1, UncountedInv3
  <2>2. CASE \/ EnsureInitialization(t) \/ EnterInitMparams(t) \/ InitMparams(t)
             \/ EnterInitPool(t) \/ AllocCacheLocks(t) \/ EnterMalloc(t) \/ EnterFree(t)
             \/ ChangeMparam(t) \/ Drained(t) \/ WalkEnds(t)
      BY <1>1, <2>1, <2>2, PassSteps, ReturnSteps
  <2>3. CASE GetThreadCache(t) \/ CacheRefused(t) \/ AllocCache(t) \/ CacheFailed(t)
      BY <1>1, <2>1, <2>3, OwnCacheSteps
  <2>4. CASE GetMSpace(t) \/ WaitForLast(t) \/ WalkEnters(t) \/ WalkLeaves(t)
      BY <1>1, <2>1, <2>4, WalkSteps
  <2>5. CASE ScanOn(t) \/ Rescan(t) \/ InstallLocks(t)
      BY <1>1, <2>1, <2>5, FindSteps
  <2>6. CASE CreateMspace(t) \/ Install(t) \/ Discard(t)
      BY <1>1, <2>1, <2>6, CreateUncounted, InstallUncounted, DiscardUncounted
  <2>7. CASE InitPool(t) \/ TrimThreadCache(t)
      BY <1>1, <2>1, <2>7, InitPoolUncounted, TrimUncounted
  <2>8. CASE InitPoolAborts(t)
      BY <1>1, <2>8, AbortInv3
  <2>9. CASE FreeToCache(t) \/ CacheHit(t)
      BY <1>1, <2>9, FreeToCacheInv3, CacheHitInv3
  <2>10. CASE Drain(t)
    <3>1. me[t].cache # 0
      <4>1. Room(t) >= 0
          BY NedPoolAssumption DEF Room
      <4>2. Cached(t) > Room(t)
          BY <2>10 DEF Drain
      <4> QED  BY <4>1, <4>2, NedPoolAssumption DEF Cached, Room
    <3> QED  BY <1>1, <2>10, <3>1, DrainInv3
  <2>11. CASE LeaveMalloc(t) \/ LeaveFree(t) \/ CacheMade(t)
      BY <1>1, <2>11, LeaveMallocInv3, LeaveFreeInv3, CacheMadeInv3
  <2>12. CASE Retire(t) \/ Retired(t)
      BY <1>1, <2>12, RetireInv3, RetiredInv3
  <2> QED  BY <1>1, <2>2, <2>3, <2>4, <2>5, <2>6, <2>7, <2>8, <2>9, <2>10, <2>11, <2>12 DEF Step
<1>2. ASSUME Inv3, UNCHANGED vars PROVE Inv3'
  <2>1. UNCHANGED <<m, used, caches, held, pc, me>>
      BY <1>2 DEF vars, pool
  <2>2. BlockTypes'
      BY <1>2, <2>1 DEF Inv3, BlockTypes, Live
  <2>3. ASSUME NEW i \in Id PROVE Books(i)'
    <3>1. /\ UsedOf(i)' = UsedOf(i) /\ Returning(i)' = Returning(i)
          /\ CachedOf(i)' = CachedOf(i) /\ Kept' = Kept
        BY <2>1 DEF UsedOf, Exists, Returning, CachedOf, Kept
    <3> QED  BY <1>2, <2>1, <3>1 DEF Inv3, Books, InCaches, KeptIn
  <2>4. ASSUME NEW t \in Thread PROVE BlockLocal(t)'
      BY <1>2, <2>1 DEF Inv3, BlockLocal, Listing
  <2> QED  BY <2>2, <2>3, <2>4 DEF Inv3
<1>3. ASSUME Inv, Inv2, Inv3, Next PROVE Inv3'
  <2>1. PICK t \in Thread : Begin(t) \/ Step(t)
      BY <1>3 DEF Next
  <2> QED  BY <1>1, <1>3, <2>1, BeginInv3
<1> QED  BY <1>2, <1>3

-----------------------------------------------------------------------------
(* What the property says beside: the types of what nothing else here depends on. *)

Types ==
    /\ mparams \in {"zero", "default", "changed"}
    /\ mycache \in [Thread -> Int]
    /\ global.c \in Nat

\* Only those that initialise take or release the global lock, and they go on.
LEMMA GlobalStep ==
    ASSUME Inv, NEW t \in Thread, Begin(t) \/ Step(t)
    PROVE  global' = global \/ pc'[t] # "aborted"
<1>1. CASE EnterInitMparams(t) \/ InitMparams(t) \/ EnterInitPool(t) \/ InitPool(t)
    BY <1>1 DEF EnterInitMparams, InitMparams, EnterInitPool, InitPool, Ensured, Go, Inv, Shapes
<1>2. CASE ~ (EnterInitMparams(t) \/ InitMparams(t) \/ EnterInitPool(t) \/ InitPool(t))
    BY <1>2
       DEF Begin, Step, locks, EnsureInitialization, ChangeMparam, InitPoolAborts,
           GetThreadCache, CacheRefused, AllocCache, AllocCacheLocks, CacheMade, CacheFailed,
           CacheHit, GetMSpace, ScanOn, Rescan, CreateMspace, Install, Discard, InstallLocks,
           WaitForLast, EnterMalloc, LeaveMalloc, FreeToCache, EnterFree, LeaveFree, Drain,
           Drained, Retire, Retired, TrimThreadCache, WalkEnters, WalkLeaves, WalkEnds
<1> QED  BY <1>1, <1>2

LEMMA NumberStep ==
    ASSUME NEW t \in Thread, Begin(t) \/ Step(t)
    PROVE  mycache' = mycache \/ \E v : mycache' = [mycache EXCEPT ![t] = v]
<1>1. CASE CacheRefused(t) \/ CacheMade(t) \/ CacheFailed(t)
    BY <1>1 DEF CacheRefused, CacheMade, CacheFailed
<1>2. CASE ScanOn(t) \/ Rescan(t) \/ InstallLocks(t)
    BY <1>2 DEF ScanOn, Rescan, InstallLocks, Found
<1>3. CASE TrimThreadCache(t)
    BY <1>3 DEF TrimThreadCache
<1>4. CASE ~ (\/ CacheRefused(t) \/ CacheMade(t) \/ CacheFailed(t) \/ ScanOn(t) \/ Rescan(t)
              \/ InstallLocks(t) \/ TrimThreadCache(t))
    BY <1>4
       DEF Begin, Step, pool, EnsureInitialization, EnterInitMparams, InitMparams, ChangeMparam,
           EnterInitPool, InitPool, InitPoolAborts, GetThreadCache, AllocCache, AllocCacheLocks,
           CacheHit, GetMSpace, CreateMspace, Install, Discard, WaitForLast, EnterMalloc,
           LeaveMalloc, FreeToCache, EnterFree, LeaveFree, Drain, Drained, Retire, Retired,
           WalkEnters, WalkLeaves, WalkEnds
<1> QED  BY <1>1, <1>2, <1>3, <1>4

LEMMA MagicStep ==
    ASSUME NEW t \in Thread, Begin(t) \/ Step(t)
    PROVE  mparams' \in {mparams, "default", "changed"}
<1>1. CASE InitMparams(t) \/ ChangeMparam(t)
    BY <1>1 DEF InitMparams, ChangeMparam, process
<1>2. CASE ~ (InitMparams(t) \/ ChangeMparam(t))
    BY <1>2
       DEF Begin, Step, process, EnsureInitialization, EnterInitMparams, EnterInitPool, InitPool,
           InitPoolAborts, GetThreadCache, CacheRefused, AllocCache, AllocCacheLocks, CacheMade,
           CacheFailed, CacheHit, GetMSpace, ScanOn, Rescan, CreateMspace, Install, Discard,
           InstallLocks, WaitForLast, EnterMalloc, LeaveMalloc, FreeToCache, EnterFree,
           LeaveFree, Drain, Drained, Retire, Retired, TrimThreadCache, WalkEnters, WalkLeaves,
           WalkEnds
<1> QED  BY <1>1, <1>2

LEMMA TypesStep == Inv /\ Inv' /\ Inv2' /\ Types /\ [Next]_vars => Types'
<1> SUFFICES ASSUME Inv, Inv', Inv2', Types, [Next]_vars PROVE Types'
    OBVIOUS
<1>1. CASE UNCHANGED vars
    BY <1>1 DEF Types, vars, pool, locks, process
<1>2. ASSUME NEW t \in Thread, Begin(t) \/ Step(t) PROVE Types'
  <2>1. mparams' \in {"zero", "default", "changed"}
      BY <1>2, MagicStep DEF Types
  <2>2. mycache' \in [Thread -> Int]
    <3>1. mycache'[t] \in Int /\ mycache \in [Thread -> Int]
        BY DEF Inv2, CacheLocal, Types
    <3>2. CASE mycache' = mycache
        BY <3>1, <3>2
    <3>3. CASE \E v : mycache' = [mycache EXCEPT ![t] = v]
        BY <3>1, <3>3
    <3> QED  BY <1>2, <3>2, <3>3, NumberStep
  <2>3. global'.c \in Nat
    <3>1. CASE global' = global
        BY <3>1 DEF Types
    <3>2. CASE pc'[t] # "aborted"
      <4>1. /\ global'.owner = Null => global' = Open
            /\ global'.owner # Null => pc'[global'.owner] \in UnderGlobal
            /\ \A u \in Thread : pc'[u] \in UnderGlobal => global'.owner = u /\ global'.c = 1
            /\ global' \in Lock
          BY <3>2 DEF Inv, GlobalHeld, Shapes
      <4>2. global'.owner \in Thread \union {Null}
          BY <4>1 DEF Lock
      <4> QED  BY <4>1, <4>2 DEF Open
    <3> QED  BY <1>2, <3>1, <3>2, GlobalStep
  <2> QED  BY <2>1, <2>2, <2>3 DEF Types
<1> QED  BY <1>1, <1>2 DEF Next

LEMMA TypesOK == Inv /\ Inv2 /\ Inv3 /\ Tuned /\ Types /\ IsFiniteSet(Thread) => TypeOK
<1> SUFFICES ASSUME Inv, Inv2, Inv3, Tuned, Types, IsFiniteSet(Thread) PROVE TypeOK
    OBVIOUS
<1> USE NedPoolAssumption
<1>1. threads \in {0, MaxThreads} /\ m \in [Index -> Id \union {Null}]
    BY DEF Inv, Ready, Inv2, ListInv
<1>2. ASSUME NEW i \in Id PROVE lock[i].owner \in Thread \union {Null} /\ lock[i].c \in Nat
    BY DEF Inv, Shapes, Lock, MspaceLocks, Open, Depth
<1>3. mutex.owner \in Thread \union {Null} /\ mutex.c \in Nat
  <2>1. mutex.owner \in Thread \union {Null}
      BY DEF Inv, Shapes, Lock
  <2>2. CASE mutex.owner = Null
      BY <2>2 DEF Inv, MutexHeld, Open
  <2>3. CASE mutex.owner \in Thread
    <3>1. pc[mutex.owner] \in UnderMutex
        BY <2>3 DEF Inv, MutexHeld
    <3> QED  BY <2>3, <3>1 DEF Inv, MutexHeld
  <2> QED  BY <2>1, <2>2, <2>3
<1>4. global.owner \in Thread \union {Null} /\ global.c \in Nat
    BY DEF Inv, Shapes, Lock, Types
<1>5. Exists \subseteq Id
    BY DEF Inv2, ListInv, Listing, New
<1>6. ASSUME NEW i \in Exists PROVE used[i] \in Nat
  <2>1. Cardinality(Returning(i)) \in Nat
    <3>1. Returning(i) \in SUBSET Thread
        BY DEF Returning
    <3> QED  BY <3>1, FS_Subset, FS_CardinalityType
  <2>2. i \in Id /\ UsedOf(i) = used[i] /\ Books(i)
      BY <1>5 DEF UsedOf, Inv3
  <2>3. held[i] \in Nat /\ InCaches(i) \in Nat /\ KeptIn(i) \in Nat
      BY <2>2, KeptType, CachesNat DEF Inv3, BlockTypes
  <2> QED  BY <2>1, <2>2, <2>3 DEF Books
<1>7. mycache \in [Thread -> Int] /\ held \in [Id -> Nat] /\ off \subseteq Thread
    BY DEF Types, Inv3, BlockTypes, Inv2, CacheTypes
<1> QED  BY <1>1, <1>2, <1>3, <1>4, <1>5, <1>6, <1>7 DEF TypeOK, Types, Tuned

\* The caches that are blocks: all there are but those whose memory is freed already.
LEMMA KeptCounted ==
    ASSUME IsFiniteSet(Thread), Inv, Inv2
    PROVE  Cardinality(Kept) =
             Cardinality(Live) - Cardinality({t \in Thread : pc[t] = "retire"})
<1> DEFINE gone == {t \in Thread : pc[t] = "retire"}
           freed == {me[t].cache : t \in gone}
           f == [t \in gone |-> me[t].cache]
<1>1. ASSUME NEW t \in gone
      PROVE  me[t].retiring /\ me[t].cache # 0 /\ me[t].cache \in Live
  <2>1. Settled(t) /\ CacheLocal(t) /\ pc[t] = "retire"
      BY DEF Inv2
  <2>2. me[t].retiring /\ me[t].cache # 0
      BY <2>1 DEF Settled
  <2> QED  BY <2>1, <2>2 DEF CacheLocal, Owns, Live, Making
<1>2. \A t, u \in gone : me[t].cache = me[u].cache => t = u
    BY <1>1 DEF Inv2
<1>3. IsFiniteSet(gone) /\ Cardinality(freed) = Cardinality(gone) /\ IsFiniteSet(freed)
  <2>1. gone \in SUBSET Thread
      OBVIOUS
  <2>2. IsFiniteSet(gone)
      BY <2>1, FS_Subset
  <2>3. f \in Bijection(gone, freed)
    <3>1. f \in [gone -> freed] /\ \A t \in gone : f[t] = me[t].cache
        OBVIOUS
    <3>2. \A y \in freed : \E t \in gone : f[t] = y
        BY <3>1
    <3>3. \A t, u \in gone : f[t] = f[u] => t = u
        BY <1>2, <3>1
    <3> HIDE DEF f, gone, freed
    <3>4. f \in Injection(gone, freed)
        BY <3>1, <3>3 DEF Injection, IsInjective
    <3>5. f \in Surjection(gone, freed)
        BY <3>1, <3>2 DEF Surjection
    <3> QED  BY <3>4, <3>5 DEF Bijection
  <2> HIDE DEF f, gone, freed
  <2> QED  BY <2>2, <2>3, FS_Bijection, Zenon DEF ExistsBijection
<1>4. Live = Kept \union freed /\ Kept \cap freed = {}
    BY <1>1 DEF Live, Kept
<1>5. Cardinality(Live) = Cardinality(Kept) + Cardinality(freed) - 0
  <2>1. Cardinality(Kept \cap freed) = 0
      BY <1>4, FS_EmptySet
  <2>2. IsFiniteSet(Kept)
      BY KeptType
  <2> HIDE DEF freed
  <2> QED  BY <1>3, <1>4, <2>1, <2>2, FS_Union
<1>6. Cardinality(Kept) \in Nat /\ Cardinality(gone) \in Nat
    BY <1>3, KeptType, FS_CardinalityType
<1> HIDE DEF freed, gone
<1> QED  BY <1>3, <1>5, <1>6 DEF gone

LEMMA InvAccounted ==
    ASSUME IsFiniteSet(Thread)
    PROVE  Inv /\ Inv2 /\ Inv3 /\ Tuned /\ Types => BlocksAccounted
<1> SUFFICES ASSUME Inv, Inv2, Inv3, Tuned, Types PROVE BlocksAccounted
    OBVIOUS
<1>1. TypeOK
    BY TypesOK
<1>2. ASSUME NEW i \in Exists
      PROVE  used[i] = held[i] + MapThenSumSet(LAMBDA c : caches[c].blocks[i], Live)
                       + Cardinality(Returning(i))
                       + (IF i = m[0]
                          THEN Cardinality(Live) - Cardinality({t \in Thread : pc[t] = "retire"})
                          ELSE 0)
  <2>1. i \in Id
      BY <1>1 DEF TypeOK
  <2>2. MapThenSumSet(LAMBDA c : caches[c].blocks[i], Live) = InCaches(i)
    <3>1. \A c \in Live : caches[c].blocks[i] \in Nat
        BY <2>1 DEF Inv3, BlockTypes
    <3> QED  BY <3>1, CachedSum DEF InCaches
  <2>3. used[i] = held[i] + InCaches(i) + Cardinality(Returning(i)) + KeptIn(i)
      BY <2>1 DEF Inv3, Books, UsedOf
  <2>4. KeptIn(i) = IF i = m[0]
                    THEN Cardinality(Live) - Cardinality({t \in Thread : pc[t] = "retire"})
                    ELSE 0
      BY KeptCounted DEF KeptIn
  <2> QED  BY <2>2, <2>3, <2>4
<1> QED  BY <1>1, <1>2 DEF BlocksAccounted, Live, Cache, Returning

\* Every block an mspace counts as allocated is with a client, in a cache, with a thread on
\* its way back, or is a cache: what threads do to one another's caches and mspaces between
\* two locks, a cache that is turned off and an mspace destroyed again (FindMSpace,
\* neddisablethreadcache) included, no block is lost and none is freed twice.
THEOREM BlocksAreAccounted ==
    ASSUME IsFiniteSet(Thread), IsFiniteSet(Id)
    PROVE  Spec => []BlocksAccounted
<1>1. Init => Tuned /\ Types
  <2>1. Init => tuned = FALSE /\ mparams = "zero" /\ global.c = 0
      BY DEF Init, Open
  <2>2. Init => mycache \in [Thread -> Int]
      BY DEF Init
  <2>3. Init => Tuned
      BY DEF Init, Tuned
  <2> QED  BY <2>1, <2>2, <2>3 DEF Types
<1>2. Inv /\ Inv2 /\ Inv3 /\ [Next]_vars => Inv3'
    BY NextInv3
<1>3. Inv /\ Inv2 /\ Inv3 /\ Tuned /\ Types => BlocksAccounted
    BY InvAccounted
<1> QED
    BY <1>1, <1>2, <1>3, InitInv, NextInv, InitInv2, NextInv2, InitInv3, TunedStep, TypesStep,
       PTL DEF Spec
=============================================================================
