------------------------------- MODULE NedPool -------------------------------
(***************************************************************************)
(* A pool of nedmalloc (nedmalloc/nedmalloc.c): up to `threads' mspaces,   *)
(* each under a recursive lock of its own, and a cache for each thread.  A *)
(* call works in the mspace its thread used last; when another thread is   *)
(* in it, FindMSpace tries the others, then makes a new one, then waits.   *)
(* The pool's mutex guards the two lists while they grow.  What a thread   *)
(* reaches in a pool is one number in thread-local storage: a cache, an    *)
(* mspace, or nothing yet.                                                 *)
(*                                                                         *)
(* A step is one access to what threads share.  Blocks are counted, by the *)
(* mspace they lie in; Mspace models what happens inside one mspace, and   *)
(* ThreadCache what happens inside one cache.                              *)
(***************************************************************************)
EXTENDS Integers, FiniteSets, Functions, FiniteSetsExt

CONSTANTS Thread,      \* the threads: their ids, as CURRENT_THREAD gives them
          Id,          \* the mspaces there may be at once
          MaxThreads,  \* the pool's `threads': the length its list of mspaces may reach
          MaxCaches,   \* THREADCACHEMAXCACHES (256)
          CacheRoom,   \* the blocks a cache keeps before it gives the rest back
          MaxHeld,     \* bound on the blocks clients hold
          Plans,       \* bounds on the calls: how many each thread makes
          Null

ASSUME NedPoolAssumption ==
    /\ Thread \subseteq Nat \ {0} /\ MaxThreads \in Nat \ {0} /\ MaxCaches \in Nat \ {0}
    /\ CacheRoom \in Nat /\ MaxHeld \in Nat /\ Plans \subseteq [Thread -> Nat]
    /\ Id # {} /\ Null \notin Id \union Thread
    /\ Null \notin [threadid : Nat, mymspace : Int, blocks : [Id -> Int]]

VARIABLES
    threads,       \* p->threads: 0 until InitPool is through
    mparams,       \* the parameters of all mspaces: zero (magic = 0), default or changed
    global,        \* malloc_global_mutex
    mutex,         \* p->mutex
    lock,          \* the lock in each mspace
    m,             \* p->m: mspaces, then NULL
    used,          \* the blocks allocated in each mspace that exists
    caches,        \* p->caches
    mycache,       \* the thread-local number: c > 0 for cache c, 0 unset, below 0 an mspace
    pc, me,        \* where each thread is, and its local variables
    held,          \* how many blocks of each mspace clients hold
    calls,         \* how many calls each thread has yet to make
    off,           \* the threads whose cache was refused, or turned off
    tuned          \* mallopt has changed a parameter

pool == <<threads, m, used, caches, mycache>>
locks == <<global, mutex, lock>>
process == <<mparams, tuned>>
vars == <<pool, locks, process, pc, me, held, calls, off>>

-----------------------------------------------------------------------------
(* The recursive spin lock of malloc.c.h: its owner and how often it holds it. *)

Open == [owner |-> Null, c |-> 0]
\* When acquire_lock gets through, and when try_lock succeeds.
Acquirable(l, t) == l.owner \in {Null, t}
Acquired(l, t) == [owner |-> t, c |-> l.c + 1]
Released(l) == IF l.c = 1 THEN Open ELSE [l EXCEPT !.c = @ - 1]

-----------------------------------------------------------------------------
Exists == DOMAIN used
\* create_mspace gives memory nobody has: which, makes no difference.
Fresh == CHOOSE i \in Id : i \notin Exists
Index == 0..MaxThreads
Without(f, x) == Restrict(f, DOMAIN f \ {x})
With(f, x, y) == [z \in DOMAIN f \union {x} |-> IF z = x THEN y ELSE f[z]]

NoBlocks == [i \in Id |-> 0]
NewCache(t, ms) == [threadid |-> t, mymspace |-> ms, blocks |-> NoBlocks]

\* How many mspaces the list holds: for(end=1; p->m[end]; end++).
ListEnd == CHOOSE e \in Index : m[e] = Null /\ \A i \in 0..(e - 1) : m[i] # Null
\* The place the first loop of FindMSpace saw free, filled by now or not.
Places_stale(end) == {end} \cap 0..(MaxThreads - 1)

\* The first place in the list that is free, from end on; none if the list is full.
Places(end) ==
    {e \in end..(MaxThreads - 1) : m[e] = Null /\ \A i \in end..(e - 1) : m[i] # Null}

\* A cache index or an mspace index as the thread-local number.
AsMspace(ms) == -(ms + 1)
MspaceOf(number) == -number - 1

NoLocals == [op |-> Null, cache |-> 0, ms |-> 0, n |-> 0, end |-> 0,
             m |-> Null, block |-> Null, retiring |-> FALSE]

Init ==
    /\ mparams = "zero" /\ tuned = FALSE
    /\ threads = 0 /\ global = Open /\ mutex = Open
    /\ lock = [i \in Id |-> Open]
    /\ m = [i \in Index |-> Null]
    /\ used = << >>
    /\ caches = [c \in 1..MaxCaches |-> Null]
    /\ mycache = [t \in Thread |-> 0]
    /\ pc = [t \in Thread |-> "idle"]
    /\ me = [t \in Thread |-> NoLocals]
    /\ held = NoBlocks
    /\ calls \in Plans
    /\ off = {}

At(t, label) == pc[t] = label
Go(t, label) == pc' = [pc EXCEPT ![t] = label]
Return(t) == Go(t, "idle") /\ me' = [me EXCEPT ![t] = NoLocals]

-----------------------------------------------------------------------------
(* A call begins.  "malloc" stands for every call that ends in GETMSPACE,  *)
(* "info" for mallinfo, malloc_trim, malloc_stats and malloc_footprint,    *)
(* which take every mspace of the pool in turn.                            *)

Begin(t) ==
    /\ At(t, "idle") /\ calls[t] > 0
    /\ calls' = [calls EXCEPT ![t] = @ - 1]
    /\ \/ \E op \in {"malloc", "trim", "disable", "info"} :
            /\ me' = [me EXCEPT ![t].op = op] /\ UNCHANGED held
            /\ Go(t, IF threads = 0 THEN "ensure" ELSE "start")
       \/ /\ me' = [me EXCEPT ![t].op = "mallopt"] /\ UNCHANGED held
          /\ Go(t, "ensure")
       \/ \E i \in {j \in Id : held[j] > 0} :
            /\ me' = [me EXCEPT ![t].op = "free", ![t].block = i]
            /\ held' = [held EXCEPT ![i] = @ - 1]
            /\ Go(t, "start")
    /\ UNCHANGED <<pool, locks, process, off>>

-----------------------------------------------------------------------------
(* ensure_initialization looks at mparams.magic without the lock; init_mparams *)
(* looks again under it, and sets the magic last.                              *)

Ensured(t) == IF me[t].op = "mallopt" THEN "change" ELSE "init"

EnsureInitialization(t) ==
    /\ At(t, "ensure")
    /\ Go(t, IF mparams = "zero" THEN "mparams" ELSE Ensured(t))
    /\ UNCHANGED <<pool, locks, process, me, held, calls, off>>

EnterInitMparams(t) ==
    /\ At(t, "mparams") /\ Acquirable(global, t)
    /\ global' = Acquired(global, t)
    /\ Go(t, "mparams_in")
    /\ UNCHANGED <<pool, mutex, lock, process, me, held, calls, off>>

\* InitMparams that does not look again.
InitMparams_again(t) ==
    /\ At(t, "mparams_in")
    /\ mparams' = "default"
    /\ global' = Released(global)
    /\ Go(t, Ensured(t))
    /\ UNCHANGED <<pool, mutex, lock, tuned, me, held, calls, off>>

InitMparams(t) ==
    /\ At(t, "mparams_in")
    /\ mparams' = IF mparams = "zero" THEN "default" ELSE mparams
    /\ global' = Released(global)
    /\ Go(t, Ensured(t))
    /\ UNCHANGED <<pool, mutex, lock, tuned, me, held, calls, off>>

\* mallopt: a value that is refused changes nothing.  No lock is taken.
ChangeMparam(t) ==
    /\ At(t, "change")
    /\ \/ mparams' = "changed" /\ tuned' = TRUE
       \/ UNCHANGED process
    /\ Return(t)
    /\ UNCHANGED <<pool, locks, held, calls, off>>

-----------------------------------------------------------------------------
(* InitPool *)

EnterInitPool(t) ==
    /\ At(t, "init") /\ Acquirable(global, t)
    /\ global' = Acquired(global, t)
    /\ Go(t, "initpool")
    /\ UNCHANGED <<pool, mutex, lock, me, held, calls, process, off>>

\* threads is set last: whoever reads it non-zero finds the rest in place.
InitPool(t) ==
    /\ At(t, "initpool")
    /\ global' = Released(global)
    /\ IF threads # 0
       THEN UNCHANGED <<threads, m, used>>
       ELSE /\ m' = [m EXCEPT ![0] = Fresh]
            /\ used' = With(used, Fresh, 0)
            /\ threads' = MaxThreads
    /\ Go(t, "start")
    /\ UNCHANGED <<mutex, lock, caches, mycache, me, held, calls, process, off>>

\* "If you can't allocate for system pool, we're screwed": abort().
InitPoolAborts(t) ==
    /\ At(t, "initpool") /\ threads = 0
    /\ pc' = [u \in Thread |-> "aborted"]
    /\ UNCHANGED <<pool, locks, process, me, held, calls, off>>

-----------------------------------------------------------------------------
(* GetThreadCache *)

AfterCache(t, cache, ms) ==
    /\ me' = [me EXCEPT ![t].cache = cache, ![t].ms = ms]
    /\ Go(t, me[t].op)

GetThreadCache(t) ==
    /\ At(t, "start") /\ me[t].op \in {"malloc", "free"}
    /\ LET number == mycache[t]
       IN \/ /\ number > 0
             /\ AfterCache(t, number, caches[number].mymspace)
          \/ number < 0 /\ AfterCache(t, 0, MspaceOf(number))
          \/ number = 0 /\ Go(t, "alloc") /\ UNCHANGED me
    /\ UNCHANGED <<pool, locks, process, held, calls, off>>

\* The list of caches is full: none for this thread, ever.
CacheRefused(t) ==
    /\ At(t, "alloc") /\ Acquirable(mutex, t)
    /\ \A c \in 1..MaxCaches : caches[c] # Null
    /\ mycache' = [mycache EXCEPT ![t] = AsMspace(0)]
    /\ AfterCache(t, 0, 0)
    /\ off' = off \union {t}
    /\ UNCHANGED <<threads, m, used, caches, locks, process, held, calls>>

\* AllocCache that looks for its place before it has the mutex.
AllocCache_early(t) ==
    /\ At(t, "alloc")
    /\ \E c \in 1..MaxCaches :
         /\ caches[c] = Null /\ \A d \in 1..(c - 1) : caches[d] # Null
         /\ me' = [me EXCEPT ![t].cache = c]
    /\ Go(t, "alloc_lock")
    /\ UNCHANGED <<pool, locks, process, held, calls, off>>

AllocCache(t) ==
    /\ At(t, "alloc") /\ Acquirable(mutex, t)
    /\ mutex' = Acquired(mutex, t)
    /\ \E c \in 1..MaxCaches :
         /\ caches[c] = Null /\ \A d \in 1..(c - 1) : caches[d] # Null
         /\ me' = [me EXCEPT ![t].cache = c]
    /\ Go(t, "alloc_lock")
    /\ UNCHANGED <<pool, global, lock, held, calls, process, off>>

AllocCacheLocks(t) ==
    /\ At(t, "alloc_lock") /\ Acquirable(lock[m[0]], t)
    /\ lock' = [lock EXCEPT ![m[0]] = Acquired(@, t)]
    /\ Go(t, "alloc_in")
    /\ UNCHANGED <<pool, global, mutex, me, held, calls, process, off>>

\* The cache lies in the first mspace.  Where its thread works first depends on its id.
CacheMade(t) ==
    /\ At(t, "alloc_in")
    /\ used' = [used EXCEPT ![m[0]] = @ + 1]
    /\ caches' = [caches EXCEPT ![me[t].cache] = NewCache(t, t % ListEnd)]
    /\ mycache' = [mycache EXCEPT ![t] = me[t].cache]
    /\ lock' = [lock EXCEPT ![m[0]] = Released(@)]
    /\ mutex' = Released(mutex)
    /\ AfterCache(t, me[t].cache, t % ListEnd)
    /\ UNCHANGED <<threads, m, global, held, calls, process, off>>

\* CacheFailed that returns with the mutex held.
CacheFailed_locked(t) ==
    /\ At(t, "alloc_in")
    /\ mycache' = [mycache EXCEPT ![t] = AsMspace(0)]
    /\ lock' = [lock EXCEPT ![m[0]] = Released(@)]
    /\ AfterCache(t, 0, 0)
    /\ off' = off \union {t}
    /\ UNCHANGED <<threads, m, used, caches, global, mutex, held, process, calls>>

\* No memory for a cache: this thread goes on without.
CacheFailed(t) ==
    /\ At(t, "alloc_in")
    /\ mycache' = [mycache EXCEPT ![t] = AsMspace(0)]
    /\ lock' = [lock EXCEPT ![m[0]] = Released(@)]
    /\ mutex' = Released(mutex)
    /\ AfterCache(t, 0, 0)
    /\ off' = off \union {t}
    /\ UNCHANGED <<threads, m, used, caches, global, held, process, calls>>

-----------------------------------------------------------------------------
(* malloc: from the cache, or from an mspace locked by GetMSpace. *)

CacheHit(t) ==
    /\ At(t, "malloc") /\ me[t].cache # 0
    /\ \E i \in Exists :
         /\ caches[me[t].cache].blocks[i] > 0
         /\ caches' = [caches EXCEPT ![me[t].cache].blocks[i] = @ - 1]
         /\ held' = [held EXCEPT ![i] = @ + 1]
    /\ Return(t)
    /\ UNCHANGED <<threads, m, used, mycache, locks, process, calls, off>>

\* try_lock that takes a lock for free whatever thread has it.
TryLock_blind(t, n) == lock' = [lock EXCEPT ![m[n]] = Acquired(@, t)]

\* try_lock on the n-th mspace succeeds.
TryLock(t, n) ==
    /\ Acquirable(lock[m[n]], t)
    /\ lock' = [lock EXCEPT ![m[n]] = Acquired(@, t)]

TryLockFails(t, n) == ~ Acquirable(lock[m[n]], t)

GetMSpace(t) ==
    /\ At(t, "malloc")
    /\ \/ /\ TryLock(t, me[t].ms)
          /\ me' = [me EXCEPT ![t].m = m[me[t].ms]]
          /\ Go(t, "enter")
       \/ /\ TryLockFails(t, me[t].ms)
          /\ me' = [me EXCEPT ![t].n = me[t].ms + 1, ![t].end = me[t].ms + 1]
          /\ Go(t, "scan") /\ UNCHANGED lock
    /\ UNCHANGED <<pool, global, mutex, held, calls, process, off>>

\* FindMSpace settles on the n-th mspace, and the thread will start there next time.
Found(t, n) ==
    /\ me' = [me EXCEPT ![t].ms = n, ![t].m = m[n], ![t].n = 0, ![t].end = 0]
    /\ IF me[t].cache # 0
       THEN caches' = [caches EXCEPT ![me[t].cache].mymspace = n] /\ UNCHANGED mycache
       ELSE mycache' = [mycache EXCEPT ![t] = AsMspace(n)] /\ UNCHANGED caches
    /\ Go(t, "enter")

\* Along the mspaces after the last used, to the end of the list,
ScanOn(t) ==
    LET n == me[t].n
    IN /\ At(t, "scan")
       /\ \/ /\ m[n] # Null /\ TryLock(t, n)
             /\ Found(t, n)
          \/ /\ m[n] # Null /\ TryLockFails(t, n)
             /\ me' = [me EXCEPT ![t].n = n + 1, ![t].end = n + 1]
             /\ UNCHANGED <<lock, caches, mycache, pc>>
          \/ /\ m[n] = Null
             /\ me' = [me EXCEPT ![t].n = 0]
             /\ Go(t, "rescan") /\ UNCHANGED <<lock, caches, mycache>>
       /\ UNCHANGED <<threads, m, used, global, mutex, held, calls, process, off>>

\* then along those before it, and then for one more, or back to wait.
Rescan(t) ==
    LET n == me[t].n
        before == n < me[t].ms
    IN /\ At(t, "rescan")
       /\ \/ /\ before /\ TryLock(t, n)
             /\ Found(t, n)
          \/ /\ before /\ TryLockFails(t, n)
             /\ me' = [me EXCEPT ![t].n = n + 1]
             /\ UNCHANGED <<lock, caches, mycache, pc>>
          \/ /\ ~ before
             /\ Go(t, IF me[t].end < threads THEN "create" ELSE "wait")
             /\ UNCHANGED <<lock, caches, mycache, me>>
       /\ UNCHANGED <<threads, m, used, global, mutex, held, calls, process, off>>

CreateMspace(t) ==
    /\ At(t, "create")
    /\ \/ /\ Exists # Id
          /\ used' = With(used, Fresh, 0)
          /\ me' = [me EXCEPT ![t].m = Fresh]
          /\ Go(t, "install")
       \/ Go(t, "wait") /\ UNCHANGED <<used, me>>    \* create_mspace failed
    /\ UNCHANGED <<threads, m, caches, mycache, locks, process, held, calls, off>>

\* Under the mutex the place is looked for again.
Install(t) ==
    /\ At(t, "install") /\ Acquirable(mutex, t)
    /\ mutex' = Acquired(mutex, t)
    /\ \E end \in Places(me[t].end) :
         /\ m' = [m EXCEPT ![end] = me[t].m]
         /\ me' = [me EXCEPT ![t].end = end, ![t].m = Null]
    /\ Go(t, "install_lock")
    /\ UNCHANGED <<threads, used, caches, mycache, global, lock, process, held, calls, off>>

\* "Drat, must destroy it now": others have filled the list.
Discard(t) ==
    /\ At(t, "install") /\ Acquirable(mutex, t) /\ Places(me[t].end) = {}
    /\ used' = Without(used, me[t].m)
    /\ me' = [me EXCEPT ![t].m = Null]
    /\ Go(t, "wait")
    /\ UNCHANGED <<threads, m, caches, mycache, locks, process, held, calls, off>>

\* With the mutex held, the new mspace's own lock: another thread may be in already.
InstallLocks(t) ==
    LET end == me[t].end
    IN /\ At(t, "install_lock") /\ Acquirable(lock[m[end]], t)
       /\ lock' = [lock EXCEPT ![m[end]] = Acquired(@, t)]
       /\ mutex' = Released(mutex)
       /\ Found(t, end)
       /\ UNCHANGED <<threads, m, used, global, held, calls, process, off>>

\* "Let it lock on the last one it used".
WaitForLast(t) ==
    LET last == m[me[t].ms]
    IN /\ At(t, "wait") /\ Acquirable(lock[last], t)
       /\ lock' = [lock EXCEPT ![last] = Acquired(@, t)]
       /\ me' = [me EXCEPT ![t].m = last, ![t].n = 0, ![t].end = 0]
       /\ Go(t, "enter")
       /\ UNCHANGED <<pool, global, mutex, held, calls, process, off>>

\* mspace_malloc2 takes the lock again, inside GETMSPACE's.
EnterMalloc(t) ==
    /\ At(t, "enter") /\ Acquirable(lock[me[t].m], t)
    /\ lock' = [lock EXCEPT ![me[t].m] = Acquired(@, t)]
    /\ Go(t, "inside")
    /\ UNCHANGED <<pool, global, mutex, me, held, calls, process, off>>

LeaveMalloc(t) ==
    LET i == me[t].m
    IN /\ At(t, "inside")
       /\ \/ /\ SumFunction(held) < MaxHeld
             /\ used' = [used EXCEPT ![i] = @ + 1]
             /\ held' = [held EXCEPT ![i] = @ + 1]
          \/ UNCHANGED <<used, held>>    \* no memory
       /\ lock' = [lock EXCEPT ![i] = Released(Released(@))]
       /\ Return(t)
       /\ UNCHANGED <<threads, m, caches, mycache, global, mutex, calls, process, off>>

-----------------------------------------------------------------------------
(* free, and trimming a cache: the block's own mspace is found by its footer. *)

\* A small block goes into the thread's cache, if it has one; then the cache is
\* cut down to its room.
FreeToCache(t) ==
    /\ At(t, "free") /\ me[t].cache # 0
    /\ caches' = [caches EXCEPT ![me[t].cache].blocks[me[t].block] = @ + 1]
    /\ me' = [me EXCEPT ![t].block = Null]
    /\ Go(t, "drain")
    /\ UNCHANGED <<threads, m, used, mycache, locks, process, held, calls, off>>

EnterFree(t) ==
    LET i == me[t].block
    IN /\ pc[t] \in {"free", "free_lock"} /\ Acquirable(lock[i], t)
       /\ lock' = [lock EXCEPT ![i] = Acquired(@, t)]
       /\ Go(t, "free_in")
       /\ UNCHANGED <<pool, global, mutex, me, held, calls, process, off>>

LeaveFree(t) ==
    LET i == me[t].block
    IN /\ At(t, "free_in")
       /\ used' = [used EXCEPT ![i] = @ - 1]
       /\ lock' = [lock EXCEPT ![i] = Released(@)]
       /\ me' = [me EXCEPT ![t].block = Null]
       /\ Go(t, IF me[t].retiring THEN "retire" ELSE "drain")
       /\ UNCHANGED <<threads, m, caches, mycache, global, mutex, held, calls, process, off>>

\* What may stay in the cache: what fits, or nothing when it is trimmed.
Room(t) == IF me[t].op = "free" THEN CacheRoom ELSE 0
Cached(t) == IF me[t].cache = 0 THEN 0 ELSE SumFunction(caches[me[t].cache].blocks)

\* RemoveCacheEntries gives one more block back.
Drain(t) ==
    /\ At(t, "drain") /\ Cached(t) > Room(t)
    /\ \E i \in {j \in Id : caches[me[t].cache].blocks[j] > 0} :
         /\ caches' = [caches EXCEPT ![me[t].cache].blocks[i] = @ - 1]
         /\ me' = [me EXCEPT ![t].block = i]
    /\ Go(t, "free_lock")
    /\ UNCHANGED <<threads, m, used, mycache, locks, process, held, calls, off>>

Drained(t) ==
    /\ At(t, "drain") /\ Cached(t) <= Room(t) /\ me[t].op # "disable"
    /\ Return(t)
    /\ UNCHANGED <<pool, locks, process, held, calls, off>>

\* Retire that frees a cache and not what is in it.
Retire_full(t) ==
    /\ At(t, "drain") /\ me[t].op = "disable"
    /\ caches' = [caches EXCEPT ![me[t].cache].threadid = 0, ![me[t].cache].mymspace = -1,
                                ![me[t].cache].blocks = NoBlocks]
    /\ me' = [me EXCEPT ![t].block = m[0], ![t].retiring = TRUE]
    /\ Go(t, "free_lock")
    /\ UNCHANGED <<threads, m, used, mycache, locks, process, held, calls, off>>

\* A cache that is turned off is freed itself, into the first mspace.
Retire(t) ==
    /\ At(t, "drain") /\ Cached(t) <= Room(t) /\ me[t].op = "disable"
    /\ caches' = [caches EXCEPT ![me[t].cache].threadid = 0, ![me[t].cache].mymspace = -1]
    /\ me' = [me EXCEPT ![t].block = m[0], ![t].retiring = TRUE]
    /\ Go(t, "free_lock")
    /\ UNCHANGED <<threads, m, used, mycache, locks, process, held, calls, off>>

Retired(t) ==
    /\ At(t, "retire")
    /\ caches' = [caches EXCEPT ![me[t].cache] = Null]
    /\ Return(t)
    /\ UNCHANGED <<threads, m, used, mycache, locks, process, held, calls, off>>

\* nedtrimthreadcache and neddisablethreadcache.  An mspace is stored as -mymspace
\* here and read as -(mymspace + 1): the one before it, and none if it is the first.
Stored(ms) == -ms

TrimThreadCache(t) ==
    LET number == mycache[t]
        disable == me[t].op = "disable"
    IN /\ At(t, "start") /\ me[t].op \in {"trim", "disable"}
       /\ \/ /\ number > 0
             /\ me' = [me EXCEPT ![t].cache = number]
             /\ mycache' = [mycache EXCEPT ![t] =
                              IF disable THEN Stored(caches[number].mymspace) ELSE number]
             /\ off' = IF disable /\ caches[number].mymspace # 0
                       THEN off \union {t} ELSE off
             /\ Go(t, "drain")
          \/ /\ number <= 0
             /\ mycache' = [mycache EXCEPT ![t] =
                              IF disable /\ number = 0 THEN AsMspace(0) ELSE number]
             /\ off' = IF disable THEN off \union {t} ELSE off
             /\ Return(t)
       /\ UNCHANGED <<threads, m, used, caches, locks, process, held, calls>>

-----------------------------------------------------------------------------
(* Each mspace of the pool in turn. *)

Walking(t) == At(t, "walk") \/ (At(t, "start") /\ me[t].op = "info")

WalkEnters(t) ==
    LET i == m[me[t].n]
    IN /\ Walking(t) /\ i # Null /\ Acquirable(lock[i], t)
       /\ lock' = [lock EXCEPT ![i] = Acquired(@, t)]
       /\ me' = [me EXCEPT ![t].m = i]
       /\ Go(t, "walk_in")
       /\ UNCHANGED <<pool, global, mutex, held, calls, process, off>>

WalkLeaves(t) ==
    /\ At(t, "walk_in")
    /\ lock' = [lock EXCEPT ![me[t].m] = Released(@)]
    /\ me' = [me EXCEPT ![t].m = Null, ![t].n = @ + 1]
    /\ Go(t, "walk")
    /\ UNCHANGED <<pool, global, mutex, held, calls, process, off>>

WalkEnds(t) ==
    /\ Walking(t) /\ m[me[t].n] = Null
    /\ Return(t)
    /\ UNCHANGED <<pool, locks, process, held, calls, off>>

Step(t) ==
    \/ EnsureInitialization(t) \/ EnterInitMparams(t) \/ InitMparams(t) \/ ChangeMparam(t)
    \/ EnterInitPool(t) \/ InitPool(t) \/ InitPoolAborts(t)
    \/ GetThreadCache(t) \/ CacheRefused(t) \/ AllocCache(t) \/ AllocCacheLocks(t)
    \/ CacheMade(t) \/ CacheFailed(t)
    \/ CacheHit(t) \/ GetMSpace(t) \/ ScanOn(t) \/ Rescan(t) \/ CreateMspace(t)
    \/ Install(t) \/ Discard(t) \/ InstallLocks(t) \/ WaitForLast(t)
    \/ EnterMalloc(t) \/ LeaveMalloc(t)
    \/ FreeToCache(t) \/ EnterFree(t) \/ LeaveFree(t)
    \/ Drain(t) \/ Drained(t) \/ Retire(t) \/ Retired(t) \/ TrimThreadCache(t)
    \/ WalkEnters(t) \/ WalkLeaves(t) \/ WalkEnds(t)

Next == \E t \in Thread : Begin(t) \/ Step(t)

\* The threads are the system's: one that can go on is run again in the end.
Spec == Init /\ [][Next]_vars /\ WF_vars(\E t \in Thread : Step(t))

-----------------------------------------------------------------------------
TypeOK ==
    /\ mparams \in {"zero", "default", "changed"} /\ tuned \in BOOLEAN
    /\ threads \in {0, MaxThreads} /\ m \in [Index -> Id \union {Null}]
    /\ \A l \in {global, mutex} \union {lock[i] : i \in Id} :
         l.owner \in Thread \union {Null} /\ l.c \in Nat
    /\ Exists \subseteq Id /\ \A i \in Exists : used[i] \in Nat
    /\ mycache \in [Thread -> Int] /\ held \in [Id -> Nat]
    /\ off \subseteq Thread

\* The mspace or the lock a thread is working under, by where it is.
Inside(t) ==
    {me[t].m : x \in {pc[t]} \cap {"enter", "inside", "walk_in"}}
    \union {m[0] : x \in {pc[t]} \cap {"alloc_in"}}
    \union {me[t].block : x \in {pc[t]} \cap {"free_in"}}

\* How often: mspace_malloc2 takes the lock a second time.
Depth(t) == IF pc[t] = "inside" THEN 2 ELSE 1
HeldBy(l, in) ==
    \/ in = {} /\ l = Open
    \/ \E t \in in : in = {t} /\ l = [owner |-> t, c |-> Depth(t)]

\* A thread in an mspace is the only one there and holds its lock as often as it
\* will release it (the assertions of release_lock, malloc.c.h), and a lock that
\* nobody is to release is open; so with the pool's mutex and the global one.
LocksHeld ==
    /\ \A i \in Id : HeldBy(lock[i], {t \in Thread : i \in Inside(t)})
    /\ HeldBy(mutex, {t \in Thread : pc[t] \in {"alloc_lock", "alloc_in", "install_lock"}})
    /\ \/ HeldBy(global, {t \in Thread : pc[t] \in {"mparams_in", "initpool"}})
       \/ \A t \in Thread : pc[t] = "aborted"

\* The list of mspaces has no gaps, no mspace twice and none that is gone, and an
\* mspace that is not in the list is in the hands of the thread that has just made
\* it: two threads that make one at the same time lose neither (FindMSpace).
MspacesListed ==
    LET listed == {m[i] : i \in Index} \ {Null}
        inhand == {t \in Thread : pc[t] = "install"}
    IN /\ \A i \in 1..MaxThreads : m[i] # Null => m[i - 1] # Null
       /\ m[MaxThreads] = Null
       /\ \A i, j \in Index : m[i] # Null /\ m[i] = m[j] => i = j
       /\ Exists = listed \union {me[t].m : t \in inhand}
       /\ Cardinality(Exists) = Cardinality(listed) + Cardinality(inhand)

\* The number a thread keeps names a cache of its own, or an mspace in the list (the
\* assertions of GetThreadCache and GetMSpace); a cache has one thread that may use
\* it, or that is about to free it.
CacheIsOwn ==
    /\ \A t \in Thread :
         LET number == mycache[t]
         IN /\ number > 0 => caches[number] # Null /\ caches[number].threadid = t
            /\ number < 0 => m[MspaceOf(number)] # Null
    /\ \A c \in 1..MaxCaches : caches[c] # Null =>
         IF caches[c].threadid = 0
         THEN \E t \in Thread : me[t].retiring /\ me[t].cache = c
         ELSE /\ m[caches[c].mymspace] # Null
              /\ \/ mycache[caches[c].threadid] = c
                 \/ me[caches[c].threadid].cache = c

\* What an mspace counts as allocated is with a client, in a cache, in a thread's
\* hands on its way back, or is a cache itself: turning a cache off loses nothing.
BlocksAccounted ==
    LET live == {c \in 1..MaxCaches : caches[c] # Null}
        returning(i) == {t \in Thread : me[t].block = i /\ ~ me[t].retiring}
        gone == {t \in Thread : pc[t] = "retire"}
    IN /\ TypeOK
       /\ \A i \in Exists :
            used[i] = held[i] + MapThenSumSet(LAMBDA c : caches[c].blocks[i], live)
                      + Cardinality(returning(i))
                      + (IF i = m[0] THEN Cardinality(live) - Cardinality(gone) ELSE 0)

\* What is set stays set.  A thread that turned its cache off, or could not have one,
\* never has one again (not so when it turned it off while it worked in the first
\* mspace, nedmalloc.c:1846); and a thread late in init_mparams does not undo what
\* mallopt has changed since.
SettingsStay ==
    /\ \A t \in off : mycache[t] < 0
    /\ tuned => mparams = "changed"

\* Every call returns, unless the program has aborted.
CallsReturn == []<>(\A t \in Thread : pc[t] \in {"idle", "aborted"})
=============================================================================
