# comparing_allocation_libs in TLA+

The repository compares memory allocators: two pool allocators of its own
(`dbj_pool_allocator`, and the `PoolAllocator` it grew from), two pools of the
nvwa library, the small `kalloc` heap, nedmalloc, and the system heap. This
directory holds a TLA+ model of each allocator's state machine, the TLC runs
that check it on small instances, and theorems about the models proved with
TLAPS for every value of the constants.

An allocator is right when its client cannot tell that there is one: memory a
client has is nobody else's, nothing given back is lost, and calls return. Few
of these things show in a unit test. A link written in the wrong order, a chunk
threaded in twice or a size rounded the other way surfaces many calls later, or
with one interleaving in thousands. That is what the properties below are about.

Run a model with `tlc -config <run>.cfg <module>`, a proof with
`tlapm <module>.tla`. `PROJECT.json` lists runs, properties, hazards, the source
lines each definition translates, and for every property a mutant of the code
that breaks it.

## The system

| Part | Source | State | Operations | Modules |
|---|---|---|---|---|
| dbj_pool_allocator | `dbj_pool_allocator/dbj_shoshnikov_pool_allocator.h` | one free list through all blocks (`next_free_chunk_`, `Chunk::next`, `Chunk::in_use`), `block_registry` of at most 255 blocks | constructor, `allocate`, `deallocate`, destructor | ChunkPool, FreeList, DbjPool, MCDbjPool |
| its chunk layout | same | none: address arithmetic | `align`, `chunk_allocation_size`, `chunk_from_data` | ChunkLayout, DbjPoolMemory |
| its report | `dbj_pool_allocator/pool_allocator_instrumentation.h` | reads the pool | `report`, `print_address` | DbjPool (`Reported`) |
| PoolAllocator | `shoshnikov_pool_allocator/` | free list in the memory clients write to | `allocate`, `deallocate` | ShoPool |
| feasibility benchmark | `dbj_concept/is_it_feasible.h` | array of live objects | rounds of new and delete over one pool | PoolSession, MCDbjPool |
| static_mem_pool, static_mem_pool_set | `nvwa/static_mem_pool.{h,cpp}`, locks in `class_level_lock.h`, `fast_mutex.h` | per block size a singleton with free list and lock; a vector of all pools with a lock of its own | `instance`, `allocate`, `deallocate`, `recycle` | StaticMemPool |
| fixed_mem_pool | `nvwa/fixed_mem_pool.h` | free list in client memory, allocation count, lock | `initialize`, `deinitialize`, `allocate`, `deallocate`, `bad_alloc_handler` | FixedMemPool |
| kalloc | `kalloc/kalloc.c` | ring of free blocks over several cores, list of cores | `kmalloc`, `kcalloc`, `krealloc`, `kfree`, `km_init`, `km_destroy`, `km_stat` | Kalloc |
| its front | `kalloc/dbj_kalloc.h` | one static `kmem_t`, exit handlers | `DBJ_KALLOC`, `DBJ_KFREE`, process exit | not modelled |
| nedmalloc's thread cache | `nedmalloc/nedmalloc.c` | per thread, bins of freed blocks, their bytes, a count of frees | `nedpmalloc2`, `nedprealloc2`, `nedpfree2`, `nedtrimthreadcache` | ThreadCache |
| nedmalloc's pools | same | per pool a list of up to 16 mspaces and one of caches, a mutex, a thread-local number per thread; per process the mspaces' parameters and a list of pools | `InitPool`, `GetThreadCache`, `AllocCache`, `GetMSpace`, `FindMSpace`, `nedpmalloc2`, `nedpfree2`, `nedtrimthreadcache`, `neddisablethreadcache`, `nedpmallopt`, `nedpmallinfo` and the like; `nedcreatepool`, `neddestroypool`, `nedpoollist` | NedPool, NedPoolList |
| dlmalloc's mspaces | `nedmalloc/malloc.c.h` | memory as chunks with boundary tags, small bins, tree bins, dv and top chunk, segments, chunks mapped by themselves | `mspace_malloc2`, `mspace_calloc`, `mspace_realloc2`, `mspace_memalign`, `mspace_independent_calloc`/`_comalloc`, `mspace_free`, `mspace_trim`, `mspace_track_large_chunks`, `create_mspace`, `destroy_mspace`; the checkers `do_check_*` | MallocSizes, MallocTrees, TreeBins, Heap, Mspace |

How they interact. The benchmarks (`comparisons.h`, `is_it_feasible.h`) call
each allocator from one thread with objects of one size. `operator new/delete`
of class `Pooled` forwards to one static `dbj_pool_allocator`. The pool
allocators take blocks from the process heap, through the macros of
dbj--nanolib (an external submodule whose directory is empty here). nvwa's pools
share `mem_pool_base` for system memory and call each other: a pool that finds
no memory locks the set, which calls `recycle()` on every pool; a pool that is
created by a call takes its own lock and then, twice, the set's; its static initializer
creates it without its own lock. `kvec.h` grows its
vectors with `krealloc`. A call of nedmalloc finds its thread's cache through a
thread-local number; what the cache does not serve goes to the mspace the thread
used last, or to another when that is locked. A block is freed into the mspace
it came from, whatever thread frees it, under that mspace's lock.

What is hard. nvwa's pools are used by several threads, with two levels of locks
taken in both orders, a null lock for some pools, and a callback
(`bad_alloc_handler`) under a lock. nedmalloc's threads share pools whose lists
grow while others walk them without the mutex, test a field before they take the
lock that guards it, and hold one lock while they wait for another. Elsewhere
there are no threads, or one lock around all of a call: what is hard is long call sequences, address arithmetic, limits (255 blocks, an empty list,
lists of length zero and one, a full heap), heaps that refuse in the middle of a
call, and data that lives in memory the client may overwrite.

Not modelled: timing, collectors and wording of reports; `chunkey_munky.h` (one
calloc) and the planning documents, which nothing implements;
`cont_ptr_utils.h`, `c++_features.h` and `_nvwa.h`, which have no state;
exceptions (nvwa's `add()` is taken to succeed) and the destruction of static
objects at exit; kalloc's `km == NULL` mode, which forwards to malloc, and the
macros of `dbj_kalloc.h`. Of nedmalloc: logging, magic headers and Valgrind, the
replacement of the system allocator, blocks of other allocators and how they are
told apart (`nedblkmstate`), `nedpsetvalue`, and the teardown of a pool beyond
its entry in the list. Of malloc.c.h: the global malloc state (the build is
`ONLY_MSPACES`), `MORECORE` (mspaces do not extend contiguously), statistics
output, large pages, and clients that free what they do not hold.

## The models

**ChunkPool** is the abstract promise: `owned` blocks, `live` chunks. A chunk is
handed out only if no client has it, a block is taken only if every chunk is
with a client, and blocks go back only when the pool is destroyed. **DbjPool**
and **ShoPool** are shown to implement it.

**DbjPool** has the fields of the class (`next_free` is `next_free_chunk_`), the
process heap, and `held`, the chunks a client has and may free. A block is a
model value, its chunks are numbered in address order. There is one action per
operation and outcome: `Allocate` (list not empty), `AllocateNewBlock`
(`allocateBlock`, `append` and the pop in one call), `HeapRefuses` and
`RegistryFull` (the two assertions that stop a debug build), `Deallocate`,
`Destroy`. The build is the one with assertions. **ChunkLayout** holds the
arithmetic and **DbjPoolMemory** puts DbjPool's chunks at their addresses.
**FreeList** says what it is to be the list of a set of chunks; all three pools
with lists use it.

**ShoPool** has one word per chunk, the link or what the client wrote over it
(`ClientWrites`). It has neither flag nor registry, and every caller asks it for
one size.

**PoolSession** runs the benchmark's rounds over DbjPool's own actions.

**StaticMemPool** interleaves threads at single accesses to shared memory. `pc`
names the place in `instance`, `allocate`, `_S_alloc_sys`, `recycle` and
`deallocate`. `Locked` are the pools with `_Gid < 0`, `Users` says which threads'
code uses which pool, and `Reentrant` whether the set's mutex may be locked again
by its holder: true for the CRITICAL_SECTION variant of `fast_mutex.h`, false
for `std::mutex`, which the project's settings select. `pending` are the pools whose
static initializer (`_S_instance_p = _S_create_instance()`) has yet to run. One runs at
a time; a call of `instance()` may come before it, from another object's initializer or
from a thread that one has started, and the initializer creates the pool all the same.
`sys` are the blocks no pool has. The system may refuse any request, the repeated one
too, since blocks of another pool may be too small and the heap has other users; a
request it grants takes one of `sys`.

**FixedMemPool** interleaves allocating and deallocating threads the same way.
`initialize` and `deinitialize` are single steps taken while no call is under
way: "Only allocate and deallocate are protected by a lock" (line 77) makes that
the caller's duty. `Reclaims` stands for a `bad_alloc_handler` specialized to
give a block back, the use that lines 241-253 describe.

**Kalloc** counts memory in header units (16 bytes) and names a block by the
address of its header. `malloc` may place a core at any site that keeps the
distance malloc's own headers need. One record `km` holds headers, links,
`loop_head` and `core_head`, so that `kfree`, `morecore` and `carve` are
functions from record to record which the actions compose as the code does.

**ThreadCache** is the cache of one thread. `tc` holds `bins` (`head` and `tail`),
`frees`, `freeInCache` and the headers of the cached blocks; what is neither
cached nor held is the mspace's, which may hand out any block that is large
enough. As in Kalloc the functions of the code (`threadcache_free`,
`RemoveCacheEntries`, `ReleaseFreeInCache`) map record to record. A call is one
step: a cache belongs to its thread. A block that another thread frees is one
this cache never sees again, and one allocated elsewhere and freed here looks
like one from the mspace. Calls that the mspace refuses change nothing but
counters and are left out, as is logging.

**MallocSizes** has the arithmetic of malloc.c.h: padding of requests, small and
tree indexes, with the width of `size_t` as `SizeBits`. **MallocTrees** is the
tree bins as functions on one record (`node` with `child`, `parent`, `bk`, `fd`
and `index`; the roots; the map of bins): `insert_large_chunk`,
`unlink_large_chunk` and the best-fit searches of `tmalloc_large` and
`tmalloc_small`, and `CheckTrees`, which is `do_check_tree`. The loops of the code
are computed by `Loop`, pass by pass, `SizeBits` passes or one more: a pass after the
loop has ended changes nothing, and each pass goes one level down, of which there
are no more (proved, see below). **TreeBins** runs
them by themselves: chunks enter, leave and are taken in every order. Its
`TreesInit`, `TreesNext` and `TreesSpec` are named so because the module of proofs
extends ThreadCache too.

**Heap** is the abstract promise of an allocator of addresses: `held` maps what
a client has to its usable bytes; a block that is handed out overlaps none that
is held, and what one call does not name stays as it is.

**Mspace** is one mspace. The record `m` holds its memory: head words
(`[size, cinuse, pinuse]`) and footers by address, the small bins, `tree`, dv,
top, `seg` (the segments, each with the place of its record), the flags, the
footprint, and the pages mapped (`os`). Each C function is a function from that
record to the set of records it may leave, since the system may refuse or place a
mapping as it likes; an action is one call of the API. nedmalloc holds the mspace's
lock around it, except for `mspace_realloc2` (`nedprealloc2`, nedmalloc.c:2025), which
takes the lock for each of its parts; the model takes these together.
`world` says where the first segment lies and whether it may be extended, where
mappings may appear, and which requests clients make. The checks of footers and
heads that abort are in `aborted`; the checkers of the debug build are
definitions of their own names, and `check_malloc_state` is their conjunction.

**NedPool** interleaves the threads of one pool at single accesses to what they
share: `threads`, the list `m`, `caches`, the thread-local `mycache`, the
process-wide parameters `mparams`, and three kinds of recursive lock (the global
mutex, the pool's, one in each mspace). `pc` names the place in the code, `me`
the local variables. Blocks are counted by the mspace they lie in: Mspace
models what happens in one mspace, ThreadCache what happens in one cache.
**NedPoolList** is the list of pools with its lock; its guards are the discipline
under which the code is right, as its comment says. `Asserts` says whether assertions
are compiled in: `RemoveStops` is the one that can fail, after which nothing moves. The
two share no state, and MCNedPool checks them side by side.

## The runs

| Run | Question | Bounds |
|---|---|---|
| dbj_pool | free list exact, `deallocate`'s assertions true, nothing leaked, the limit reached only when clients hold everything, chunks apart, aligned and found again from their pointers, ChunkPool implemented; the benchmark's pool as small as possible | 4 addresses, 3 blocks in the registry, 2 chunks each; sizes 1 to 70; 4 rounds of 3 objects |
| sho_pool | free list exact although clients overwrite links, ChunkPool implemented | 2 blocks, 2 chunks |
| static_mem_pool | each block in one place, a recycling disturbed by nobody, half recycled, a pool in the set before it is used and added once by calls and once by its initializer | 2 threads, 2 pools, 3 blocks |
| static_mem_pool_returns | every call returns | the same with 2 blocks |
| static_mem_pool_relock | no thread locks the set's mutex twice: **violated** with `std::mutex` | 2 blocks |
| fixed_mem_pool | free list exact, count exact, no deinitialization under a client, every call returns | 3 threads, 1 to 3 blocks |
| kalloc | ring ordered and merged, cores tiled and accounted for, no panic reachable, requests fit | 2 cores at 3 sites, requests of 3 to 5 units |
| kalloc_realloc | `krealloc` keeps contents: **violated** | requests 20, 40, 80 |
| free_bins | a thread's cache: bins linked from both ends, byte count exact and below the limit, requests fit, the oldest leave first; the trees: they pass their own checks, searches find a best fit, the oldest of a size goes first | 4 blocks, 2 sizes of bin, 6 frees; 5 chunks of 6 sizes in 2 bins |
| mspace | the checkers hold after every call, every chunk has one owner, requests fit, nothing aborts, Heap implemented | 7 worlds; 1408 bytes, 2 blocks held, up to 3 segments |
| ned_pool | locks held by who is inside, mspaces listed once and without gaps, caches owned, blocks accounted for, settings kept, the list of pools exact, every call returns | 3 threads, 2 mspaces, 2 caches, up to 5 calls; 3 pools |
| ned_pool_list_clear | a list of pools from which the last one goes starts with a null: **violated** once it has grown | 1 thread, 2 pools, a list of 1 entry (the DEBUG build's) |

Why the bounds suffice. Two blocks of two chunks are the least with a list that
crosses blocks, a last chunk that is not the first, and a chunk of an old block
pushed before one of a new block; three slots make the registry empty, partly and
entirely full, and the fourth address lets the heap have memory when the registry
has no room. A round of three objects fills a block and half of the next, as 65535
objects leave the last block of 16384 one short of full, and a third block would
have its place. The benchmark and any client are two kinds of behaviour of that run
(`client` in MCDbjPool), for each of which all its properties are checked. Sizes 1 to 70 pass every remainder for words of 8 bytes and sizes
below, at and above the minimal chunk. Three blocks give `recycle` lists of length zero to three,
hence pairs with and without a remainder; the second pool has a user of its own
and one that competes with the first thread. Three threads let one wait, one
hold the lock and one free. Three sites put the second core below, above and, as
`Base` lies between them, across the ring's wrap; with a minimal core of four
units the requests fill a core exactly, split it, and need twice the minimum.
The thread cache takes up to 64 bytes and overflows at 160: the third large
block, or the fourth of a mix, starts the trimming, whose three ages (4, 2, 1)
then spare some blocks of one bin and not of another. Block sizes and requests lie
on, between and beyond the powers of two; a slack of 32 bytes, the debug
build's, lets `realloc` shrink a block as well as keep it.

Six sizes of tree chunk put four into one bin, which part at the first and at
later bits, and two into the last, which takes all larger sizes; with five chunks
a node has two subtrees, a leaf below one of them, and others of its own size.
The mspace's pages are 64 bytes, its unit of growth 256, a chunk for a mapping of
its own 128, so that all kinds of chunk fit into 1408 bytes. Each world makes one
thing happen that the others do not: a segment that may not be extended with two
that may, growth to one side and to the other, requests of several units,
remapped chunks, chunks that `memalign` moves far into their mapping; one product
of `calloc` overflows its 14 bits. Two held blocks beside the records of segments, the dv and binned chunks
already surround a free chunk with every kind of neighbour. Three threads let one
hold an mspace, one wait and one install; two places for mspaces and two caches
are both exhausted by three threads. Calls are bounded per thread (`Plans`):
three at once, or two threads with up to three calls each, one to allocate, one
to free and one to turn its cache off.

`MaxSize`, `MaxCores`, `MaxFrees`, `DataSize`, `Loops`, `MaxHeld`, `Limit`,
`Plans` and `ListPlans` are the bounds; `MaxBlocks`, `MaxThreads` and
`MaxCaches` are constants of the code. Deadlock is checked
where the system goes on for ever: fixed_mem_pool and free_bins. The other
models end, with a stopped program, a destroyed pool or the last round;
StaticMemPool can deadlock in one way, named below, and static_mem_pool_returns shows
that it does so in no other. Model values for blocks are interchangeable, and symmetry is
used, in dbj_pool, sho_pool, static_mem_pool and free_bins, whose properties are
invariants and step properties; the runs with liveness use none.

Fairness. `FairSpec` gives each thread weak fairness of `Work`, its steps inside
a call: a thread that can run is scheduled. It says nothing of which waiter gets
a mutex, and clients need not call. `CallsReturn` is stated for behaviours in
which clients stop calling (`<>[][no call]_vars`), because under an unfair mutex
endless calls of one thread may starve another; that of StaticMemPool leaves out
behaviours in which a pool's static initializer runs while another thread creates the
pool in `instance()` (`Overlapping`), the one deadlock. NedPool's threads make a bounded
number of calls, so `CallsReturn` is `[]<>` of all being outside, and weak
fairness of the threads' steps together is enough: each step uses up something of
a call, and what is checked is that they never all wait for each other.

## What is proved

**`Lemmas_proofs`** has what several components share. Lists: popping the head of a list of `F` leaves a list of the rest
and pushing a chunk that is not on it adds that chunk, at every length; an empty
list lists nothing; a list stays one when links outside it change; the first half
of a list that is cut after the chunk a walk has reached is a list, and so is what
is left. Sums: the folds of the library are a value `CHOOSE`n for a recursive
equation; that such a value is the number of elements of a set of units is shown by
an explicit solution and a least counterexample to any other. Numbers: a set of
naturals has a least element, what holds of 0 and climbs holds up to N (`Climb`), a
function that is computed step by step exists (`Computation`), and of the powers of
two that they grow and that every size lies between two of them (`TopBit`).

**`DbjPool_proofs`**, for every set of blocks, chunks per block and registry size:
`TypeOK`, `FreeListExact`, `DeallocateAsserts`, `NothingLeaked`,
`ReportedFreeIsFree` (of which no run is kept), `StopsOnlyWhenExhausted`, and that DbjPool implements
ChunkPool (`Refinement`). None is inductive alone. `Inv` adds `RegistryInv`: the
array is filled from slot 0 to `level_` without gap or repetition and names
exactly the blocks taken. Without it the destructor, which stops at the first
null, could not be seen to meet every block. `Inv` also adds that a client holds
only chunks of those blocks, that the list has the free chunks at whatever
length, and that a full registry found every chunk held. There is one lemma per
action under `StepInv`; the refinement uses `Inv` to see that an empty list means
that no chunk is free.

Also there: `LayoutSound`, for every object size, both word sizes
and any block length: objects overlap no other chunk's header or object, pointers
are aligned, and `deallocate` gets back from each to its chunk. It rests on
`AlignUp` and on the chunk stride being a multiple of the word, at least header
plus object. And `FewestBlocksTaken`, for any number of objects, chunks per block
and rounds of the benchmark: a block is taken when clients hold every chunk, which
are then fewer than `DataSize` (`SessionInv` says what they hold), so `level_`
never exceeds what one round needs.

**`ShoPool_proofs`**, for every configuration: `FreeListCorrect` and `Refinement`. The
list lives in the words clients write to: the invariant has the list and that
clients hold chunks of blocks the pool took, and nothing about the other words.

**`FixedMemPool_proofs`**, for any number of threads and blocks: `FreeListCorrect`,
`CountCorrect`, `LockExcludes`. The invariant puts every block in one place (list,
client, a thread between taking it and returning it), says which thread has the
lock, and that whoever is between its reads and its writes still knows the head
of the list. `LockExcludes` is needed for all of it.

**`StaticMemPool_proofs`**, for any number of threads, pools and blocks:
`OneRecycler`, at most one thread is between `sys_lock` and the end of the
retry; from it `RecyclingIsUndisturbed`, which adds what every other step can do to
the set and to the system's memory (`SystemEffect`): what a recycling released is
there for the second request, though the system may refuse that all the same.
`EveryPoolRegistered` assumes `OneUser`: a pool with a null lock has one user. Its
invariant, `SetInv`, counts a pool's entries by those who can have made them: the
static initializer, once it is through with `add()` (`StaticDone`), and the calls of
`instance()`, once no thread is about to add the pool and one has (`InstDone`); each
accounts for one entry at most (`Bounded`).
`BlocksHaveOnePlace` and `RecycleHalves` (`MemInv`: one list per pool, one place per
block, what a thread in the middle of a call remembers is still so) assume
`Protected`, that every pool has a real lock or there is one thread, and that
there are finitely many blocks. The code asks for as much: "If it is non-negative
(default), no protection is given" (static_mem_pool.h), and a pool with a
null lock that is recycled by another thread while its own thread is in it does
lose its list, as noted below. Both hypotheses are satisfied by configurations the code
is made for: all `_Gid` negative, or a program of one thread.

**`NedPool_proofs`**, for any number of threads, mspaces and caches: `LocksAreHeld`,
the recursive locks exclude and each is released as often as it is taken. `Inv`
says of each lock that it is open, or its owner is at a place where it holds it,
and that whoever is at such a place owns it; beside it, that nobody is past
`InitPool` before it is through, and that from then on there is a first mspace. All
actions but `InitPool` and its abort are `Regular`: one thread moves, and each lock
it does not leave alone it takes on entering a place or gives up on leaving it.
`RegularInv` is the one lemma about the invariant; the others show each action to
be regular. What is in the caches and in the list of mspaces plays no part.

Also there: `MspacesAreListed`, `CachesAreOwned`, `SettingsLast`. On top of `Inv`, `Inv2` says
that the list of mspaces is filled from 0 without gap or repetition and an mspace
not yet in it is with its maker alone; that a cache in the pool's list is the
cache of one thread, which its number names, or of nobody but the thread that is
freeing it; and what each thread remembers between two accesses of a field
another may change. The last is where an unlocked test and the locked access
after it might disagree.

`PoolsAreListed`, for any number of threads and pools, is `ListExact` under
NedPoolList's guards. Whoever is in a call while there is no pool is the only one
(`AtMostOne`); hence the tests made without the lock are right, and the thread
that initialises the lock takes it from nobody. The entries of an address are
counted (`Tally`): `RemovedIs` matches those left after a removal with those
before it. It holds with assertions and without; where one stops the program
(`RemoveStops`) the list is empty and its lock taken. The one hypothesis, `NullIsNoList`, is about the model's
representation: the value for "no list" is not itself a record with a list's fields.

`BlocksAreAccounted`, for finitely many threads and mspaces and any number of
caches. The property adds up folds, over clients, caches and
threads, which the sums of Lemmas_proofs turn into numbers of elements. `Books` is
then the property for one mspace; most steps count nothing (`Uncounted`), the others
move a block between a cache and another place (`CacheStepInv3`) or change an
mspace's count (`UsedStepInv3`). A process has finitely many threads and mspaces; a
sum over infinitely many says nothing.

**`Kalloc_proofs`**, for every base, every place malloc may choose for each of any
number of cores, every core size and every request: `RingStaysInOrder`,
`UnitsAccounted`, `PanicsNever`, `BytesFit`. No hypothesis but that of the constants
is needed: that malloc leaves a unit between two cores is what `Sites` says. `Sound`
is the invariant. It says of the links that each leads to the next larger address of
the ring and the largest to the smallest (`IsRing`), and of the sizes, without the
links, that the blocks tile the cores (`Tiles`). The walk around the ring is a
recursive function; that it visits every block once and comes back after as many
steps as there are blocks is shown through the rank of an address, the number of
smaller ones (`WalkIs`). So the search of `kfree` ends, and ends between the
neighbours (`SearchEnds`, `NextToIs`); that the neighbours cannot be overlapped
follows from `Tiles`. One lemma per helper shows that it keeps both (`KfreeIs`,
`MorecoreIs`, `CarveIs`, `OpenedIs`), and the actions compose them as the code does:
`krealloc` frees the old block in the state that its `kmalloc` left. What
`km_stat` reports is then counted: the units the blocks cover and one header per core
are the units of the cores (`StatIs`).

**`FreeBins_proofs`** has the two places where nedmalloc keeps free memory by size.

Of ThreadCache, for every set of blocks, block sizes, requests and limits:
`TypeOK`, `BinsLinked`, `RequestFits`, `CacheBounded`, `OldestLeaveFirst`. The code
reads links only; what they lead to is the invariant `Good`: every link is the next
older or younger cached block of the size, the ends of a bin are its youngest and its
oldest (`CacheLinked`), no two blocks have one time (`Stamped`), and the bytes counted are
those of the cached blocks (`Counted`). Links are then a function of which blocks
are cached since when, and each operation is shown to keep them so: `PopYoungestIs`,
`PopOldestIs`, `PushedIs`. A trim is a computation of such steps, `Left(c, d, K)`
saying that of c only K is left in d: one bin (`TrimmedIs`), all bins
(`RemoveCacheEntriesIs`), then passes of ever smaller age until the limit is kept
(`ReleaseFreeInCacheIs`). That they end below the limit needs the last pass: with age
1 at most the block freed last stays, and one block is below the limit because
`threadcache_max` is. The walks of `BinsLinked` meet each block of a bin once
(`WalkMeets`). `RequestFits` rests on the bin a size belongs to (`size2binidx`) being
the one whose blocks hold it.

Of TreeBins, for every set of chunks, every set of large sizes, all requests and any
even number of bins: `TreesAlwaysChecked`, `RequestsBestFit`, `RingsOldestFirst`.
`TreesInv` has two parts. `Trees`: there is a depth for each node such that a child is
one deeper than its parent and agrees with it in the bits above that depth, the bit
there naming the side it is on (`IsTrie`). `Rings`: the chunks of one size, in the
order in which they came, are a ring of which the first only has a parent. That the
depth decides what a subtree holds, all nodes of the bin that agree with its root so
far (`Sub`, `SubBelow`), makes the order of operations immaterial. The properties
need it: an insertion that walks by bits finds the node of its size if there is one
(`PlaceIs`); the rightmost leaf may take the place of any node above it, since it
agrees with whatever that node agrees with (`NodeReplaced`), which is the comment "to
make sure that lefts and rights of descendents correspond properly to bit masks";
and a search may pass by all but one subtree of a bin, since the left subtree of a
node has smaller sizes than the right (`SubOrder`), and by the bins after the next
one, since bins are ranges of sizes (`IndexIs`, `BinOrder`). The remainders that
`tmalloc_large` compares wrap around below 0; a node too small for the request then
never wins (`BetterIs`). The depth is bounded by the bits a bin leaves open
(`AllBits`), so the loops end within `SizeBits` passes.

The assumptions are those of the constants, each named in its module: a block has at
least one chunk, the registry at least one slot, null is no address, no mspace, no
thread and no cache, threads are numbered from 1, a word has 4 or 8 bytes, a round has
at least one object, kalloc's sizes are positive. Of a thread's cache:
`THREADCACHEMAX` is a power of two that has a bin (the code's bins are
`topbitpos(THREADCACHEMAX)-4` and one), it is below `THREADCACHEMAXFREESPACE`, trimming
starts at an age of at least 1, and blocks are finitely many. Of the trees: chunks
have addresses, which are neither null nor a bin's own, bins come in pairs, and large
sizes are words of at least `MIN_LARGE_SIZE`. Theorems of
StaticMemPool and NedPool have the further hypotheses named above.

Only model-checked: liveness (`CallsReturn`), and what is `ENABLED`, which the provers
do not reach, and Mspace. Of its operators the trees are proved about; that the walk
over all chunks of a segment (`do_check_malloc_state`) agrees with the bins after
every call, the refinement of Heap and what follows from them is not written.

## Where the code and its text disagree

With a run:

* A pool that runs out of system memory locks `static_mem_pool_set`'s mutex
  twice (run static_mem_pool_relock): with `std::mutex` the recycling that
  `static_mem_pool.h` describes is never reached.
* When the list of nedmalloc's pools grows, the entry that is cleared is the new last
  one and not the one that ends the list (nedmalloc.c:1701). The entry moves down as
  pools are destroyed, and `assert(!poollist->list[0])` (nedmalloc.c:1753) can fail for
  the last one (run ned_pool_list_clear); and `nedpoollist`, "zero terminated"
  (nedmalloc.h:548), may return a list without an end: `ListExact` asks for the end
  only of a list that has not grown.
* `krealloc` can lose the last eight bytes of a block that had grown in place
  (run kalloc_realloc).

Found while modelling; a property of a passing run says what holds instead:

* The static initializer of `static_mem_pool` (static_mem_pool.h:216) creates the pool
  whether there is one or not. Where `instance()` came first, the "singleton"
  (static_mem_pool.h:82) is in the set twice; a recycling gives back half of its blocks
  and then half of the rest. `PoolsRegistered` allows the two entries, and no more.
* "Only here the global lock ... is obtained before the pool-specific lock. However,
  no race conditions are found so far" (static_mem_pool.h:225-227): the same
  initializer puts a pool in the set without the pool's lock. When another thread is
  creating the pool in `instance()` meanwhile, it waits for the set's lock with the
  pool's taken, and a thread that recycles for the pool's with the set's taken.
  `CallsReturn` of StaticMemPool holds where that does not happen (`Overlapping`). With
  `std::mutex` the second lock of the set's mutex comes before it.
* `mmap_resize` (malloc.c.h:4148) sizes the new region as if the chunk began at
  its front. Where `memalign` had moved it, the block is short by that much after
  the call: `RequestFits` of Mspace allows for `Missing`.
* `M2_ALWAYS_MMAP` passes the request on unpadded (malloc.c.h:5497); the mapping's
  rounding makes up for it.
* `neddisablethreadcache` stores `-mymspace` (nedmalloc.c:1846), `GetThreadCache`
  reads `-mycache-1` (nedmalloc.c:1912). A thread that turns its cache off while
  it works in the first mspace has one again at its next call; `SettingsStay`
  leaves that thread out.
* `nedcreatepool`, `neddestroypool` and `nedpoollist` test for a list without its
  lock, and the last destruction frees the lock with it: NedPoolList's guards let
  the first pool be created and the last destroyed only while no other call runs.

Noted without a run:

* `report()` lists the last chunk of a free list as in use
  (`pool_allocator_instrumentation.h:49`): its `next` is null like that of a chunk
  in use.
* `recycle()`, whose comment finds no race (static_mem_pool.h:226), races with the
  only user of a pool whose lock is a null lock.
* `k_memory_()` registers its exit handler at every call (dbj_kalloc.h:18).
* `leastusedaddress` and `largestusedblock` (nedmalloc.c:364) are updated under no
  common lock, and `CallIndependentCalloc` never raises the second: a block of
  the program's own may be taken for foreign.
* `do_check_mmapped_chunk` asserts `use_mmap`, which `mspace_track_large_chunks`
  may have cleared; `ialloc` toggles it and does not check its product.
* `is_it_feasible.h:26-27` expects two blocks, while 65535 objects in blocks of
  16384 chunks take four, as `FewestBlocks` has it.
  `pool_allocator_sampling.h:163-166` expects a free chunk of a pool that has no
  block yet. A specialized `bad_alloc_handler` that frees through `deallocate`
  needs a reentrant mutex. `kcalloc` does not check its product.

## Plan

1. Done: the pools of the repository and of nvwa, kalloc, nedmalloc's caches,
   pools, trees and mspaces; the proofs named above.
2. Proofs: of Mspace, from those of its trees; for MallocSizes the lemmas on padding.
3. Models: the teardown of a nedmalloc pool with its caches, and nedblkmstate with
   the two variables it reads.
