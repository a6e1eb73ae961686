# A formal model of ASAGI

ASAGI gives the threads of an MPI program read access to gridded data in a
NetCDF file: a grid is cut into blocks, and blocks are stored, cached and moved
between the NUMA domains of a process and between processes. The library's hard
part is that movement. Every application thread may call `getAt` at any time;
there is no coordinator; what is where is known from directories that may be out
of date. This directory holds TLA+ models of that part, TLC configurations that
check them on small instances, and TLAPS proofs about them for every size.

Paths below are relative to the repository; "thread" is an application thread,
"domain" a NUMA domain, "rank" an MPI process.

## 1. Inventory

| Component | State | Operations | Interacts with |
|---|---|---|---|
| `cache/lru.h` LRU clock | `m_nextPage`, `m_nextClear`, `m_referenced` | `init`, `access`, `getFree` | owned by a `CacheList` |
| `cache/cachelist.h` directory | `m_indexToBlock`, `m_blockToIndex` | `init`, `getIndex`, `getFreeIndex` | owned by a `CacheManager` |
| `cache/cachemanager.h` | a directory, `m_cacheMutex`, `m_blockMutexes`, the slots | `get`, `tryGet`, `unlock` | called by the threads of its domain; `tryGet` by other domains and by the communication thread |
| `transfer/numacache.h` | the managers of all domains | `transfer` | shared memory |
| `mpi/mutex.h` | one word per lock in an MPI window | `initMutexMem`, `acquire`, `wait`, `release` | atomic swaps on windows, synchronous sends between threads |
| `transfer/mpicache.h` | dictionary: per block up to n places | fetch, update, delete | owned by the two caches below |
| `transfer/mpiwincache.h` | dictionary and slots in windows, `mpiLock` | `startTransfer`, `transfer`, `endTransfer`, `addBlock`, `deleteBlock` | `Mutex`, one-sided MPI |
| `transfer/mpithreadcache.h` | dictionary, `m_infoMutex`, `m_blockMutex`, four receivers | the same calls | messages to and from communication threads |
| `mpi/commthread.h` | map of receivers, next tag | `init`, `finialize`, `registerReceiver`, `unregisterReceiver`, `send`, the message loop | one thread per rank, calls back the receivers |
| `grid/level/cache.h`, `cachedist.h` | a level: manager and transfer objects | `open`, `getAt` | everything above |
| `grid/level/full.h`, `fulldist.h`, `transfer/*full.h` | read-only blocks | `open`, `getAt` | windows or communication threads |
| `grid/level/level.h`, `blocked.h` | sizes, offsets | position to index to block, rank, domain, offset | pure |
| `threads/sync.h`, `once.h` | counters, two-phase barrier | `startBarrier`, `waitBarrier`, `endBarrier`, `broadcast`, `saveExec` | every `open()` |
| `numa/*` | thread ids, domains | `registerThread`, `createComm`, `broadcast`, `allocate` | `Sync` |
| `grid/grid.cpp`, containers | parameters, one container per domain | `setParam`, `open`, `close`, `getCounter` | all threads, collectively |
| `mpi/mpicomm.h` | a communicator, the next free tag | `init`, `freeComm`, `reserveTags` | grids and levels |
| `perf/counter.*` | four counters per level and domain | `inc`, `get` | every `getAt`, `getCounter` |
| `types/*` | size and MPI type of a value | `check` | `open()` of all domains |
| `asagi.cpp`, `asagi_f90.cpp`, `fortran/pointerarray.h` | the table of handles | `add`, `get`, `remove` | constructor, destructor, every Fortran call |
| `io`, `allocator` | | | files, memory |

What makes the behaviour hard, and what correctness means:

* **Caches.** A block is entered in the directory *before* its slot is locked
  and filled, so the directory runs ahead of the contents. Correct: a caller
  never sees values of another block or half of a block; the maps agree; nothing
  is evicted before the cache is full; the unbounded loop of the clock ends
  although its bits start uninitialised; nobody blocks everybody.
* **The distributed mutex.** Its queue exists only as a chain of ids, each known
  to one thread, and hand-over messages say neither who sends them nor for which
  lock. Correct: exclusion, the order of the swaps, no lost waiter.
* **Caches with windows.** Five kinds of locks (manager, slot, library, window,
  dictionary entry) are nested; between reading a place and copying from it
  the place's owner may evict. Correct: the source of a copy contains the
  block for as long as it is copied; no place is listed twice or falsely.
* **Caches with communication threads.** Questions and answers are separate
  messages without identification, announcements are not answered, a failed
  transfer is retried. Correct: an answer reaches the thread that asked; stale
  entries are only those whose deletion is on its way; retries end.
* **Fully stored levels.** A value takes a long way, from the file through a
  block cut out at the end of the grid, spread in place, stored at a rank, a
  domain and an offset, to a caller who computes all these numbers again, by
  other functions. Correct: the value is the one asked for; a block received
  without any identification reaches the thread that asked; no message finds
  its receiver gone or not there yet; closing ends.
* **Opening a grid.** A collective operation of all threads of all ranks built
  on a hand-made barrier; an error on one side must not leave the others
  waiting. Correct: every thread returns, and returns what files and types call
  for; nothing is used before another thread has made it.
* **Choosing and counting.** Four parameters, the communicator and the machine
  choose one of fifteen compositions of classes. Correct: a class is only asked
  for what it can fetch, values travel only where the parameters allow, the
  counters say where they came from. Handles and communicators of grids that
  come and go are neither confused nor lost.

`PROJECT.json` lists the hazards line by line with the properties that cover
them.

## 2. Plan

In the order of importance. The first ten steps are done, the eighth for one
level.

1. `LRU`, `CacheList`, `CacheListSpec`, abstract `BoundedCache`; the refinement.
2. `CacheLevel`: all threads and domains of one process over (1).
3. `MPIMutex`, and `MPIMutexOrder` with history variables for its queue.
4. `CacheDistWin`: (2)'s manager, `MPICacheDict` and the lock of (3).
5. `CacheDistThread`: manager, dictionary and messages.
6. `Sync`: barrier and broadcast over mutex and condition variables; then
   `GridOpen`: `open()` of a grid over it, with the errors of the files.
7. `BlockPlaces` and `Layout`: index mapping of `Level` and `Blocked` and the
   reading of a block as functions: every index has one block, rank, domain and
   offset, and no two share a place.
8. `FullDist`: full levels over (7), with `NumaFull`, `MPIWinFull` and
   `MPIThreadFull`.
9. In the same module the lifecycle of `CommThread`'s receivers: registering on
   all ranks, unregistering, exit.
10. `Grids`: the life of the grids of a process from `create` to `close`, the
   choice of the container and the counters; types and their checks in
   `GridOpen`; the coordinates of the file in `Layout` and `FullDist`.
11. Extensions: `FullDist` with two levels of a grid, whose answers share tag 0;
    several domains per rank in (4) and (5), `addBlock`; spurious wake-ups and
    errors of the first domain alone in (6).

Theorems, in the same order: those of (1) to (10) are proved, all safety
properties of the passing runs among them, and with (7) that `Layout` cuts and
spreads the blocks of every file rightly. Next: that `CacheDistWin`'s entry mutex is what
`MPIMutex` provides.

## 3. Modules and code

| Module | Models | How |
|---|---|---|
| `LRU` | `cache/lru.h` | A clock is a record. The loop of `getFree` is its number of passes: the first after which the page hand meets a cleared bit. The bits above the clear hand's start are uninitialised in the code, and any set here. |
| `CacheList` | `cache/cachelist.h` | A directory is a record of a clock and two functions; `Absent` is -1, as in the code. |
| `CacheListSpec` | callers of one directory | One request per step, as under `m_cacheMutex`. |
| `BoundedCache` | nothing in the code | What a cache promises under any policy. |
| `CacheLevel` | `cachemanager.h`, `numacache.h`, `level/cache.h`, `cachedist.h` with `MPINo` | A step lies between two points another thread can tell apart: taking a mutex (`GetHit`, `GetMiss`, `LockSlot`, `PeekLock`), failing to (`PeekBusy`, `PeekFail`), and the start and end of a write to a slot, during which its content is `Torn`. `NumaTransfer` selects between `CacheDist` and `Cache`. |
| `MPIMutex` | `mpi/mutex.h` | `acquire` and the compare-and-swap are one step each, because the caller has locked the window; the synchronous send has two steps, so that sender and receiver are both waiting in between. |
| `MPIMutexOrder` | the same | Adds the place in the queue and its length as history variables; they restrict nothing. |
| `MPICacheDict` | `transfer/mpicache.h` | The operations on one dictionary entry, as functions on arrays. |
| `CacheDistWin` | `cachedist.h`, `mpiwincache.h`, `cachemanager.h` | The entry lock is taken in one step, which is what `MPIMutex` shows of it. Any victim is allowed when the cache is full, an unused slot otherwise: that is `BoundedCache`, which (1) refines. |
| `CacheDistThread` | `cachedist.h`, `mpithreadcache.h`, `commthread.h` | Messages from one rank to another arrive in order, as MPI says for one communicator and pair; answers are a set, because no two answers for one rank and source of the same tag are ever under way. `TagOffset` is the level's offset. |
| `Sync` | `threads/sync.h` | A thread's position in the barrier says whether it waits for the mutex, sleeps at one of the conditions, was woken, or has the mutex. A broadcast moves the sleepers to "woken", from where each still has to get the mutex. Only a broadcast wakes a thread: spurious wake-ups, which the code does not handle, are assumed away. |
| `GridOpen` | `grid/grid.cpp`, `numa/*`, `threads/once.h`, `simplecontainer.h`, `types/*` (`check`), `netcdfreader.cpp` (`open`), the start of every level's `open` | Extends `Sync`: the barrier of `registerThread` and the broadcast of the error are steps of `Sync`. The masters' own broadcasts are an object of the same class for the domains; they are the counter `joined`, with `Met` for what a barrier shows: nobody leaves before all have arrived. The successive broadcasts of one `open` are merged to the first (the communicator) and the allocation, the last the data type depends on. The masters meet for the communicator only when the vector of levels grows; growing it moves the elements or not, as the library likes. A setup is the kind of the type with its members, the variable of each level's file, the order in which the levels are opened, whether the grid is pass-through (it has no memory, hence no allocation), and the domains that fail to open a level's file on their own; the errors follow from them. `Return` is the broadcast by reference: whatever the thread's own result was, it is overwritten by the root's. |
| `BlockPlaces` | `level/blocked.h`, lines 124 to 224 | Functions of a number of blocks. The code chooses between two distributions when it is compiled; here the distribution is a parameter. |
| `Layout` | the rest of `blocked.h`, `level.h` (`open`, `min`, `max`, `delta`, `pos2index`), `netcdfreader.h` (`getOffset`, `getScaling`, `getBlock`, `getVar`) | Pure operators on a record of what `open` computes. A value of the file is named by its index, so that a value at a wrong place shows. `Loaded` is the in-place spreading of `getVar` for user-defined types, pass by pass; for the built-in types NetCDF itself does what `imap` says. Coordinates are integers, of which the precision of half a cell is the smallest unit; there are no rounding errors. |
| `FullDist` | `full.h`, `fulldist.h`, `numafull.h`, `mpiwinfull.h`, `mpithreadfull.h`, `commthread.h` | From the loading of the blocks to the end of the communication thread. Each domain loads its own memory (`LoadBlocks`; blocks not loaded yet are `Unset`), the first one then registers the receiver or creates the window, and the broadcast of the tag or window, which all domains of the rank join after loading, ends `open` (`EndOpen`). On a rank without a communication thread `registerReceiver` fails before the reduction: the other domains are left in that broadcast, the other ranks in the reduction (`NotInitialized`). A window access is one step, because blocks never change. The cache manager is as in the modules above. `MPI_Allreduce` is two steps, joining and returning. |
| `Grids` | `grid/grid.*`, `asagi.cpp`, `asagi_f90.cpp`, `fortran/pointerarray.h`, `mpi/mpicomm.h`, `commthread.h` (`init`, `finialize`), `perf/counter.*`, which classes the levels ask | The calls of an application are given by its setup and made by any thread. `add` has two steps, so has the increment of a counter. `open` is one step, being `GridOpen`'s subject; an access chooses among the places its container's classes may find the value at, and then counts. A duplicated communicator is counted, not named. |
| `*Proofs` | | Theorems, section 6. |
| `MC*` | | The instances TLC checks. |

Abstractions that all of them share: a block's values are the name of the
block, and the position-to-block mapping is a parameter, except in `FullDist`,
where both are computed; counters are in `Grids` only, logging is left out; a file read
always succeeds (the code asserts it), opening a file may fail, for all domains
or for one alone other than the first (`GridOpen`). `CacheDistWin` and
`CacheDistThread` have one cache per rank, i.e. one domain.

Operators with the comment "Faulty variant" are not used by any specification.
Each is a plausible mistake in the operator below it; with it in the
operator's place the property named in `PROJECT.json` fails, which shows that
the property depends on that line of the code.

## 4. Runs

| Run | Instance | Shows |
|---|---|---|
| `cache_list` | 4 slots, 5 blocks, default spread, every content of the bits | directory and clock, refinement of `BoundedCache` |
| `cache_level` | 2 domains of 2 threads, 1 slot each, 2 blocks | right values, the inductive invariant with its truthful directories, progress |
| `mpi_mutex` | 2 ranks of 2 threads, one lock on each, barrier after open | exclusion, order, hand-over, nobody forgotten |
| `mpi_mutex_no_barrier` | 2 ranks of 1 thread, one lock, no barrier | **violated**: finding A |
| `cache_dist_win` | 2 ranks of 2 threads, 1 slot, 2 blocks, 1 place per entry, library lock | sources kept, truthful dictionary, the inductive invariant, progress |
| `cache_dist_thread` | 2 ranks of 2 and 1 threads, 2 blocks, 2 places; 1 slot and any requests, or 2 slots and a fixed program | right values, stale places leave, the inductive invariant, answers matched although two threads of a rank ask one rank at once, progress |
| `cache_dist_thread_livelock` | 2 ranks of 2 threads, 2 slots, a fixed program | **violated**: finding C |
| `cache_dist_thread_second_level` | 2 ranks of 1 thread, second level | **violated**: finding D |
| `full_levels` | 2 ranks of 2 domains, 3 threads, 1 slot per domain; grids of 2 x 5 values in blocks of 2 x 3 and of 5 blocks; a grid of 5 x 1; coordinates that rise, fall, are constant or missing; cell- and vertex-centered; windows and messages; both distributions; equal and different first tags; a rank without communication thread | right values, the promised range can be read, answers matched, no message dropped, the inductive invariant with what `Layout` makes of these files, every question answered, closing ends |
| `grid_open` | 3 threads, 2 NUMA nodes, 2 levels in either order; basic, array and struct types; files that are missing, lack the variable, have too many dimensions or a size that does not fit; files that one domain alone cannot open, with and without memory | no lost wake-up, ids and masters, nothing used before it is there, the error the files call for on every thread, the inductive invariant, every call returns |
| `grids` | 2 threads on 2 NUMA nodes, 2 grids of which 2 and 1 values are read, 12 applications (C and Fortran, 1 and 2 ranks, parameters of every spelling), counters with mutexes | handles and communicators accounted for, values only from where the parameters allow, counters add up |
| `grid_open_levels` | 2 threads, 2 levels | **violated**: finding E |

Why the bounds suffice to be interesting: one slot and two blocks make every
miss an eviction, so that each thread finds its slot locked, remapped while it
waits, or asked for by another domain or rank; two threads per cache are needed
for a waiter that holds the manager; two caches for a cycle. Five blocks in four
slots let both hands of the clock pass the end of the array while bits between
them are set. One place per dictionary entry on two ranks makes a full entry drop
its oldest place, whose holder later deletes what is not listed any more.
`MaxQueue` is the number of messages MPI buffers per pair before `MPI_Send`
waits. Section 6 lifts the bounds of all safety properties.

Three threads are the fewest with which a domain has a thread besides its master
and a second domain exists; the second level makes a fast thread enter the next
barrier while others leave the last one, and begin a call whose variable the
others still copy.

In `full_levels` the last block of the plane is cut off, so that its values are
spread with a borrow; two blocks on four domains and five blocks on four domains
leave places empty in both distributions; the positions read include some on
either side of the grid. The run assumes a barrier after `open`: without it
(`OpenBarrier = FALSE`) a question can reach a communication thread before the
receiver is registered there, is dropped with a warning, and never answered; and
a rank whose first domain has created the window, or registered, is read from
while another of its domains is still loading, so that `getAt` returns a value
that was never loaded (`grid/level/full.h:65`; TLC finds it in 13 steps). The
code has no such barrier; an application that wants to be safe adds one.

In `grid_open` a domain may fail to open a file on its own. Two properties have
an exception for that, because the code gives up what they promise. In a
pass-through grid, which allocates nothing, all threads get the first domain's
`SUCCESS`, although the failed domain's level is not ready: `OpenedEverywhere`
excepts this domain. In every other grid the failed domain skips the broadcast
of the memory, in which the others then wait for ever, so that no `open` returns
at all: `EveryOpenReturns` leaves these setups out. The first domain does not
fail alone in any setup.

In `grids` two accesses of one grid are the fewest that can lose an increment,
two grids the fewest that can exchange handles; the applications reach ten of
the fifteen containers, among them those of every level class, of both
transfers between ranks, and with and without those between domains. A counter
without its mutex (`ThreadsafeCounter = FALSE`) may lose increments, as the code
says of itself.

Deadlock is checked in every run but seven: the programs of `cache_dist_thread`
and of the livelock run end, so does an application that has opened all its
levels (both `grid_open` runs), has stopped its communication threads
(`full_levels`) or closed its grids (`grids`), and the system of
`cache_dist_thread_second_level` really stops, which is the finding.

### Findings

* **A.** `MPIWinCache::init` ends with plain stores to the mutex words and no
  barrier. A rank that returns from `open()` early can acquire an entry on a
  rank that then overwrites it (`transfer/mpiwincache.h:176`). With a barrier
  after `open()` all properties hold, and are proved.
* **B** (read, no run). `deleteBlockInfo` erases the last place when the one to delete is not
  listed any more (`transfer/mpicache.h:151`), as `Deleted` does in `MPICacheDict`. The consequence is an
  additional file access, never a wrong value.
* **C.** Retry against `tryGet`: a thread in the retry loop holds its slot, a
  second one waits for that slot with the manager locked, so its rank answers
  only with failures. Two such ranks fail each other for ever
  (`grid/level/cachedist.h:149`).
* **D.** On every level but the first the answer to a dictionary question is
  sent with a tag nobody receives (`transfer/mpithreadcache.h:410`).
* **E.** Opening a level with a higher id lets the vector of levels grow; `Level`
  has a copy constructor that leaves out the dimensions, and a destructor that
  gives away what the copy still points to (`grid/simplecontainer.h:47`). The
  levels that were open are lost; levels opened from the highest id downwards
  are not.
* **F** (read, no run). All levels of a grid answer questions for blocks with
  tag 0, but every level has a mutex of its own to pair them
  (`transfer/mpithreadfull.h:135`, `:148`): two threads that read two levels
  from one rank may receive each other's block. `FullDist` has one level.

Where code and documentation differ in ways that need no model to see:

* A `CACHE` grid without MPI gets the container with transfers between domains
  exactly if there is one domain (`grid/grid.cpp:301-305`), against
  `documentation/user/02_usage.h:38-41`. `Grids` has the selection as it is; its
  property asks that transfers are allowed, not that they happen.
* `getCounter` ignores its level (`grid/grid.cpp:217`), against
  `include/asagi.h:259`.
* With `THREADSAFE_COUNTER` every counter is exact, but those computed from several
  can be off, or wrap below zero, while another thread is between two
  increments (`perf/counter.cpp:27`), against `02_usage.h:287`. Hence
  `CountersAddUp` is about moments at which nobody reads from the grid. The
  manual's name of the counter `file_loads` is `file_load`.
* `PointerArray::get` and `remove` take no lock, although an `add` at the same
  time may move the vector (`fortran/pointerarray.h:54`, `:63`), against
  `02_usage.h:121`. `Grids` takes `push_back` as one step.
* Negative ids of CPUs, for the last CPUs, are subtracted and not added
  (`mpi/commthread.h:129`), against `include/asagi.h:333`.
* `Grid::open` broadcasts the first domain's error and then asks whether it or
  the thread's own is to be returned (`grid/grid.cpp:202-206`). The broadcast
  takes the thread's own variable by reference and has overwritten it by then
  (`numa/numa.h:124-129`, `threads/sync.h:181`), so the check decides nothing and
  an error of another domain alone is lost.
* The error codes of C have a name that those of C++ lack
  (`include/asagi.h:411`), so that `INVALID_VAR_SIZE` is 12 in one and 13 in the
  other.

## 5. Fairness

Liveness is checked under weak fairness of "a thread inside `getAt` (or inside
the mutex) takes its next step", which only says that threads are scheduled,
and of each communication thread towards each source: MPI does not let a posted
receive from any source overlook a message for ever. Nothing is assumed about
who gets a contended mutex, hence no strong fairness, and nothing about whether
an application calls `getAt` again. Under these assumptions no thread is
guaranteed to be served individually, and the code does not promise that;
`SomeCallCompletes` says that the level as a whole never stops. The mutex of
`mpi/mutex.h`, being a queue, serves everyone (`EveryWaiterServed`). In `GridOpen` every thread
is scheduled and calls `open` for every level, since it is collective;
`EveryOpenReturns` needs no fairness of the mutex because nobody can take it twice
in one barrier.

`Grids` has safety properties only and assumes no fairness. In `FullDist` no rank is bound to open or to close the grid, but one that has
begun to close it goes on.

## 6. Proofs

For every value of the constants that satisfies the named assumptions:

* `CacheListProofs`: types, `MapsAgree`, `LoopBound`, `ColdFill`,
  `SecondChance`, and that directory and clock implement `BoundedCache`. The
  invariant `Inv` adds what is not visible in the properties: the hands keep
  their distance, and the slots are first filled in ascending order with the
  page hand before the first unused one and cleared bits between the hands.
  That is why uninitialised bits are never read. The lemmas on the
  clock and on `Insert` come first; `CacheLevelProofs` takes them over with
  `INSTANCE`, since they speak of their arguments only.
* `CacheLevelProofs`: `ReadsRequestedBlock`, `SingleFill`, `DirectoryTruthful`
  for any number of domains, threads, slots and blocks. The properties alone
  are not inductive: the directory names the *next* content of a slot. The
  invariant `Inv` separates slots that are being filled, slots that are
  *condemned* (a waiting thread has given them to another block), and resting
  ones, and says who holds which mutex where; from that follows that a
  condemned slot has one waiter, the one with the manager locked.
* `MPIMutexProofs`: `MutualExclusion`, `HandoffMatches`, `ServedInOrder` for
  any number of ranks, threads and locks, under `OpenBarrier` (finding A is
  why). The invariant `OInv` is the queue: the word names the last thread,
  each pending thread knows the one before it, everyone else is at the front.

* `CacheDistWinProofs`: `ReadsRequestedBlock`, `SourceKept`,
  `DictionaryTruthful` for any number of ranks, threads, slots, blocks and
  places, and for both values of `ThreadsafeMPI`. As in a single process a slot
  is condemned, being filled or resting, but now its place may also be listed on
  another rank. `Inv` says who holds the mutex of an entry, and that a slot is
  listed only for the block that it holds, is being filled with, or is about to
  lose, and whose entry its thread then waits for. A thread that copies has the
  entry's mutex; so the source's owner, which has to delete the place first,
  waits, and the slot keeps its block.
* `CacheDistThreadProofs`: `ReadsRequestedBlock`, `RepliesFindTheirThread`,
  `StalePlacesAreLeaving` for any number of ranks, threads, slots, blocks and
  places. Here the dictionary lags behind. `Inv` says that announcements about a
  place come only from its owner and alternate between adding and deleting, so
  that, once those under way have arrived, the place is listed for the block
  announced last and for no other; that a rank has at most one question or
  answer of a kind under way, whose asker waits for it; and who holds a slot's
  mutex, a thread or the communication thread.
* `GridOpenProofs`: `NoLostWakeUp`, `IdsAndMasters`, `ReadyWhenUsed`,
  `OpenedEverywhere`, `ReturnsTheError` for any number of threads, domains,
  levels and any files. `SyncInv` is the barrier on its own: who has the mutex,
  and that the counters count the threads in front of and behind the two
  conditions. Over it, ids are given in the order of arrival; all threads have
  completed the same barriers, but for those that leave the last one; a
  broadcast's root stays until all others have copied; the first level that
  fits decides the size, hence the error of every later one. A thread always
  returns the root's result; that success means the level is ready in every
  domain has the exception named in section 4.
* `FullDistProofs`, in five parts.
  *Places*: a block's rank, domain and offset are in their ranges, and
  `local2global` is inverse to them, for any number of blocks, ranks and
  domains and both distributions (`PlacesOfBlocks`, `BlocksHavePlaces`), by the
  uniqueness of division with remainder, because two divisions are one by the
  product, and because rounding up leaves a place for every block; hence the
  memory of the ranks has every block where `FullDist` looks for it
  (`MemoryHasEveryBlock`).
  *Protocol*: `RepliesFindTheirThread`, and with `OpenBarrier` `NothingDropped`.
  `m_sendRecvMutex` leaves a rank one question or answer, the reduction makes
  the tags of all ranks equal, and no receiver goes before all ranks close.
  *Range*: `RangeIsRead`, from the margin of half a cell that `min` and `max`
  have on either side.
  *Layout*: `FilesRight`, for every file, block size and number of dimensions.
  `Number` and `Digits` are inverse to each other on a mixed radix; both are
  folds, so their partial results are taken one digit at a time
  (`NumberSteps`, `Weight`). A block at the upper end is read densely, as the
  numbers of its own size, and spread over the block from the last value to the
  first. The inner loop of `getVar` borrows from one dimension after the other
  and keeps position, index in the file and index in the block consistent
  (`BorrowMoves`). A value's place is never before the place it was read to, and
  grows with it, so that no pass overwrites a value that is still to be moved
  (`SpreadKeeps`); and where the two meet, all values before are in place
  already, so that the loop may stop (`CellsInPlace`).
  *Values*: `ReadsRequestedValue`, for any number of ranks, domains, threads and
  slots and all files, under `OpenBarrier`, as is `Inv`. A resting slot has the
  block that the directory names; one that a thread waits for was named so
  before. A domain reads from its own rank only after the broadcast that all
  domains of the rank join with their blocks loaded, and from another rank only
  after the barrier, i.e. when every domain has loaded (`AllLoaded`). Without
  the barrier only the protocol is proved: an answer still reaches the thread
  that asked, but it may have the contents of a block that is being loaded.
* `GridsProofs`: `GridsAccountedFor`, `TransfersMatchParameters`, and with
  `ThreadsafeCounter` `CountersAddUp`, for any number of threads, nodes and
  grids and every sequence of `setComm`, `setThreads` and `setParam` with any
  parameters. `Inv` says: handles are places of the table, each grid its own,
  and the thread that adds one has the lock and the last place; every duplicate
  of a communicator has its grid; a communicator of more than one process was
  given by `setComm`; and the container of an open grid suits its parameters
  (`Suits`), from which follows where each class can find a value
  (`ResultsFit`). Whoever is between load and store of an increment has the
  counter's mutex, so the sum of the accesses over the domains is what was
  served, plus the accesses that have made the first of two increments
  (`Half`), and the other sums are what was served of their kind. Sums are the
  fold of the community modules, which takes chosen elements; that it may take
  any, and that the sum of a difference is the difference of the sums, is
  proved by induction on the size of the set (`SumExists`, `SumUnique`,
  `SumLinear`).

Assumptions on constants, and where they come from: `HandDiff < Size`
(`LRUAssumption`; nothing in the code checks it, and beyond it the behaviour is
undefined); the same number of threads on all ranks (`MPIMutexAssumption`;
`mutex.h:115` decodes ids with the local number); `-1` is not a block; every
rank has a tag left below those of the communication thread's own messages
(`FullDistAssumption`; not checked by the code either); a cell of the file is a
multiple of the unit in which coordinates are told apart, and a file with
coordinates has those of both ends, and a wanted block size for every dimension
(`FileAssumption`); setups of `GridOpen` give
every level a file, and in none does the first domain fail alone; a process has threads, on nodes numbered without gaps
(`GridsAssumption`).

Only model-checked: all liveness properties (the prover has no reasoning about
fairness that would reach them, nor about ENABLED). There are no recursive operators; the inductions over numbers that the
proofs need (the greatest tag of the ranks, the digits of a number, the passes of
a loop, sums) are done on sets of numbers, with the library's theorems on well-founded
relations (`NatSet`, `Upwards`, `AllNumbers`).

## 7. Not modelled

Left out for good: input and output, the conversion of single values,
allocation, logging, the ranks of a node (`nodeLocalRank`), pinning, and the
errors of MPI, pthread and NUMA calls, after which the code gives no
guarantee. Not yet modelled: step 11 of the plan, and the time dimension.
Of partial failures there are those of opening a file and of a communication
thread that has not been started (in `FullDist`; the applications of `Grids` start
it before they open a grid that needs it).
The headers and the documentation have interfaces only. Undefined
behaviour is a choice over its outcomes where these can be enumerated (the
bits of the clock) and excluded by a named assumption where not.
