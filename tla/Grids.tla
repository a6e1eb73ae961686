-------------------------------- MODULE Grids --------------------------------
(***************************************************************************)
(* The life of the grids of one process: a thread creates a grid and says  *)
(* with setComm, setThreads and setParam how it is to be distributed, all  *)
(* threads open it, any of them reads values, one closes it.  Here are the *)
(* table of handles of the Fortran interface (fortran/pointerarray.h), the *)
(* duplicates of communicators (mpi/mpicomm.h, mpi/commthread.h), the      *)
(* choice of the container (grid/grid.cpp), by which class the block of an *)
(* access is fetched, and the access counters (perf/counter.h).            *)
(*                                                                         *)
(* How open() synchronises the threads is in GridOpen, how a block is      *)
(* fetched in the modules of the levels: here each is a choice among its   *)
(* results.  All grids have one level.                                     *)
(***************************************************************************)
EXTENDS Integers, FiniteSets, Sequences, FiniteSetsExt, TLC

CONSTANTS
    Thread,             \* the threads of the process
    NoThread,           \* nobody
    Grid,               \* the grids, by the variables of the application
    NoGrid,             \* the null pointer
    NodeOf,             \* the NUMA node of a thread
    Upper,              \* what becomes of words with lower-case letters or dashes
    Setup,              \* what the application may be
    ThreadsafeCounter,  \* THREADSAFE_COUNTER
    ThreadsafeMPI,      \* THREADSAFE_MPI
    MaxAccess           \* bound: the values the threads read from a grid

(* A process has threads; their nodes are numbered without gaps.  Of an    *)
(* application: the language, the size of the communicator, the calls      *)
(* between create and open, the same for all grids, and a bound on how     *)
(* often it calls startCommThread.                                         *)
ASSUME GridsAssumption ==
    /\ IsFiniteSet(Thread) /\ Thread # {}
    /\ NoThread \notin Thread
    /\ NoGrid \notin Grid
    /\ NodeOf \in [Thread -> Nat]
    /\ { NodeOf[t] : t \in Thread } = 0 .. Cardinality({ NodeOf[t] : t \in Thread }) - 1
    /\ \A setup \in Setup :
          /\ setup.language \in {"C", "Fortran"}
          /\ setup.size \in Nat \ {0}
          /\ setup.starts \in Nat
          /\ \A i \in DOMAIN setup.calls :
                setup.calls[i].call \in {"setComm", "setThreads", "setParam"}
    /\ ThreadsafeCounter \in BOOLEAN /\ ThreadsafeMPI \in BOOLEAN
    /\ MaxAccess \in [Grid -> Nat]

Native == {"ACCESS", "NUMA", "MPI", "FILE"}

Node == { NodeOf[t] : t \in Thread }

(* Where the value of an access was: in the static memory of the domain,   *)
(* in its cache, in another domain, on another rank, in the file, or where *)
(* no class of the level can fetch it.                                     *)
Outcome == {"own", "cached", "numa", "mpi", "file", "stray"}

VARIABLES
    setup,          \* the application
    pointers,       \* m_pointers: the grids by their handles, which start with 0
    lock,           \* who holds the lock of the table
    handle,         \* m_id
    phase,          \* where in its life a grid is
    done,           \* how many calls of the setup have been made for it
    params,         \* m_params: for each level the parameters that were set
    threads,        \* m_totalThreads
    comm,           \* m_comm: its size, and whether it is a duplicate
    containerType,  \* containerType of initContainers
    domains,        \* the number of containers
    counter,        \* m_counter of the level in each container
    mutex,          \* who holds the mutex of each counter
    commThread,     \* whether the communication thread runs
    starts,         \* how often it was to be started
    communicators,  \* the duplicates MPI has not been told to free
    pc,             \* where in a call a thread is
    using,          \* the grid it calls
    found,          \* where the value was
    todo,           \* the counters it still increments
    loaded,         \* the value it increments
    served          \* history: the accesses of a grid by where the value was

tableVars == <<pointers, lock, handle>>
configVars == <<setup, phase, done, params, threads, comm>>
containerVars == <<containerType, domains>>
counterVars == <<counter, mutex, loaded>>
commVars == <<commThread, starts, communicators>>
callVars == <<pc, using, found, todo, served>>
vars == <<tableVars, configVars, containerVars, counterVars, commVars, callVars>>

Init ==
    /\ setup \in Setup
    /\ pointers = << >>
    /\ lock = NoThread
    /\ handle = [g \in Grid |-> -1]
    /\ phase = [g \in Grid |-> "none"]
    /\ done = [g \in Grid |-> 0]
    /\ params = [g \in Grid |-> << >>]
    /\ threads = [g \in Grid |-> 1]
    /\ comm = [g \in Grid |-> [size |-> 1, duplicate |-> FALSE]]
    /\ containerType = [g \in Grid |-> "UNKNOWN"]
    /\ domains = [g \in Grid |-> 0]
    /\ counter = [g \in Grid |-> [d \in Node |-> [c \in Native |-> 0]]]
    /\ mutex = [g \in Grid |-> [d \in Node |-> [c \in Native |-> NoThread]]]
    /\ commThread = FALSE
    /\ starts = 0
    /\ communicators = 0
    /\ pc = [t \in Thread |-> "idle"]
    /\ using = [t \in Thread |-> NoGrid]
    /\ found = [t \in Thread |-> "own"]
    /\ todo = [t \in Thread |-> << >>]
    /\ loaded = [t \in Thread |-> 0]
    /\ served = [g \in Grid |-> [o \in Outcome |-> 0]]

Alive(g) == phase[g] \in {"created", "open"}

(* The grid that the application's variable g leads to: in C it is the     *)
(* pointer, in Fortran the number that c2f returned.                       *)
PointerTarget(g) == g

FortranTarget(g) == pointers[handle[g] + 1]

Target(g) == IF setup.language = "C" THEN PointerTarget(g) ELSE FortranTarget(g)

-----------------------------------------------------------------------------
(* Faulty variant: add() without its lock.                                 *)
CreateUnlocked(t, g) ==
    /\ pc[t] = "idle"
    /\ phase[g] = "none"
    /\ pointers' = Append(pointers, g)
    /\ phase' = [phase EXCEPT ![g] = "adding"]
    /\ pc' = [pc EXCEPT ![t] = "add"]
    /\ using' = [using EXCEPT ![t] = g]
    /\ UNCHANGED <<setup, lock, handle, done, params, threads, comm, containerVars,
                   counterVars, commVars, found, todo, served>>

(* The constructor of a grid enters it in the table of handles ...         *)
Create(t, g) ==
    /\ pc[t] = "idle"
    /\ phase[g] = "none"
    /\ lock = NoThread
    /\ lock' = t
    /\ pointers' = Append(pointers, g)
    /\ phase' = [phase EXCEPT ![g] = "adding"]
    /\ pc' = [pc EXCEPT ![t] = "add"]
    /\ using' = [using EXCEPT ![t] = g]
    /\ UNCHANGED <<setup, handle, done, params, threads, comm, containerVars,
                   counterVars, commVars, found, todo, served>>

(* ... and takes its number from the size of the table.                    *)
CreateDone(t) ==
    /\ pc[t] = "add"
    /\ handle' = [handle EXCEPT ![using[t]] = Len(pointers) - 1]
    /\ lock' = NoThread
    /\ phase' = [phase EXCEPT ![using[t]] = "created"]
    /\ pc' = [pc EXCEPT ![t] = "idle"]
    /\ using' = [using EXCEPT ![t] = NoGrid]
    /\ UNCHANGED <<setup, pointers, done, params, threads, comm, containerVars,
                   counterVars, commVars, found, todo, served>>

-----------------------------------------------------------------------------
(* The next call of the setup; the application makes them one by one, from *)
(* any thread.                                                             *)
NextCall(t, g, name) ==
    /\ pc[t] = "idle"
    /\ phase[g] = "created"
    /\ done[g] < Len(setup.calls)
    /\ setup.calls[done[g] + 1].call = name
    /\ done' = [done EXCEPT ![g] = @ + 1]

SetThreads(t, g) ==
    /\ NextCall(t, g, "setThreads")
    /\ threads' = [threads EXCEPT ![Target(g)] = Cardinality(Thread)]
    /\ UNCHANGED <<tableVars, setup, phase, params, comm, containerVars, counterVars,
                   commVars, callVars>>

(* MPIComm::init duplicates the communicator and frees the duplicate it    *)
(* had.                                                                    *)
InitComm(g, size) == comm' = [comm EXCEPT ![g] = [size |-> size, duplicate |-> TRUE]]

(* Faulty variant: the old communicator is forgotten.                      *)
AfterInitForgetful(g) == communicators + 1

AfterInit(g) == communicators + (IF comm[g].duplicate THEN 0 ELSE 1)

SetComm(t, g) ==
    /\ NextCall(t, g, "setComm")
    /\ InitComm(Target(g), setup.size)
    /\ communicators' = AfterInit(Target(g))
    /\ UNCHANGED <<tableVars, setup, phase, params, threads, containerVars, counterVars,
                   commThread, starts, callVars>>

(* setParam: upper case and underscores, but for the values that name      *)
(* things in the file.                                                     *)
Normal(word) == IF word \in DOMAIN Upper THEN Upper[word] ELSE word

CaseMatters == {"VARIABLE", "BLOCK_SIZE_0", "BLOCK_SIZE_1", "BLOCK_SIZE_2", "BLOCK_SIZE_3"}

(* The table of the level is there after a resize.                         *)
ParamSet(old, level, name, value) ==
    [ l \in 1 .. Max({Len(old), level + 1}) |->
        LET before == IF l <= Len(old) THEN old[l] ELSE << >>
        IN  IF l = level + 1 THEN name :> value @@ before ELSE before ]

SetParam(t, g) ==
    /\ NextCall(t, g, "setParam")
    /\ LET c == setup.calls[done[g] + 1]
           name == Normal(c.name)
           value == IF name \in CaseMatters THEN c.value ELSE Normal(c.value)
       IN  params' = [params EXCEPT ![Target(g)] = ParamSet(@, c.level, name, value)]
    /\ UNCHANGED <<tableVars, setup, phase, threads, comm, containerVars, counterVars,
                   commVars, callVars>>

Param(g, name, default, level) ==
    IF level < Len(params[g]) /\ name \in DOMAIN params[g][level + 1]
    THEN params[g][level + 1][name]
    ELSE default

-----------------------------------------------------------------------------
(* registerThread: all threads are in domain 0 if NUMA is off.             *)
TotalDomains(g) ==
    IF Param(g, "NUMA_COMMUNICATION", "ON", 0) = "OFF" THEN 1 ELSE Cardinality(Node)

MpiParam(g) ==
    LET type == Param(g, "MPI_COMMUNICATION", "WINDOW", 0)
    IN  IF type = "THREAD" /\ ThreadsafeMPI THEN "WINDOW" ELSE type

MpiType(g) == IF comm[g].size = 1 THEN "OFF" ELSE MpiParam(g)

NumaType(g) ==
    IF TotalDomains(g) = 1 THEN "OFF" ELSE Param(g, "NUMA_COMMUNICATION", "ON", 0)

(* A row of the selection: without NUMA transfers, with, and with a look   *)
(* into the caches of the other domains.                                   *)
ByNuma(g, off, on, cache) ==
    CASE NumaType(g) = "OFF" -> off
      [] NumaType(g) = "CACHE" -> cache
      [] OTHER -> on

ByMpi(g, off, thread, window) ==
    CASE MpiType(g) = "OFF" -> off
      [] MpiType(g) = "THREAD" -> thread
      [] OTHER -> window

(* initContainers: an unknown type is FULL.                                *)
ContainerType(g) ==
    CASE Param(g, "GRID", "FULL", 0) = "CACHE" ->
            ByMpi(g, ByNuma(g, "CACHE_NUMA", "CACHE", "CACHE"),
                     ByNuma(g, "CACHE_MPITHREAD", "CACHE_MPITHREAD_NUMA", "CACHE_MPITHREAD_NUMA"),
                     ByNuma(g, "CACHE_MPIWIN", "CACHE_MPIWIN_NUMA", "CACHE_MPIWIN_NUMA"))
      [] Param(g, "GRID", "FULL", 0) = "PASS_THROUGH" -> "PASS_THROUGH"
      [] OTHER ->
            ByMpi(g, ByNuma(g, "FULL", "FULL_NUMA", "FULL_NUMA"),
                     ByNuma(g, "FULL_MPITHREAD", "FULL_MPITHREAD_NUMA", "FULL_MPITHREAD_NUMACACHE"),
                     ByNuma(g, "FULL_MPIWIN", "FULL_MPIWIN_NUMA", "FULL_MPIWIN_NUMACACHE"))

(* The classes a container is made of: the level and its two transfers.    *)
ClassesOf ==
    [CACHE |-> <<"Cache", "MPINo", "NumaNo">>,
     CACHE_NUMA |-> <<"CacheDist", "MPINo", "NumaCache">>,
     CACHE_MPITHREAD |-> <<"CacheDist", "MPIThread", "NumaNo">>,
     CACHE_MPIWIN |-> <<"CacheDist", "MPIWin", "NumaNo">>,
     CACHE_MPITHREAD_NUMA |-> <<"CacheDist", "MPIThread", "NumaCache">>,
     CACHE_MPIWIN_NUMA |-> <<"CacheDist", "MPIWin", "NumaCache">>,
     FULL |-> <<"Full", "MPINo", "NumaNo">>,
     FULL_NUMA |-> <<"FullDist", "MPINo", "NumaFull">>,
     FULL_MPITHREAD |-> <<"FullDist", "MPIThread", "NumaNo">>,
     FULL_MPIWIN |-> <<"FullDist", "MPIWin", "NumaNo">>,
     FULL_MPITHREAD_NUMA |-> <<"FullDist", "MPIThread", "NumaFull">>,
     FULL_MPIWIN_NUMA |-> <<"FullDist", "MPIWin", "NumaFull">>,
     FULL_MPITHREAD_NUMACACHE |-> <<"FullDist", "MPIThread", "NumaFullCache">>,
     FULL_MPIWIN_NUMACACHE |-> <<"FullDist", "MPIWin", "NumaFullCache">>,
     PASS_THROUGH |-> <<"PassThrough", "MPINo", "NumaNo">>]

MpiClass(type) == ClassesOf[type][2]

(* Faulty variant: the communicator stays although MPI is off.             *)
ResetNever(g) == FALSE

(* Without MPI, every process has a grid of its own.                       *)
Reset(g) == comm[g].size # 1 /\ MpiParam(g) = "OFF"

(* All threads have called open and return from it.  The communication     *)
(* thread has to be started before a grid that uses it is opened.          *)
Open(g) ==
    /\ \A t \in Thread : pc[t] = "idle"
    /\ phase[g] = "created"
    /\ done[g] = Len(setup.calls)
    /\ threads[Target(g)] = Cardinality(Thread)
    /\ MpiClass(ContainerType(Target(g))) = "MPIThread" => commThread
    /\ containerType' = [containerType EXCEPT ![Target(g)] = ContainerType(Target(g))]
    /\ domains' = [domains EXCEPT ![Target(g)] = TotalDomains(Target(g))]
    /\ IF Reset(Target(g))
       THEN InitComm(Target(g), 1) /\ communicators' = AfterInit(Target(g))
       ELSE UNCHANGED <<comm, communicators>>
    /\ phase' = [phase EXCEPT ![g] = "open"]
    /\ UNCHANGED <<tableVars, setup, done, params, threads, counterVars, commThread, starts,
                   callVars>>

-----------------------------------------------------------------------------
(* Ids of domains follow the order of the registrations, which GridOpen    *)
(* has; here a domain is named by its node.                                *)
DomainOf(g, t) == IF domains[g] = 1 THEN 0 ELSE NodeOf[t]

(* Full::getAt asserts that the block is here.                             *)
FullAt(rank, domain, here) == IF rank = 0 /\ domain = here THEN "own" ELSE "stray"

(* Whether NumaFull, or the look into the other domains' caches before it, *)
(* finds the block; the process has rank 0.                                *)
NumaFinds(class, rank, inCache) ==
    \/ class \in {"NumaFull", "NumaFullCache"} /\ rank = 0
    \/ class = "NumaFullCache" /\ inCache

(* FullDist::getAt: what is asked of MPINo is never answered.              *)
FullDistAt(mpi, numa, rank, domain, here, cached, inCache) ==
    IF rank = 0 /\ domain = here THEN "own"
    ELSE IF cached THEN "cached"
    ELSE IF NumaFinds(numa, rank, inCache) THEN "numa"
    ELSE IF mpi = "MPINo" THEN "stray" ELSE "mpi"

CacheAt(cached) == IF cached THEN "cached" ELSE "file"

(* CacheDist::getAt: another domain, another rank, the file.               *)
CacheDistAt(mpi, numa, cached, inCache, elsewhere) ==
    IF cached THEN "cached"
    ELSE IF numa = "NumaCache" /\ inCache THEN "numa"
    ELSE IF mpi # "MPINo" /\ elsewhere THEN "mpi" ELSE "file"

(* Where the value of an access of thread t may be found, with the block   *)
(* anywhere and in any caches that there are.                              *)
Results(g, t) ==
    LET level == ClassesOf[containerType[g]][1]
        mpi == ClassesOf[containerType[g]][2]
        numa == ClassesOf[containerType[g]][3]
        here == DomainOf(g, t)
        Place == (0 .. comm[g].size - 1) \X (0 .. domains[g] - 1)
        InCache == IF domains[g] > 1 THEN BOOLEAN ELSE {FALSE}
        Elsewhere == IF comm[g].size > 1 THEN BOOLEAN ELSE {FALSE}
    IN  CASE level = "Full" -> { FullAt(p[1], p[2], here) : p \in Place }
          [] level = "FullDist" ->
                { FullDistAt(mpi, numa, p[1], p[2], here, cached, inCache) :
                    p \in Place, cached \in BOOLEAN, inCache \in InCache }
          [] level = "Cache" -> { CacheAt(cached) : cached \in BOOLEAN }
          [] level = "CacheDist" ->
                { CacheDistAt(mpi, numa, cached, inCache, elsewhere) :
                    cached \in BOOLEAN, inCache \in InCache, elsewhere \in Elsewhere }
          [] level = "PassThrough" -> {"file"}

(* Faulty variant: FullDist counts the accesses that Full counts.          *)
CountedTwice(outcome) ==
    CASE outcome = "own" -> <<"ACCESS", "ACCESS">>
      [] outcome = "cached" -> <<"ACCESS">>
      [] outcome = "numa" -> <<"ACCESS", "NUMA">>
      [] outcome = "file" -> <<"ACCESS", "FILE">>
      [] OTHER -> <<"ACCESS", "MPI">>

(* The counters an access increments, in this order.                       *)
Counted(outcome) ==
    CASE outcome \in {"own", "cached"} -> <<"ACCESS">>
      [] outcome = "numa" -> <<"ACCESS", "NUMA">>
      [] outcome = "file" -> <<"ACCESS", "FILE">>
      [] OTHER -> <<"ACCESS", "MPI">>

(* The bound on the accesses of a grid, those under way included.          *)
Accesses(g) ==
    MapThenSumSet(LAMBDA o : served[g][o], Outcome)
        + Cardinality({ t \in Thread : pc[t] = "count" /\ using[t] = g })

GetAt(t, g) ==
    /\ pc[t] = "idle"
    /\ phase[g] = "open"
    /\ Accesses(Target(g)) < MaxAccess[Target(g)]
    /\ \E outcome \in Results(Target(g), t) :
          /\ found' = [found EXCEPT ![t] = outcome]
          /\ todo' = [todo EXCEPT ![t] = Counted(outcome)]
    /\ using' = [using EXCEPT ![t] = Target(g)]
    /\ pc' = [pc EXCEPT ![t] = "count"]
    /\ UNCHANGED <<tableVars, configVars, containerVars, counterVars, commVars, served>>

(* Faulty variant: the mutex is not used.                                  *)
IncUnlocked(t) ==
    /\ pc[t] = "count"
    /\ loaded' = [loaded EXCEPT ![t] = counter[using[t]][DomainOf(using[t], t)][Head(todo[t])]]
    /\ pc' = [pc EXCEPT ![t] = "store"]
    /\ UNCHANGED <<tableVars, configVars, containerVars, counter, mutex, commVars, using, found,
                   todo, served>>

(* Counter::inc: the mutex, if there is one, and the load ...              *)
Inc(t) ==
    /\ pc[t] = "count"
    /\ LET g == using[t]
           d == DomainOf(g, t)
           c == Head(todo[t])
       IN  /\ \/ ~ThreadsafeCounter /\ UNCHANGED mutex
              \/ /\ ThreadsafeCounter
                 /\ mutex[g][d][c] = NoThread
                 /\ mutex' = [mutex EXCEPT ![g][d][c] = t]
           /\ loaded' = [loaded EXCEPT ![t] = counter[g][d][c]]
    /\ pc' = [pc EXCEPT ![t] = "store"]
    /\ UNCHANGED <<tableVars, configVars, containerVars, counter, commVars, using, found, todo,
                   served>>

(* ... and the store.                                                      *)
IncDone(t) ==
    /\ pc[t] = "store"
    /\ LET g == using[t]
           d == DomainOf(g, t)
           c == Head(todo[t])
       IN  /\ counter' = [counter EXCEPT ![g][d][c] = loaded[t] + 1]
           /\ mutex' = [mutex EXCEPT ![g][d][c] = NoThread]
           /\ \/ /\ Len(todo[t]) = 1
                 /\ served' = [served EXCEPT ![g][found[t]] = @ + 1]
                 /\ pc' = [pc EXCEPT ![t] = "idle"]
                 /\ using' = [using EXCEPT ![t] = NoGrid]
              \/ /\ Len(todo[t]) > 1
                 /\ pc' = [pc EXCEPT ![t] = "count"]
                 /\ UNCHANGED <<served, using>>
    /\ todo' = [todo EXCEPT ![t] = Tail(@)]
    /\ loaded' = [loaded EXCEPT ![t] = 0]
    /\ found' = [found EXCEPT ![t] = IF Len(todo[t]) = 1 THEN "own" ELSE @]
    /\ UNCHANGED <<tableVars, configVars, containerVars, commVars>>

-----------------------------------------------------------------------------
(* The application closes a grid that nobody uses any more, on all ranks;  *)
(* the destructor takes it out of the table and frees the duplicate of the *)
(* communicator.                                                           *)
Close(t, g) ==
    /\ pc[t] = "idle"
    /\ Alive(g)
    /\ ~ \E u \in Thread : pc[u] \in {"count", "store"} /\ using[u] = Target(g)
    /\ pointers' = [pointers EXCEPT ![handle[Target(g)] + 1] = NoGrid]
    /\ communicators' = communicators - (IF comm[Target(g)].duplicate THEN 1 ELSE 0)
    /\ phase' = [phase EXCEPT ![g] = "closed"]
    /\ UNCHANGED <<lock, handle, setup, done, params, threads, comm, containerVars, counterVars,
                   commThread, starts, callVars>>

(* CommThread::init refuses to start a second communication thread.        *)
StartCommThread(t) ==
    /\ pc[t] = "idle"
    /\ starts < setup.starts
    /\ starts' = starts + 1
    /\ commThread' = TRUE
    /\ communicators' = communicators + (IF commThread THEN 0 ELSE 1)
    /\ UNCHANGED <<tableVars, configVars, containerVars, counterVars, callVars>>

(* The communication thread is stopped when the last grid that uses it has *)
(* been closed.                                                            *)
StopCommThread(t) ==
    /\ pc[t] = "idle"
    /\ commThread
    /\ \A g \in Grid : phase[g] = "open" => MpiClass(containerType[g]) # "MPIThread"
    /\ commThread' = FALSE
    /\ communicators' = communicators - 1
    /\ UNCHANGED <<tableVars, configVars, containerVars, counterVars, starts, callVars>>

-----------------------------------------------------------------------------
Step(t) ==
    \/ \E g \in Grid :
          Create(t, g) \/ SetThreads(t, g) \/ SetComm(t, g) \/ SetParam(t, g)
              \/ GetAt(t, g) \/ Close(t, g)
    \/ CreateDone(t) \/ Inc(t) \/ IncDone(t)
    \/ StartCommThread(t) \/ StopCommThread(t)

Next == (\E t \in Thread : Step(t)) \/ (\E g \in Grid : Open(g))

Spec == Init /\ [][Next]_vars

-----------------------------------------------------------------------------
(* What getCounter returns.                                                *)
Name2Type ==
    [accesses |-> "ACCESS", numa_transfers |-> "NUMA", mpi_transfers |-> "MPI",
     file_loads |-> "FILE", local_hits |-> "HIT", node_hits |-> "NODE_HIT",
     local_misses |-> "MISS"]

Get(c, type) ==
    CASE type = "HIT" -> c["ACCESS"] - c["NUMA"] - c["MPI"] - c["FILE"]
      [] type = "NODE_HIT" -> c["ACCESS"] - c["MPI"] - c["FILE"]
      [] type = "MISS" -> c["NUMA"] + c["MPI"] + c["FILE"]
      [] type = "INVALID" -> 0
      [] OTHER -> c[type]

GetCounter(g, name) ==
    LET type == IF name \in DOMAIN Name2Type THEN Name2Type[name] ELSE "INVALID"
    IN  MapThenSumSet(LAMBDA d : Get(counter[g][d], type), 0 .. domains[g] - 1)

(* Nobody reads a value of the grid.                                       *)
Quiet(g) == ~ \E t \in Thread : pc[t] \in {"count", "store"} /\ using[t] = g

(* With THREADSAFE_COUNTER, getCounter tells where the values came from    *)
(* while nobody reads one, summed over the domains: no increment is lost   *)
(* between two threads, and no access counted twice although the classes   *)
(* of a full level call each other.                                        *)
CountersAddUp ==
    \A g \in Grid : phase[g] = "open" /\ Quiet(g) =>
        LET From(S) == MapThenSumSet(LAMBDA o : served[g][o], S)
        IN  /\ GetCounter(g, "accesses") = From(Outcome)
            /\ GetCounter(g, "numa_transfers") = From({"numa"})
            /\ GetCounter(g, "mpi_transfers") = From({"mpi"})
            /\ GetCounter(g, "file_loads") = From({"file"})
            /\ GetCounter(g, "local_hits") = From({"own", "cached"})
            /\ GetCounter(g, "node_hits") = From({"own", "cached", "numa"})
            /\ GetCounter(g, "local_misses") = From({"numa", "mpi", "file"})
            /\ GetCounter(g, "hits") = 0

(* The manual's words on grid types and parameters hold of every access:   *)
(* no block is asked of a class that cannot fetch it, a full grid does not *)
(* touch the file, a pass-through grid nothing else, and values come from  *)
(* other ranks or domains only if the application has given them and has   *)
(* not switched their use off.                                             *)
TransfersMatchParameters ==
    \A g \in Grid :
        LET Came(o) == served[g][o] > 0 \/ (~Quiet(g) /\ \E t \in Thread :
                            pc[t] \in {"count", "store"} /\ using[t] = g /\ found[t] = o)
            Type == Param(g, "GRID", "FULL", 0)
            Given == \E i \in 1 .. done[g] : setup.calls[i].call = "setComm"
        IN  /\ ~Came("stray")
            /\ Came("file") => Type \in {"CACHE", "PASS_THROUGH"}
            /\ Type = "PASS_THROUGH" => \A o \in Outcome \ {"file"} : ~Came(o)
            /\ Came("mpi") =>
                  Given /\ setup.size > 1 /\ Param(g, "MPI_COMMUNICATION", "WINDOW", 0) # "OFF"
            /\ Came("numa") =>
                  Cardinality(Node) > 1 /\ Param(g, "NUMA_COMMUNICATION", "ON", 0) # "OFF"

(* A handle leads to the grid it was returned for as long as that grid is  *)
(* there and nowhere afterwards, whichever threads create and close grids  *)
(* at the same time; and MPI is left with no communicator that nobody will *)
(* free: there is one for every grid that has set one, and one for the     *)
(* communication thread.                                                   *)
GridsAccountedFor ==
    /\ \A g \in Grid : Alive(g) => FortranTarget(g) = g
    /\ \A g \in Grid : phase[g] = "closed" => FortranTarget(g) = NoGrid
    /\ communicators =
          Cardinality({ g \in Grid : Alive(g) /\ comm[g].duplicate })
              + (IF commThread THEN 1 ELSE 0)
=============================================================================
