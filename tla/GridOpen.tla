------------------------------- MODULE GridOpen -------------------------------
(***************************************************************************)
(* Grid::open (grid/grid.cpp) as all the threads of one process call it,   *)
(* level after level, over the barrier of Sync.  In the first call every   *)
(* thread is given an id and a NUMA domain (numa/numa.cpp); the first      *)
(* thread of a domain becomes its master.  The masters create the          *)
(* containers of all domains exactly once (threads/once.h), and each opens *)
(* the level in the container of its domain.  They meet in broadcasts of   *)
(* a new level's communicator and of the memory allocated for all domains, *)
(* which the levels of a pass-through grid do without.  At the end the     *)
(* error code is broadcast from the thread with id 0 to all threads.       *)
(*                                                                         *)
(* A level is a variable of a file.  It fails in every domain if it cannot *)
(* be read, or if its values do not fit to the type of the grid.  It fails *)
(* in one domain alone if the reader of that domain cannot open the file   *)
(* once more.                                                              *)
(***************************************************************************)
EXTENDS Sync

CONSTANTS
    Node,           \* the NUMA nodes of the machine
    NumLevels,      \* bound: the levels of detail the application opens
    MaxDimensions,  \* MAX_DIMENSIONS
    Setup,          \* what the application and its files may be
    NoDomain        \* the domain of a thread that is not registered

(* The basic types and their sizes.                                        *)
SizeOf == [BYTE |-> 1, INT |-> 4, LONG |-> 8, FLOAT |-> 4, DOUBLE |-> 8]

BasicType == DOMAIN SizeOf

LevelId == 0 .. NumLevels - 1

(* A level in its file.  `varSize` is the size of one value, which for     *)
(* arrays and structs is that of NetCDF's own user-defined type.           *)
Variable ==
    [exists : BOOLEAN, hasVariable : BOOLEAN, dimensions : Nat, varSize : Nat \ {0}]

(* A member of a struct: how many values of which type, and where.         *)
Member == [type : BasicType, count : Nat \ {0}, displacement : Nat]

(* The kind of the constructor, its type or the members of its struct, and *)
(* the application opens each level once, in an order of its choice.       *)
(* `failing` says which levels the readers of which domains alone fail to  *)
(* open; what fails for the domain of the root is left to the file, as its *)
(* error is the one that all threads get.                                  *)
ASSUME GridOpenAssumption ==
    /\ IsFiniteSet(Node)
    /\ Node # {}
    /\ NumLevels \in Nat \ {0}
    /\ MaxDimensions \in Nat
    /\ NoDomain \notin Nat
    /\ \A setup \in Setup :
          /\ setup.kind \in {"basic", "array", "struct"}
          /\ setup.members \in Seq(Member) \ {<< >>}
          /\ setup.members[1].displacement = 0
          /\ setup.variable \in [LevelId -> Variable]
          /\ setup.order \in [1 .. NumLevels -> LevelId]
          /\ \A i, j \in 1 .. NumLevels : setup.order[i] = setup.order[j] => i = j
          /\ setup.passThrough \in BOOLEAN
          /\ setup.failing \subseteq LevelId \X (Nat \ {0})

Success == "SUCCESS"
NoId == -1

VARIABLES
    setup,          \* the application and its files
    initialized,    \* m_initialized
    domains,        \* m_domains: the known nodes, in the order of their ids
    masterThreads,  \* m_masterThreads, as a set of thread ids
    threadId,       \* the thread's id
    domainId,       \* the thread's domain
    once,           \* m_state of m_resizeOnce
    onceMutex,      \* who holds its mutex
    containers,     \* m_containers.size()
    typeSize,       \* what size() of the containers' type returns, 0 if not set
    mpiExtent,      \* the extent of its MPI data type, 0 for MPI_DATATYPE_NULL
    levels,         \* m_levels.size() of a master's container
    usable,         \* the levels in it that a thread can read from
    joined,         \* in how many broadcasts of the masters one has arrived
    err,            \* err, the local variable of open
    data,           \* m_data: the thread whose err is broadcast
    calls,          \* how many calls of open a thread has begun
    pc              \* where in open a thread is

numaVars == <<initialized, domains, masterThreads, threadId, domainId>>
onceVars == <<once, onceMutex, containers>>
typeVars == <<typeSize, mpiExtent>>
levelVars == <<levels, usable, joined>>
callVars == <<err, data, calls, pc>>
vars == <<syncVars, setup, numaVars, onceVars, typeVars, levelVars, callVars>>

Error ==
    {"SUCCESS", "NOT_OPEN", "VAR_NOT_FOUND", "UNSUPPORTED_DIMENSIONS",
     "INVALID_VAR_SIZE", "WRONG_SIZE"}

PC == {"idle", "register", "other", "once", "create", "comm", "check", "commit",
       "allocate", "load", "report"}

TotalDomains == Len(domains)

(* BasicType and what it takes from the first member of a struct.          *)
ElementSize == SizeOf[setup.members[1].type]

Init ==
    /\ SyncInit
    /\ setup \in Setup
    /\ initialized = FALSE
    /\ domains = << >>
    /\ masterThreads = {}
    /\ threadId = [t \in Thread |-> NoId]
    /\ domainId = [t \in Thread |-> NoDomain]
    /\ once = FALSE
    /\ onceMutex = NoThread
    /\ containers = 0
    /\ typeSize = IF setup.kind = "basic" THEN ElementSize ELSE 0
    /\ mpiExtent = typeSize
    /\ levels = [t \in Thread |-> 0]
    /\ usable = [t \in Thread |-> {}]
    /\ joined = [t \in Thread |-> 0]
    /\ err = [t \in Thread |-> Success]
    /\ data = NoThread
    /\ calls = [t \in Thread |-> 0]
    /\ pc = [t \in Thread |-> "idle"]

Goto(t, label) == pc' = [pc EXCEPT ![t] = label]

Master(t) == threadId[t] \in masterThreads

Level(t) == setup.order[calls[t]]

File(t) == setup.variable[Level(t)]

-----------------------------------------------------------------------------
(* The application calls open: registerThread takes part in a barrier the  *)
(* first time and knows the thread later.                                  *)
Call(t) ==
    /\ pc[t] = "idle"
    /\ calls[t] < NumLevels
    /\ calls' = [calls EXCEPT ![t] = @ + 1]
    /\ err' = [err EXCEPT ![t] = Success]
    /\ \/ /\ ~initialized
          /\ StartBarrier(t)
          /\ Goto(t, "register")
       \/ /\ initialized
          /\ Goto(t, IF Master(t) THEN "once" ELSE "other")
          /\ UNCHANGED syncVars
    /\ UNCHANGED <<setup, numaVars, onceVars, typeVars, levelVars, data>>

(* Faulty variant: every thread gets a domain of its own.                  *)
DomainIdOfThread(node) == TotalDomains

(* The id of a node, the next free one for a new node.                     *)
DomainIdOf(node) ==
    IF \E i \in 1 .. TotalDomains : domains[i] = node
    THEN (CHOOSE i \in 1 .. TotalDomains : domains[i] = node) - 1
    ELSE TotalDomains

(* Faulty variant: the thread counts itself.                               *)
LastToRegisterEarly == syncedThreads >= NumThreads - 2

LastToRegister == syncedThreads >= NumThreads - 1

(* registerThread between startBarrier and waitBarrier, on the node where  *)
(* the thread runs at the moment.                                          *)
Register(t, node) ==
    /\ pc[t] = "register"
    /\ at[t] = "inside"
    /\ threadId' = [threadId EXCEPT ![t] = syncedThreads]
    /\ domainId' = [domainId EXCEPT ![t] = DomainIdOf(node)]
    /\ \/ /\ DomainIdOf(node) = TotalDomains
          /\ domains' = Append(domains, node)
          /\ masterThreads' = masterThreads \cup {syncedThreads}
       \/ /\ DomainIdOf(node) # TotalDomains
          /\ UNCHANGED <<domains, masterThreads>>
    /\ initialized' = (initialized \/ LastToRegister)
    /\ Arrive(t, FALSE)
    /\ UNCHANGED <<setup, onceVars, typeVars, levelVars, callVars>>

EndRegister(t) ==
    /\ pc[t] = "register"
    /\ EndBarrier(t)
    /\ Goto(t, IF Master(t) THEN "once" ELSE "other")
    /\ UNCHANGED <<setup, numaVars, onceVars, typeVars, levelVars, err, data, calls>>

-----------------------------------------------------------------------------
(* saveExec: a master finds the function executed ...                      *)
OnceSkip(t) ==
    /\ pc[t] = "once"
    /\ once
    /\ Goto(t, "comm")
    /\ UNCHANGED <<syncVars, setup, numaVars, onceVars, typeVars, levelVars, err, data, calls>>

(* Faulty variant: m_state is set before the function is executed.         *)
OnceStartEarly(t) ==
    /\ pc[t] = "once"
    /\ ~once
    /\ onceMutex = NoThread
    /\ onceMutex' = t
    /\ once' = TRUE
    /\ Goto(t, "create")
    /\ UNCHANGED <<syncVars, setup, numaVars, containers, typeVars, levelVars, err, data, calls>>

(* ... or waits for the mutex, reads m_state again and executes it.        *)
OnceStart(t) ==
    /\ pc[t] = "once"
    /\ ~once
    /\ onceMutex = NoThread
    /\ onceMutex' = t
    /\ Goto(t, "create")
    /\ UNCHANGED <<syncVars, setup, numaVars, once, containers, typeVars, levelVars, err, data, calls>>

(* initContainers                                                          *)
InitContainers(t) ==
    /\ pc[t] = "create"
    /\ containers' = TotalDomains
    /\ once' = TRUE
    /\ onceMutex' = NoThread
    /\ Goto(t, "comm")
    /\ UNCHANGED <<syncVars, setup, numaVars, typeVars, levelVars, err, data, calls>>

-----------------------------------------------------------------------------
(* A master arrives in a broadcast among the masters.  None of them leaves *)
(* it before all have arrived.                                             *)
Join(t) == joined' = [joined EXCEPT ![t] = @ + 1]

Met(t) == \A u \in Thread : Master(u) => joined[u] >= joined[t]

(* The container's init: the vector of the levels grows, and every new     *)
(* level asks for a communicator that domain 0 creates for all domains.  A *)
(* level that is in the vector already is opened without a meeting.        *)
(* A vector is free to move its elements when it grows: the levels that    *)
(* were there are copied, and the copy constructor of Level leaves out the *)
(* dimensions, while the destructor of the original closes the file and    *)
(* gives the memory back.                                                  *)
GrowLevels(t) ==
    /\ pc[t] = "comm"
    /\ \/ /\ levels[t] <= Level(t)
          /\ levels' = [levels EXCEPT ![t] = Level(t) + 1]
          /\ \/ usable' = [usable EXCEPT ![t] = {}]
             \/ UNCHANGED usable
          /\ Join(t)
       \/ levels[t] > Level(t) /\ UNCHANGED levelVars
    /\ Goto(t, "check")
    /\ UNCHANGED <<syncVars, setup, numaVars, onceVars, typeVars, err, data, calls>>

(* NetCdfReader::open                                                      *)
ReaderOpen(file) ==
    IF ~file.exists THEN "NOT_OPEN"
    ELSE IF ~file.hasVariable THEN "VAR_NOT_FOUND"
    ELSE IF file.dimensions > MaxDimensions THEN "UNSUPPORTED_DIMENSIONS"
    ELSE Success

(* The reader of the thread's domain alone fails to open the file.         *)
FailsAlone(t) == <<Level(t), domainId[t]>> \in setup.failing

ReaderOf(t) == IF FailsAlone(t) THEN "NOT_OPEN" ELSE ReaderOpen(File(t))

(* Faulty variant: an array is not checked against its elements.           *)
CheckSizeOnly(kind, size, file) ==
    IF kind # "basic" /\ size # 0 /\ size # file.varSize THEN "WRONG_SIZE" ELSE Success

(* The check of the type, when the size is known or not: NetCDF converts   *)
(* basic types, an array has a whole number of elements, and all levels    *)
(* have the same size.                                                     *)
Check(kind, size, file) ==
    IF kind = "array" /\ file.varSize % ElementSize # 0 THEN "INVALID_VAR_SIZE"
    ELSE IF kind # "basic" /\ size # 0 /\ size # file.varSize THEN "WRONG_SIZE"
    ELSE Success

(* Level::open fails in the reader or in the check, ...                    *)
OpenFails(t) ==
    /\ pc[t] = "check"
    /\ Met(t)
    /\ LET opened == ReaderOf(t)
           error == IF opened = Success THEN Check(setup.kind, typeSize, File(t)) ELSE opened
       IN  error # Success /\ err' = [err EXCEPT ![t] = error]
    /\ Goto(t, "other")
    /\ UNCHANGED <<syncVars, setup, numaVars, onceVars, typeVars, levelVars, data, calls>>

AfterCheck == IF setup.passThrough THEN "load" ELSE "allocate"

(* ... or succeeds, and the first domain sets the size of the type.  It    *)
(* does so under a lock that it gives back before it creates the MPI data  *)
(* type.  A pass-through level has no memory.                              *)
CheckType(t) ==
    /\ pc[t] = "check"
    /\ Met(t)
    /\ ReaderOf(t) = Success
    /\ Check(setup.kind, typeSize, File(t)) = Success
    /\ typeSize' = IF typeSize = 0 THEN File(t).varSize ELSE typeSize
    /\ Goto(t, IF typeSize = 0 THEN "commit" ELSE AfterCheck)
    /\ UNCHANGED <<syncVars, setup, numaVars, onceVars, mpiExtent, levelVars, err, data, calls>>

(* MPI's extent of a struct without padding at the end.                    *)
ExtentOfMembers ==
    LET EndOf(m) == m.displacement + m.count * SizeOf[m.type]
    IN  CHOOSE e \in { EndOf(setup.members[i]) : i \in DOMAIN setup.members } :
            \A i \in DOMAIN setup.members : e >= EndOf(setup.members[i])

(* Faulty variant: the type of a struct keeps the extent of its members.   *)
ExtentUnresized(size) == IF setup.kind = "struct" THEN ExtentOfMembers ELSE size

(* An array of as many elements as fit, a struct resized to its size.      *)
Extent(size) == IF setup.kind = "struct" THEN size ELSE (size \div ElementSize) * ElementSize

CommitType(t) ==
    /\ pc[t] = "commit"
    /\ mpiExtent' = Extent(typeSize)
    /\ Goto(t, AfterCheck)
    /\ UNCHANGED <<syncVars, setup, numaVars, onceVars, typeSize, levelVars, err, data, calls>>

(* Faulty variant: every domain has memory of its own, without a           *)
(* broadcast.                                                              *)
AllocateAlone(t) ==
    /\ pc[t] = "allocate"
    /\ Goto(t, "load")
    /\ UNCHANGED <<syncVars, setup, numaVars, onceVars, typeVars, levelVars, err, data, calls>>

(* NumaComm::allocate: domain 0 broadcasts the memory it allocated for     *)
(* all.                                                                    *)
Allocate(t) ==
    /\ pc[t] = "allocate"
    /\ Join(t)
    /\ Goto(t, "load")
    /\ UNCHANGED <<syncVars, setup, numaVars, onceVars, typeVars, levels, usable, err, data, calls>>

(* The rest of the level's open: the blocks are loaded or the cache is     *)
(* set up, and the transfer classes take the MPI data type.                *)
Load(t) ==
    /\ pc[t] = "load"
    /\ Met(t)
    /\ usable' = [usable EXCEPT ![t] = @ \cup {Level(t)}]
    /\ Goto(t, "other")
    /\ UNCHANGED <<syncVars, setup, numaVars, onceVars, typeVars, levels, joined, err, data, calls>>

-----------------------------------------------------------------------------
(* Faulty variant: only the masters synchronise the return value.          *)
StartReportOfMasters(t) ==
    /\ pc[t] = "other"
    /\ \/ Master(t) /\ StartBarrier(t) /\ Goto(t, "report")
       \/ ~Master(t) /\ Goto(t, "idle") /\ UNCHANGED syncVars
    /\ UNCHANGED <<setup, numaVars, onceVars, typeVars, levelVars, err, data, calls>>

(* broadcast(err): the thread with id 0 offers its variable and leaves     *)
(* last, the others copy it.                                               *)
StartReport(t) ==
    /\ pc[t] = "other"
    /\ StartBarrier(t)
    /\ Goto(t, "report")
    /\ UNCHANGED <<setup, numaVars, onceVars, typeVars, levelVars, err, data, calls>>

(* Faulty variant: the root does not stay until the others have copied.    *)
RootLeavesAtOnce(t) ==
    /\ pc[t] = "report"
    /\ at[t] = "inside"
    /\ data' = IF threadId[t] = 0 THEN t ELSE data
    /\ Arrive(t, FALSE)
    /\ UNCHANGED <<setup, numaVars, onceVars, typeVars, levelVars, err, calls, pc>>

Offer(t) ==
    /\ pc[t] = "report"
    /\ at[t] = "inside"
    /\ data' = IF threadId[t] = 0 THEN t ELSE data
    /\ Arrive(t, threadId[t] = 0)
    /\ UNCHANGED <<setup, numaVars, onceVars, typeVars, levelVars, err, calls, pc>>

(* The call returns what is in the root's variable now.  The broadcast     *)
(* takes the thread's own variable by reference, so that what was in it is *)
(* lost before open asks which of the two is an error.                     *)
Return(t) ==
    /\ pc[t] = "report"
    /\ EndBarrier(t)
    /\ err' = [err EXCEPT ![t] = err[data]]
    /\ Goto(t, "idle")
    /\ UNCHANGED <<setup, numaVars, onceVars, typeVars, levelVars, data, calls>>

-----------------------------------------------------------------------------
InBarrier(t) ==
    /\ Synchronise(t)
    /\ UNCHANGED <<setup, numaVars, onceVars, typeVars, levelVars, callVars>>

Step(t) ==
    \/ Call(t) \/ InBarrier(t)
    \/ (\E node \in Node : Register(t, node)) \/ EndRegister(t)
    \/ OnceSkip(t) \/ OnceStart(t) \/ InitContainers(t)
    \/ GrowLevels(t) \/ OpenFails(t) \/ CheckType(t) \/ CommitType(t) \/ Allocate(t) \/ Load(t)
    \/ StartReport(t) \/ Offer(t) \/ Return(t)

Next == \E t \in Thread : Step(t)

Spec == Init /\ [][Next]_vars

(* Every thread is scheduled, and every thread calls open: open is a       *)
(* collective function for all threads.                                    *)
FairSpec == Spec /\ \A t \in Thread : WF_vars(Step(t))

-----------------------------------------------------------------------------
TypeOK ==
    /\ SyncTypeOK
    /\ setup \in Setup
    /\ initialized \in BOOLEAN
    /\ domains \in Seq(Node) /\ Len(domains) <= Cardinality(Node)
    /\ masterThreads \subseteq 0 .. NumThreads - 1
    /\ threadId \in [Thread -> NoId .. NumThreads - 1]
    /\ domainId \in [Thread -> (0 .. Cardinality(Node) - 1) \cup {NoDomain}]
    /\ once \in BOOLEAN
    /\ onceMutex \in Thread \cup {NoThread}
    /\ containers \in 0 .. Cardinality(Node)
    /\ typeSize \in Nat
    /\ mpiExtent \in {0, typeSize}
    /\ levels \in [Thread -> 0 .. NumLevels]
    /\ usable \in [Thread -> SUBSET LevelId]
    /\ joined \in [Thread -> 0 .. 2 * NumLevels]
    /\ err \in [Thread -> Error]
    /\ data \in Thread \cup {NoThread}
    /\ calls \in [Thread -> 0 .. NumLevels]
    /\ pc \in [Thread -> PC]

(* The threads registerThread has let through.                             *)
Registered == { t \in Thread : pc[t] # "register" /\ calls[t] > 0 }

(* Once the barrier of registerThread lets a thread through, all threads   *)
(* have ids of their own and every domain has exactly one master, although *)
(* a thread's id is only the number of threads that wait at that moment.   *)
IdsAndMasters ==
    Registered # {} =>
        /\ { threadId[t] : t \in Thread } = 0 .. NumThreads - 1
        /\ \A d \in 0 .. TotalDomains - 1 :
              Cardinality({ t \in Thread : Master(t) /\ domainId[t] = d }) = 1

(* What one domain creates for all is there when another uses it.  The     *)
(* containers are, although Once first reads its state without the mutex;  *)
(* and the MPI data type is complete, and strides over the values as they  *)
(* lie in memory, when a transfer class takes it, although the lock of the *)
(* type is given back before the type is created.                          *)
ReadyWhenUsed ==
    /\ \A t \in Registered :
          pc[t] \notin {"other", "once", "create", "report"} =>
              containers = TotalDomains /\ domainId[t] < containers
    /\ ~setup.passThrough =>
          \A t \in Thread : pc[t] = "load" /\ Met(t) => mpiExtent = typeSize

(* open is a barrier and says what it did: when it returns success to one  *)
(* thread, the level is ready in the container of every domain.  That is   *)
(* so for every grid with memory of its own, even when a domain fails      *)
(* alone, as no open returns then.  In a pass-through grid a domain that   *)
(* failed alone is excepted: its error is lost.                            *)
OpenedEverywhere ==
    \A t \in Registered : pc[t] = "idle" /\ err[t] = Success =>
        \A u \in Thread : Master(u) /\ calls[u] = calls[t] =>
            Level(t) \in usable[u] \/ (setup.passThrough /\ FailsAlone(u))

(* Whether the values of a file can be values of the grid at all.          *)
Fits(file) ==
    /\ ReaderOpen(file) = Success
    /\ setup.kind = "array" => \E n \in 1 .. file.varSize : file.varSize = n * ElementSize

(* The result open() owes for the k-th level: the first one that fits says *)
(* what the size is, and the others follow it.                             *)
Owed(k) ==
    LET FileOf(i) == setup.variable[setup.order[i]]
        file == FileOf(k)
    IN  IF ReaderOpen(file) # Success THEN ReaderOpen(file)
        ELSE IF ~Fits(file) THEN "INVALID_VAR_SIZE"
        ELSE IF setup.kind # "basic" /\ \E i \in 1 .. k - 1 :
                    /\ Fits(FileOf(i)) /\ FileOf(i).varSize # file.varSize
                    /\ \A j \in 1 .. i - 1 : ~Fits(FileOf(j))
             THEN "WRONG_SIZE"
             ELSE Success

(* Every thread gets the result of the root's domain in every call,        *)
(* whichever levels came before and failed, and whatever the result of its *)
(* own domain: nobody copies the variable of the root before it is offered *)
(* or after the root has come back from open and begun to use it for the   *)
(* next level.                                                             *)
ReturnsTheError ==
    \A t \in Registered : pc[t] = "idle" => err[t] = Owed(calls[t])

(* Nobody is left behind in a barrier or in a broadcast: every call of     *)
(* open returns.  The exception is a domain that fails alone while the     *)
(* others wait for it in the broadcast of the memory.                      *)
EveryOpenReturns ==
    \A t \in Thread :
        (setup.passThrough \/ setup.failing = {}) /\ pc[t] # "idle" ~> pc[t] = "idle"

(* The manual says that open "must be called once for each level" and that *)
(* the get functions select a level: when all levels are open, each that   *)
(* could be read can be used.                                              *)
AllLevelsUsable ==
    (\A t \in Thread : pc[t] = "idle" /\ calls[t] = NumLevels) =>
        \A t \in Thread : Master(t) => { l \in LevelId : Fits(setup.variable[l]) } \subseteq usable[t]

-----------------------------------------------------------------------------
(* The parts of the inductive invariant of GridOpenProofs.                 *)

MasterPC == {"once", "create", "comm", "check", "commit", "allocate", "load"}

CallsBegun ==
    \A t \in Thread :
        /\ at[t] = "out" <=> pc[t] \notin {"register", "report"}
        /\ pc[t] # "idle" => calls[t] > 0
        /\ pc[t] = "register" => calls[t] = 1
        /\ pc[t] \in MasterPC => Master(t)

(* Only the root of the broadcast leaves last.                             *)
LastIsRoot ==
    \A t \in Thread : Arrived(t) => (last[t] <=> pc[t] = "report" /\ threadId[t] = 0)

HasId(t) == threadId[t] # NoId

(* Ids are given in the order of arrival; before all threads have one,     *)
(* nobody gets further.                                                    *)
IdsGiven ==
    /\ \A t \in Thread :
          /\ HasId(t) <=> t \in Registered \/ (pc[t] = "register" /\ Arrived(t))
          /\ HasId(t) => \A u \in Thread : threadId[u] = threadId[t] => u = t
          /\ initialized => HasId(t)
          /\ ~initialized => ~Complete(t) /\ (pc[t] = "register" \/ calls[t] = 0)
    /\ \A n \in 0 .. (IF initialized THEN NumThreads ELSE syncedThreads) - 1 :
          \E t \in Thread : threadId[t] = n
    /\ ~initialized => \A t \in Thread : threadId[t] < syncedThreads

(* Every known node has one master, and the root is one.                   *)
DomainsOwned ==
    /\ \A i, j \in 1 .. TotalDomains : domains[i] = domains[j] => i = j
    /\ \A m \in masterThreads : \E t \in Thread : threadId[t] = m
    /\ \A d \in 0 .. TotalDomains - 1 : \E t \in Thread : Master(t) /\ domainId[t] = d
    /\ \A t \in Thread :
          /\ HasId(t) => domainId[t] \in 0 .. TotalDomains - 1
          /\ threadId[t] = 0 => Master(t) /\ domainId[t] = 0
          /\ \A u \in Thread : Master(t) /\ Master(u) /\ domainId[t] = domainId[u] => t = u

ContainersReady ==
    /\ once => initialized /\ containers = TotalDomains
    /\ \A t \in Thread :
          /\ Master(t) /\ calls[t] > 0
          /\ calls[t] = 1 => pc[t] \notin {"register", "once", "create"}
          => once

(* The barriers a thread has left or may leave: the one of registerThread  *)
(* and one for each call.  They are the same for all threads.              *)
Completed(t) ==
    calls[t] + One((pc[t] = "idle" /\ calls[t] > 0) \/ (pc[t] = "report" /\ Complete(t)))
             - One(pc[t] = "register" /\ ~Complete(t))

RoundsEqual == \A t, u \in Thread : Completed(t) = Completed(u)

(* What a thread has to report of its k-th call.                           *)
OwnResult(t, k) ==
    IF ~Master(t) THEN Success ELSE IF FailsAlone(t) THEN "NOT_OPEN" ELSE Owed(k)

(* What a thread has in err, in its k-th call.                             *)
Results ==
    \A t \in Thread : \A k \in 1 .. NumLevels : calls[t] = k =>
        /\ pc[t] \in MasterPC \cup {"register"} => err[t] = Success
        /\ pc[t] \in {"commit", "allocate", "load"} => Owed(k) = Success /\ ~FailsAlone(t)
        /\ pc[t] = "allocate" => ~setup.passThrough
        /\ pc[t] \in {"other", "report"} => err[t] = OwnResult(t, k)
        /\ pc[t] = "idle" => err[t] = Owed(k)

(* The root's variable is the one that is broadcast, and the root stays in *)
(* the broadcast until everybody else has left it.                         *)
RootOffers ==
    \A t \in Thread :
        /\ threadId[t] = 0
        /\ (pc[t] = "report" /\ Arrived(t)) \/ (pc[t] = "idle" /\ calls[t] > 0) \/ calls[t] > 1
        => data = t

RootStays ==
    \A t, r \in Thread :
        threadId[r] = 0 /\ t # r /\ pc[t] = "report" /\ Complete(t)
            => pc[r] = "report" /\ Complete(r) /\ at[r] # "through"

(* The first level that fits sets the size of the type.                    *)
FirstFit(i) ==
    /\ Fits(setup.variable[setup.order[i]])
    /\ \A j \in 1 .. i - 1 : ~Fits(setup.variable[setup.order[j]])

Checked(t, i) ==
    \/ i < calls[t]
    \/ /\ i = calls[t]
       /\ pc[t] \in {"commit", "allocate", "load", "other", "report", "idle"}
       /\ pc[t] \in {"other", "report"} => ~FailsAlone(t)

SizeKnown ==
    /\ setup.kind = "basic" => typeSize = ElementSize
    /\ setup.kind # "basic" /\ typeSize # 0 =>
          \E i \in 1 .. NumLevels :
              /\ FirstFit(i)
              /\ typeSize = setup.variable[setup.order[i]].varSize
              /\ \A t \in Thread : i <= Completed(t)
    /\ \A t \in Thread : \A i \in 1 .. NumLevels :
          Master(t) /\ FirstFit(i) /\ Checked(t, i) => typeSize # 0
    /\ mpiExtent # typeSize => \E t \in Thread : pc[t] = "commit"
    /\ \A t \in Thread : pc[t] = "commit" => setup.kind # "basic" /\ typeSize # 0

(* The vector of the levels grows in the k-th call.                        *)
Grows(k) == \A i \in 1 .. k - 1 : setup.order[i] < setup.order[k]

(* A master has made room for the level of its i-th call.                  *)
Grown(t, i) ==
    \/ i < calls[t]
    \/ i = calls[t] /\ pc[t] \notin {"register", "once", "create", "comm"}

LevelsGrown ==
    \A t \in Thread :
        /\ ~Master(t) => levels[t] = 0
        /\ Master(t) =>
              \A l \in LevelId :
                  levels[t] > l <=> \E i \in 1 .. NumLevels : Grown(t, i) /\ setup.order[i] >= l

(* The broadcasts a master has joined in its present call, and before it.  *)
JoinedNow(t) ==
    CASE pc[t] \in {"check", "commit", "allocate"} -> One(Grows(calls[t]))
      [] pc[t] = "load" -> One(Grows(calls[t])) + One(~setup.passThrough)
      [] pc[t] = "other" \/ (pc[t] = "report" /\ ~Complete(t)) ->
            One(Grows(calls[t])) + One(err[t] = Success /\ ~setup.passThrough)
      [] OTHER -> 0

JoinedEqually ==
    /\ \A t, u \in Thread :
          Master(t) /\ Master(u) => joined[t] - JoinedNow(t) = joined[u] - JoinedNow(u)
    /\ \A t \in Thread :
          /\ joined[t] <= 2 * calls[t]
          /\ pc[t] \in {"register", "once", "create", "comm"} => joined[t] <= 2 * calls[t] - 2
          /\ pc[t] \in {"check", "commit", "allocate"} => joined[t] <= 2 * calls[t] - 1

LevelsLoaded ==
    \A t \in Thread :
        /\ Master(t) /\ calls[t] > 0 /\ ~FailsAlone(t)
        /\ pc[t] \in {"other", "report", "idle"} /\ err[t] = Success
        => Level(t) \in usable[t]

(* A master has come back from the level's open in its k-th call.          *)
BackFrom(t, k) == k < calls[t] \/ (k = calls[t] /\ pc[t] \in {"other", "report", "idle"})

(* The root has left the broadcast of the memory only if every domain has  *)
(* come to it.                                                             *)
LoadedTogether ==
    ~setup.passThrough =>
        \A t, u \in Thread : \A k \in 1 .. NumLevels :
            threadId[t] = 0 /\ BackFrom(t, k) /\ Owed(k) = Success /\ Master(u)
                => <<setup.order[k], domainId[u]>> \notin setup.failing

Inv ==
    /\ TypeOK
    /\ SyncInv
    /\ CallsBegun
    /\ LastIsRoot
    /\ IdsGiven
    /\ DomainsOwned
    /\ ContainersReady
    /\ RoundsEqual
    /\ Results
    /\ RootOffers
    /\ RootStays
    /\ SizeKnown
    /\ JoinedEqually
    /\ LevelsLoaded
    /\ LevelsGrown
    /\ LoadedTogether
=============================================================================
