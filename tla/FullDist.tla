------------------------------- MODULE FullDist -------------------------------
(***************************************************************************)
(* A fully stored level, distributed over ranks and NUMA domains:          *)
(* FullDist (grid/level/fulldist.h) with NumaFull (transfer/numafull.h)    *)
(* and either MPIWinFull (transfer/mpiwinfull.h) or MPIThreadFull          *)
(* (transfer/mpithreadfull.h), from the moment the memory for its blocks   *)
(* is there until the communication threads (mpi/commthread.h) stop.       *)
(*                                                                         *)
(* Every domain loads its part of the blocks once, and stores it for good. *)
(* A thread reads its own domain's blocks where they are, copies blocks of *)
(* other domains of its rank into its cache, and fetches those of other    *)
(* ranks from a window or asks their communication thread.                 *)
(***************************************************************************)
EXTENDS Layout

CONSTANTS
    Setup,          \* bound: the files, transports and tags to choose from
    Position,       \* bound: the positions to read
    Sample,         \* bound: the coordinates that the range is checked for
    Thread,         \* the threads of all ranks that call getAt
    HomeOf,         \* the rank of a thread
    DomainOf,       \* its domain
    CacheSize,      \* the number of slots
    OpenBarrier,    \* do the ranks wait for each other after opening the grid
    NoThread        \* the holder of a free mutex

ExitTag == 32767                \* EXIT_TAG
UnregTag == 32766               \* UNREG_TAG

(* Every rank has a tag left; the code takes it for granted.               *)
ASSUME FullDistAssumption ==
    /\ HomeOf \in [Thread -> Rank]
    /\ DomainOf \in [Thread -> Domain]
    /\ CacheSize \in Nat \ {0}
    /\ OpenBarrier \in BOOLEAN
    /\ NoThread \notin Thread
    /\ \A s \in Setup :
          /\ s.file.roundRobin \in BOOLEAN
          /\ s.byWindow \in BOOLEAN
          /\ s.started \in [Rank -> BOOLEAN]
          /\ s.nextTag \in [Rank -> 0 .. UnregTag - 1]

(* A cell of the file is a multiple of the smallest fraction that is told  *)
(* apart, and a file that has coordinates has those of both ends.          *)
ASSUME FileAssumption ==
    /\ Position \subseteq Seq(Int) /\ Sample \subseteq Int
    /\ \A s \in Setup :
          /\ s.file.size \in Seq(Nat \ {0})
          /\ s.file.wanted \in Seq(Int) /\ Len(s.file.wanted) = Len(s.file.size)
          /\ s.file.cellCentered \in BOOLEAN
          /\ \A i \in DOMAIN s.file.size :
                /\ s.file.coords[i] \in {<<>>} \cup (Int \X Int)
                /\ s.file.size[i] # 1 =>
                      /\ GetScaling(s.file, i) # Infinity
                      /\ GetScaling(s.file, i) % Fine = 0

Slot == 0 .. CacheSize - 1

Absent == -1

VARIABLES
    grid,           \* size, blocks and distribution of the level
    byWindow,       \* is the transport MPIWinFull or MPIThreadFull
    started,        \* has a rank a communication thread
    memory,         \* m_data of a rank: the blocks of all its domains
    loaded,         \* the domains of a rank that have loaded their blocks
    stored,         \* the directory of every cache: which block is in a slot
    cacheMutex,     \* who holds m_cacheMutex
    blockMutex,     \* who holds m_blockMutexes
    data,           \* the values in a slot
    sendRecvMutex,  \* who holds m_sendRecvMutex of a rank
    requests,       \* messages from one rank to the communication thread of another
    replies,        \* blocks sent by a rank to another
    stage,          \* what a rank is doing to the grid
    nextTag,        \* m_nextTag
    tag,            \* m_tag
    receivers,      \* the tags in m_receiver
    lock,           \* is m_lock of CommThread held
    dropped,        \* has a message reached no receiver
    pc,             \* where in getAt a thread is
    position,       \* the position a thread asks for
    index,          \* its index in the file
    slot,           \* cacheOffset
    old             \* oldGlobalBlockId

choice == <<grid, byWindow, started>>
setup == <<choice, memory, loaded>>
manager == <<stored, cacheMutex, blockMutex>>
network == <<requests, replies, dropped>>
receiver == <<nextTag, tag, receivers, lock>>
locals == <<position, index, slot, old>>
vars == <<grid, byWindow, started, memory, loaded, stored, cacheMutex, blockMutex, data, sendRecvMutex,
          requests, replies, stage, nextTag, tag, receivers, lock, dropped,
          pc, position, index, slot, old>>

PC == {"idle", "own", "get", "lock", "numa", "window", "ask", "reply", "read"}

(* The first domain of a rank registers for all of them, and the rank has  *)
(* opened the grid once the others have met it in the broadcasts after.    *)
Opening == {"new", "failed", "joined", "reduced", "registered"}

Stage == Opening \cup {"open", "closing", "unregister", "closed", "exit", "stopped"}

Count == grid.count

RankOf(b) == BlockRank(Count, grid.roundRobin, b)
BlockDomainOf(b) == BlockDomain(Count, grid.roundRobin, b)

(* Full::open: the blocks loaded by a domain, at their offsets on the      *)
(* rank; the last ranks and domains store fewer.                           *)
NotLoaded(g) == [k \in 0 .. g.totalBlockSize - 1 |-> Unset]

Content(g, b) == IF b < g.count THEN Loaded(g, b) ELSE NotLoaded(g)

MemoryOf(g) ==
    [r \in Rank |-> [o \in 0 .. NodeCount(g.count) - 1 |->
        Content(g, Local2Global(g.count, g.roundRobin, r,
                        o \div LocalCount(g.count), o % LocalCount(g.count)))]]

Init ==
    /\ \E s \in Setup :
          /\ grid = Opened(s.file)
          /\ byWindow = s.byWindow
          /\ started = s.started
          /\ memory = [r \in Rank |-> [o \in 0 .. NodeCount(Opened(s.file).count) - 1 |->
                         NotLoaded(Opened(s.file))]]
          /\ nextTag = s.nextTag
          /\ receivers = [r \in Rank |-> 0 .. s.nextTag[r] - 1]
    /\ loaded = [r \in Rank |-> {}]
    /\ stored = [r \in Rank |-> [d \in Domain |-> [s \in Slot |-> Absent]]]
    /\ cacheMutex = [r \in Rank |-> [d \in Domain |-> NoThread]]
    /\ blockMutex = [r \in Rank |-> [d \in Domain |-> [s \in Slot |-> NoThread]]]
    /\ data = [r \in Rank |-> [d \in Domain |-> [s \in Slot |-> <<>>]]]
    /\ sendRecvMutex = [r \in Rank |-> NoThread]
    /\ requests = [r \in Rank |-> [q \in Rank |-> <<>>]]
    /\ replies = [r \in Rank |-> [q \in Rank |-> <<>>]]
    /\ stage = [r \in Rank |-> "new"]
    /\ tag = [r \in Rank |-> -1]
    /\ lock = [r \in Rank |-> FALSE]
    /\ dropped = FALSE
    /\ pc = [t \in Thread |-> "idle"]
    /\ position = [t \in Thread |-> <<>>]
    /\ index = [t \in Thread |-> <<>>]
    /\ slot = [t \in Thread |-> 0]
    /\ old = [t \in Thread |-> Absent]

Goto(t, label) == pc' = [pc EXCEPT ![t] = label]
Enter(r, s) == stage' = [stage EXCEPT ![r] = s]

Send(from, to, message) ==
    requests' = [requests EXCEPT ![from][to] = Append(@, message)]

-----------------------------------------------------------------------------
(* Full::open: a domain loads its blocks, whatever the others do.          *)
LoadBlocks(r, d) ==
    /\ d \notin loaded[r]
    /\ memory' = [memory EXCEPT ![r] = [o \in 0 .. NodeCount(Count) - 1 |->
                     IF o \div LocalCount(Count) = d THEN MemoryOf(grid)[r][o] ELSE memory[r][o]]]
    /\ loaded' = [loaded EXCEPT ![r] = @ \cup {d}]
    /\ UNCHANGED <<choice, manager, data, sendRecvMutex, network, stage, receiver, pc, locals>>

(* registerReceiver: without a communication thread the first domain gives *)
(* up, and nobody meets the other domains and ranks where they wait.       *)
NotInitialized(r) ==
    /\ stage[r] = "new" /\ 0 \in loaded[r]
    /\ ~byWindow /\ ~started[r]
    /\ ~lock[r]
    /\ Enter(r, "failed")
    /\ UNCHANGED <<setup, manager, data, sendRecvMutex, network, receiver, pc, locals>>

(* All ranks of the grid meet in a reduction ...                           *)
JoinReduction(r) ==
    /\ stage[r] = "new" /\ 0 \in loaded[r]
    /\ byWindow \/ started[r]
    /\ ~lock[r]
    /\ lock' = [lock EXCEPT ![r] = TRUE]
    /\ Enter(r, "joined")
    /\ UNCHANGED <<setup, manager, data, sendRecvMutex, network, nextTag, tag, receivers, pc, locals>>

(* Faulty variant: every rank takes its own next tag.                      *)
TagHere(r) == nextTag[r]

(* ... of their next tags, each of which a rank changes afterwards.        *)
CommonTag(r) == Max({ IF tag[q] >= 0 THEN tag[q] ELSE nextTag[q] : q \in Rank })

Reduce(r) ==
    /\ stage[r] = "joined"
    /\ \A q \in Rank : stage[q] \notin {"new", "failed"}
    /\ tag' = [tag EXCEPT ![r] = CommonTag(r)]
    /\ nextTag' = [nextTag EXCEPT ![r] = CommonTag(r) + 1]
    /\ Enter(r, "reduced")
    /\ UNCHANGED <<setup, manager, data, sendRecvMutex, network, receivers, lock, pc, locals>>

Register(r) ==
    /\ stage[r] = "reduced"
    /\ receivers' = [receivers EXCEPT ![r] = @ \cup {tag[r]}]
    /\ lock' = [lock EXCEPT ![r] = FALSE]
    /\ Enter(r, "registered")
    /\ UNCHANGED <<setup, manager, data, sendRecvMutex, network, nextTag, tag, pc, locals>>

(* Faulty variant: the first domain does not wait for the others.          *)
EndOpenAlone(r) ==
    /\ stage[r] = "registered"
    /\ Enter(r, "open")
    /\ UNCHANGED <<setup, manager, data, sendRecvMutex, network, receiver, pc, locals>>

(* The broadcast of m_tag, or of the window: all domains of a rank meet.   *)
EndOpen(r) ==
    /\ stage[r] = "registered"
    /\ loaded[r] = Domain
    /\ Enter(r, "open")
    /\ UNCHANGED <<setup, manager, data, sendRecvMutex, network, receiver, pc, locals>>

(* open() itself does not wait for the other ranks.                        *)
MayRead(r) ==
    /\ stage[r] = "open"
    /\ OpenBarrier => \A q \in Rank : stage[q] \notin Opening

-----------------------------------------------------------------------------
WantedBlock(t) == BlockByCoords(grid, index[t])

(* getAt finds the block of a position.                                    *)
Call(t, pos) ==
    /\ pc[t] = "idle"
    /\ MayRead(HomeOf[t])
    /\ Len(pos) = Len(grid.size)
    /\ position' = [position EXCEPT ![t] = pos]
    /\ index' = [index EXCEPT ![t] = Pos2Index(grid, pos)]
    /\ LET b == BlockByCoords(grid, Pos2Index(grid, pos))
       IN  Goto(t, IF RankOf(b) = HomeOf[t] /\ BlockDomainOf(b) = DomainOf[t]
                   THEN "own" ELSE "get")
    /\ UNCHANGED <<setup, manager, data, sendRecvMutex, network, stage, receiver, slot, old>>

(* Full::getAt has a pointer to the domain's part of the memory.           *)
OwnPlace(t) ==
    LocalCount(Count) * DomainOf[t] + BlockOffset(Count, grid.roundRobin, WantedBlock(t))

ReturnOwn(t) ==
    /\ pc[t] = "own"
    /\ Goto(t, "idle")
    /\ position' = [position EXCEPT ![t] = <<>>]
    /\ index' = [index EXCEPT ![t] = <<>>]
    /\ UNCHANGED <<setup, manager, data, sendRecvMutex, network, stage, receiver, slot, old>>

(* CacheManager::get up to the wait for the slot.                          *)
SlotsOf(t, b) == { s \in Slot : stored[HomeOf[t]][DomainOf[t]][s] = b }

Get(t, s) ==
    LET r == HomeOf[t] d == DomainOf[t] IN
    /\ cacheMutex[r][d] = NoThread
    /\ cacheMutex' = [cacheMutex EXCEPT ![r][d] = t]
    /\ stored' = [stored EXCEPT ![r][d][s] = WantedBlock(t)]
    /\ slot' = [slot EXCEPT ![t] = s]
    /\ old' = [old EXCEPT ![t] = stored[r][d][s]]
    /\ Goto(t, "lock")
    /\ UNCHANGED <<setup, blockMutex, data, sendRecvMutex, network, stage, receiver, position, index>>

GetHit(t) ==
    /\ pc[t] = "get"
    /\ \E s \in SlotsOf(t, WantedBlock(t)) : Get(t, s)

GetMiss(t) ==
    /\ pc[t] = "get"
    /\ SlotsOf(t, WantedBlock(t)) = {}
    /\ \E s \in Slot : (SlotsOf(t, Absent) # {} => s \in SlotsOf(t, Absent)) /\ Get(t, s)

(* The rest of CacheManager::get; what is missing is copied from another   *)
(* domain or fetched from another rank.                                    *)
LockSlot(t) ==
    LET r == HomeOf[t] d == DomainOf[t] IN
    /\ pc[t] = "lock"
    /\ blockMutex[r][d][slot[t]] = NoThread
    /\ blockMutex' = [blockMutex EXCEPT ![r][d][slot[t]] = t]
    /\ cacheMutex' = [cacheMutex EXCEPT ![r][d] = NoThread]
    /\ Goto(t, CASE old[t] = WantedBlock(t) -> "read"
                 [] old[t] # WantedBlock(t) /\ RankOf(WantedBlock(t)) = r -> "numa"
                 [] OTHER -> IF byWindow THEN "window" ELSE "ask")
    /\ UNCHANGED <<setup, stored, data, sendRecvMutex, network, stage, receiver, locals>>

Fill(t, block) == data' = [data EXCEPT ![HomeOf[t]][DomainOf[t]][slot[t]] = block]

(* NumaFull::transfer: m_data points to the start of the rank's memory.    *)
CopyNuma(t) ==
    LET b == WantedBlock(t)
        place == LocalCount(Count) * BlockDomainOf(b)
                    + BlockOffset(Count, grid.roundRobin, b) IN
    /\ pc[t] = "numa"
    /\ Fill(t, memory[HomeOf[t]][place])
    /\ Goto(t, "read")
    /\ UNCHANGED <<setup, manager, sendRecvMutex, network, stage, receiver, locals>>

(* Faulty variant: the offset in the domain is used for the whole rank.    *)
PlaceInDomain(b) == BlockOffset(Count, grid.roundRobin, b)

PlaceOf(b) == BlockNodeOffset(Count, grid.roundRobin, b)

(* MPIWinFull::transfer                                                    *)
GetWindow(t) ==
    /\ pc[t] = "window"
    /\ Fill(t, memory[RankOf(WantedBlock(t))][PlaceOf(WantedBlock(t))])
    /\ Goto(t, "read")
    /\ UNCHANGED <<setup, manager, sendRecvMutex, network, stage, receiver, locals>>

(* Faulty variant: m_sendRecvMutex is not used.                            *)
AskUnlocked(t) ==
    LET b == WantedBlock(t) IN
    /\ pc[t] = "ask"
    /\ Send(HomeOf[t], RankOf(b), [tag |-> tag[HomeOf[t]], offset |-> PlaceOf(b)])
    /\ Goto(t, "reply")
    /\ UNCHANGED <<setup, manager, data, sendRecvMutex, replies, dropped, stage, receiver, locals>>

(* MPIThreadFull::transfer                                                 *)
Ask(t) ==
    LET b == WantedBlock(t) IN
    /\ pc[t] = "ask"
    /\ sendRecvMutex[HomeOf[t]] = NoThread
    /\ sendRecvMutex' = [sendRecvMutex EXCEPT ![HomeOf[t]] = t]
    /\ Send(HomeOf[t], RankOf(b), [tag |-> tag[HomeOf[t]], offset |-> PlaceOf(b)])
    /\ Goto(t, "reply")
    /\ UNCHANGED <<setup, manager, data, replies, dropped, stage, receiver, locals>>

ReceiveBlock(t) ==
    LET r == HomeOf[t] q == RankOf(WantedBlock(t)) IN
    /\ pc[t] = "reply"
    /\ replies[q][r] # <<>>
    /\ Fill(t, Head(replies[q][r]))
    /\ replies' = [replies EXCEPT ![q][r] = Tail(@)]
    /\ sendRecvMutex' = [sendRecvMutex EXCEPT ![r] = NoThread]
    /\ Goto(t, "read")
    /\ UNCHANGED <<setup, manager, requests, dropped, stage, receiver, locals>>

Return(t) ==
    /\ pc[t] = "read"
    /\ blockMutex' = [blockMutex EXCEPT ![HomeOf[t]][DomainOf[t]][slot[t]] = NoThread]
    /\ Goto(t, "idle")
    /\ position' = [position EXCEPT ![t] = <<>>]
    /\ index' = [index EXCEPT ![t] = <<>>]
    /\ slot' = [slot EXCEPT ![t] = 0]
    /\ old' = [old EXCEPT ![t] = Absent]
    /\ UNCHANGED <<setup, stored, cacheMutex, data, sendRecvMutex, network, stage, receiver>>

-----------------------------------------------------------------------------
(* The threads of a rank close the grid: its destructor waits for all      *)
(* ranks, then unregisters the receiver, with a message to the rank's own  *)
(* communication thread, which gives the lock back.                        *)
Close(r) ==
    /\ stage[r] = "open"
    /\ MayRead(r)
    /\ \A t \in Thread : HomeOf[t] = r => pc[t] = "idle"
    /\ Enter(r, "closing")
    /\ UNCHANGED <<setup, manager, data, sendRecvMutex, network, receiver, pc, locals>>

(* Faulty variant: the destructor does not wait.                           *)
AllCloseAtOnce == TRUE

AllClose == \A q \in Rank : stage[q] \in {"closing", "unregister", "closed", "exit", "stopped"}

UnregisterReceiver(r) ==
    /\ stage[r] = "closing"
    /\ AllClose
    /\ ~lock[r]
    /\ lock' = [lock EXCEPT ![r] = TRUE]
    /\ Send(r, r, [tag |-> UnregTag, offset |-> tag[r]])
    /\ Enter(r, "unregister")
    /\ UNCHANGED <<setup, manager, data, sendRecvMutex, replies, dropped, nextTag, tag, receivers, pc, locals>>

(* finialize: the communication thread is told to stop.                    *)
Finalize(r) ==
    /\ stage[r] = "closed"
    /\ ~lock[r]
    /\ lock' = [lock EXCEPT ![r] = TRUE]
    /\ Send(r, r, [tag |-> ExitTag, offset |-> 0])
    /\ Enter(r, "exit")
    /\ UNCHANGED <<setup, manager, data, sendRecvMutex, replies, dropped, nextTag, tag, receivers, pc, locals>>

-----------------------------------------------------------------------------
(* commThreadHandler: the communication thread of rank r takes the next    *)
(* message of rank q.                                                      *)
Receive(r, q, tags) ==
    /\ stage[r] # "stopped"
    /\ requests[q][r] # <<>>
    /\ Head(requests[q][r]).tag \in tags
    /\ requests' = [requests EXCEPT ![q][r] = Tail(@)]

(* MPIThreadFull::recv.  A message with another tag reaches another grid's *)
(* receiver or none.                                                       *)
ServeBlock(r, q) ==
    LET m == Head(requests[q][r])
        known == m.tag = tag[r] /\ tag[r] \in receivers[r] IN
    /\ Receive(r, q, Nat \ {UnregTag, ExitTag})
    /\ replies' = IF known
                  THEN [replies EXCEPT ![r][q] = Append(@, memory[r][m.offset])]
                  ELSE replies
    /\ dropped' = (dropped \/ ~known)
    /\ UNCHANGED <<setup, manager, data, sendRecvMutex, stage, receiver, pc, locals>>

(* Faulty variant: the lock is not given back.                             *)
ServeUnregisterLocked(r) ==
    /\ Receive(r, r, {UnregTag})
    /\ receivers' = [receivers EXCEPT ![r] = @ \ {Head(requests[r][r]).offset}]
    /\ Enter(r, "closed")
    /\ UNCHANGED <<setup, manager, data, sendRecvMutex, replies, dropped, nextTag, tag, lock, pc, locals>>

ServeUnregister(r) ==
    /\ Receive(r, r, {UnregTag})
    /\ receivers' = [receivers EXCEPT ![r] = @ \ {Head(requests[r][r]).offset}]
    /\ lock' = [lock EXCEPT ![r] = FALSE]
    /\ Enter(r, "closed")
    /\ UNCHANGED <<setup, manager, data, sendRecvMutex, replies, dropped, nextTag, tag, pc, locals>>

ServeExit(r) ==
    /\ Receive(r, r, {ExitTag})
    /\ nextTag' = [nextTag EXCEPT ![r] = 0]
    /\ receivers' = [receivers EXCEPT ![r] = {}]
    /\ lock' = [lock EXCEPT ![r] = FALSE]
    /\ Enter(r, "stopped")
    /\ UNCHANGED <<setup, manager, data, sendRecvMutex, replies, dropped, tag, pc, locals>>

-----------------------------------------------------------------------------
Continue(t) ==
    \/ ReturnOwn(t)
    \/ GetHit(t) \/ GetMiss(t) \/ LockSlot(t)
    \/ CopyNuma(t) \/ GetWindow(t) \/ Ask(t) \/ ReceiveBlock(t)
    \/ Return(t)

(* What a rank does on its own once it has begun to open or close.         *)
Proceed(r) ==
    Reduce(r) \/ Register(r) \/ EndOpen(r) \/ UnregisterReceiver(r) \/ Finalize(r)

Communicate(r) ==
    ServeUnregister(r) \/ ServeExit(r) \/ \E q \in Rank : ServeBlock(r, q)

Next ==
    \/ \E t \in Thread : Continue(t) \/ \E pos \in Position : Call(t, pos)
    \/ \E r \in Rank :
          \/ \E d \in Domain : LoadBlocks(r, d)
          \/ NotInitialized(r) \/ JoinReduction(r)
          \/ Proceed(r) \/ Close(r) \/ Communicate(r)

Spec == Init /\ [][Next]_vars

(* Threads inside getAt and those that open or close the grid are          *)
(* scheduled, and the communication threads overlook no message for ever.  *)
Fairness ==
    /\ \A t \in Thread : WF_vars(Continue(t))
    /\ \A r \in Rank :
          /\ WF_vars(Proceed(r))
          /\ WF_vars(ServeUnregister(r) \/ ServeExit(r))
          /\ \A q \in Rank : WF_vars(ServeBlock(r, q))

FairSpec == Spec /\ Fairness

-----------------------------------------------------------------------------
AnyIndex == UNION { Index(s.file) : s \in Setup }

Values == [0 .. grid.totalBlockSize - 1 -> AnyIndex \cup {Unset}]

ControlOK ==
    /\ grid \in { Opened(s.file) : s \in Setup } /\ byWindow \in BOOLEAN
    /\ started \in [Rank -> BOOLEAN] /\ loaded \in [Rank -> SUBSET Domain]
    /\ cacheMutex \in [Rank -> [Domain -> Thread \cup {NoThread}]]
    /\ blockMutex \in [Rank -> [Domain -> [Slot -> Thread \cup {NoThread}]]]
    /\ sendRecvMutex \in [Rank -> Thread \cup {NoThread}]
    /\ stage \in [Rank -> Stage]
    /\ nextTag \in [Rank -> Nat] /\ tag \in [Rank -> Nat \cup {-1}]
    /\ receivers \in [Rank -> SUBSET Nat]
    /\ lock \in [Rank -> BOOLEAN] /\ dropped \in BOOLEAN
    /\ pc \in [Thread -> PC]
    /\ position \in [Thread -> Position \cup {<<>>}]
    /\ slot \in [Thread -> Slot]
    /\ DOMAIN index = Thread /\ DOMAIN memory = Rank
    /\ \A m \in {requests, replies} : DOMAIN m = Rank /\ \A q \in Rank : DOMAIN m[q] = Rank

TypeOK ==
    /\ ControlOK
    /\ \A r \in Rank : \A o \in 0 .. NodeCount(Count) - 1 : memory[r][o] \in Values
    /\ stored \in [Rank -> [Domain -> [Slot -> 0 .. Count - 1 \cup {Absent}]]]
    /\ data \in [Rank -> [Domain -> [Slot -> Values \cup {<<>>}]]]
    /\ requests \in [Rank -> [Rank -> Seq([tag : Nat, offset : Nat])]]
    /\ replies \in [Rank -> [Rank -> Seq(Values)]]
    /\ index \in [Thread -> AnyIndex \cup {<<>>}]
    /\ old \in [Thread -> 0 .. Count - 1 \cup {Absent}]

(* What the file says of the place of a value, in dimension i of the file: *)
(* its coordinate, or its number where there are no coordinates.           *)
Coordinate(i, k) ==
    CASE grid.level.coords[i] = <<>> -> Fine * k
      [] grid.level.coords[i] # <<>> /\ grid.size[i] = 1 -> grid.level.coords[i][1]
      [] OTHER -> grid.level.coords[i][1]
                    + k * ((grid.level.coords[i][2] - grid.level.coords[i][1]) \div (grid.size[i] - 1))

Nearest(pos, value) ==
    /\ value \in Index(grid)
    /\ \A i \in DOMAIN value : \A k \in 0 .. grid.size[i] - 1 :
          LET p == pos[Len(pos) - i + 1]
          IN  Abs(p - Coordinate(i, value[i])) <= Abs(p - Coordinate(i, k))

(* The value handed to the caller is one of those the file has next to the *)
(* position asked for, although the position was scaled, rounded and       *)
(* turned around, and the block was cut out, spread, stored, found and     *)
(* moved by numbers that different functions compute.                      *)
ReadsRequestedValue ==
    \A t \in Thread :
        LET cell == CalcOffsetInBlock(grid, index[t]) IN
        /\ pc[t] = "own" => Nearest(position[t], memory[HomeOf[t]][OwnPlace(t)][cell])
        /\ pc[t] = "read" => Nearest(position[t], data[HomeOf[t]][DomainOf[t]][slot[t]][cell])

(* The range that min and max promise the application is one where getAt   *)
(* finds no position out of range, whatever the direction of the           *)
(* coordinates and wherever the values are in their cells.                 *)
RangeIsRead ==
    \A n \in 0 .. Len(grid.size) - 1 :
        LET i == Len(grid.size) - n IN
        \A p \in { q \in Sample : GetMin(grid, n) <= q /\ q <= GetMax(grid, n) } :
            ~OutOfRange(Cells(p - grid.level.offset[i], grid.level.perCell[i]), grid.size[i])

(* An answer does not say which thread or block it is for, and all threads *)
(* of all domains of a rank receive with the same tag.  Still it meets the *)
(* thread that asked, and is what it asked for unless the blocks were      *)
(* still being loaded.                                                     *)
RepliesFindTheirThread ==
    \A q, r \in Rank : replies[q][r] # <<>> =>
        \E t \in Thread :
            /\ pc[t] = "reply" /\ HomeOf[t] = r
            /\ replies[q][r] = <<Head(replies[q][r])>>
            /\ OpenBarrier => Head(replies[q][r]) = memory[q][PlaceOf(WantedBlock(t))]
            /\ RankOf(WantedBlock(t)) = q
            /\ \A u \in Thread : pc[u] = "reply" /\ HomeOf[u] = r => u = t

(* As the comment in unregisterReceiver demands, every message reaches the *)
(* receiver it is for: the ranks agree on a tag that is free on all of     *)
(* them, no receiver leaves and no communication thread stops before the   *)
(* last question.                                                          *)
NothingDropped ==
    /\ ~dropped
    /\ \A q, r \in Rank : stage[r] = "stopped" => requests[q][r] = <<>>

(* Every question is answered.                                             *)
QuestionsAnswered == \A t \in Thread : pc[t] = "reply" ~> pc[t] # "reply"

(* The lock that one thread takes and another gives back is always given   *)
(* back: once all ranks close the grid, all communication threads stop.    *)
ClosingEnds == AllClose ~> \A r \in Rank : stage[r] = "stopped"

-----------------------------------------------------------------------------
(* The inductive invariant.  What Layout computes of a grid is what a      *)
(* level needs: every index of the grid has a block and a place in it,     *)
(* where loading the block puts the value of this index.                   *)
BlocksRight(g) ==
    /\ g.count \in Nat \ {0}
    /\ \A b \in 0 .. g.count - 1 :
          Loaded(g, b) \in [0 .. g.totalBlockSize - 1 -> Index(g) \cup {Unset}]
    /\ \A i \in [DOMAIN g.size -> UNION { 0 .. g.size[n] - 1 : n \in DOMAIN g.size }] :
          (\A n \in DOMAIN i : i[n] < g.size[n]) =>
              /\ i \in Index(g)
              /\ BlockByCoords(g, i) \in 0 .. g.count - 1
              /\ Loaded(g, BlockByCoords(g, i))[CalcOffsetInBlock(g, i)] = i

(* A thread holds the mutex of its cache while it waits for a slot, that   *)
(* of the slot until it returns, and its rank's while it waits for an      *)
(* answer.                                                                 *)
SlotPC == {"numa", "window", "ask", "reply", "read"}

Uses(t, r, d, s) == HomeOf[t] = r /\ DomainOf[t] = d /\ slot[t] = s
Has(t, r, d, s) == pc[t] \in SlotPC /\ Uses(t, r, d, s)

MutexesHeld ==
    /\ \A t \in Thread, r \in Rank, d \in Domain :
          cacheMutex[r][d] = t <=> pc[t] = "lock" /\ HomeOf[t] = r /\ DomainOf[t] = d
    /\ \A t \in Thread, r \in Rank, d \in Domain, s \in Slot :
          blockMutex[r][d][s] = t <=> Has(t, r, d, s)
    /\ \A t \in Thread, r \in Rank :
          sendRecvMutex[r] = t <=> pc[t] = "reply" /\ HomeOf[t] = r

(* A rank has loaded its own blocks when it has opened the grid, threads   *)
(* read while it has the grid open, and no receiver leaves before all      *)
(* ranks close it.                                                         *)
StagesFollow ==
    /\ \A r \in Rank : stage[r] \notin Opening => loaded[r] = Domain
    /\ \A t \in Thread : pc[t] # "idle" => MayRead(HomeOf[t])
    /\ \A r \in Rank : stage[r] \in {"unregister", "closed", "exit", "stopped"} => AllClose

(* The first rank that leaves the reduction has the tag of all others.     *)
TagsAgree ==
    \A r \in Rank :
        /\ tag[r] = -1 <=> stage[r] \in {"new", "failed", "joined"}
        /\ tag[r] = -1 => nextTag[r] < UnregTag
        /\ tag[r] # -1 =>
              /\ tag[r] < UnregTag
              /\ \A q \in Rank : IF tag[q] = -1 THEN nextTag[q] <= tag[r] ELSE tag[q] = tag[r]
        /\ stage[r] \in {"registered", "open", "closing", "unregister"} => tag[r] \in receivers[r]

(* A rank has one question or one answer under way, of the thread that     *)
(* waits; or it has told its own communication thread to do something.     *)
Asks(t, q, r) == pc[t] = "reply" /\ HomeOf[t] = q /\ RankOf(WantedBlock(t)) = r

QuestionOf(t) == [tag |-> tag[HomeOf[t]], offset |-> PlaceOf(WantedBlock(t))]
UnregisterOf(r) == [tag |-> UnregTag, offset |-> tag[r]]
ExitOf(r) == [tag |-> ExitTag, offset |-> 0]

Asked(q, r, t) ==
    Asks(t, q, r) /\ requests[q][r] = <<QuestionOf(t)>> /\ replies[r][q] = <<>>

Answered(q, r, t) ==
    /\ Asks(t, r, q)
    /\ replies[q][r] = <<Head(replies[q][r])>>
    /\ OpenBarrier => Head(replies[q][r]) = memory[q][PlaceOf(WantedBlock(t))]

RequestsAsked ==
    \A q, r \in Rank :
        \/ requests[q][r] = <<>>
        \/ \E t \in Thread : Asked(q, r, t)
        \/ q = r /\ stage[r] = "unregister" /\ requests[q][r] = <<UnregisterOf(r)>>
        \/ q = r /\ stage[r] = "exit" /\ requests[q][r] = <<ExitOf(r)>>

RepliesAsked ==
    \A q, r \in Rank : replies[q][r] = <<>> \/ \E t \in Thread : Answered(q, r, t)

Protocol ==
    /\ ControlOK /\ MutexesHeld /\ StagesFollow /\ TagsAgree
    /\ RequestsAsked /\ RepliesAsked

(* What a thread looks for, and where.                                     *)
PositionsAsked ==
    \A t \in Thread : pc[t] # "idle" =>
        /\ position[t] \in Position /\ Len(position[t]) = Len(grid.size)
        /\ index[t] = Pos2Index(grid, position[t])
        /\ pc[t] \in {"own", "numa"} => RankOf(WantedBlock(t)) = HomeOf[t]
        /\ pc[t] = "own" => BlockDomainOf(WantedBlock(t)) = DomainOf[t]

(* The directory names the next content of a slot: of a thread that waits  *)
(* for it, or else of one that has it.                                     *)
WaitsFor(t, r, d, s) == pc[t] = "lock" /\ Uses(t, r, d, s)

SlotsListed ==
    \A r \in Rank, d \in Domain, s \in Slot :
        /\ \A u \in Thread : WaitsFor(u, r, d, s) => stored[r][d][s] = WantedBlock(u)
        /\ \A t \in Thread : Has(t, r, d, s) =>
              /\ \A u \in Thread : WaitsFor(u, r, d, s) => old[u] = WantedBlock(t)
              /\ (\A u \in Thread : ~WaitsFor(u, r, d, s)) => stored[r][d][s] = WantedBlock(t)

(* A domain has loaded all of its blocks or none.                          *)
BlocksLoaded ==
    \A r \in Rank : \A o \in 0 .. NodeCount(Count) - 1 :
        memory[r][o] = IF o \div LocalCount(Count) \in loaded[r]
                       THEN MemoryOf(grid)[r][o] ELSE NotLoaded(grid)

(* A slot that is not being filled contains what the directory says, or    *)
(* said before the thread came that waits for it.                          *)
Filled(r, d, s, b) == b # Absent => data[r][d][s] = Loaded(grid, b)

SlotsLoaded ==
    \A r \in Rank, d \in Domain, s \in Slot :
        (\A t \in Thread : Has(t, r, d, s) => pc[t] = "read") =>
            /\ \A u \in Thread : WaitsFor(u, r, d, s) => Filled(r, d, s, old[u])
            /\ (\A u \in Thread : ~WaitsFor(u, r, d, s)) => Filled(r, d, s, stored[r][d][s])

Inv ==
    /\ TypeOK
    /\ (\A r \in Rank : stage[r] = "new") => BlocksRight(grid)
    /\ Protocol
    /\ BlocksLoaded
    /\ PositionsAsked
    /\ SlotsListed
    /\ SlotsLoaded
=============================================================================
