---------------------------- MODULE CacheDistThread ----------------------------
(***************************************************************************)
(* A cached grid level distributed with communication threads:             *)
(* CacheDist::getAt (grid/level/cachedist.h) with MPIThreadCache           *)
(* (transfer/mpithreadcache.h) and one cache per rank.  A thread asks the  *)
(* communication thread of the rank that keeps the dictionary entry where  *)
(* its block is, asks the communication thread of that rank for the block, *)
(* and asks again from the start when the block could not be sent.  The    *)
(* dictionary is told afterwards that the thread has the block; nothing is *)
(* locked meanwhile, and adding and deleting places is not answered.       *)
(***************************************************************************)
EXTENDS Integers, Sequences

CONSTANTS
    NumRanks,       \* size of the communicator
    DictSize,       \* m_dictEntrySize
    Setup,          \* bound: the cache sizes and applications to choose from
    Block,          \* the global block ids
    Thread,         \* the threads of all ranks that call getAt
    HomeOf,         \* the rank of a thread
    DictRankOf,     \* blockRank(): the rank that keeps a block's entry
    TagOffset,      \* m_tagOffset: 0 for the first level of a grid
    MaxQueue,       \* messages MPI buffers between two ranks before MPI_Send blocks
    Anything,       \* the program of threads that ask for any block, for ever
    Absent,         \* no block
    Torn,           \* content of a slot that is being written
    CommThread,     \* the communication thread, as the holder of a mutex
    NoThread        \* the holder of a free mutex

VARIABLES
    cacheSize,      \* rankCacheSize(): the slots of one rank
    program,        \* the blocks a thread still asks for, or Anything
    stored,         \* the directory of every rank: which block is in a slot
    cacheMutex,     \* who holds m_cacheMutex of a rank
    blockMutex,     \* who holds m_blockMutexes of a rank
    data,           \* which block's values are in a slot
    dictionary,     \* the dictionary entry of every block
    infoMutex,      \* who holds m_infoMutex of a rank
    transferMutex,  \* who holds m_blockMutex (of MPIThreadCache) of a rank
    requests,       \* the messages from one rank to the communication thread of another
    replies,        \* the messages a communication thread has sent to a rank
    sending,        \* the slot a communication thread sends, Unused if none
    pc,             \* where in getAt a thread is
    want,           \* globalBlockId
    slot,           \* cacheOffset
    old,            \* oldGlobalBlockId
    source          \* entry, the place to ask for the block

INSTANCE MPICacheDict WITH CacheSize <- cacheSize

ASSUME CacheDistThreadAssumption ==
    /\ NumRanks \in Nat \ {0} /\ DictSize \in Nat \ {0}
    /\ HomeOf \in [Thread -> Rank]
    /\ DictRankOf \in [Block -> Rank]
    /\ TagOffset \in Nat
    /\ MaxQueue \in Nat \ {0}
    /\ Absent \notin Block
    /\ Torn \notin Block \cup {Absent}
    /\ CommThread \notin Thread
    /\ NoThread \notin Thread \cup {CommThread}
    /\ \A s \in Setup :
          /\ s.cacheSize \in Nat \ {0}
          /\ s.program = Anything \/ s.program \in [Thread -> Seq(Block)]

application == <<cacheSize, program>>
manager == <<stored, cacheMutex, blockMutex>>
locals == <<want, slot, old>>
library == <<infoMutex, transferMutex>>
network == <<requests, replies, sending>>
vars == <<cacheSize, program, stored, cacheMutex, blockMutex, data, dictionary, infoMutex,
          transferMutex, requests, replies, sending, pc, want, slot, old, source>>

PC == {"idle", "get", "lock", "delete", "start", "entry", "ask", "reply",
       "load", "end", "read"}

EntryTag == 0                   \* ENTRY_TAG
TransferTag == 1                \* TRANSFER_TAG
TransferFailTag == 2            \* TRANSFER_FAIL_TAG

Request == [kind : {"info", "transfer"}, block : Block]
           \cup [kind : {"add", "delete"}, block : Block, place : Places]

Reply == [from : Rank, tag : TagOffset .. TagOffset + 2,
          value : Places \cup {Unused} \cup Block \cup {Absent, Torn}]

Init ==
    /\ \E s \in Setup : cacheSize = s.cacheSize /\ program = s.program
    /\ stored = [r \in Rank |-> [s \in Slots |-> Absent]]
    /\ cacheMutex = [r \in Rank |-> NoThread]
    /\ blockMutex = [r \in Rank |-> [s \in Slots |-> NoThread]]
    /\ data = [r \in Rank |-> [s \in Slots |-> Absent]]
    /\ dictionary = [b \in Block |-> EmptyEntry]
    /\ infoMutex = [r \in Rank |-> NoThread]
    /\ transferMutex = [r \in Rank |-> NoThread]
    /\ requests = [r \in Rank |-> [q \in Rank |-> <<>>]]
    /\ replies = [r \in Rank |-> {}]
    /\ sending = [r \in Rank |-> Unused]
    /\ pc = [t \in Thread |-> "idle"]
    /\ want = [t \in Thread |-> Absent]
    /\ slot = [t \in Thread |-> 0]
    /\ old = [t \in Thread |-> Absent]
    /\ source = [t \in Thread |-> Unused]

Goto(t, label) == pc' = [pc EXCEPT ![t] = label]

(* Faulty variant: the wrong stride.                                       *)
OwnPlaceBehind(t) == PlaceOf(HomeOf[t], slot[t] + 1)

OwnPlace(t) == PlaceOf(HomeOf[t], slot[t])

Fill(t, content) == data' = [data EXCEPT ![HomeOf[t]][slot[t]] = content]

(* CommThread::send.                                                       *)
Send(from, to, message) ==
    /\ Len(requests[from][to]) < MaxQueue
    /\ requests' = [requests EXCEPT ![from][to] = Append(@, message)]

-----------------------------------------------------------------------------
(* The application asks for a value in block b: any one again and again,   *)
(* or the next of its program.                                             *)
Call(t, b) ==
    /\ pc[t] = "idle"
    /\ \/ program = Anything /\ UNCHANGED program
       \/ /\ program # Anything
          /\ program[t] # <<>> /\ b = Head(program[t])
          /\ program' = [program EXCEPT ![t] = Tail(@)]
    /\ UNCHANGED cacheSize
    /\ want' = [want EXCEPT ![t] = b]
    /\ Goto(t, "get")
    /\ UNCHANGED <<manager, data, dictionary, library, network, slot, old, source>>

(* CacheManager::get up to the wait for the slot.                          *)
SlotsOf(r, b) == { s \in Slots : stored[r][s] = b }

Get(t, s) ==
    /\ pc[t] = "get"
    /\ cacheMutex[HomeOf[t]] = NoThread
    /\ cacheMutex' = [cacheMutex EXCEPT ![HomeOf[t]] = t]
    /\ stored' = [stored EXCEPT ![HomeOf[t]][s] = want[t]]
    /\ slot' = [slot EXCEPT ![t] = s]
    /\ old' = [old EXCEPT ![t] = stored[HomeOf[t]][s]]
    /\ Goto(t, "lock")
    /\ UNCHANGED <<application, blockMutex, data, dictionary, library, network, want, source>>

GetHit(t) == \E s \in SlotsOf(HomeOf[t], want[t]) : Get(t, s)

(* A block leaves only when every slot is taken.                           *)
GetMiss(t) ==
    /\ SlotsOf(HomeOf[t], want[t]) = {}
    /\ \E s \in Slots :
          /\ SlotsOf(HomeOf[t], Absent) # {} => s \in SlotsOf(HomeOf[t], Absent)
          /\ Get(t, s)

(* The rest of CacheManager::get.  deleteBlock returns at once when the    *)
(* slot was empty.                                                         *)
LockSlot(t) ==
    /\ pc[t] = "lock"
    /\ blockMutex[HomeOf[t]][slot[t]] = NoThread
    /\ blockMutex' = [blockMutex EXCEPT ![HomeOf[t]][slot[t]] = t]
    /\ cacheMutex' = [cacheMutex EXCEPT ![HomeOf[t]] = NoThread]
    /\ \/ old[t] = want[t] /\ Goto(t, "read")
       \/ old[t] = Absent /\ Goto(t, "start")
       \/ old[t] \in Block \ {want[t]} /\ Goto(t, "delete")
    /\ UNCHANGED <<application, stored, data, dictionary, library, network, locals, source>>

-----------------------------------------------------------------------------
(* deleteBlock: at once, or by a message that is not answered.             *)
DeleteBlock(t) ==
    LET b == old[t] IN
    /\ pc[t] = "delete"
    /\ \/ /\ DictRankOf[b] = HomeOf[t]
          /\ dictionary' = [dictionary EXCEPT ![b] = Deleted(@, OwnPlace(t))]
          /\ UNCHANGED requests
       \/ /\ DictRankOf[b] # HomeOf[t]
          /\ Send(HomeOf[t], DictRankOf[b],
                  [kind |-> "delete", block |-> b, place |-> OwnPlace(t)])
          /\ UNCHANGED dictionary
    /\ Goto(t, "start")
    /\ UNCHANGED <<application, manager, data, library, replies, sending, locals, source>>

(* With the place startTransfer returned: ask for the block, or load it.   *)
HaveSource(t, place) ==
    /\ source' = [source EXCEPT ![t] = place]
    /\ \/ place = Unused /\ Goto(t, "load") /\ Fill(t, Torn)
       \/ place # Unused /\ Goto(t, "ask") /\ UNCHANGED data

(* startTransfer, the entry being kept by this rank ...                    *)
StartLocal(t) ==
    /\ pc[t] = "start"
    /\ DictRankOf[want[t]] = HomeOf[t]
    /\ \E place \in Fetched(dictionary[want[t]]) : HaveSource(t, place)
    /\ UNCHANGED <<application, manager, dictionary, library, network, locals>>

(* ... or by another one.                                                  *)
StartRemote(t) ==
    /\ pc[t] = "start"
    /\ DictRankOf[want[t]] # HomeOf[t]
    /\ infoMutex[HomeOf[t]] = NoThread
    /\ infoMutex' = [infoMutex EXCEPT ![HomeOf[t]] = t]
    /\ Send(HomeOf[t], DictRankOf[want[t]], [kind |-> "info", block |-> want[t]])
    /\ Goto(t, "entry")
    /\ UNCHANGED <<application, manager, data, dictionary, transferMutex, replies, sending, locals, source>>

(* The reply a thread takes must have the tag it waits for and come from   *)
(* the rank it has asked.  Here the tag does not include TagOffset.        *)
ReceiveEntry(t) ==
    /\ pc[t] = "entry"
    /\ \E m \in replies[HomeOf[t]] :
          /\ m.from = DictRankOf[want[t]] /\ m.tag = EntryTag
          /\ replies' = [replies EXCEPT ![HomeOf[t]] = @ \ {m}]
          /\ HaveSource(t, m.value)
    /\ infoMutex' = [infoMutex EXCEPT ![HomeOf[t]] = NoThread]
    /\ UNCHANGED <<application, manager, dictionary, transferMutex, requests, sending, locals>>

(* Faulty variant: m_blockMutex is not used.                               *)
AskBlockUnlocked(t) ==
    /\ pc[t] = "ask"
    /\ Send(HomeOf[t], RankOf(source[t]), [kind |-> "transfer", block |-> want[t]])
    /\ Goto(t, "reply")
    /\ UNCHANGED <<application, manager, data, dictionary, library, replies, sending, locals, source>>

(* transfer: the rank of the place is asked, which may be this one.        *)
AskBlock(t) ==
    /\ pc[t] = "ask"
    /\ transferMutex[HomeOf[t]] = NoThread
    /\ transferMutex' = [transferMutex EXCEPT ![HomeOf[t]] = t]
    /\ Send(HomeOf[t], RankOf(source[t]), [kind |-> "transfer", block |-> want[t]])
    /\ Goto(t, "reply")
    /\ UNCHANGED <<application, manager, data, dictionary, infoMutex, replies, sending, locals, source>>

ReceiveBlock(t) ==
    /\ pc[t] = "reply"
    /\ \E m \in replies[HomeOf[t]] :
          /\ m.from = RankOf(source[t])
          /\ replies' = [replies EXCEPT ![HomeOf[t]] = @ \ {m}]
          /\ \/ m.tag = TagOffset + TransferTag /\ Fill(t, m.value) /\ Goto(t, "end")
             \/ m.tag = TagOffset + TransferFailTag /\ UNCHANGED data /\ Goto(t, "start")
    /\ transferMutex' = [transferMutex EXCEPT ![HomeOf[t]] = NoThread]
    /\ UNCHANGED <<application, manager, dictionary, infoMutex, requests, sending, locals, source>>

LoadBlock(t) ==
    /\ pc[t] = "load"
    /\ Fill(t, want[t])
    /\ Goto(t, "end")
    /\ UNCHANGED <<application, manager, dictionary, library, network, locals, source>>

(* endTransfer: the place is announced, at once or by a message.           *)
EndTransfer(t) ==
    LET b == want[t] IN
    /\ pc[t] = "end"
    /\ \/ /\ DictRankOf[b] = HomeOf[t]
          /\ dictionary' = [dictionary EXCEPT ![b] = Updated(@, OwnPlace(t))]
          /\ UNCHANGED requests
       \/ /\ DictRankOf[b] # HomeOf[t]
          /\ Send(HomeOf[t], DictRankOf[b],
                  [kind |-> "add", block |-> b, place |-> OwnPlace(t)])
          /\ UNCHANGED dictionary
    /\ Goto(t, "read")
    /\ UNCHANGED <<application, manager, data, library, replies, sending, locals, source>>

(* The value is converted into the caller's buffer and the slot unlocked.  *)
Return(t) ==
    /\ pc[t] = "read"
    /\ blockMutex' = [blockMutex EXCEPT ![HomeOf[t]][slot[t]] = NoThread]
    /\ Goto(t, "idle")
    /\ want' = [want EXCEPT ![t] = Absent]
    /\ slot' = [slot EXCEPT ![t] = 0]
    /\ old' = [old EXCEPT ![t] = Absent]
    /\ source' = [source EXCEPT ![t] = Unused]
    /\ UNCHANGED <<application, stored, cacheMutex, data, dictionary, library, network>>

-----------------------------------------------------------------------------
(* The communication thread of rank r receives the next message of rank q. *)
(* It handles one message after the other.                                 *)
Receive(r, q, kind) ==
    /\ sending[r] = Unused
    /\ requests[q][r] # <<>>
    /\ Head(requests[q][r]).kind = kind
    /\ requests' = [requests EXCEPT ![q][r] = Tail(@)]

(* Faulty variant: the answer goes back with the tag of the next kind.     *)
AnswerMistagged(r, q, tag, value) ==
    replies' = [replies EXCEPT ![q] = @ \cup
                   {[from |-> r, tag |-> TagOffset + ((tag + 1) % 3), value |-> value]}]

Answer(r, q, tag, value) ==
    replies' = [replies EXCEPT ![q] = @ \cup
                   {[from |-> r, tag |-> TagOffset + tag, value |-> value]}]

(* BlockInfoResponder::recv                                                *)
ServeInfo(r, q) ==
    /\ Receive(r, q, "info")
    /\ \E place \in Fetched(dictionary[Head(requests[q][r]).block]) :
          Answer(r, q, EntryTag, place)
    /\ UNCHANGED <<application, manager, data, dictionary, library, sending, pc, locals, source>>

(* Adder::recv and Deleter::recv                                           *)
ServeAdd(r, q) ==
    LET m == Head(requests[q][r]) IN
    /\ Receive(r, q, "add")
    /\ dictionary' = [dictionary EXCEPT ![m.block] = Updated(@, m.place)]
    /\ UNCHANGED <<application, manager, data, library, replies, sending, pc, locals, source>>

ServeDelete(r, q) ==
    LET m == Head(requests[q][r]) IN
    /\ Receive(r, q, "delete")
    /\ dictionary' = [dictionary EXCEPT ![m.block] = Deleted(@, m.place)]
    /\ UNCHANGED <<application, manager, data, library, replies, sending, pc, locals, source>>

(* Faulty variant: the slot is sent although another thread has locked it. *)
SendableUnlocked(r, b) == { s \in SlotsOf(r, b) : cacheMutex[r] = NoThread }

(* BlockTransferer::recv.  tryGet needs the manager and the slot at once.  *)
Sendable(r, b) ==
    { s \in SlotsOf(r, b) : cacheMutex[r] = NoThread /\ blockMutex[r][s] = NoThread }

ServeTransfer(r, q) ==
    /\ Receive(r, q, "transfer")
    /\ \E s \in Sendable(r, Head(requests[q][r]).block) :
          /\ blockMutex' = [blockMutex EXCEPT ![r][s] = CommThread]
          /\ sending' = [sending EXCEPT ![r] = s]
          /\ Answer(r, q, TransferTag, data[r][s])
    /\ UNCHANGED <<application, stored, cacheMutex, data, dictionary, library, pc, locals, source>>

ServeFail(r, q) ==
    /\ Receive(r, q, "transfer")
    /\ Sendable(r, Head(requests[q][r]).block) = {}
    /\ Answer(r, q, TransferFailTag, Absent)
    /\ UNCHANGED <<application, manager, data, dictionary, library, sending, pc, locals, source>>

(* MPI needs the slot no longer, whether the block has arrived or not.     *)
SendDone(r) ==
    /\ sending[r] # Unused
    /\ blockMutex' = [blockMutex EXCEPT ![r][sending[r]] = NoThread]
    /\ sending' = [sending EXCEPT ![r] = Unused]
    /\ UNCHANGED <<application, stored, cacheMutex, data, dictionary, library, requests, replies,
                   pc, locals, source>>

-----------------------------------------------------------------------------
Continue(t) ==
    \/ GetHit(t) \/ GetMiss(t) \/ LockSlot(t)
    \/ DeleteBlock(t) \/ StartLocal(t) \/ StartRemote(t) \/ ReceiveEntry(t)
    \/ AskBlock(t) \/ ReceiveBlock(t) \/ LoadBlock(t) \/ EndTransfer(t)
    \/ Return(t)

Serve(r, q) ==
    \/ ServeInfo(r, q) \/ ServeAdd(r, q) \/ ServeDelete(r, q)
    \/ ServeTransfer(r, q) \/ ServeFail(r, q)

Communicate == \E r \in Rank : SendDone(r) \/ \E q \in Rank : Serve(r, q)

Next ==
    \/ \E t \in Thread : Continue(t) \/ \E b \in Block : Call(t, b)
    \/ Communicate

Spec == Init /\ [][Next]_vars

(* A thread inside getAt is scheduled, and so is the communication thread, *)
(* which overlooks no rank for ever.                                       *)
Fairness ==
    /\ \A t \in Thread : WF_vars(Continue(t))
    /\ \A r \in Rank : WF_vars(SendDone(r)) /\ \A q \in Rank : WF_vars(Serve(r, q))

FairSpec == Spec /\ Fairness

-----------------------------------------------------------------------------
TypeOK ==
    /\ cacheSize \in Nat \ {0}
    /\ program = Anything \/ program \in [Thread -> Seq(Block)]
    /\ stored \in [Rank -> [Slots -> Block \cup {Absent}]]
    /\ cacheMutex \in [Rank -> Thread \cup {NoThread}]
    /\ blockMutex \in [Rank -> [Slots -> Thread \cup {CommThread, NoThread}]]
    /\ data \in [Rank -> [Slots -> Block \cup {Absent, Torn}]]
    /\ dictionary \in [Block -> DictEntry]
    /\ infoMutex \in [Rank -> Thread \cup {NoThread}]
    /\ transferMutex \in [Rank -> Thread \cup {NoThread}]
    /\ requests \in [Rank -> [Rank -> Seq(Request)]]
    /\ replies \in [Rank -> SUBSET Reply]
    /\ sending \in [Rank -> Slots \cup {Unused}]
    /\ pc \in [Thread -> PC]
    /\ want \in [Thread -> Block \cup {Absent}]
    /\ slot \in [Thread -> Slots]
    /\ old \in [Thread -> Block \cup {Absent}]
    /\ source \in [Thread -> Places \cup {Unused}]

(* The values handed to the caller are those of the block it asked for.    *)
ReadsRequestedBlock ==
    \A t \in Thread : pc[t] = "read" => data[HomeOf[t]][slot[t]] = want[t]

(* A reply says neither which thread nor which block it is for; all the    *)
(* threads of a rank receive with the same tags.  Still the block that has *)
(* arrived at a rank is the one the only thread that waits there wants.    *)
BlockReplies(r) == { m \in replies[r] : m.tag # TagOffset + EntryTag }

RepliesFindTheirThread ==
    \A r \in Rank : \A m \in BlockReplies(r) :
        \E t \in Thread :
            /\ pc[t] = "reply" /\ HomeOf[t] = r /\ RankOf(source[t]) = m.from
            /\ \A u \in Thread : pc[u] = "reply" /\ HomeOf[u] = r => u = t
            /\ m.tag = TagOffset + TransferTag => m.value = want[t]

(* Nobody locks the dictionary while a block is evicted and fetched, and   *)
(* deletions travel by message.  Still a listed place is wrong only as     *)
(* long as its deletion is on the way: the block is in the place, or the   *)
(* thread that evicts it has not told the dictionary yet, or has.          *)
Evicting(t, b, place) ==
    pc[t] = "delete" /\ old[t] = b /\ OwnPlace(t) = place

DeleteUnderway(b, place) ==
    \E q, r \in Rank : \E i \in 1 .. Len(requests[q][r]) :
        requests[q][r][i] = [kind |-> "delete", block |-> b, place |-> place]

StalePlacesAreLeaving ==
    \A b \in Block : \A place \in Listed(dictionary[b]) :
        \/ data[RankOf(place)][SlotOf(place)] = b
        \/ \E t \in Thread : Evicting(t, b, place)
        \/ DeleteUnderway(b, place)

(* Every question for a dictionary entry is answered.                      *)
QuestionsAnswered ==
    \A t \in Thread : pc[t] = "entry" ~> pc[t] # "entry"

(* The retry loop and tryGet keep the level going: as long as somebody is  *)
(* inside getAt, some call reaches its value.                              *)
SomeCallCompletes ==
    []<>((\A t \in Thread : pc[t] = "idle") \/ (\E t \in Thread : pc[t] = "read"))

-----------------------------------------------------------------------------
(* The parts of the inductive invariant of CacheDistThreadProofs.          *)

(* Between locking its slot and the value, a thread has not filled it yet. *)
FillingPC == {"delete", "start", "entry", "ask", "reply", "load", "end"}

OwnsSlot(t, r, s) == pc[t] \in FillingPC \cup {"read"} /\ HomeOf[t] = r /\ slot[t] = s

(* The mutexes are held by the threads whose position says so, and those   *)
(* of slots by the communication thread that sends the slot.               *)
MutexesOwned ==
    \A r \in Rank :
        /\ \A t \in Thread :
              /\ cacheMutex[r] = t <=> pc[t] = "lock" /\ HomeOf[t] = r
              /\ \A s \in Slots : blockMutex[r][s] = t <=> OwnsSlot(t, r, s)
        /\ \A s \in Slots : blockMutex[r][s] = CommThread <=> sending[r] = s

CallsWant == \A t \in Thread : pc[t] # "idle" => want[t] \in Block

BeingFilled(r, s) == \E t \in Thread : pc[t] \in FillingPC /\ HomeOf[t] = r /\ slot[t] = s

(* Slot s has been given to another block, by a thread that waits for its  *)
(* present users.                                                          *)
Condemned(r, s) ==
    \E t \in Thread : pc[t] = "lock" /\ HomeOf[t] = r /\ slot[t] = s /\ old[t] # want[t]

WaitersEntered == \A t \in Thread : pc[t] = "lock" => stored[HomeOf[t]][slot[t]] = want[t]

FillersEntered ==
    \A t \in Thread :
        pc[t] \in FillingPC /\ ~Condemned(HomeOf[t], slot[t])
            => stored[HomeOf[t]][slot[t]] = want[t]

(* A slot nobody fills or is about to fill contains what the directory     *)
(* says.                                                                   *)
RestingTruthful ==
    \A r \in Rank, s \in Slots :
        ~BeingFilled(r, s) /\ ~Condemned(r, s) => data[r][s] = stored[r][s]

(* A thread knows the block it evicts: it is in the slot, or comes into    *)
(* it before the thread gets the slot.                                     *)
OldKnown ==
    \A t \in Thread :
        /\ pc[t] = "lock" /\ old[t] # want[t] =>
              /\ ~BeingFilled(HomeOf[t], slot[t]) => data[HomeOf[t]][slot[t]] = old[t]
              /\ \A u \in Thread :
                    pc[u] \in FillingPC /\ HomeOf[u] = HomeOf[t] /\ slot[u] = slot[t]
                        => want[u] = old[t]
        /\ pc[t] = "delete" => old[t] \in Block /\ data[HomeOf[t]][slot[t]] = old[t]

EntriesLists == \A b \in Block : IsList(dictionary[b])

(* Only the owner of a place tells the dictionary about it, and only other *)
(* ranks do so with messages.                                              *)
PlacesToldByOwner ==
    \A q, r \in Rank : \A i \in 1 .. Len(requests[q][r]) :
        LET m == requests[q][r][i] IN
        m.kind \in {"add", "delete"} => q = RankOf(m.place) /\ r = DictRankOf[m.block] /\ q # r

(* The block slot s holds, if nobody has told the dictionary otherwise.    *)
Announced(r, s) ==
    { b \in Block :
        /\ data[r][s] = b
        /\ \A t \in Thread : pc[t] \in FillingPC /\ HomeOf[t] = r /\ slot[t] = s => pc[t] = "delete" }

(* Where in a queue it says that b is in a place, or there no more.        *)
Told(queue, kind, b, place) ==
    { i \in 1 .. Len(queue) : queue[i] = [kind |-> kind, block |-> b, place |-> place] }

(* The messages about a place alternate, and once they have arrived the    *)
(* place is listed only for the block announced there.                     *)
InOrder(queue, b, place, listed, announced) ==
    LET adds == Told(queue, "add", b, place)
        deletes == Told(queue, "delete", b, place) IN
    /\ \A i, j \in adds : i < j => \E k \in deletes : i < k /\ k < j
    /\ place \in listed => \A i \in adds : \E k \in deletes : k < i
    /\ b \notin announced => \A i \in adds : \E k \in deletes : i < k
    /\ place \in listed /\ b \notin announced => deletes # {}

DictionaryToldInOrder ==
    \A r \in Rank, s \in Slots : \A b \in Block :
        InOrder(requests[r][DictRankOf[b]], b, PlaceOf(r, s), Listed(dictionary[b]), Announced(r, s))

(* The answer about an entry is a place or none; a place is asked.         *)
AnswersPlaces ==
    \A r \in Rank : \A m \in replies[r] :
        m.tag = TagOffset + EntryTag => m.value \in Places \cup {Unused}

SourcesPlaces == \A t \in Thread : pc[t] \in {"ask", "reply"} => source[t] \in Places

AskersAlone ==
    \A r \in Rank, t \in Thread : transferMutex[r] = t <=> pc[t] = "reply" /\ HomeOf[t] = r

(* A rank has asked for one block at most, and a thread waits for it.      *)
Waits(t, r, q, b) == pc[t] = "reply" /\ HomeOf[t] = r /\ RankOf(source[t]) = q /\ want[t] = b

OneBlockAsked ==
    \A r, q \in Rank : \A i \in 1 .. Len(requests[r][q]) :
        requests[r][q][i].kind = "transfer" =>
            /\ \E t \in Thread : Waits(t, r, q, requests[r][q][i].block)
            /\ BlockReplies(r) = {}
            /\ \A p \in Rank : \A j \in 1 .. Len(requests[r][p]) :
                  requests[r][p][j].kind = "transfer" => p = q /\ j = i

OneBlockAnswered ==
    \A r \in Rank : \A m \in BlockReplies(r) :
        /\ BlockReplies(r) = {m}
        /\ \E t \in Thread : \E b \in Block :
              Waits(t, r, m.from, b) /\ (m.tag = TagOffset + TransferTag => m.value = b)

FilledAtEnd == \A t \in Thread : pc[t] = "end" => data[HomeOf[t]][slot[t]] = want[t]

CacheInv ==
    /\ MutexesOwned
    /\ CallsWant
    /\ WaitersEntered
    /\ FillersEntered
    /\ RestingTruthful
    /\ OldKnown
    /\ FilledAtEnd
    /\ ReadsRequestedBlock

DictInv ==
    /\ EntriesLists
    /\ PlacesToldByOwner
    /\ DictionaryToldInOrder

TransferInv ==
    /\ AskersAlone
    /\ AnswersPlaces
    /\ SourcesPlaces
    /\ OneBlockAsked
    /\ OneBlockAnswered

Inv == TypeOK /\ CacheInv /\ DictInv /\ TransferInv
=============================================================================
