----------------------------- MODULE CacheDistWin -----------------------------
(***************************************************************************)
(* A cached grid level distributed with MPI windows: CacheDist::getAt      *)
(* (grid/level/cachedist.h) with MPIWinCache (transfer/mpiwincache.h) and  *)
(* one cache per rank.  The dictionary says for every block which ranks    *)
(* have it; a thread that misses a block locks the block's entry of the    *)
(* dictionary, announces its own slot in it, and copies the block out of   *)
(* the cache of another rank, or reads it from the file.  The slot of a    *)
(* block that is evicted is taken out of the dictionary first.             *)
(*                                                                         *)
(* The lock of a dictionary entry is the mutex of MPIMutex, taken here in  *)
(* one step; the cache manager is the one of CacheLevel; the replacement   *)
(* policy is any that keeps the promise of BoundedCache.                   *)
(***************************************************************************)
EXTENDS MPICacheDict

CONSTANTS
    Block,          \* the global block ids
    Thread,         \* the threads of all ranks that call getAt
    HomeOf,         \* the rank of a thread
    ThreadsafeMPI,  \* THREADSAFE_MPI: is mpiLock a mutex, or nothing
    Absent,         \* no block
    Torn,           \* content of a slot that is being written
    NoThread        \* the holder of a free mutex

ASSUME CacheDistWinAssumption ==
    /\ HomeOf \in [Thread -> Rank]
    /\ ThreadsafeMPI \in BOOLEAN
    /\ Absent \notin Block
    /\ Torn \notin Block \cup {Absent}
    /\ NoThread \notin Thread

VARIABLES
    stored,         \* the directory of every rank: which block is in a slot
    cacheMutex,     \* who holds m_cacheMutex of a rank
    blockMutex,     \* who holds m_blockMutexes of a rank
    data,           \* which block's values are in a slot
    dictionary,     \* the dictionary entry of every block
    entryMutex,     \* who holds the MPI mutex of a dictionary entry
    mpiLock,        \* who holds mpiLock of a rank
    pc,             \* where in getAt a thread is
    want,           \* globalBlockId
    slot,           \* cacheOffset
    old,            \* oldGlobalBlockId
    source          \* entry, the place to copy the block from

manager == <<stored, cacheMutex, blockMutex>>
locals == <<want, slot, old>>
global == <<dictionary, entryMutex>>
vars == <<stored, cacheMutex, blockMutex, data, dictionary, entryMutex, mpiLock,
          pc, want, slot, old, source>>

PC == {"idle", "get", "lock", "delete", "deleting", "start", "starting",
       "copy", "load", "end", "read"}

Init ==
    /\ stored = [r \in Rank |-> [s \in Slots |-> Absent]]
    /\ cacheMutex = [r \in Rank |-> NoThread]
    /\ blockMutex = [r \in Rank |-> [s \in Slots |-> NoThread]]
    /\ data = [r \in Rank |-> [s \in Slots |-> Absent]]
    /\ dictionary = [b \in Block |-> EmptyEntry]
    /\ entryMutex = [b \in Block |-> NoThread]
    /\ mpiLock = [r \in Rank |-> NoThread]
    /\ pc = [t \in Thread |-> "idle"]
    /\ want = [t \in Thread |-> Absent]
    /\ slot = [t \in Thread |-> 0]
    /\ old = [t \in Thread |-> Absent]
    /\ source = [t \in Thread |-> Unused]

Goto(t, label) == pc' = [pc EXCEPT ![t] = label]

(* Faulty variant: the wrong stride.                                       *)
OwnPlaceBehind(t) == PlaceOf(HomeOf[t], slot[t] + 1)

(* The place of the slot a thread fills.                                   *)
OwnPlace(t) == PlaceOf(HomeOf[t], slot[t])

Fill(t, content) == data' = [data EXCEPT ![HomeOf[t]][slot[t]] = content]

-----------------------------------------------------------------------------
(* The application asks for a value in block b.                            *)
Call(t, b) ==
    /\ pc[t] = "idle"
    /\ want' = [want EXCEPT ![t] = b]
    /\ Goto(t, "get")
    /\ UNCHANGED <<manager, data, global, mpiLock, slot, old, source>>

(* CacheManager::get up to the wait for the slot.                          *)
SlotsOf(r, b) == { s \in Slots : stored[r][s] = b }

Get(t, s) ==
    /\ pc[t] = "get"
    /\ cacheMutex[HomeOf[t]] = NoThread
    /\ cacheMutex' = [cacheMutex EXCEPT ![HomeOf[t]] = t]
    /\ stored' = [stored EXCEPT ![HomeOf[t]][s] = want[t]]
    /\ slot' = [slot EXCEPT ![t] = s]
    /\ old' = [old EXCEPT ![t] = stored[HomeOf[t]][s]]
    /\ Goto(t, "lock")
    /\ UNCHANGED <<blockMutex, data, global, mpiLock, want, source>>

GetHit(t) == \E s \in SlotsOf(HomeOf[t], want[t]) : Get(t, s)

(* A block leaves only when every slot is taken.                           *)
GetMiss(t) ==
    /\ SlotsOf(HomeOf[t], want[t]) = {}
    /\ \E s \in Slots :
          /\ SlotsOf(HomeOf[t], Absent) # {} => s \in SlotsOf(HomeOf[t], Absent)
          /\ Get(t, s)

(* The rest of CacheManager::get.  deleteBlock returns at once when the    *)
(* slot was empty.                                                         *)
LockSlot(t) ==
    /\ pc[t] = "lock"
    /\ blockMutex[HomeOf[t]][slot[t]] = NoThread
    /\ blockMutex' = [blockMutex EXCEPT ![HomeOf[t]][slot[t]] = t]
    /\ cacheMutex' = [cacheMutex EXCEPT ![HomeOf[t]] = NoThread]
    /\ \/ old[t] = want[t] /\ Goto(t, "read")
       \/ old[t] = Absent /\ Goto(t, "start")
       \/ old[t] \in Block \ {want[t]} /\ Goto(t, "delete")
    /\ UNCHANGED <<stored, data, global, mpiLock, locals, source>>

-----------------------------------------------------------------------------
(* mpiLock, which deleteBlock holds until it returns and startTransfer     *)
(* until endTransfer.                                                      *)
TakeLibrary(t) ==
    IF ThreadsafeMPI
    THEN /\ mpiLock[HomeOf[t]] = NoThread
         /\ mpiLock' = [mpiLock EXCEPT ![HomeOf[t]] = t]
    ELSE UNCHANGED mpiLock

(* Faulty variant: mpiLock is kept.                                        *)
KeepLibrary(t) == UNCHANGED mpiLock

GiveLibrary(t) ==
    IF ThreadsafeMPI
    THEN mpiLock' = [mpiLock EXCEPT ![HomeOf[t]] = NoThread]
    ELSE UNCHANGED mpiLock

EnterDelete(t) ==
    /\ pc[t] = "delete"
    /\ TakeLibrary(t)
    /\ Goto(t, "deleting")
    /\ UNCHANGED <<manager, data, global, locals, source>>

(* Faulty variant: the entry is changed without its mutex.                 *)
DeleteBlockUnlocked(t) ==
    /\ pc[t] = "deleting"
    /\ dictionary' = [dictionary EXCEPT ![old[t]] = Deleted(@, OwnPlace(t))]
    /\ GiveLibrary(t)
    /\ Goto(t, "start")
    /\ UNCHANGED <<manager, data, entryMutex, locals, source>>

(* deleteBlock, once it has the entry: the entry is changed and its mutex  *)
(* released under one lock of the window.                                  *)
DeleteBlock(t) ==
    /\ pc[t] = "deleting"
    /\ entryMutex[old[t]] = NoThread
    /\ dictionary' = [dictionary EXCEPT ![old[t]] = Deleted(@, OwnPlace(t))]
    /\ GiveLibrary(t)
    /\ Goto(t, "start")
    /\ UNCHANGED <<manager, data, entryMutex, locals, source>>

EnterStart(t) ==
    /\ pc[t] = "start"
    /\ TakeLibrary(t)
    /\ Goto(t, "starting")
    /\ UNCHANGED <<manager, data, global, locals, source>>

(* startTransfer, once it has the entry: a place of the block is chosen    *)
(* and the own slot announced.  From here on the slot is being written.    *)
StartTransfer(t) ==
    /\ pc[t] = "starting"
    /\ entryMutex[want[t]] = NoThread
    /\ entryMutex' = [entryMutex EXCEPT ![want[t]] = t]
    /\ dictionary' = [dictionary EXCEPT ![want[t]] = Updated(@, OwnPlace(t))]
    /\ \E place \in Fetched(dictionary[want[t]]) :
          /\ source' = [source EXCEPT ![t] = place]
          /\ \/ place = Unused /\ Goto(t, "load")
             \/ place # Unused /\ Goto(t, "copy")
    /\ Fill(t, Torn)
    /\ UNCHANGED <<manager, mpiLock, locals>>

(* transfer: the end of the memcpy or of MPI_Get.                          *)
Transfer(t) ==
    /\ pc[t] = "copy"
    /\ Fill(t, data[RankOf(source[t])][SlotOf(source[t])])
    /\ Goto(t, "end")
    /\ UNCHANGED <<manager, global, mpiLock, locals, source>>

LoadBlock(t) ==
    /\ pc[t] = "load"
    /\ Fill(t, want[t])
    /\ Goto(t, "end")
    /\ UNCHANGED <<manager, global, mpiLock, locals, source>>

EndTransfer(t) ==
    /\ pc[t] = "end"
    /\ entryMutex' = [entryMutex EXCEPT ![want[t]] = NoThread]
    /\ GiveLibrary(t)
    /\ Goto(t, "read")
    /\ UNCHANGED <<manager, data, dictionary, locals, source>>

(* The value is converted into the caller's buffer and the slot unlocked.  *)
Return(t) ==
    /\ pc[t] = "read"
    /\ blockMutex' = [blockMutex EXCEPT ![HomeOf[t]][slot[t]] = NoThread]
    /\ Goto(t, "idle")
    /\ want' = [want EXCEPT ![t] = Absent]
    /\ slot' = [slot EXCEPT ![t] = 0]
    /\ old' = [old EXCEPT ![t] = Absent]
    /\ source' = [source EXCEPT ![t] = Unused]
    /\ UNCHANGED <<stored, cacheMutex, data, global, mpiLock>>

Continue(t) ==
    \/ GetHit(t) \/ GetMiss(t) \/ LockSlot(t)
    \/ EnterDelete(t) \/ DeleteBlock(t)
    \/ EnterStart(t) \/ StartTransfer(t) \/ Transfer(t) \/ LoadBlock(t) \/ EndTransfer(t)
    \/ Return(t)

Next == \E t \in Thread : Continue(t) \/ \E b \in Block : Call(t, b)

Spec == Init /\ [][Next]_vars

(* A thread inside getAt is scheduled; nothing is assumed about who gets a *)
(* contended mutex.                                                        *)
FairSpec == Spec /\ \A t \in Thread : WF_vars(Continue(t))

-----------------------------------------------------------------------------
TypeOK ==
    /\ stored \in [Rank -> [Slots -> Block \cup {Absent}]]
    /\ cacheMutex \in [Rank -> Thread \cup {NoThread}]
    /\ blockMutex \in [Rank -> [Slots -> Thread \cup {NoThread}]]
    /\ data \in [Rank -> [Slots -> Block \cup {Absent, Torn}]]
    /\ dictionary \in [Block -> DictEntry]
    /\ entryMutex \in [Block -> Thread \cup {NoThread}]
    /\ mpiLock \in [Rank -> Thread \cup {NoThread}]
    /\ pc \in [Thread -> PC]
    /\ want \in [Thread -> Block \cup {Absent}]
    /\ slot \in [Thread -> Slots]
    /\ old \in [Thread -> Block \cup {Absent}]
    /\ source \in [Thread -> Places \cup {Unused}]

(* The collision avoidance cachedist.h claims for windows: as long as a    *)
(* block is copied, the place it is copied from contains it, although its  *)
(* owner may have given the slot to another block already.                 *)
SourceKept ==
    \A t \in Thread :
        pc[t] = "copy" => data[RankOf(source[t])][SlotOf(source[t])] = want[t]

(* The values handed to the caller are those of the block it asked for.    *)
ReadsRequestedBlock ==
    \A t \in Thread : pc[t] = "read" => data[HomeOf[t]][slot[t]] = want[t]

Filling(t, b, place) ==
    pc[t] \in {"copy", "load"} /\ want[t] = b /\ OwnPlace(t) = place /\ entryMutex[b] = t

(* The dictionary never lies: a listed place contains the block, unless    *)
(* the thread that announced it still fills it and keeps the entry locked, *)
(* and no slot is announced twice, for one block or for two: an evicted    *)
(* block leaves no stale place behind, in whatever order the ranks evict,  *)
(* lose and announce places.                                               *)
DictionaryTruthful ==
    /\ \A b \in Block : \A place \in Listed(dictionary[b]) :
          \/ data[RankOf(place)][SlotOf(place)] = b
          \/ \E t \in Thread : Filling(t, b, place)
    /\ \A b, c \in Block : \A i, j \in Index :
          dictionary[b][i] = dictionary[c][j] /\ dictionary[b][i] # Unused
              => b = c /\ i = j

(* The mutexes of the ranks, of the slots and of the dictionary are nested *)
(* without a cycle: as long as somebody is inside getAt, some call reaches *)
(* its value.                                                              *)
SomeCallCompletes ==
    []<>((\A t \in Thread : pc[t] = "idle") \/ (\E t \in Thread : pc[t] = "read"))

-----------------------------------------------------------------------------
(* The parts of the inductive invariant of CacheDistWinProofs.             *)

(* Between locking its slot and the value, a thread has not filled it yet. *)
FillingPC == {"delete", "deleting", "start", "starting", "copy", "load", "end"}

EntryPC == {"copy", "load", "end"}

OwnsSlot(t, r, s) == pc[t] \in FillingPC \cup {"read"} /\ HomeOf[t] = r /\ slot[t] = s

(* The mutexes are held by the threads whose position says so.             *)
MutexesOwned ==
    \A t \in Thread :
        /\ \A r \in Rank :
              /\ cacheMutex[r] = t <=> pc[t] = "lock" /\ HomeOf[t] = r
              /\ \A s \in Slots : blockMutex[r][s] = t <=> OwnsSlot(t, r, s)
        /\ \A b \in Block : entryMutex[b] = t <=> pc[t] \in EntryPC /\ want[t] = b

CallsWant == \A t \in Thread : pc[t] # "idle" => want[t] \in Block

BeingFilled(r, s) == \E t \in Thread : pc[t] \in FillingPC /\ HomeOf[t] = r /\ slot[t] = s

(* Slot s has been given to another block, by a thread that waits for its  *)
(* present users.                                                          *)
Condemned(r, s) ==
    \E t \in Thread : pc[t] = "lock" /\ HomeOf[t] = r /\ slot[t] = s /\ old[t] # want[t]

WaitersEntered == \A t \in Thread : pc[t] = "lock" => stored[HomeOf[t]][slot[t]] = want[t]

FillersEntered ==
    \A t \in Thread :
        pc[t] \in FillingPC /\ ~Condemned(HomeOf[t], slot[t])
            => stored[HomeOf[t]][slot[t]] = want[t]

(* A slot nobody fills or is about to fill contains what the directory     *)
(* says.                                                                   *)
RestingTruthful ==
    \A r \in Rank, s \in Slots :
        ~BeingFilled(r, s) /\ ~Condemned(r, s) => data[r][s] = stored[r][s]

(* A thread knows the block it evicts: it is in the slot, or comes into    *)
(* it before the thread gets the slot.                                     *)
OldKnown ==
    \A t \in Thread :
        /\ pc[t] = "lock" /\ old[t] # want[t] =>
              /\ ~BeingFilled(HomeOf[t], slot[t]) => data[HomeOf[t]][slot[t]] = old[t]
              /\ \A u \in Thread :
                    pc[u] \in FillingPC /\ HomeOf[u] = HomeOf[t] /\ slot[u] = slot[t]
                        => want[u] = old[t]
        /\ pc[t] \in {"delete", "deleting"} =>
              old[t] \in Block /\ data[HomeOf[t]][slot[t]] = old[t]

(* The block under which a slot may be listed.                             *)
Announced(r, s, b) ==
    /\ ~BeingFilled(r, s) => data[r][s] = b
    /\ \A t \in Thread :
          pc[t] \in FillingPC /\ HomeOf[t] = r /\ slot[t] = s =>
              \/ pc[t] \in {"delete", "deleting"} /\ old[t] = b
              \/ pc[t] \in EntryPC /\ want[t] = b

ListedAnnounced ==
    \A b \in Block : \A i \in Index : dictionary[b][i] # Unused =>
        Announced(RankOf(dictionary[b][i]), SlotOf(dictionary[b][i]), b)

EntriesLists == \A b \in Block : IsList(dictionary[b])

(* The place a block is copied from is at rest, or its owner waits for the *)
(* block's entry.                                                          *)
SourcesHeld ==
    \A t \in Thread : pc[t] = "copy" =>
        /\ source[t] \in Places
        /\ \A u \in Thread :
              pc[u] \in FillingPC /\ HomeOf[u] = RankOf(source[t]) /\ slot[u] = SlotOf(source[t])
                  => pc[u] \in {"delete", "deleting"} /\ old[u] = want[t]

FilledAtEnd == \A t \in Thread : pc[t] = "end" => data[HomeOf[t]][slot[t]] = want[t]

Inv ==
    /\ TypeOK
    /\ MutexesOwned
    /\ CallsWant
    /\ WaitersEntered
    /\ FillersEntered
    /\ RestingTruthful
    /\ OldKnown
    /\ ListedAnnounced
    /\ EntriesLists
    /\ SourcesHeld
    /\ SourceKept
    /\ FilledAtEnd
    /\ ReadsRequestedBlock
=============================================================================
