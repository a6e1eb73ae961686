------------------------------ MODULE CacheLevel ------------------------------
(***************************************************************************)
(* A cached grid level that never talks to other ranks: Cache::getAt       *)
(* (grid/level/cache.h) and, with NumaTransfer, CacheDist::getAt with      *)
(* NumaCache and MPINo (grid/level/cachedist.h, transfer/numacache.h).     *)
(* Every NUMA domain has a CacheManager (cache/cachemanager.h): a          *)
(* directory guarded by m_cacheMutex and slots guarded by m_blockMutexes.  *)
(* The threads of a domain share its manager; with NumaTransfer a thread   *)
(* also looks for a block in the caches of the other domains.              *)
(*                                                                         *)
(* A step is what a thread does between two points at which another        *)
(* thread can tell the difference: taking a mutex, failing to take one,    *)
(* starting and finishing a write to a slot.  A mutex is given back in the *)
(* step before it that no other thread can separate from it.               *)
(***************************************************************************)
EXTENDS CacheList

CONSTANTS
    Thread,         \* the threads that call getAt
    NumDomains,     \* totalDomains()
    DomainOf,       \* the NUMA domain of every thread
    NumaTransfer,   \* is NumaCache used (CACHE_NUMA), or nothing (CACHE)
    NoThread,       \* the holder of a free mutex
    Torn            \* content of a slot that is being written

Domain == 0 .. NumDomains - 1

ASSUME CacheLevelAssumption ==
    /\ NumDomains \in Nat \ {0}
    /\ DomainOf \in [Thread -> Domain]
    /\ NumaTransfer \in BOOLEAN
    /\ NoThread \notin Thread
    /\ Torn \notin Block \cup {Absent}

VARIABLES
    dir,            \* m_cacheList of every domain
    cacheMutex,     \* who holds m_cacheMutex of a domain
    blockMutex,     \* who holds m_blockMutexes of a domain
    data,           \* which block's values are in a slot; Absent: the zeroes of init()
    pc,             \* where in getAt a thread is
    want,           \* globalBlockId; Absent outside of getAt
    slot,           \* cacheOffset
    old,            \* oldGlobalBlockId
    probe,          \* the loop variable of NumaCache::transfer
    remote          \* cacheId, the slot found in the domain probe

vars == <<dir, cacheMutex, blockMutex, data, pc, want, slot, old, probe, remote>>

Content == Block \cup {Absent, Torn}

PC == {"idle", "get", "lock", "fill", "peek", "copy", "load", "read"}

(* The first domain from i on that NumaCache::transfer looks at.           *)
FirstFrom(t, i) == IF i = DomainOf[t] THEN i + 1 ELSE i

Init ==
    /\ dir \in [Domain -> InitDirectories]
    /\ cacheMutex = [d \in Domain |-> NoThread]
    /\ blockMutex = [d \in Domain |-> [s \in Slots |-> NoThread]]
    /\ data = [d \in Domain |-> [s \in Slots |-> Absent]]
    /\ pc = [t \in Thread |-> "idle"]
    /\ want = [t \in Thread |-> Absent]
    /\ slot = [t \in Thread |-> 0]
    /\ old = [t \in Thread |-> Absent]
    /\ probe = [t \in Thread |-> 0]
    /\ remote = [t \in Thread |-> 0]

Goto(t, label) == pc' = [pc EXCEPT ![t] = label]

-----------------------------------------------------------------------------
(* The application asks for a value in block b.                            *)
Call(t, b) ==
    /\ pc[t] = "idle"
    /\ want' = [want EXCEPT ![t] = b]
    /\ Goto(t, "get")
    /\ UNCHANGED <<dir, cacheMutex, blockMutex, data, slot, old, probe, remote>>

(* CacheManager::get up to the wait for the slot: with the manager locked  *)
(* the block is looked up, or a slot is taken for it.                      *)
GetHit(t) ==
    LET d == DomainOf[t] IN
    /\ pc[t] = "get"
    /\ cacheMutex[d] = NoThread
    /\ Stored(dir[d], want[t])
    /\ cacheMutex' = [cacheMutex EXCEPT ![d] = t]
    /\ slot' = [slot EXCEPT ![t] = dir[d].blockToIndex[want[t]]]
    /\ old' = [old EXCEPT ![t] = want[t]]
    /\ dir' = [dir EXCEPT ![d] = Touch(dir[d], want[t])]
    /\ Goto(t, "lock")
    /\ UNCHANGED <<blockMutex, data, want, probe, remote>>

(* Faulty variant: m_cacheMutex is given back before the slot is locked.   *)
GetMissUnlocked(t) ==
    LET d == DomainOf[t] IN
    /\ pc[t] = "get"
    /\ cacheMutex[d] = NoThread
    /\ ~Stored(dir[d], want[t])
    /\ slot' = [slot EXCEPT ![t] = FreeSlot(dir[d])]
    /\ old' = [old EXCEPT ![t] = Replaced(dir[d])]
    /\ dir' = [dir EXCEPT ![d] = Insert(dir[d], want[t])]
    /\ Goto(t, "lock")
    /\ UNCHANGED <<cacheMutex, blockMutex, data, want, probe, remote>>

GetMiss(t) ==
    LET d == DomainOf[t] IN
    /\ pc[t] = "get"
    /\ cacheMutex[d] = NoThread
    /\ ~Stored(dir[d], want[t])
    /\ cacheMutex' = [cacheMutex EXCEPT ![d] = t]
    /\ slot' = [slot EXCEPT ![t] = FreeSlot(dir[d])]
    /\ old' = [old EXCEPT ![t] = Replaced(dir[d])]
    /\ dir' = [dir EXCEPT ![d] = Insert(dir[d], want[t])]
    /\ Goto(t, "lock")
    /\ UNCHANGED <<blockMutex, data, want, probe, remote>>

(* The rest of CacheManager::get: the slot is locked while the manager is  *)
(* still locked.  getAt then has the block, or has to fill the slot.       *)
LockSlot(t) ==
    LET d == DomainOf[t] IN
    /\ pc[t] = "lock"
    /\ blockMutex[d][slot[t]] = NoThread
    /\ blockMutex' = [blockMutex EXCEPT ![d][slot[t]] = t]
    /\ cacheMutex' = [cacheMutex EXCEPT ![d] = NoThread]
    /\ \/ old[t] = want[t] /\ Goto(t, "read")
       \/ old[t] # want[t] /\ Goto(t, "fill")
    /\ probe' = [probe EXCEPT ![t] =
                    IF NumaTransfer THEN FirstFrom(t, 0) ELSE NumDomains]
    /\ UNCHANGED <<dir, data, want, slot, old, remote>>

-----------------------------------------------------------------------------
(* NumaCache::transfer: tryGet on the other domains, one after the other.  *)
NextDomain(t) == probe' = [probe EXCEPT ![t] = FirstFrom(t, @ + 1)]

(* Faulty variant: tryGet insists on m_cacheMutex.                         *)
PeekSpin(t) ==
    /\ pc[t] = "fill"
    /\ probe[t] \in Domain
    /\ cacheMutex[probe[t]] # NoThread
    /\ UNCHANGED vars

PeekBusy(t) ==
    /\ pc[t] = "fill"
    /\ probe[t] \in Domain
    /\ cacheMutex[probe[t]] # NoThread
    /\ NextDomain(t)
    /\ UNCHANGED <<dir, cacheMutex, blockMutex, data, pc, want, slot, old, remote>>

PeekLock(t) ==
    /\ pc[t] = "fill"
    /\ probe[t] \in Domain
    /\ cacheMutex[probe[t]] = NoThread
    /\ cacheMutex' = [cacheMutex EXCEPT ![probe[t]] = t]
    /\ Goto(t, "peek")
    /\ UNCHANGED <<dir, blockMutex, data, want, slot, old, probe, remote>>

(* Can tryGet lock the block, and where.                                   *)
RemoteSlot(t) == dir[probe[t]].blockToIndex[want[t]]

(* Faulty variant: tryGet does not try to lock the slot.                   *)
AvailableUnlocked(t) == Stored(dir[probe[t]], want[t])

Available(t) ==
    /\ Stored(dir[probe[t]], want[t])
    /\ blockMutex[probe[t]][RemoteSlot(t)] = NoThread

PeekFail(t) ==
    /\ pc[t] = "peek"
    /\ ~Available(t)
    /\ cacheMutex' = [cacheMutex EXCEPT ![probe[t]] = NoThread]
    /\ NextDomain(t)
    /\ Goto(t, "fill")
    /\ UNCHANGED <<dir, blockMutex, data, want, slot, old, remote>>

(* tryGet succeeds: the copy into the own slot begins.                     *)
PeekSuccess(t) ==
    /\ pc[t] = "peek"
    /\ Available(t)
    /\ blockMutex' = [blockMutex EXCEPT ![probe[t]][RemoteSlot(t)] = t]
    /\ cacheMutex' = [cacheMutex EXCEPT ![probe[t]] = NoThread]
    /\ remote' = [remote EXCEPT ![t] = RemoteSlot(t)]
    /\ data' = [data EXCEPT ![DomainOf[t]][slot[t]] = Torn]
    /\ Goto(t, "copy")
    /\ UNCHANGED <<dir, want, slot, old, probe>>

CopyDone(t) ==
    /\ pc[t] = "copy"
    /\ data' = [data EXCEPT ![DomainOf[t]][slot[t]] = data[probe[t]][remote[t]]]
    /\ blockMutex' = [blockMutex EXCEPT ![probe[t]][remote[t]] = NoThread]
    /\ Goto(t, "read")
    /\ UNCHANGED <<dir, cacheMutex, want, slot, old, probe, remote>>

-----------------------------------------------------------------------------
(* loadBlock: the block is read from the file.                             *)
LoadStart(t) ==
    /\ pc[t] = "fill"
    /\ probe[t] \notin Domain
    /\ data' = [data EXCEPT ![DomainOf[t]][slot[t]] = Torn]
    /\ Goto(t, "load")
    /\ UNCHANGED <<dir, cacheMutex, blockMutex, want, slot, old, probe, remote>>

LoadDone(t) ==
    /\ pc[t] = "load"
    /\ data' = [data EXCEPT ![DomainOf[t]][slot[t]] = want[t]]
    /\ Goto(t, "read")
    /\ UNCHANGED <<dir, cacheMutex, blockMutex, want, slot, old, probe, remote>>

(* The value is converted into the caller's buffer and the slot unlocked.  *)
(* The local variables of getAt end with it.                               *)
Return(t) ==
    /\ pc[t] = "read"
    /\ blockMutex' = [blockMutex EXCEPT ![DomainOf[t]][slot[t]] = NoThread]
    /\ Goto(t, "idle")
    /\ want' = [want EXCEPT ![t] = Absent]
    /\ slot' = [slot EXCEPT ![t] = 0]
    /\ old' = [old EXCEPT ![t] = Absent]
    /\ probe' = [probe EXCEPT ![t] = 0]
    /\ remote' = [remote EXCEPT ![t] = 0]
    /\ UNCHANGED <<dir, cacheMutex, data>>

(* Inside getAt a thread never stops by itself.                            *)
Continue(t) ==
    \/ GetHit(t) \/ GetMiss(t) \/ LockSlot(t)
    \/ PeekBusy(t) \/ PeekLock(t) \/ PeekFail(t) \/ PeekSuccess(t) \/ CopyDone(t)
    \/ LoadStart(t) \/ LoadDone(t) \/ Return(t)

Next == \E t \in Thread : Continue(t) \/ \E b \in Block : Call(t, b)

Spec == Init /\ [][Next]_vars

(* A thread inside getAt is scheduled; nothing is assumed about who gets a *)
(* contended mutex.                                                        *)
FairSpec == Spec /\ \A t \in Thread : WF_vars(Continue(t))

-----------------------------------------------------------------------------
TypeOK ==
    /\ dir \in [Domain -> Directory]
    /\ cacheMutex \in [Domain -> Thread \cup {NoThread}]
    /\ blockMutex \in [Domain -> [Slots -> Thread \cup {NoThread}]]
    /\ data \in [Domain -> [Slots -> Content]]
    /\ pc \in [Thread -> PC]
    /\ want \in [Thread -> Block \cup {Absent}]
    /\ slot \in [Thread -> Slots]
    /\ old \in [Thread -> Block \cup {Absent}]
    /\ probe \in [Thread -> 0 .. NumDomains]
    /\ remote \in [Thread -> Slots]

(* Between locking its slot and the call's value, a thread fills the slot. *)
Filling == {"fill", "peek", "copy", "load"}

(* The values handed to the caller are those of the block it asked for:    *)
(* a slot that was remapped while a thread waited for it, copied from, or  *)
(* filled by another thread is never read with the wrong or half-written   *)
(* content.                                                                *)
ReadsRequestedBlock ==
    \A t \in Thread : pc[t] = "read" => data[DomainOf[t]][slot[t]] = want[t]

(* A domain whose manager is free tells the truth: a slot nobody has       *)
(* locked contains the block the directory says.                           *)
DirectoryTruthful ==
    \A d \in Domain, s \in Slots :
        cacheMutex[d] = NoThread /\ blockMutex[d][s] = NoThread
            => data[d][s] = dir[d].indexToBlock[s]

(* A block is fetched by one thread of a domain at a time: a second one    *)
(* that wants it waits for the slot, although the block may have been      *)
(* evicted, requested again and evicted again in the meantime.             *)
SingleFill ==
    \A t, u \in Thread :
        /\ pc[t] \in Filling /\ pc[u] \in Filling
        /\ DomainOf[t] = DomainOf[u] /\ want[t] = want[u]
        => t = u

(* tryGet and the order of the mutexes keep the level going: as long as    *)
(* somebody is inside getAt, some call reaches its value.  The comments of *)
(* CacheManager::tryGet promise the absence of deadlocks.                  *)
SomeCallCompletes ==
    []<>((\A t \in Thread : pc[t] = "idle") \/ (\E t \in Thread : pc[t] = "read"))

-----------------------------------------------------------------------------
(* The parts of the inductive invariant of CacheLevelProofs.               *)

OwnsManager(t, d) ==
    \/ pc[t] = "lock" /\ DomainOf[t] = d
    \/ pc[t] = "peek" /\ probe[t] = d

OwnsSlot(t, d, s) ==
    \/ pc[t] \in Filling \cup {"read"} /\ DomainOf[t] = d /\ slot[t] = s
    \/ pc[t] = "copy" /\ probe[t] = d /\ remote[t] = s

(* The mutexes are held by the threads whose position says so.             *)
MutexesOwned ==
    \A t \in Thread, d \in Domain :
        /\ cacheMutex[d] = t <=> OwnsManager(t, d)
        /\ \A s \in Slots : blockMutex[d][s] = t <=> OwnsSlot(t, d, s)

(* A thread looks only into the caches of other domains.                   *)
ProbesOthers ==
    \A t \in Thread :
        /\ pc[t] \in Filling => probe[t] # DomainOf[t]
        /\ pc[t] \in {"peek", "copy"} => probe[t] \in Domain

DirectoriesSound ==
    \A d \in Domain : HandsApart(dir[d].clock) /\ Agree(dir[d])

(* Slot s is about to be filled with another block, by a thread that waits *)
(* for its present users.                                                  *)
Condemned(d, s) ==
    \E t \in Thread :
        pc[t] = "lock" /\ DomainOf[t] = d /\ slot[t] = s /\ old[t] # want[t]

BeingFilled(d, s) ==
    \E t \in Thread : pc[t] \in Filling /\ DomainOf[t] = d /\ slot[t] = s

CallsWant == \A t \in Thread : pc[t] # "idle" => want[t] \in Block

WaitersEntered ==
    \A t \in Thread :
        pc[t] = "lock" => dir[DomainOf[t]].indexToBlock[slot[t]] = want[t]

FillersEntered ==
    \A t \in Thread :
        pc[t] \in Filling /\ ~Condemned(DomainOf[t], slot[t])
            => dir[DomainOf[t]].indexToBlock[slot[t]] = want[t]

(* A slot nobody fills or is about to fill contains its directory entry.   *)
RestingTruthful ==
    \A d \in Domain, s \in Slots :
        ~BeingFilled(d, s) /\ ~Condemned(d, s)
            => data[d][s] = dir[d].indexToBlock[s]

CopiesTruthful ==
    \A t \in Thread : pc[t] = "copy" => data[probe[t]][remote[t]] = want[t]

Inv ==
    /\ TypeOK
    /\ MutexesOwned
    /\ ProbesOthers
    /\ DirectoriesSound
    /\ CallsWant
    /\ WaitersEntered
    /\ FillersEntered
    /\ RestingTruthful
    /\ CopiesTruthful
    /\ SingleFill
    /\ ReadsRequestedBlock
=============================================================================
