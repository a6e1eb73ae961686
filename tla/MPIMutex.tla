------------------------------- MODULE MPIMutex -------------------------------
(***************************************************************************)
(* The distributed mutex of mpi/mutex.h.  A lock is one long in the window *)
(* of a rank.  acquire() swaps the caller's lock id into it and learns the *)
(* id of its predecessor; wait() tells the predecessor, with a synchronous *)
(* send addressed by that id, that somebody waits; release() swaps the     *)
(* word back to unlocked, or receives the message of the successor when    *)
(* somebody else's id is in the word.                                      *)
(*                                                                         *)
(* acquire() and the compare-and-swap of release() are steps because the   *)
(* caller has locked the window.  A contended release keeps the window     *)
(* locked while it receives; its successor has given the window back       *)
(* before it sends.                                                        *)
(*                                                                         *)
(* The mutex is used as MPIWinCache uses it: the words are written once    *)
(* more when a rank opens its level, after the window exists, and a thread *)
(* acquires one lock at a time.                                            *)
(***************************************************************************)
EXTENDS Integers

CONSTANTS
    NumRanks,       \* size of the communicator
    NumThreads,     \* totalThreads(), the same on every rank
    Lock,           \* the words: one per dictionary entry
    HostOf,         \* the rank whose window contains the word
    OpenBarrier,    \* do the ranks synchronise after opening the level
    NoLock          \* the lock of a thread that uses none

Rank == 0 .. NumRanks - 1

(* A thread of a rank.                                                     *)
Client == Rank \X (0 .. NumThreads - 1)

ASSUME MPIMutexAssumption ==
    /\ NumRanks \in Nat \ {0}
    /\ NumThreads \in Nat \ {0}
    /\ HostOf \in [Lock -> Rank]
    /\ OpenBarrier \in BOOLEAN
    /\ NoLock \notin Lock

Unlocked == -1                  \* MUTEX_UNLOCKED

(* lockId(), and how wait() takes a lock id apart into rank and tag.       *)
LockId(c) == c[1] * NumThreads + c[2]

(* Faulty variant: rank and thread are mixed up.                           *)
OwnerSwapped(id) == <<id % NumThreads, id \div NumThreads>>

Owner(id) == <<id \div NumThreads, id % NumThreads>>

VARIABLES
    opened,         \* the ranks that have initialised their mutex memory
    word,           \* the mutex memory
    pc,             \* where a thread is
    lock,           \* the lock a thread is using
    oldLock,        \* what acquire() returned to it; Unlocked when of no more use
    mail            \* the senders that wait in MPI_Ssend, by (rank, tag)

vars == <<opened, word, pc, lock, oldLock, mail>>

PC == {"idle", "wait", "sent", "held", "release"}

Init ==
    /\ opened = {}
    /\ word = [l \in Lock |-> Unlocked]
    /\ pc = [c \in Client |-> "idle"]
    /\ lock = [c \in Client |-> NoLock]
    /\ oldLock = [c \in Client |-> Unlocked]
    /\ mail = [c \in Client |-> {}]

(* The end of MPIWinCache::init on rank r.                                 *)
InitMutexMem(r) ==
    /\ r \notin opened
    /\ opened' = opened \cup {r}
    /\ word' = [l \in Lock |-> IF HostOf[l] = r THEN Unlocked ELSE word[l]]
    /\ UNCHANGED <<pc, lock, oldLock, mail>>

(* Faulty variant: nothing keeps a rank from using a level that is not     *)
(* open everywhere.                                                        *)
MayUseEarly(c) == c[1] \in opened

(* A rank that has opened the level uses it, whatever the others do,       *)
(* unless the application synchronises them.                               *)
MayUse(c) == c[1] \in opened /\ (OpenBarrier => opened = Rank)

Acquire(c, l) ==
    /\ pc[c] = "idle"
    /\ MayUse(c)
    /\ word' = [word EXCEPT ![l] = LockId(c)]
    /\ oldLock' = [oldLock EXCEPT ![c] = word[l]]
    /\ lock' = [lock EXCEPT ![c] = l]
    /\ \/ word[l] < 0 /\ pc' = [pc EXCEPT ![c] = "held"]
       \/ word[l] >= 0 /\ pc' = [pc EXCEPT ![c] = "wait"]
    /\ UNCHANGED <<opened, mail>>

(* wait(): the synchronous send is posted ...                              *)
Send(c) ==
    /\ pc[c] = "wait"
    /\ mail' = [mail EXCEPT ![Owner(oldLock[c])] = @ \cup {c}]
    /\ pc' = [pc EXCEPT ![c] = "sent"]
    /\ UNCHANGED <<opened, word, lock, oldLock>>

(* Faulty variant: the send is not synchronous.                            *)
SendDoneAtOnce(c) ==
    /\ pc[c] = "sent"
    /\ oldLock' = [oldLock EXCEPT ![c] = Unlocked]
    /\ pc' = [pc EXCEPT ![c] = "held"]
    /\ UNCHANGED <<opened, word, lock, mail>>

(* ... and completes once its message has been received.                   *)
SendDone(c) ==
    /\ pc[c] = "sent"
    /\ c \notin mail[Owner(oldLock[c])]
    /\ oldLock' = [oldLock EXCEPT ![c] = Unlocked]
    /\ pc' = [pc EXCEPT ![c] = "held"]
    /\ UNCHANGED <<opened, word, lock, mail>>

Finish(c) ==
    /\ pc' = [pc EXCEPT ![c] = "idle"]
    /\ lock' = [lock EXCEPT ![c] = NoLock]

(* Faulty variant: the word is overwritten without a comparison.           *)
ReleaseBlindly(c) ==
    /\ pc[c] = "held"
    /\ word' = [word EXCEPT ![lock[c]] = Unlocked]
    /\ Finish(c)
    /\ UNCHANGED <<opened, oldLock, mail>>

(* release(): compare and swap, without and with a successor.              *)
ReleaseFree(c) ==
    /\ pc[c] = "held"
    /\ word[lock[c]] = LockId(c)
    /\ word' = [word EXCEPT ![lock[c]] = Unlocked]
    /\ Finish(c)
    /\ UNCHANGED <<opened, oldLock, mail>>

ReleaseContended(c) ==
    /\ pc[c] = "held"
    /\ word[lock[c]] # LockId(c)
    /\ pc' = [pc EXCEPT ![c] = "release"]
    /\ UNCHANGED <<opened, word, lock, oldLock, mail>>

(* The receive takes a message from any source.                            *)
Receive(c) ==
    /\ pc[c] = "release"
    /\ \E s \in mail[c] : mail' = [mail EXCEPT ![c] = @ \ {s}]
    /\ Finish(c)
    /\ UNCHANGED <<opened, word, oldLock>>

(* A thread that has started with a lock goes on: startTransfer and        *)
(* deleteBlock are always followed by the release.                         *)
Continue(c) ==
    \/ Send(c) \/ SendDone(c)
    \/ ReleaseFree(c) \/ ReleaseContended(c) \/ Receive(c)

Next ==
    \/ \E r \in Rank : InitMutexMem(r)
    \/ \E c \in Client : Continue(c) \/ \E l \in Lock : Acquire(c, l)

Spec == Init /\ [][Next]_vars

FairSpec == Spec /\ \A c \in Client : WF_vars(Continue(c))

-----------------------------------------------------------------------------
TypeOK ==
    /\ opened \subseteq Rank
    /\ word \in [Lock -> {Unlocked} \cup { LockId(c) : c \in Client }]
    /\ pc \in [Client -> PC]
    /\ lock \in [Client -> Lock \cup {NoLock}]
    /\ oldLock \in [Client -> {Unlocked} \cup { LockId(c) : c \in Client }]
    /\ mail \in [Client -> SUBSET Client]

(* Two threads never hold the same lock.                                   *)
MutualExclusion ==
    \A c, d \in Client :
        pc[c] = "held" /\ pc[d] = "held" /\ lock[c] = lock[d] => c = d

(* release() takes its message from any source and the tag names only a    *)
(* thread, not a lock.  Still the message it finds is always the one of    *)
(* its successor on the lock it releases, and never more than one waits.   *)
HandoffMatches ==
    \A c \in Client :
        /\ \A s \in mail[c] : pc[c] # "idle" /\ lock[s] = lock[c]
        /\ \A s, u \in mail[c] : s = u

(* Nobody who waits for a lock is forgotten, neither by the swap nor by    *)
(* the handoff, although a releasing thread and its successor find each    *)
(* other only through the word and a message.                              *)
EveryWaiterServed ==
    \A c \in Client : pc[c] = "wait" ~> pc[c] = "held"
=============================================================================
