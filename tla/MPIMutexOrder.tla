---------------------------- MODULE MPIMutexOrder ----------------------------
(***************************************************************************)
(* MPIMutex with two history variables that make the queue of a lock       *)
(* visible.  The code knows the queue only as a chain: every thread knows  *)
(* the one before it, and the word the last one.                           *)
(***************************************************************************)
EXTENDS MPIMutex

VARIABLES
    place,          \* how many threads are before a thread in its lock's queue
    length          \* the length of a lock's queue

ovars == <<opened, word, pc, lock, oldLock, mail, place, length>>

OInit ==
    /\ Init
    /\ place = [c \in Client |-> 0]
    /\ length = [l \in Lock |-> 0]

Join(c, l) ==
    /\ place' = [place EXCEPT ![c] = length[l]]
    /\ length' = [length EXCEPT ![l] = @ + 1]

(* The first thread leaves the queue of its lock.                          *)
Leave(c) ==
    /\ place' = [d \in Client |->
                    IF lock[d] = lock[c] /\ place[d] > 0 THEN place[d] - 1 ELSE place[d]]
    /\ length' = [length EXCEPT ![lock[c]] = @ - 1]

OAcquire(c, l) == Acquire(c, l) /\ Join(c, l)

ORelease(c) == (ReleaseFree(c) \/ Receive(c)) /\ Leave(c)

OStay(c) ==
    /\ Send(c) \/ SendDone(c) \/ ReleaseContended(c)
    /\ UNCHANGED <<place, length>>

OInitMutexMem(r) == InitMutexMem(r) /\ UNCHANGED <<place, length>>

ONext ==
    \/ \E r \in Rank : OInitMutexMem(r)
    \/ \E c \in Client : OStay(c) \/ ORelease(c) \/ \E l \in Lock : OAcquire(c, l)

OSpec == OInit /\ [][ONext]_ovars

(* The history variables neither allow nor forbid a step.                  *)
OFairSpec == OSpec /\ \A c \in Client : WF_ovars(OStay(c) \/ ORelease(c))

-----------------------------------------------------------------------------
(* The lock is handed on in the order of the swaps: a thread holds it only *)
(* at the head of the queue, and no two threads have the same place.       *)
ServedInOrder ==
    /\ \A c \in Client : pc[c] = "held" => place[c] = 0
    /\ \A c, d \in Client :
          pc[c] # "idle" /\ lock[c] = lock[d] /\ place[c] = place[d] => c = d

-----------------------------------------------------------------------------
(* The parts of the inductive invariant of MPIMutexProofs.                 *)

OTypeOK ==
    /\ TypeOK
    /\ place \in [Client -> Nat]
    /\ length \in [Lock -> Nat]

(* The client whose message has not been received yet.                     *)
Pending(c) ==
    \/ pc[c] = "wait"
    \/ pc[c] = "sent" /\ c \in mail[Owner(oldLock[c])]

LocksNamed == \A c \in Client : pc[c] = "idle" <=> lock[c] = NoLock

QuietUntilOpened ==
    opened # Rank =>
        /\ \A c \in Client : pc[c] = "idle"
        /\ \A l \in Lock : word[l] = Unlocked

PlacesInQueue ==
    /\ \A c \in Client : pc[c] # "idle" => place[c] < length[lock[c]]
    /\ \A c, d \in Client :
          pc[c] # "idle" /\ lock[c] = lock[d] /\ place[c] = place[d] => c = d

(* The word names the last thread of the queue.                            *)
WordNamesLast ==
    \A l \in Lock :
        /\ word[l] = Unlocked <=> length[l] = 0
        /\ \A c \in Client :
              word[l] = LockId(c) <=> lock[c] = l /\ place[c] = length[l] - 1

(* A pending thread knows the one before it.                               *)
PendingKnowPredecessor ==
    \A c \in Client :
        Pending(c) => \E p \in Client :
            oldLock[c] = LockId(p) /\ lock[p] = lock[c] /\ place[p] = place[c] - 1

OthersAtFront ==
    \A c \in Client : pc[c] # "idle" /\ ~Pending(c) => place[c] = 0

MailFromSuccessors ==
    \A p \in Client : \A s \in mail[p] : pc[s] = "sent" /\ oldLock[s] = LockId(p)

OInv ==
    /\ OTypeOK
    /\ LocksNamed
    /\ QuietUntilOpened
    /\ PlacesInQueue
    /\ WordNamesLast
    /\ PendingKnowPredecessor
    /\ OthersAtFront
    /\ MailFromSuccessors
=============================================================================
