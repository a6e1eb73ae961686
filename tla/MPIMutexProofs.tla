---------------------------- MODULE MPIMutexProofs ----------------------------
(***************************************************************************)
(* Proofs about the distributed mutex, for every number of ranks, threads  *)
(* and locks, when the ranks synchronise after opening the level.          *)
(***************************************************************************)
EXTENDS MPIMutexOrder, TLAPS

(* wait() takes a lock id apart into the rank and thread it was made from. *)
LEMMA LockIdFacts ==
  ASSUME NEW c \in Client
  PROVE  LockId(c) \in Nat /\ LockId(c) # Unlocked /\ Owner(LockId(c)) = c
<1>1. PICK r \in Rank, t \in 0 .. NumThreads - 1 : c = <<r, t>>
  BY DEF Client
<1>2. r \in Nat /\ NumThreads \in Nat \ {0}
  BY MPIMutexAssumption DEF Rank
<1>3. r * NumThreads + t \in Nat
  BY <1>2
<1>4. (r * NumThreads + t) \div NumThreads = r
  BY <1>2
<1>5. (r * NumThreads + t) % NumThreads = t
  BY <1>2
<1> QED  BY <1>1, <1>3, <1>4, <1>5 DEF LockId, Owner, Unlocked

LEMMA LockIdInjective ==
  ASSUME NEW c \in Client, NEW d \in Client, LockId(c) = LockId(d)
  PROVE  c = d
BY LockIdFacts

LEMMA InitMutexMemInv ==
  ASSUME OInv, NEW r \in Rank, OInitMutexMem(r), OpenBarrier
  PROVE  OInv'
<1>a. /\ \A d \in Client : pc[d] = "idle"
      /\ \A l \in Lock : word[l] = Unlocked
  BY DEF OInitMutexMem, InitMutexMem, OInv, QuietUntilOpened
<1>b. \A l \in Lock : word'[l] = word[l]
  BY <1>a DEF OInitMutexMem, InitMutexMem
<1>1. OTypeOK'
  BY <1>b DEF OInv, OInitMutexMem, InitMutexMem, OTypeOK, TypeOK
<1>2. LocksNamed'
  BY <1>b DEF OInv, LocksNamed, OInitMutexMem, InitMutexMem
<1>3. QuietUntilOpened'
  BY <1>b DEF OInv, QuietUntilOpened, OInitMutexMem, InitMutexMem
<1>4. PlacesInQueue'
  BY <1>b DEF OInv, PlacesInQueue, OInitMutexMem, InitMutexMem
<1>5. WordNamesLast'
  BY <1>b DEF OInitMutexMem, InitMutexMem, OInv, WordNamesLast
<1>6. PendingKnowPredecessor'
  BY <1>b DEF OInv, PendingKnowPredecessor, OInitMutexMem, InitMutexMem, Pending
<1>7. OthersAtFront'
  BY <1>b DEF OInv, OthersAtFront, OInitMutexMem, InitMutexMem, Pending
<1>8. MailFromSuccessors'
  BY <1>b DEF OInv, MailFromSuccessors, OInitMutexMem, InitMutexMem
<1> QED
  BY <1>1, <1>2, <1>3, <1>4, <1>5, <1>6, <1>7, <1>8 DEF OInv

LEMMA AcquireInv ==
  ASSUME OInv, NEW c \in Client, NEW l \in Lock, OAcquire(c, l), OpenBarrier
  PROVE  OInv'
<1>a. /\ pc[c] = "idle" /\ lock[c] = NoLock /\ length[l] \in Nat /\ NoLock \notin Lock
      /\ \A p \in Client : c \notin mail[p]
  BY MPIMutexAssumption
     DEF OAcquire, Acquire, OInv, OTypeOK, LocksNamed, MailFromSuccessors
<1>b. /\ \A d \in Client : /\ lock'[d] = IF d = c THEN l ELSE lock[d]
                           /\ place'[d] = IF d = c THEN length[l] ELSE place[d]
                           /\ oldLock'[d] = IF d = c THEN word[l] ELSE oldLock[d]
                           /\ d # c => pc'[d] = pc[d]
      /\ \A k \in Lock : /\ length'[k] = IF k = l THEN length[l] + 1 ELSE length[k]
                         /\ word'[k] = IF k = l THEN LockId(c) ELSE word[k]
      /\ mail' = mail
  BY DEF OAcquire, Acquire, Join, OInv, OTypeOK, TypeOK
<1>c. pc'[c] = IF word[l] = Unlocked THEN "held" ELSE "wait"
  <2>1. word[l] = Unlocked \/ (word[l] \in Nat /\ word[l] # Unlocked)
    BY LockIdFacts DEF OInv, OTypeOK, TypeOK
  <2> QED  BY <2>1 DEF OAcquire, Acquire, OInv, OTypeOK, TypeOK, Unlocked
<1>d. \A d \in Client : Pending(d)' <=>
        IF d = c THEN word[l] # Unlocked ELSE Pending(d)
  BY <1>b, <1>c DEF Pending
<1>e. \A d \in Client : lock[d] \in Lock => pc[d] # "idle" /\ d # c
  BY <1>a DEF OInv, LocksNamed
<1>1. OTypeOK'
  BY <1>e DEF OInv, OAcquire, Acquire, Join, PC, OTypeOK, TypeOK
<1>2. LocksNamed'
  BY <1>e DEF OInv, LocksNamed, OAcquire, Acquire, OTypeOK, TypeOK
<1>3. QuietUntilOpened'
  BY <1>e DEF QuietUntilOpened, OAcquire, Acquire, MayUse
<1>4. PlacesInQueue'
  <2>1. ASSUME NEW d \in Client, pc'[d] # "idle"
        PROVE  place'[d] < length'[lock'[d]]
    <3>1. CASE d = c
      BY <1>a, <1>b, <3>1
    <3>2. CASE d # c
      <4>1. place[d] < length[lock[d]] /\ lock[d] \in Lock
        BY <1>b, <2>1, <3>2 DEF OInv, PlacesInQueue, LocksNamed, OTypeOK, TypeOK
      <4> QED  BY <1>b, <4>1 DEF OInv, OTypeOK
    <3> QED  BY <3>1, <3>2
  <2>2. ASSUME NEW d \in Client, NEW e \in Client, pc'[d] # "idle",
               lock'[d] = lock'[e], place'[d] = place'[e]
        PROVE  d = e
    <3>1. ASSUME NEW x \in Client, x # c, lock[x] = l PROVE place[x] # length[l]
      BY <1>e, <3>1 DEF OInv, PlacesInQueue, OTypeOK
    <3> QED  BY <1>b, <2>2, <3>1 DEF OInv, PlacesInQueue
  <2> QED  BY <2>1, <2>2 DEF PlacesInQueue
<1>5. WordNamesLast'
  <2> SUFFICES ASSUME NEW k \in Lock
               PROVE  /\ word'[k] = Unlocked <=> length'[k] = 0
                      /\ \A d \in Client :
                            word'[k] = LockId(d) <=>
                               lock'[d] = k /\ place'[d] = length'[k] - 1
    BY DEF WordNamesLast
  <2>1. CASE k # l
    <3>1. word[k] # LockId(c)
      BY <1>a DEF OInv, WordNamesLast
    <3> QED  BY <1>b, <2>1, <3>1 DEF OInv, WordNamesLast
  <2>2. CASE k = l
    <3>1. word'[k] = LockId(c) /\ LockId(c) # Unlocked /\ length'[k] = length[l] + 1
      BY <1>b, <2>2, LockIdFacts
    <3>2. ASSUME NEW d \in Client, d # c
          PROVE  LockId(d) # LockId(c) /\ ~(lock[d] = l /\ place[d] = length[l])
      BY <1>e, <3>2, LockIdInjective DEF OInv, PlacesInQueue, OTypeOK
    <3> QED  BY <1>a, <1>b, <2>2, <3>1, <3>2
  <2> QED  BY <2>1, <2>2
<1>6. PendingKnowPredecessor'
  <2> SUFFICES ASSUME NEW d \in Client, Pending(d)'
               PROVE  \E p \in Client :
                        /\ oldLock'[d] = LockId(p) /\ lock'[p] = lock'[d]
                        /\ place'[p] = place'[d] - 1
    BY DEF PendingKnowPredecessor
  <2>1. CASE d = c
    <3>1. PICK p \in Client : word[l] = LockId(p)
      BY <1>d, <2>1 DEF OInv, OTypeOK, TypeOK
    <3>2. lock[p] = l /\ place[p] = length[l] - 1
      BY <3>1 DEF OInv, WordNamesLast
    <3>3. p # c
      BY <1>e, <3>2
    <3> QED  BY <1>b, <2>1, <3>1, <3>2, <3>3
  <2>2. CASE d # c
    <3>1. Pending(d)
      BY <1>d, <2>2
    <3>2. PICK p \in Client : /\ oldLock[d] = LockId(p) /\ lock[p] = lock[d]
                             /\ place[p] = place[d] - 1
      BY <3>1 DEF OInv, PendingKnowPredecessor
    <3>3. p # c
      <4>1. lock[d] \in Lock
        BY <3>1 DEF Pending, OInv, LocksNamed, OTypeOK, TypeOK
      <4> QED  BY <1>e, <3>2, <4>1
    <3> QED  BY <1>b, <2>2, <3>2, <3>3
  <2> QED  BY <2>1, <2>2
<1>7. OthersAtFront'
  <2> SUFFICES ASSUME NEW d \in Client, pc'[d] # "idle", ~Pending(d)'
               PROVE  place'[d] = 0
    BY DEF OthersAtFront
  <2>1. CASE d = c
    BY <1>b, <1>d, <2>1 DEF OInv, WordNamesLast
  <2>2. CASE d # c
    BY <1>b, <1>d, <2>2 DEF OInv, OthersAtFront
  <2> QED  BY <2>1, <2>2
<1>8. MailFromSuccessors'
  BY <1>e DEF OInv, MailFromSuccessors, OAcquire, Acquire, OTypeOK, TypeOK
<1> QED
  BY <1>1, <1>2, <1>3, <1>4, <1>5, <1>6, <1>7, <1>8 DEF OInv

LEMMA SendInv ==
  ASSUME OInv, NEW c \in Client, Send(c), UNCHANGED <<place, length>>
  PROVE  OInv'
<1>a. PICK p \in Client : oldLock[c] = LockId(p)
  BY DEF Send, OInv, PendingKnowPredecessor, Pending
<1>b. Owner(oldLock[c]) = p
  BY <1>a, LockIdFacts
<1>c. /\ \A q \in Client : mail'[q] = IF q = p THEN mail[q] \cup {c} ELSE mail[q]
      /\ \A d \in Client : pc'[d] = IF d = c THEN "sent" ELSE pc[d]
      /\ oldLock' = oldLock
  BY <1>b DEF Send, OInv, OTypeOK, TypeOK
<1>d. \A d \in Client : Pending(d)' <=> Pending(d)
  <2> SUFFICES ASSUME NEW d \in Client PROVE Pending(d)' <=> Pending(d)
    OBVIOUS
  <2>1. CASE d = c
    BY <1>b, <1>c DEF Pending, Send
  <2>2. CASE d # c
    <3>1. d \in mail'[Owner(oldLock[d])] <=> d \in mail[Owner(oldLock[d])]
      <4>1. mail' = [mail EXCEPT ![p] = @ \cup {c}] /\ mail \in [Client -> SUBSET Client]
        BY <1>b DEF Send, OInv, OTypeOK, TypeOK
      <4> QED  BY <2>2, <4>1
    <3> QED  BY <1>c, <2>2, <3>1 DEF Pending
  <2> QED  BY <2>1, <2>2
<1>1. OTypeOK'
  BY <1>b DEF OInv, Send, PC, OTypeOK, TypeOK
<1>2. LocksNamed'
  BY DEF OInv, LocksNamed, Send
<1>3. QuietUntilOpened'
  BY DEF OInv, QuietUntilOpened, Send
<1>4. PlacesInQueue'
  BY DEF OInv, PlacesInQueue, Send
<1>5. WordNamesLast'
  BY DEF OInv, WordNamesLast, Send
<1>6. PendingKnowPredecessor'
  BY DEF OInv, PendingKnowPredecessor, Send, Pending
<1>7. OthersAtFront'
  BY <1>d DEF Send, OInv, OthersAtFront
<1>8. MailFromSuccessors'
  <2> SUFFICES ASSUME NEW q \in Client, NEW s \in mail'[q]
               PROVE  pc'[s] = "sent" /\ oldLock'[s] = LockId(q)
    BY DEF MailFromSuccessors
  <2>0. s \in mail[q] \/ (q = p /\ s = c)
    BY <1>c
  <2>1. CASE q = p /\ s = c
    BY <1>a, <1>c, <2>1
  <2>2. CASE s \in mail[q]
    <3>1. s \in Client
      BY <2>2 DEF OInv, OTypeOK, TypeOK
    <3> QED  BY <1>c, <2>2, <3>1 DEF OInv, MailFromSuccessors
  <2> QED  BY <2>0, <2>1, <2>2
<1> QED
  BY <1>1, <1>2, <1>3, <1>4, <1>5, <1>6, <1>7, <1>8 DEF OInv

LEMMA SendDoneInv ==
  ASSUME OInv, NEW c \in Client, SendDone(c), UNCHANGED <<place, length>>
  PROVE  OInv'
<1>1. OTypeOK'
  BY DEF OInv, SendDone, PC, OTypeOK, TypeOK
<1>2. LocksNamed'
  BY DEF OInv, LocksNamed, SendDone
<1>3. QuietUntilOpened'
  BY DEF OInv, QuietUntilOpened, SendDone
<1>4. PlacesInQueue'
  BY DEF OInv, PlacesInQueue, SendDone
<1>5. WordNamesLast'
  BY DEF OInv, WordNamesLast, SendDone
<1>6. PendingKnowPredecessor'
  BY DEF OInv, PendingKnowPredecessor, SendDone, OTypeOK, TypeOK, Pending
<1>7. OthersAtFront'
  BY DEF OInv, OthersAtFront, SendDone, Pending
<1>8. MailFromSuccessors'
  BY LockIdFacts DEF OInv, MailFromSuccessors, SendDone
<1> QED
  BY <1>1, <1>2, <1>3, <1>4, <1>5, <1>6, <1>7, <1>8 DEF OInv

LEMMA ReleaseContendedInv ==
  ASSUME OInv, NEW c \in Client, ReleaseContended(c), UNCHANGED <<place, length>>
  PROVE  OInv'
<1>1. OTypeOK'
  BY DEF OInv, ReleaseContended, PC, OTypeOK, TypeOK
<1>2. LocksNamed'
  BY DEF OInv, LocksNamed, ReleaseContended
<1>3. QuietUntilOpened'
  BY DEF OInv, QuietUntilOpened, ReleaseContended
<1>4. PlacesInQueue'
  BY DEF OInv, PlacesInQueue, ReleaseContended
<1>5. WordNamesLast'
  BY DEF OInv, WordNamesLast, ReleaseContended
<1>6. PendingKnowPredecessor'
  BY DEF OInv, PendingKnowPredecessor, ReleaseContended, Pending
<1>7. OthersAtFront'
  BY DEF OInv, OthersAtFront, ReleaseContended, Pending
<1>8. MailFromSuccessors'
  BY DEF OInv, MailFromSuccessors, ReleaseContended
<1> QED
  BY <1>1, <1>2, <1>3, <1>4, <1>5, <1>6, <1>7, <1>8 DEF OInv

LEMMA ReleaseFreeInv ==
  ASSUME OInv, NEW c \in Client, ReleaseFree(c), Leave(c)
  PROVE  OInv'
<1>a. PICK l \in Lock : l = lock[c]
  BY DEF ReleaseFree, OInv, LocksNamed, OTypeOK, TypeOK
<1>b. /\ NoLock \notin Lock /\ pc[c] = "held" /\ length \in [Lock -> Nat]
      /\ place \in [Client -> Nat]
  BY MPIMutexAssumption DEF ReleaseFree, OInv, OTypeOK
<1>c. length[l] = 1 /\ place[c] = 0
  <2>1. place[c] = 0
    BY <1>b DEF OInv, OthersAtFront, Pending
  <2>2. place[c] = length[l] - 1
    BY <1>a DEF ReleaseFree, OInv, WordNamesLast
  <2> QED  BY <1>b, <2>1, <2>2
<1>d. \A d \in Client : lock[d] = l => d = c
  <2> SUFFICES ASSUME NEW d \in Client, lock[d] = l PROVE d = c
    OBVIOUS
  <2>1. pc[d] # "idle"
    BY <1>b DEF OInv, LocksNamed
  <2>2. place[d] = 0
    BY <1>b, <1>c, <2>1 DEF OInv, PlacesInQueue
  <2> QED  BY <1>a, <1>c, <2>1, <2>2 DEF OInv, PlacesInQueue
<1>e. /\ \A d \in Client : /\ lock'[d] = IF d = c THEN NoLock ELSE lock[d]
                           /\ place'[d] = place[d]
                           /\ pc'[d] = IF d = c THEN "idle" ELSE pc[d]
      /\ \A k \in Lock : /\ length'[k] = IF k = l THEN 0 ELSE length[k]
                         /\ word'[k] = IF k = l THEN Unlocked ELSE word[k]
      /\ place' \in [Client -> Nat]
  <2>1. \A d \in Client : place'[d] = place[d]
    BY <1>a, <1>c, <1>d DEF Leave
  <2>2. place' = [d \in Client |-> place[d]]
    BY <2>1 DEF Leave
  <2>3. length' = [length EXCEPT ![l] = 0]
    BY <1>a, <1>c DEF Leave
  <2> QED  BY <1>a, <2>2, <2>3 DEF ReleaseFree, Finish, OInv, OTypeOK, TypeOK
<1>f. \A d \in Client : Pending(d)' <=> Pending(d) /\ d # c
  BY <1>e DEF ReleaseFree, Pending
<1>g. \A d \in Client : pc[d] # "idle" => lock[d] \in Lock
  BY DEF OInv, LocksNamed, OTypeOK, TypeOK
<1>1. OTypeOK'
  <2>1. length' \in [Lock -> Nat]
    BY <1>a, <1>b, <1>c DEF Leave
  <2> QED  BY <1>e, <2>1 DEF ReleaseFree, Finish, OInv, OTypeOK, TypeOK, PC
<1>2. LocksNamed'
  BY DEF OInv, LocksNamed, ReleaseFree, Finish, OTypeOK, TypeOK
<1>3. QuietUntilOpened'
  BY DEF OInv, QuietUntilOpened, ReleaseFree
<1>4. PlacesInQueue'
  <2>1. ASSUME NEW d \in Client, pc'[d] # "idle"
        PROVE  place'[d] < length'[lock'[d]]
    <3>1. d # c /\ pc[d] # "idle" /\ lock[d] \in Lock /\ lock[d] # l
      BY <1>d, <1>e, <1>g, <2>1
    <3> QED  BY <1>e, <3>1 DEF OInv, PlacesInQueue
  <2>2. ASSUME NEW d \in Client, NEW e \in Client, pc'[d] # "idle",
               lock'[d] = lock'[e], place'[d] = place'[e]
        PROVE  d = e
    <3>1. d # c /\ pc[d] # "idle" /\ lock[d] # NoLock
      BY <1>b, <1>e, <1>g, <2>2
    <3> QED  BY <1>e, <2>2, <3>1 DEF OInv, PlacesInQueue
  <2> QED  BY <2>1, <2>2 DEF PlacesInQueue
<1>5. WordNamesLast'
  <2> SUFFICES ASSUME NEW k \in Lock
               PROVE  /\ word'[k] = Unlocked <=> length'[k] = 0
                      /\ \A d \in Client :
                            word'[k] = LockId(d) <=>
                               lock'[d] = k /\ place'[d] = length'[k] - 1
    BY DEF WordNamesLast
  <2>1. CASE k # l
    <3>1. word[k] # LockId(c) /\ lock[c] # k
      BY <1>a, <2>1 DEF OInv, WordNamesLast
    <3>2. lock'[c] # k /\ word'[k] = word[k] /\ length'[k] = length[k]
      BY <1>b, <1>e, <2>1
    <3> QED  BY <1>e, <3>1, <3>2 DEF OInv, WordNamesLast
  <2>2. CASE k = l
    <3>1. \A d \in Client : lock'[d] # l
      BY <1>b, <1>d, <1>e
    <3> QED  BY <1>e, <2>2, LockIdFacts
  <2> QED  BY <2>1, <2>2
<1>6. PendingKnowPredecessor'
  <2> SUFFICES ASSUME NEW d \in Client, Pending(d)'
               PROVE  \E p \in Client :
                        /\ oldLock'[d] = LockId(p) /\ lock'[p] = lock'[d]
                        /\ place'[p] = place'[d] - 1
    BY DEF PendingKnowPredecessor
  <2>1. Pending(d) /\ d # c
    BY <1>f
  <2>2. PICK p \in Client : /\ oldLock[d] = LockId(p) /\ lock[p] = lock[d]
                           /\ place[p] = place[d] - 1
    BY <2>1 DEF OInv, PendingKnowPredecessor
  <2>3. p # c
    BY <1>a, <1>d, <2>1, <2>2
  <2> QED  BY <1>e, <2>1, <2>2, <2>3 DEF ReleaseFree
<1>7. OthersAtFront'
  BY DEF OInv, OthersAtFront, ReleaseFree, Finish, Leave, Pending
<1>8. MailFromSuccessors'
  BY DEF OInv, MailFromSuccessors, ReleaseFree, Finish
<1> QED
  BY <1>1, <1>2, <1>3, <1>4, <1>5, <1>6, <1>7, <1>8 DEF OInv

LEMMA ReceiveInv ==
  ASSUME OInv, NEW c \in Client, Receive(c), Leave(c)
  PROVE  OInv'
<1>a. PICK l \in Lock : l = lock[c]
  BY DEF Receive, OInv, LocksNamed, OTypeOK, TypeOK
<1>b. /\ NoLock \notin Lock /\ pc[c] = "release" /\ length \in [Lock -> Nat]
      /\ place \in [Client -> Nat] /\ lock[c] = l
  BY <1>a, MPIMutexAssumption DEF Receive, OInv, OTypeOK
<1>c. PICK s \in mail[c] : mail' = [mail EXCEPT ![c] = @ \ {s}]
  BY DEF Receive
<1>d. /\ s \in Client /\ pc[s] = "sent" /\ oldLock[s] = LockId(c)
      /\ Owner(oldLock[s]) = c /\ Pending(s) /\ s # c
  <2>1. s \in Client /\ pc[s] = "sent" /\ oldLock[s] = LockId(c)
    BY DEF OInv, OTypeOK, TypeOK, MailFromSuccessors
  <2>2. Owner(oldLock[s]) = c
    BY <2>1, LockIdFacts
  <2> QED  BY <1>b, <2>1, <2>2 DEF Pending
<1>e. place[c] = 0 /\ place[s] = 1 /\ lock[s] = l
  <2>1. place[c] = 0
    BY <1>b DEF OInv, OthersAtFront, Pending
  <2>2. lock[c] = lock[s] /\ place[c] = place[s] - 1
    BY <1>d, LockIdInjective DEF OInv, PendingKnowPredecessor
  <2> QED  BY <1>b, <2>1, <2>2
<1>f. \A d \in Client : pc[d] # "idle" <=> lock[d] \in Lock
  BY <1>b DEF OInv, LocksNamed, OTypeOK, TypeOK
<1>g. \A d \in Client : lock[d] = l /\ d # c => place[d] >= 1
  <2> SUFFICES ASSUME NEW d \in Client, lock[d] = l, d # c PROVE place[d] # 0
    BY <1>b
  <2> QED  BY <1>b, <1>e DEF OInv, PlacesInQueue
<1>h. /\ \A d \in Client : /\ lock'[d] = IF d = c THEN NoLock ELSE lock[d]
                           /\ place'[d] = IF lock[d] = l /\ d # c THEN place[d] - 1
                                         ELSE place[d]
                           /\ pc'[d] = IF d = c THEN "idle" ELSE pc[d]
      /\ \A k \in Lock : length'[k] = IF k = l THEN length[l] - 1 ELSE length[k]
      /\ word' = word /\ oldLock' = oldLock
  <2>1. \A d \in Client : place'[d] = IF lock[d] = l /\ d # c THEN place[d] - 1
                                       ELSE place[d]
    BY <1>b, <1>e, <1>g DEF Leave
  <2> QED  BY <1>b, <2>1 DEF Receive, Finish, Leave, OInv, OTypeOK, TypeOK
<1>i. \A d \in Client : Pending(d)' <=> Pending(d) /\ d # s
  <2> SUFFICES ASSUME NEW d \in Client PROVE Pending(d)' <=> Pending(d) /\ d # s
    OBVIOUS
  <2>1. pc[d] = "sent" => (d \in mail'[Owner(oldLock[d])] <=>
                             d \in mail[Owner(oldLock[d])] /\ d # s)
    BY <1>c, <1>d DEF OInv, OTypeOK, TypeOK
  <2> QED  BY <1>b, <1>d, <1>h, <2>1 DEF Pending
<1>1. OTypeOK'
  <2>1. length' \in [Lock -> Nat]
    <3>1. length[l] - 1 \in Nat
      BY <1>b DEF OInv, PlacesInQueue
    <3> QED  BY <1>b, <3>1 DEF Leave
  <2>2. place' \in [Client -> Nat]
    BY <1>b DEF Leave
  <2>3. mail' \in [Client -> SUBSET Client]
    BY <1>c DEF OInv, OTypeOK, TypeOK
  <2> QED  BY <2>1, <2>2, <2>3 DEF Receive, Finish, OInv, OTypeOK, TypeOK, PC
<1>2. LocksNamed'
  BY DEF OInv, LocksNamed, Receive, Finish, OTypeOK, TypeOK
<1>3. QuietUntilOpened'
  BY DEF OInv, QuietUntilOpened, Receive
<1>4. PlacesInQueue'
  <2>1. ASSUME NEW d \in Client, pc'[d] # "idle"
        PROVE  place'[d] < length'[lock'[d]]
    <3>1. d # c /\ pc[d] # "idle" /\ lock[d] \in Lock
      BY <1>f, <1>h, <2>1
    <3>2. place[d] < length[lock[d]]
      BY <3>1 DEF OInv, PlacesInQueue
    <3> QED  BY <1>b, <1>h, <3>1, <3>2
  <2>2. ASSUME NEW d \in Client, NEW e \in Client, pc'[d] # "idle",
               lock'[d] = lock'[e], place'[d] = place'[e]
        PROVE  d = e
    <3>1. /\ d # c /\ e # c /\ pc[d] # "idle" /\ lock[d] = lock[e]
      BY <1>b, <1>f, <1>h, <2>2
    <3>2. place[d] = place[e]
      BY <1>b, <1>h, <2>2
    <3> QED  BY <3>1, <3>2 DEF OInv, PlacesInQueue
  <2> QED  BY <2>1, <2>2 DEF PlacesInQueue
<1>5. WordNamesLast'
  <2> SUFFICES ASSUME NEW k \in Lock
               PROVE  /\ word[k] = Unlocked <=> length'[k] = 0
                      /\ \A d \in Client :
                            word[k] = LockId(d) <=>
                               lock'[d] = k /\ place'[d] = length'[k] - 1
    BY <1>h DEF WordNamesLast
  <2>1. CASE k # l
    <3>1. word[k] # LockId(c) /\ lock'[c] # k
      BY <1>b, <1>h, <2>1 DEF OInv, WordNamesLast
    <3> QED  BY <1>h, <2>1, <3>1 DEF OInv, WordNamesLast
  <2>2. CASE k = l
    <3>1. length[l] >= 2
      BY <1>b, <1>d, <1>e DEF OInv, PlacesInQueue
    <3>2. word[l] # LockId(c)
      BY <1>b, <1>e, <3>1 DEF OInv, WordNamesLast
    <3>3. word[l] # Unlocked /\ length'[l] # 0
      BY <1>b, <1>h, <3>1 DEF OInv, WordNamesLast
    <3>4. ASSUME NEW d \in Client
          PROVE  word[l] = LockId(d) <=> lock'[d] = l /\ place'[d] = length'[l] - 1
      <4>1. CASE d = c
        BY <1>b, <1>h, <3>2, <4>1
      <4>2. CASE d # c
        <5>1. word[l] = LockId(d) <=> lock[d] = l /\ place[d] = length[l] - 1
          BY DEF OInv, WordNamesLast
        <5> QED  BY <1>b, <1>h, <4>2, <5>1
      <4> QED  BY <4>1, <4>2
    <3> QED  BY <2>2, <3>3, <3>4
  <2> QED  BY <2>1, <2>2
<1>6. PendingKnowPredecessor'
  <2> SUFFICES ASSUME NEW d \in Client, Pending(d)'
               PROVE  \E p \in Client :
                        /\ oldLock[d] = LockId(p) /\ lock'[p] = lock'[d]
                        /\ place'[p] = place'[d] - 1
    BY <1>h DEF PendingKnowPredecessor
  <2>1. Pending(d) /\ d # s /\ d # c
    BY <1>b, <1>i DEF Pending
  <2>2. PICK p \in Client : /\ oldLock[d] = LockId(p) /\ lock[p] = lock[d]
                           /\ place[p] = place[d] - 1
    BY <2>1 DEF OInv, PendingKnowPredecessor
  <2>3. p # c
    <3> SUFFICES ASSUME p = c PROVE FALSE
      OBVIOUS
    <3>1. lock[d] = lock[s] /\ place[d] = place[s]
      BY <1>b, <1>e, <2>2
    <3> QED  BY <1>d, <2>1, <3>1 DEF OInv, PlacesInQueue
  <2> QED  BY <1>h, <2>1, <2>2, <2>3
<1>7. OthersAtFront'
  <2> SUFFICES ASSUME NEW d \in Client, pc'[d] # "idle", ~Pending(d)'
               PROVE  place'[d] = 0
    BY DEF OthersAtFront
  <2>1. d # c /\ pc[d] # "idle"
    BY <1>h
  <2>2. CASE d = s
    BY <1>e, <1>h, <2>2
  <2>3. CASE d # s
    <3>1. place[d] = 0
      BY <1>i, <2>1, <2>3 DEF OInv, OthersAtFront
    <3> QED  BY <1>g, <1>h, <3>1
  <2> QED  BY <2>2, <2>3
<1>8. MailFromSuccessors'
  BY DEF OInv, MailFromSuccessors, Receive, Finish
<1> QED
  BY <1>1, <1>2, <1>3, <1>4, <1>5, <1>6, <1>7, <1>8 DEF OInv

LEMMA InitInv == OInit => OInv
<1> SUFFICES ASSUME OInit PROVE OInv
  OBVIOUS
<1>1. OTypeOK
  BY DEF OInit, Init, OTypeOK, TypeOK, PC
<1>2. LocksNamed /\ QuietUntilOpened
  BY DEF OInit, Init, LocksNamed, QuietUntilOpened
<1>3. PlacesInQueue /\ PendingKnowPredecessor /\ OthersAtFront /\ MailFromSuccessors
  BY DEF OInit, Init, PlacesInQueue, PendingKnowPredecessor, OthersAtFront,
         MailFromSuccessors, Pending
<1>4. WordNamesLast
  BY LockIdFacts DEF OInit, Init, WordNamesLast
<1> QED  BY <1>1, <1>2, <1>3, <1>4 DEF OInv

LEMMA Inductive ==
  ASSUME OpenBarrier, OInv, [ONext]_ovars
  PROVE  OInv'
<1>1. CASE UNCHANGED ovars
  BY <1>1 DEF ovars, OInv, OTypeOK, TypeOK, LocksNamed, QuietUntilOpened, PlacesInQueue,
              WordNamesLast, PendingKnowPredecessor, OthersAtFront, MailFromSuccessors,
              Pending
<1>2. ASSUME NEW r \in Rank, OInitMutexMem(r) PROVE OInv'
  BY <1>2, InitMutexMemInv
<1>3. ASSUME NEW c \in Client, OStay(c) PROVE OInv'
  BY <1>3, SendInv, SendDoneInv, ReleaseContendedInv DEF OStay
<1>4. ASSUME NEW c \in Client, ORelease(c) PROVE OInv'
  BY <1>4, ReleaseFreeInv, ReceiveInv DEF ORelease
<1>5. ASSUME NEW c \in Client, NEW l \in Lock, OAcquire(c, l) PROVE OInv'
  BY <1>5, AcquireInv
<1> QED  BY <1>1, <1>2, <1>3, <1>4, <1>5 DEF ONext

-----------------------------------------------------------------------------
(* The queue of every lock is what the word and the messages say.          *)
THEOREM OInvHolds ==
  ASSUME OpenBarrier
  PROVE  OSpec => []OInv
<1>1. OInv /\ [ONext]_ovars => OInv'
  BY Inductive
<1> QED  BY <1>1, InitInv, PTL DEF OSpec

(* Nobody holds the lock of a dictionary entry together with another one.  *)
THEOREM MutualExclusionHolds ==
  ASSUME OpenBarrier
  PROVE  OSpec => []MutualExclusion
<1>1. OInv => MutualExclusion
  BY DEF OInv, MutualExclusion, OthersAtFront, PlacesInQueue, Pending
<1> QED  BY <1>1, OInvHolds, PTL

(* The message that release() finds is the one of its successor.           *)
THEOREM HandoffMatchesHolds ==
  ASSUME OpenBarrier
  PROVE  OSpec => []HandoffMatches
<1>1. OInv => HandoffMatches
  <2> SUFFICES ASSUME OInv, NEW c \in Client, NEW s \in mail[c]
               PROVE  /\ pc[c] # "idle" /\ lock[s] = lock[c]
                      /\ s \in Client /\ pc[s] # "idle" /\ place[s] = place[c] + 1
    BY DEF OInv, HandoffMatches, PlacesInQueue
  <2>1. s \in Client /\ pc[s] = "sent" /\ oldLock[s] = LockId(c)
    BY DEF OInv, OTypeOK, TypeOK, MailFromSuccessors
  <2>2. Pending(s)
    BY <2>1, LockIdFacts DEF Pending
  <2>3. lock[c] = lock[s] /\ place[c] = place[s] - 1
    BY <2>1, <2>2, LockIdInjective DEF OInv, PendingKnowPredecessor
  <2>4. pc[c] # "idle"
    BY <2>1, <2>3 DEF OInv, LocksNamed
  <2> QED  BY <2>1, <2>3, <2>4 DEF OInv, OTypeOK
<1> QED  BY <1>1, OInvHolds, PTL

(* The lock goes to the waiting threads in the order of their swaps.       *)
THEOREM ServedInOrderHolds ==
  ASSUME OpenBarrier
  PROVE  OSpec => []ServedInOrder
<1>1. OInv => ServedInOrder
  BY DEF OInv, ServedInOrder, OthersAtFront, PlacesInQueue, Pending
<1> QED  BY <1>1, OInvHolds, PTL
=============================================================================
