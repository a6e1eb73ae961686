--------------------------- MODULE CacheLevelProofs ---------------------------
(***************************************************************************)
(* Proofs about CacheLevel, for every number of threads, domains, slots    *)
(* and blocks.                                                             *)
(***************************************************************************)
EXTENDS CacheLevel, TLAPS

(* The lemmas about directories; they depend on their argument only.       *)
Lists == INSTANCE CacheListProofs

LEMMA ListAssumptions == Lists!LRUAssumption /\ Lists!BlockAssumption
BY LRUAssumption, BlockAssumption
   DEF Lists!LRUAssumption, Lists!BlockAssumption, Lists!Absent, Absent

(* The operators are those of CacheList.                                   *)
LEMMA SameClock ==
  /\ Lists!Slots = Slots /\ Lists!ClearStart = ClearStart /\ Lists!Clock = Clock
  /\ Lists!InitClocks = InitClocks
  /\ \A clock : Lists!GetFree(clock) = GetFree(clock)
  /\ \A clock, i : Lists!Access(clock, i) = Access(clock, i)
  /\ \A clock : Lists!HandsApart(clock) <=> HandsApart(clock)
<1>1. Lists!Slots = Slots /\ Lists!ClearStart = ClearStart
  BY DEF Lists!Slots, Slots, Lists!ClearStart, ClearStart
<1>2. \A i, k : Lists!Plus(i, k) = Plus(i, k)
  BY DEF Lists!Plus, Plus
<1>3. Lists!Clock = Clock /\ Lists!InitClocks = InitClocks
  BY <1>1 DEF Lists!Clock, Clock, Lists!InitClocks, InitClocks
<1>4. \A clock : Lists!GetFree(clock) = GetFree(clock)
  BY DEF Lists!GetFree, GetFree, Lists!Passes, Passes, Lists!EndsAfter, EndsAfter,
         Lists!Cleared, Cleared, Lists!Plus, Plus
<1>5. \A clock, i : Lists!Access(clock, i) = Access(clock, i)
  BY DEF Lists!Access, Access
<1>6. \A clock : Lists!HandsApart(clock) <=> HandsApart(clock)
  BY <1>1, <1>2 DEF Lists!HandsApart, HandsApart
<1> QED
  BY <1>1, <1>3, <1>4, <1>5, <1>6

LEMMA SameDirectory ==
  /\ Lists!Absent = Absent /\ Lists!Directory = Directory
  /\ Lists!InitDirectories = InitDirectories
  /\ \A D, b : Lists!Stored(D, b) <=> Stored(D, b)
  /\ \A D : Lists!Agree(D) <=> Agree(D)
  /\ \A D : Lists!FreeSlot(D) = FreeSlot(D) /\ Lists!Replaced(D) = Replaced(D)
  /\ \A D, b : Lists!Touch(D, b) = Touch(D, b) /\ Lists!Insert(D, b) = Insert(D, b)
<1>1. Lists!Absent = Absent
  BY DEF Lists!Absent, Absent
<1>2. Lists!Directory = Directory /\ Lists!InitDirectories = InitDirectories
  BY <1>1, SameClock DEF Lists!Directory, Directory, Lists!InitDirectories, InitDirectories
<1>3. \A D, b : Lists!Stored(D, b) <=> Stored(D, b)
  BY <1>1 DEF Lists!Stored, Stored
<1>4. \A D : Lists!Agree(D) <=> Agree(D)
  BY <1>1, <1>3, SameClock DEF Lists!Agree, Agree
<1>5. \A D : Lists!FreeSlot(D) = FreeSlot(D) /\ Lists!Replaced(D) = Replaced(D)
  BY SameClock DEF Lists!FreeSlot, FreeSlot, Lists!Replaced, Replaced
<1>6. \A D, b : Lists!Touch(D, b) = Touch(D, b)
  BY SameClock DEF Lists!Touch, Touch
<1>7. \A D, b : Lists!Insert(D, b) = Insert(D, b)
  BY <1>1, <1>5, SameClock DEF Lists!Insert, Insert
<1> QED
  BY <1>1, <1>2, <1>3, <1>4, <1>5, <1>6, <1>7

(* What a hit and a miss do to a directory, and how it begins.             *)
LEMMA TouchFacts ==
  ASSUME NEW D \in Directory, HandsApart(D.clock), Agree(D),
         NEW b \in Block, Stored(D, b)
  PROVE  /\ D.blockToIndex[b] \in Slots
         /\ D.indexToBlock[D.blockToIndex[b]] = b
         /\ Touch(D, b) \in Directory
         /\ Touch(D, b).clock = Access(D.clock, D.blockToIndex[b])
         /\ Touch(D, b).indexToBlock = D.indexToBlock
         /\ Touch(D, b).blockToIndex = D.blockToIndex
         /\ HandsApart(Touch(D, b).clock)
         /\ Agree(Touch(D, b))
BY ListAssumptions, SameClock, SameDirectory, Lists!TouchFacts

LEMMA InsertFacts ==
  ASSUME NEW D \in Directory, HandsApart(D.clock), Agree(D),
         NEW b \in Block, ~Stored(D, b)
  PROVE  /\ FreeSlot(D) \in Slots
         /\ Replaced(D) \in (Block \ {b}) \cup {Absent}
         /\ Replaced(D) = D.indexToBlock[FreeSlot(D)]
         /\ Insert(D, b) \in Directory
         /\ Insert(D, b).clock = GetFree(D.clock)
         /\ Insert(D, b).indexToBlock = [D.indexToBlock EXCEPT ![FreeSlot(D)] = b]
         /\ Insert(D, b).blockToIndex[b] = FreeSlot(D)
         /\ \A x \in Block \ {b} :
               Insert(D, b).blockToIndex[x] =
                 IF x = Replaced(D) THEN Absent ELSE D.blockToIndex[x]
BY ListAssumptions, SameClock, SameDirectory, Lists!InsertFacts

LEMMA InsertAgrees ==
  ASSUME NEW D \in Directory, HandsApart(D.clock), Agree(D),
         NEW b \in Block, ~Stored(D, b)
  PROVE  Agree(Insert(D, b)) /\ HandsApart(Insert(D, b).clock)
BY ListAssumptions, SameClock, SameDirectory, Lists!InsertAgrees

LEMMA InitDirectoryFacts ==
  ASSUME NEW D \in InitDirectories
  PROVE  /\ D \in Directory
         /\ D.clock.nextPage = Size - 1
         /\ D.clock.referenced \subseteq ClearStart .. Size - 1
         /\ D.indexToBlock = [i \in Slots |-> Absent]
         /\ D.blockToIndex = [b \in Block |-> Absent]
         /\ HandsApart(D.clock)
         /\ Agree(D)
BY ListAssumptions, SameClock, SameDirectory, Lists!InitDirectoryFacts

-----------------------------------------------------------------------------

LEMMA DomainFacts ==
  /\ Domain \subseteq Nat /\ NumDomains \in Nat /\ NumDomains \notin Domain
  /\ \A t \in Thread : DomainOf[t] \in Domain
BY CacheLevelAssumption DEF Domain

LEMMA FirstFromFacts ==
  ASSUME NEW t \in Thread, NEW i \in 0 .. NumDomains
  PROVE  FirstFrom(t, i) \in 0 .. NumDomains /\ FirstFrom(t, i) # DomainOf[t]
BY CacheLevelAssumption DEF FirstFrom, Domain

(* At most one thread waits for a slot of a domain.                        *)
LEMMA OneWaiter ==
  ASSUME MutexesOwned, NEW t \in Thread, NEW u \in Thread,
         pc[t] = "lock", pc[u] = "lock", DomainOf[t] = DomainOf[u]
  PROVE  t = u
<1>1. OwnsManager(t, DomainOf[t]) /\ OwnsManager(u, DomainOf[t])
  BY DEF OwnsManager
<1>2. DomainOf[t] \in Domain
  BY DomainFacts
<1>3. cacheMutex[DomainOf[t]] = t
  BY <1>1, <1>2 DEF MutexesOwned
<1>4. cacheMutex[DomainOf[t]] = u
  BY <1>1, <1>2 DEF MutexesOwned
<1> QED  BY <1>3, <1>4

(* At most one thread fills or reads a slot, and nobody copies from it     *)
(* meanwhile.                                                              *)
LEMMA OneOwner ==
  ASSUME MutexesOwned, NEW t \in Thread, NEW u \in Thread,
         NEW d \in Domain, NEW s \in Slots, OwnsSlot(t, d, s), OwnsSlot(u, d, s)
  PROVE  t = u
BY DEF MutexesOwned

(* A thread that fills its slot is alone there.                            *)
LEMMA FillerAlone ==
  ASSUME Inv, NEW t \in Thread, pc[t] \in Filling
  PROVE  /\ DomainOf[t] \in Domain /\ slot[t] \in Slots /\ want[t] \in Block
         /\ BeingFilled(DomainOf[t], slot[t])
         /\ \A u \in Thread :
               /\ pc[u] \in Filling \cup {"read"} /\ u # t
                     => ~(DomainOf[u] = DomainOf[t] /\ slot[u] = slot[t])
               /\ pc[u] = "copy" => ~(probe[u] = DomainOf[t] /\ remote[u] = slot[t])
<1>1. DomainOf[t] \in Domain /\ slot[t] \in Slots /\ want[t] \in Block
  BY DomainFacts DEF Inv, TypeOK, CallsWant, Filling
<1>2. OwnsSlot(t, DomainOf[t], slot[t])
  BY DEF OwnsSlot
<1>3. \A u \in Thread : OwnsSlot(u, DomainOf[t], slot[t]) => u = t
  BY <1>1, <1>2, OneOwner DEF Inv
<1>4. pc[t] = "copy" => probe[t] # DomainOf[t]
  BY DEF Inv, ProbesOthers
<1> QED  BY <1>1, <1>3, <1>4 DEF OwnsSlot, BeingFilled

(* What the domain of a thread that entered the cache manager looks like.  *)
LEMMA OwnDirectory ==
  ASSUME Inv, NEW t \in Thread, pc[t] # "idle"
  PROVE  /\ want[t] \in Block
         /\ DomainOf[t] \in Domain
         /\ dir[DomainOf[t]] \in Directory
         /\ HandsApart(dir[DomainOf[t]].clock)
         /\ Agree(dir[DomainOf[t]])
BY DomainFacts DEF Inv, TypeOK, DirectoriesSound, CallsWant

LEMMA CallInv ==
  ASSUME Inv, NEW t \in Thread, NEW b \in Block, Call(t, b)
  PROVE  Inv'
<1>a. \A d \in Domain, s \in Slots : Condemned(d, s)' <=> Condemned(d, s)
  BY DEF Call, Goto, Condemned
<1>b. \A d \in Domain, s \in Slots : BeingFilled(d, s)' <=> BeingFilled(d, s)
  BY DEF Call, Goto, BeingFilled, Filling
<1>1. TypeOK'
  BY DEF Inv, TypeOK, Call, Goto, PC
<1>2. MutexesOwned'
  BY DEF Inv, MutexesOwned, Call, Goto, Filling, OwnsManager, OwnsSlot
<1>3. ProbesOthers'
  BY DEF Inv, ProbesOthers, Call, Goto, Filling
<1>4. DirectoriesSound'
  BY DEF Inv, DirectoriesSound, Call
<1>5. CallsWant'
  BY DEF Inv, CallsWant, Call, Goto, TypeOK
<1>6. WaitersEntered'
  BY DEF Inv, WaitersEntered, Call, Goto
<1>7. FillersEntered'
  BY <1>a, <1>b, DomainFacts, FirstFromFacts, CacheLevelAssumption
     DEF Inv, FillersEntered, Call, Goto, Filling, TypeOK
<1>8. RestingTruthful'
  BY <1>a, <1>b DEF Inv, RestingTruthful, Call
<1>9. CopiesTruthful'
  BY DEF Inv, CopiesTruthful, Call, Goto
<1>10. SingleFill'
  BY DEF Inv, SingleFill, Call, Goto, Filling
<1>11. ReadsRequestedBlock'
  BY DEF Inv, ReadsRequestedBlock, Call, Goto
<1> QED
  BY <1>1, <1>2, <1>3, <1>4, <1>5, <1>6, <1>7, <1>8, <1>9, <1>10, <1>11 DEF Inv

LEMMA GetHitInv ==
  ASSUME Inv, NEW t \in Thread, GetHit(t)
  PROVE  Inv'
<1> DEFINE d == DomainOf[t]
           D == dir[d]
<1>a. /\ want[t] \in Block /\ d \in Domain
      /\ D \in Directory /\ HandsApart(D.clock) /\ Agree(D) /\ Stored(D, want[t])
  BY OwnDirectory DEF GetHit
<1>b. /\ D.blockToIndex[want[t]] \in Slots
      /\ D.indexToBlock[D.blockToIndex[want[t]]] = want[t]
      /\ Touch(D, want[t]) \in Directory
      /\ Touch(D, want[t]).indexToBlock = D.indexToBlock
      /\ HandsApart(Touch(D, want[t]).clock) /\ Agree(Touch(D, want[t]))
  BY <1>a, TouchFacts
<1>c. /\ dir' = [dir EXCEPT ![d] = Touch(D, want[t])]
      /\ slot' = [slot EXCEPT ![t] = D.blockToIndex[want[t]]]
      /\ \A e \in Domain : dir'[e].indexToBlock = dir[e].indexToBlock
  BY <1>b, SMTT(30) DEF GetHit
<1>d. \A e \in Domain, s \in Slots : Condemned(e, s)' <=> Condemned(e, s)
  BY DEF GetHit, Goto, Inv, TypeOK, Condemned
<1>e. \A e \in Domain, s \in Slots : BeingFilled(e, s)' <=> BeingFilled(e, s)
  BY DEF GetHit, Goto, BeingFilled, Filling
<1> HIDE DEF d, D
<1>1. TypeOK'
  <2>1. dir' \in [Domain -> Directory] /\ slot' \in [Thread -> Slots]
    BY <1>a, <1>b, <1>c DEF Inv, TypeOK
  <2>2. /\ cacheMutex' \in [Domain -> Thread \cup {NoThread}]
        /\ pc' \in [Thread -> PC]
        /\ old' \in [Thread -> Block \cup {Absent}]
    BY <1>a DEF Inv, TypeOK, GetHit, Goto, PC
  <2> QED  BY <2>1, <2>2 DEF Inv, TypeOK, GetHit
<1>2. MutexesOwned'
  BY CacheLevelAssumption
     DEF Inv, MutexesOwned, GetHit, Goto, Filling, TypeOK, OwnsManager, OwnsSlot
<1>3. ProbesOthers'
  BY DEF Inv, ProbesOthers, GetHit, Goto, Filling
<1>4. DirectoriesSound'
  BY <1>b, <1>c DEF Inv, DirectoriesSound
<1>5. CallsWant'
  BY DEF Inv, CallsWant, GetHit, Goto
<1>6. WaitersEntered'
  <2> SUFFICES ASSUME NEW u \in Thread, pc'[u] = "lock"
               PROVE  dir'[DomainOf[u]].indexToBlock[slot'[u]] = want'[u]
    BY DEF WaitersEntered
  <2>1. CASE u = t
    BY <1>a, <1>b, <2>1 DEF GetHit, Inv, TypeOK, d, D
  <2>2. CASE u # t
    <3>1. pc[u] = "lock" /\ slot'[u] = slot[u] /\ want' = want
      BY <2>2 DEF GetHit, Goto
    <3> QED  BY <1>c, <3>1, DomainFacts DEF Inv, WaitersEntered
  <2> QED  BY <2>1, <2>2
<1>7. FillersEntered'
  <2> SUFFICES ASSUME NEW u \in Thread, pc'[u] \in Filling,
                      ~Condemned(DomainOf[u], slot[u])'
               PROVE  dir'[DomainOf[u]].indexToBlock[slot'[u]] = want'[u]
    BY DEF FillersEntered
  <2>1. /\ u # t /\ pc[u] \in Filling /\ slot'[u] = slot[u] /\ want' = want
        /\ slot[u] \in Slots
    BY DEF GetHit, Goto, Inv, TypeOK, Filling
  <2>2. ~Condemned(DomainOf[u], slot[u])
    BY <1>d, <2>1, DomainFacts
  <2> QED  BY <1>c, <2>1, <2>2, DomainFacts DEF Inv, FillersEntered
<1>8. RestingTruthful'
  BY <1>c, <1>d, <1>e DEF Inv, RestingTruthful, GetHit
<1>9. CopiesTruthful'
  BY DEF Inv, CopiesTruthful, GetHit, Goto
<1>10. SingleFill'
  BY DEF Inv, SingleFill, GetHit, Goto, Filling
<1>11. ReadsRequestedBlock'
  BY DEF Inv, ReadsRequestedBlock, GetHit, Goto
<1> QED
  BY <1>1, <1>2, <1>3, <1>4, <1>5, <1>6, <1>7, <1>8, <1>9, <1>10, <1>11 DEF Inv

LEMMA GetMissInv ==
  ASSUME Inv, NEW t \in Thread, GetMiss(t)
  PROVE  Inv'
<1> DEFINE d == DomainOf[t]
           D == dir[d]
           i == FreeSlot(D)
<1>a. /\ want[t] \in Block /\ d \in Domain
      /\ D \in Directory /\ HandsApart(D.clock) /\ Agree(D) /\ ~Stored(D, want[t])
  BY OwnDirectory DEF GetMiss
<1>b. /\ i \in Slots /\ Replaced(D) \in (Block \ {want[t]}) \cup {Absent}
      /\ Insert(D, want[t]) \in Directory
      /\ Insert(D, want[t]).indexToBlock = [D.indexToBlock EXCEPT ![i] = want[t]]
      /\ HandsApart(Insert(D, want[t]).clock) /\ Agree(Insert(D, want[t]))
  BY <1>a, InsertFacts, InsertAgrees
<1>c. /\ dir' = [dir EXCEPT ![d] = Insert(D, want[t])]
      /\ slot' = [slot EXCEPT ![t] = i]
      /\ old' = [old EXCEPT ![t] = Replaced(D)]
  BY DEF GetMiss
<1>d. \A e \in Domain, s \in Slots :
        dir'[e].indexToBlock[s] =
           IF e = d /\ s = i THEN want[t] ELSE dir[e].indexToBlock[s]
  BY <1>b, <1>c DEF Inv, TypeOK, Directory
<1>e. \A e \in Domain, s \in Slots :
        Condemned(e, s)' <=> Condemned(e, s) \/ (e = d /\ s = i)
  <2>1. Replaced(D) # want[t]
    BY <1>a, <1>b, BlockAssumption
  <2>2. /\ pc' = [pc EXCEPT ![t] = "lock"] /\ pc[t] = "get" /\ want' = want
        /\ pc \in [Thread -> PC] /\ slot \in [Thread -> Slots]
        /\ old \in [Thread -> Block \cup {Absent}]
    BY DEF GetMiss, Goto, Inv, TypeOK
  <2> QED  BY <1>c, <2>1, <2>2 DEF Condemned, d
<1>f. \A e \in Domain, s \in Slots : BeingFilled(e, s)' <=> BeingFilled(e, s)
  BY DEF GetMiss, Goto, BeingFilled, Filling
<1>g. \A u \in Thread : pc[u] = "lock" => DomainOf[u] # d
  BY CacheLevelAssumption DEF GetMiss, Inv, MutexesOwned, OwnsManager
<1> HIDE DEF d, D, i
<1>1. TypeOK'
  <2>1. /\ dir' \in [Domain -> Directory] /\ slot' \in [Thread -> Slots]
        /\ old' \in [Thread -> Block \cup {Absent}]
    BY <1>a, <1>b, <1>c DEF Inv, TypeOK
  <2>2. /\ cacheMutex' \in [Domain -> Thread \cup {NoThread}]
        /\ pc' \in [Thread -> PC]
    BY <1>a DEF Inv, TypeOK, GetMiss, Goto, PC
  <2> QED  BY <2>1, <2>2 DEF Inv, TypeOK, GetMiss
<1>2. MutexesOwned'
  BY CacheLevelAssumption
     DEF Inv, MutexesOwned, GetMiss, Goto, Filling, TypeOK, OwnsManager, OwnsSlot
<1>3. ProbesOthers'
  BY DEF Inv, ProbesOthers, GetMiss, Goto, Filling
<1>4. DirectoriesSound'
  BY <1>b, <1>c DEF Inv, DirectoriesSound
<1>5. CallsWant'
  BY DEF Inv, CallsWant, GetMiss, Goto
<1>6. WaitersEntered'
  <2> SUFFICES ASSUME NEW u \in Thread, pc'[u] = "lock"
               PROVE  dir'[DomainOf[u]].indexToBlock[slot'[u]] = want'[u]
    BY DEF WaitersEntered
  <2>1. CASE u = t
    BY <1>a, <1>b, <1>c, <1>d, <2>1 DEF GetMiss, Inv, TypeOK, d
  <2>2. CASE u # t
    <3>1. /\ pc[u] = "lock" /\ slot'[u] = slot[u] /\ want' = want
          /\ slot[u] \in Slots /\ DomainOf[u] # d
      BY <1>g, <2>2 DEF GetMiss, Goto, Inv, TypeOK
    <3> QED  BY <1>d, <3>1, DomainFacts, ZenonT(60) DEF Inv, WaitersEntered
  <2> QED  BY <2>1, <2>2
<1>7. FillersEntered'
  <2> SUFFICES ASSUME NEW u \in Thread, pc'[u] \in Filling,
                      ~Condemned(DomainOf[u], slot[u])'
               PROVE  dir'[DomainOf[u]].indexToBlock[slot'[u]] = want'[u]
    BY DEF FillersEntered
  <2>1. /\ u # t /\ pc[u] \in Filling /\ slot'[u] = slot[u] /\ want' = want
        /\ slot[u] \in Slots
    BY DEF GetMiss, Goto, Inv, TypeOK, Filling
  <2>2. ~Condemned(DomainOf[u], slot[u]) /\ ~(DomainOf[u] = d /\ slot[u] = i)
    BY <1>e, <2>1, DomainFacts
  <2> QED  BY <1>d, <2>1, <2>2, DomainFacts, ZenonT(60) DEF Inv, FillersEntered
<1>8. RestingTruthful'
  BY <1>d, <1>e, <1>f DEF Inv, RestingTruthful, GetMiss
<1>9. CopiesTruthful'
  BY DEF Inv, CopiesTruthful, GetMiss, Goto
<1>10. SingleFill'
  BY DEF Inv, SingleFill, GetMiss, Goto, Filling
<1>11. ReadsRequestedBlock'
  BY DEF Inv, ReadsRequestedBlock, GetMiss, Goto
<1> QED
  BY <1>1, <1>2, <1>3, <1>4, <1>5, <1>6, <1>7, <1>8, <1>9, <1>10, <1>11 DEF Inv

LEMMA LockSlotInv ==
  ASSUME Inv, NEW t \in Thread, LockSlot(t)
  PROVE  Inv'
<1> DEFINE d == DomainOf[t]
<1>0. PICK s \in Slots : s = slot[t]
  BY DEF Inv, TypeOK
<1>a. /\ d \in Domain /\ s \in Slots /\ pc[t] = "lock" /\ want[t] \in Block
      /\ dir[d].indexToBlock[s] = want[t] /\ slot[t] = s
      /\ blockMutex[d][s] = NoThread
  BY <1>0, DomainFacts DEF LockSlot, Inv, CallsWant, WaitersEntered
<1>b. \A u \in Thread : pc[u] = "lock" /\ DomainOf[u] = d => u = t
  BY <1>a, OneWaiter DEF Inv
<1>c. ~BeingFilled(d, s)
  BY <1>a, CacheLevelAssumption DEF Inv, MutexesOwned, OwnsSlot, BeingFilled
<1>d. \A e \in Domain, x \in Slots :
        Condemned(e, x)' <=> Condemned(e, x) /\ ~(e = d /\ x = s)
  BY <1>a, <1>b DEF LockSlot, Goto, Inv, TypeOK, Condemned
<1>e. ~Condemned(d, s)'
  BY <1>a, <1>d
<1>f. old[t] = want[t] => ~Condemned(d, s)
  BY <1>b DEF Condemned
<1>g. \A e \in Domain, x \in Slots :
        BeingFilled(e, x)' <=>
           BeingFilled(e, x) \/ (e = d /\ x = s /\ old[t] # want[t])
  BY <1>a DEF LockSlot, Goto, Inv, TypeOK, BeingFilled, Filling
<1>1. TypeOK'
  <2>1. probe' \in [Thread -> 0 .. NumDomains]
    <3>1. NumDomains \in 0 .. NumDomains /\ FirstFrom(t, 0) \in 0 .. NumDomains
      BY FirstFromFacts, DomainFacts
    <3> QED  BY <3>1 DEF LockSlot, Inv, TypeOK
  <2>2. blockMutex' \in [Domain -> [Slots -> Thread \cup {NoThread}]]
    BY <1>a DEF LockSlot, Inv, TypeOK
  <2>3. cacheMutex' \in [Domain -> Thread \cup {NoThread}] /\ pc' \in [Thread -> PC]
    BY <1>a DEF LockSlot, Goto, Inv, TypeOK, PC
  <2> QED  BY <2>1, <2>3 DEF LockSlot, Inv, TypeOK
<1>2. MutexesOwned'
  BY CacheLevelAssumption
     DEF Inv, MutexesOwned, LockSlot, Goto, Filling, TypeOK, OwnsManager, OwnsSlot
<1>3. ProbesOthers'
  BY DomainFacts, FirstFromFacts DEF Inv, ProbesOthers, LockSlot, Goto, TypeOK
<1>4. DirectoriesSound'
  BY DEF Inv, DirectoriesSound, LockSlot
<1>5. CallsWant'
  BY DEF Inv, CallsWant, LockSlot, Goto, TypeOK
<1>6. WaitersEntered'
  BY DEF Inv, WaitersEntered, LockSlot, Goto, TypeOK
<1>7. FillersEntered'
  <2> SUFFICES ASSUME NEW u \in Thread, pc'[u] \in Filling,
                      ~Condemned(DomainOf[u], slot[u])'
               PROVE  dir[DomainOf[u]].indexToBlock[slot[u]] = want[u]
    BY DEF FillersEntered, LockSlot
  <2>1. CASE u = t
    BY <1>a, <2>1
  <2>2. CASE u # t
    <3>1. pc[u] \in Filling /\ slot' = slot /\ slot[u] \in Slots
      BY <2>2 DEF LockSlot, Goto, Inv, TypeOK
    <3>2. OwnsSlot(u, DomainOf[u], slot[u])
      BY <3>1 DEF OwnsSlot
    <3>3. ~(DomainOf[u] = d /\ slot[u] = s)
      BY <1>a, <3>2, CacheLevelAssumption DEF Inv, MutexesOwned
    <3>4. ~Condemned(DomainOf[u], slot[u])
      BY <1>d, <3>1, <3>3, DomainFacts
    <3> QED  BY <3>1, <3>4 DEF Inv, FillersEntered
  <2> QED  BY <2>1, <2>2
<1>8. RestingTruthful'
  BY <1>d, <1>f, <1>g DEF Inv, RestingTruthful, LockSlot
<1>9. CopiesTruthful'
  BY DEF Inv, CopiesTruthful, LockSlot, Goto, TypeOK
<1>10. SingleFill'
  <2>1. ASSUME NEW u \in Thread, u # t, pc[u] \in Filling,
               DomainOf[u] = d, want[u] = want[t]
        PROVE  FALSE
    <3>1. slot[u] \in Slots /\ OwnsSlot(u, d, slot[u])
      BY <2>1 DEF Inv, TypeOK, OwnsSlot
    <3>2. slot[u] # s
      BY <1>a, <3>1, CacheLevelAssumption DEF Inv, MutexesOwned
    <3>3. ~Condemned(d, slot[u])
      BY <1>a, <1>b, <3>2 DEF Condemned
    <3>4. dir[d].indexToBlock[slot[u]] = want[t]
      BY <2>1, <3>3 DEF Inv, FillersEntered
    <3>5. Agree(dir[d]) /\ want[t] # Absent
      BY <1>a, BlockAssumption DEF Inv, DirectoriesSound
    <3> QED  BY <1>a, <3>1, <3>2, <3>4, <3>5 DEF Agree
  <2>2. \A u \in Thread : u # t => pc'[u] = pc[u]
    BY DEF LockSlot, Goto, Inv, TypeOK
  <2> QED  BY <2>1, <2>2 DEF SingleFill, LockSlot, Inv
<1>11. ReadsRequestedBlock'
  <2> SUFFICES ASSUME NEW u \in Thread, pc'[u] = "read"
               PROVE  data[DomainOf[u]][slot[u]] = want[u]
    BY DEF ReadsRequestedBlock, LockSlot
  <2>1. CASE u = t
    <3>1. old[t] = want[t]
      BY <2>1 DEF LockSlot, Goto, Inv, TypeOK
    <3> QED  BY <1>a, <1>c, <1>f, <2>1, <3>1 DEF Inv, RestingTruthful
  <2>2. CASE u # t
    <3>1. pc[u] = "read"
      BY <2>2 DEF LockSlot, Goto, Inv, TypeOK
    <3> QED  BY <3>1 DEF Inv, ReadsRequestedBlock
  <2> QED  BY <2>1, <2>2
<1> QED
  BY <1>1, <1>2, <1>3, <1>4, <1>5, <1>6, <1>7, <1>8, <1>9, <1>10, <1>11 DEF Inv

LEMMA PeekBusyInv ==
  ASSUME Inv, NEW t \in Thread, PeekBusy(t)
  PROVE  Inv'
<1>a. \A d \in Domain, s \in Slots : Condemned(d, s)' <=> Condemned(d, s)
  BY DEF PeekBusy, Goto, Condemned
<1>b. \A d \in Domain, s \in Slots : BeingFilled(d, s)' <=> BeingFilled(d, s)
  BY DEF PeekBusy, Goto, BeingFilled
<1>c. FirstFrom(t, probe[t] + 1) \in 0 .. NumDomains /\ FirstFrom(t, probe[t] + 1) # DomainOf[t]
  <2>1. probe[t] + 1 \in 0 .. NumDomains
    BY CacheLevelAssumption DEF PeekBusy, Domain
  <2> QED  BY <2>1, FirstFromFacts
<1>1. TypeOK'
  BY <1>c DEF Inv, TypeOK, PeekBusy, NextDomain
<1>2. MutexesOwned'
  BY DEF Inv, MutexesOwned, PeekBusy, NextDomain, OwnsManager, OwnsSlot
<1>3. ProbesOthers'
  BY <1>c DEF Inv, ProbesOthers, PeekBusy, NextDomain
<1>4. DirectoriesSound'
  BY DEF Inv, DirectoriesSound, PeekBusy
<1>5. CallsWant'
  BY DEF Inv, CallsWant, PeekBusy
<1>6. WaitersEntered'
  BY DEF Inv, WaitersEntered, PeekBusy
<1>7. FillersEntered'
  BY <1>a, <1>b, <1>c, DomainFacts, FirstFromFacts, CacheLevelAssumption
     DEF Inv, FillersEntered, PeekBusy, NextDomain, Goto, Filling, TypeOK
<1>8. RestingTruthful'
  BY <1>a, <1>b DEF Inv, RestingTruthful, PeekBusy
<1>9. CopiesTruthful'
  BY DEF Inv, CopiesTruthful, PeekBusy, NextDomain
<1>10. SingleFill'
  BY DEF Inv, SingleFill, PeekBusy
<1>11. ReadsRequestedBlock'
  BY DEF Inv, ReadsRequestedBlock, PeekBusy
<1> QED
  BY <1>1, <1>2, <1>3, <1>4, <1>5, <1>6, <1>7, <1>8, <1>9, <1>10, <1>11 DEF Inv

LEMMA PeekLockInv ==
  ASSUME Inv, NEW t \in Thread, PeekLock(t)
  PROVE  Inv'
<1>a. \A d \in Domain, s \in Slots : Condemned(d, s)' <=> Condemned(d, s)
  BY DEF PeekLock, Goto, Condemned
<1>b. \A d \in Domain, s \in Slots : BeingFilled(d, s)' <=> BeingFilled(d, s)
  BY DEF PeekLock, Goto, BeingFilled, Filling
<1>1. TypeOK'
  BY DEF Inv, TypeOK, PeekLock, Goto, PC
<1>2. MutexesOwned'
  BY CacheLevelAssumption
     DEF Inv, MutexesOwned, PeekLock, Goto, Filling, TypeOK, OwnsManager, OwnsSlot
<1>3. ProbesOthers'
  BY DEF Inv, ProbesOthers, PeekLock, Goto, Filling
<1>4. DirectoriesSound'
  BY DEF Inv, DirectoriesSound, PeekLock
<1>5. CallsWant'
  BY DEF Inv, CallsWant, PeekLock, Goto
<1>6. WaitersEntered'
  BY DEF Inv, WaitersEntered, PeekLock, Goto
<1>7. FillersEntered'
  BY <1>a, <1>b, DomainFacts, FirstFromFacts, CacheLevelAssumption
     DEF Inv, FillersEntered, PeekLock, Goto, Filling, TypeOK
<1>8. RestingTruthful'
  BY <1>a, <1>b DEF Inv, RestingTruthful, PeekLock
<1>9. CopiesTruthful'
  BY DEF Inv, CopiesTruthful, PeekLock, Goto
<1>10. SingleFill'
  BY DEF Inv, SingleFill, PeekLock, Goto, Filling
<1>11. ReadsRequestedBlock'
  BY DEF Inv, ReadsRequestedBlock, PeekLock, Goto
<1> QED
  BY <1>1, <1>2, <1>3, <1>4, <1>5, <1>6, <1>7, <1>8, <1>9, <1>10, <1>11 DEF Inv

LEMMA PeekFailInv ==
  ASSUME Inv, NEW t \in Thread, PeekFail(t)
  PROVE  Inv'
<1>a. \A d \in Domain, s \in Slots : Condemned(d, s)' <=> Condemned(d, s)
  BY DEF PeekFail, Goto, Condemned
<1>b. \A d \in Domain, s \in Slots : BeingFilled(d, s)' <=> BeingFilled(d, s)
  BY DEF PeekFail, Goto, BeingFilled, Filling
<1>c. FirstFrom(t, probe[t] + 1) \in 0 .. NumDomains /\ FirstFrom(t, probe[t] + 1) # DomainOf[t]
  <2>1. probe[t] + 1 \in 0 .. NumDomains
    BY CacheLevelAssumption DEF PeekFail, Inv, ProbesOthers, Domain
  <2> QED  BY <2>1, FirstFromFacts
<1>1. TypeOK'
  BY <1>a, <1>b, <1>c, DomainFacts, FirstFromFacts, CacheLevelAssumption
     DEF Inv, TypeOK, PeekFail, NextDomain, Goto, Filling, PC, Content
<1>2. MutexesOwned'
  BY CacheLevelAssumption
     DEF Inv, MutexesOwned, PeekFail, NextDomain, Goto, Filling, TypeOK,
         OwnsManager, OwnsSlot
<1>3. ProbesOthers'
  BY <1>c DEF Inv, ProbesOthers, PeekFail, NextDomain, Goto, TypeOK
<1>4. DirectoriesSound'
  BY DEF Inv, DirectoriesSound, PeekFail
<1>5. CallsWant'
  BY DEF Inv, CallsWant, PeekFail, Goto
<1>6. WaitersEntered'
  BY DEF Inv, WaitersEntered, PeekFail, Goto
<1>7. FillersEntered'
  BY <1>a, <1>b, <1>c, DomainFacts, FirstFromFacts, CacheLevelAssumption
     DEF Inv, FillersEntered, PeekFail, NextDomain, Goto, Filling, TypeOK
<1>8. RestingTruthful'
  BY <1>a, <1>b DEF Inv, RestingTruthful, PeekFail
<1>9. CopiesTruthful'
  BY DEF Inv, CopiesTruthful, PeekFail, NextDomain, Goto
<1>10. SingleFill'
  BY DEF Inv, SingleFill, PeekFail, Goto, Filling
<1>11. ReadsRequestedBlock'
  BY DEF Inv, ReadsRequestedBlock, PeekFail, Goto
<1> QED
  BY <1>1, <1>2, <1>3, <1>4, <1>5, <1>6, <1>7, <1>8, <1>9, <1>10, <1>11 DEF Inv

LEMMA PeekSuccessInv ==
  ASSUME Inv, NEW t \in Thread, PeekSuccess(t)
  PROVE  Inv'
<1>a. \A d \in Domain, s \in Slots : Condemned(d, s)' <=> Condemned(d, s)
  BY DEF PeekSuccess, Goto, Condemned
<1>b. \A d \in Domain, s \in Slots : BeingFilled(d, s)' <=> BeingFilled(d, s)
  BY DEF PeekSuccess, Goto, BeingFilled, Filling
<1>w. /\ pc[t] \in Filling
      /\ \A e \in Domain, s \in Slots :
            data'[e][s] = IF e = DomainOf[t] /\ s = slot[t] THEN Torn
                          ELSE data[e][s]
  BY DEF PeekSuccess, Inv, TypeOK, Filling
<1>v. /\ probe[t] \in Domain /\ probe[t] # DomainOf[t] /\ want[t] \in Block
      /\ Stored(dir[probe[t]], want[t])
      /\ blockMutex[probe[t]][RemoteSlot(t)] = NoThread
      /\ dir[probe[t]] \in Directory /\ Agree(dir[probe[t]])
  BY DEF PeekSuccess, Available, Inv, TypeOK, ProbesOthers, CallsWant,
         DirectoriesSound, Filling
<1>x. /\ RemoteSlot(t) \in Slots
      /\ dir[probe[t]].indexToBlock[RemoteSlot(t)] = want[t]
  BY <1>v DEF Directory, Stored, Agree, RemoteSlot
<1>y. data[probe[t]][RemoteSlot(t)] = want[t]
  <2>1. ~BeingFilled(probe[t], RemoteSlot(t))
    BY <1>v, <1>x, CacheLevelAssumption DEF Inv, MutexesOwned, OwnsSlot, BeingFilled
  <2>2. ASSUME NEW u \in Thread, pc[u] = "lock", DomainOf[u] = probe[t] PROVE FALSE
    <3>1. OwnsManager(u, probe[t]) /\ OwnsManager(t, probe[t]) /\ u # t
      BY <2>2 DEF OwnsManager, PeekSuccess
    <3>2. cacheMutex[probe[t]] = u
      BY <1>v, <3>1 DEF Inv, MutexesOwned
    <3>3. cacheMutex[probe[t]] = t
      BY <1>v, <3>1 DEF Inv, MutexesOwned
    <3> QED  BY <3>1, <3>2, <3>3
  <2>3. ~Condemned(probe[t], RemoteSlot(t))
    BY <2>2 DEF Condemned
  <2> QED  BY <1>v, <1>x, <2>1, <2>3 DEF Inv, RestingTruthful
<1>1. TypeOK'
  <2>1. /\ blockMutex' \in [Domain -> [Slots -> Thread \cup {NoThread}]]
        /\ cacheMutex' \in [Domain -> Thread \cup {NoThread}]
        /\ remote' \in [Thread -> Slots]
    BY <1>v, <1>x DEF PeekSuccess, Inv, TypeOK
  <2>2. data' \in [Domain -> [Slots -> Content]] /\ pc' \in [Thread -> PC]
    BY DEF PeekSuccess, Goto, Inv, TypeOK, Content, PC
  <2> QED  BY <2>1, <2>2 DEF PeekSuccess, Inv, TypeOK
<1>2. MutexesOwned'
  BY <1>a, <1>b, <1>w, <1>v, <1>x, <1>y, DomainFacts, FirstFromFacts,
     CacheLevelAssumption
     DEF Inv, MutexesOwned, PeekSuccess, Available, Goto, Filling, TypeOK,
         OwnsManager, OwnsSlot
<1>3. ProbesOthers'
  BY <1>b, <1>v DEF Inv, ProbesOthers, PeekSuccess, Goto
<1>4. DirectoriesSound'
  BY DEF Inv, DirectoriesSound, PeekSuccess
<1>5. CallsWant'
  BY <1>b DEF Inv, CallsWant, PeekSuccess, Goto
<1>6. WaitersEntered'
  BY <1>b, <1>w, <1>v DEF Inv, WaitersEntered, PeekSuccess, Goto
<1>7. FillersEntered'
  BY <1>a, <1>b, <1>w, <1>v, <1>x, <1>y, DomainFacts, FirstFromFacts,
     CacheLevelAssumption
     DEF Inv, FillersEntered, PeekSuccess, Available, RemoteSlot, Goto, Filling,
         TypeOK
<1>8. RestingTruthful'
  BY <1>a, <1>b, <1>w, FillerAlone DEF Inv, RestingTruthful, PeekSuccess
<1>9. CopiesTruthful'
  <2> SUFFICES ASSUME NEW u \in Thread, pc'[u] = "copy"
               PROVE  data'[probe'[u]][remote'[u]] = want'[u]
    BY DEF CopiesTruthful
  <2>1. CASE u = t
    BY <1>v, <1>y, <2>1 DEF PeekSuccess, Inv, TypeOK
  <2>2. CASE u # t
    <3>1. /\ pc[u] = "copy" /\ probe'[u] = probe[u] /\ remote'[u] = remote[u]
          /\ want'[u] = want[u] /\ probe[u] \in Domain /\ remote[u] \in Slots
      BY <2>2 DEF PeekSuccess, Goto, Inv, TypeOK, ProbesOthers
    <3>2. ~(probe[u] = DomainOf[t] /\ remote[u] = slot[t])
      BY <1>w, <3>1, FillerAlone
    <3> QED  BY <1>w, <3>1, <3>2 DEF Inv, CopiesTruthful
  <2> QED  BY <2>1, <2>2
<1>10. SingleFill'
  BY <1>b, <1>v DEF Inv, SingleFill, PeekSuccess, Goto, Filling
<1>11. ReadsRequestedBlock'
  <2> SUFFICES ASSUME NEW u \in Thread, pc'[u] = "read"
               PROVE  data'[DomainOf[u]][slot[u]] = want[u]
    BY DEF ReadsRequestedBlock, PeekSuccess
  <2>1. CASE u = t
    BY <2>1 DEF PeekSuccess, Goto
  <2>2. CASE u # t
    <3>1. pc[u] = "read" /\ DomainOf[u] \in Domain /\ slot[u] \in Slots
      BY DomainFacts DEF PeekSuccess, Goto, Inv, TypeOK
    <3>2. ~(DomainOf[u] = DomainOf[t] /\ slot[u] = slot[t])
      BY <1>w, <2>2, <3>1, FillerAlone
    <3> QED  BY <1>w, <3>1, <3>2 DEF Inv, ReadsRequestedBlock
  <2> QED  BY <2>1, <2>2
<1> QED
  BY <1>1, <1>2, <1>3, <1>4, <1>5, <1>6, <1>7, <1>8, <1>9, <1>10, <1>11 DEF Inv

LEMMA CopyDoneInv ==
  ASSUME Inv, NEW t \in Thread, CopyDone(t)
  PROVE  Inv'
<1>a. \A d \in Domain, s \in Slots : Condemned(d, s)' <=> Condemned(d, s)
  BY DEF CopyDone, Goto, Condemned
<1>b. \A d \in Domain, s \in Slots :
        BeingFilled(d, s) => BeingFilled(d, s)' \/ (d = DomainOf[t] /\ s = slot[t])
  BY DEF CopyDone, Goto, BeingFilled
<1>w. /\ pc[t] \in Filling
      /\ \A e \in Domain, s \in Slots :
            data'[e][s] = IF e = DomainOf[t] /\ s = slot[t] THEN data[probe[t]][remote[t]]
                          ELSE data[e][s]
  BY DEF CopyDone, Inv, TypeOK, Filling
<1>v. /\ data[probe[t]][remote[t]] = want[t]
      /\ probe[t] \in Domain /\ probe[t] # DomainOf[t] /\ remote[t] \in Slots
  BY DEF CopyDone, Inv, TypeOK, CopiesTruthful, ProbesOthers, Filling
<1>1. TypeOK'
  <2>1. /\ blockMutex' \in [Domain -> [Slots -> Thread \cup {NoThread}]]
        /\ data' \in [Domain -> [Slots -> Content]]
    BY <1>v, FillerAlone DEF CopyDone, Inv, TypeOK, Content
  <2>2. pc' \in [Thread -> PC]
    BY DEF CopyDone, Goto, Inv, TypeOK, PC
  <2> QED  BY <2>1, <2>2 DEF CopyDone, Inv, TypeOK
<1>2. MutexesOwned'
  <2> SUFFICES ASSUME NEW u \in Thread, NEW e \in Domain, NEW s \in Slots
               PROVE  /\ cacheMutex[e] = u <=> OwnsManager(u, e)'
                      /\ blockMutex'[e][s] = u <=> OwnsSlot(u, e, s)'
    BY <1>v DEF MutexesOwned, CopyDone
  <2>1. OwnsManager(u, e)' <=> OwnsManager(u, e)
    BY DEF CopyDone, Goto, OwnsManager
  <2>2. OwnsSlot(u, e, s)' <=>
          OwnsSlot(u, e, s) /\ ~(u = t /\ e = probe[t] /\ s = remote[t])
    BY <1>v DEF CopyDone, Goto, Inv, TypeOK, OwnsSlot, Filling
  <2>3. blockMutex'[e][s] =
          IF e = probe[t] /\ s = remote[t] THEN NoThread ELSE blockMutex[e][s]
    BY DEF CopyDone, Inv, TypeOK
  <2>4. OwnsSlot(t, probe[t], remote[t])
    BY DEF CopyDone, OwnsSlot
  <2>5. \A v \in Thread : OwnsSlot(v, probe[t], remote[t]) => v = t
    BY <1>v, <2>4, OneOwner DEF Inv
  <2> QED  BY <2>1, <2>2, <2>3, <2>5, CacheLevelAssumption DEF Inv, MutexesOwned
<1>3. ProbesOthers'
  BY DEF Inv, ProbesOthers, CopyDone, Goto, Filling
<1>4. DirectoriesSound'
  BY DEF Inv, DirectoriesSound, CopyDone
<1>5. CallsWant'
  BY DEF Inv, CallsWant, CopyDone, Goto
<1>6. WaitersEntered'
  BY DEF Inv, WaitersEntered, CopyDone, Goto
<1>7. FillersEntered'
  BY <1>a, <1>b, <1>w, <1>v, DomainFacts, FirstFromFacts, CacheLevelAssumption
     DEF Inv, FillersEntered, CopyDone, Goto, Filling, TypeOK
<1>8. RestingTruthful'
  <2> SUFFICES ASSUME NEW e \in Domain, NEW s \in Slots,
                      ~BeingFilled(e, s)', ~Condemned(e, s)'
               PROVE  data'[e][s] = dir[e].indexToBlock[s]
    BY DEF RestingTruthful, CopyDone
  <2>1. CASE e = DomainOf[t] /\ s = slot[t]
    <3>1. ~Condemned(DomainOf[t], slot[t])
      BY <1>a, <2>1
    <3> QED  BY <1>w, <1>v, <2>1, <3>1 DEF Inv, FillersEntered
  <2>2. CASE ~(e = DomainOf[t] /\ s = slot[t])
    BY <1>a, <1>b, <1>w, <2>2 DEF Inv, RestingTruthful
  <2> QED  BY <2>1, <2>2
<1>9. CopiesTruthful'
  <2> SUFFICES ASSUME NEW u \in Thread, pc'[u] = "copy"
               PROVE  data'[probe'[u]][remote'[u]] = want'[u]
    BY DEF CopiesTruthful
  <2>1. CASE u = t
    BY <2>1 DEF CopyDone, Goto, Inv, TypeOK
  <2>2. CASE u # t
    <3>1. /\ pc[u] = "copy" /\ probe'[u] = probe[u] /\ remote'[u] = remote[u]
          /\ want'[u] = want[u] /\ probe[u] \in Domain /\ remote[u] \in Slots
      BY DEF CopyDone, Goto, Inv, TypeOK, ProbesOthers
    <3>2. ~(probe[u] = DomainOf[t] /\ remote[u] = slot[t])
      BY <1>w, <3>1, FillerAlone
    <3> QED  BY <1>w, <3>1, <3>2 DEF Inv, CopiesTruthful
  <2> QED  BY <2>1, <2>2
<1>10. SingleFill'
  BY DEF Inv, SingleFill, CopyDone, Goto, Filling
<1>11. ReadsRequestedBlock'
  <2> SUFFICES ASSUME NEW u \in Thread, pc'[u] = "read"
               PROVE  data'[DomainOf[u]][slot[u]] = want[u]
    BY DEF ReadsRequestedBlock, CopyDone
  <2>1. CASE u = t
    BY <1>w, <1>v, <2>1, FillerAlone
  <2>2. CASE u # t
    <3>1. pc[u] = "read" /\ DomainOf[u] \in Domain /\ slot[u] \in Slots
      BY <2>2, DomainFacts DEF CopyDone, Goto, Inv, TypeOK
    <3>2. ~(DomainOf[u] = DomainOf[t] /\ slot[u] = slot[t])
      BY <1>w, <2>2, <3>1, FillerAlone
    <3> QED  BY <1>w, <3>1, <3>2 DEF Inv, ReadsRequestedBlock
  <2> QED  BY <2>1, <2>2
<1> QED
  BY <1>1, <1>2, <1>3, <1>4, <1>5, <1>6, <1>7, <1>8, <1>9, <1>10, <1>11 DEF Inv

LEMMA LoadStartInv ==
  ASSUME Inv, NEW t \in Thread, LoadStart(t)
  PROVE  Inv'
<1>a. \A d \in Domain, s \in Slots : Condemned(d, s)' <=> Condemned(d, s)
  BY DEF LoadStart, Goto, Condemned
<1>b. \A d \in Domain, s \in Slots : BeingFilled(d, s)' <=> BeingFilled(d, s)
  BY DEF LoadStart, Goto, BeingFilled, Filling
<1>w. /\ pc[t] \in Filling
      /\ \A e \in Domain, s \in Slots :
            data'[e][s] = IF e = DomainOf[t] /\ s = slot[t] THEN Torn
                          ELSE data[e][s]
  BY DEF LoadStart, Inv, TypeOK, Filling
<1>1. TypeOK'
  BY <1>a, <1>b, <1>w, DomainFacts, FirstFromFacts, CacheLevelAssumption
     DEF Inv, TypeOK, LoadStart, Goto, Filling, PC, Content
<1>2. MutexesOwned'
  BY DEF Inv, MutexesOwned, LoadStart, Goto, Filling, OwnsManager, OwnsSlot
<1>3. ProbesOthers'
  BY DEF Inv, ProbesOthers, LoadStart, Goto, Filling
<1>4. DirectoriesSound'
  BY DEF Inv, DirectoriesSound, LoadStart
<1>5. CallsWant'
  BY DEF Inv, CallsWant, LoadStart, Goto
<1>6. WaitersEntered'
  BY DEF Inv, WaitersEntered, LoadStart, Goto
<1>7. FillersEntered'
  BY <1>a, <1>b, <1>w, DomainFacts, FirstFromFacts, CacheLevelAssumption, ZenonT(60)
     DEF Inv, FillersEntered, LoadStart, Goto, Filling, TypeOK
<1>8. RestingTruthful'
  BY <1>a, <1>b, <1>w, FillerAlone DEF Inv, RestingTruthful, LoadStart
<1>9. CopiesTruthful'
  <2> SUFFICES ASSUME NEW u \in Thread, pc'[u] = "copy"
               PROVE  data'[probe'[u]][remote'[u]] = want'[u]
    BY DEF CopiesTruthful
  <2>1. CASE u = t
    BY <2>1 DEF LoadStart, Goto
  <2>2. CASE u # t
    <3>1. /\ pc[u] = "copy" /\ probe'[u] = probe[u] /\ remote'[u] = remote[u]
          /\ want'[u] = want[u] /\ probe[u] \in Domain /\ remote[u] \in Slots
      BY DEF LoadStart, Goto, Inv, TypeOK, ProbesOthers
    <3>2. ~(probe[u] = DomainOf[t] /\ remote[u] = slot[t])
      BY <1>w, <3>1, FillerAlone
    <3> QED  BY <1>w, <3>1, <3>2 DEF Inv, CopiesTruthful
  <2> QED  BY <2>1, <2>2
<1>10. SingleFill'
  BY DEF Inv, SingleFill, LoadStart, Goto, Filling
<1>11. ReadsRequestedBlock'
  <2> SUFFICES ASSUME NEW u \in Thread, pc'[u] = "read"
               PROVE  data'[DomainOf[u]][slot[u]] = want[u]
    BY DEF ReadsRequestedBlock, LoadStart
  <2>1. CASE u = t
    BY <2>1 DEF LoadStart, Goto
  <2>2. CASE u # t
    <3>1. pc[u] = "read" /\ DomainOf[u] \in Domain /\ slot[u] \in Slots
      BY DomainFacts DEF LoadStart, Goto, Inv, TypeOK
    <3>2. ~(DomainOf[u] = DomainOf[t] /\ slot[u] = slot[t])
      BY <1>w, <2>2, <3>1, FillerAlone
    <3> QED  BY <1>w, <3>1, <3>2 DEF Inv, ReadsRequestedBlock
  <2> QED  BY <2>1, <2>2
<1> QED
  BY <1>1, <1>2, <1>3, <1>4, <1>5, <1>6, <1>7, <1>8, <1>9, <1>10, <1>11 DEF Inv

LEMMA LoadDoneInv ==
  ASSUME Inv, NEW t \in Thread, LoadDone(t)
  PROVE  Inv'
<1>a. \A d \in Domain, s \in Slots : Condemned(d, s)' <=> Condemned(d, s)
  BY DEF LoadDone, Goto, Condemned
<1>b. \A d \in Domain, s \in Slots :
        BeingFilled(d, s) => BeingFilled(d, s)' \/ (d = DomainOf[t] /\ s = slot[t])
  BY DEF LoadDone, Goto, BeingFilled
<1>w. /\ pc[t] \in Filling
      /\ \A e \in Domain, s \in Slots :
            data'[e][s] = IF e = DomainOf[t] /\ s = slot[t] THEN want[t]
                          ELSE data[e][s]
  BY DEF LoadDone, Inv, TypeOK, Filling
<1>1. TypeOK'
  BY <1>a, <1>b, <1>w, DomainFacts, FirstFromFacts, CacheLevelAssumption
     DEF Inv, TypeOK, LoadDone, Goto, Filling, PC, Content
<1>2. MutexesOwned'
  BY DEF Inv, MutexesOwned, LoadDone, Goto, Filling, OwnsManager, OwnsSlot
<1>3. ProbesOthers'
  BY DEF Inv, ProbesOthers, LoadDone, Goto, Filling
<1>4. DirectoriesSound'
  BY DEF Inv, DirectoriesSound, LoadDone
<1>5. CallsWant'
  BY DEF Inv, CallsWant, LoadDone, Goto
<1>6. WaitersEntered'
  BY DEF Inv, WaitersEntered, LoadDone, Goto
<1>7. FillersEntered'
  BY <1>a, <1>b, <1>w, DomainFacts, FirstFromFacts, CacheLevelAssumption
     DEF Inv, FillersEntered, LoadDone, Goto, Filling, TypeOK
<1>8. RestingTruthful'
  <2> SUFFICES ASSUME NEW e \in Domain, NEW s \in Slots,
                      ~BeingFilled(e, s)', ~Condemned(e, s)'
               PROVE  data'[e][s] = dir[e].indexToBlock[s]
    BY DEF RestingTruthful, LoadDone
  <2>1. CASE e = DomainOf[t] /\ s = slot[t]
    <3>1. ~Condemned(DomainOf[t], slot[t])
      BY <1>a, <2>1
    <3> QED  BY <1>w, <2>1, <3>1 DEF Inv, FillersEntered
  <2>2. CASE ~(e = DomainOf[t] /\ s = slot[t])
    BY <1>a, <1>b, <1>w, <2>2 DEF Inv, RestingTruthful
  <2> QED  BY <2>1, <2>2
<1>9. CopiesTruthful'
  <2> SUFFICES ASSUME NEW u \in Thread, pc'[u] = "copy"
               PROVE  data'[probe'[u]][remote'[u]] = want'[u]
    BY DEF CopiesTruthful
  <2>1. CASE u = t
    BY <2>1 DEF LoadDone, Goto
  <2>2. CASE u # t
    <3>1. /\ pc[u] = "copy" /\ probe'[u] = probe[u] /\ remote'[u] = remote[u]
          /\ want'[u] = want[u] /\ probe[u] \in Domain /\ remote[u] \in Slots
      BY DEF LoadDone, Goto, Inv, TypeOK, ProbesOthers
    <3>2. ~(probe[u] = DomainOf[t] /\ remote[u] = slot[t])
      BY <1>w, <3>1, FillerAlone
    <3> QED  BY <1>w, <3>1, <3>2 DEF Inv, CopiesTruthful
  <2> QED  BY <2>1, <2>2
<1>10. SingleFill'
  BY DEF Inv, SingleFill, LoadDone, Goto, Filling
<1>11. ReadsRequestedBlock'
  <2> SUFFICES ASSUME NEW u \in Thread, pc'[u] = "read"
               PROVE  data'[DomainOf[u]][slot[u]] = want[u]
    BY DEF ReadsRequestedBlock, LoadDone
  <2>1. CASE u = t
    BY <1>w, <2>1, FillerAlone
  <2>2. CASE u # t
    <3>1. pc[u] = "read" /\ DomainOf[u] \in Domain /\ slot[u] \in Slots
      BY <2>2, DomainFacts DEF LoadDone, Goto, Inv, TypeOK
    <3>2. ~(DomainOf[u] = DomainOf[t] /\ slot[u] = slot[t])
      BY <1>w, <2>2, <3>1, FillerAlone
    <3> QED  BY <1>w, <3>1, <3>2 DEF Inv, ReadsRequestedBlock
  <2> QED  BY <2>1, <2>2
<1> QED
  BY <1>1, <1>2, <1>3, <1>4, <1>5, <1>6, <1>7, <1>8, <1>9, <1>10, <1>11 DEF Inv

LEMMA ReturnInv ==
  ASSUME Inv, NEW t \in Thread, Return(t)
  PROVE  Inv'
<1>a. \A d \in Domain, s \in Slots : Condemned(d, s)' <=> Condemned(d, s)
  BY DEF Return, Goto, Condemned
<1>b. \A d \in Domain, s \in Slots : BeingFilled(d, s)' <=> BeingFilled(d, s)
  BY DEF Return, Goto, BeingFilled, Filling
<1>1. TypeOK'
  <2>1. 0 \in Slots /\ 0 \in 0 .. NumDomains
    BY LRUAssumption, CacheLevelAssumption DEF Slots
  <2>2. /\ blockMutex' \in [Domain -> [Slots -> Thread \cup {NoThread}]]
        /\ pc' \in [Thread -> PC]
    BY DomainFacts DEF Return, Goto, Inv, TypeOK, PC
  <2> QED  BY <2>1, <2>2 DEF Return, Inv, TypeOK
<1>2. MutexesOwned'
  BY CacheLevelAssumption
     DEF Inv, MutexesOwned, Return, Goto, Filling, TypeOK, OwnsManager, OwnsSlot
<1>3. ProbesOthers'
  BY DEF Inv, ProbesOthers, Return, Goto, Filling
<1>4. DirectoriesSound'
  BY DEF Inv, DirectoriesSound, Return
<1>5. CallsWant'
  BY DEF Inv, CallsWant, Return, Goto, TypeOK
<1>6. WaitersEntered'
  BY DEF Inv, WaitersEntered, Return, Goto
<1>7. FillersEntered'
  BY <1>a, <1>b, DomainFacts, FirstFromFacts, CacheLevelAssumption
     DEF Inv, FillersEntered, Return, Goto, Filling, TypeOK
<1>8. RestingTruthful'
  BY <1>a, <1>b DEF Inv, RestingTruthful, Return
<1>9. CopiesTruthful'
  BY DEF Inv, CopiesTruthful, Return, Goto
<1>10. SingleFill'
  BY DEF Inv, SingleFill, Return, Goto, Filling
<1>11. ReadsRequestedBlock'
  BY DEF Inv, ReadsRequestedBlock, Return, Goto, TypeOK
<1> QED
  BY <1>1, <1>2, <1>3, <1>4, <1>5, <1>6, <1>7, <1>8, <1>9, <1>10, <1>11 DEF Inv

LEMMA InitInv == Init => Inv
<1> SUFFICES ASSUME Init PROVE Inv
  OBVIOUS
<1>1. \A d \in Domain :
        /\ dir[d] \in InitDirectories /\ dir[d] \in Directory
        /\ dir[d].indexToBlock = [i \in Slots |-> Absent]
        /\ HandsApart(dir[d].clock) /\ Agree(dir[d])
  BY InitDirectoryFacts DEF Init
<1>2. TypeOK
  <2>1. 0 \in Slots /\ 0 \in 0 .. NumDomains
    BY LRUAssumption, CacheLevelAssumption DEF Slots
  <2> QED  BY <1>1, <2>1 DEF Init, TypeOK, Content, PC
<1>3. MutexesOwned
  BY CacheLevelAssumption DEF Init, MutexesOwned, OwnsManager, OwnsSlot, Filling
<1>4. DirectoriesSound
  BY <1>1 DEF DirectoriesSound
<1>5. RestingTruthful
  BY <1>1 DEF Init, RestingTruthful
<1>6. /\ ProbesOthers /\ CallsWant /\ WaitersEntered /\ FillersEntered
      /\ CopiesTruthful /\ SingleFill /\ ReadsRequestedBlock
  BY DEF Init, ProbesOthers, CallsWant, WaitersEntered, FillersEntered,
         CopiesTruthful, SingleFill, ReadsRequestedBlock, Filling
<1> QED  BY <1>2, <1>3, <1>4, <1>5, <1>6 DEF Inv

LEMMA Inductive == Inv /\ [Next]_vars => Inv'
<1> SUFFICES ASSUME Inv, [Next]_vars PROVE Inv'
  OBVIOUS
<1>1. CASE UNCHANGED vars
  BY <1>1 DEF vars, Inv, TypeOK, MutexesOwned, OwnsManager, OwnsSlot, ProbesOthers,
              DirectoriesSound, CallsWant, WaitersEntered, FillersEntered,
              RestingTruthful, CopiesTruthful, SingleFill, ReadsRequestedBlock,
              Condemned, BeingFilled
<1>2. ASSUME NEW t \in Thread, NEW b \in Block, Call(t, b) PROVE Inv'
  BY <1>2, CallInv
<1>3. ASSUME NEW t \in Thread, Continue(t) PROVE Inv'
  BY <1>3, GetHitInv, GetMissInv, LockSlotInv, PeekBusyInv, PeekLockInv,
     PeekFailInv, PeekSuccessInv, CopyDoneInv, LoadStartInv, LoadDoneInv, ReturnInv
     DEF Continue
<1> QED  BY <1>1, <1>2, <1>3 DEF Next

LEMMA Invariance == Spec => []Inv
BY InitInv, Inductive, PTL DEF Spec

-----------------------------------------------------------------------------
(* The inductive invariant holds for every number of threads, domains,     *)
(* slots and blocks: mutexes, directories and slot contents fit together.  *)
THEOREM InvHolds == Spec => []Inv
BY Invariance

(* No caller of getAt is given a value of another block, or one of a slot  *)
(* that is being written.                                                  *)
THEOREM ReadsRequestedBlockHolds == Spec => []ReadsRequestedBlock
<1>1. Inv => ReadsRequestedBlock
  BY DEF Inv
<1> QED  BY <1>1, Invariance, PTL

(* A block is fetched by at most one thread of a domain at a time.         *)
THEOREM SingleFillHolds == Spec => []SingleFill
<1>1. Inv => SingleFill
  BY DEF Inv
<1> QED  BY <1>1, Invariance, PTL

(* Where no mutex is held, the directory describes the slot.               *)
THEOREM DirectoryTruthfulHolds == Spec => []DirectoryTruthful
<1>1. Inv => DirectoryTruthful
  <2> SUFFICES ASSUME Inv, NEW d \in Domain, NEW s \in Slots,
                      cacheMutex[d] = NoThread, blockMutex[d][s] = NoThread
               PROVE  data[d][s] = dir[d].indexToBlock[s]
    BY DEF DirectoryTruthful
  <2>1. ~Condemned(d, s)
    BY CacheLevelAssumption DEF Condemned, Inv, MutexesOwned, OwnsManager
  <2>2. ~BeingFilled(d, s)
    BY CacheLevelAssumption DEF BeingFilled, Inv, MutexesOwned, OwnsSlot
  <2> QED  BY <2>1, <2>2 DEF Inv, RestingTruthful
<1> QED  BY <1>1, Invariance, PTL
=============================================================================
