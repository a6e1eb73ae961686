-------------------------- MODULE CacheDistWinProofs --------------------------
(***************************************************************************)
(* Proofs about CacheDistWin, for every number of ranks, threads, slots,   *)
(* blocks and places in an entry, with and without mpiLock.                *)
(***************************************************************************)
EXTENDS CacheDistWin, TLAPS

LEMMA Division ==
  ASSUME NEW b \in Nat \ {0}, NEW q \in Int, NEW r \in 0 .. b - 1
  PROVE  (q * b + r) \div b = q /\ (q * b + r) % b = r
OBVIOUS

(* A place is a rank and a slot in one number, and nothing is lost.        *)
LEMMA PlaceFacts ==
  ASSUME NEW r \in Rank, NEW s \in Slots
  PROVE  /\ PlaceOf(r, s) \in Places
         /\ PlaceOf(r, s) # Unused
         /\ RankOf(PlaceOf(r, s)) = r
         /\ SlotOf(PlaceOf(r, s)) = s
<1>1. r \in Nat /\ s \in Nat /\ s \in 0 .. CacheSize - 1 /\ CacheSize \in Nat \ {0}
  BY MPICacheDictAssumption DEF Rank, Slots
<1>2. RankOf(PlaceOf(r, s)) = r /\ SlotOf(PlaceOf(r, s)) = s
  BY <1>1, Division DEF PlaceOf, RankOf, SlotOf
<1>3. r * CacheSize + s >= 0
  <2>1. r * CacheSize \in Nat
    BY <1>1
  <2> QED  BY <1>1, <2>1
<1>4. PlaceOf(r, s) # Unused
  BY <1>3 DEF PlaceOf, Unused
<1> QED  BY <1>2, <1>4 DEF Places

LEMMA PlacesFacts ==
  ASSUME NEW p \in Places
  PROVE  /\ p # Unused
         /\ RankOf(p) \in Rank
         /\ SlotOf(p) \in Slots
         /\ PlaceOf(RankOf(p), SlotOf(p)) = p
<1>1. PICK r \in Rank, s \in Slots : p = PlaceOf(r, s)
  BY DEF Places
<1> QED  BY <1>1, PlaceFacts

LEMMA IndexFacts ==
  /\ DictSize \in Nat \ {0} /\ Index = 0 .. DictSize - 1
  /\ 0 \in Index /\ DictSize - 1 \in Index
  /\ \A i \in Index : i \in Nat /\ i < DictSize
BY MPICacheDictAssumption DEF Index

LEMMA CountOf ==
  ASSUME NEW entry, NEW n \in 0 .. DictSize,
         \A i \in Index : entry[i] # Unused <=> i < n
  PROVE  Count(entry) = n
<1> DEFINE P(m) == /\ \A i \in 0 .. m - 1 : entry[i] # Unused
                   /\ m < DictSize => entry[m] = Unused
<1>1. P(n)
  BY IndexFacts
<1>2. ASSUME NEW m \in 0 .. DictSize, P(m)
      PROVE  m = n
  <2>1. CASE m < n
    BY <1>2, <2>1, IndexFacts
  <2>2. CASE m > n
    <3>1. n \in 0 .. m - 1 /\ n \in Index
      BY <2>2, IndexFacts
    <3> QED  BY <1>2, <3>1
  <2> QED  BY <2>1, <2>2, IndexFacts
<1>3. Count(entry) = CHOOSE m \in 0 .. DictSize : P(m)
  BY DEF Count
<1> HIDE DEF P
<1> QED  BY <1>1, <1>2, <1>3

(* The places a list holds are those it lists.                             *)
LEMMA ListedFacts ==
  ASSUME NEW entry, IsList(entry)
  PROVE  \A p : p \in Listed(entry) <=> \E i \in Index : entry[i] = p /\ p # Unused
<1>1. PICK n \in 0 .. DictSize : \A i \in Index : entry[i] # Unused <=> i < n
  BY DEF IsList
<1>2. Count(entry) = n
  BY <1>1, CountOf
<1>3. \A i : i \in 0 .. n - 1 <=> i \in Index /\ i < n
  BY IndexFacts
<1> QED  BY <1>1, <1>2, <1>3 DEF Listed

LEMMA FetchedFacts ==
  ASSUME NEW entry, IsList(entry), NEW p \in Fetched(entry)
  PROVE  p = Unused \/ \E i \in Index : entry[i] = p
<1>1. CASE Count(entry) = 0
  BY <1>1 DEF Fetched
<1>2. CASE Count(entry) # 0
  BY <1>2, ListedFacts DEF Fetched
<1> QED  BY <1>1, <1>2

(* updateBlockInfo() keeps a list if the new place is not in it yet.       *)
LEMMA UpdatedList ==
  ASSUME NEW entry, IsList(entry), NEW p, p # Unused,
         \A i \in Index : entry[i] # p
  PROVE  /\ IsList(Updated(entry, p))
         /\ \A i \in Index :
               Updated(entry, p)[i] = p \/ \E j \in Index : Updated(entry, p)[i] = entry[j]
<1>1. PICK n \in 0 .. DictSize : \A i \in Index : entry[i] # Unused <=> i < n
  BY DEF IsList
<1>2. Count(entry) = n
  BY <1>1, CountOf
<1> DEFINE U == Updated(entry, p)
<1>3. \A i \in Index : U[i] = CASE i = 0 -> p
                                [] i > 0 /\ i <= n -> entry[i - 1]
                                [] OTHER -> entry[i]
  BY <1>2 DEF Updated
<1> HIDE DEF U
<1>5. \A i \in Index : i > 0 => i - 1 \in Index
  BY IndexFacts
<1>6. \A i \in Index :
        \/ i = 0 /\ U[i] = p
        \/ i > 0 /\ i <= n /\ U[i] = entry[i - 1]
        \/ i > 0 /\ i > n /\ U[i] = entry[i]
  BY <1>3, IndexFacts
<1>7. p # Unused
  OBVIOUS
<1>8. \A i \in Index : i > n => entry[i] = Unused
  BY <1>1, IndexFacts
<1>9. \E m \in 0 .. DictSize : \A i \in Index : U[i] # Unused <=> i < m
  <2>1. CASE n < DictSize
    <3>1. \A i \in Index : U[i] # Unused <=> i < n + 1
      BY <1>1, <1>5, <1>6, <1>7, <1>8, IndexFacts
    <3>2. n + 1 \in 0 .. DictSize
      BY <2>1, IndexFacts
    <3> QED  BY <3>1, <3>2
  <2>2. CASE n = DictSize
    <3>1. \A i \in Index : U[i] # Unused <=> i < n
      BY <1>1, <1>5, <1>6, <1>7, <1>8, <2>2, IndexFacts
    <3> QED  BY <3>1, IndexFacts
  <2> QED  BY <2>1, <2>2, IndexFacts
<1>10. ASSUME NEW i \in Index, NEW j \in Index, U[i] # Unused, U[i] = U[j]
       PROVE  i = j
  <2>1. i = 0 => U[j] = p
    BY <1>6, <1>10, IndexFacts
  <2>2. i = 0 => j = 0
    BY <1>5, <1>6, <2>1, IndexFacts
  <2>3. j = 0 => i = 0
    BY <1>5, <1>6, <1>10, IndexFacts
  <2>4. CASE i > 0 /\ j > 0
    <3>1. i <= n /\ j <= n
      BY <1>6, <1>8, <1>10, <2>4
    <3>2. entry[i - 1] = entry[j - 1] /\ entry[i - 1] # Unused
      BY <1>6, <1>10, <2>4, <3>1, IndexFacts
    <3>3. i - 1 = j - 1
      BY <1>5, <2>4, <3>2 DEF IsList
    <3> QED  BY <3>3, IndexFacts
  <2> QED  BY <2>2, <2>3, <2>4, IndexFacts
<1>11. \A i \in Index : U[i] = p \/ \E j \in Index : U[i] = entry[j]
  BY <1>5, <1>6
<1> QED  BY <1>9, <1>10, <1>11 DEF U, IsList

LEMMA UpdatedFacts ==
  ASSUME NEW entry \in DictEntry, IsList(entry), NEW p \in Places,
         \A i \in Index : entry[i] # p
  PROVE  /\ Updated(entry, p) \in DictEntry
         /\ IsList(Updated(entry, p))
         /\ \A i \in Index :
               Updated(entry, p)[i] = p \/ \E j \in Index : Updated(entry, p)[i] = entry[j]
<1>1. /\ IsList(Updated(entry, p))
      /\ \A i \in Index :
            Updated(entry, p)[i] = p \/ \E j \in Index : Updated(entry, p)[i] = entry[j]
  BY PlacesFacts, UpdatedList
<1>2. Updated(entry, p) = [i \in Index |-> Updated(entry, p)[i]]
  BY DEF Updated
<1>3. \A i \in Index : Updated(entry, p)[i] \in Places \cup {Unused}
  BY <1>1 DEF DictEntry
<1> QED  BY <1>1, <1>2, <1>3 DEF DictEntry

(* deleteBlockInfo() keeps a list, and the place is not in it any more.    *)
LEMMA DeletedList ==
  ASSUME NEW entry, IsList(entry), NEW p, p # Unused
  PROVE  /\ IsList(Deleted(entry, p))
         /\ \A i \in Index : Deleted(entry, p)[i] # p
         /\ \A i \in Index :
               Deleted(entry, p)[i] # Unused => \E j \in Index : Deleted(entry, p)[i] = entry[j]
<1>1. PICK n \in 0 .. DictSize : \A i \in Index : entry[i] # Unused <=> i < n
  BY DEF IsList
<1> DEFINE D == Deleted(entry, p)
           Behind(i) == \E j \in 0 .. i : entry[j] = p
<1>2. p # Unused
  OBVIOUS
<1>3. \A i \in Index : D[i] = CASE i = DictSize - 1 -> Unused
                                [] i < DictSize - 1 /\ Behind(i) -> entry[i + 1]
                                [] OTHER -> entry[i]
  BY DEF Deleted
<1>5. \A i \in Index, j \in Index : j <= i => j \in 0 .. i
  BY IndexFacts
<1>6. \A i \in Index : \A j \in 0 .. i : j \in Index /\ j <= i
  BY IndexFacts
<1>7. \A i, j \in Index : entry[i] # Unused /\ entry[i] = entry[j] => i = j
  BY DEF IsList
<1> HIDE DEF D, Behind
<1>8. \A i \in Index : i < DictSize - 1 => i + 1 \in Index
  BY IndexFacts
<1>9. \A i \in Index :
        \/ i = DictSize - 1 /\ D[i] = Unused
        \/ i < DictSize - 1 /\ Behind(i) /\ D[i] = entry[i + 1]
        \/ i < DictSize - 1 /\ ~Behind(i) /\ D[i] = entry[i]
  BY <1>3, IndexFacts
<1>11. \A i \in Index : Behind(i) <=> \E j \in Index : j <= i /\ entry[j] = p
  BY <1>5, <1>6 DEF Behind
<1>12. \A i \in Index : D[i] # p
  <2> TAKE i \in Index
  <2>1. CASE i < DictSize - 1 /\ Behind(i) /\ D[i] = entry[i + 1]
    <3>1. PICK j \in Index : j <= i /\ entry[j] = p
      BY <1>11, <2>1
    <3>2. j # i + 1
      BY <3>1, IndexFacts
    <3> QED  BY <1>2, <1>7, <1>8, <2>1, <3>1, <3>2
  <2>2. CASE i < DictSize - 1 /\ ~Behind(i) /\ D[i] = entry[i]
    BY <1>11, <2>2, IndexFacts
  <2> QED  BY <1>2, <1>9, <2>1, <2>2
<1>13. \A i \in Index : D[i] # Unused => \E j \in Index : D[i] = entry[j]
  BY <1>8, <1>9
<1>14. ASSUME NEW i \in Index, NEW j \in Index, D[i] # Unused, D[i] = D[j]
       PROVE  i = j
  <2>1. /\ i < DictSize - 1 /\ j < DictSize - 1 /\ i + 1 \in Index /\ j + 1 \in Index
        /\ i \in Nat /\ j \in Nat
    BY <1>8, <1>9, <1>14, IndexFacts
  <2>2. CASE Behind(i) <=> Behind(j)
    BY <1>7, <1>9, <1>14, <2>1, <2>2
  <2>3. CASE Behind(i) /\ ~Behind(j)
    <3>1. entry[i + 1] = entry[j] /\ entry[j] # Unused
      BY <1>9, <1>14, <2>1, <2>3
    <3>2. j = i + 1
      BY <1>7, <2>1, <3>1
    <3>3. Behind(j)
      BY <1>11, <2>1, <2>3, <3>2
    <3> QED  BY <2>3, <3>3
  <2>4. CASE ~Behind(i) /\ Behind(j)
    <3>1. entry[j + 1] = entry[i] /\ entry[i] # Unused
      BY <1>9, <1>14, <2>1, <2>4
    <3>2. i = j + 1
      BY <1>7, <2>1, <3>1
    <3>3. Behind(i)
      BY <1>11, <2>1, <2>4, <3>2
    <3> QED  BY <2>4, <3>3
  <2> QED  BY <2>2, <2>3, <2>4
<1>15. \E m \in 0 .. DictSize : \A i \in Index : D[i] # Unused <=> i < m
  <2>1. CASE \E k \in Index : entry[k] = p
    <3>1. PICK k \in Index : entry[k] = p
      BY <2>1
    <3>2. k < n /\ n - 1 \in 0 .. DictSize /\ k \in Nat /\ n \in Nat
      BY <1>1, <1>2, <3>1, IndexFacts
    <3>3. \A i \in Index : Behind(i) <=> k <= i
      BY <1>2, <1>7, <1>11, <3>1
    <3>4. ASSUME NEW i \in Index
          PROVE  D[i] # Unused <=> i < n - 1
      <4>1. i \in Nat /\ i < DictSize
        BY IndexFacts
      <4>2. CASE i = DictSize - 1
        BY <1>9, <3>2, <4>1, <4>2, IndexFacts
      <4>3. CASE i < DictSize - 1 /\ k <= i
        <5>1. D[i] = entry[i + 1] /\ i + 1 \in Index
          BY <1>8, <1>9, <3>3, <4>1, <4>3, IndexFacts
        <5> QED  BY <1>1, <3>2, <4>1, <5>1
      <4>4. CASE i < DictSize - 1 /\ i < k
        <5>1. D[i] = entry[i]
          BY <1>9, <3>2, <3>3, <4>1, <4>4, IndexFacts
        <5> QED  BY <1>1, <3>2, <4>1, <4>4, <5>1
      <4> QED  BY <3>2, <4>1, <4>2, <4>3, <4>4, IndexFacts
    <3> QED  BY <3>2, <3>4
  <2>2. CASE \A k \in Index : entry[k] # p
    <3>1. \A i \in Index : ~Behind(i)
      BY <1>11, <2>2
    <3>2. CASE n < DictSize
      <4>1. \A i \in Index : D[i] # Unused <=> i < n
        BY <1>1, <1>9, <3>1, <3>2, IndexFacts
      <4> QED  BY <4>1
    <3>3. CASE n = DictSize
      <4>1. \A i \in Index : D[i] # Unused <=> i < n - 1
        BY <1>1, <1>9, <3>1, <3>3, IndexFacts
      <4>2. n - 1 \in 0 .. DictSize
        BY <3>3, IndexFacts
      <4> QED  BY <4>1, <4>2
    <3> QED  BY <3>2, <3>3, IndexFacts
  <2> QED  BY <2>1, <2>2
<1> QED  BY <1>12, <1>13, <1>14, <1>15 DEF D, IsList

LEMMA DeletedFacts ==
  ASSUME NEW entry \in DictEntry, IsList(entry), NEW p \in Places
  PROVE  /\ Deleted(entry, p) \in DictEntry
         /\ IsList(Deleted(entry, p))
         /\ \A i \in Index : Deleted(entry, p)[i] # p
         /\ \A i \in Index :
               Deleted(entry, p)[i] # Unused => \E j \in Index : Deleted(entry, p)[i] = entry[j]
<1>1. /\ IsList(Deleted(entry, p))
      /\ \A i \in Index : Deleted(entry, p)[i] # p
      /\ \A i \in Index :
            Deleted(entry, p)[i] # Unused => \E j \in Index : Deleted(entry, p)[i] = entry[j]
  BY PlacesFacts, DeletedList
<1>2. Deleted(entry, p) = [i \in Index |-> Deleted(entry, p)[i]]
  BY DEF Deleted
<1>3. \A i \in Index : Deleted(entry, p)[i] \in Places \cup {Unused}
  BY <1>1 DEF DictEntry
<1> QED  BY <1>1, <1>2, <1>3 DEF DictEntry

-----------------------------------------------------------------------------
LEMMA ThreadFacts ==
  ASSUME Inv, NEW t \in Thread
  PROVE  /\ HomeOf[t] \in Rank /\ slot[t] \in Slots
         /\ pc[t] # "idle" => want[t] \in Block
         /\ OwnPlace(t) \in Places
         /\ RankOf(OwnPlace(t)) = HomeOf[t] /\ SlotOf(OwnPlace(t)) = slot[t]
<1>1. HomeOf[t] \in Rank /\ slot[t] \in Slots /\ (pc[t] # "idle" => want[t] \in Block)
  BY CacheDistWinAssumption DEF Inv, TypeOK, CallsWant
<1> QED  BY <1>1, PlaceFacts DEF OwnPlace

(* At most one thread of a rank waits for a slot.                          *)
LEMMA OneWaiter ==
  ASSUME MutexesOwned, NEW t \in Thread, NEW u \in Thread,
         pc[t] = "lock", pc[u] = "lock", HomeOf[t] = HomeOf[u]
  PROVE  t = u
<1>1. HomeOf[t] \in Rank
  BY CacheDistWinAssumption
<1> QED  BY <1>1 DEF MutexesOwned

(* A thread that fills its slot is alone there.                            *)
LEMMA FillerAlone ==
  ASSUME Inv, NEW t \in Thread, NEW u \in Thread,
         pc[t] \in FillingPC, pc[u] \in FillingPC \cup {"read"},
         HomeOf[u] = HomeOf[t], slot[u] = slot[t]
  PROVE  u = t
<1>1. OwnsSlot(t, HomeOf[t], slot[t]) /\ OwnsSlot(u, HomeOf[t], slot[t])
  BY DEF OwnsSlot
<1>2. HomeOf[t] \in Rank /\ slot[t] \in Slots
  BY ThreadFacts
<1> QED  BY <1>1, <1>2 DEF Inv, MutexesOwned

(* A block is fetched by one thread of all ranks at a time.                *)
LEMMA EntryAlone ==
  ASSUME Inv, NEW t \in Thread, NEW u \in Thread,
         pc[t] \in EntryPC, pc[u] \in EntryPC, want[u] = want[t]
  PROVE  u = t
<1>1. want[t] \in Block
  BY ThreadFacts DEF EntryPC
<1> QED  BY <1>1 DEF Inv, MutexesOwned

(* An entry whose mutex is free is nobody's.                               *)
LEMMA EntryFree ==
  ASSUME Inv, NEW b \in Block, entryMutex[b] = NoThread, NEW t \in Thread, pc[t] \in EntryPC
  PROVE  want[t] # b
BY CacheDistWinAssumption DEF Inv, MutexesOwned

(* A thread that has its slot but not announced it is not listed.          *)
LEMMA NotListed ==
  ASSUME Inv, NEW t \in Thread, NEW b \in Block, NEW i \in Index,
         dictionary[b][i] = OwnPlace(t), pc[t] \in FillingPC
  PROVE  \/ pc[t] \in {"delete", "deleting"} /\ old[t] = b
         \/ pc[t] \in EntryPC /\ want[t] = b
<1>1. dictionary[b][i] # Unused
  BY ThreadFacts, PlacesFacts
<1>2. Announced(RankOf(dictionary[b][i]), SlotOf(dictionary[b][i]), b)
  BY <1>1 DEF Inv, ListedAnnounced
<1> QED  BY <1>2, ThreadFacts DEF Announced

(* What is listed, is announced at a rank and a slot.                      *)
LEMMA ListedPlace ==
  ASSUME Inv, NEW b \in Block, NEW i \in Index, dictionary[b][i] # Unused
  PROVE  \E r \in Rank, s \in Slots : dictionary[b][i] = PlaceOf(r, s) /\ Announced(r, s, b)
<1>1. dictionary[b][i] \in Places
  BY DEF Inv, TypeOK, DictEntry
<1>2. Announced(RankOf(dictionary[b][i]), SlotOf(dictionary[b][i]), b)
  BY DEF Inv, ListedAnnounced
<1> QED  BY <1>1, <1>2, PlacesFacts

LEMMA ListedStep ==
  ASSUME \A b \in Block : \A i \in Index : dictionary'[b][i] # Unused =>
            \E r \in Rank, s \in Slots :
                dictionary'[b][i] = PlaceOf(r, s) /\ Announced(r, s, b)'
  PROVE  ListedAnnounced'
<1> SUFFICES ASSUME NEW b \in Block, NEW i \in Index, dictionary'[b][i] # Unused
             PROVE  Announced(RankOf(dictionary[b][i]), SlotOf(dictionary[b][i]), b)'
  BY DEF ListedAnnounced
<1>1. PICK r \in Rank, s \in Slots : dictionary'[b][i] = PlaceOf(r, s) /\ Announced(r, s, b)'
  OBVIOUS
<1>2. RankOf(dictionary'[b][i]) = r /\ SlotOf(dictionary'[b][i]) = s
  BY <1>1, PlaceFacts
<1> QED  BY <1>1, <1>2 DEF Announced

(* With the dictionary, what is announced has to stay so.                  *)
LEMMA ListedStays ==
  ASSUME Inv, UNCHANGED dictionary,
         \A r \in Rank, s \in Slots : \A b \in Block :
             Announced(r, s, b) => Announced(r, s, b)'
  PROVE  ListedAnnounced' /\ EntriesLists'
<1>1. EntriesLists'
  BY DEF Inv, EntriesLists
<1>2. \A b \in Block : \A i \in Index : dictionary'[b][i] # Unused =>
            \E r \in Rank, s \in Slots :
                dictionary'[b][i] = PlaceOf(r, s) /\ Announced(r, s, b)'
  BY ListedPlace
<1> QED  BY <1>1, <1>2, ListedStep

-----------------------------------------------------------------------------
LEMMA CallInv ==
  ASSUME Inv, NEW t \in Thread, NEW b \in Block, Call(t, b)
  PROVE  Inv'
<1>a. \A r \in Rank, s \in Slots : Condemned(r, s)' <=> Condemned(r, s)
  BY DEF Call, Goto, Inv, TypeOK, Condemned
<1>b. \A r \in Rank, s \in Slots : BeingFilled(r, s)' <=> BeingFilled(r, s)
  BY DEF Call, Goto, Inv, TypeOK, BeingFilled, FillingPC
<1>1. TypeOK'
  BY DEF Inv, TypeOK, Call, Goto, PC, manager, locals, global
<1>2. MutexesOwned'
  BY DEF Inv, TypeOK, MutexesOwned, Call, Goto, OwnsSlot, FillingPC, EntryPC, manager, global
<1>3. CallsWant'
  BY DEF Inv, TypeOK, CallsWant, Call, Goto
<1>4. WaitersEntered'
  BY DEF Inv, TypeOK, WaitersEntered, Call, Goto, manager
<1>5. FillersEntered'
  BY <1>a, ThreadFacts DEF Inv, TypeOK, FillersEntered, Call, Goto, manager, FillingPC
<1>6. RestingTruthful'
  BY <1>a, <1>b DEF Inv, RestingTruthful, Call, manager
<1>7. OldKnown'
  BY <1>b, ThreadFacts DEF Inv, TypeOK, OldKnown, Call, Goto, FillingPC
<1>8. ListedAnnounced' /\ EntriesLists'
  <2>1. \A r \in Rank, s \in Slots : \A c \in Block :
            Announced(r, s, c) => Announced(r, s, c)'
    BY <1>b DEF Announced, Call, Goto, Inv, TypeOK, FillingPC, EntryPC
  <2> QED  BY <2>1, ListedStays DEF Call, global
<1>9. SourcesHeld'
  BY DEF Inv, TypeOK, SourcesHeld, Call, Goto, FillingPC
<1>10. SourceKept'
  BY DEF Inv, TypeOK, SourceKept, Call, Goto
<1>11. FilledAtEnd'
  BY DEF Inv, TypeOK, FilledAtEnd, Call, Goto
<1>12. ReadsRequestedBlock'
  BY DEF Inv, TypeOK, ReadsRequestedBlock, Call, Goto
<1> QED
  BY <1>1, <1>2, <1>3, <1>4, <1>5, <1>6, <1>7, <1>8, <1>9, <1>10, <1>11, <1>12 DEF Inv

LEMMA GetInv ==
  ASSUME Inv, NEW t \in Thread, NEW s \in Slots, Get(t, s)
  PROVE  Inv'
<1> DEFINE r == HomeOf[t]
<1>a. r \in Rank /\ want[t] \in Block
  BY ThreadFacts DEF Get
<1>b. \A u \in Thread : HomeOf[u] = r => pc[u] # "lock"
  BY CacheDistWinAssumption DEF Get, Inv, MutexesOwned
<1>c. /\ pc[t] = "get"
      /\ pc' = [pc EXCEPT ![t] = "lock"]
      /\ stored' = [stored EXCEPT ![r][s] = want[t]]
      /\ slot' = [slot EXCEPT ![t] = s]
      /\ old' = [old EXCEPT ![t] = stored[r][s]]
      /\ cacheMutex' = [cacheMutex EXCEPT ![r] = t]
      /\ UNCHANGED <<blockMutex, data, dictionary, entryMutex, mpiLock, want, source>>
  BY DEF Get, Goto, global
<1>d. \A x \in Slots : ~Condemned(r, x)
  BY <1>b DEF Condemned
<1>e. \A q \in Rank, x \in Slots :
          Condemned(q, x)' <=> \/ Condemned(q, x)
                               \/ q = r /\ x = s /\ stored[r][s] # want[t]
  BY <1>b, <1>c DEF Condemned, Inv, TypeOK
<1>f. \A q \in Rank, x \in Slots : BeingFilled(q, x)' <=> BeingFilled(q, x)
  BY <1>c DEF BeingFilled, Inv, TypeOK, FillingPC
<1> HIDE DEF r
<1>g. \A q \in Rank, x \in Slots :
         stored'[q][x] = IF q = r /\ x = s THEN want[t] ELSE stored[q][x]
  BY <1>a, <1>c DEF Inv, TypeOK
<1>1. TypeOK'
  BY <1>a, <1>c DEF Inv, TypeOK, PC
<1>2. MutexesOwned'
  BY <1>a, <1>b, <1>c, CacheDistWinAssumption
     DEF Inv, TypeOK, MutexesOwned, OwnsSlot, FillingPC, EntryPC, r
<1>3. CallsWant'
  BY <1>a, <1>c DEF Inv, TypeOK, CallsWant
<1>4. WaitersEntered'
  BY <1>a, <1>b, <1>c, <1>g, ThreadFacts DEF Inv, TypeOK, WaitersEntered, r
<1>5. FillersEntered'
  <2> SUFFICES ASSUME NEW u \in Thread, pc'[u] \in FillingPC, ~Condemned(HomeOf[u], slot[u])'
               PROVE  stored'[HomeOf[u]][slot'[u]] = want'[u]
    BY DEF FillersEntered
  <2>1. u # t /\ pc[u] \in FillingPC /\ slot'[u] = slot[u] /\ want'[u] = want[u]
    BY <1>c DEF Inv, TypeOK, FillingPC
  <2>2. HomeOf[u] \in Rank /\ slot[u] \in Slots
    BY ThreadFacts
  <2>3. ~Condemned(HomeOf[u], slot[u])
    BY <1>e, <2>1, <2>2 DEF Condemned
  <2>4. stored[HomeOf[u]][slot[u]] = want[u]
    BY <2>1, <2>3 DEF Inv, FillersEntered
  <2>5. HomeOf[u] = r /\ slot[u] = s => stored[r][s] = want[t]
    BY <1>e, <2>1, <2>2 DEF Condemned
  <2> QED  BY <1>g, <2>1, <2>2, <2>4, <2>5
<1>6. RestingTruthful'
  BY <1>a, <1>c, <1>e, <1>f, <1>g DEF Inv, RestingTruthful
<1>7. OldKnown'
  <2>1. ASSUME NEW u \in Thread, pc'[u] = "lock", old'[u] # want'[u]
        PROVE  /\ ~BeingFilled(HomeOf[u], slot[u])' => data'[HomeOf[u]][slot'[u]] = old'[u]
               /\ \A v \in Thread :
                     pc'[v] \in FillingPC /\ HomeOf[v] = HomeOf[u] /\ slot'[v] = slot'[u]
                         => want'[v] = old'[u]
    <3>1. CASE u = t
      <4>1. slot'[t] = s /\ old'[t] = stored[r][s]
        BY <1>c DEF Inv, TypeOK
      <4>2. ~BeingFilled(r, s) => data[r][s] = stored[r][s]
        BY <1>a, <1>d DEF Inv, RestingTruthful
      <4>3. ~BeingFilled(HomeOf[u], slot[u])' => data'[r][s] = stored[r][s]
        BY <1>c, <3>1, <4>1, <4>2 DEF BeingFilled, r, FillingPC, Inv, TypeOK
      <4>4. ASSUME NEW v \in Thread, pc'[v] \in FillingPC, HomeOf[v] = r, slot'[v] = s
            PROVE  want'[v] = stored[r][s]
        <5>1. v # t /\ pc[v] \in FillingPC /\ slot[v] = s /\ want'[v] = want[v]
          BY <1>c, <4>4 DEF Inv, TypeOK, FillingPC
        <5> QED  BY <1>a, <1>d, <4>4, <5>1 DEF Inv, FillersEntered
      <4> QED  BY <3>1, <4>1, <4>3, <4>4 DEF r
    <3>2. CASE u # t
      <4>1. pc[u] = "lock" /\ old[u] # want[u] /\ slot'[u] = slot[u] /\ old'[u] = old[u]
        BY <1>c, <2>1, <3>2 DEF Inv, TypeOK
      <4>2. ~BeingFilled(HomeOf[u], slot[u])' => ~BeingFilled(HomeOf[u], slot[u])
        BY <1>c, <4>1 DEF BeingFilled, FillingPC, Inv, TypeOK
      <4>3. \A v \in Thread : pc'[v] \in FillingPC =>
               pc[v] \in FillingPC /\ slot'[v] = slot[v] /\ want'[v] = want[v]
        BY <1>c DEF Inv, TypeOK, FillingPC
      <4> QED  BY <1>c, <4>1, <4>2, <4>3 DEF Inv, OldKnown
    <3> QED  BY <3>1, <3>2
  <2>2. \A u \in Thread : pc'[u] \in {"delete", "deleting"} =>
              old'[u] \in Block /\ data'[HomeOf[u]][slot'[u]] = old'[u]
    BY <1>c DEF Inv, TypeOK, OldKnown
  <2> QED  BY <2>1, <2>2 DEF OldKnown
<1>8. ListedAnnounced' /\ EntriesLists'
  <2>1. \A q \in Rank, x \in Slots : \A c \in Block :
            Announced(q, x, c) => Announced(q, x, c)'
    BY <1>c, <1>f DEF Announced, Inv, TypeOK, FillingPC, EntryPC
  <2> QED  BY <1>c, <2>1, ListedStays
<1>9. SourcesHeld'
  BY <1>c DEF Inv, TypeOK, SourcesHeld, FillingPC
<1>10. SourceKept'
  BY <1>c DEF Inv, TypeOK, SourceKept
<1>11. FilledAtEnd'
  BY <1>c DEF Inv, TypeOK, FilledAtEnd
<1>12. ReadsRequestedBlock'
  BY <1>c DEF Inv, TypeOK, ReadsRequestedBlock
<1> QED
  BY <1>1, <1>2, <1>3, <1>4, <1>5, <1>6, <1>7, <1>8, <1>9, <1>10, <1>11, <1>12 DEF Inv

LEMMA LockSlotInv ==
  ASSUME Inv, NEW t \in Thread, LockSlot(t)
  PROVE  Inv'
<1> DEFINE r == HomeOf[t]
           s == slot[t]
<1>a. r \in Rank /\ s \in Slots /\ want[t] \in Block
  BY ThreadFacts DEF LockSlot
<1>b. \A u \in Thread : HomeOf[u] = r /\ slot[u] = s => pc[u] \notin FillingPC \cup {"read"}
  BY <1>a, CacheDistWinAssumption DEF LockSlot, Inv, MutexesOwned, OwnsSlot
<1>c. PICK L \in {"read", "start", "delete"} :
      /\ pc[t] = "lock"
      /\ pc' = [pc EXCEPT ![t] = L]
      /\ L = "read" => old[t] = want[t]
      /\ L = "start" => old[t] = Absent
      /\ L = "delete" => old[t] \in Block \ {want[t]}
      /\ blockMutex' = [blockMutex EXCEPT ![r][s] = t]
      /\ cacheMutex' = [cacheMutex EXCEPT ![r] = NoThread]
      /\ UNCHANGED <<stored, data, dictionary, entryMutex, mpiLock, want, slot, old, source>>
  BY DEF LockSlot, Goto, global, locals
<1>d. \A u \in Thread : u # t /\ HomeOf[u] = r => pc[u] # "lock"
  BY <1>c, OneWaiter DEF Inv
<1>e. \A q \in Rank, x \in Slots :
          /\ Condemned(q, x) <=> IF q = r THEN x = s /\ old[t] # want[t] ELSE Condemned(q, x)'
          /\ ~Condemned(r, x)'
  BY <1>c, <1>d DEF Condemned, Inv, TypeOK
<1>f. \A q \in Rank, x \in Slots :
          BeingFilled(q, x)' <=> BeingFilled(q, x) \/ (q = r /\ x = s /\ L # "read")
  BY <1>c DEF BeingFilled, Inv, TypeOK, FillingPC
<1>g. ~BeingFilled(r, s)
  BY <1>b DEF BeingFilled
<1>h. /\ old[t] # want[t] => data[r][s] = old[t]
      /\ old[t] = want[t] => data[r][s] = want[t]
  <2>1. old[t] # want[t] => data[r][s] = old[t]
    BY <1>c, <1>g DEF Inv, OldKnown
  <2>2. old[t] = want[t] => data[r][s] = stored[r][s]
    BY <1>a, <1>e, <1>g DEF Inv, RestingTruthful
  <2>3. stored[r][s] = want[t]
    BY <1>c DEF Inv, WaitersEntered
  <2> QED  BY <2>1, <2>2, <2>3
<1>i. \A u \in Thread : u # t => pc'[u] = pc[u]
  BY <1>c DEF Inv, TypeOK
<1>j. pc'[t] = L
  BY <1>c DEF Inv, TypeOK
<1> HIDE DEF r, s
<1>1. TypeOK'
  BY <1>a, <1>c DEF Inv, TypeOK, PC
<1>2. MutexesOwned'
  <2> USE <1>a, <1>c, <1>i, <1>j DEF Inv, TypeOK, MutexesOwned
  <2>1. \A u \in Thread : \A q \in Rank : cacheMutex'[q] = u <=> pc'[u] = "lock" /\ HomeOf[u] = q
    BY <1>d, CacheDistWinAssumption DEF r
  <2>2. ASSUME NEW u \in Thread, NEW q \in Rank, NEW x \in Slots
        PROVE  blockMutex'[q][x] = u <=> OwnsSlot(u, q, x)'
    <3>1. blockMutex'[q][x] = IF q = r /\ x = s THEN t ELSE blockMutex[q][x]
      OBVIOUS
    <3>2. OwnsSlot(u, q, x)' <=> IF u = t THEN q = r /\ x = s ELSE OwnsSlot(u, q, x)
      BY DEF OwnsSlot, FillingPC, r, s
    <3>3. ~OwnsSlot(t, q, x)
      BY DEF OwnsSlot, FillingPC
    <3>4. q = r /\ x = s => ~OwnsSlot(u, q, x)
      BY <1>b DEF OwnsSlot
    <3> QED  BY <3>1, <3>2, <3>3, <3>4
  <2>3. \A u \in Thread : \A b \in Block :
           entryMutex'[b] = u <=> pc'[u] \in EntryPC /\ want'[u] = b
    BY DEF EntryPC
  <2> QED  BY <2>1, <2>2, <2>3
<1>3. CallsWant'
  BY <1>c, <1>i DEF Inv, TypeOK, CallsWant
<1>4. WaitersEntered'
  BY <1>c, <1>i, <1>j DEF Inv, WaitersEntered
<1>5. FillersEntered'
  <2> SUFFICES ASSUME NEW u \in Thread, pc'[u] \in FillingPC, ~Condemned(HomeOf[u], slot[u])'
               PROVE  stored[HomeOf[u]][slot[u]] = want[u]
    BY <1>c DEF FillersEntered
  <2>1. CASE u = t
    BY <1>c, <2>1 DEF Inv, WaitersEntered
  <2>2. CASE u # t
    <3>1. pc[u] \in FillingPC /\ HomeOf[u] \in Rank /\ slot[u] \in Slots
      BY <1>i, <2>2, ThreadFacts
    <3>2. ~(HomeOf[u] = r /\ slot[u] = s)
      BY <1>b, <3>1
    <3>3. ~Condemned(HomeOf[u], slot[u])
      BY <1>c, <1>e, <3>1, <3>2 DEF Condemned
    <3> QED  BY <3>1, <3>3 DEF Inv, FillersEntered
  <2> QED  BY <2>1, <2>2
<1>6. RestingTruthful'
  <2> SUFFICES ASSUME NEW q \in Rank, NEW x \in Slots,
                      ~BeingFilled(q, x)', ~Condemned(q, x)'
               PROVE  data[q][x] = stored[q][x]
    BY <1>c DEF RestingTruthful
  <2>1. CASE q = r /\ x = s
    BY <1>a, <1>c, <1>e, <1>f, <1>g, <2>1 DEF Inv, RestingTruthful
  <2>2. CASE ~(q = r /\ x = s)
    BY <1>e, <1>f, <2>2 DEF Inv, RestingTruthful
  <2> QED  BY <2>1, <2>2
<1>7. OldKnown'
  <2>1. ASSUME NEW u \in Thread, pc'[u] = "lock", old[u] # want[u]
        PROVE  /\ ~BeingFilled(HomeOf[u], slot[u])' => data[HomeOf[u]][slot[u]] = old[u]
               /\ \A v \in Thread :
                     pc'[v] \in FillingPC /\ HomeOf[v] = HomeOf[u] /\ slot[v] = slot[u]
                         => want[v] = old[u]
    <3>1. u # t /\ pc[u] = "lock" /\ HomeOf[u] # r
      BY <1>d, <1>i, <1>j, <2>1
    <3>2. BeingFilled(HomeOf[u], slot[u])' <=> BeingFilled(HomeOf[u], slot[u])
      BY <1>c, <1>i, <3>1 DEF BeingFilled, r
    <3>3. \A v \in Thread : HomeOf[v] = HomeOf[u] => pc'[v] = pc[v]
      BY <1>i, <3>1 DEF r
    <3> QED  BY <2>1, <3>1, <3>2, <3>3 DEF Inv, OldKnown
  <2>2. \A u \in Thread : pc'[u] \in {"delete", "deleting"} =>
              old[u] \in Block /\ data[HomeOf[u]][slot[u]] = old[u]
    BY <1>c, <1>h, <1>i, <1>j DEF Inv, OldKnown, r, s
  <2> QED  BY <1>c, <2>1, <2>2 DEF OldKnown
<1>8. ListedAnnounced' /\ EntriesLists'
  <2>1. ASSUME NEW q \in Rank, NEW x \in Slots, NEW b \in Block, Announced(q, x, b)
        PROVE  Announced(q, x, b)'
    <3>1. CASE q = r /\ x = s
      <4>1. data[r][s] = b
        BY <1>g, <2>1, <3>1 DEF Announced
      <4>2. L # "start" /\ (L = "delete" => old[t] = b)
        BY <1>a, <1>c, <1>h, <4>1, CacheDistWinAssumption
      <4>3. \A u \in Thread : pc'[u] \in FillingPC /\ HomeOf[u] = r /\ slot[u] = s => u = t
        BY <1>b, <1>i
      <4> QED  BY <1>c, <1>j, <3>1, <4>1, <4>2, <4>3 DEF Announced, FillingPC
    <3>2. CASE ~(q = r /\ x = s)
      <4>1. BeingFilled(q, x)' <=> BeingFilled(q, x)
        BY <1>f, <3>2
      <4>2. \A u \in Thread : HomeOf[u] = q /\ slot[u] = x => pc'[u] = pc[u]
        BY <1>i, <3>2 DEF r, s
      <4> QED  BY <1>c, <2>1, <4>1, <4>2 DEF Announced
    <3> QED  BY <3>1, <3>2
  <2> QED  BY <1>c, <2>1, ListedStays
<1>9. SourcesHeld'
  <2> SUFFICES ASSUME NEW u \in Thread, pc'[u] = "copy"
               PROVE  /\ source[u] \in Places
                      /\ \A v \in Thread :
                            pc'[v] \in FillingPC /\ HomeOf[v] = RankOf(source[u])
                               /\ slot[v] = SlotOf(source[u])
                               => pc'[v] \in {"delete", "deleting"} /\ old[v] = want[u]
    BY <1>c DEF SourcesHeld
  <2>1. u # t /\ pc[u] = "copy"
    BY <1>i, <1>j
  <2>2. data[RankOf(source[u])][SlotOf(source[u])] = want[u] /\ want[u] \in Block
    BY <2>1 DEF Inv, SourceKept, CallsWant
  <2>3. L # "read" /\ r = RankOf(source[u]) /\ s = SlotOf(source[u])
           => L = "delete" /\ old[t] = want[u]
    BY <1>a, <1>c, <1>h, <2>2, CacheDistWinAssumption
  <2> QED  BY <1>c, <1>i, <1>j, <2>1, <2>3 DEF Inv, SourcesHeld, r, s, FillingPC
<1>10. SourceKept'
  BY <1>c, <1>i, <1>j DEF Inv, SourceKept
<1>11. FilledAtEnd'
  BY <1>c, <1>i, <1>j DEF Inv, FilledAtEnd
<1>12. ReadsRequestedBlock'
  BY <1>c, <1>h, <1>i, <1>j DEF Inv, ReadsRequestedBlock, r, s
<1> QED
  BY <1>1, <1>2, <1>3, <1>4, <1>5, <1>6, <1>7, <1>8, <1>9, <1>10, <1>11, <1>12 DEF Inv

LEMMA EnterInv ==
  ASSUME Inv, NEW t \in Thread, NEW L \in {"delete", "start"}, NEW M \in {"deleting", "starting"},
         pc[t] = L, L = "delete" <=> M = "deleting",
         pc' = [pc EXCEPT ![t] = M],
         TakeLibrary(t),
         UNCHANGED <<manager, data, global, locals, source>>
  PROVE  Inv'
<1>c. UNCHANGED <<stored, cacheMutex, blockMutex, data, dictionary, entryMutex,
                  want, slot, old, source>>
  BY DEF manager, global, locals
<1>d. /\ \A u \in Thread : u # t => pc'[u] = pc[u]
      /\ pc'[t] = M
  BY DEF Inv, TypeOK
<1>e. \A q \in Rank, x \in Slots : Condemned(q, x)' <=> Condemned(q, x)
  BY <1>c, <1>d DEF Condemned
<1>f. \A q \in Rank, x \in Slots : BeingFilled(q, x)' <=> BeingFilled(q, x)
  BY <1>c, <1>d DEF BeingFilled, FillingPC
<1>1. TypeOK'
  <2>1. mpiLock' \in [Rank -> Thread \cup {NoThread}]
    <3>1. HomeOf[t] \in Rank /\ mpiLock \in [Rank -> Thread \cup {NoThread}]
      BY ThreadFacts DEF Inv, TypeOK
    <3>2. CASE ThreadsafeMPI
      BY <3>1, <3>2 DEF TakeLibrary
    <3>3. CASE ~ThreadsafeMPI
      BY <3>1, <3>3 DEF TakeLibrary
    <3> QED  BY <3>2, <3>3
  <2> QED  BY <1>c, <2>1 DEF Inv, TypeOK, PC
<1>2. MutexesOwned'
  <2>1. \A u \in Thread : /\ pc'[u] = "lock" <=> pc[u] = "lock"
                          /\ pc'[u] \in EntryPC <=> pc[u] \in EntryPC
                          /\ \A q \in Rank, x \in Slots :
                                OwnsSlot(u, q, x)' <=> OwnsSlot(u, q, x)
    BY <1>c, <1>d DEF EntryPC, OwnsSlot, FillingPC
  <2> QED  BY <1>c, <2>1 DEF Inv, MutexesOwned
<1>3. CallsWant'
  BY <1>c, <1>d DEF Inv, CallsWant
<1>4. WaitersEntered'
  BY <1>c, <1>d DEF Inv, WaitersEntered
<1>5. FillersEntered'
  BY <1>c, <1>d, <1>e, ThreadFacts DEF Inv, FillersEntered, FillingPC
<1>6. RestingTruthful'
  BY <1>c, <1>e, <1>f DEF Inv, RestingTruthful
<1>7. OldKnown'
  <2>1. \A u \in Thread : BeingFilled(HomeOf[u], slot[u])' <=> BeingFilled(HomeOf[u], slot[u])
    BY <1>f, <1>c, ThreadFacts DEF BeingFilled
  <2>2. \A u \in Thread : /\ pc'[u] = "lock" <=> pc[u] = "lock"
                          /\ pc'[u] \in FillingPC <=> pc[u] \in FillingPC
                          /\ pc'[u] \in {"delete", "deleting"} <=> pc[u] \in {"delete", "deleting"}
    BY <1>d DEF FillingPC
  <2> QED  BY <1>c, <2>1, <2>2 DEF Inv, OldKnown
<1>8. ListedAnnounced' /\ EntriesLists'
  <2>1. \A q \in Rank, x \in Slots : \A b \in Block :
            Announced(q, x, b) => Announced(q, x, b)'
    BY <1>c, <1>d, <1>f DEF Announced, FillingPC, EntryPC
  <2> QED  BY <1>c, <2>1, ListedStays
<1>9. SourcesHeld'
  BY <1>c, <1>d DEF Inv, SourcesHeld, FillingPC
<1>10. SourceKept'
  BY <1>c, <1>d DEF Inv, SourceKept
<1>11. FilledAtEnd'
  BY <1>c, <1>d DEF Inv, FilledAtEnd
<1>12. ReadsRequestedBlock'
  BY <1>c, <1>d DEF Inv, ReadsRequestedBlock
<1> QED
  BY <1>1, <1>2, <1>3, <1>4, <1>5, <1>6, <1>7, <1>8, <1>9, <1>10, <1>11, <1>12 DEF Inv

LEMMA DeleteBlockInv ==
  ASSUME Inv, NEW t \in Thread, DeleteBlock(t)
  PROVE  Inv'
<1> DEFINE r == HomeOf[t]
           s == slot[t]
           b == old[t]
           p == OwnPlace(t)
<1>a. r \in Rank /\ s \in Slots /\ b \in Block /\ p \in Places /\ p = PlaceOf(r, s)
  BY ThreadFacts DEF DeleteBlock, Inv, OldKnown, OwnPlace
<1>b. /\ pc[t] = "deleting"
      /\ entryMutex[b] = NoThread
      /\ pc' = [pc EXCEPT ![t] = "start"]
      /\ dictionary' = [dictionary EXCEPT ![b] = Deleted(dictionary[b], p)]
      /\ GiveLibrary(t)
      /\ UNCHANGED <<stored, cacheMutex, blockMutex, data, entryMutex, want, slot, old, source>>
  BY DEF DeleteBlock, Goto, manager, locals
<1>c. UNCHANGED <<stored, cacheMutex, blockMutex, data, entryMutex, want, slot, old, source>>
  BY <1>b
<1>d. /\ \A u \in Thread : u # t => pc'[u] = pc[u]
      /\ pc'[t] = "start"
  BY <1>b DEF Inv, TypeOK
<1>e. \A q \in Rank, x \in Slots : Condemned(q, x)' <=> Condemned(q, x)
  BY <1>b, <1>c, <1>d DEF Condemned
<1>f. \A q \in Rank, x \in Slots : BeingFilled(q, x)' <=> BeingFilled(q, x)
  BY <1>b, <1>c, <1>d DEF BeingFilled, FillingPC
<1>g. /\ Deleted(dictionary[b], p) \in DictEntry
      /\ IsList(Deleted(dictionary[b], p))
      /\ \A i \in Index : Deleted(dictionary[b], p)[i] # p
      /\ \A i \in Index : Deleted(dictionary[b], p)[i] # Unused =>
             \E j \in Index : Deleted(dictionary[b], p)[i] = dictionary[b][j]
  BY <1>a, DeletedFacts DEF Inv, TypeOK, EntriesLists
<1>h. \A u \in Thread : /\ pc'[u] = "lock" <=> pc[u] = "lock"
                        /\ pc'[u] \in FillingPC <=> pc[u] \in FillingPC
                        /\ pc'[u] \in EntryPC <=> pc[u] \in EntryPC
  BY <1>b, <1>d DEF FillingPC, EntryPC
<1>i. \A c \in Block :
         dictionary'[c] = IF c = b THEN Deleted(dictionary[b], p) ELSE dictionary[c]
  BY <1>a, <1>b DEF Inv, TypeOK
<1> HIDE DEF r, s, b, p
<1>1. TypeOK'
  <2>1. mpiLock' \in [Rank -> Thread \cup {NoThread}]
    BY <1>b DEF GiveLibrary, Inv, TypeOK
  <2>2. dictionary' \in [Block -> DictEntry]
    BY <1>b, <1>g DEF Inv, TypeOK
  <2>3. pc' \in [Thread -> PC]
    BY <1>b DEF Inv, TypeOK, PC
  <2> QED  BY <1>c, <2>1, <2>2, <2>3 DEF Inv, TypeOK
<1>2. MutexesOwned'
  <2>1. \A u \in Thread : \A q \in Rank, x \in Slots : OwnsSlot(u, q, x)' <=> OwnsSlot(u, q, x)
    BY <1>b, <1>c, <1>d, <1>h DEF OwnsSlot, FillingPC
  <2> QED  BY <1>c, <1>h, <2>1 DEF Inv, MutexesOwned
<1>3. CallsWant'
  BY <1>b, <1>c, <1>d DEF Inv, CallsWant
<1>4. WaitersEntered'
  BY <1>c, <1>h DEF Inv, WaitersEntered
<1>5. FillersEntered'
  BY <1>c, <1>e, <1>h, ThreadFacts DEF Inv, FillersEntered
<1>6. RestingTruthful'
  BY <1>c, <1>e, <1>f DEF Inv, RestingTruthful
<1>7. OldKnown'
  <2>1. \A u \in Thread : BeingFilled(HomeOf[u], slot[u])' <=> BeingFilled(HomeOf[u], slot[u])
    BY <1>c, <1>h DEF BeingFilled
  <2>2. \A u \in Thread : pc'[u] \in {"delete", "deleting"} => pc[u] \in {"delete", "deleting"}
    BY <1>d
  <2> QED  BY <1>c, <1>h, <2>1, <2>2 DEF Inv, OldKnown
<1>8. ListedAnnounced'
  <2>1. ASSUME NEW c \in Block, NEW i \in Index, dictionary'[c][i] # Unused
        PROVE  \E q \in Rank, x \in Slots :
                  dictionary'[c][i] = PlaceOf(q, x) /\ Announced(q, x, c)'
    <3>1. PICK j \in Index : dictionary'[c][i] = dictionary[c][j]
      BY <1>g, <1>i, <2>1
    <3>2. dictionary'[c][i] # p
      <4>1. CASE c = b
        BY <1>g, <1>i, <4>1
      <4>2. CASE c # b
        BY <1>b, <1>i, <4>2, NotListed DEF b, p, FillingPC, EntryPC
      <4> QED  BY <4>1, <4>2
    <3>3. PICK q \in Rank, x \in Slots : dictionary[c][j] = PlaceOf(q, x) /\ Announced(q, x, c)
      BY <2>1, <3>1, ListedPlace
    <3>4. ~(q = r /\ x = s)
      BY <1>a, <3>1, <3>2, <3>3
    <3>5. \A u \in Thread : HomeOf[u] = q /\ slot[u] = x => pc'[u] = pc[u]
      BY <1>d, <3>4 DEF r, s
    <3>6. Announced(q, x, c)'
      BY <1>c, <1>f, <3>3, <3>5 DEF Announced
    <3> QED  BY <3>1, <3>3, <3>6
  <2> QED  BY <2>1, ListedStep
<1>9. EntriesLists'
  BY <1>g, <1>i DEF Inv, EntriesLists
<1>10. SourcesHeld'
  <2>1. ASSUME NEW u \in Thread, pc'[u] = "copy"
        PROVE  /\ source[u] \in Places
               /\ \A v \in Thread :
                     pc'[v] \in FillingPC /\ HomeOf[v] = RankOf(source[u])
                        /\ slot[v] = SlotOf(source[u])
                        => pc'[v] \in {"delete", "deleting"} /\ old[v] = want[u]
    <3>1. u # t /\ pc[u] = "copy"
      BY <1>d, <2>1
    <3>2. want[u] # b
      BY <1>a, <1>b, <3>1, EntryFree DEF EntryPC
    <3> QED  BY <1>d, <1>h, <3>1, <3>2 DEF Inv, SourcesHeld, b
  <2> QED  BY <1>c, <2>1 DEF SourcesHeld
<1>11. SourceKept' /\ FilledAtEnd' /\ ReadsRequestedBlock'
  BY <1>c, <1>d DEF Inv, SourceKept, FilledAtEnd, ReadsRequestedBlock
<1> QED
  BY <1>1, <1>2, <1>3, <1>4, <1>5, <1>6, <1>7, <1>8, <1>9, <1>10, <1>11 DEF Inv

LEMMA StartTransferInv ==
  ASSUME Inv, NEW t \in Thread, StartTransfer(t)
  PROVE  Inv'
<1> DEFINE r == HomeOf[t]
           s == slot[t]
           b == want[t]
           p == OwnPlace(t)
<1>a. r \in Rank /\ s \in Slots /\ b \in Block /\ p \in Places /\ p = PlaceOf(r, s)
  BY ThreadFacts DEF StartTransfer, OwnPlace
<1>b. PICK place \in Fetched(dictionary[b]), L \in {"load", "copy"} :
      /\ pc[t] = "starting"
      /\ entryMutex[b] = NoThread
      /\ L = "load" <=> place = Unused
      /\ pc' = [pc EXCEPT ![t] = L]
      /\ entryMutex' = [entryMutex EXCEPT ![b] = t]
      /\ dictionary' = [dictionary EXCEPT ![b] = Updated(dictionary[b], p)]
      /\ source' = [source EXCEPT ![t] = place]
      /\ data' = [data EXCEPT ![r][s] = Torn]
      /\ UNCHANGED <<stored, cacheMutex, blockMutex, mpiLock, want, slot, old>>
  BY DEF StartTransfer, Fill, Goto, manager, locals
<1>c. UNCHANGED <<stored, cacheMutex, blockMutex, mpiLock, want, slot, old>>
  BY <1>b
<1>d. /\ \A u \in Thread : u # t => pc'[u] = pc[u] /\ source'[u] = source[u]
      /\ pc'[t] = L /\ source'[t] = place
  BY <1>b DEF Inv, TypeOK
<1>e. \A q \in Rank, x \in Slots : Condemned(q, x)' <=> Condemned(q, x)
  BY <1>b, <1>c, <1>d DEF Condemned
<1>f. \A q \in Rank, x \in Slots : BeingFilled(q, x)' <=> BeingFilled(q, x)
  BY <1>b, <1>c, <1>d DEF BeingFilled, FillingPC
<1>g. \A u \in Thread : pc[u] \in FillingPC \cup {"read"} /\ HomeOf[u] = r /\ slot[u] = s => u = t
  BY <1>b, FillerAlone DEF FillingPC
<1>h. \A c \in Block : \A i \in Index : dictionary[c][i] # p
  BY <1>b, NotListed DEF FillingPC, EntryPC
<1>i. place = Unused \/ (place \in Places /\ \E i \in Index : dictionary[b][i] = place)
  <2>1. dictionary[b] \in DictEntry /\ IsList(dictionary[b])
    BY <1>a DEF Inv, TypeOK, EntriesLists
  <2>2. place = Unused \/ \E i \in Index : dictionary[b][i] = place
    BY <1>a, <2>1, FetchedFacts
  <2> QED  BY <2>1, <2>2 DEF DictEntry
<1>j. /\ Updated(dictionary[b], p) \in DictEntry
      /\ IsList(Updated(dictionary[b], p))
      /\ \A i \in Index : \/ Updated(dictionary[b], p)[i] = p
                          \/ \E j \in Index : Updated(dictionary[b], p)[i] = dictionary[b][j]
  <2>1. dictionary[b] \in DictEntry /\ IsList(dictionary[b])
    BY <1>a DEF Inv, TypeOK, EntriesLists
  <2>2. \A i \in Index : dictionary[b][i] # p
    BY <1>a, <1>h
  <2> HIDE DEF b, p
  <2> QED  BY <1>a, <2>1, <2>2, UpdatedFacts
<1>k. \A c \in Block :
         dictionary'[c] = IF c = b THEN Updated(dictionary[b], p) ELSE dictionary[c]
  BY <1>a, <1>b DEF Inv, TypeOK
<1>l. \A q \in Rank, x \in Slots : data'[q][x] = IF q = r /\ x = s THEN Torn ELSE data[q][x]
  BY <1>a, <1>b DEF Inv, TypeOK
<1>m. \A u \in Thread : /\ pc'[u] = "lock" <=> pc[u] = "lock"
                        /\ pc'[u] \in FillingPC <=> pc[u] \in FillingPC
                        /\ pc'[u] \in {"delete", "deleting"} <=> pc[u] \in {"delete", "deleting"}
                        /\ HomeOf[u] \in Rank /\ slot[u] \in Slots
  BY <1>b, <1>d, ThreadFacts DEF FillingPC
<1>n. \A u \in Thread : u # t => (pc'[u] \in EntryPC => want[u] # b)
  BY <1>a, <1>b, <1>d, EntryFree
<1>o. \A u \in Thread : BeingFilled(HomeOf[u], slot[u])' <=> BeingFilled(HomeOf[u], slot[u])
  BY <1>c, <1>m DEF BeingFilled
<1> HIDE DEF r, s, b, p
<1>1. TypeOK'
  <2>1. data' \in [Rank -> [Slots -> Block \cup {Absent, Torn}]]
    BY <1>a, <1>b DEF Inv, TypeOK
  <2>2. dictionary' \in [Block -> DictEntry]
    BY <1>b, <1>j DEF Inv, TypeOK
  <2>3. pc' \in [Thread -> PC] /\ source' \in [Thread -> Places \cup {Unused}]
    BY <1>b, <1>i DEF Inv, TypeOK, PC
  <2>4. entryMutex' \in [Block -> Thread \cup {NoThread}]
    BY <1>b DEF Inv, TypeOK
  <2> QED  BY <1>c, <2>1, <2>2, <2>3, <2>4 DEF Inv, TypeOK
<1>2. MutexesOwned'
  <2>1. \A u \in Thread : \A q \in Rank, x \in Slots : OwnsSlot(u, q, x)' <=> OwnsSlot(u, q, x)
    BY <1>b, <1>c, <1>d, <1>m DEF OwnsSlot, FillingPC
  <2>2. \A u \in Thread : \A c \in Block :
           entryMutex'[c] = u <=> pc'[u] \in EntryPC /\ want[u] = c
    <3> TAKE u \in Thread
    <3> TAKE c \in Block
    <3>1. entryMutex'[c] = IF c = b THEN t ELSE entryMutex[c]
      BY <1>b DEF Inv, TypeOK
    <3>2. entryMutex[c] = u <=> pc[u] \in EntryPC /\ want[u] = c
      BY DEF Inv, MutexesOwned
    <3>3. CASE u = t
      BY <1>b, <1>d, <3>1, <3>2, <3>3 DEF EntryPC, b
    <3>4. CASE u # t
      BY <1>d, <1>n, <3>1, <3>2, <3>4
    <3> QED  BY <3>3, <3>4
  <2> QED  BY <1>c, <1>m, <2>1, <2>2 DEF Inv, MutexesOwned
<1>3. CallsWant'
  BY <1>b, <1>c, <1>d DEF Inv, CallsWant
<1>4. WaitersEntered'
  BY <1>c, <1>m DEF Inv, WaitersEntered
<1>5. FillersEntered'
  BY <1>c, <1>e, <1>m DEF Inv, FillersEntered
<1>6. RestingTruthful'
  <2>1. BeingFilled(r, s)
    BY <1>b DEF BeingFilled, FillingPC, r, s
  <2> QED  BY <1>c, <1>e, <1>f, <1>l, <2>1 DEF Inv, RestingTruthful
<1>7. OldKnown'
  <2>1. ASSUME NEW u \in Thread, pc[u] = "lock", old[u] # want[u]
        PROVE  ~BeingFilled(HomeOf[u], slot[u])' => data'[HomeOf[u]][slot[u]] = old[u]
    <3>1. BeingFilled(r, s)
      BY <1>b DEF BeingFilled, FillingPC, r, s
    <3> QED  BY <1>l, <1>m, <1>o, <2>1, <3>1 DEF Inv, OldKnown
  <2>2. ASSUME NEW u \in Thread, pc[u] \in {"delete", "deleting"}
        PROVE  old[u] \in Block /\ data'[HomeOf[u]][slot[u]] = old[u]
    <3>1. ~(HomeOf[u] = r /\ slot[u] = s)
      BY <1>b, <1>g, <2>2 DEF FillingPC
    <3> QED  BY <1>l, <1>m, <2>2, <3>1 DEF Inv, OldKnown
  <2> QED  BY <1>c, <1>m, <2>1, <2>2 DEF Inv, OldKnown
<1>8. ListedAnnounced'
  <2>1. ASSUME NEW c \in Block, NEW i \in Index, dictionary'[c][i] # Unused
        PROVE  \E q \in Rank, x \in Slots :
                  dictionary'[c][i] = PlaceOf(q, x) /\ Announced(q, x, c)'
    <3>1. CASE c = b /\ dictionary'[c][i] = p
      <4> PICK q \in Rank, x \in Slots : q = r /\ x = s
        BY <1>a
      <4>1. BeingFilled(q, x)'
        BY <1>b, <1>f DEF BeingFilled, FillingPC, r, s
      <4>2. \A u \in Thread : pc'[u] \in FillingPC /\ HomeOf[u] = q /\ slot[u] = x => u = t
        BY <1>g, <1>m
      <4>3. Announced(q, x, c)'
        BY <1>c, <1>d, <3>1, <4>1, <4>2 DEF Announced, EntryPC, b
      <4> QED  BY <1>a, <3>1, <4>3
    <3>2. CASE \E j \in Index : dictionary'[c][i] = dictionary[c][j]
      <4>1. PICK j \in Index : dictionary'[c][i] = dictionary[c][j]
        BY <3>2
      <4>2. PICK q \in Rank, x \in Slots : dictionary[c][j] = PlaceOf(q, x) /\ Announced(q, x, c)
        BY <2>1, <4>1, ListedPlace
      <4>3. ~(q = r /\ x = s)
        BY <1>a, <1>h, <4>2
      <4>4. \A u \in Thread : HomeOf[u] = q /\ slot[u] = x => pc'[u] = pc[u]
        BY <1>d, <4>3 DEF r, s
      <4>5. Announced(q, x, c)'
        BY <1>c, <1>f, <1>l, <4>2, <4>3, <4>4 DEF Announced
      <4> QED  BY <4>1, <4>2, <4>5
    <3> QED  BY <1>j, <1>k, <3>1, <3>2
  <2> QED  BY <2>1, ListedStep
<1>9. EntriesLists'
  BY <1>j, <1>k DEF Inv, EntriesLists
<1>10. ASSUME L = "copy"
       PROVE  /\ place \in Places
              /\ \A v \in Thread :
                    pc'[v] \in FillingPC /\ HomeOf[v] = RankOf(place) /\ slot[v] = SlotOf(place)
                       => pc'[v] \in {"delete", "deleting"} /\ old[v] = b
              /\ data'[RankOf(place)][SlotOf(place)] = b
  <2> DEFINE q == RankOf(place)
             x == SlotOf(place)
  <2>1. PICK i \in Index : dictionary[b][i] = place /\ place # Unused /\ place \in Places
    BY <1>b, <1>i, <1>10
  <2>2. q \in Rank /\ x \in Slots /\ place = PlaceOf(q, x)
    BY <2>1, PlacesFacts
  <2>3. Announced(q, x, b)
    BY <1>a, <2>1 DEF Inv, ListedAnnounced
  <2>4. ~(q = r /\ x = s)
    BY <1>a, <1>h, <2>1, <2>2
  <2> HIDE DEF q, x
  <2>5. \A v \in Thread : pc[v] \in FillingPC /\ HomeOf[v] = q /\ slot[v] = x
                             => pc[v] \in {"delete", "deleting"} /\ old[v] = b
    BY <1>a, <1>b, <2>3, EntryFree DEF Announced
  <2>6. data[q][x] = b
    <3>1. CASE ~BeingFilled(q, x)
      BY <2>3, <3>1 DEF Announced
    <3>2. CASE BeingFilled(q, x)
      BY <2>5, <3>2 DEF BeingFilled, Inv, OldKnown
    <3> QED  BY <3>1, <3>2
  <2>7. data'[q][x] = b
    BY <1>l, <2>2, <2>4, <2>6
  <2> QED  BY <1>m, <2>1, <2>5, <2>7 DEF q, x
<1>11. ASSUME NEW u \in Thread, u # t, pc[u] = "copy"
       PROVE  ~(RankOf(source[u]) = r /\ SlotOf(source[u]) = s)
  BY <1>b, <1>11 DEF Inv, SourcesHeld, FillingPC, r, s
<1>12. SourcesHeld'
  BY <1>c, <1>d, <1>m, <1>10 DEF Inv, SourcesHeld, b
<1>13. SourceKept'
  <2>1. ASSUME NEW u \in Thread, u # t, pc[u] = "copy"
        PROVE  data'[RankOf(source[u])][SlotOf(source[u])] = want[u]
    <3>1. RankOf(source[u]) \in Rank /\ SlotOf(source[u]) \in Slots
      BY <2>1, PlacesFacts DEF Inv, SourcesHeld
    <3> QED  BY <1>l, <1>11, <2>1, <3>1 DEF Inv, SourceKept
  <2> QED  BY <1>c, <1>d, <1>10, <2>1 DEF SourceKept, b
<1>14. FilledAtEnd' /\ ReadsRequestedBlock'
  <2>1. ASSUME NEW u \in Thread, pc'[u] \in {"end", "read"}
        PROVE  data'[HomeOf[u]][slot[u]] = want[u]
    <3>1. u # t /\ pc[u] \in {"end", "read"} /\ pc[u] = pc'[u]
      BY <1>d, <2>1
    <3>2. ~(HomeOf[u] = r /\ slot[u] = s)
      BY <1>g, <3>1 DEF FillingPC
    <3>3. data[HomeOf[u]][slot[u]] = want[u]
      BY <3>1 DEF Inv, FilledAtEnd, ReadsRequestedBlock
    <3> QED  BY <1>l, <1>m, <3>2, <3>3
  <2> QED  BY <1>c, <2>1 DEF FilledAtEnd, ReadsRequestedBlock
<1> QED
  BY <1>1, <1>2, <1>3, <1>4, <1>5, <1>6, <1>7, <1>8, <1>9, <1>12, <1>13, <1>14 DEF Inv

(* The end of the copy, and of the read from the file.                     *)
LEMMA FillInv ==
  ASSUME Inv, NEW t \in Thread, pc[t] \in {"copy", "load"},
         Fill(t, want[t]), Goto(t, "end"),
         UNCHANGED <<manager, global, mpiLock, locals, source>>
  PROVE  Inv'
<1> DEFINE r == HomeOf[t]
           s == slot[t]
<1>a. r \in Rank /\ s \in Slots /\ want[t] \in Block
  BY ThreadFacts
<1>c. UNCHANGED <<stored, cacheMutex, blockMutex, dictionary, entryMutex, mpiLock,
                  want, slot, old, source>>
  BY DEF manager, global, locals
<1>d. /\ \A u \in Thread : u # t => pc'[u] = pc[u]
      /\ pc'[t] = "end"
  BY DEF Inv, TypeOK, Goto
<1>e. \A q \in Rank, x \in Slots : Condemned(q, x)' <=> Condemned(q, x)
  BY <1>c, <1>d DEF Condemned
<1>f. \A q \in Rank, x \in Slots : BeingFilled(q, x)' <=> BeingFilled(q, x)
  BY <1>c, <1>d DEF BeingFilled, FillingPC
<1>g. \A u \in Thread : pc[u] \in FillingPC \cup {"read"} /\ HomeOf[u] = r /\ slot[u] = s => u = t
  BY FillerAlone DEF FillingPC
<1>h. BeingFilled(r, s)
  BY DEF BeingFilled, FillingPC
<1>l. \A q \in Rank, x \in Slots : data'[q][x] = IF q = r /\ x = s THEN want[t] ELSE data[q][x]
  BY <1>a DEF Inv, TypeOK, Fill
<1>m. \A u \in Thread : /\ pc'[u] = "lock" <=> pc[u] = "lock"
                        /\ pc'[u] \in FillingPC <=> pc[u] \in FillingPC
                        /\ pc'[u] \in EntryPC <=> pc[u] \in EntryPC
                        /\ pc'[u] \in {"delete", "deleting"} <=> pc[u] \in {"delete", "deleting"}
                        /\ HomeOf[u] \in Rank /\ slot[u] \in Slots
  BY <1>d, ThreadFacts DEF FillingPC, EntryPC
<1>o. \A u \in Thread : BeingFilled(HomeOf[u], slot[u])' <=> BeingFilled(HomeOf[u], slot[u])
  BY <1>c, <1>m DEF BeingFilled
<1> HIDE DEF r, s
<1>1. TypeOK'
  <2>1. data' \in [Rank -> [Slots -> Block \cup {Absent, Torn}]]
    BY <1>a DEF Inv, TypeOK, Fill
  <2>2. pc' \in [Thread -> PC]
    BY DEF Inv, TypeOK, PC, Goto
  <2> QED  BY <1>c, <2>1, <2>2 DEF Inv, TypeOK
<1>2. MutexesOwned'
  <2>1. \A u \in Thread : \A q \in Rank, x \in Slots : OwnsSlot(u, q, x)' <=> OwnsSlot(u, q, x)
    BY <1>c, <1>d DEF OwnsSlot, FillingPC
  <2> QED  BY <1>c, <1>m, <2>1 DEF Inv, MutexesOwned
<1>3. CallsWant'
  BY <1>a, <1>c, <1>d DEF Inv, CallsWant
<1>4. WaitersEntered'
  BY <1>c, <1>m DEF Inv, WaitersEntered
<1>5. FillersEntered'
  BY <1>c, <1>e, <1>m DEF Inv, FillersEntered
<1>6. RestingTruthful'
  BY <1>c, <1>e, <1>f, <1>h, <1>l DEF Inv, RestingTruthful
<1>7. OldKnown'
  <2>1. ASSUME NEW u \in Thread, pc[u] = "lock", old[u] # want[u]
        PROVE  ~BeingFilled(HomeOf[u], slot[u])' => data'[HomeOf[u]][slot[u]] = old[u]
    BY <1>h, <1>l, <1>m, <1>o, <2>1 DEF Inv, OldKnown
  <2>2. ASSUME NEW u \in Thread, pc[u] \in {"delete", "deleting"}
        PROVE  old[u] \in Block /\ data'[HomeOf[u]][slot[u]] = old[u]
    <3>1. ~(HomeOf[u] = r /\ slot[u] = s)
      BY <1>g, <2>2 DEF FillingPC
    <3> QED  BY <1>l, <1>m, <2>2, <3>1 DEF Inv, OldKnown
  <2> QED  BY <1>c, <1>m, <2>1, <2>2 DEF Inv, OldKnown
<1>8. ListedAnnounced' /\ EntriesLists'
  <2>1. \A q \in Rank, x \in Slots : \A b \in Block :
            Announced(q, x, b) => Announced(q, x, b)'
    BY <1>c, <1>f, <1>h, <1>l, <1>m DEF Announced
  <2> QED  BY <1>c, <2>1, ListedStays
<1>9. SourcesHeld'
  BY <1>c, <1>d, <1>m DEF Inv, SourcesHeld
<1>10. SourceKept'
  <2>1. ASSUME NEW u \in Thread, u # t, pc[u] = "copy"
        PROVE  data'[RankOf(source[u])][SlotOf(source[u])] = want[u]
    <3>1. RankOf(source[u]) \in Rank /\ SlotOf(source[u]) \in Slots
      BY <2>1, PlacesFacts DEF Inv, SourcesHeld
    <3>2. ~(RankOf(source[u]) = r /\ SlotOf(source[u]) = s)
      BY <2>1 DEF Inv, SourcesHeld, FillingPC, r, s
    <3> QED  BY <1>l, <2>1, <3>1, <3>2 DEF Inv, SourceKept
  <2> QED  BY <1>c, <1>d, <2>1 DEF SourceKept
<1>11. FilledAtEnd' /\ ReadsRequestedBlock'
  <2>1. data'[HomeOf[t]][slot[t]] = want[t]
    BY <1>a, <1>l DEF r, s
  <2>2. ASSUME NEW u \in Thread, u # t, pc'[u] \in {"end", "read"}
        PROVE  data'[HomeOf[u]][slot[u]] = want[u]
    <3>1. pc[u] \in {"end", "read"} /\ pc[u] = pc'[u]
      BY <1>d, <2>2
    <3>2. ~(HomeOf[u] = r /\ slot[u] = s)
      BY <1>g, <2>2, <3>1 DEF FillingPC
    <3>3. data[HomeOf[u]][slot[u]] = want[u]
      BY <3>1 DEF Inv, FilledAtEnd, ReadsRequestedBlock
    <3> QED  BY <1>l, <1>m, <3>2, <3>3
  <2> QED  BY <1>c, <2>1, <2>2 DEF FilledAtEnd, ReadsRequestedBlock
<1> QED
  BY <1>1, <1>2, <1>3, <1>4, <1>5, <1>6, <1>7, <1>8, <1>9, <1>10, <1>11 DEF Inv

LEMMA EndTransferInv ==
  ASSUME Inv, NEW t \in Thread, EndTransfer(t)
  PROVE  Inv'
<1> DEFINE r == HomeOf[t]
           s == slot[t]
           b == want[t]
<1>a. r \in Rank /\ s \in Slots /\ b \in Block
  BY ThreadFacts DEF EndTransfer
<1>b. /\ pc[t] = "end"
      /\ pc' = [pc EXCEPT ![t] = "read"]
      /\ entryMutex' = [entryMutex EXCEPT ![b] = NoThread]
      /\ GiveLibrary(t)
  BY DEF EndTransfer, Goto
<1>c. UNCHANGED <<stored, cacheMutex, blockMutex, data, dictionary, want, slot, old, source>>
  BY DEF EndTransfer, manager, locals
<1>d. /\ \A u \in Thread : u # t => pc'[u] = pc[u]
      /\ pc'[t] = "read"
  BY <1>b DEF Inv, TypeOK
<1>e. \A q \in Rank, x \in Slots : Condemned(q, x)' <=> Condemned(q, x)
  BY <1>b, <1>c, <1>d DEF Condemned
<1>g. \A u \in Thread : pc[u] \in FillingPC /\ HomeOf[u] = r /\ slot[u] = s => u = t
  BY <1>b, FillerAlone DEF FillingPC
<1>f. \A q \in Rank, x \in Slots :
          BeingFilled(q, x)' <=> BeingFilled(q, x) /\ ~(q = r /\ x = s)
  BY <1>b, <1>c, <1>d, <1>g DEF BeingFilled, FillingPC
<1>h. data[r][s] = b
  BY <1>b DEF Inv, FilledAtEnd
<1>m. \A u \in Thread : /\ pc'[u] = "lock" <=> pc[u] = "lock"
                        /\ pc'[u] \in FillingPC => pc[u] \in FillingPC
                        /\ pc'[u] \in {"delete", "deleting"} <=> pc[u] \in {"delete", "deleting"}
                        /\ HomeOf[u] \in Rank /\ slot[u] \in Slots
  BY <1>b, <1>d, ThreadFacts DEF FillingPC
<1> HIDE DEF r, s, b
<1>1. TypeOK'
  <2>1. mpiLock' \in [Rank -> Thread \cup {NoThread}]
    BY <1>b DEF GiveLibrary, Inv, TypeOK
  <2>2. pc' \in [Thread -> PC] /\ entryMutex' \in [Block -> Thread \cup {NoThread}]
    BY <1>b DEF Inv, TypeOK, PC
  <2> QED  BY <1>c, <2>1, <2>2 DEF Inv, TypeOK
<1>2. MutexesOwned'
  <2>1. \A u \in Thread : \A q \in Rank, x \in Slots : OwnsSlot(u, q, x)' <=> OwnsSlot(u, q, x)
    BY <1>b, <1>c, <1>d DEF OwnsSlot, FillingPC
  <2>2. \A u \in Thread : \A c \in Block :
           entryMutex'[c] = u <=> pc'[u] \in EntryPC /\ want[u] = c
    <3> TAKE u \in Thread
    <3> TAKE c \in Block
    <3>1. entryMutex'[c] = IF c = b THEN NoThread ELSE entryMutex[c]
      BY <1>b DEF Inv, TypeOK
    <3>2. entryMutex[c] = u <=> pc[u] \in EntryPC /\ want[u] = c
      BY DEF Inv, MutexesOwned
    <3>3. CASE u = t
      BY <1>b, <1>d, <3>1, <3>2, <3>3, CacheDistWinAssumption DEF EntryPC, b
    <3>4. CASE u # t
      <4>1. pc[u] \in EntryPC => want[u] # b
        BY <1>b, <3>4, EntryAlone DEF EntryPC, b
      <4> QED  BY <1>d, <3>1, <3>2, <3>4, <4>1, CacheDistWinAssumption
    <3> QED  BY <3>3, <3>4
  <2> QED  BY <1>c, <1>m, <2>1, <2>2 DEF Inv, MutexesOwned
<1>3. CallsWant'
  BY <1>b, <1>c, <1>d DEF Inv, CallsWant
<1>4. WaitersEntered'
  BY <1>c, <1>m DEF Inv, WaitersEntered
<1>5. FillersEntered'
  BY <1>c, <1>e, <1>m DEF Inv, FillersEntered
<1>6. RestingTruthful'
  <2>1. ~Condemned(r, s) => data[r][s] = stored[r][s]
    BY <1>b, <1>h DEF Inv, FillersEntered, FillingPC, r, s, b
  <2> QED  BY <1>c, <1>e, <1>f, <2>1 DEF Inv, RestingTruthful
<1>7. OldKnown'
  <2>1. ASSUME NEW u \in Thread, pc[u] = "lock", old[u] # want[u]
        PROVE  ~BeingFilled(HomeOf[u], slot[u])' => data[HomeOf[u]][slot[u]] = old[u]
    <3>1. CASE HomeOf[u] = r /\ slot[u] = s
      <4>1. b = old[u]
        BY <1>b, <2>1, <3>1 DEF Inv, OldKnown, FillingPC, r, s, b
      <4> QED  BY <1>h, <3>1, <4>1
    <3>2. CASE ~(HomeOf[u] = r /\ slot[u] = s)
      <4>1. BeingFilled(HomeOf[u], slot[u])' <=> BeingFilled(HomeOf[u], slot[u])
        BY <1>c, <1>d, <3>2 DEF BeingFilled, r, s
      <4> QED  BY <2>1, <4>1 DEF Inv, OldKnown
    <3> QED  BY <3>1, <3>2
  <2> QED  BY <1>c, <1>m, <2>1 DEF Inv, OldKnown
<1>8. ListedAnnounced' /\ EntriesLists'
  <2>1. ASSUME NEW q \in Rank, NEW x \in Slots, NEW c \in Block, Announced(q, x, c)
        PROVE  Announced(q, x, c)'
    <3>1. CASE q = r /\ x = s
      <4>1. b = c
        BY <1>b, <2>1, <3>1 DEF Announced, FillingPC, r, s, b
      <4>2. \A u \in Thread : pc'[u] \in FillingPC => ~(HomeOf[u] = q /\ slot[u] = x)
        BY <1>d, <1>g, <1>m, <3>1 DEF FillingPC
      <4> QED  BY <1>c, <1>h, <3>1, <4>1, <4>2 DEF Announced
    <3>2. CASE ~(q = r /\ x = s)
      <4>1. BeingFilled(q, x)' <=> BeingFilled(q, x)
        BY <1>f, <3>2
      <4>2. \A u \in Thread : HomeOf[u] = q /\ slot[u] = x => pc'[u] = pc[u]
        BY <1>d, <3>2 DEF r, s
      <4> QED  BY <1>c, <2>1, <4>1, <4>2 DEF Announced
    <3> QED  BY <3>1, <3>2
  <2> QED  BY <1>c, <2>1, ListedStays
<1>9. SourcesHeld'
  BY <1>c, <1>d, <1>m DEF Inv, SourcesHeld
<1>10. SourceKept' /\ FilledAtEnd'
  BY <1>c, <1>d DEF Inv, SourceKept, FilledAtEnd
<1>11. ReadsRequestedBlock'
  BY <1>c, <1>d, <1>h DEF Inv, ReadsRequestedBlock, r, s, b
<1> QED
  BY <1>1, <1>2, <1>3, <1>4, <1>5, <1>6, <1>7, <1>8, <1>9, <1>10, <1>11 DEF Inv

LEMMA ReturnInv ==
  ASSUME Inv, NEW t \in Thread, Return(t)
  PROVE  Inv'
<1> DEFINE r == HomeOf[t]
           s == slot[t]
<1>a. r \in Rank /\ s \in Slots /\ 0 \in Slots
  BY ThreadFacts, MPICacheDictAssumption DEF Slots
<1>b. /\ pc[t] = "read"
      /\ pc' = [pc EXCEPT ![t] = "idle"]
      /\ blockMutex' = [blockMutex EXCEPT ![r][s] = NoThread]
      /\ want' = [want EXCEPT ![t] = Absent]
      /\ slot' = [slot EXCEPT ![t] = 0]
      /\ old' = [old EXCEPT ![t] = Absent]
      /\ source' = [source EXCEPT ![t] = Unused]
  BY DEF Return, Goto
<1>c. UNCHANGED <<stored, cacheMutex, data, dictionary, entryMutex, mpiLock>>
  BY DEF Return, global
<1>d. /\ \A u \in Thread : u # t =>
            /\ pc'[u] = pc[u] /\ want'[u] = want[u] /\ slot'[u] = slot[u]
            /\ old'[u] = old[u] /\ source'[u] = source[u]
      /\ pc'[t] = "idle"
  BY <1>b DEF Inv, TypeOK
<1>e. \A q \in Rank, x \in Slots : Condemned(q, x)' <=> Condemned(q, x)
  BY <1>b, <1>d DEF Condemned
<1>f. \A q \in Rank, x \in Slots : BeingFilled(q, x)' <=> BeingFilled(q, x)
  BY <1>b, <1>d DEF BeingFilled, FillingPC
<1>m. \A u \in Thread : HomeOf[u] \in Rank /\ slot[u] \in Slots
  BY ThreadFacts
<1> HIDE DEF r, s
<1>1. TypeOK'
  <2>1. want' \in [Thread -> Block \cup {Absent}] /\ old' \in [Thread -> Block \cup {Absent}]
    BY <1>b DEF Inv, TypeOK
  <2>2. slot' \in [Thread -> Slots] /\ source' \in [Thread -> Places \cup {Unused}]
    BY <1>a, <1>b DEF Inv, TypeOK
  <2>3. blockMutex' \in [Rank -> [Slots -> Thread \cup {NoThread}]] /\ pc' \in [Thread -> PC]
    BY <1>a, <1>b DEF Inv, TypeOK, PC
  <2> QED  BY <1>c, <2>1, <2>2, <2>3 DEF Inv, TypeOK
<1>2. MutexesOwned'
  <2>1. \A u \in Thread : \A q \in Rank : cacheMutex'[q] = u <=> pc'[u] = "lock" /\ HomeOf[u] = q
    BY <1>b, <1>c, <1>d DEF Inv, MutexesOwned
  <2>2. ASSUME NEW u \in Thread, NEW q \in Rank, NEW x \in Slots
        PROVE  blockMutex'[q][x] = u <=> OwnsSlot(u, q, x)'
    <3>1. blockMutex'[q][x] = IF q = r /\ x = s THEN NoThread ELSE blockMutex[q][x]
      BY <1>a, <1>b DEF Inv, TypeOK
    <3>2. blockMutex[q][x] = u <=> OwnsSlot(u, q, x)
      BY DEF Inv, MutexesOwned
    <3>3. blockMutex[r][s] = t
      BY <1>a, <1>b DEF Inv, MutexesOwned, OwnsSlot, r, s
    <3>4. CASE u = t
      <4>1. ~OwnsSlot(u, q, x)'
        BY <1>d, <3>4 DEF OwnsSlot, FillingPC
      <4>2. OwnsSlot(u, q, x) => q = r /\ x = s
        BY <3>4 DEF OwnsSlot, r, s
      <4> QED  BY <3>1, <3>2, <4>1, <4>2, CacheDistWinAssumption
    <3>5. CASE u # t
      <4>1. OwnsSlot(u, q, x)' <=> OwnsSlot(u, q, x)
        BY <1>d, <3>5 DEF OwnsSlot
      <4> QED  BY <3>1, <3>2, <3>3, <3>5, <4>1, CacheDistWinAssumption
    <3> QED  BY <3>4, <3>5
  <2>3. \A u \in Thread : \A b \in Block :
           entryMutex'[b] = u <=> pc'[u] \in EntryPC /\ want'[u] = b
    BY <1>b, <1>c, <1>d DEF Inv, MutexesOwned, EntryPC
  <2> QED  BY <2>1, <2>2, <2>3 DEF MutexesOwned
<1>3. CallsWant'
  BY <1>d DEF Inv, CallsWant
<1>4. WaitersEntered'
  BY <1>c, <1>d DEF Inv, WaitersEntered
<1>5. FillersEntered'
  <2> SUFFICES ASSUME NEW u \in Thread, pc'[u] \in FillingPC, ~Condemned(HomeOf[u], slot[u])'
               PROVE  stored[HomeOf[u]][slot'[u]] = want'[u]
    BY <1>c DEF FillersEntered
  <2>1. u # t
    BY <1>d DEF FillingPC
  <2>2. ~Condemned(HomeOf[u], slot[u])
    BY <1>b, <1>d, <2>1 DEF Condemned
  <2> QED  BY <1>d, <2>1, <2>2 DEF Inv, FillersEntered
<1>6. RestingTruthful'
  BY <1>c, <1>e, <1>f DEF Inv, RestingTruthful
<1>7. OldKnown'
  <2>1. ASSUME NEW u \in Thread, u # t
        PROVE  BeingFilled(HomeOf[u], slot[u])' <=> BeingFilled(HomeOf[u], slot[u])
    BY <1>b, <1>d, <2>1 DEF BeingFilled, FillingPC
  <2>2. \A u \in Thread : pc'[u] \in FillingPC \cup {"lock"} => u # t
    BY <1>d DEF FillingPC
  <2> QED  BY <1>c, <1>d, <2>1, <2>2 DEF Inv, OldKnown
<1>8. ListedAnnounced' /\ EntriesLists'
  <2>1. \A q \in Rank, x \in Slots : \A b \in Block :
            Announced(q, x, b) => Announced(q, x, b)'
    BY <1>c, <1>d, <1>f DEF Announced, FillingPC
  <2> QED  BY <1>c, <2>1, ListedStays
<1>9. SourcesHeld'
  BY <1>d DEF Inv, SourcesHeld, FillingPC
<1>10. SourceKept' /\ FilledAtEnd' /\ ReadsRequestedBlock'
  BY <1>c, <1>d DEF Inv, SourceKept, FilledAtEnd, ReadsRequestedBlock
<1> QED
  BY <1>1, <1>2, <1>3, <1>4, <1>5, <1>6, <1>7, <1>8, <1>9, <1>10 DEF Inv

LEMMA StepInv ==
  ASSUME Inv, [Next]_vars
  PROVE  Inv'
<1>1. CASE UNCHANGED vars
  BY <1>1 DEF vars, Inv, TypeOK, MutexesOwned, OwnsSlot, CallsWant, WaitersEntered, FillersEntered,
     Condemned, RestingTruthful, BeingFilled, OldKnown, ListedAnnounced, Announced, EntriesLists,
     SourcesHeld, SourceKept, FilledAtEnd, ReadsRequestedBlock
<1>2. ASSUME NEW t \in Thread, NEW b \in Block, Call(t, b)
      PROVE  Inv'
  BY <1>2, CallInv
<1>3. ASSUME NEW t \in Thread, Continue(t)
      PROVE  Inv'
  <2>1. CASE GetHit(t)
    BY <2>1, GetInv DEF GetHit, SlotsOf
  <2>2. CASE GetMiss(t)
    BY <2>2, GetInv DEF GetMiss
  <2>3. CASE LockSlot(t)
    BY <2>3, LockSlotInv
  <2>4. CASE EnterDelete(t)
    <3>1. "delete" \in {"delete", "start"} /\ "deleting" \in {"deleting", "starting"}
      OBVIOUS
    <3> QED  BY <2>4, <3>1, EnterInv DEF EnterDelete, Goto
  <2>5. CASE DeleteBlock(t)
    BY <2>5, DeleteBlockInv
  <2>6. CASE EnterStart(t)
    BY <2>6, EnterInv DEF EnterStart, Goto
  <2>7. CASE StartTransfer(t)
    BY <2>7, StartTransferInv
  <2>8. CASE Transfer(t)
    <3>1. data[RankOf(source[t])][SlotOf(source[t])] = want[t]
      BY <2>8 DEF Transfer, Inv, SourceKept
    <3> QED  BY <2>8, <3>1, FillInv DEF Transfer
  <2>9. CASE LoadBlock(t)
    BY <2>9, FillInv DEF LoadBlock
  <2>10. CASE EndTransfer(t)
    BY <2>10, EndTransferInv
  <2>11. CASE Return(t)
    BY <2>11, ReturnInv
  <2> QED
    BY <1>3, <2>1, <2>2, <2>3, <2>4, <2>5, <2>6, <2>7, <2>8, <2>9, <2>10, <2>11 DEF Continue
<1> QED  BY <1>1, <1>2, <1>3 DEF Next

LEMMA InitInv == Init => Inv
<1> SUFFICES ASSUME Init
             PROVE  Inv
  OBVIOUS
<1> USE CacheDistWinAssumption, MPICacheDictAssumption
<1>1. EmptyEntry \in DictEntry /\ IsList(EmptyEntry)
  <2>1. \A i \in Index : EmptyEntry[i] = Unused
    BY DEF EmptyEntry
  <2>2. \A i \in Index : EmptyEntry[i] # Unused <=> i < 0
    BY <2>1, IndexFacts
  <2>3. EmptyEntry \in DictEntry
    BY DEF EmptyEntry, DictEntry
  <2>4. 0 \in 0 .. DictSize
    OBVIOUS
  <2> QED  BY <2>1, <2>2, <2>3, <2>4 DEF IsList
<1>2. TypeOK
  BY <1>1 DEF Init, TypeOK, PC, Slots
<1>3. MutexesOwned
  BY DEF Init, MutexesOwned, OwnsSlot, FillingPC, EntryPC
<1>4. CallsWant /\ WaitersEntered /\ FillersEntered /\ RestingTruthful /\ OldKnown
  BY DEF Init, CallsWant, WaitersEntered, FillersEntered, FillingPC, RestingTruthful, OldKnown
<1>5. ListedAnnounced /\ EntriesLists
  BY <1>1 DEF Init, ListedAnnounced, EmptyEntry, EntriesLists
<1>6. SourcesHeld /\ SourceKept /\ FilledAtEnd /\ ReadsRequestedBlock
  BY DEF Init, SourcesHeld, SourceKept, FilledAtEnd, ReadsRequestedBlock
<1> QED  BY <1>2, <1>3, <1>4, <1>5, <1>6 DEF Inv

-----------------------------------------------------------------------------
(* Every state of getAt and of the dictionary, on every rank, satisfies    *)
(* the invariant: mutexes are held where the code stands between lock and  *)
(* unlock, and a slot is listed in the dictionary only for the block it    *)
(* contains, is being filled with, or is about to lose.                    *)
THEOREM InvHolds == Spec => []Inv
<1>1. Init => Inv
  BY InitInv
<1>2. Inv /\ [Next]_vars => Inv'
  BY StepInv
<1> QED  BY <1>1, <1>2, PTL DEF Spec

(* The collision avoidance of the windows: while startTransfer copies a    *)
(* block out of another rank's cache, the slot still contains the block,   *)
(* because its owner needs the entry's mutex before it may fill it anew.   *)
THEOREM SourceKeptHolds == Spec => []SourceKept
<1>1. Inv => SourceKept
  BY DEF Inv
<1> QED  BY <1>1, InvHolds, PTL

(* A thread that holds the lock of its slot and reads it, reads the block  *)
(* it asked for, however often slots were evicted and copied meanwhile.    *)
THEOREM ReadsRequestedBlockHolds == Spec => []ReadsRequestedBlock
<1>1. Inv => ReadsRequestedBlock
  BY DEF Inv
<1> QED  BY <1>1, InvHolds, PTL

LEMMA InvTruthful ==
  ASSUME Inv
  PROVE  DictionaryTruthful
<1>1. ASSUME NEW b \in Block, NEW p \in Listed(dictionary[b])
      PROVE  \/ data[RankOf(p)][SlotOf(p)] = b
             \/ \E t \in Thread : Filling(t, b, p)
  <2>1. PICK i \in Index : dictionary[b][i] = p /\ p # Unused
    BY <1>1, ListedFacts DEF Inv, EntriesLists
  <2>2. PICK r \in Rank, s \in Slots : p = PlaceOf(r, s) /\ Announced(r, s, b)
    BY <2>1, ListedPlace
  <2>3. RankOf(p) = r /\ SlotOf(p) = s
    BY <2>2, PlaceFacts
  <2>4. CASE ~BeingFilled(r, s)
    BY <2>2, <2>3, <2>4 DEF Announced
  <2>5. CASE BeingFilled(r, s)
    <3>1. PICK t \in Thread : pc[t] \in FillingPC /\ HomeOf[t] = r /\ slot[t] = s
      BY <2>5 DEF BeingFilled
    <3>2. CASE pc[t] \in {"delete", "deleting"} /\ old[t] = b
      BY <2>3, <3>1, <3>2 DEF Inv, OldKnown
    <3>3. CASE pc[t] = "end" /\ want[t] = b
      BY <2>3, <3>1, <3>3 DEF Inv, FilledAtEnd
    <3>4. CASE pc[t] \in {"copy", "load"} /\ want[t] = b
      <4>1. entryMutex[b] = t
        BY <3>4 DEF Inv, MutexesOwned, EntryPC
      <4> QED  BY <2>2, <3>1, <3>4, <4>1 DEF Filling, OwnPlace
    <3> QED  BY <2>2, <3>1, <3>2, <3>3, <3>4 DEF Announced, EntryPC
  <2> QED  BY <2>4, <2>5
<1>2. ASSUME NEW b \in Block, NEW c \in Block, NEW i \in Index, NEW j \in Index,
             dictionary[b][i] = dictionary[c][j], dictionary[b][i] # Unused
      PROVE  b = c /\ i = j
  <2> DEFINE q == RankOf(dictionary[b][i])
             x == SlotOf(dictionary[b][i])
  <2>1. Announced(q, x, b) /\ Announced(q, x, c)
    BY <1>2 DEF Inv, ListedAnnounced
  <2>2. b = c
    <3>1. CASE ~BeingFilled(q, x)
      BY <2>1, <3>1 DEF Announced
    <3>2. CASE BeingFilled(q, x)
      BY <2>1, <3>2 DEF Announced, BeingFilled, EntryPC
    <3> QED  BY <3>1, <3>2
  <2> QED  BY <1>2, <2>2 DEF Inv, EntriesLists, IsList
<1> QED  BY <1>1, <1>2 DEF DictionaryTruthful

(* The dictionary never lies: a place it lists contains the block or is    *)
(* being filled by the thread that has the entry, and no slot is listed    *)
(* twice.                                                                  *)
THEOREM DictionaryTruthfulHolds == Spec => []DictionaryTruthful
<1>1. Inv => DictionaryTruthful
  BY InvTruthful
<1> QED  BY <1>1, InvHolds, PTL
=============================================================================
