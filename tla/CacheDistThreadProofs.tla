------------------------ MODULE CacheDistThreadProofs ------------------------
(***************************************************************************)
(* Proofs about CacheDistThread, for every number of ranks, threads,       *)
(* blocks and places in an entry, every size of the caches, every program  *)
(* and every level of a grid.                                              *)
(***************************************************************************)
EXTENDS CacheDistThread, TLAPS

(* The lemmas about lists of places; they depend neither on the size of    *)
(* the caches nor on mutexes.                                              *)
Dict == INSTANCE CacheDistWinProofs
            WITH CacheSize <- 1, ThreadsafeMPI <- TRUE,
                 entryMutex <- infoMutex, mpiLock <- transferMutex

SizeOK == cacheSize \in Nat \ {0}

LEMMA DictAssumptions == Dict!MPICacheDictAssumption /\ Dict!CacheDistWinAssumption
BY CacheDistThreadAssumption
   DEF Dict!MPICacheDictAssumption, Dict!CacheDistWinAssumption, Dict!Rank, Rank

LEMMA SameList ==
  /\ Dict!Index = Index /\ Dict!Unused = Unused
  /\ \A e : Dict!IsList(e) <=> IsList(e)
  /\ \A e : Dict!Count(e) = Count(e)
  /\ \A e : Dict!Listed(e) = Listed(e) /\ Dict!Fetched(e) = Fetched(e)
BY DEF Dict!Index, Index, Dict!Unused, Unused, Dict!IsList, IsList, Dict!Count, Count,
       Dict!Listed, Listed, Dict!Fetched, Fetched

LEMMA SameChange ==
  ASSUME NEW e, NEW p
  PROVE  Dict!Updated(e, p) = Updated(e, p) /\ Dict!Deleted(e, p) = Deleted(e, p)
BY SameList DEF Dict!Index, Index, Dict!Unused, Unused, Dict!Updated, Updated, Dict!Deleted, Deleted

(* A place is a rank and a slot in one number, and nothing is lost.        *)
LEMMA PlaceFacts ==
  ASSUME SizeOK, NEW r \in Rank, NEW s \in Slots
  PROVE  /\ PlaceOf(r, s) \in Places
         /\ PlaceOf(r, s) # Unused
         /\ RankOf(PlaceOf(r, s)) = r
         /\ SlotOf(PlaceOf(r, s)) = s
<1>1. r \in Nat /\ s \in Nat /\ s \in 0 .. cacheSize - 1 /\ cacheSize \in Nat \ {0}
  BY CacheDistThreadAssumption DEF SizeOK, Rank, Slots
<1>2. RankOf(PlaceOf(r, s)) = r /\ SlotOf(PlaceOf(r, s)) = s
  BY <1>1, DictAssumptions, Dict!Division DEF PlaceOf, RankOf, SlotOf
<1>3. r * cacheSize + s >= 0
  <2>1. r * cacheSize \in Nat
    BY <1>1
  <2> QED  BY <1>1, <2>1
<1>4. PlaceOf(r, s) # Unused
  BY <1>3 DEF PlaceOf, Unused
<1> QED  BY <1>2, <1>4 DEF Places

LEMMA PlacesFacts ==
  ASSUME SizeOK, NEW p \in Places
  PROVE  /\ p # Unused
         /\ RankOf(p) \in Rank
         /\ SlotOf(p) \in Slots
         /\ PlaceOf(RankOf(p), SlotOf(p)) = p
<1>1. PICK r \in Rank, s \in Slots : p = PlaceOf(r, s)
  BY DEF Places
<1> QED  BY <1>1, PlaceFacts

LEMMA FetchedFacts ==
  ASSUME NEW entry \in DictEntry, IsList(entry), NEW p \in Fetched(entry)
  PROVE  p \in Places \cup {Unused}
<1>1. p = Unused \/ \E i \in Index : entry[i] = p
  BY DictAssumptions, SameList, Dict!FetchedFacts
<1> QED  BY <1>1 DEF DictEntry

LEMMA ListedFacts ==
  ASSUME NEW entry, IsList(entry)
  PROVE  \A p : p \in Listed(entry) <=> \E i \in Index : entry[i] = p /\ p # Unused
BY DictAssumptions, SameList, Dict!ListedFacts

(* updateBlockInfo() and deleteBlockInfo() keep a list.                    *)
LEMMA UpdatedFacts ==
  ASSUME SizeOK, NEW entry \in DictEntry, IsList(entry), NEW p \in Places, p \notin Listed(entry)
  PROVE  /\ Updated(entry, p) \in DictEntry
         /\ IsList(Updated(entry, p))
         /\ Listed(Updated(entry, p)) \subseteq Listed(entry) \cup {p}
<1>1. p # Unused /\ \A i \in Index : entry[i] # p
  BY ListedFacts, PlacesFacts
<1>2. /\ IsList(Updated(entry, p))
      /\ \A i \in Index :
            Updated(entry, p)[i] = p \/ \E j \in Index : Updated(entry, p)[i] = entry[j]
  BY <1>1, DictAssumptions, SameList, SameChange, Dict!UpdatedList
<1>3. Updated(entry, p) = [i \in Index |-> Updated(entry, p)[i]]
  BY DEF Updated
<1>4. \A i \in Index : Updated(entry, p)[i] \in Places \cup {Unused}
  BY <1>2 DEF DictEntry
<1>5. Updated(entry, p) \in DictEntry
  BY <1>3, <1>4 DEF DictEntry
<1> QED  BY <1>2, <1>5, ListedFacts

LEMMA DeletedFacts ==
  ASSUME SizeOK, NEW entry \in DictEntry, IsList(entry), NEW p \in Places
  PROVE  /\ Deleted(entry, p) \in DictEntry
         /\ IsList(Deleted(entry, p))
         /\ Listed(Deleted(entry, p)) \subseteq Listed(entry) \ {p}
<1>1. /\ IsList(Deleted(entry, p))
      /\ \A i \in Index : Deleted(entry, p)[i] # p
      /\ \A i \in Index :
            Deleted(entry, p)[i] # Unused => \E j \in Index : Deleted(entry, p)[i] = entry[j]
  BY PlacesFacts, DictAssumptions, SameList, SameChange, Dict!DeletedList
<1>2. Deleted(entry, p) = [i \in Index |-> Deleted(entry, p)[i]]
  BY DEF Deleted
<1>3. \A i \in Index : Deleted(entry, p)[i] \in Places \cup {Unused}
  BY <1>1 DEF DictEntry
<1>4. Deleted(entry, p) \in DictEntry
  BY <1>2, <1>3 DEF DictEntry
<1> QED  BY <1>1, <1>4, ListedFacts

(* The size of the caches never changes.                                   *)
LEMMA SizeKept ==
  ASSUME cacheSize' = cacheSize
  PROVE  /\ Slots' = Slots /\ Places' = Places /\ DictEntry' = DictEntry
         /\ Request' = Request /\ Reply' = Reply
         /\ \A p : RankOf(p)' = RankOf(p) /\ SlotOf(p)' = SlotOf(p)
         /\ \A r, s : PlaceOf(r, s)' = PlaceOf(r, s)
<1>1. \A r, s : PlaceOf(r, s)' = PlaceOf(r, s)
  BY DEF PlaceOf
<1>2. \A p : RankOf(p)' = RankOf(p) /\ SlotOf(p)' = SlotOf(p)
  BY DEF RankOf, SlotOf
<1>3. Slots' = Slots
  BY DEF Slots
<1>4. Places' = Places
  BY <1>1, <1>3 DEF Places
<1> QED  BY <1>1, <1>2, <1>3, <1>4 DEF DictEntry, Request, Reply

-----------------------------------------------------------------------------
(* Queues of messages about a place.                                       *)
Message(kind, b, place) == [kind |-> kind, block |-> b, place |-> place]

LEMMA AppendOther ==
  ASSUME NEW M, NEW queue \in Seq(M), NEW m \in M, NEW b, NEW place, NEW listed, NEW announced,
         m # Message("add", b, place), m # Message("delete", b, place),
         InOrder(queue, b, place, listed, announced)
  PROVE  InOrder(Append(queue, m), b, place, listed, announced)
<1>1. /\ Told(Append(queue, m), "add", b, place) = Told(queue, "add", b, place)
      /\ Told(Append(queue, m), "delete", b, place) = Told(queue, "delete", b, place)
  BY DEF Told, Message
<1> QED  BY <1>1 DEF InOrder

LEMMA AppendDelete ==
  ASSUME NEW M, NEW queue \in Seq(M), NEW b, NEW place, NEW listed, NEW announced, NEW after,
         Message("delete", b, place) \in M,
         InOrder(queue, b, place, listed, announced)
  PROVE  InOrder(Append(queue, Message("delete", b, place)), b, place, listed, after)
<1> DEFINE m == Message("delete", b, place)
           n == Len(queue) + 1
<1>1. Message("add", b, place) # m /\ n \in Nat
  BY DEF Message
<1>2. /\ Told(Append(queue, m), "add", b, place) = Told(queue, "add", b, place)
      /\ Told(Append(queue, m), "delete", b, place) = Told(queue, "delete", b, place) \cup {n}
  BY <1>1 DEF Told, Message
<1>3. \A i \in Told(queue, "add", b, place) : i < n
  BY DEF Told
<1> HIDE DEF m, n
<1> QED  BY <1>2, <1>3 DEF InOrder, m

LEMMA AppendAdd ==
  ASSUME NEW M, NEW queue \in Seq(M), NEW b, NEW place, NEW listed, NEW announced, NEW after,
         Message("add", b, place) \in M, b \notin announced, b \in after,
         InOrder(queue, b, place, listed, announced)
  PROVE  InOrder(Append(queue, Message("add", b, place)), b, place, listed, after)
<1> DEFINE m == Message("add", b, place)
           n == Len(queue) + 1
<1>1. Message("delete", b, place) # m /\ n \in Nat
  BY DEF Message
<1>2. /\ Told(Append(queue, m), "add", b, place) = Told(queue, "add", b, place) \cup {n}
      /\ Told(Append(queue, m), "delete", b, place) = Told(queue, "delete", b, place)
  BY <1>1 DEF Told, Message
<1>3. /\ \A i \in Told(queue, "add", b, place) : i \in Nat /\ i < n
      /\ \A i \in Told(queue, "delete", b, place) : i \in Nat /\ i < n
  BY DEF Told
<1> HIDE DEF m, n
<1> QED  BY <1>1, <1>2, <1>3 DEF InOrder, m

LEMMA TailTold ==
  ASSUME NEW M, NEW queue \in Seq(M), queue # <<>>, NEW kind, NEW b, NEW place
  PROVE  /\ \A i \in Told(Tail(queue), kind, b, place) :
               i \in Nat \ {0} /\ i + 1 \in Told(queue, kind, b, place)
         /\ \A i \in Told(queue, kind, b, place) :
               /\ i \in Nat \ {0}
               /\ i = 1 => Head(queue) = Message(kind, b, place)
               /\ i # 1 => i - 1 \in Told(Tail(queue), kind, b, place)
         /\ Head(queue) = Message(kind, b, place) => 1 \in Told(queue, kind, b, place)
BY DEF Told, Message

LEMMA TailOther ==
  ASSUME NEW M, NEW queue \in Seq(M), queue # <<>>, NEW b, NEW place, NEW listed, NEW announced,
         Head(queue) # Message("add", b, place), Head(queue) # Message("delete", b, place),
         InOrder(queue, b, place, listed, announced)
  PROVE  InOrder(Tail(queue), b, place, listed, announced)
<1> DEFINE adds == Told(queue, "add", b, place)
           deletes == Told(queue, "delete", b, place)
           addsT == Told(Tail(queue), "add", b, place)
           deletesT == Told(Tail(queue), "delete", b, place)
<1>1. /\ \A i \in addsT : i \in Nat \ {0} /\ i + 1 \in adds
      /\ \A i \in deletes : i \in Nat \ {0} /\ i - 1 \in deletesT
  BY TailTold
<1> HIDE DEF addsT, deletesT
<1> QED  BY <1>1 DEF InOrder, addsT, deletesT

LEMMA TailAdd ==
  ASSUME NEW M, NEW queue \in Seq(M), queue # <<>>, NEW b, NEW place, NEW listed, NEW announced,
         NEW after,
         Head(queue) = Message("add", b, place),
         InOrder(queue, b, place, listed, announced)
  PROVE  place \notin listed /\ InOrder(Tail(queue), b, place, after, announced)
<1> DEFINE adds == Told(queue, "add", b, place)
           deletes == Told(queue, "delete", b, place)
           addsT == Told(Tail(queue), "add", b, place)
           deletesT == Told(Tail(queue), "delete", b, place)
<1>0. Head(queue) # Message("delete", b, place)
  BY DEF Message
<1>1. /\ \A i \in addsT : i \in Nat \ {0} /\ i + 1 \in adds
      /\ \A i \in deletes : i \in Nat \ {0} /\ i - 1 \in deletesT
      /\ 1 \in adds
  BY <1>0, TailTold
<1> HIDE DEF addsT, deletesT
<1> QED  BY <1>1, SMTT(30) DEF InOrder, addsT, deletesT

LEMMA TailDelete ==
  ASSUME NEW M, NEW queue \in Seq(M), queue # <<>>, NEW b, NEW place, NEW listed, NEW announced,
         NEW after,
         Head(queue) = Message("delete", b, place), place \notin after,
         InOrder(queue, b, place, listed, announced)
  PROVE  InOrder(Tail(queue), b, place, after, announced)
<1> DEFINE adds == Told(queue, "add", b, place)
           deletes == Told(queue, "delete", b, place)
           addsT == Told(Tail(queue), "add", b, place)
           deletesT == Told(Tail(queue), "delete", b, place)
<1>1. /\ \A i \in addsT : i \in Nat \ {0} /\ i + 1 \in adds
      /\ \A i \in deletes : i \in Nat \ {0} /\ (i # 1 => i - 1 \in deletesT)
  BY TailTold
<1> HIDE DEF addsT, deletesT
<1> QED  BY <1>1 DEF InOrder, addsT, deletesT

LEMMA LessListed ==
  ASSUME NEW queue, NEW b, NEW place, NEW listed, NEW announced, NEW less, NEW more,
         place \in less => place \in listed, b \in announced => b \in more,
         InOrder(queue, b, place, listed, announced)
  PROVE  InOrder(queue, b, place, less, more)
BY DEF InOrder

-----------------------------------------------------------------------------
LEMMA ThreadFacts ==
  ASSUME Inv, NEW t \in Thread
  PROVE  /\ HomeOf[t] \in Rank /\ slot[t] \in Slots
         /\ pc[t] # "idle" => want[t] \in Block
         /\ OwnPlace(t) \in Places /\ OwnPlace(t) = PlaceOf(HomeOf[t], slot[t])
         /\ RankOf(OwnPlace(t)) = HomeOf[t] /\ SlotOf(OwnPlace(t)) = slot[t]
<1>1. HomeOf[t] \in Rank /\ slot[t] \in Slots /\ (pc[t] # "idle" => want[t] \in Block)
  BY CacheDistThreadAssumption DEF Inv, TypeOK, CacheInv, CallsWant
<1>2. SizeOK
  BY DEF Inv, TypeOK, SizeOK
<1> QED  BY <1>1, <1>2, PlaceFacts DEF OwnPlace

LEMMA RequestFacts ==
  ASSUME NEW m \in Request
  PROVE  /\ m.kind \in {"info", "transfer", "add", "delete"} /\ m.block \in Block
         /\ m.kind \in {"add", "delete"} =>
               m.place \in Places /\ m = Message(m.kind, m.block, m.place)
BY DEF Request, Message

LEMMA QueueFacts ==
  ASSUME Inv, NEW q \in Rank, NEW r \in Rank
  PROVE  /\ requests[q][r] \in Seq(Request)
         /\ requests[q][r] # <<>> =>
               /\ Head(requests[q][r]) \in Request /\ Head(requests[q][r]) = requests[q][r][1]
               /\ 1 \in 1 .. Len(requests[q][r])
               /\ Tail(requests[q][r]) \in Seq(Request)
               /\ Len(Tail(requests[q][r])) = Len(requests[q][r]) - 1
               /\ \A i \in 1 .. Len(Tail(requests[q][r])) :
                     i + 1 \in 1 .. Len(requests[q][r])
                     /\ Tail(requests[q][r])[i] = requests[q][r][i + 1]
         /\ \A i \in 1 .. Len(requests[q][r]) : requests[q][r][i] \in Request
<1>1. requests[q][r] \in Seq(Request)
  BY DEF Inv, TypeOK
<1> QED  BY <1>1

(* At most one thread of a rank waits for a slot, and one for a block.     *)
LEMMA OneWaiter ==
  ASSUME Inv, NEW t \in Thread, NEW u \in Thread, HomeOf[t] = HomeOf[u],
         pc[t] \in {"lock", "reply"}, pc[u] = pc[t]
  PROVE  t = u
<1>1. HomeOf[t] \in Rank
  BY ThreadFacts
<1> QED  BY <1>1 DEF Inv, CacheInv, MutexesOwned, TransferInv, AskersAlone

(* A thread that fills its slot is alone there.                            *)
LEMMA FillerAlone ==
  ASSUME Inv, NEW t \in Thread, NEW u \in Thread,
         pc[t] \in FillingPC, pc[u] \in FillingPC \cup {"read"},
         HomeOf[u] = HomeOf[t], slot[u] = slot[t]
  PROVE  u = t
<1>1. OwnsSlot(t, HomeOf[t], slot[t]) /\ OwnsSlot(u, HomeOf[t], slot[t])
  BY DEF OwnsSlot
<1>2. HomeOf[t] \in Rank /\ slot[t] \in Slots
  BY ThreadFacts
<1> QED  BY <1>1, <1>2 DEF Inv, CacheInv, MutexesOwned

-----------------------------------------------------------------------------
(* A step that neither sends nor receives.                                 *)
LEMMA DictStays ==
  ASSUME Inv, UNCHANGED <<cacheSize, dictionary, requests>>,
         \A r \in Rank, s \in Slots : Announced(r, s) \subseteq Announced(r, s)'
  PROVE  DictInv'
<1>1. Slots' = Slots /\ \A r, s : PlaceOf(r, s)' = PlaceOf(r, s)
  BY SizeKept
<1>2. EntriesLists'
  BY DEF Inv, DictInv, EntriesLists
<1>3. PlacesToldByOwner'
  BY SizeKept DEF Inv, DictInv, PlacesToldByOwner
<1>4. DictionaryToldInOrder'
  <2> SUFFICES ASSUME NEW r \in Rank, NEW s \in Slots, NEW b \in Block
               PROVE  InOrder(requests[r][DictRankOf[b]], b, PlaceOf(r, s),
                              Listed(dictionary[b]), Announced(r, s)')
    BY <1>1 DEF DictionaryToldInOrder
  <2>1. InOrder(requests[r][DictRankOf[b]], b, PlaceOf(r, s), Listed(dictionary[b]), Announced(r, s))
    BY DEF Inv, DictInv, DictionaryToldInOrder
  <2> QED  BY <2>1, LessListed
<1> QED  BY <1>2, <1>3, <1>4 DEF DictInv

(* What the queues say with one more message.                              *)
ToldByOwner(from, to, m) ==
    m.kind \in {"add", "delete"} => from = RankOf(m.place) /\ to = DictRankOf[m.block] /\ from # to

Sent(from, to, m) == requests' = [requests EXCEPT ![from][to] = Append(@, m)]

SentOne(from, to, m) ==
    \A q, r \in Rank :
        requests'[q][r] = IF q = from /\ r = to THEN Append(requests[q][r], m) ELSE requests[q][r]

LEMMA SentFacts ==
  ASSUME Inv, NEW from \in Rank, NEW to \in Rank, NEW m, Sent(from, to, m)
  PROVE  SentOne(from, to, m)
BY DEF Inv, TypeOK, Sent, SentOne

LEMMA ToldAppend ==
  ASSUME Inv, cacheSize' = cacheSize, NEW from \in Rank, NEW to \in Rank, NEW m,
         m \in Request, ToldByOwner(from, to, m), SentOne(from, to, m)
  PROVE  PlacesToldByOwner'
<1>1. \A q, r \in Rank :
          requests'[q][r] = IF q = from /\ r = to THEN Append(requests[q][r], m) ELSE requests[q][r]
  BY DEF SentOne
<1>2. PlacesToldByOwner'
  <2> SUFFICES ASSUME NEW q \in Rank, NEW r \in Rank, NEW i \in 1 .. Len(requests'[q][r]),
                      requests'[q][r][i].kind \in {"add", "delete"}
               PROVE  /\ q = RankOf(requests'[q][r][i].place)
                      /\ r = DictRankOf[requests'[q][r][i].block] /\ q # r
    BY SizeKept DEF PlacesToldByOwner
  <2>1. CASE i \in 1 .. Len(requests[q][r]) /\ requests'[q][r][i] = requests[q][r][i]
    BY <2>1 DEF Inv, DictInv, PlacesToldByOwner
  <2>2. CASE q = from /\ r = to
    <3>0. requests[q][r] \in Seq(Request)
      BY QueueFacts
    <3>1. requests'[q][r] = Append(requests[q][r], m)
      BY <1>1, <2>2
    <3>2. i = Len(requests[q][r]) + 1 => requests'[q][r][i] = m
      BY <3>0, <3>1
    <3>3. i # Len(requests[q][r]) + 1 =>
             i \in 1 .. Len(requests[q][r]) /\ requests'[q][r][i] = requests[q][r][i]
      BY <3>0, <3>1
    <3> QED  BY <2>1, <2>2, <3>2, <3>3 DEF ToldByOwner
  <2> QED  BY <1>1, <2>1, <2>2
<1> QED  BY <1>2

(* A question is sent.                                                     *)
LEMMA DictAppend ==
  ASSUME Inv, UNCHANGED <<cacheSize, dictionary>>, NEW from \in Rank, NEW to \in Rank,
         NEW m, m \in Request, m.kind \in {"info", "transfer"}, Sent(from, to, m),
         \A r \in Rank, s \in Slots : Announced(r, s) \subseteq Announced(r, s)'
  PROVE  DictInv'
<1>1. Slots' = Slots /\ \A r, s : PlaceOf(r, s)' = PlaceOf(r, s)
  BY SizeKept
<1>2. EntriesLists'
  BY DEF Inv, DictInv, EntriesLists
<1>0. ToldByOwner(from, to, m) /\ cacheSize' = cacheSize
  BY DEF ToldByOwner
<1>5. SentOne(from, to, m)
  BY SentFacts
<1>3. PlacesToldByOwner'
  BY <1>0, <1>5, ToldAppend
<1>4. DictionaryToldInOrder'
  <2> SUFFICES ASSUME NEW r \in Rank, NEW s \in Slots, NEW b \in Block
               PROVE  InOrder(requests'[r][DictRankOf[b]], b, PlaceOf(r, s),
                              Listed(dictionary[b]), Announced(r, s)')
    BY <1>1 DEF DictionaryToldInOrder
  <2>1. InOrder(requests[r][DictRankOf[b]], b, PlaceOf(r, s), Listed(dictionary[b]), Announced(r, s))
    BY DEF Inv, DictInv, DictionaryToldInOrder
  <2>2. DictRankOf[b] \in Rank
    BY CacheDistThreadAssumption
  <2>3. InOrder(requests[r][DictRankOf[b]], b, PlaceOf(r, s), Listed(dictionary[b]), Announced(r, s)')
    BY <2>1, LessListed
  <2>4. m # Message("add", b, PlaceOf(r, s)) /\ m # Message("delete", b, PlaceOf(r, s))
    BY DEF Message
  <2>5. requests[r][DictRankOf[b]] \in Seq(Request)
    BY <2>2, QueueFacts
  <2> QED  BY <1>5, <2>2, <2>3, <2>4, <2>5, AppendOther DEF SentOne
<1> QED  BY <1>2, <1>3, <1>4 DEF DictInv

(* What a queue says when its first message is gone.                       *)
LEMMA ToldTail ==
  ASSUME Inv, UNCHANGED cacheSize, NEW from \in Rank, NEW to \in Rank, requests[from][to] # <<>>,
         requests' = [requests EXCEPT ![from][to] = Tail(@)]
  PROVE  /\ PlacesToldByOwner'
         /\ \A q, r \in Rank :
               requests'[q][r] = IF q = from /\ r = to THEN Tail(requests[q][r]) ELSE requests[q][r]
<1>0. \A q, r \in Rank :
          requests'[q][r] = IF q = from /\ r = to THEN Tail(requests[q][r]) ELSE requests[q][r]
  BY DEF Inv, TypeOK
<1>3. PlacesToldByOwner'
  <2> SUFFICES ASSUME NEW q \in Rank, NEW r \in Rank, NEW i \in 1 .. Len(requests'[q][r]),
                      requests'[q][r][i].kind \in {"add", "delete"}
               PROVE  /\ q = RankOf(requests'[q][r][i].place)
                      /\ r = DictRankOf[requests'[q][r][i].block] /\ q # r
    BY SizeKept DEF PlacesToldByOwner
  <2>1. PICK j \in 1 .. Len(requests[q][r]) : requests'[q][r][i] = requests[q][r][j]
    BY <1>0, QueueFacts
  <2> QED  BY <2>1 DEF Inv, DictInv, PlacesToldByOwner
<1> QED  BY <1>0, <1>3

(* A question is received.                                                 *)
LEMMA DictTail ==
  ASSUME Inv, UNCHANGED <<cacheSize, dictionary>>, NEW from \in Rank, NEW to \in Rank,
         requests[from][to] # <<>>, Head(requests[from][to]).kind \in {"info", "transfer"},
         requests' = [requests EXCEPT ![from][to] = Tail(@)],
         \A r \in Rank, s \in Slots : Announced(r, s) \subseteq Announced(r, s)'
  PROVE  DictInv'
<1>1. Slots' = Slots /\ \A r, s : PlaceOf(r, s)' = PlaceOf(r, s)
  BY SizeKept
<1>2. EntriesLists'
  BY DEF Inv, DictInv, EntriesLists
<1>3. /\ PlacesToldByOwner'
      /\ \A q, r \in Rank :
            requests'[q][r] = IF q = from /\ r = to THEN Tail(requests[q][r]) ELSE requests[q][r]
  BY ToldTail
<1>4. DictionaryToldInOrder'
  <2> SUFFICES ASSUME NEW r \in Rank, NEW s \in Slots, NEW b \in Block
               PROVE  InOrder(requests'[r][DictRankOf[b]], b, PlaceOf(r, s),
                              Listed(dictionary[b]), Announced(r, s)')
    BY <1>1 DEF DictionaryToldInOrder
  <2>1. InOrder(requests[r][DictRankOf[b]], b, PlaceOf(r, s), Listed(dictionary[b]), Announced(r, s))
    BY DEF Inv, DictInv, DictionaryToldInOrder
  <2>2. DictRankOf[b] \in Rank
    BY CacheDistThreadAssumption
  <2>3. InOrder(requests[r][DictRankOf[b]], b, PlaceOf(r, s), Listed(dictionary[b]), Announced(r, s)')
    BY <2>1, LessListed
  <2>4. r = from /\ DictRankOf[b] = to =>
           /\ Head(requests[r][DictRankOf[b]]) # Message("add", b, PlaceOf(r, s))
           /\ Head(requests[r][DictRankOf[b]]) # Message("delete", b, PlaceOf(r, s))
    BY DEF Message
  <2>5. requests[r][DictRankOf[b]] \in Seq(Request)
    BY <2>2, QueueFacts
  <2> QED  BY <1>3, <2>2, <2>3, <2>4, <2>5, TailOther
<1> QED  BY <1>2, <1>3, <1>4 DEF DictInv

(* What has been announced where a slot's owner goes from L to M.          *)
LEMMA AnnouncedElsewhere ==
  ASSUME Inv, UNCHANGED <<cacheSize, slot>>, NEW t \in Thread, NEW M, pc' = [pc EXCEPT ![t] = M],
         NEW r \in Rank, NEW s \in Slots, ~(r = HomeOf[t] /\ s = slot[t]),
         data'[r][s] = data[r][s]
  PROVE  Announced(r, s)' = Announced(r, s)
<1>1. \A u \in Thread : HomeOf[u] = r /\ slot[u] = s => pc'[u] = pc[u]
  BY DEF Inv, TypeOK
<1> QED  BY <1>1 DEF Announced

(* No message tells a rank about its own places.                           *)
LEMMA NothingTold ==
  ASSUME Inv, NEW r \in Rank, NEW kind \in {"add", "delete"}, NEW b, NEW place
  PROVE  Told(requests[r][r], kind, b, place) = {}
<1> SUFFICES ASSUME NEW i \in Told(requests[r][r], kind, b, place)
             PROVE  FALSE
  OBVIOUS
<1>1. i \in 1 .. Len(requests[r][r]) /\ requests[r][r][i].kind \in {"add", "delete"}
  BY DEF Told
<1> QED  BY <1>1 DEF Inv, DictInv, PlacesToldByOwner

(* deleteBlock                                                             *)
LEMMA DeleteBlockDict ==
  ASSUME Inv, NEW t \in Thread, DeleteBlock(t)
  PROVE  /\ DictInv'
         /\ dictionary' \in [Block -> DictEntry]
<1> DEFINE r == HomeOf[t]
           s == slot[t]
           b == old[t]
           p == OwnPlace(t)
           home == DictRankOf[b]
<1>a. /\ r \in Rank /\ s \in Slots /\ b \in Block /\ p \in Places /\ p = PlaceOf(r, s)
      /\ RankOf(p) = r /\ home \in Rank /\ data[r][s] = b
  BY ThreadFacts, CacheDistThreadAssumption DEF DeleteBlock, Inv, CacheInv, OldKnown
<1>b. /\ pc[t] = "delete"
      /\ pc' = [pc EXCEPT ![t] = "start"]
      /\ UNCHANGED <<cacheSize, data, slot>>
  BY DEF DeleteBlock, Goto, application, locals
<1>c. SizeOK /\ Slots' = Slots /\ \A q, x : PlaceOf(q, x)' = PlaceOf(q, x)
  BY <1>b, SizeKept DEF SizeOK, Inv, TypeOK
<1>d. ASSUME NEW q \in Rank, NEW x \in Slots, ~(q = r /\ x = s)
      PROVE  Announced(q, x)' = Announced(q, x) /\ PlaceOf(q, x) # p
  <2>1. Announced(q, x)' = Announced(q, x)
    BY <1>b, <1>d, AnnouncedElsewhere
  <2>2. PlaceOf(q, x) # p
    BY <1>a, <1>c, <1>d, PlaceFacts
  <2> QED  BY <2>1, <2>2
<1>e. Announced(r, s) \subseteq {b}
  BY <1>a DEF Announced
<1>f. ASSUME NEW q \in Rank, NEW x \in Slots, NEW c \in Block
      PROVE  InOrder(requests[q][DictRankOf[c]], c, PlaceOf(q, x), Listed(dictionary[c]), Announced(q, x))
  BY DEF Inv, DictInv, DictionaryToldInOrder
<1>g. dictionary \in [Block -> DictEntry] /\ \A c \in Block : IsList(dictionary[c])
  BY DEF Inv, TypeOK, DictInv, EntriesLists
<1> HIDE DEF r, s, b, p, home
<1>h. ASSUME NEW q \in Rank, NEW x \in Slots, NEW c \in Block, ~(q = r /\ x = s /\ c = b)
      PROVE  c \in Announced(q, x) => c \in Announced(q, x)'
  <2>1. CASE q = r /\ x = s
    BY <1>e, <1>h, <2>1
  <2>2. CASE ~(q = r /\ x = s)
    BY <1>d, <2>2
  <2> QED  BY <2>1, <2>2
<1>1. CASE home = r
  <2>1. dictionary' = [dictionary EXCEPT ![b] = Deleted(dictionary[b], p)] /\ UNCHANGED requests
    BY <1>1 DEF DeleteBlock, home, r, b, p
  <2>2. /\ Deleted(dictionary[b], p) \in DictEntry /\ IsList(Deleted(dictionary[b], p))
        /\ Listed(Deleted(dictionary[b], p)) \subseteq Listed(dictionary[b]) \ {p}
    BY <1>a, <1>c, <1>g, DeletedFacts
  <2>3. \A c \in Block :
           dictionary'[c] = IF c = b THEN Deleted(dictionary[b], p) ELSE dictionary[c]
    BY <1>g, <2>1
  <2>4. EntriesLists' /\ dictionary' \in [Block -> DictEntry]
    BY <1>g, <2>1, <2>2, <2>3 DEF EntriesLists
  <2>5. PlacesToldByOwner'
    BY <1>b, <2>1, SizeKept DEF Inv, DictInv, PlacesToldByOwner
  <2>6. DictionaryToldInOrder'
    <3> SUFFICES ASSUME NEW q \in Rank, NEW x \in Slots, NEW c \in Block
                 PROVE  InOrder(requests[q][DictRankOf[c]], c, PlaceOf(q, x),
                                Listed(dictionary'[c]), Announced(q, x)')
      BY <1>c, <2>1 DEF DictionaryToldInOrder
    <3>1. CASE q = r /\ x = s /\ c = b
      <4>1. Told(requests[q][DictRankOf[c]], "add", c, PlaceOf(q, x)) = {}
        BY <1>1, <3>1, NothingTold DEF home
      <4>2. PlaceOf(q, x) \notin Listed(dictionary'[c])
        BY <1>a, <2>2, <2>3, <3>1
      <4> QED  BY <4>1, <4>2 DEF InOrder
    <3>2. CASE ~(q = r /\ x = s /\ c = b)
      <4>1. PlaceOf(q, x) \in Listed(dictionary'[c]) => PlaceOf(q, x) \in Listed(dictionary[c])
        BY <2>2, <2>3
      <4> QED  BY <1>f, <1>h, <3>2, <4>1, LessListed
    <3> QED  BY <3>1, <3>2
  <2> QED  BY <2>4, <2>5, <2>6 DEF DictInv
<1>2. CASE home # r
  <2> DEFINE m == Message("delete", b, p)
  <2>1. Sent(r, home, m) /\ UNCHANGED dictionary
    BY <1>2 DEF DeleteBlock, Send, Sent, Message, home, r, b, p
  <2>2. m \in Request /\ m.kind = "delete" /\ m.block = b /\ m.place = p
    BY <1>a DEF Request, Message
  <2>a. \A q \in Rank, c \in Block : requests[q][DictRankOf[c]] \in Seq(Request) /\ DictRankOf[c] \in Rank
    BY QueueFacts, CacheDistThreadAssumption
  <2> HIDE DEF m
  <2>4. EntriesLists' /\ dictionary' \in [Block -> DictEntry]
    BY <1>g, <2>1 DEF EntriesLists, Inv, DictInv
  <2>b. ToldByOwner(r, home, m) /\ cacheSize' = cacheSize
    BY <1>a, <1>b, <1>2, <2>2 DEF home, ToldByOwner
  <2>3. SentOne(r, home, m)
    BY <1>a, <2>1, SentFacts
  <2>5. PlacesToldByOwner'
    BY <1>a, <2>2, <2>3, <2>b, ToldAppend
  <2>6. DictionaryToldInOrder'
    <3> SUFFICES ASSUME NEW q \in Rank, NEW x \in Slots, NEW c \in Block
                 PROVE  InOrder(requests'[q][DictRankOf[c]], c, PlaceOf(q, x),
                                Listed(dictionary[c]), Announced(q, x)')
      BY <1>c, <2>1 DEF DictionaryToldInOrder
    <3>1. CASE q = r /\ x = s /\ c = b
      BY <1>a, <1>f, <2>2, <2>3, <2>a, <3>1, AppendDelete DEF home, m, SentOne
    <3>2. CASE ~(q = r /\ x = s /\ c = b)
      <4>1. InOrder(requests[q][DictRankOf[c]], c, PlaceOf(q, x), Listed(dictionary[c]), Announced(q, x)')
        BY <1>f, <1>h, <3>2, LessListed
      <4>2. q = r => m # Message("add", c, PlaceOf(q, x)) /\ m # Message("delete", c, PlaceOf(q, x))
        BY <1>d, <2>2, <3>2 DEF Message
      <4> QED  BY <2>2, <2>3, <2>a, <4>1, <4>2, AppendOther DEF SentOne
    <3> QED  BY <3>1, <3>2
  <2> QED  BY <2>4, <2>5, <2>6 DEF DictInv
<1> QED  BY <1>1, <1>2

(* endTransfer                                                             *)
LEMMA EndTransferDict ==
  ASSUME Inv, NEW t \in Thread, EndTransfer(t)
  PROVE  /\ DictInv'
         /\ dictionary' \in [Block -> DictEntry]
<1> DEFINE r == HomeOf[t]
           s == slot[t]
           b == want[t]
           p == OwnPlace(t)
           home == DictRankOf[b]
<1>a. /\ r \in Rank /\ s \in Slots /\ b \in Block /\ p \in Places /\ p = PlaceOf(r, s)
      /\ RankOf(p) = r /\ home \in Rank /\ data[r][s] = b
  BY ThreadFacts, CacheDistThreadAssumption DEF EndTransfer, Inv, CacheInv, FilledAtEnd
<1>b. /\ pc[t] = "end"
      /\ pc' = [pc EXCEPT ![t] = "read"]
      /\ UNCHANGED <<cacheSize, data, slot>>
  BY DEF EndTransfer, Goto, application, locals
<1>c. SizeOK /\ Slots' = Slots /\ \A q, x : PlaceOf(q, x)' = PlaceOf(q, x)
  BY <1>b, SizeKept DEF SizeOK, Inv, TypeOK
<1>d. ASSUME NEW q \in Rank, NEW x \in Slots, ~(q = r /\ x = s)
      PROVE  Announced(q, x)' = Announced(q, x) /\ PlaceOf(q, x) # p
  <2>1. Announced(q, x)' = Announced(q, x)
    BY <1>b, <1>d, AnnouncedElsewhere
  <2>2. PlaceOf(q, x) # p
    BY <1>a, <1>c, <1>d, PlaceFacts
  <2> QED  BY <2>1, <2>2
<1>e. Announced(r, s) = {}
  BY <1>b DEF Announced, FillingPC
<1>i. ASSUME NEW q, NEW x, q = r, x = s
      PROVE  b \in Announced(q, x)'
  <2>1. \A u \in Thread : pc'[u] \in FillingPC /\ HomeOf[u] = r /\ slot[u] = s => FALSE
    <3>1. \A u \in Thread : u # t => pc'[u] = pc[u]
      BY <1>b DEF Inv, TypeOK
    <3>2. pc'[t] = "read"
      BY <1>b DEF Inv, TypeOK
    <3> QED  BY <1>b, <3>1, <3>2, FillerAlone DEF FillingPC
  <2> QED  BY <1>a, <1>b, <1>i, <2>1 DEF Announced
<1>f. ASSUME NEW q \in Rank, NEW x \in Slots, NEW c \in Block
      PROVE  InOrder(requests[q][DictRankOf[c]], c, PlaceOf(q, x), Listed(dictionary[c]), Announced(q, x))
  BY DEF Inv, DictInv, DictionaryToldInOrder
<1>g. dictionary \in [Block -> DictEntry] /\ \A c \in Block : IsList(dictionary[c])
  BY DEF Inv, TypeOK, DictInv, EntriesLists
<1> HIDE DEF r, s, b, p, home
<1>h. ASSUME NEW q \in Rank, NEW x \in Slots
      PROVE  Announced(q, x) \subseteq Announced(q, x)'
  <2>1. CASE q = r /\ x = s
    BY <1>e, <2>1
  <2>2. CASE ~(q = r /\ x = s)
    BY <1>d, <2>2
  <2> QED  BY <2>1, <2>2
<1>1. CASE home = r
  <2>1. dictionary' = [dictionary EXCEPT ![b] = Updated(dictionary[b], p)] /\ UNCHANGED requests
    BY <1>1 DEF EndTransfer, home, r, b, p
  <2>a. \A kind \in {"add", "delete"} : Told(requests[r][DictRankOf[b]], kind, b, p) = {}
    BY <1>1, <1>a, NothingTold DEF home
  <2>b. p \notin Listed(dictionary[b])
    <3>1. InOrder(requests[r][DictRankOf[b]], b, p, Listed(dictionary[b]), Announced(r, s))
      BY <1>a, <1>f
    <3> QED  BY <1>e, <2>a, <3>1 DEF InOrder
  <2>2. /\ Updated(dictionary[b], p) \in DictEntry /\ IsList(Updated(dictionary[b], p))
        /\ Listed(Updated(dictionary[b], p)) \subseteq Listed(dictionary[b]) \cup {p}
    BY <1>a, <1>c, <1>g, <2>b, UpdatedFacts
  <2>3. \A c \in Block :
           dictionary'[c] = IF c = b THEN Updated(dictionary[b], p) ELSE dictionary[c]
    BY <1>g, <2>1
  <2>4. EntriesLists' /\ dictionary' \in [Block -> DictEntry]
    BY <1>g, <2>1, <2>2, <2>3 DEF EntriesLists
  <2>5. PlacesToldByOwner'
    BY <1>b, <2>1, SizeKept DEF Inv, DictInv, PlacesToldByOwner
  <2>6. DictionaryToldInOrder'
    <3> SUFFICES ASSUME NEW q \in Rank, NEW x \in Slots, NEW c \in Block
                 PROVE  InOrder(requests[q][DictRankOf[c]], c, PlaceOf(q, x),
                                Listed(dictionary'[c]), Announced(q, x)')
      BY <1>c, <2>1 DEF DictionaryToldInOrder
    <3>1. CASE q = r /\ x = s /\ c = b
      <4>1. Told(requests[q][DictRankOf[c]], "add", c, PlaceOf(q, x)) = {}
        BY <1>a, <2>a, <3>1
      <4> QED  BY <1>i, <3>1, <4>1 DEF InOrder
    <3>2. CASE ~(q = r /\ x = s /\ c = b)
      <4>1. PlaceOf(q, x) \in Listed(dictionary'[c]) => PlaceOf(q, x) \in Listed(dictionary[c])
        BY <1>d, <2>2, <2>3, <3>2
      <4> QED  BY <1>f, <1>h, <3>2, <4>1, LessListed
    <3> QED  BY <3>1, <3>2
  <2> QED  BY <2>4, <2>5, <2>6 DEF DictInv
<1>2. CASE home # r
  <2> DEFINE m == Message("add", b, p)
  <2>1. Sent(r, home, m) /\ UNCHANGED dictionary
    BY <1>2 DEF EndTransfer, Send, Sent, Message, home, r, b, p
  <2>2. m \in Request /\ m.kind = "add" /\ m.block = b /\ m.place = p
    BY <1>a DEF Request, Message
  <2>a. \A q \in Rank, c \in Block : requests[q][DictRankOf[c]] \in Seq(Request) /\ DictRankOf[c] \in Rank
    BY QueueFacts, CacheDistThreadAssumption
  <2> HIDE DEF m
  <2>4. EntriesLists' /\ dictionary' \in [Block -> DictEntry]
    BY <1>g, <2>1 DEF EntriesLists, Inv, DictInv
  <2>b. ToldByOwner(r, home, m) /\ cacheSize' = cacheSize
    BY <1>a, <1>b, <1>2, <2>2 DEF home, ToldByOwner
  <2>3. SentOne(r, home, m)
    BY <1>a, <2>1, SentFacts
  <2>5. PlacesToldByOwner'
    BY <1>a, <2>2, <2>3, <2>b, ToldAppend
  <2>6. DictionaryToldInOrder'
    <3> SUFFICES ASSUME NEW q \in Rank, NEW x \in Slots, NEW c \in Block
                 PROVE  InOrder(requests'[q][DictRankOf[c]], c, PlaceOf(q, x),
                                Listed(dictionary[c]), Announced(q, x)')
      BY <1>c, <2>1 DEF DictionaryToldInOrder
    <3>1. CASE q = r /\ x = s /\ c = b
      <4>1. b \notin Announced(r, s)
        BY <1>e
      <4>2. Message("add", b, p) \in Request
        BY <2>2 DEF m
      <4>3. InOrder(requests[r][DictRankOf[b]], b, p, Listed(dictionary[b]), Announced(r, s))
        BY <1>a, <1>f
      <4>5. b \in Announced(q, x)'
        BY <1>i, <3>1
      <4>4. InOrder(Append(requests[r][DictRankOf[b]], Message("add", b, p)), b, p,
                    Listed(dictionary[b]), Announced(q, x)')
        BY <1>a, <2>a, <4>1, <4>2, <4>3, <4>5, AppendAdd
      <4> QED  BY <1>a, <2>3, <3>1, <4>4 DEF home, m, SentOne
    <3>2. CASE ~(q = r /\ x = s /\ c = b)
      <4>1. InOrder(requests[q][DictRankOf[c]], c, PlaceOf(q, x), Listed(dictionary[c]), Announced(q, x)')
        BY <1>f, <1>h, <3>2, LessListed
      <4>2. q = r => m # Message("add", c, PlaceOf(q, x)) /\ m # Message("delete", c, PlaceOf(q, x))
        BY <1>d, <2>2, <3>2 DEF Message
      <4> QED  BY <2>2, <2>3, <2>a, <4>1, <4>2, AppendOther DEF SentOne
    <3> QED  BY <3>1, <3>2
  <2> QED  BY <2>4, <2>5, <2>6 DEF DictInv
<1> QED  BY <1>1, <1>2

(* Adder::recv and Deleter::recv                                           *)
LEMMA ServeAddDict ==
  ASSUME Inv, NEW from \in Rank, NEW r \in Rank, ServeAdd(r, from)
  PROVE  DictInv' /\ dictionary' \in [Block -> DictEntry]
<1> DEFINE m == Head(requests[from][r])
           b == m.block
           p == m.place
<1>a. /\ requests[from][r] # <<>> /\ m.kind = "add"
      /\ requests' = [requests EXCEPT ![from][r] = Tail(@)]
      /\ dictionary' = [dictionary EXCEPT ![b] = Updated(dictionary[b], p)]
      /\ UNCHANGED <<cacheSize, data, pc, slot>>
  BY DEF ServeAdd, Receive, application, locals
<1>b. /\ b \in Block /\ p \in Places /\ m = Message("add", b, p)
      /\ from = RankOf(p) /\ r = DictRankOf[b] /\ requests[from][r] \in Seq(Request)
  <2>1. m \in Request /\ requests[from][r] \in Seq(Request) /\ m = requests[from][r][1]
        /\ 1 \in 1 .. Len(requests[from][r])
    BY <1>a, QueueFacts
  <2>2. from = RankOf(p) /\ r = DictRankOf[b]
    BY <1>a, <2>1 DEF Inv, DictInv, PlacesToldByOwner
  <2> QED  BY <1>a, <2>1, <2>2, RequestFacts
<1>c. SizeOK /\ Slots' = Slots /\ \A q, x : PlaceOf(q, x)' = PlaceOf(q, x)
  BY <1>a, SizeKept DEF SizeOK, Inv, TypeOK
<1>d. \A q, x : Announced(q, x)' = Announced(q, x)
  BY <1>a DEF Announced
<1>e. PICK s \in Slots : p = PlaceOf(from, s)
  BY <1>b, <1>c, PlacesFacts
<1>f. ASSUME NEW q \in Rank, NEW x \in Slots, NEW c \in Block
      PROVE  InOrder(requests[q][DictRankOf[c]], c, PlaceOf(q, x), Listed(dictionary[c]), Announced(q, x))
  BY DEF Inv, DictInv, DictionaryToldInOrder
<1>g. dictionary \in [Block -> DictEntry] /\ \A c \in Block : IsList(dictionary[c])
  BY DEF Inv, TypeOK, DictInv, EntriesLists
<1>h. /\ PlacesToldByOwner'
      /\ \A q, h \in Rank :
            requests'[q][h] = IF q = from /\ h = r THEN Tail(requests[q][h]) ELSE requests[q][h]
  BY <1>a, ToldTail
<1> HIDE DEF m, b, p
<1>i. Head(requests[from][r]) = Message("add", b, p)
  BY <1>b DEF m
<1>1. /\ p \notin Listed(dictionary[b])
      /\ \A after : InOrder(Tail(requests[from][r]), b, p, after, Announced(from, s))
  <2>1. InOrder(requests[from][r], b, p, Listed(dictionary[b]), Announced(from, s))
    BY <1>b, <1>e, <1>f
  <2> QED  BY <1>a, <1>b, <1>i, <2>1, TailAdd
<1>2. /\ Updated(dictionary[b], p) \in DictEntry /\ IsList(Updated(dictionary[b], p))
      /\ Listed(Updated(dictionary[b], p)) \subseteq Listed(dictionary[b]) \cup {p}
  BY <1>b, <1>c, <1>g, <1>1, UpdatedFacts
<1>3. \A c \in Block :
         dictionary'[c] = IF c = b THEN Updated(dictionary[b], p) ELSE dictionary[c]
  BY <1>a, <1>g
<1>4. EntriesLists' /\ dictionary' \in [Block -> DictEntry]
  BY <1>a, <1>g, <1>2, <1>3 DEF EntriesLists
<1>5. DictionaryToldInOrder'
  <2> SUFFICES ASSUME NEW q \in Rank, NEW x \in Slots, NEW c \in Block
               PROVE  InOrder(requests'[q][DictRankOf[c]], c, PlaceOf(q, x),
                              Listed(dictionary'[c]), Announced(q, x))
    BY <1>c, <1>d DEF DictionaryToldInOrder
  <2>1. CASE q = from /\ x = s /\ c = b
    BY <1>b, <1>e, <1>h, <1>1, <2>1, ZenonT(60)
  <2>2. CASE ~(q = from /\ x = s /\ c = b)
    <3>1. ~(PlaceOf(q, x) = p /\ c = b)
      BY <1>c, <1>e, <2>2, PlaceFacts
    <3>2. PlaceOf(q, x) \in Listed(dictionary'[c]) => PlaceOf(q, x) \in Listed(dictionary[c])
      BY <1>2, <1>3, <3>1
    <3>3. InOrder(requests[q][DictRankOf[c]], c, PlaceOf(q, x), Listed(dictionary'[c]), Announced(q, x))
      BY <1>f, <3>2, LessListed
    <3>4. /\ Message("add", b, p) # Message("add", c, PlaceOf(q, x))
          /\ Message("add", b, p) # Message("delete", c, PlaceOf(q, x))
      <4>1. /\ Message("add", b, p).block = b /\ Message("add", b, p).place = p
            /\ Message("add", b, p).kind = "add"
            /\ Message("add", c, PlaceOf(q, x)).block = c
            /\ Message("add", c, PlaceOf(q, x)).place = PlaceOf(q, x)
            /\ Message("delete", c, PlaceOf(q, x)).kind = "delete"
        BY DEF Message
      <4> QED  BY <3>1, <4>1
    <3>5. DictRankOf[c] \in Rank
      BY CacheDistThreadAssumption
    <3>6. q = from /\ DictRankOf[c] = r =>
             InOrder(Tail(requests[q][DictRankOf[c]]), c, PlaceOf(q, x), Listed(dictionary'[c]), Announced(q, x))
      BY <1>a, <1>b, <1>i, <3>3, <3>4, TailOther
    <3> QED  BY <1>h, <3>3, <3>5, <3>6
  <2> QED  BY <2>1, <2>2
<1> QED  BY <1>h, <1>4, <1>5 DEF DictInv

LEMMA ServeDeleteDict ==
  ASSUME Inv, NEW from \in Rank, NEW r \in Rank, ServeDelete(r, from)
  PROVE  DictInv' /\ dictionary' \in [Block -> DictEntry]
<1> DEFINE m == Head(requests[from][r])
           b == m.block
           p == m.place
<1>a. /\ requests[from][r] # <<>> /\ m.kind = "delete"
      /\ requests' = [requests EXCEPT ![from][r] = Tail(@)]
      /\ dictionary' = [dictionary EXCEPT ![b] = Deleted(dictionary[b], p)]
      /\ UNCHANGED <<cacheSize, data, pc, slot>>
  BY DEF ServeDelete, Receive, application, locals
<1>b. /\ b \in Block /\ p \in Places /\ m = Message("delete", b, p)
      /\ from = RankOf(p) /\ r = DictRankOf[b] /\ requests[from][r] \in Seq(Request)
  <2>1. m \in Request /\ requests[from][r] \in Seq(Request) /\ m = requests[from][r][1]
        /\ 1 \in 1 .. Len(requests[from][r])
    BY <1>a, QueueFacts
  <2>2. from = RankOf(p) /\ r = DictRankOf[b]
    BY <1>a, <2>1 DEF Inv, DictInv, PlacesToldByOwner
  <2> QED  BY <1>a, <2>1, <2>2, RequestFacts
<1>c. SizeOK /\ Slots' = Slots /\ \A q, x : PlaceOf(q, x)' = PlaceOf(q, x)
  BY <1>a, SizeKept DEF SizeOK, Inv, TypeOK
<1>d. \A q, x : Announced(q, x)' = Announced(q, x)
  BY <1>a DEF Announced
<1>e. PICK s \in Slots : p = PlaceOf(from, s)
  BY <1>b, <1>c, PlacesFacts
<1>f. ASSUME NEW q \in Rank, NEW x \in Slots, NEW c \in Block
      PROVE  InOrder(requests[q][DictRankOf[c]], c, PlaceOf(q, x), Listed(dictionary[c]), Announced(q, x))
  BY DEF Inv, DictInv, DictionaryToldInOrder
<1>g. dictionary \in [Block -> DictEntry] /\ \A c \in Block : IsList(dictionary[c])
  BY DEF Inv, TypeOK, DictInv, EntriesLists
<1>h. /\ PlacesToldByOwner'
      /\ \A q, h \in Rank :
            requests'[q][h] = IF q = from /\ h = r THEN Tail(requests[q][h]) ELSE requests[q][h]
  BY <1>a, ToldTail
<1> HIDE DEF m, b, p
<1>i. Head(requests[from][r]) = Message("delete", b, p)
  BY <1>b DEF m
<1>1. ASSUME NEW after, p \notin after
      PROVE  InOrder(Tail(requests[from][r]), b, p, after, Announced(from, s))
  <2>1. InOrder(requests[from][r], b, p, Listed(dictionary[b]), Announced(from, s))
    BY <1>b, <1>e, <1>f
  <2> QED  BY <1>a, <1>b, <1>i, <1>1, <2>1, TailDelete
<1>2. /\ Deleted(dictionary[b], p) \in DictEntry /\ IsList(Deleted(dictionary[b], p))
      /\ Listed(Deleted(dictionary[b], p)) \subseteq Listed(dictionary[b]) \ {p}
  BY <1>b, <1>c, <1>g, DeletedFacts
<1>3. \A c \in Block :
         dictionary'[c] = IF c = b THEN Deleted(dictionary[b], p) ELSE dictionary[c]
  BY <1>a, <1>g
<1>4. EntriesLists' /\ dictionary' \in [Block -> DictEntry]
  BY <1>a, <1>g, <1>2, <1>3 DEF EntriesLists
<1>5. DictionaryToldInOrder'
  <2> SUFFICES ASSUME NEW q \in Rank, NEW x \in Slots, NEW c \in Block
               PROVE  InOrder(requests'[q][DictRankOf[c]], c, PlaceOf(q, x),
                              Listed(dictionary'[c]), Announced(q, x))
    BY <1>c, <1>d DEF DictionaryToldInOrder
  <2>1. CASE q = from /\ x = s /\ c = b
    <3>1. p \notin Listed(dictionary'[b])
      BY <1>2, <1>3, <1>b
    <3>2. InOrder(Tail(requests[from][r]), b, p, Listed(dictionary'[b]), Announced(from, s))
      BY <1>1, <3>1
    <3> QED  BY <1>b, <1>e, <1>h, <2>1, <3>2
  <2>2. CASE ~(q = from /\ x = s /\ c = b)
    <3>1. ~(PlaceOf(q, x) = p /\ c = b)
      BY <1>c, <1>e, <2>2, PlaceFacts
    <3>2. PlaceOf(q, x) \in Listed(dictionary'[c]) => PlaceOf(q, x) \in Listed(dictionary[c])
      BY <1>2, <1>3, <3>1
    <3>3. InOrder(requests[q][DictRankOf[c]], c, PlaceOf(q, x), Listed(dictionary'[c]), Announced(q, x))
      BY <1>f, <3>2, LessListed
    <3>4. /\ Message("delete", b, p) # Message("add", c, PlaceOf(q, x))
          /\ Message("delete", b, p) # Message("delete", c, PlaceOf(q, x))
      <4>1. /\ Message("delete", b, p).block = b /\ Message("delete", b, p).place = p
            /\ Message("delete", b, p).kind = "delete"
            /\ Message("delete", c, PlaceOf(q, x)).block = c
            /\ Message("delete", c, PlaceOf(q, x)).place = PlaceOf(q, x)
            /\ Message("add", c, PlaceOf(q, x)).kind = "add"
        BY DEF Message
      <4> QED  BY <3>1, <4>1
    <3>5. DictRankOf[c] \in Rank
      BY CacheDistThreadAssumption
    <3>6. q = from /\ DictRankOf[c] = r =>
             InOrder(Tail(requests[q][DictRankOf[c]]), c, PlaceOf(q, x), Listed(dictionary'[c]), Announced(q, x))
      BY <1>a, <1>b, <1>i, <3>3, <3>4, TailOther
    <3> QED  BY <1>h, <3>3, <3>5, <3>6
  <2> QED  BY <2>1, <2>2
<1> QED  BY <1>h, <1>4, <1>5 DEF DictInv

-----------------------------------------------------------------------------
(* The slots and the threads.  Every lemma also says what becomes of the   *)
(* blocks that have been announced.                                        *)
AnnouncedStay == \A r \in Rank, s \in Slots : Announced(r, s) \subseteq Announced(r, s)'

LEMMA CallCache ==
  ASSUME Inv, NEW t \in Thread, NEW b \in Block, Call(t, b)
  PROVE  CacheInv' /\ AnnouncedStay
<1>c. /\ pc[t] = "idle"
      /\ pc' = [pc EXCEPT ![t] = "get"]
      /\ want' = [want EXCEPT ![t] = b]
      /\ UNCHANGED <<cacheSize, stored, cacheMutex, blockMutex, data, sending, slot, old>>
  BY DEF Call, Goto, manager, network
<1>d. /\ \A u \in Thread : u # t => pc'[u] = pc[u] /\ want'[u] = want[u]
      /\ pc'[t] = "get" /\ want'[t] = b
  BY <1>c DEF Inv, TypeOK
<1>s. Slots' = Slots
  BY <1>c, SizeKept
<1>a. \A r \in Rank, s \in Slots : Condemned(r, s)' <=> Condemned(r, s)
  BY <1>c, <1>d DEF Condemned
<1>b. \A r \in Rank, s \in Slots : BeingFilled(r, s)' <=> BeingFilled(r, s)
  BY <1>c, <1>d DEF BeingFilled, FillingPC
<1>2. MutexesOwned'
  <2>1. \A u \in Thread : \A q \in Rank, x \in Slots : OwnsSlot(u, q, x)' <=> OwnsSlot(u, q, x)
    BY <1>c, <1>d DEF OwnsSlot, FillingPC
  <2> QED  BY <1>c, <1>d, <1>s, <2>1 DEF Inv, CacheInv, MutexesOwned
<1>3. CallsWant'
  BY <1>c, <1>d DEF Inv, CacheInv, CallsWant
<1>4. WaitersEntered'
  BY <1>c, <1>d DEF Inv, CacheInv, WaitersEntered
<1>5. FillersEntered'
  BY <1>a, <1>c, <1>d, ThreadFacts DEF Inv, CacheInv, FillersEntered, FillingPC
<1>6. RestingTruthful'
  BY <1>a, <1>b, <1>c, <1>s DEF Inv, CacheInv, RestingTruthful
<1>7. OldKnown'
  BY <1>b, <1>c, <1>d, ThreadFacts DEF Inv, CacheInv, OldKnown, FillingPC
<1>8. AnnouncedStay
  BY <1>c, <1>d DEF Announced, AnnouncedStay, FillingPC
<1>9. FilledAtEnd' /\ ReadsRequestedBlock'
  BY <1>c, <1>d DEF Inv, CacheInv, FilledAtEnd, ReadsRequestedBlock
<1> QED  BY <1>2, <1>3, <1>4, <1>5, <1>6, <1>7, <1>8, <1>9 DEF CacheInv

LEMMA GetCache ==
  ASSUME Inv, NEW t \in Thread, NEW s \in Slots, Get(t, s)
  PROVE  CacheInv' /\ AnnouncedStay
<1> DEFINE r == HomeOf[t]
<1>a. r \in Rank /\ want[t] \in Block
  BY ThreadFacts DEF Get
<1>b. \A u \in Thread : HomeOf[u] = r => pc[u] # "lock"
  BY <1>a, CacheDistThreadAssumption DEF Get, Inv, CacheInv, MutexesOwned
<1>c. /\ pc[t] = "get"
      /\ pc' = [pc EXCEPT ![t] = "lock"]
      /\ stored' = [stored EXCEPT ![r][s] = want[t]]
      /\ slot' = [slot EXCEPT ![t] = s]
      /\ old' = [old EXCEPT ![t] = stored[r][s]]
      /\ cacheMutex' = [cacheMutex EXCEPT ![r] = t]
      /\ UNCHANGED <<cacheSize, blockMutex, data, sending, want>>
  BY DEF Get, Goto, application, network
<1>d. \A x \in Slots : ~Condemned(r, x)
  BY <1>b DEF Condemned
<1>i. /\ \A u \in Thread : u # t => pc'[u] = pc[u] /\ slot'[u] = slot[u] /\ old'[u] = old[u]
      /\ pc'[t] = "lock" /\ slot'[t] = s /\ old'[t] = stored[r][s]
  BY <1>c DEF Inv, TypeOK
<1>e. \A q \in Rank, x \in Slots :
          Condemned(q, x)' <=> \/ Condemned(q, x)
                               \/ q = r /\ x = s /\ stored[r][s] # want[t]
  BY <1>b, <1>c, <1>i DEF Condemned
<1>f. \A q \in Rank, x \in Slots : BeingFilled(q, x)' <=> BeingFilled(q, x)
  BY <1>c, <1>i DEF BeingFilled, FillingPC
<1>s. Slots' = Slots
  BY <1>c, SizeKept
<1> HIDE DEF r
<1>g. \A q \in Rank, x \in Slots :
         stored'[q][x] = IF q = r /\ x = s THEN want[t] ELSE stored[q][x]
  BY <1>a, <1>c DEF Inv, TypeOK
<1>2. MutexesOwned'
  <2>1. \A u \in Thread : \A q \in Rank, x \in Slots : OwnsSlot(u, q, x)' <=> OwnsSlot(u, q, x)
    BY <1>c, <1>i DEF OwnsSlot, FillingPC
  <2>2. \A u \in Thread : \A q \in Rank : cacheMutex'[q] = u <=> pc'[u] = "lock" /\ HomeOf[u] = q
    BY <1>a, <1>b, <1>c, <1>i DEF Inv, TypeOK, CacheInv, MutexesOwned, r
  <2> QED  BY <1>c, <1>s, <2>1, <2>2 DEF Inv, CacheInv, MutexesOwned
<1>3. CallsWant'
  BY <1>a, <1>c, <1>i DEF Inv, CacheInv, CallsWant
<1>4. WaitersEntered'
  BY <1>a, <1>b, <1>c, <1>g, <1>i, ThreadFacts DEF Inv, CacheInv, WaitersEntered, r
<1>5. FillersEntered'
  <2> SUFFICES ASSUME NEW u \in Thread, pc'[u] \in FillingPC, ~Condemned(HomeOf[u], slot[u])'
               PROVE  stored'[HomeOf[u]][slot'[u]] = want'[u]
    BY DEF FillersEntered
  <2>1. u # t /\ pc[u] \in FillingPC /\ slot'[u] = slot[u] /\ want'[u] = want[u]
    BY <1>c, <1>i DEF FillingPC
  <2>2. HomeOf[u] \in Rank /\ slot[u] \in Slots
    BY ThreadFacts
  <2>3. ~Condemned(HomeOf[u], slot[u])
    BY <1>e, <2>1, <2>2 DEF Condemned
  <2>4. stored[HomeOf[u]][slot[u]] = want[u]
    BY <2>1, <2>3 DEF Inv, CacheInv, FillersEntered
  <2>5. HomeOf[u] = r /\ slot[u] = s => stored[r][s] = want[t]
    BY <1>e, <2>1, <2>2 DEF Condemned
  <2> QED  BY <1>g, <2>1, <2>2, <2>4, <2>5
<1>6. RestingTruthful'
  BY <1>a, <1>c, <1>e, <1>f, <1>g, <1>s DEF Inv, CacheInv, RestingTruthful
<1>7. OldKnown'
  <2>1. ASSUME NEW u \in Thread, pc'[u] = "lock", old'[u] # want'[u]
        PROVE  /\ ~BeingFilled(HomeOf[u], slot[u])' => data'[HomeOf[u]][slot'[u]] = old'[u]
               /\ \A v \in Thread :
                     pc'[v] \in FillingPC /\ HomeOf[v] = HomeOf[u] /\ slot'[v] = slot'[u]
                         => want'[v] = old'[u]
    <3>1. CASE u = t
      <4>2. ~BeingFilled(r, s) => data[r][s] = stored[r][s]
        BY <1>a, <1>d DEF Inv, CacheInv, RestingTruthful
      <4>3. ~BeingFilled(HomeOf[u], slot[u])' => data'[r][s] = stored[r][s]
        BY <1>c, <1>i, <3>1, <4>2 DEF BeingFilled, r, FillingPC
      <4>4. ASSUME NEW v \in Thread, pc'[v] \in FillingPC, HomeOf[v] = r, slot'[v] = s
            PROVE  want'[v] = stored[r][s]
        <5>1. v # t /\ pc[v] \in FillingPC /\ slot[v] = s /\ want'[v] = want[v]
          BY <1>c, <1>i, <4>4 DEF FillingPC
        <5> QED  BY <1>a, <1>d, <4>4, <5>1 DEF Inv, CacheInv, FillersEntered
      <4> QED  BY <1>i, <3>1, <4>3, <4>4 DEF r
    <3>2. CASE u # t
      <4>1. pc[u] = "lock" /\ old[u] # want[u] /\ slot'[u] = slot[u] /\ old'[u] = old[u]
        BY <1>c, <1>i, <2>1, <3>2
      <4>2. ~BeingFilled(HomeOf[u], slot[u])' => ~BeingFilled(HomeOf[u], slot[u])
        BY <1>c, <1>i, <4>1 DEF BeingFilled, FillingPC
      <4>3. \A v \in Thread : pc'[v] \in FillingPC =>
               pc[v] \in FillingPC /\ slot'[v] = slot[v] /\ want'[v] = want[v]
        BY <1>c, <1>i DEF FillingPC
      <4> QED  BY <1>c, <4>1, <4>2, <4>3 DEF Inv, CacheInv, OldKnown
    <3> QED  BY <3>1, <3>2
  <2>2. \A u \in Thread : pc'[u] = "delete" =>
              old'[u] \in Block /\ data'[HomeOf[u]][slot'[u]] = old'[u]
    BY <1>c, <1>i DEF Inv, CacheInv, OldKnown
  <2> QED  BY <2>1, <2>2 DEF OldKnown
<1>8. AnnouncedStay
  BY <1>c, <1>i DEF Announced, AnnouncedStay, FillingPC
<1>9. FilledAtEnd' /\ ReadsRequestedBlock'
  BY <1>c, <1>i DEF Inv, CacheInv, FilledAtEnd, ReadsRequestedBlock
<1> QED  BY <1>2, <1>3, <1>4, <1>5, <1>6, <1>7, <1>8, <1>9 DEF CacheInv

LEMMA LockSlotCache ==
  ASSUME Inv, NEW t \in Thread, LockSlot(t)
  PROVE  CacheInv' /\ AnnouncedStay
<1> DEFINE r == HomeOf[t]
           s == slot[t]
<1>a. r \in Rank /\ s \in Slots /\ want[t] \in Block
  BY ThreadFacts DEF LockSlot
<1>b. \A u \in Thread : HomeOf[u] = r /\ slot[u] = s => pc[u] \notin FillingPC \cup {"read"}
  BY <1>a, CacheDistThreadAssumption DEF LockSlot, Inv, CacheInv, MutexesOwned, OwnsSlot
<1>c. PICK L \in {"read", "start", "delete"} :
      /\ pc[t] = "lock"
      /\ pc' = [pc EXCEPT ![t] = L]
      /\ L = "read" => old[t] = want[t]
      /\ L = "start" => old[t] = Absent
      /\ L = "delete" => old[t] \in Block \ {want[t]}
      /\ blockMutex[r][s] = NoThread
      /\ blockMutex' = [blockMutex EXCEPT ![r][s] = t]
      /\ cacheMutex' = [cacheMutex EXCEPT ![r] = NoThread]
      /\ UNCHANGED <<cacheSize, stored, data, sending, want, slot, old>>
  BY DEF LockSlot, Goto, application, network, locals
<1>d. \A u \in Thread : u # t /\ HomeOf[u] = r => pc[u] # "lock"
  BY <1>c, OneWaiter
<1>i. \A u \in Thread : u # t => pc'[u] = pc[u]
  BY <1>c DEF Inv, TypeOK
<1>j. pc'[t] = L
  BY <1>c DEF Inv, TypeOK
<1>e. \A q \in Rank, x \in Slots :
          /\ Condemned(q, x) <=> IF q = r THEN x = s /\ old[t] # want[t] ELSE Condemned(q, x)'
          /\ ~Condemned(r, x)'
  BY <1>c, <1>d, <1>i, <1>j DEF Condemned
<1>f. \A q \in Rank, x \in Slots :
          BeingFilled(q, x)' <=> BeingFilled(q, x) \/ (q = r /\ x = s /\ L # "read")
  BY <1>c, <1>i, <1>j DEF BeingFilled, FillingPC
<1>g. ~BeingFilled(r, s)
  BY <1>b DEF BeingFilled
<1>h. /\ old[t] # want[t] => data[r][s] = old[t]
      /\ old[t] = want[t] => data[r][s] = want[t]
  <2>1. old[t] # want[t] => data[r][s] = old[t]
    BY <1>c, <1>g DEF Inv, CacheInv, OldKnown
  <2>2. old[t] = want[t] => data[r][s] = stored[r][s]
    BY <1>a, <1>e, <1>g DEF Inv, CacheInv, RestingTruthful
  <2>3. stored[r][s] = want[t]
    BY <1>c DEF Inv, CacheInv, WaitersEntered
  <2> QED  BY <2>1, <2>2, <2>3
<1>s. Slots' = Slots
  BY <1>c, SizeKept
<1> HIDE DEF r, s
<1>2. MutexesOwned'
  <2>m. /\ \A q \in Rank, x \in Slots :
              blockMutex'[q][x] = IF q = r /\ x = s THEN t ELSE blockMutex[q][x]
        /\ \A q \in Rank : cacheMutex'[q] = IF q = r THEN NoThread ELSE cacheMutex[q]
    BY <1>a, <1>c DEF Inv, TypeOK
  <2>1. \A u \in Thread : \A q \in Rank : cacheMutex'[q] = u <=> pc'[u] = "lock" /\ HomeOf[u] = q
    BY <1>a, <1>c, <1>d, <1>i, <1>j, <2>m, CacheDistThreadAssumption DEF Inv, CacheInv, MutexesOwned, r
  <2>2. ASSUME NEW u \in Thread, NEW q \in Rank, NEW x \in Slots
        PROVE  blockMutex'[q][x] = u <=> OwnsSlot(u, q, x)'
    <3>2. OwnsSlot(u, q, x)' <=> IF u = t THEN q = r /\ x = s ELSE OwnsSlot(u, q, x)
      BY <1>c, <1>i, <1>j DEF OwnsSlot, FillingPC, r, s
    <3>3. ~OwnsSlot(t, q, x)
      BY <1>c DEF OwnsSlot, FillingPC
    <3>4. q = r /\ x = s => ~OwnsSlot(u, q, x)
      BY <1>b DEF OwnsSlot
    <3>5. blockMutex[q][x] = u <=> OwnsSlot(u, q, x)
      BY DEF Inv, CacheInv, MutexesOwned
    <3>6. blockMutex[q][x] = t <=> OwnsSlot(t, q, x)
      BY DEF Inv, CacheInv, MutexesOwned
    <3> QED  BY <2>m, <3>2, <3>3, <3>4, <3>5, <3>6
  <2>3. \A q \in Rank, x \in Slots : blockMutex'[q][x] = CommThread <=> sending'[q] = x
    BY <1>c, <2>m, CacheDistThreadAssumption DEF Inv, CacheInv, MutexesOwned
  <2> QED  BY <1>s, <2>1, <2>2, <2>3 DEF MutexesOwned
<1>3. CallsWant'
  BY <1>c, <1>i DEF Inv, CacheInv, CallsWant
<1>4. WaitersEntered'
  BY <1>c, <1>i, <1>j DEF Inv, CacheInv, WaitersEntered
<1>5. FillersEntered'
  <2> SUFFICES ASSUME NEW u \in Thread, pc'[u] \in FillingPC, ~Condemned(HomeOf[u], slot[u])'
               PROVE  stored[HomeOf[u]][slot[u]] = want[u]
    BY <1>c DEF FillersEntered
  <2>1. CASE u = t
    BY <1>c, <2>1 DEF Inv, CacheInv, WaitersEntered
  <2>2. CASE u # t
    <3>1. pc[u] \in FillingPC /\ HomeOf[u] \in Rank /\ slot[u] \in Slots
      BY <1>i, <2>2, ThreadFacts
    <3>2. ~(HomeOf[u] = r /\ slot[u] = s)
      BY <1>b, <3>1
    <3>3. ~Condemned(HomeOf[u], slot[u])
      BY <1>c, <1>e, <3>1, <3>2 DEF Condemned
    <3> QED  BY <3>1, <3>3 DEF Inv, CacheInv, FillersEntered
  <2> QED  BY <2>1, <2>2
<1>6. RestingTruthful'
  <2> SUFFICES ASSUME NEW q \in Rank, NEW x \in Slots,
                      ~BeingFilled(q, x)', ~Condemned(q, x)'
               PROVE  data[q][x] = stored[q][x]
    BY <1>c, <1>s DEF RestingTruthful
  <2>1. CASE q = r /\ x = s
    BY <1>a, <1>c, <1>e, <1>f, <1>g, <2>1 DEF Inv, CacheInv, RestingTruthful
  <2>2. CASE ~(q = r /\ x = s)
    BY <1>e, <1>f, <2>2 DEF Inv, CacheInv, RestingTruthful
  <2> QED  BY <2>1, <2>2
<1>7. OldKnown'
  <2>1. ASSUME NEW u \in Thread, pc'[u] = "lock", old[u] # want[u]
        PROVE  /\ ~BeingFilled(HomeOf[u], slot[u])' => data[HomeOf[u]][slot[u]] = old[u]
               /\ \A v \in Thread :
                     pc'[v] \in FillingPC /\ HomeOf[v] = HomeOf[u] /\ slot[v] = slot[u]
                         => want[v] = old[u]
    <3>1. u # t /\ pc[u] = "lock" /\ HomeOf[u] # r
      BY <1>d, <1>i, <1>j, <2>1
    <3>2. BeingFilled(HomeOf[u], slot[u])' <=> BeingFilled(HomeOf[u], slot[u])
      BY <1>c, <1>i, <3>1 DEF BeingFilled, r
    <3>3. \A v \in Thread : HomeOf[v] = HomeOf[u] => pc'[v] = pc[v]
      BY <1>i, <3>1 DEF r
    <3> QED  BY <2>1, <3>1, <3>2, <3>3 DEF Inv, CacheInv, OldKnown
  <2>2. \A u \in Thread : pc'[u] = "delete" =>
              old[u] \in Block /\ data[HomeOf[u]][slot[u]] = old[u]
    BY <1>c, <1>h, <1>i, <1>j DEF Inv, CacheInv, OldKnown, r, s
  <2> QED  BY <1>c, <2>1, <2>2 DEF OldKnown
<1>8. AnnouncedStay
  <2> SUFFICES ASSUME NEW q \in Rank, NEW x \in Slots, NEW b \in Announced(q, x)
               PROVE  b \in Announced(q, x)'
    BY DEF AnnouncedStay
  <2>0. b \in Block /\ data[q][x] = b
    BY DEF Announced
  <2>1. CASE q = r /\ x = s
    <3>2. L # "start"
      BY <1>a, <1>c, <1>h, <2>0, <2>1, CacheDistThreadAssumption
    <3>3. \A u \in Thread : pc'[u] \in FillingPC /\ HomeOf[u] = r /\ slot[u] = s => pc'[u] = "delete"
      BY <1>b, <1>i, <1>j, <3>2 DEF FillingPC
    <3> QED  BY <1>c, <2>0, <2>1, <3>3 DEF Announced
  <2>2. CASE ~(q = r /\ x = s)
    <3>2. \A u \in Thread : HomeOf[u] = q /\ slot[u] = x => pc'[u] = pc[u]
      BY <1>i, <2>2 DEF r, s
    <3> QED  BY <1>c, <3>2 DEF Announced
  <2> QED  BY <2>1, <2>2
<1>9. FilledAtEnd'
  BY <1>c, <1>i, <1>j DEF Inv, CacheInv, FilledAtEnd
<1>10. ReadsRequestedBlock'
  BY <1>c, <1>h, <1>i, <1>j DEF Inv, CacheInv, ReadsRequestedBlock, r, s
<1> QED  BY <1>2, <1>3, <1>4, <1>5, <1>6, <1>7, <1>8, <1>9, <1>10 DEF CacheInv

(* A thread that fills its slot goes on.                                   *)
OtherSlotsKept(t) ==
    \A q \in Rank, x \in Slots : ~(q = HomeOf[t] /\ x = slot[t]) => data'[q][x] = data[q][x]

LEMMA MoveCache ==
  ASSUME Inv, NEW t \in Thread, NEW M \in FillingPC \ {"delete"},
         pc[t] \in FillingPC, pc' = [pc EXCEPT ![t] = M],
         UNCHANGED <<cacheSize, stored, cacheMutex, blockMutex, sending, want, slot, old>>,
         OtherSlotsKept(t), M = "end" => data'[HomeOf[t]][slot[t]] = want[t]
  PROVE  CacheInv' /\ (pc[t] # "delete" => AnnouncedStay)
<1> DEFINE r == HomeOf[t]
           s == slot[t]
<1>a. r \in Rank /\ s \in Slots
  BY ThreadFacts
<1>d. /\ \A u \in Thread : u # t => pc'[u] = pc[u]
      /\ pc'[t] = M
  BY DEF Inv, TypeOK
<1>e. \A q \in Rank, x \in Slots : Condemned(q, x)' <=> Condemned(q, x)
  BY <1>d DEF Condemned, FillingPC
<1>f. \A q \in Rank, x \in Slots : BeingFilled(q, x)' <=> BeingFilled(q, x)
  BY <1>d DEF BeingFilled, FillingPC
<1>g. \A u \in Thread : pc[u] \in FillingPC \cup {"read"} /\ HomeOf[u] = r /\ slot[u] = s => u = t
  BY FillerAlone
<1>h. BeingFilled(r, s)
  BY DEF BeingFilled
<1>l. \A q \in Rank, x \in Slots : ~(q = r /\ x = s) => data'[q][x] = data[q][x]
  BY DEF OtherSlotsKept
<1>m. \A u \in Thread : /\ pc'[u] = "lock" <=> pc[u] = "lock"
                        /\ pc'[u] \in FillingPC <=> pc[u] \in FillingPC
                        /\ pc'[u] = "delete" => pc[u] = "delete" /\ u # t
                        /\ HomeOf[u] \in Rank /\ slot[u] \in Slots
  BY <1>d, ThreadFacts DEF FillingPC
<1>o. \A u \in Thread : BeingFilled(HomeOf[u], slot[u])' <=> BeingFilled(HomeOf[u], slot[u])
  BY <1>m DEF BeingFilled
<1>s. Slots' = Slots
  BY SizeKept
<1> HIDE DEF r, s
<1>2. MutexesOwned'
  <2>1. \A u \in Thread : \A q \in Rank, x \in Slots : OwnsSlot(u, q, x)' <=> OwnsSlot(u, q, x)
    BY <1>d DEF OwnsSlot, FillingPC
  <2> QED  BY <1>m, <1>s, <2>1 DEF Inv, CacheInv, MutexesOwned
<1>3. CallsWant'
  BY <1>d DEF Inv, CacheInv, CallsWant, FillingPC
<1>4. WaitersEntered'
  BY <1>m DEF Inv, CacheInv, WaitersEntered
<1>5. FillersEntered'
  BY <1>e, <1>m DEF Inv, CacheInv, FillersEntered
<1>6. RestingTruthful'
  BY <1>e, <1>f, <1>h, <1>l, <1>s DEF Inv, CacheInv, RestingTruthful
<1>7. OldKnown'
  <2>1. ASSUME NEW u \in Thread, pc[u] = "lock", old[u] # want[u]
        PROVE  ~BeingFilled(HomeOf[u], slot[u])' => data'[HomeOf[u]][slot[u]] = old[u]
    BY <1>h, <1>l, <1>m, <1>o, <2>1 DEF Inv, CacheInv, OldKnown
  <2>2. ASSUME NEW u \in Thread, pc'[u] = "delete"
        PROVE  old[u] \in Block /\ data'[HomeOf[u]][slot[u]] = old[u]
    <3>1. ~(HomeOf[u] = r /\ slot[u] = s)
      BY <1>g, <1>m, <2>2 DEF FillingPC
    <3> QED  BY <1>l, <1>m, <2>2, <3>1 DEF Inv, CacheInv, OldKnown
  <2> QED  BY <1>m, <2>1, <2>2 DEF Inv, CacheInv, OldKnown
<1>8. pc[t] # "delete" => AnnouncedStay
  <2> SUFFICES ASSUME pc[t] # "delete", NEW q \in Rank, NEW x \in Slots, NEW b \in Announced(q, x)
               PROVE  b \in Announced(q, x)'
    BY DEF AnnouncedStay
  <2>1. ~(q = r /\ x = s)
    BY DEF Announced, r, s
  <2>2. \A u \in Thread : HomeOf[u] = q /\ slot[u] = x => pc'[u] = pc[u]
    BY <1>d, <2>1 DEF r, s
  <2> QED  BY <1>l, <2>1, <2>2 DEF Announced
<1>9. FilledAtEnd' /\ ReadsRequestedBlock'
  <2>1. M = "end" => data'[HomeOf[t]][slot[t]] = want[t]
    OBVIOUS
  <2>2. ASSUME NEW u \in Thread, u # t, pc'[u] \in {"end", "read"}
        PROVE  data'[HomeOf[u]][slot[u]] = want[u]
    <3>1. pc[u] \in {"end", "read"} /\ pc[u] = pc'[u]
      BY <1>d, <2>2
    <3>2. ~(HomeOf[u] = r /\ slot[u] = s)
      BY <1>g, <2>2, <3>1 DEF FillingPC
    <3>3. data[HomeOf[u]][slot[u]] = want[u]
      BY <3>1 DEF Inv, CacheInv, FilledAtEnd, ReadsRequestedBlock
    <3> QED  BY <1>l, <1>m, <3>2, <3>3
  <2> QED  BY <1>d, <2>1, <2>2 DEF FilledAtEnd, ReadsRequestedBlock, FillingPC
<1> QED  BY <1>2, <1>3, <1>4, <1>5, <1>6, <1>7, <1>8, <1>9 DEF CacheInv

LEMMA EndTransferCache ==
  ASSUME Inv, NEW t \in Thread, EndTransfer(t)
  PROVE  CacheInv'
<1> DEFINE r == HomeOf[t]
           s == slot[t]
           b == want[t]
<1>a. r \in Rank /\ s \in Slots /\ b \in Block
  BY ThreadFacts DEF EndTransfer
<1>b. /\ pc[t] = "end"
      /\ pc' = [pc EXCEPT ![t] = "read"]
      /\ UNCHANGED <<cacheSize, stored, cacheMutex, blockMutex, data, sending, want, slot, old>>
  BY DEF EndTransfer, Goto, application, manager, locals
<1>d. /\ \A u \in Thread : u # t => pc'[u] = pc[u]
      /\ pc'[t] = "read"
  BY <1>b DEF Inv, TypeOK
<1>e. \A q \in Rank, x \in Slots : Condemned(q, x)' <=> Condemned(q, x)
  BY <1>b, <1>d DEF Condemned
<1>g. \A u \in Thread : pc[u] \in FillingPC /\ HomeOf[u] = r /\ slot[u] = s => u = t
  BY <1>b, FillerAlone DEF FillingPC
<1>f. \A q \in Rank, x \in Slots :
          BeingFilled(q, x)' <=> BeingFilled(q, x) /\ ~(q = r /\ x = s)
  BY <1>b, <1>d, <1>g DEF BeingFilled, FillingPC
<1>h. data[r][s] = b
  BY <1>b DEF Inv, CacheInv, FilledAtEnd
<1>m. \A u \in Thread : /\ pc'[u] = "lock" <=> pc[u] = "lock"
                        /\ pc'[u] \in FillingPC => pc[u] \in FillingPC
                        /\ pc'[u] = "delete" <=> pc[u] = "delete"
                        /\ HomeOf[u] \in Rank /\ slot[u] \in Slots
  BY <1>b, <1>d, ThreadFacts DEF FillingPC
<1>s. Slots' = Slots
  BY <1>b, SizeKept
<1> HIDE DEF r, s, b
<1>2. MutexesOwned'
  <2>1. \A u \in Thread : \A q \in Rank, x \in Slots : OwnsSlot(u, q, x)' <=> OwnsSlot(u, q, x)
    BY <1>b, <1>d DEF OwnsSlot, FillingPC
  <2> QED  BY <1>b, <1>m, <1>s, <2>1 DEF Inv, CacheInv, MutexesOwned
<1>3. CallsWant'
  BY <1>b, <1>d DEF Inv, CacheInv, CallsWant
<1>4. WaitersEntered'
  BY <1>b, <1>m DEF Inv, CacheInv, WaitersEntered
<1>5. FillersEntered'
  BY <1>b, <1>e, <1>m DEF Inv, CacheInv, FillersEntered
<1>6. RestingTruthful'
  <2>1. ~Condemned(r, s) => data[r][s] = stored[r][s]
    BY <1>b, <1>h DEF Inv, CacheInv, FillersEntered, FillingPC, r, s, b
  <2> QED  BY <1>b, <1>e, <1>f, <1>s, <2>1 DEF Inv, CacheInv, RestingTruthful
<1>7. OldKnown'
  <2>1. ASSUME NEW u \in Thread, pc[u] = "lock", old[u] # want[u]
        PROVE  ~BeingFilled(HomeOf[u], slot[u])' => data[HomeOf[u]][slot[u]] = old[u]
    <3>1. CASE HomeOf[u] = r /\ slot[u] = s
      <4>1. b = old[u]
        BY <1>b, <2>1, <3>1 DEF Inv, CacheInv, OldKnown, FillingPC, r, s, b
      <4> QED  BY <1>h, <3>1, <4>1
    <3>2. CASE ~(HomeOf[u] = r /\ slot[u] = s)
      <4>1. BeingFilled(HomeOf[u], slot[u])' <=> BeingFilled(HomeOf[u], slot[u])
        BY <1>b, <1>d, <3>2 DEF BeingFilled, r, s
      <4> QED  BY <2>1, <4>1 DEF Inv, CacheInv, OldKnown
    <3> QED  BY <3>1, <3>2
  <2> QED  BY <1>b, <1>m, <2>1 DEF Inv, CacheInv, OldKnown
<1>8. FilledAtEnd'
  BY <1>b, <1>d DEF Inv, CacheInv, FilledAtEnd
<1>9. ReadsRequestedBlock'
  BY <1>b, <1>d, <1>h DEF Inv, CacheInv, ReadsRequestedBlock, r, s, b
<1> QED  BY <1>2, <1>3, <1>4, <1>5, <1>6, <1>7, <1>8, <1>9 DEF CacheInv

LEMMA ReturnCache ==
  ASSUME Inv, NEW t \in Thread, Return(t)
  PROVE  CacheInv' /\ AnnouncedStay
<1> DEFINE r == HomeOf[t]
           s == slot[t]
<1>a. r \in Rank /\ s \in Slots
  BY ThreadFacts
<1>b. /\ pc[t] = "read"
      /\ pc' = [pc EXCEPT ![t] = "idle"]
      /\ blockMutex' = [blockMutex EXCEPT ![r][s] = NoThread]
      /\ want' = [want EXCEPT ![t] = Absent]
      /\ slot' = [slot EXCEPT ![t] = 0]
      /\ old' = [old EXCEPT ![t] = Absent]
      /\ UNCHANGED <<cacheSize, stored, cacheMutex, data, sending>>
  BY DEF Return, Goto, application, network
<1>d. /\ \A u \in Thread : u # t =>
            /\ pc'[u] = pc[u] /\ want'[u] = want[u] /\ slot'[u] = slot[u]
            /\ old'[u] = old[u]
      /\ pc'[t] = "idle"
  BY <1>b DEF Inv, TypeOK
<1>e. \A q \in Rank, x \in Slots : Condemned(q, x)' <=> Condemned(q, x)
  BY <1>b, <1>d DEF Condemned
<1>f. \A q \in Rank, x \in Slots : BeingFilled(q, x)' <=> BeingFilled(q, x)
  BY <1>b, <1>d DEF BeingFilled, FillingPC
<1>s. Slots' = Slots
  BY <1>b, SizeKept
<1> HIDE DEF r, s
<1>2. MutexesOwned'
  <2>1. \A u \in Thread : \A q \in Rank : cacheMutex'[q] = u <=> pc'[u] = "lock" /\ HomeOf[u] = q
    BY <1>b, <1>d DEF Inv, CacheInv, MutexesOwned
  <2>0. \A q \in Rank, x \in Slots :
           blockMutex'[q][x] = IF q = r /\ x = s THEN NoThread ELSE blockMutex[q][x]
    BY <1>a, <1>b DEF Inv, TypeOK
  <2>t. blockMutex[r][s] = t
    BY <1>a, <1>b DEF Inv, CacheInv, MutexesOwned, OwnsSlot, r, s
  <2>2. ASSUME NEW u \in Thread, NEW q \in Rank, NEW x \in Slots
        PROVE  blockMutex'[q][x] = u <=> OwnsSlot(u, q, x)'
    <3>2. blockMutex[q][x] = u <=> OwnsSlot(u, q, x)
      BY DEF Inv, CacheInv, MutexesOwned
    <3>4. CASE u = t
      <4>1. ~OwnsSlot(u, q, x)'
        BY <1>d, <3>4 DEF OwnsSlot, FillingPC
      <4>2. OwnsSlot(u, q, x) => q = r /\ x = s
        BY <3>4 DEF OwnsSlot, r, s
      <4> QED  BY <2>0, <3>2, <4>1, <4>2, CacheDistThreadAssumption
    <3>5. CASE u # t
      <4>1. OwnsSlot(u, q, x)' <=> OwnsSlot(u, q, x)
        BY <1>d, <3>5 DEF OwnsSlot
      <4> QED  BY <2>0, <2>t, <3>2, <3>5, <4>1, CacheDistThreadAssumption
    <3> QED  BY <3>4, <3>5
  <2>3. \A q \in Rank, x \in Slots : blockMutex'[q][x] = CommThread <=> sending'[q] = x
    BY <1>b, <2>0, <2>t, CacheDistThreadAssumption DEF Inv, CacheInv, MutexesOwned
  <2> QED  BY <1>s, <2>1, <2>2, <2>3 DEF MutexesOwned
<1>3. CallsWant'
  BY <1>d DEF Inv, CacheInv, CallsWant
<1>4. WaitersEntered'
  BY <1>b, <1>d DEF Inv, CacheInv, WaitersEntered
<1>5. FillersEntered'
  <2> SUFFICES ASSUME NEW u \in Thread, pc'[u] \in FillingPC, ~Condemned(HomeOf[u], slot[u])'
               PROVE  stored[HomeOf[u]][slot'[u]] = want'[u]
    BY <1>b DEF FillersEntered
  <2>1. u # t
    BY <1>d DEF FillingPC
  <2>2. ~Condemned(HomeOf[u], slot[u])
    BY <1>b, <1>d, <2>1 DEF Condemned
  <2> QED  BY <1>d, <2>1, <2>2 DEF Inv, CacheInv, FillersEntered
<1>6. RestingTruthful'
  BY <1>b, <1>e, <1>f, <1>s DEF Inv, CacheInv, RestingTruthful
<1>7. OldKnown'
  <2>1. ASSUME NEW u \in Thread, u # t
        PROVE  BeingFilled(HomeOf[u], slot[u])' <=> BeingFilled(HomeOf[u], slot[u])
    BY <1>b, <1>d, <2>1 DEF BeingFilled, FillingPC
  <2>2. \A u \in Thread : pc'[u] \in FillingPC \cup {"lock"} => u # t
    BY <1>d DEF FillingPC
  <2>3. \A u \in Thread : pc'[u] = "delete" => u # t
    BY <1>d
  <2> QED  BY <1>b, <1>d, <2>1, <2>2, <2>3 DEF Inv, CacheInv, OldKnown
<1>8. AnnouncedStay
  BY <1>b, <1>d DEF Announced, AnnouncedStay, FillingPC
<1>9. FilledAtEnd' /\ ReadsRequestedBlock'
  BY <1>b, <1>d DEF Inv, CacheInv, FilledAtEnd, ReadsRequestedBlock
<1> QED  BY <1>2, <1>3, <1>4, <1>5, <1>6, <1>7, <1>8, <1>9 DEF CacheInv

(* The communication threads do not disturb the threads.                   *)
LEMMA QuietCache ==
  ASSUME Inv, UNCHANGED <<cacheSize, stored, cacheMutex, data, pc, want, slot, old>>,
         MutexesOwned'
  PROVE  CacheInv' /\ AnnouncedStay
<1>e. \A q, x : Condemned(q, x)' <=> Condemned(q, x)
  BY DEF Condemned
<1>f. \A q, x : BeingFilled(q, x)' <=> BeingFilled(q, x)
  BY DEF BeingFilled
<1>o. \A u \in Thread : /\ BeingFilled(HomeOf[u], slot[u])' <=> BeingFilled(HomeOf[u], slot[u])
                        /\ Condemned(HomeOf[u], slot[u])' <=> Condemned(HomeOf[u], slot[u])
  BY DEF BeingFilled, Condemned
<1>s. Slots' = Slots
  BY SizeKept
<1>1. CallsWant' /\ WaitersEntered' /\ FilledAtEnd' /\ ReadsRequestedBlock'
  BY DEF Inv, CacheInv, CallsWant, WaitersEntered, FilledAtEnd, ReadsRequestedBlock
<1>2. FillersEntered'
  BY <1>o DEF Inv, CacheInv, FillersEntered
<1>3. RestingTruthful'
  BY <1>e, <1>f, <1>s DEF Inv, CacheInv, RestingTruthful
<1>4. OldKnown'
  BY <1>o DEF Inv, CacheInv, OldKnown
<1>5. AnnouncedStay
  BY DEF AnnouncedStay, Announced
<1> QED  BY <1>1, <1>2, <1>3, <1>4, <1>5 DEF CacheInv

-----------------------------------------------------------------------------
(* Questions for a block and their answers.                                *)
SameWaiters ==
    \A u \in Thread :
        /\ pc'[u] = "reply" <=> pc[u] = "reply"
        /\ pc[u] = "reply" => want'[u] = want[u] /\ source'[u] = source[u]
        /\ pc'[u] = "ask" => source'[u] \in Places

(* The questions in a queue, n messages later.                             *)
Shifted(r, q, n) ==
    \A i \in 1 .. Len(requests'[r][q]) :
        requests'[r][q][i].kind = "transfer" =>
            /\ i + n \in 1 .. Len(requests[r][q])
            /\ requests[r][q][i + n] = requests'[r][q][i]

NoNewQuestions == \A r, q \in Rank : \E n \in Nat : Shifted(r, q, n)

LEMMA SentKeeps ==
  ASSUME Inv, NEW from \in Rank, NEW to \in Rank, NEW m, m \in Request, m.kind # "transfer",
         Sent(from, to, m)
  PROVE  NoNewQuestions
<1> SUFFICES ASSUME NEW r \in Rank, NEW q \in Rank
             PROVE  Shifted(r, q, 0)
  BY DEF NoNewQuestions
<1>1. SentOne(from, to, m)
  BY SentFacts
<1>2. requests[r][q] \in Seq(Request)
  BY QueueFacts
<1>3. CASE r = from /\ q = to
  <2>1. requests'[r][q] = Append(requests[r][q], m)
    BY <1>1, <1>3 DEF SentOne
  <2>2. \A i \in 1 .. Len(requests'[r][q]) :
           IF i = Len(requests[r][q]) + 1
           THEN requests'[r][q][i] = m
           ELSE i \in 1 .. Len(requests[r][q]) /\ requests'[r][q][i] = requests[r][q][i]
    BY <1>2, <2>1
  <2> QED  BY <2>2 DEF Shifted
<1>4. CASE ~(r = from /\ q = to)
  BY <1>1, <1>2, <1>4 DEF SentOne, Shifted
<1> QED  BY <1>3, <1>4

LEMMA TakenKeeps ==
  ASSUME Inv, NEW from \in Rank, NEW to \in Rank, requests[from][to] # <<>>,
         requests' = [requests EXCEPT ![from][to] = Tail(@)]
  PROVE  NoNewQuestions
<1> SUFFICES ASSUME NEW r \in Rank, NEW q \in Rank
             PROVE  \E n \in Nat : Shifted(r, q, n)
  BY DEF NoNewQuestions
<1>1. requests'[r][q] = IF r = from /\ q = to THEN Tail(requests[r][q]) ELSE requests[r][q]
  BY DEF Inv, TypeOK
<1>2. requests[r][q] \in Seq(Request)
  BY QueueFacts
<1>3. CASE r = from /\ q = to
  <2>2. \A i \in 1 .. Len(Tail(requests[r][q])) :
           i + 1 \in 1 .. Len(requests[r][q]) /\ Tail(requests[r][q])[i] = requests[r][q][i + 1]
    BY <1>3, QueueFacts
  <2>1. Shifted(r, q, 1)
    BY <1>1, <1>3, <2>2, ZenonT(60) DEF Shifted
  <2> QED  BY <2>1
<1>4. CASE ~(r = from /\ q = to)
  <2>1. Shifted(r, q, 0)
    BY <1>1, <1>2, <1>4 DEF Shifted
  <2> QED  BY <2>1
<1> QED  BY <1>3, <1>4

LEMMA UnchangedKeeps ==
  ASSUME Inv, requests' = requests
  PROVE  NoNewQuestions
<1> SUFFICES ASSUME NEW r \in Rank, NEW q \in Rank
             PROVE  Shifted(r, q, 0)
  BY DEF NoNewQuestions
<1> QED  BY QueueFacts DEF Shifted

(* A step that neither asks for a block nor answers or receives one.       *)
LEMMA OthersStay ==
  ASSUME Inv, UNCHANGED <<cacheSize, transferMutex>>, SameWaiters, NoNewQuestions,
         \A r \in Rank : BlockReplies(r)' = BlockReplies(r), AnswersPlaces'
  PROVE  TransferInv'
<1>s. Places' = Places
  BY SizeKept
<1>1. AskersAlone'
  BY DEF SameWaiters, AskersAlone, Inv, TransferInv
<1>2. SourcesPlaces'
  BY <1>s DEF SameWaiters, SourcesPlaces, Inv, TransferInv
<1>3. \A u \in Thread : \A r, q, b : Waits(u, r, q, b) => Waits(u, r, q, b)'
  BY DEF Waits, SameWaiters, RankOf
<1>4. OneBlockAsked'
  <2> SUFFICES ASSUME NEW r \in Rank, NEW q \in Rank, NEW i \in 1 .. Len(requests'[r][q]),
                      requests'[r][q][i].kind = "transfer"
               PROVE  /\ \E b : b = requests'[r][q][i].block /\ \E t \in Thread : Waits(t, r, q, b)'
                      /\ BlockReplies(r)' = {}
                      /\ \A p \in Rank : \A j \in 1 .. Len(requests'[r][p]) :
                            requests'[r][p][j].kind = "transfer" => p = q /\ j = i
    BY DEF OneBlockAsked, Waits
  <2>1. PICK n \in Nat : Shifted(r, q, n)
    BY DEF NoNewQuestions
  <2>2. i + n \in 1 .. Len(requests[r][q]) /\ requests[r][q][i + n] = requests'[r][q][i]
    BY <2>1 DEF Shifted
  <2>3. PICK k \in 1 .. Len(requests[r][q]) : k = i + n
    BY <2>2
  <2>4. requests[r][q][k].kind = "transfer" /\ requests[r][q][k] = requests'[r][q][i]
    BY <2>2, <2>3
  <2>5. /\ \E t \in Thread : Waits(t, r, q, requests[r][q][k].block)
        /\ BlockReplies(r) = {}
        /\ \A p \in Rank : \A j \in 1 .. Len(requests[r][p]) :
              requests[r][p][j].kind = "transfer" => p = q /\ j = k
    BY <2>4 DEF Inv, TransferInv, OneBlockAsked
  <2>6. \E t \in Thread : Waits(t, r, q, requests[r][q][k].block)
    BY <2>5
  <2>8. \E b : b = requests'[r][q][i].block /\ \E t \in Thread : Waits(t, r, q, b)'
    <3>1. PICK b : b = requests[r][q][k].block
      OBVIOUS
    <3> QED  BY <1>3, <2>4, <2>6, <3>1
  <2>7. ASSUME NEW p \in Rank, NEW j \in 1 .. Len(requests'[r][p]),
               requests'[r][p][j].kind = "transfer"
        PROVE  p = q /\ j = i
    <3>1. PICK l \in Nat : Shifted(r, p, l)
      BY DEF NoNewQuestions
    <3>2. j + l \in 1 .. Len(requests[r][p]) /\ requests[r][p][j + l].kind = "transfer"
      BY <2>7, <3>1 DEF Shifted
    <3>3. p = q
      BY <2>5, <3>2
    <3>4. j + n \in 1 .. Len(requests[r][p]) /\ requests[r][p][j + n].kind = "transfer"
      BY <2>1, <2>7, <3>3 DEF Shifted
    <3>5. j + n = i + n
      BY <2>3, <2>5, <3>4
    <3> QED  BY <3>3, <3>5
  <2> QED  BY <2>5, <2>7, <2>8
<1>5. OneBlockAnswered'
  <2> SUFFICES ASSUME NEW r \in Rank, NEW m \in BlockReplies(r)
               PROVE  /\ BlockReplies(r)' = {m}
                      /\ \E t \in Thread : \E b \in Block :
                            Waits(t, r, m.from, b)' /\ (m.tag = TagOffset + TransferTag => m.value = b)
    BY DEF OneBlockAnswered
  <2> QED  BY <1>3 DEF Inv, TransferInv, OneBlockAnswered
<1> QED  BY <1>1, <1>2, <1>4, <1>5 DEF TransferInv

(* The answer somebody else still waits for.                               *)
LEMMA RepliesFacts ==
  ASSUME Inv, NEW r \in Rank, NEW t \in Thread, pc[t] = "reply", HomeOf[t] = r
  PROVE  /\ transferMutex[r] = t
         /\ \A u \in Thread : pc[u] = "reply" /\ HomeOf[u] = r => u = t
BY DEF Inv, TransferInv, AskersAlone

(* A rank without such a thread has no question or answer under way.       *)
LEMMA NobodyAsks ==
  ASSUME Inv, NEW r \in Rank, \A u \in Thread : ~(pc[u] = "reply" /\ HomeOf[u] = r)
  PROVE  /\ BlockReplies(r) = {}
         /\ \A p \in Rank : \A j \in 1 .. Len(requests[r][p]) : requests[r][p][j].kind # "transfer"
BY DEF Inv, TransferInv, OneBlockAsked, OneBlockAnswered, Waits

LEMMA AskBlockTransfer ==
  ASSUME Inv, NEW t \in Thread, AskBlock(t)
  PROVE  TransferInv'
<1> DEFINE r == HomeOf[t]
           to == RankOf(source[t])
           m == [kind |-> "transfer", block |-> want[t]]
<1>a. r \in Rank /\ want[t] \in Block /\ source[t] \in Places /\ SizeOK
  BY ThreadFacts DEF AskBlock, Inv, TransferInv, SourcesPlaces, TypeOK, SizeOK
<1>b. /\ pc[t] = "ask" /\ pc' = [pc EXCEPT ![t] = "reply"]
      /\ transferMutex[r] = NoThread /\ transferMutex' = [transferMutex EXCEPT ![r] = t]
      /\ Sent(r, to, m)
      /\ UNCHANGED <<cacheSize, replies, want, source>>
  BY DEF AskBlock, Goto, Send, Sent, application, locals
<1>c. to \in Rank /\ m.kind = "transfer" /\ m.block = want[t]
  BY <1>a, PlacesFacts
<1> HIDE DEF to, m
<1>d. SentOne(r, to, m)
  BY <1>a, <1>b, <1>c, SentFacts
<1>e. \A u \in Thread : ~(pc[u] = "reply" /\ HomeOf[u] = r)
  BY <1>a, <1>b, CacheDistThreadAssumption DEF Inv, TransferInv, AskersAlone
<1>f. /\ \A u \in Thread : u # t => pc'[u] = pc[u]
      /\ pc'[t] = "reply"
      /\ \A q \in Rank : transferMutex'[q] = IF q = r THEN t ELSE transferMutex[q]
  BY <1>a, <1>b DEF Inv, TypeOK
<1>g. /\ BlockReplies(r) = {}
      /\ \A p \in Rank : \A j \in 1 .. Len(requests[r][p]) : requests[r][p][j].kind # "transfer"
  BY <1>a, <1>e, NobodyAsks
<1>h. \A q : BlockReplies(q)' = BlockReplies(q)
  BY <1>b DEF BlockReplies
<1>i. \A u \in Thread : \A p, q, b : Waits(u, p, q, b) => Waits(u, p, q, b)'
  BY <1>b, <1>f DEF Waits, RankOf
<1>j. Waits(t, r, to, want[t])'
  BY <1>b, <1>f DEF Waits, RankOf, to, r
<1>s. Places' = Places
  BY <1>b, SizeKept
<1>1. AskersAlone'
  <2> SUFFICES ASSUME NEW q \in Rank, NEW u \in Thread
               PROVE  transferMutex'[q] = u <=> pc'[u] = "reply" /\ HomeOf[u] = q
    BY DEF AskersAlone
  <2>1. transferMutex[q] = u <=> pc[u] = "reply" /\ HomeOf[u] = q
    BY DEF Inv, TransferInv, AskersAlone
  <2>2. HomeOf[t] = r
    OBVIOUS
  <2> QED  BY <1>b, <1>e, <1>f, <2>1, <2>2
<1>2. SourcesPlaces' /\ AnswersPlaces'
  BY <1>a, <1>b, <1>f, <1>s DEF Inv, TransferInv, SourcesPlaces, AnswersPlaces, Unused
<1>3. OneBlockAsked'
  <2> SUFFICES ASSUME NEW q \in Rank, NEW p \in Rank, NEW i \in 1 .. Len(requests'[q][p]),
                      requests'[q][p][i].kind = "transfer",
                      NEW b, b = requests'[q][p][i].block
               PROVE  /\ \E u \in Thread : Waits(u, q, p, b)'
                      /\ BlockReplies(q)' = {}
                      /\ \A o \in Rank : \A j \in 1 .. Len(requests'[q][o]) :
                            requests'[q][o][j].kind = "transfer" => o = p /\ j = i
    BY DEF OneBlockAsked, Waits
  <2>q. \A o \in Rank : requests[r][o] \in Seq(Request)
    BY <1>a, QueueFacts
  <2>1. CASE q = r
    <3>1. \A o \in Rank : \A j \in 1 .. Len(requests'[r][o]) :
             requests'[r][o][j].kind = "transfer" =>
                o = to /\ j = Len(requests[r][to]) + 1 /\ requests'[r][o][j] = m
      <4> SUFFICES ASSUME NEW o \in Rank, NEW j \in 1 .. Len(requests'[r][o]),
                          requests'[r][o][j].kind = "transfer"
                   PROVE  o = to /\ j = Len(requests[r][to]) + 1 /\ requests'[r][o][j] = m
        OBVIOUS
      <4>1. o = to
        <5> SUFFICES ASSUME o # to
                     PROVE  FALSE
          OBVIOUS
        <5>1. requests'[r][o] = requests[r][o]
          BY <1>a, <1>d DEF SentOne
        <5> QED  BY <1>g, <5>1
      <4>2. requests'[r][to] = Append(requests[r][to], m)
        BY <1>a, <1>c, <1>d DEF SentOne
      <4>3. requests[r][to] \in Seq(Request)
        BY <1>c, <2>q
      <4>4. j # Len(requests[r][to]) + 1 =>
               j \in 1 .. Len(requests[r][to]) /\ requests'[r][to][j] = requests[r][to][j]
        BY <4>1, <4>2, <4>3
      <4>5. j = Len(requests[r][to]) + 1 => requests'[r][to][j] = m
        BY <4>1, <4>2, <4>3
      <4> QED  BY <1>c, <1>g, <4>1, <4>4, <4>5
    <3>2. p = to /\ i = Len(requests[r][to]) + 1 /\ requests'[q][p][i] = m
      BY <2>1, <3>1
    <3>3. Waits(t, q, p, b)'
      <4>1. want[t] = b
        BY <1>c, <3>2
      <4> QED  BY <1>b, <1>f, <2>1, <3>2, <4>1 DEF Waits, RankOf, to, r
    <3> QED  BY <1>g, <1>h, <2>1, <3>1, <3>2, <3>3
  <2>2. CASE q # r
    <3>1. \A o \in Rank : requests'[q][o] = requests[q][o]
      BY <1>d, <2>2 DEF SentOne
    <3>2. /\ \E u \in Thread : Waits(u, q, p, requests[q][p][i].block)
          /\ BlockReplies(q) = {}
          /\ \A o \in Rank : \A j \in 1 .. Len(requests[q][o]) :
                requests[q][o][j].kind = "transfer" => o = p /\ j = i
      BY <3>1 DEF Inv, TransferInv, OneBlockAsked
    <3>3. requests[q][p][i].block = b
      BY <3>1
    <3>4. \E u \in Thread : Waits(u, q, p, b)'
      BY <1>i, <3>2, <3>3
    <3> QED  BY <1>h, <3>1, <3>2, <3>4
  <2> QED  BY <2>1, <2>2
<1>4. OneBlockAnswered'
  <2> SUFFICES ASSUME NEW q \in Rank, NEW x \in BlockReplies(q)
               PROVE  /\ BlockReplies(q)' = {x}
                      /\ \E u \in Thread : \E b \in Block :
                            Waits(u, q, x.from, b)' /\ (x.tag = TagOffset + TransferTag => x.value = b)
    BY <1>h DEF OneBlockAnswered
  <2> QED  BY <1>h, <1>i DEF Inv, TransferInv, OneBlockAnswered
<1> QED  BY <1>1, <1>2, <1>3, <1>4 DEF TransferInv

(* The answer that has arrived is the one the thread waits for.            *)
LEMMA AnswerFacts ==
  ASSUME Inv, NEW t \in Thread, pc[t] = "reply",
         NEW m, m \in replies[HomeOf[t]],
         m.tag = TagOffset + TransferTag \/ m.tag = TagOffset + TransferFailTag
  PROVE  /\ BlockReplies(HomeOf[t]) = {m}
         /\ m.tag = TagOffset + TransferTag => m.value = want[t]
<1>a. HomeOf[t] \in Rank
  BY ThreadFacts
<1>1. m \in BlockReplies(HomeOf[t])
  BY CacheDistThreadAssumption DEF BlockReplies, EntryTag, TransferTag, TransferFailTag
<1>2. /\ BlockReplies(HomeOf[t]) = {m}
      /\ \E u \in Thread : \E b \in Block :
            Waits(u, HomeOf[t], m.from, b) /\ (m.tag = TagOffset + TransferTag => m.value = b)
  BY <1>a, <1>1 DEF Inv, TransferInv, OneBlockAnswered
<1>3. \A u \in Thread : \A q, b : Waits(u, HomeOf[t], q, b) => u = t /\ want[t] = b
  BY <1>a, RepliesFacts DEF Waits
<1> QED  BY <1>2, <1>3

LEMMA ReceiveBlockTransfer ==
  ASSUME Inv, NEW t \in Thread, ReceiveBlock(t)
  PROVE  TransferInv'
<1> DEFINE r == HomeOf[t]
<1>a. r \in Rank
  BY ThreadFacts
<1>b. PICK m \in replies[r], M \in {"end", "start"} :
      /\ pc[t] = "reply" /\ pc' = [pc EXCEPT ![t] = M]
      /\ replies' = [replies EXCEPT ![r] = @ \ {m}]
      /\ m.tag = TagOffset + TransferTag \/ m.tag = TagOffset + TransferFailTag
      /\ transferMutex' = [transferMutex EXCEPT ![r] = NoThread]
      /\ UNCHANGED <<cacheSize, requests, want, source>>
  BY DEF ReceiveBlock, Goto, application, locals
<1>c. BlockReplies(r) = {m}
  BY <1>b, AnswerFacts
<1>d. \A u \in Thread : pc[u] = "reply" /\ HomeOf[u] = r => u = t
  BY <1>a, <1>b, RepliesFacts
<1> HIDE DEF r
<1>f. /\ \A u \in Thread : u # t => pc'[u] = pc[u]
      /\ pc'[t] = M
      /\ \A q \in Rank : /\ transferMutex'[q] = IF q = r THEN NoThread ELSE transferMutex[q]
                         /\ replies'[q] = IF q = r THEN replies[q] \ {m} ELSE replies[q]
  BY <1>a, <1>b DEF Inv, TypeOK
<1>g. \A p \in Rank : \A j \in 1 .. Len(requests[r][p]) : requests[r][p][j].kind # "transfer"
  BY <1>a, <1>c DEF Inv, TransferInv, OneBlockAsked
<1>h. \A q \in Rank : BlockReplies(q)' = IF q = r THEN {} ELSE BlockReplies(q)
  BY <1>c, <1>f DEF BlockReplies
<1>i. \A u \in Thread : \A p, q, b : p # r /\ Waits(u, p, q, b) => Waits(u, p, q, b)'
  BY <1>b, <1>f DEF Waits, RankOf, r
<1>s. Places' = Places
  BY <1>b, SizeKept
<1>1. AskersAlone'
  <2> SUFFICES ASSUME NEW q \in Rank, NEW u \in Thread
               PROVE  transferMutex'[q] = u <=> pc'[u] = "reply" /\ HomeOf[u] = q
    BY DEF AskersAlone
  <2>1. transferMutex[q] = u <=> pc[u] = "reply" /\ HomeOf[u] = q
    BY DEF Inv, TransferInv, AskersAlone
  <2>2. HomeOf[t] = r /\ NoThread # u
    BY CacheDistThreadAssumption DEF r
  <2> QED  BY <1>b, <1>d, <1>f, <2>1, <2>2
<1>2. SourcesPlaces' /\ AnswersPlaces'
  BY <1>b, <1>f, <1>s DEF Inv, TransferInv, SourcesPlaces, AnswersPlaces, Unused
<1>3. OneBlockAsked'
  <2> SUFFICES ASSUME NEW q \in Rank, NEW p \in Rank, NEW i \in 1 .. Len(requests[q][p]),
                      requests[q][p][i].kind = "transfer"
               PROVE  /\ \E b : b = requests[q][p][i].block /\ \E u \in Thread : Waits(u, q, p, b)'
                      /\ BlockReplies(q)' = {}
                      /\ \A o \in Rank : \A j \in 1 .. Len(requests[q][o]) :
                            requests[q][o][j].kind = "transfer" => o = p /\ j = i
    BY <1>b DEF OneBlockAsked, Waits
  <2>1. q # r
    BY <1>g
  <2>2. /\ \E u \in Thread : Waits(u, q, p, requests[q][p][i].block)
        /\ BlockReplies(q) = {}
        /\ \A o \in Rank : \A j \in 1 .. Len(requests[q][o]) :
              requests[q][o][j].kind = "transfer" => o = p /\ j = i
    BY DEF Inv, TransferInv, OneBlockAsked
  <2>3. PICK b : b = requests[q][p][i].block
    OBVIOUS
  <2>4. \E u \in Thread : Waits(u, q, p, b)'
    BY <1>i, <2>1, <2>2, <2>3
  <2> QED  BY <1>h, <2>1, <2>2, <2>3, <2>4
<1>4. OneBlockAnswered'
  <2> SUFFICES ASSUME NEW q \in Rank, NEW x \in BlockReplies(q)'
               PROVE  /\ BlockReplies(q)' = {x}
                      /\ \E u \in Thread : \E b \in Block :
                            Waits(u, q, x.from, b)' /\ (x.tag = TagOffset + TransferTag => x.value = b)
    BY DEF OneBlockAnswered
  <2>1. q # r /\ x \in BlockReplies(q) /\ BlockReplies(q)' = BlockReplies(q)
    BY <1>h
  <2> QED  BY <1>i, <2>1 DEF Inv, TransferInv, OneBlockAnswered
<1> QED  BY <1>1, <1>2, <1>3, <1>4 DEF TransferInv

(* A question is answered, with the block or without.                      *)
LEMMA AnswerTransfer ==
  ASSUME Inv, NEW r \in Rank, NEW from \in Rank, Receive(r, from, "transfer"),
         NEW tag \in {TransferTag, TransferFailTag}, NEW value, Answer(r, from, tag, value),
         tag = TransferTag => value = Head(requests[from][r]).block,
         UNCHANGED <<cacheSize, transferMutex, pc, want, source>>
  PROVE  TransferInv'
<1> DEFINE m == [from |-> r, tag |-> TagOffset + tag, value |-> value]
           b == Head(requests[from][r]).block
<1>a. /\ requests[from][r] # <<>> /\ Head(requests[from][r]).kind = "transfer"
      /\ requests' = [requests EXCEPT ![from][r] = Tail(@)]
      /\ replies' = [replies EXCEPT ![from] = @ \cup {m}]
  BY DEF Receive, Answer
<1>b. /\ 1 \in 1 .. Len(requests[from][r]) /\ Head(requests[from][r]) = requests[from][r][1]
      /\ b \in Block /\ requests[from][r] \in Seq(Request)
  BY <1>a, QueueFacts, RequestFacts
<1>c. /\ \E t \in Thread : Waits(t, from, r, b)
      /\ BlockReplies(from) = {}
      /\ \A p \in Rank : \A j \in 1 .. Len(requests[from][p]) :
            requests[from][p][j].kind = "transfer" => p = r /\ j = 1
  BY <1>a, <1>b DEF Inv, TransferInv, OneBlockAsked
<1>d. /\ m.from = r /\ m.tag = TagOffset + tag /\ m.value = value
      /\ m.tag # TagOffset + EntryTag
      /\ m.tag = TagOffset + TransferTag => m.value = b
  BY CacheDistThreadAssumption DEF TransferTag, TransferFailTag, EntryTag
<1> HIDE DEF m, b
<1>f. \A q, p \in Rank :
          /\ replies'[q] = IF q = from THEN replies[q] \cup {m} ELSE replies[q]
          /\ requests'[q][p] = IF q = from /\ p = r THEN Tail(requests[q][p]) ELSE requests[q][p]
  BY <1>a DEF Inv, TypeOK
<1>g. \A p \in Rank : \A j \in 1 .. Len(requests'[from][p]) : requests'[from][p][j].kind # "transfer"
  <2> SUFFICES ASSUME NEW p \in Rank, NEW j \in 1 .. Len(requests'[from][p])
               PROVE  requests'[from][p][j].kind # "transfer"
    OBVIOUS
  <2>1. CASE p # r
    BY <1>c, <1>f, <2>1
  <2>2. CASE p = r
    <3>0. \A k \in 1 .. Len(Tail(requests[from][r])) :
             k + 1 \in 1 .. Len(requests[from][r]) /\ Tail(requests[from][r])[k] = requests[from][r][k + 1]
      BY <1>a, QueueFacts
    <3>3. requests'[from][p] = Tail(requests[from][r])
      BY <1>f, <2>2
    <3>1. /\ j + 1 \in 1 .. Len(requests[from][r])
          /\ requests'[from][p][j] = requests[from][r][j + 1]
      BY <3>0, <3>3
    <3>2. j + 1 # 1
      OBVIOUS
    <3> QED  BY <1>c, <3>1, <3>2
  <2> QED  BY <2>1, <2>2
<1>e. m.tag # TagOffset + EntryTag
  BY <1>d
<1>k. \A q \in Rank : replies'[q] = IF q = from THEN replies[q] \cup {m} ELSE replies[q]
  BY <1>f
<1>h. \A q \in Rank : BlockReplies(q)' = IF q = from THEN {m} ELSE BlockReplies(q)
  BY <1>c, <1>e, <1>k DEF BlockReplies
<1>i. \A u \in Thread : \A p, q, c : Waits(u, p, q, c)' <=> Waits(u, p, q, c)
  BY DEF Waits, RankOf
<1>s. Places' = Places
  BY SizeKept
<1>1. AskersAlone' /\ SourcesPlaces'
  BY <1>s DEF Inv, TransferInv, AskersAlone, SourcesPlaces
<1>2. AnswersPlaces'
  BY <1>e, <1>k, <1>s DEF Inv, TransferInv, AnswersPlaces, Unused
<1>3. OneBlockAsked'
  <2> SUFFICES ASSUME NEW q \in Rank, NEW p \in Rank, NEW i \in 1 .. Len(requests'[q][p]),
                      requests'[q][p][i].kind = "transfer"
               PROVE  /\ \E c : c = requests'[q][p][i].block /\ \E u \in Thread : Waits(u, q, p, c)'
                      /\ BlockReplies(q)' = {}
                      /\ \A o \in Rank : \A j \in 1 .. Len(requests'[q][o]) :
                            requests'[q][o][j].kind = "transfer" => o = p /\ j = i
    BY DEF OneBlockAsked, Waits
  <2>1. q # from
    BY <1>g
  <2>2. \A o \in Rank : requests'[q][o] = requests[q][o]
    BY <1>f, <2>1
  <2>3. /\ \E u \in Thread : Waits(u, q, p, requests[q][p][i].block)
        /\ BlockReplies(q) = {}
        /\ \A o \in Rank : \A j \in 1 .. Len(requests[q][o]) :
              requests[q][o][j].kind = "transfer" => o = p /\ j = i
    BY <2>2 DEF Inv, TransferInv, OneBlockAsked
  <2>4. PICK c : c = requests[q][p][i].block
    OBVIOUS
  <2>5. \E u \in Thread : Waits(u, q, p, c)'
    BY <1>i, <2>3, <2>4
  <2> QED  BY <1>h, <2>1, <2>2, <2>3, <2>4, <2>5
<1>4. OneBlockAnswered'
  <2> SUFFICES ASSUME NEW q \in Rank, NEW x \in BlockReplies(q)'
               PROVE  /\ BlockReplies(q)' = {x}
                      /\ \E u \in Thread : \E c \in Block :
                            Waits(u, q, x.from, c)' /\ (x.tag = TagOffset + TransferTag => x.value = c)
    BY DEF OneBlockAnswered
  <2>1. CASE q = from
    <3>1. x = m
      BY <1>h, <2>1
    <3>2. q = from /\ x.from = r /\ (x.tag = TagOffset + TransferTag => x.value = b)
      BY <1>d, <2>1, <3>1
    <3>3. \E u \in Thread : Waits(u, q, x.from, b)
      BY <1>c, <3>2
    <3>c. PICK c \in Block : c = b
      BY <1>b
    <3>4. PICK u \in Thread : Waits(u, q, x.from, c)
      BY <3>3, <3>c
    <3>5. Waits(u, q, x.from, c)'
      BY <3>4 DEF Waits, RankOf
    <3>6. BlockReplies(q)' = {x}
      BY <1>h, <2>1, <3>1
    <3> QED  BY <3>2, <3>c, <3>5, <3>6
  <2>2. CASE q # from
    <3>1. x \in BlockReplies(q) /\ BlockReplies(q)' = BlockReplies(q)
      BY <1>h, <2>2
    <3> QED  BY <1>i, <3>1 DEF Inv, TransferInv, OneBlockAnswered
  <2> QED  BY <2>1, <2>2
<1> QED  BY <1>1, <1>2, <1>3, <1>4 DEF TransferInv

-----------------------------------------------------------------------------
(* Every action preserves the invariant.                                   *)
TypedThreads ==
    /\ program' = Anything \/ program' \in [Thread -> Seq(Block)]
    /\ pc' \in [Thread -> PC]
    /\ want' \in [Thread -> Block \cup {Absent}]
    /\ slot' \in [Thread -> Slots]
    /\ old' \in [Thread -> Block \cup {Absent}]
    /\ source' \in [Thread -> Places \cup {Unused}]

TypedSlots ==
    /\ stored' \in [Rank -> [Slots -> Block \cup {Absent}]]
    /\ cacheMutex' \in [Rank -> Thread \cup {NoThread}]
    /\ blockMutex' \in [Rank -> [Slots -> Thread \cup {CommThread, NoThread}]]
    /\ data' \in [Rank -> [Slots -> Block \cup {Absent, Torn}]]
    /\ sending' \in [Rank -> Slots \cup {Unused}]

TypedMessages ==
    /\ dictionary' \in [Block -> DictEntry]
    /\ infoMutex' \in [Rank -> Thread \cup {NoThread}]
    /\ transferMutex' \in [Rank -> Thread \cup {NoThread}]
    /\ requests' \in [Rank -> [Rank -> Seq(Request)]]
    /\ replies' \in [Rank -> SUBSET Reply]

LEMMA TypeParts ==
  ASSUME Inv, cacheSize' = cacheSize, TypedThreads, TypedSlots, TypedMessages
  PROVE  TypeOK'
<1>1. /\ Slots' = Slots /\ Places' = Places /\ DictEntry' = DictEntry
      /\ Request' = Request /\ Reply' = Reply
  BY SizeKept
<1>2. cacheSize' \in Nat \ {0}
  BY DEF Inv, TypeOK
<1> QED  BY <1>1, <1>2 DEF TypedThreads, TypedSlots, TypedMessages, TypeOK, Unused

LEMMA SentTyped ==
  ASSUME Inv, NEW from \in Rank, NEW to \in Rank, NEW m, m \in Request, Sent(from, to, m)
  PROVE  requests' \in [Rank -> [Rank -> Seq(Request)]]
<1>1. Append(requests[from][to], m) \in Seq(Request)
  BY QueueFacts
<1> QED  BY <1>1 DEF Inv, TypeOK, Sent

LEMMA TakenTyped ==
  ASSUME Inv, NEW from \in Rank, NEW to \in Rank, requests[from][to] # <<>>,
         requests' = [requests EXCEPT ![from][to] = Tail(@)]
  PROVE  requests' \in [Rank -> [Rank -> Seq(Request)]]
<1>1. Tail(requests[from][to]) \in Seq(Request)
  BY QueueFacts
<1> QED  BY <1>1 DEF Inv, TypeOK

LEMMA QuietTransfer ==
  ASSUME Inv, UNCHANGED <<cacheSize, transferMutex, replies>>, SameWaiters, NoNewQuestions
  PROVE  TransferInv'
<1>1. \A r \in Rank : BlockReplies(r)' = BlockReplies(r)
  BY DEF BlockReplies
<1>2. AnswersPlaces'
  BY SizeKept DEF Inv, TransferInv, AnswersPlaces, Unused
<1> QED  BY <1>1, <1>2, OthersStay

LEMMA FillKeeps ==
  ASSUME Inv, NEW t \in Thread, NEW v, v \in Block \cup {Absent, Torn}, Fill(t, v)
  PROVE  /\ OtherSlotsKept(t) /\ data'[HomeOf[t]][slot[t]] = v
         /\ data' \in [Rank -> [Slots -> Block \cup {Absent, Torn}]]
<1>1. HomeOf[t] \in Rank /\ slot[t] \in Slots
  BY ThreadFacts
<1> QED  BY <1>1 DEF Inv, TypeOK, Fill, OtherSlotsKept

LEMMA CallInv ==
  ASSUME Inv, NEW t \in Thread, NEW b \in Block, Call(t, b)
  PROVE  Inv'
<1>c. /\ pc[t] = "idle"
      /\ pc' = [pc EXCEPT ![t] = "get"]
      /\ want' = [want EXCEPT ![t] = b]
      /\ UNCHANGED <<cacheSize, stored, cacheMutex, blockMutex, data, dictionary, infoMutex,
                     transferMutex, requests, replies, sending, slot, old, source>>
  BY DEF Call, Goto, manager, library, network
<1>1. program' = Anything \/ program' \in [Thread -> Seq(Block)]
  <2>1. CASE UNCHANGED program
    BY <2>1 DEF Inv, TypeOK
  <2>2. CASE program # Anything /\ program[t] # <<>> /\ program' = [program EXCEPT ![t] = Tail(@)]
    <3>1. program \in [Thread -> Seq(Block)] /\ Tail(program[t]) \in Seq(Block)
      BY <2>2 DEF Inv, TypeOK
    <3> QED  BY <2>2, <3>1
  <2> QED  BY <2>1, <2>2 DEF Call
<1>2. TypedThreads /\ TypedSlots /\ TypedMessages
  BY <1>1, <1>c DEF TypedThreads, TypedSlots, TypedMessages, Inv, TypeOK, PC
<1>3. TypeOK'
  BY <1>2, <1>c, TypeParts
<1>4. CacheInv' /\ AnnouncedStay
  BY CallCache
<1>5. DictInv'
  BY <1>c, <1>4, DictStays DEF AnnouncedStay
<1>6. SameWaiters
  BY <1>c DEF SameWaiters, Inv, TypeOK, TransferInv, SourcesPlaces
<1>7. TransferInv'
  BY <1>c, <1>6, UnchangedKeeps, QuietTransfer
<1> QED  BY <1>3, <1>4, <1>5, <1>7 DEF Inv

LEMMA GetInv ==
  ASSUME Inv, NEW t \in Thread, NEW s \in Slots, Get(t, s)
  PROVE  Inv'
<1>c. /\ pc[t] = "get"
      /\ pc' = [pc EXCEPT ![t] = "lock"]
      /\ stored' = [stored EXCEPT ![HomeOf[t]][s] = want[t]]
      /\ slot' = [slot EXCEPT ![t] = s]
      /\ old' = [old EXCEPT ![t] = stored[HomeOf[t]][s]]
      /\ cacheMutex' = [cacheMutex EXCEPT ![HomeOf[t]] = t]
      /\ UNCHANGED <<cacheSize, program, blockMutex, data, dictionary, infoMutex, transferMutex,
                     requests, replies, sending, want, source>>
  BY DEF Get, Goto, application, library, network
<1>a. HomeOf[t] \in Rank /\ want[t] \in Block
  BY <1>c, ThreadFacts
<1>2. TypedThreads /\ TypedSlots /\ TypedMessages
  BY <1>a, <1>c DEF TypedThreads, TypedSlots, TypedMessages, Inv, TypeOK, PC
<1>3. TypeOK'
  BY <1>2, <1>c, TypeParts
<1>4. CacheInv' /\ AnnouncedStay
  BY GetCache
<1>5. DictInv'
  BY <1>c, <1>4, DictStays DEF AnnouncedStay
<1>6. SameWaiters
  BY <1>c DEF SameWaiters, Inv, TypeOK, TransferInv, SourcesPlaces
<1>7. TransferInv'
  BY <1>c, <1>6, UnchangedKeeps, QuietTransfer
<1> QED  BY <1>3, <1>4, <1>5, <1>7 DEF Inv

LEMMA LockSlotInv ==
  ASSUME Inv, NEW t \in Thread, LockSlot(t)
  PROVE  Inv'
<1>c. PICK L \in {"read", "start", "delete"} :
      /\ pc[t] = "lock"
      /\ pc' = [pc EXCEPT ![t] = L]
      /\ blockMutex' = [blockMutex EXCEPT ![HomeOf[t]][slot[t]] = t]
      /\ cacheMutex' = [cacheMutex EXCEPT ![HomeOf[t]] = NoThread]
      /\ UNCHANGED <<cacheSize, program, stored, data, dictionary, infoMutex, transferMutex,
                     requests, replies, sending, want, slot, old, source>>
  BY DEF LockSlot, Goto, application, library, network, locals
<1>a. HomeOf[t] \in Rank /\ slot[t] \in Slots
  BY ThreadFacts
<1>2. TypedThreads /\ TypedSlots /\ TypedMessages
  BY <1>a, <1>c DEF TypedThreads, TypedSlots, TypedMessages, Inv, TypeOK, PC
<1>3. TypeOK'
  BY <1>2, <1>c, TypeParts
<1>4. CacheInv' /\ AnnouncedStay
  BY LockSlotCache
<1>5. DictInv'
  BY <1>c, <1>4, DictStays DEF AnnouncedStay
<1>6. SameWaiters
  BY <1>c DEF SameWaiters, Inv, TypeOK, TransferInv, SourcesPlaces
<1>7. TransferInv'
  BY <1>c, <1>6, UnchangedKeeps, QuietTransfer
<1> QED  BY <1>3, <1>4, <1>5, <1>7 DEF Inv

LEMMA DeleteBlockInv ==
  ASSUME Inv, NEW t \in Thread, DeleteBlock(t)
  PROVE  Inv'
<1>c. /\ pc[t] = "delete"
      /\ pc' = [pc EXCEPT ![t] = "start"]
      /\ UNCHANGED <<cacheSize, program, stored, cacheMutex, blockMutex, data, infoMutex,
                     transferMutex, replies, sending, want, slot, old, source>>
  BY DEF DeleteBlock, Goto, application, manager, library, locals
<1>a. /\ HomeOf[t] \in Rank /\ slot[t] \in Slots /\ OwnPlace(t) \in Places
      /\ old[t] \in Block /\ DictRankOf[old[t]] \in Rank
  BY <1>c, ThreadFacts, CacheDistThreadAssumption DEF Inv, CacheInv, OldKnown
<1>q. /\ requests' \in [Rank -> [Rank -> Seq(Request)]]
      /\ NoNewQuestions
  <2>1. CASE UNCHANGED requests
    BY <2>1, UnchangedKeeps DEF Inv, TypeOK
  <2>2. CASE Send(HomeOf[t], DictRankOf[old[t]],
                  [kind |-> "delete", block |-> old[t], place |-> OwnPlace(t)])
    <3> DEFINE m == [kind |-> "delete", block |-> old[t], place |-> OwnPlace(t)]
    <3>1. m \in Request /\ m.kind # "transfer" /\ Sent(HomeOf[t], DictRankOf[old[t]], m)
      BY <1>a, <2>2 DEF Request, Send, Sent
    <3> HIDE DEF m
    <3> QED  BY <1>a, <3>1, SentTyped, SentKeeps
  <2> QED  BY <2>1, <2>2 DEF DeleteBlock
<1>1. DictInv' /\ dictionary' \in [Block -> DictEntry]
  BY DeleteBlockDict
<1>2. TypedThreads /\ TypedSlots /\ TypedMessages
  BY <1>a, <1>c, <1>q, <1>1 DEF TypedThreads, TypedSlots, TypedMessages, Inv, TypeOK, PC
<1>3. TypeOK'
  BY <1>2, <1>c, TypeParts
<1>4. CacheInv'
  <2>1. "start" \in FillingPC \ {"delete"} /\ pc[t] \in FillingPC /\ OtherSlotsKept(t) /\ "start" # "end"
    BY <1>c DEF FillingPC, OtherSlotsKept
  <2> QED  BY <1>c, <2>1, MoveCache
<1>6. SameWaiters
  BY <1>c DEF SameWaiters, Inv, TypeOK, TransferInv, SourcesPlaces
<1>7. TransferInv'
  BY <1>c, <1>6, <1>q, QuietTransfer
<1> QED  BY <1>1, <1>3, <1>4, <1>7 DEF Inv

LEMMA HaveSourceMoves ==
  ASSUME Inv, NEW t \in Thread, NEW place, place \in Places \cup {Unused},
         pc[t] \in {"start", "entry"}, HaveSource(t, place),
         UNCHANGED <<application, manager, sending, locals>>
  PROVE  CacheInv' /\ AnnouncedStay /\ SameWaiters /\ TypedThreads /\ TypedSlots
<1>c. UNCHANGED <<cacheSize, program, stored, cacheMutex, blockMutex, sending, want, slot, old>>
  BY DEF application, manager, locals
<1>d. PICK M \in {"load", "ask"} :
      /\ pc' = [pc EXCEPT ![t] = M]
      /\ source' = [source EXCEPT ![t] = place]
      /\ M = "ask" => place # Unused
      /\ Fill(t, Torn) \/ UNCHANGED data
  BY DEF HaveSource, Goto
<1>e. OtherSlotsKept(t) /\ data' \in [Rank -> [Slots -> Block \cup {Absent, Torn}]]
  <2>1. CASE Fill(t, Torn)
    <3>1. Torn \in Block \cup {Absent, Torn}
      OBVIOUS
    <3> QED  BY <2>1, <3>1, FillKeeps
  <2>2. CASE UNCHANGED data
    BY <2>2 DEF OtherSlotsKept, Inv, TypeOK
  <2> QED  BY <1>d, <2>1, <2>2
<1>1. CacheInv' /\ AnnouncedStay
  <2>1. M \in FillingPC \ {"delete"} /\ pc[t] \in FillingPC /\ M # "end" /\ pc[t] # "delete"
    BY DEF FillingPC
  <2> QED  BY <1>c, <1>d, <1>e, <2>1, MoveCache
<1>2. SameWaiters
  BY <1>c, <1>d DEF SameWaiters, Inv, TypeOK, TransferInv, SourcesPlaces
<1>3. TypedThreads
  BY <1>c, <1>d DEF TypedThreads, Inv, TypeOK, PC
<1>4. TypedSlots
  BY <1>c, <1>e DEF TypedSlots, Inv, TypeOK
<1> QED  BY <1>1, <1>2, <1>3, <1>4

LEMMA StartLocalInv ==
  ASSUME Inv, NEW t \in Thread, StartLocal(t)
  PROVE  Inv'
<1>c. PICK place \in Fetched(dictionary[want[t]]) :
      /\ pc[t] = "start"
      /\ HaveSource(t, place)
      /\ UNCHANGED <<application, manager, dictionary, infoMutex, transferMutex,
                     requests, replies, sending, locals>>
  BY DEF StartLocal, library, network
<1>u. cacheSize' = cacheSize
  BY <1>c DEF application
<1>a. place \in Places \cup {Unused}
  <2>1. want[t] \in Block
    BY <1>c, ThreadFacts
  <2>2. SizeOK /\ dictionary[want[t]] \in DictEntry /\ IsList(dictionary[want[t]])
    BY <2>1 DEF SizeOK, Inv, TypeOK, DictInv, EntriesLists
  <2> QED  BY <2>2, FetchedFacts
<1>1. CacheInv' /\ AnnouncedStay /\ SameWaiters /\ TypedThreads /\ TypedSlots
  BY <1>a, <1>c, HaveSourceMoves
<1>2. TypedMessages
  BY <1>c DEF TypedMessages, Inv, TypeOK
<1>3. TypeOK'
  BY <1>u, <1>1, <1>2, TypeParts
<1>5. DictInv'
  BY <1>c, <1>u, <1>1, DictStays DEF AnnouncedStay
<1>7. TransferInv'
  BY <1>c, <1>u, <1>1, UnchangedKeeps, QuietTransfer
<1> QED  BY <1>1, <1>3, <1>5, <1>7 DEF Inv

LEMMA StartRemoteInv ==
  ASSUME Inv, NEW t \in Thread, StartRemote(t)
  PROVE  Inv'
<1> DEFINE m == [kind |-> "info", block |-> want[t]]
           to == DictRankOf[want[t]]
<1>c. /\ pc[t] = "start"
      /\ pc' = [pc EXCEPT ![t] = "entry"]
      /\ infoMutex' = [infoMutex EXCEPT ![HomeOf[t]] = t]
      /\ Sent(HomeOf[t], to, m)
      /\ UNCHANGED <<cacheSize, program, stored, cacheMutex, blockMutex, data, dictionary,
                     transferMutex, replies, sending, want, slot, old, source>>
  BY DEF StartRemote, Goto, Send, Sent, application, manager, locals
<1>a. HomeOf[t] \in Rank /\ want[t] \in Block /\ to \in Rank
  BY <1>c, ThreadFacts, CacheDistThreadAssumption
<1>m. m \in Request /\ m.kind = "info"
  BY <1>a DEF Request
<1> HIDE DEF m, to
<1>q. requests' \in [Rank -> [Rank -> Seq(Request)]] /\ NoNewQuestions
  BY <1>a, <1>c, <1>m, SentTyped, SentKeeps
<1>2. TypedThreads /\ TypedSlots /\ TypedMessages
  BY <1>a, <1>c, <1>q DEF TypedThreads, TypedSlots, TypedMessages, Inv, TypeOK, PC
<1>3. TypeOK'
  BY <1>2, <1>c, TypeParts
<1>4. CacheInv' /\ AnnouncedStay
  <2>1. "entry" \in FillingPC \ {"delete"} /\ pc[t] \in FillingPC /\ OtherSlotsKept(t) /\ "entry" # "end"
    BY <1>c DEF FillingPC, OtherSlotsKept
  <2> QED  BY <1>c, <2>1, MoveCache
<1>5. DictInv'
  <2>1. m.kind \in {"info", "transfer"}
    BY <1>m
  <2> QED  BY <1>a, <1>c, <1>m, <1>4, <2>1, DictAppend DEF AnnouncedStay
<1>6. SameWaiters
  BY <1>c DEF SameWaiters, Inv, TypeOK, TransferInv, SourcesPlaces
<1>7. TransferInv'
  BY <1>c, <1>6, <1>q, QuietTransfer
<1> QED  BY <1>3, <1>4, <1>5, <1>7 DEF Inv

LEMMA ReceiveEntryInv ==
  ASSUME Inv, NEW t \in Thread, ReceiveEntry(t)
  PROVE  Inv'
<1>a. HomeOf[t] \in Rank
  BY ThreadFacts
<1>c. PICK m \in replies[HomeOf[t]] :
      /\ pc[t] = "entry"
      /\ m.tag = EntryTag
      /\ replies' = [replies EXCEPT ![HomeOf[t]] = @ \ {m}]
      /\ HaveSource(t, m.value)
      /\ infoMutex' = [infoMutex EXCEPT ![HomeOf[t]] = NoThread]
      /\ UNCHANGED <<application, manager, dictionary, transferMutex, requests, sending, locals>>
  BY DEF ReceiveEntry
<1>u. cacheSize' = cacheSize
  BY <1>c DEF application
<1>b. m.tag = TagOffset + EntryTag
  <2>1. m \in Reply
    BY <1>a DEF Inv, TypeOK
  <2>2. TagOffset \in Nat /\ m.tag \in TagOffset .. TagOffset + 2
    BY <2>1, CacheDistThreadAssumption DEF Reply
  <2> QED  BY <1>c, <2>2 DEF EntryTag
<1>p. m.value \in Places \cup {Unused}
  BY <1>a, <1>b DEF Inv, TransferInv, AnswersPlaces
<1>r. \A q \in Rank : replies'[q] = IF q = HomeOf[t] THEN replies[q] \ {m} ELSE replies[q]
  BY <1>a, <1>c DEF Inv, TypeOK
<1>1. CacheInv' /\ AnnouncedStay /\ SameWaiters /\ TypedThreads /\ TypedSlots
  BY <1>c, <1>p, HaveSourceMoves
<1>2. TypedMessages
  BY <1>a, <1>c DEF TypedMessages, Inv, TypeOK
<1>3. TypeOK'
  BY <1>u, <1>1, <1>2, TypeParts
<1>5. DictInv'
  BY <1>c, <1>u, <1>1, DictStays DEF AnnouncedStay
<1>6. \A r \in Rank : BlockReplies(r)' = BlockReplies(r)
  BY <1>b, <1>r DEF BlockReplies
<1>8. AnswersPlaces'
  BY <1>r, <1>u, SizeKept DEF Inv, TransferInv, AnswersPlaces, Unused
<1>7. TransferInv'
  BY <1>c, <1>u, <1>1, <1>6, <1>8, UnchangedKeeps, OthersStay
<1> QED  BY <1>1, <1>3, <1>5, <1>7 DEF Inv

LEMMA AskBlockInv ==
  ASSUME Inv, NEW t \in Thread, AskBlock(t)
  PROVE  Inv'
<1> DEFINE m == [kind |-> "transfer", block |-> want[t]]
           to == RankOf(source[t])
<1>c. /\ pc[t] = "ask"
      /\ pc' = [pc EXCEPT ![t] = "reply"]
      /\ transferMutex' = [transferMutex EXCEPT ![HomeOf[t]] = t]
      /\ Sent(HomeOf[t], to, m)
      /\ UNCHANGED <<cacheSize, program, stored, cacheMutex, blockMutex, data, dictionary,
                     infoMutex, replies, sending, want, slot, old, source>>
  BY DEF AskBlock, Goto, Send, Sent, application, manager, locals
<1>a. HomeOf[t] \in Rank /\ want[t] \in Block /\ to \in Rank
  <2>1. source[t] \in Places /\ SizeOK
    BY <1>c DEF Inv, TransferInv, SourcesPlaces, TypeOK, SizeOK
  <2> QED  BY <1>c, <2>1, ThreadFacts, PlacesFacts
<1>m. m \in Request /\ m.kind = "transfer"
  BY <1>a DEF Request
<1> HIDE DEF m, to
<1>q. requests' \in [Rank -> [Rank -> Seq(Request)]]
  BY <1>a, <1>c, <1>m, SentTyped
<1>2. TypedThreads /\ TypedSlots /\ TypedMessages
  BY <1>a, <1>c, <1>q DEF TypedThreads, TypedSlots, TypedMessages, Inv, TypeOK, PC
<1>3. TypeOK'
  BY <1>2, <1>c, TypeParts
<1>4. CacheInv' /\ AnnouncedStay
  <2>1. "reply" \in FillingPC \ {"delete"} /\ pc[t] \in FillingPC /\ OtherSlotsKept(t) /\ "reply" # "end"
    BY <1>c DEF FillingPC, OtherSlotsKept
  <2> QED  BY <1>c, <2>1, MoveCache
<1>5. DictInv'
  <2>1. m.kind \in {"info", "transfer"}
    BY <1>m
  <2> QED  BY <1>a, <1>c, <1>m, <1>4, <2>1, DictAppend DEF AnnouncedStay
<1>7. TransferInv'
  BY AskBlockTransfer
<1> QED  BY <1>3, <1>4, <1>5, <1>7 DEF Inv

LEMMA ReceiveBlockInv ==
  ASSUME Inv, NEW t \in Thread, ReceiveBlock(t)
  PROVE  Inv'
<1>a. HomeOf[t] \in Rank
  BY ThreadFacts
<1>c. PICK m \in replies[HomeOf[t]], M \in {"end", "start"} :
      /\ pc[t] = "reply"
      /\ pc' = [pc EXCEPT ![t] = M]
      /\ replies' = [replies EXCEPT ![HomeOf[t]] = @ \ {m}]
      /\ \/ M = "end" /\ m.tag = TagOffset + TransferTag /\ Fill(t, m.value)
         \/ M = "start" /\ UNCHANGED data
      /\ transferMutex' = [transferMutex EXCEPT ![HomeOf[t]] = NoThread]
      /\ UNCHANGED <<cacheSize, program, stored, cacheMutex, blockMutex, dictionary, infoMutex,
                     requests, sending, want, slot, old, source>>
  BY DEF ReceiveBlock, Goto, application, manager, locals
<1>e. /\ OtherSlotsKept(t) /\ data' \in [Rank -> [Slots -> Block \cup {Absent, Torn}]]
      /\ M = "end" => data'[HomeOf[t]][slot[t]] = want[t]
  <2>1. CASE M = "end"
    <3>1. m.tag = TagOffset + TransferTag /\ Fill(t, m.value)
      BY <1>c, <2>1
    <3>2. m.value = want[t]
      BY <1>c, <3>1, AnswerFacts
    <3>3. want[t] \in Block \cup {Absent, Torn} /\ Fill(t, want[t])
      BY <1>c, <3>1, <3>2, ThreadFacts
    <3> QED  BY <3>3, FillKeeps
  <2>2. CASE M = "start"
    BY <1>c, <2>2 DEF OtherSlotsKept, Inv, TypeOK
  <2> QED  BY <2>1, <2>2
<1>2. TypedThreads /\ TypedSlots /\ TypedMessages
  BY <1>a, <1>c, <1>e DEF TypedThreads, TypedSlots, TypedMessages, Inv, TypeOK, PC
<1>3. TypeOK'
  BY <1>2, <1>c, TypeParts
<1>4. CacheInv' /\ AnnouncedStay
  <2>1. M \in FillingPC \ {"delete"} /\ pc[t] \in FillingPC /\ pc[t] # "delete"
    BY <1>c DEF FillingPC
  <2> QED  BY <1>c, <1>e, <2>1, MoveCache
<1>5. DictInv'
  BY <1>c, <1>4, DictStays DEF AnnouncedStay
<1>7. TransferInv'
  BY ReceiveBlockTransfer
<1> QED  BY <1>3, <1>4, <1>5, <1>7 DEF Inv

LEMMA LoadBlockInv ==
  ASSUME Inv, NEW t \in Thread, LoadBlock(t)
  PROVE  Inv'
<1>c. /\ pc[t] = "load"
      /\ pc' = [pc EXCEPT ![t] = "end"]
      /\ Fill(t, want[t])
      /\ UNCHANGED <<cacheSize, program, stored, cacheMutex, blockMutex, dictionary, infoMutex,
                     transferMutex, requests, replies, sending, want, slot, old, source>>
  BY DEF LoadBlock, Goto, application, manager, library, network, locals
<1>e. /\ OtherSlotsKept(t) /\ data' \in [Rank -> [Slots -> Block \cup {Absent, Torn}]]
      /\ data'[HomeOf[t]][slot[t]] = want[t]
  <2>1. want[t] \in Block \cup {Absent, Torn} /\ Fill(t, want[t])
    BY <1>c, ThreadFacts
  <2> QED  BY <2>1, FillKeeps
<1>2. TypedThreads /\ TypedSlots /\ TypedMessages
  BY <1>c, <1>e DEF TypedThreads, TypedSlots, TypedMessages, Inv, TypeOK, PC
<1>3. TypeOK'
  BY <1>2, <1>c, TypeParts
<1>4. CacheInv' /\ AnnouncedStay
  <2>1. "end" \in FillingPC \ {"delete"} /\ pc[t] \in FillingPC /\ pc[t] # "delete"
    BY <1>c DEF FillingPC
  <2> QED  BY <1>c, <1>e, <2>1, MoveCache
<1>5. DictInv'
  BY <1>c, <1>4, DictStays DEF AnnouncedStay
<1>6. SameWaiters
  BY <1>c DEF SameWaiters, Inv, TypeOK, TransferInv, SourcesPlaces
<1>7. TransferInv'
  BY <1>c, <1>6, UnchangedKeeps, QuietTransfer
<1> QED  BY <1>3, <1>4, <1>5, <1>7 DEF Inv

LEMMA EndTransferInv ==
  ASSUME Inv, NEW t \in Thread, EndTransfer(t)
  PROVE  Inv'
<1>c. /\ pc[t] = "end"
      /\ pc' = [pc EXCEPT ![t] = "read"]
      /\ UNCHANGED <<cacheSize, program, stored, cacheMutex, blockMutex, data, infoMutex,
                     transferMutex, replies, sending, want, slot, old, source>>
  BY DEF EndTransfer, Goto, application, manager, library, locals
<1>a. /\ HomeOf[t] \in Rank /\ slot[t] \in Slots /\ OwnPlace(t) \in Places
      /\ want[t] \in Block /\ DictRankOf[want[t]] \in Rank
  BY <1>c, ThreadFacts, CacheDistThreadAssumption
<1>q. requests' \in [Rank -> [Rank -> Seq(Request)]] /\ NoNewQuestions
  <2>1. CASE UNCHANGED requests
    BY <2>1, UnchangedKeeps DEF Inv, TypeOK
  <2>2. CASE Send(HomeOf[t], DictRankOf[want[t]],
                  [kind |-> "add", block |-> want[t], place |-> OwnPlace(t)])
    <3> DEFINE m == [kind |-> "add", block |-> want[t], place |-> OwnPlace(t)]
    <3>1. m \in Request /\ m.kind # "transfer" /\ Sent(HomeOf[t], DictRankOf[want[t]], m)
      BY <1>a, <2>2 DEF Request, Send, Sent
    <3> HIDE DEF m
    <3> QED  BY <1>a, <3>1, SentTyped, SentKeeps
  <2> QED  BY <2>1, <2>2 DEF EndTransfer
<1>1. DictInv' /\ dictionary' \in [Block -> DictEntry]
  BY EndTransferDict
<1>2. TypedThreads /\ TypedSlots /\ TypedMessages
  BY <1>a, <1>c, <1>q, <1>1 DEF TypedThreads, TypedSlots, TypedMessages, Inv, TypeOK, PC
<1>3. TypeOK'
  BY <1>2, <1>c, TypeParts
<1>4. CacheInv'
  BY EndTransferCache
<1>6. SameWaiters
  BY <1>c DEF SameWaiters, Inv, TypeOK, TransferInv, SourcesPlaces
<1>7. TransferInv'
  BY <1>c, <1>6, <1>q, QuietTransfer
<1> QED  BY <1>1, <1>3, <1>4, <1>7 DEF Inv

LEMMA ReturnInv ==
  ASSUME Inv, NEW t \in Thread, Return(t)
  PROVE  Inv'
<1>c. /\ pc[t] = "read"
      /\ pc' = [pc EXCEPT ![t] = "idle"]
      /\ blockMutex' = [blockMutex EXCEPT ![HomeOf[t]][slot[t]] = NoThread]
      /\ want' = [want EXCEPT ![t] = Absent]
      /\ slot' = [slot EXCEPT ![t] = 0]
      /\ old' = [old EXCEPT ![t] = Absent]
      /\ source' = [source EXCEPT ![t] = Unused]
      /\ UNCHANGED <<cacheSize, program, stored, cacheMutex, data, dictionary, infoMutex,
                     transferMutex, requests, replies, sending>>
  BY DEF Return, Goto, application, library, network
<1>a. HomeOf[t] \in Rank /\ slot[t] \in Slots /\ 0 \in Slots
  <2>1. cacheSize \in Nat \ {0}
    BY DEF Inv, TypeOK
  <2>2. 0 \in Slots
    BY <2>1 DEF Slots
  <2> QED  BY <2>2, ThreadFacts
<1>2. TypedThreads /\ TypedSlots /\ TypedMessages
  BY <1>a, <1>c DEF TypedThreads, TypedSlots, TypedMessages, Inv, TypeOK, PC
<1>3. TypeOK'
  BY <1>2, <1>c, TypeParts
<1>4. CacheInv' /\ AnnouncedStay
  BY ReturnCache
<1>5. DictInv'
  BY <1>c, <1>4, DictStays DEF AnnouncedStay
<1>6. SameWaiters
  BY <1>c DEF SameWaiters, Inv, TypeOK, TransferInv, SourcesPlaces
<1>7. TransferInv'
  BY <1>c, <1>6, UnchangedKeeps, QuietTransfer
<1> QED  BY <1>3, <1>4, <1>5, <1>7 DEF Inv

LEMMA ServeInfoInv ==
  ASSUME Inv, NEW r \in Rank, NEW from \in Rank, ServeInfo(r, from)
  PROVE  Inv'
<1> DEFINE b == Head(requests[from][r]).block
<1>c. PICK place \in Fetched(dictionary[b]) :
      /\ requests[from][r] # <<>> /\ Head(requests[from][r]).kind = "info"
      /\ requests' = [requests EXCEPT ![from][r] = Tail(@)]
      /\ Answer(r, from, EntryTag, place)
      /\ UNCHANGED <<cacheSize, program, stored, cacheMutex, blockMutex, data, dictionary, infoMutex,
                     transferMutex, sending, pc, want, slot, old, source>>
  BY DEF ServeInfo, Receive, application, manager, library, locals
<1>b. b \in Block
  BY <1>c, QueueFacts, RequestFacts
<1>a. place \in Places \cup {Unused}
  <2>2. SizeOK /\ dictionary[b] \in DictEntry /\ IsList(dictionary[b])
    BY <1>b DEF SizeOK, Inv, TypeOK, DictInv, EntriesLists
  <2> QED  BY <2>2, FetchedFacts
<1> HIDE DEF b
<1> DEFINE m == [from |-> r, tag |-> TagOffset + EntryTag, value |-> place]
<1>m. /\ m \in Reply /\ m.tag = TagOffset + EntryTag /\ m.value = place
      /\ replies' = [replies EXCEPT ![from] = @ \cup {m}]
  <2>1. TagOffset + EntryTag \in TagOffset .. TagOffset + 2
    BY CacheDistThreadAssumption DEF EntryTag
  <2> QED  BY <1>a, <1>c, <2>1 DEF Answer, Reply
<1> HIDE DEF m
<1>r. \A q \in Rank : replies'[q] = IF q = from THEN replies[q] \cup {m} ELSE replies[q]
  BY <1>m DEF Inv, TypeOK
<1>q. requests' \in [Rank -> [Rank -> Seq(Request)]] /\ NoNewQuestions
  BY <1>c, TakenTyped, TakenKeeps
<1>2. TypedThreads /\ TypedSlots
  BY <1>c DEF TypedThreads, TypedSlots, Inv, TypeOK
<1>t. TypedMessages
  BY <1>c, <1>m, <1>q DEF TypedMessages, Inv, TypeOK
<1>3. TypeOK'
  BY <1>2, <1>t, <1>c, TypeParts
<1>4. CacheInv' /\ AnnouncedStay
  <2>1. MutexesOwned'
    BY <1>c, SizeKept DEF Inv, CacheInv, MutexesOwned, OwnsSlot
  <2> QED  BY <1>c, <2>1, QuietCache
<1>5. DictInv'
  <2>1. Head(requests[from][r]).kind \in {"info", "transfer"}
    BY <1>c
  <2> QED  BY <1>c, <1>4, <2>1, DictTail DEF AnnouncedStay
<1>6. SameWaiters
  BY <1>c DEF SameWaiters, Inv, TransferInv, SourcesPlaces
<1>7. \A q \in Rank : BlockReplies(q)' = BlockReplies(q)
  BY <1>m, <1>r DEF BlockReplies
<1>8. AnswersPlaces'
  BY <1>a, <1>c, <1>m, <1>r, SizeKept DEF Inv, TransferInv, AnswersPlaces, Unused
<1>9. TransferInv'
  BY <1>c, <1>6, <1>7, <1>8, <1>q, OthersStay
<1> QED  BY <1>3, <1>4, <1>5, <1>9 DEF Inv

(* Adder::recv and Deleter::recv                                           *)
LEMMA ServePlaceInv ==
  ASSUME Inv, NEW r \in Rank, NEW from \in Rank, ServeAdd(r, from) \/ ServeDelete(r, from)
  PROVE  Inv'
<1>c. /\ requests[from][r] # <<>>
      /\ requests' = [requests EXCEPT ![from][r] = Tail(@)]
      /\ UNCHANGED <<cacheSize, program, stored, cacheMutex, blockMutex, data, infoMutex,
                     transferMutex, replies, sending, pc, want, slot, old, source>>
  BY DEF ServeAdd, ServeDelete, Receive, application, manager, library, locals
<1>q. requests' \in [Rank -> [Rank -> Seq(Request)]] /\ NoNewQuestions
  BY <1>c, TakenTyped, TakenKeeps
<1>5. DictInv' /\ dictionary' \in [Block -> DictEntry]
  BY ServeAddDict, ServeDeleteDict
<1>2. TypedThreads /\ TypedSlots /\ TypedMessages
  BY <1>c, <1>q, <1>5 DEF TypedThreads, TypedSlots, TypedMessages, Inv, TypeOK
<1>3. TypeOK'
  BY <1>2, <1>c, TypeParts
<1>4. CacheInv'
  <2>1. MutexesOwned'
    BY <1>c, SizeKept DEF Inv, CacheInv, MutexesOwned, OwnsSlot
  <2> QED  BY <1>c, <2>1, QuietCache
<1>6. SameWaiters
  BY <1>c DEF SameWaiters, Inv, TransferInv, SourcesPlaces
<1>7. TransferInv'
  BY <1>c, <1>6, <1>q, QuietTransfer
<1> QED  BY <1>3, <1>4, <1>5, <1>7 DEF Inv

(* What tryGet hands to the communication thread is the block that was     *)
(* asked for.                                                              *)
LEMMA SendableFacts ==
  ASSUME Inv, NEW r \in Rank, NEW b \in Block, NEW s \in Sendable(r, b)
  PROVE  s \in Slots /\ blockMutex[r][s] = NoThread /\ data[r][s] = b
<1>1. s \in Slots /\ stored[r][s] = b /\ cacheMutex[r] = NoThread /\ blockMutex[r][s] = NoThread
  BY DEF Sendable, SlotsOf
<1>2. \A t \in Thread : t # NoThread
  BY CacheDistThreadAssumption
<1>3. ~Condemned(r, s)
  BY <1>1, <1>2 DEF Condemned, Inv, CacheInv, MutexesOwned
<1>4. ~BeingFilled(r, s)
  BY <1>1, <1>2 DEF BeingFilled, Inv, CacheInv, MutexesOwned, OwnsSlot
<1> QED  BY <1>1, <1>3, <1>4 DEF Inv, CacheInv, RestingTruthful

LEMMA ServeTransferInv ==
  ASSUME Inv, NEW r \in Rank, NEW from \in Rank, ServeTransfer(r, from)
  PROVE  Inv'
<1> DEFINE b == Head(requests[from][r]).block
<1>c. PICK s \in Sendable(r, b) :
      /\ Receive(r, from, "transfer")
      /\ blockMutex' = [blockMutex EXCEPT ![r][s] = CommThread]
      /\ sending' = [sending EXCEPT ![r] = s]
      /\ Answer(r, from, TransferTag, data[r][s])
      /\ UNCHANGED <<cacheSize, program, stored, cacheMutex, data, dictionary, infoMutex,
                     transferMutex, pc, want, slot, old, source>>
  BY DEF ServeTransfer, application, library, locals
<1>d. /\ sending[r] = Unused
      /\ requests[from][r] # <<>> /\ Head(requests[from][r]).kind \in {"info", "transfer"}
      /\ requests' = [requests EXCEPT ![from][r] = Tail(@)]
  BY <1>c DEF Receive
<1>b. b \in Block
  BY <1>d, QueueFacts, RequestFacts
<1> HIDE DEF b
<1>s. s \in Slots /\ blockMutex[r][s] = NoThread /\ data[r][s] = b
  BY <1>b, <1>c, SendableFacts
<1>q. requests' \in [Rank -> [Rank -> Seq(Request)]]
  BY <1>d, TakenTyped
<1>p. replies' \in [Rank -> SUBSET Reply]
  <2> DEFINE m == [from |-> r, tag |-> TagOffset + TransferTag, value |-> data[r][s]]
  <2>1. TagOffset + TransferTag \in TagOffset .. TagOffset + 2
    BY CacheDistThreadAssumption DEF TransferTag
  <2>2. m \in Reply
    BY <1>b, <1>s, <2>1 DEF Reply
  <2>3. replies' = [replies EXCEPT ![from] = @ \cup {m}]
    BY <1>c DEF Answer
  <2> HIDE DEF m
  <2> QED  BY <2>2, <2>3 DEF Inv, TypeOK
<1>2. TypedThreads /\ TypedSlots /\ TypedMessages
  BY <1>c, <1>p, <1>q, <1>s DEF TypedThreads, TypedSlots, TypedMessages, Inv, TypeOK
<1>3. TypeOK'
  BY <1>2, <1>c, TypeParts
<1>4. CacheInv' /\ AnnouncedStay
  <2>1. \A q \in Rank, x \in Slots :
           /\ blockMutex'[q][x] = IF q = r /\ x = s THEN CommThread ELSE blockMutex[q][x]
           /\ sending'[q] = IF q = r THEN s ELSE sending[q]
    BY <1>c, <1>s DEF Inv, TypeOK
  <2>2. \A t \in Thread : t # NoThread /\ t # CommThread
    BY CacheDistThreadAssumption
  <2>3. \A x \in Slots : x # Unused
    BY DEF Slots, Unused, Inv, TypeOK
  <2>4. MutexesOwned'
    <3>s. Slots' = Slots
      BY <1>c, SizeKept
    <3>1. \A q \in Rank, x \in Slots : blockMutex'[q][x] = CommThread <=> sending'[q] = x
      BY <1>d, <1>s, <2>1, <2>3 DEF Inv, CacheInv, MutexesOwned
    <3>2. \A q \in Rank, x \in Slots, t \in Thread : blockMutex'[q][x] = t <=> OwnsSlot(t, q, x)
      BY <1>s, <2>1, <2>2 DEF Inv, CacheInv, MutexesOwned
    <3>3. \A q, x : \A t \in Thread : OwnsSlot(t, q, x)' <=> OwnsSlot(t, q, x)
      BY <1>c DEF OwnsSlot
    <3> QED  BY <1>c, <3>s, <3>1, <3>2, <3>3 DEF Inv, CacheInv, MutexesOwned
  <2> QED  BY <1>c, <2>4, QuietCache
<1>5. DictInv'
  BY <1>c, <1>d, <1>4, DictTail DEF AnnouncedStay
<1>6. TransferInv'
  <2>1. TransferTag = TransferTag => data[r][s] = Head(requests[from][r]).block
    BY <1>s DEF b
  <2>2. TransferTag \in {TransferTag, TransferFailTag}
    OBVIOUS
  <2> QED  BY <1>c, <2>1, <2>2, AnswerTransfer
<1> QED  BY <1>3, <1>4, <1>5, <1>6 DEF Inv

LEMMA ServeFailInv ==
  ASSUME Inv, NEW r \in Rank, NEW from \in Rank, ServeFail(r, from)
  PROVE  Inv'
<1>c. /\ Receive(r, from, "transfer")
      /\ Answer(r, from, TransferFailTag, Absent)
      /\ UNCHANGED <<cacheSize, program, stored, cacheMutex, blockMutex, data, dictionary, infoMutex,
                     transferMutex, sending, pc, want, slot, old, source>>
  BY DEF ServeFail, application, manager, library, locals
<1>d. /\ requests[from][r] # <<>> /\ Head(requests[from][r]).kind \in {"info", "transfer"}
      /\ requests' = [requests EXCEPT ![from][r] = Tail(@)]
  BY <1>c DEF Receive
<1>q. requests' \in [Rank -> [Rank -> Seq(Request)]]
  BY <1>d, TakenTyped
<1>p. replies' \in [Rank -> SUBSET Reply]
  <2> DEFINE m == [from |-> r, tag |-> TagOffset + TransferFailTag, value |-> Absent]
  <2>1. TagOffset + TransferFailTag \in TagOffset .. TagOffset + 2
    BY CacheDistThreadAssumption DEF TransferFailTag
  <2>2. m \in Reply
    BY <2>1 DEF Reply
  <2>3. replies' = [replies EXCEPT ![from] = @ \cup {m}]
    BY <1>c DEF Answer
  <2> HIDE DEF m
  <2> QED  BY <2>2, <2>3 DEF Inv, TypeOK
<1>2. TypedThreads /\ TypedSlots /\ TypedMessages
  BY <1>c, <1>p, <1>q DEF TypedThreads, TypedSlots, TypedMessages, Inv, TypeOK
<1>3. TypeOK'
  BY <1>2, <1>c, TypeParts
<1>4. CacheInv' /\ AnnouncedStay
  <2>1. MutexesOwned'
    BY <1>c, SizeKept DEF Inv, CacheInv, MutexesOwned, OwnsSlot
  <2> QED  BY <1>c, <2>1, QuietCache
<1>5. DictInv'
  BY <1>c, <1>d, <1>4, DictTail DEF AnnouncedStay
<1>6. TransferInv'
  <2>1. TransferFailTag = TransferTag => Absent = Head(requests[from][r]).block
    BY DEF TransferTag, TransferFailTag
  <2>2. TransferFailTag \in {TransferTag, TransferFailTag}
    OBVIOUS
  <2> QED  BY <1>c, <2>1, <2>2, AnswerTransfer
<1> QED  BY <1>3, <1>4, <1>5, <1>6 DEF Inv

LEMMA SendDoneInv ==
  ASSUME Inv, NEW r \in Rank, SendDone(r)
  PROVE  Inv'
<1>c. /\ sending[r] # Unused
      /\ blockMutex' = [blockMutex EXCEPT ![r][sending[r]] = NoThread]
      /\ sending' = [sending EXCEPT ![r] = Unused]
      /\ UNCHANGED <<cacheSize, program, stored, cacheMutex, data, dictionary, infoMutex,
                     transferMutex, requests, replies, pc, want, slot, old, source>>
  BY DEF SendDone, application, library, locals
<1>s. PICK s \in Slots : s = sending[r]
  BY <1>c DEF Inv, TypeOK
<1>2. TypedThreads /\ TypedSlots /\ TypedMessages
  BY <1>c, <1>s DEF TypedThreads, TypedSlots, TypedMessages, Inv, TypeOK
<1>3. TypeOK'
  BY <1>2, <1>c, TypeParts
<1>4. CacheInv' /\ AnnouncedStay
  <2>1. \A q \in Rank, x \in Slots :
           /\ blockMutex'[q][x] = IF q = r /\ x = s THEN NoThread ELSE blockMutex[q][x]
           /\ sending'[q] = IF q = r THEN Unused ELSE sending[q]
    BY <1>c, <1>s DEF Inv, TypeOK
  <2>2. NoThread # CommThread /\ \A t \in Thread : t # NoThread /\ t # CommThread
    BY CacheDistThreadAssumption
  <2>3. \A x \in Slots : x # Unused
    BY DEF Slots, Unused, Inv, TypeOK
  <2>0. blockMutex[r][s] = CommThread
    BY <1>s DEF Inv, CacheInv, MutexesOwned
  <2>4. MutexesOwned'
    <3>s. Slots' = Slots
      BY <1>c, SizeKept
    <3>1. \A q \in Rank, x \in Slots : blockMutex'[q][x] = CommThread <=> sending'[q] = x
      BY <1>s, <2>1, <2>2, <2>3 DEF Inv, CacheInv, MutexesOwned
    <3>2. \A q \in Rank, x \in Slots, t \in Thread : blockMutex'[q][x] = t <=> OwnsSlot(t, q, x)
      BY <2>0, <2>1, <2>2 DEF Inv, CacheInv, MutexesOwned
    <3>3. \A q, x : \A t \in Thread : OwnsSlot(t, q, x)' <=> OwnsSlot(t, q, x)
      BY <1>c DEF OwnsSlot
    <3> QED  BY <1>c, <3>s, <3>1, <3>2, <3>3 DEF Inv, CacheInv, MutexesOwned
  <2> QED  BY <1>c, <2>4, QuietCache
<1>5. DictInv'
  BY <1>c, <1>4, DictStays DEF AnnouncedStay
<1>6. SameWaiters
  BY <1>c DEF SameWaiters, Inv, TransferInv, SourcesPlaces
<1>7. TransferInv'
  BY <1>c, <1>6, UnchangedKeeps, QuietTransfer
<1> QED  BY <1>3, <1>4, <1>5, <1>7 DEF Inv

LEMMA IdleInv ==
  ASSUME Inv, UNCHANGED vars
  PROVE  Inv'
<1>c. UNCHANGED <<cacheSize, program, stored, cacheMutex, blockMutex, data, dictionary, infoMutex,
                  transferMutex, requests, replies, sending, pc, want, slot, old, source>>
  BY DEF vars
<1>2. TypedThreads /\ TypedSlots /\ TypedMessages
  BY <1>c DEF TypedThreads, TypedSlots, TypedMessages, Inv, TypeOK
<1>3. TypeOK'
  BY <1>2, <1>c, TypeParts
<1>4. CacheInv' /\ AnnouncedStay
  <2>1. MutexesOwned'
    BY <1>c, SizeKept DEF Inv, CacheInv, MutexesOwned, OwnsSlot
  <2> QED  BY <1>c, <2>1, QuietCache
<1>5. DictInv'
  BY <1>c, <1>4, DictStays DEF AnnouncedStay
<1>6. SameWaiters
  BY <1>c DEF SameWaiters, Inv, TransferInv, SourcesPlaces
<1>7. TransferInv'
  BY <1>c, <1>6, UnchangedKeeps, QuietTransfer
<1> QED  BY <1>3, <1>4, <1>5, <1>7 DEF Inv

LEMMA StepInv ==
  ASSUME Inv, [Next]_vars
  PROVE  Inv'
<1>1. CASE UNCHANGED vars
  BY <1>1, IdleInv
<1>2. ASSUME NEW t \in Thread, NEW b \in Block, Call(t, b)
      PROVE  Inv'
  BY <1>2, CallInv
<1>3. ASSUME NEW t \in Thread, Continue(t)
      PROVE  Inv'
  <2>1. CASE GetHit(t)
    BY <2>1, GetInv DEF GetHit, SlotsOf
  <2>2. CASE GetMiss(t)
    BY <2>2, GetInv DEF GetMiss
  <2>3. CASE LockSlot(t)
    BY <2>3, LockSlotInv
  <2>4. CASE DeleteBlock(t)
    BY <2>4, DeleteBlockInv
  <2>5. CASE StartLocal(t)
    BY <2>5, StartLocalInv
  <2>6. CASE StartRemote(t)
    BY <2>6, StartRemoteInv
  <2>7. CASE ReceiveEntry(t)
    BY <2>7, ReceiveEntryInv
  <2>8. CASE AskBlock(t)
    BY <2>8, AskBlockInv
  <2>9. CASE ReceiveBlock(t)
    BY <2>9, ReceiveBlockInv
  <2>10. CASE LoadBlock(t)
    BY <2>10, LoadBlockInv
  <2>11. CASE EndTransfer(t)
    BY <2>11, EndTransferInv
  <2>12. CASE Return(t)
    BY <2>12, ReturnInv
  <2> QED
    BY <1>3, <2>1, <2>2, <2>3, <2>4, <2>5, <2>6, <2>7, <2>8, <2>9, <2>10, <2>11, <2>12 DEF Continue
<1>4. ASSUME NEW r \in Rank, NEW q \in Rank, Serve(r, q)
      PROVE  Inv'
  <2>1. CASE ServeInfo(r, q)
    BY <2>1, ServeInfoInv
  <2>2. CASE ServeAdd(r, q) \/ ServeDelete(r, q)
    BY <2>2, ServePlaceInv
  <2>3. CASE ServeTransfer(r, q)
    BY <2>3, ServeTransferInv
  <2>4. CASE ServeFail(r, q)
    BY <2>4, ServeFailInv
  <2> QED  BY <1>4, <2>1, <2>2, <2>3, <2>4 DEF Serve
<1>5. ASSUME NEW r \in Rank, SendDone(r)
      PROVE  Inv'
  BY <1>5, SendDoneInv
<1> QED  BY <1>1, <1>2, <1>3, <1>4, <1>5 DEF Next, Communicate

LEMMA InitInv == Init => Inv
<1> SUFFICES ASSUME Init
             PROVE  Inv
  OBVIOUS
<1> USE CacheDistThreadAssumption
<1>0. cacheSize \in Nat \ {0} /\ (program = Anything \/ program \in [Thread -> Seq(Block)])
  BY DEF Init
<1>s. 0 \in Slots /\ \A x \in Slots : x # Unused
  BY <1>0 DEF Slots, Unused
<1>1. EmptyEntry \in DictEntry /\ IsList(EmptyEntry)
  <2>1. \A i \in Index : EmptyEntry[i] = Unused
    BY DEF EmptyEntry
  <2>2. \A i \in Index : EmptyEntry[i] # Unused <=> i < 0
    BY <2>1 DEF Index
  <2>3. EmptyEntry \in DictEntry
    BY DEF EmptyEntry, DictEntry
  <2>4. 0 \in 0 .. DictSize
    OBVIOUS
  <2> QED  BY <2>1, <2>2, <2>3, <2>4 DEF IsList
<1>2. TypeOK
  <2>1. /\ dictionary \in [Block -> DictEntry]
        /\ requests \in [Rank -> [Rank -> Seq(Request)]]
        /\ replies \in [Rank -> SUBSET Reply]
    BY <1>1 DEF Init
  <2>2. /\ stored \in [Rank -> [Slots -> Block \cup {Absent}]]
        /\ cacheMutex \in [Rank -> Thread \cup {NoThread}]
        /\ blockMutex \in [Rank -> [Slots -> Thread \cup {CommThread, NoThread}]]
        /\ data \in [Rank -> [Slots -> Block \cup {Absent, Torn}]]
        /\ infoMutex \in [Rank -> Thread \cup {NoThread}]
        /\ transferMutex \in [Rank -> Thread \cup {NoThread}]
        /\ sending \in [Rank -> Slots \cup {Unused}]
    BY DEF Init
  <2>3. /\ pc \in [Thread -> PC]
        /\ want \in [Thread -> Block \cup {Absent}]
        /\ slot \in [Thread -> Slots]
        /\ old \in [Thread -> Block \cup {Absent}]
        /\ source \in [Thread -> Places \cup {Unused}]
    BY <1>s DEF Init, PC
  <2> QED  BY <1>0, <2>1, <2>2, <2>3 DEF TypeOK
<1>3. MutexesOwned
  BY <1>s DEF Init, MutexesOwned, OwnsSlot, FillingPC
<1>4. CallsWant /\ WaitersEntered /\ FillersEntered /\ OldKnown /\ FilledAtEnd /\ ReadsRequestedBlock
  BY DEF Init, CallsWant, WaitersEntered, FillersEntered, FillingPC, OldKnown, FilledAtEnd,
         ReadsRequestedBlock
<1>5. RestingTruthful
  BY DEF Init, RestingTruthful
<1>6. DictInv
  <2>1. EntriesLists
    BY <1>1 DEF Init, EntriesLists
  <2>2. \A q, r \in Rank : requests[q][r] = <<>>
    BY DEF Init
  <2>3. PlacesToldByOwner
    BY <2>2 DEF PlacesToldByOwner
  <2>4. \A b \in Block : Listed(dictionary[b]) = {}
    <3> SUFFICES ASSUME NEW b \in Block, NEW p \in Listed(dictionary[b])
                 PROVE  FALSE
      OBVIOUS
    <3>1. dictionary[b] = EmptyEntry /\ SizeOK
      BY <1>0 DEF Init, SizeOK
    <3> QED  BY <1>1, <3>1, ListedFacts DEF EmptyEntry
  <2>5. DictionaryToldInOrder
    <3> SUFFICES ASSUME NEW r \in Rank, NEW s \in Slots, NEW b \in Block
                 PROVE  InOrder(requests[r][DictRankOf[b]], b, PlaceOf(r, s),
                                Listed(dictionary[b]), Announced(r, s))
      BY DEF DictionaryToldInOrder
    <3>1. \A kind : Told(requests[r][DictRankOf[b]], kind, b, PlaceOf(r, s)) = {}
      BY <2>2 DEF Told
    <3> QED  BY <2>4, <3>1 DEF InOrder
  <2> QED  BY <2>1, <2>3, <2>5 DEF DictInv
<1>7. TransferInv
  <2>1. \A r \in Rank : replies[r] = {} /\ transferMutex[r] = NoThread /\ \A q \in Rank : requests[r][q] = <<>>
    BY DEF Init
  <2>2. AskersAlone
    BY <2>1 DEF Init, AskersAlone
  <2>3. AnswersPlaces /\ OneBlockAnswered /\ OneBlockAsked
    BY <2>1 DEF AnswersPlaces, OneBlockAnswered, OneBlockAsked, BlockReplies
  <2>4. SourcesPlaces
    BY DEF Init, SourcesPlaces
  <2> QED  BY <2>2, <2>3, <2>4 DEF TransferInv
<1> QED  BY <1>2, <1>3, <1>4, <1>5, <1>6, <1>7 DEF Inv, CacheInv

-----------------------------------------------------------------------------
(* Every state of getAt and of the communication threads, on every rank,   *)
(* satisfies the invariant: mutexes are held where the code stands between *)
(* lock and unlock, the messages about a place come from its owner and     *)
(* alternate, and a rank has asked for at most one block.                  *)
THEOREM InvHolds == Spec => []Inv
<1>1. Init => Inv
  BY InitInv
<1>2. Inv /\ [Next]_vars => Inv'
  BY StepInv
<1> QED  BY <1>1, <1>2, PTL DEF Spec

(* A thread that reads its slot reads the block it asked for, whether it   *)
(* was in the cache, came from the file, or from another rank, and however *)
(* often a communication thread could not send it.                         *)
THEOREM ReadsRequestedBlockHolds == Spec => []ReadsRequestedBlock
<1>1. Inv => ReadsRequestedBlock
  BY DEF Inv, CacheInv
<1> QED  BY <1>1, InvHolds, PTL

LEMMA InvReplies ==
  ASSUME Inv
  PROVE  RepliesFindTheirThread
<1> SUFFICES ASSUME NEW r \in Rank, NEW m \in BlockReplies(r)
             PROVE  \E t \in Thread :
                       /\ pc[t] = "reply" /\ HomeOf[t] = r /\ RankOf(source[t]) = m.from
                       /\ \A u \in Thread : pc[u] = "reply" /\ HomeOf[u] = r => u = t
                       /\ m.tag = TagOffset + TransferTag => m.value = want[t]
  BY DEF RepliesFindTheirThread
<1>1. PICK t \in Thread, b \in Block :
         Waits(t, r, m.from, b) /\ (m.tag = TagOffset + TransferTag => m.value = b)
  BY DEF Inv, TransferInv, OneBlockAnswered
<1>2. \A u \in Thread : pc[u] = "reply" /\ HomeOf[u] = r => u = t
  BY <1>1, RepliesFacts DEF Waits
<1> QED  BY <1>1, <1>2 DEF Waits

(* The answer that arrives at a rank is for the one thread that waits      *)
(* there, although the message does not say so.                            *)
THEOREM RepliesFindTheirThreadHolds == Spec => []RepliesFindTheirThread
<1>1. Inv => RepliesFindTheirThread
  BY InvReplies
<1> QED  BY <1>1, InvHolds, PTL

LEMMA InvStale ==
  ASSUME Inv
  PROVE  StalePlacesAreLeaving
<1> SUFFICES ASSUME NEW b \in Block, NEW p \in Listed(dictionary[b]),
                    data[RankOf(p)][SlotOf(p)] # b
             PROVE  DeleteUnderway(b, p)
  BY DEF StalePlacesAreLeaving
<1> DEFINE r == RankOf(p)
           s == SlotOf(p)
<1>1. SizeOK /\ dictionary[b] \in DictEntry /\ IsList(dictionary[b])
  BY DEF SizeOK, Inv, TypeOK, DictInv, EntriesLists
<1>2. p \in Places
  <2>1. PICK i \in Index : dictionary[b][i] = p /\ p # Unused
    BY <1>1, ListedFacts
  <2> QED  BY <1>1, <2>1 DEF DictEntry
<1>3. r \in Rank /\ s \in Slots /\ PlaceOf(r, s) = p /\ DictRankOf[b] \in Rank
  BY <1>1, <1>2, PlacesFacts, CacheDistThreadAssumption
<1>4. b \notin Announced(r, s)
  BY DEF Announced
<1> HIDE DEF r, s
<1>5. InOrder(requests[r][DictRankOf[b]], b, p, Listed(dictionary[b]), Announced(r, s))
  BY <1>3 DEF Inv, DictInv, DictionaryToldInOrder
<1>6. Told(requests[r][DictRankOf[b]], "delete", b, p) # {}
  BY <1>4, <1>5 DEF InOrder
<1> QED  BY <1>3, <1>6 DEF Told, DeleteUnderway

(* The dictionary is not locked while a block is fetched, and deletions    *)
(* are not answered; a place it lists wrongly is one whose deletion is     *)
(* under way.                                                              *)
THEOREM StalePlacesAreLeavingHolds == Spec => []StalePlacesAreLeaving
<1>1. Inv => StalePlacesAreLeaving
  BY InvStale
<1> QED  BY <1>1, InvHolds, PTL
=============================================================================
