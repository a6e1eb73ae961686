---------------------------- MODULE FullDistProofs ----------------------------
(***************************************************************************)
(* The functions of grid/level/blocked.h that say where a block is kept    *)
(* are inverse to the one that says which block is kept at a place, for    *)
(* every number of blocks, ranks and domains and for both distributions.   *)
(* Hence what the memory of a fully stored level contains, for every grid. *)
(*                                                                         *)
(* Then the protocol of a fully stored level: the ranks agree on a tag, at *)
(* most one question or answer is under way from a rank, of the thread     *)
(* that waits for it, and no receiver leaves before all ranks close.       *)
(*                                                                         *)
(* Then its layout: the loop of io/netcdfreader.h that spreads the values  *)
(* read puts each of them where its index is looked for, for every file.   *)
(*                                                                         *)
(* Then its data, if the ranks wait for each other after opening a grid:   *)
(* positions find the nearest value, and a slot contains the block that    *)
(* the directory names, or named before the thread came that waits for it. *)
(***************************************************************************)
EXTENDS FullDist, FiniteSetTheorems, WellFoundedInduction, TLAPS

(* What the provers need to know of division.                              *)
LEMMA Division ==
    ASSUME NEW a \in Int, NEW b \in Nat \ {0}
    PROVE  /\ a \div b \in Int
           /\ a % b \in 0 .. b - 1
           /\ a = (a \div b) * b + (a % b)
  OBVIOUS

(* A quotient and a remainder are determined by what they make up.         *)
LEMMA DivisionUnique ==
    ASSUME NEW b \in Nat \ {0}, NEW q \in Int, NEW r \in 0 .. b - 1
    PROVE  /\ (q * b + r) \div b = q
           /\ (q * b + r) % b = r
  OBVIOUS

(* A quotient is small enough.                                             *)
LEMMA QuotientBound ==
    ASSUME NEW a \in Nat, NEW b \in Nat \ {0}, NEW c \in Nat, a < c * b
    PROVE  a \div b \in 0 .. c - 1
  OBVIOUS

(* Two divisions in a row are one by the product.                          *)
LEMMA NestedDivision ==
    ASSUME NEW a \in Nat, NEW b \in Nat \ {0}, NEW c \in Nat \ {0}
    PROVE  a \div (b * c) = (a \div b) \div c
  OBVIOUS

(* There are as many places as blocks or more.                             *)
LEMMA EnoughPlaces ==
    ASSUME NEW n \in Nat \ {0}
    PROVE  /\ LocalCount(n) \in Nat \ {0}
           /\ NumRanks * NumDomains \in Nat \ {0}
           /\ n <= LocalCount(n) * (NumRanks * NumDomains)
<1> DEFINE cores == NumRanks * NumDomains
<1>1. cores \in Nat \ {0}
  BY BlockPlacesAssumption
<1> HIDE DEF cores
<1>2. LocalCount(n) = (n + cores - 1) \div cores
  BY DEF LocalCount, cores
<1>3. PICK q \in Int, r \in 0 .. cores - 1 : q = LocalCount(n) /\ n + cores - 1 = q * cores + r
  <2>1. n + cores - 1 \in Int
    BY <1>1
  <2>2. /\ LocalCount(n) \in Int
        /\ (n + cores - 1) % cores \in 0 .. cores - 1
        /\ n + cores - 1 = LocalCount(n) * cores + ((n + cores - 1) % cores)
    BY <1>1, <1>2, <2>1, Division
  <2> QED
    BY <2>2
<1>4. n <= q * cores
  BY <1>1, <1>3
<1>5. q > 0
  BY <1>1, <1>4
<1> QED
  BY <1>1, <1>3, <1>4, <1>5 DEF cores

(* The code finds block id at this place.                                  *)
KeptAt(n, roundRobin, id, rank, domain, offset) ==
    /\ id \in Nat
    /\ BlockRank(n, roundRobin, id) = rank
    /\ BlockDomain(n, roundRobin, id) = domain
    /\ BlockOffset(n, roundRobin, id) = offset

(* The numbers of a place from the number of its block, for blocks in turn *)
LEMMA InTurn ==
    ASSUME NEW n \in Nat \ {0}, NEW roundRobin \in BOOLEAN, roundRobin,
           NEW rank \in Rank, NEW domain \in Domain,
           NEW offset \in 0 .. LocalCount(n) - 1
    PROVE  KeptAt(n, roundRobin, Local2Global(n, roundRobin, rank, domain, offset),
                  rank, domain, offset)
<1> DEFINE upper == offset * NumDomains + domain
<1>1. NumRanks \in Nat \ {0} /\ NumDomains \in Nat \ {0}
  BY BlockPlacesAssumption
<1>2. offset \in Int /\ domain \in 0 .. NumDomains - 1 /\ upper \in Nat /\ upper * NumRanks + rank \in Nat
  BY <1>1, EnoughPlaces DEF Rank, Domain
<1>3. upper \div NumDomains = offset /\ upper % NumDomains = domain
  BY <1>1, <1>2, DivisionUnique
<1>4. Local2Global(n, roundRobin, rank, domain, offset) = upper * NumRanks + rank
  BY DEF Local2Global
<1> HIDE DEF upper
<1>5. /\ (upper * NumRanks + rank) \div NumRanks = upper
      /\ (upper * NumRanks + rank) % NumRanks = rank
  BY <1>1, <1>2, DivisionUnique DEF Rank
<1> QED
  BY <1>2, <1>3, <1>4, <1>5 DEF KeptAt, BlockRank, BlockDomain, BlockOffset

(* and for blocks in a row.                                                *)
LEMMA InARow ==
    ASSUME NEW n \in Nat \ {0}, NEW roundRobin \in BOOLEAN, ~roundRobin,
           NEW rank \in Rank, NEW domain \in Domain,
           NEW offset \in 0 .. LocalCount(n) - 1
    PROVE  KeptAt(n, roundRobin, Local2Global(n, roundRobin, rank, domain, offset),
                  rank, domain, offset)
<1> DEFINE upper == rank * NumDomains + domain
           local == LocalCount(n)
           id == upper * local + offset
<1>1. NumRanks \in Nat \ {0} /\ NumDomains \in Nat \ {0} /\ local \in Nat \ {0}
  BY BlockPlacesAssumption, EnoughPlaces
<1>2. Local2Global(n, roundRobin, rank, domain, offset) = offset + (domain + rank * NumDomains) * local
  BY DEF Local2Global
<1>3. offset \in 0 .. local - 1
  OBVIOUS
<1> HIDE DEF local
<1>4. rank \in Int /\ rank \in Nat /\ domain \in 0 .. NumDomains - 1
  BY <1>1 DEF Rank, Domain
<1>5. upper \div NumDomains = rank /\ upper % NumDomains = domain
  BY <1>1, <1>4, DivisionUnique
<1>6. upper \in Int /\ upper \in Nat /\ domain + rank * NumDomains = upper
  BY <1>1, <1>4
<1> HIDE DEF upper
<1>7. id \in Nat /\ Local2Global(n, roundRobin, rank, domain, offset) = id
  BY <1>1, <1>2, <1>3, <1>6
<1>8. id \div local = upper /\ id % local = offset
  BY <1>1, <1>3, <1>6, DivisionUnique
<1> HIDE DEF id
<1>9. id \div (local * NumDomains) = rank
  BY <1>1, <1>5, <1>7, <1>8, NestedDivision
<1> QED
  BY <1>5, <1>7, <1>8, <1>9
     DEF KeptAt, BlockRank, BlockDomain, BlockOffset, NodeCount, local

(* A place of any rank and domain belongs to exactly the block that is     *)
(* loaded into it (local2global), whichever way the blocks are             *)
(* distributed: no two blocks share a place.                               *)
THEOREM PlacesOfBlocks ==
    ASSUME NEW n \in Nat \ {0}, NEW roundRobin \in BOOLEAN,
           NEW rank \in Rank, NEW domain \in Domain, NEW offset \in 0 .. LocalCount(n) - 1
    PROVE  KeptAt(n, roundRobin, Local2Global(n, roundRobin, rank, domain, offset),
                  rank, domain, offset)
<1>1. CASE roundRobin
  BY <1>1, InTurn
<1>2. CASE ~roundRobin
  BY <1>2, InARow
<1> QED
  BY <1>1, <1>2

(* Every block has a place on some rank and domain, and what is loaded     *)
(* into that place is this block.                                          *)
THEOREM BlocksHavePlaces ==
    ASSUME NEW n \in Nat \ {0}, NEW roundRobin \in BOOLEAN, NEW id \in 0 .. n - 1
    PROVE  LET rank == BlockRank(n, roundRobin, id)
               domain == BlockDomain(n, roundRobin, id)
               offset == BlockOffset(n, roundRobin, id)
           IN  /\ rank \in Rank /\ domain \in Domain /\ offset \in 0 .. LocalCount(n) - 1
               /\ Local2Global(n, roundRobin, rank, domain, offset) = id
<1> DEFINE local == LocalCount(n)
<1>1. /\ NumRanks \in Nat \ {0} /\ NumDomains \in Nat \ {0} /\ local \in Nat \ {0}
      /\ n <= local * (NumRanks * NumDomains)
  BY BlockPlacesAssumption, EnoughPlaces
<1>2. id \in Nat /\ id < n
  OBVIOUS
<1>3. CASE roundRobin
  <2> DEFINE upper == id \div NumRanks
  <2> HIDE DEF local
  <2>1. id < (local * NumDomains) * NumRanks
    BY <1>1, <1>2
  <2>2. local * NumDomains \in Nat
    BY <1>1
  <2>3. upper \in 0 .. local * NumDomains - 1
    BY <1>1, <1>2, <2>1, <2>2, QuotientBound
  <2>4. id % NumRanks \in 0 .. NumRanks - 1 /\ id = upper * NumRanks + (id % NumRanks)
    BY <1>1, <1>2, Division
  <2> HIDE DEF upper
  <2>5. /\ upper % NumDomains \in 0 .. NumDomains - 1
        /\ upper = (upper \div NumDomains) * NumDomains + (upper % NumDomains)
    BY <1>1, <2>2, <2>3, Division
  <2>6. upper \div NumDomains \in 0 .. local - 1
    <3>1. upper \in Nat /\ upper < local * NumDomains /\ local \in Nat
      BY <1>1, <2>2, <2>3
    <3> QED
      BY <1>1, <3>1, QuotientBound
  <2> QED
    BY <1>3, <2>4, <2>5, <2>6
       DEF BlockRank, BlockDomain, BlockOffset, Local2Global, Rank, Domain, local, upper
<1>4. CASE ~roundRobin
  <2> DEFINE upper == id \div local
             offset == id % local
             rank == upper \div NumDomains
             domain == upper % NumDomains
  <2> HIDE DEF local
  <2>1. id < (NumRanks * NumDomains) * local /\ NumRanks * NumDomains \in Nat
    BY <1>1, <1>2
  <2>2. upper \in 0 .. NumRanks * NumDomains - 1
    BY <1>1, <1>2, <2>1, QuotientBound
  <2>3. offset \in 0 .. local - 1 /\ id = upper * local + offset
    BY <1>1, <1>2, Division
  <2>4. id \div (local * NumDomains) = rank
    BY <1>1, <1>2, NestedDivision
  <2> HIDE DEF upper
  <2>5. domain \in 0 .. NumDomains - 1 /\ upper = rank * NumDomains + domain
    BY <1>1, <2>1, <2>2, Division
  <2>6. rank \in 0 .. NumRanks - 1
    <3>1. upper \in Nat /\ upper < NumRanks * NumDomains /\ NumRanks \in Nat
      BY <1>1, <2>1, <2>2
    <3> QED
      BY <1>1, <3>1, QuotientBound
  <2> HIDE DEF offset, rank, domain
  <2>7. offset + (domain + rank * NumDomains) * local = id
    BY <1>1, <2>1, <2>2, <2>3, <2>5, <2>6
  <2>8. /\ BlockRank(n, roundRobin, id) = rank
        /\ BlockDomain(n, roundRobin, id) = domain
        /\ BlockOffset(n, roundRobin, id) = offset
    BY <1>4, <2>4
       DEF BlockRank, BlockDomain, BlockOffset, NodeCount, local, upper, rank, domain, offset
  <2> QED
    BY <1>4, <2>3, <2>5, <2>6, <2>7, <2>8 DEF Local2Global, Rank, Domain, local
<1> QED
  BY <1>3, <1>4

-----------------------------------------------------------------------------
(* The offset of a block on its rank is that of a place in the part of its *)
(* domain.                                                                 *)
LEMMA NodeOffset ==
    ASSUME NEW n \in Nat \ {0}, NEW domain \in Domain, NEW offset \in 0 .. LocalCount(n) - 1
    PROVE  /\ offset + domain * LocalCount(n) \in 0 .. NodeCount(n) - 1
           /\ (offset + domain * LocalCount(n)) \div LocalCount(n) = domain
           /\ (offset + domain * LocalCount(n)) % LocalCount(n) = offset
<1> DEFINE local == LocalCount(n)
<1>1. /\ NumDomains \in Nat \ {0} /\ local \in Nat \ {0}
      /\ domain \in Int /\ domain \in 0 .. NumDomains - 1 /\ offset \in 0 .. local - 1
  BY BlockPlacesAssumption, EnoughPlaces DEF Domain
<1> HIDE DEF local
<1>2. offset + domain * local = domain * local + offset
  BY <1>1
<1>3. (domain * local + offset) \div local = domain /\ (domain * local + offset) % local = offset
  BY <1>1, DivisionUnique
<1>4. domain * local + offset \in 0 .. local * NumDomains - 1
  <2>1. (domain + 1) * local <= NumDomains * local
    BY <1>1
  <2> QED
    BY <1>1, <2>1
<1> QED
  BY <1>2, <1>3, <1>4 DEF local, NodeCount

(* Full::open loads every block, and where the windows and the             *)
(* communication threads look for it: at its rank, at blockNodeOffset.     *)
THEOREM MemoryHasEveryBlock ==
    ASSUME NEW g, g.count \in Nat \ {0}, g.roundRobin \in BOOLEAN,
           NEW id \in 0 .. g.count - 1
    PROVE  MemoryOf(g)[BlockRank(g.count, g.roundRobin, id)]
                      [BlockNodeOffset(g.count, g.roundRobin, id)] = Loaded(g, id)
<1> DEFINE rank == BlockRank(g.count, g.roundRobin, id)
           domain == BlockDomain(g.count, g.roundRobin, id)
           offset == BlockOffset(g.count, g.roundRobin, id)
           place == offset + domain * LocalCount(g.count)
<1>1. /\ rank \in Rank /\ domain \in Domain /\ offset \in 0 .. LocalCount(g.count) - 1
      /\ Local2Global(g.count, g.roundRobin, rank, domain, offset) = id
  BY BlocksHavePlaces
<1>2. BlockNodeOffset(g.count, g.roundRobin, id) = place
  BY DEF BlockNodeOffset
<1> HIDE DEF rank, domain, offset
<1>3. /\ place \in 0 .. NodeCount(g.count) - 1
      /\ place \div LocalCount(g.count) = domain /\ place % LocalCount(g.count) = offset
  BY <1>1, NodeOffset
<1> HIDE DEF place
<1>4. MemoryOf(g)[rank][place] = Content(g, Local2Global(g.count, g.roundRobin, rank,
          place \div LocalCount(g.count), place % LocalCount(g.count)))
  BY <1>1, <1>3 DEF MemoryOf
<1>5. MemoryOf(g)[rank][place] = Content(g, id)
  BY <1>1, <1>3, <1>4
<1>6. id < g.count
  OBVIOUS
<1> QED
  BY <1>2, <1>5, <1>6 DEF Content, rank

-----------------------------------------------------------------------------
(* Induction: a set of numbers with 0 and all successors has all numbers,  *)
(* since the intervals below those it lacks have a least one.              *)
LEMMA NatSet ==
  ASSUME NEW S \in SUBSET Nat, 0 \in S, \A n \in S : n + 1 \in S
  PROVE  S = Nat
<1> SUFFICES ASSUME S # Nat PROVE FALSE
  OBVIOUS
<1> DEFINE T == { 0 .. n - 1 : n \in Nat \ S }
<1>1. T \subseteq FiniteSubsetsOf(Nat) /\ T # {}
  <2>1. \A n \in Nat : 0 .. n - 1 \in SUBSET Nat
    OBVIOUS
  <2>2. \A n \in Nat : IsFiniteSet(0 .. n - 1)
    BY FS_Interval
  <2> QED
    BY <2>1, <2>2 DEF FiniteSubsetsOf
<1>2. \E X \in T : \A Y \in T : <<Y, X>> \notin StrictSubsetOrdering(Nat)
  <2> HIDE DEF T
  <2> QED
    BY <1>1, FS_StrictSubsetOrderingWellFounded, WFMin
<1>3. PICK n \in Nat \ S : \A Y \in T : <<Y, 0 .. n - 1>> \notin StrictSubsetOrdering(Nat)
  BY <1>2
<1>4. n - 1 \in Nat \ S
  OBVIOUS
<1>5. 0 .. (n - 1) - 1 \in T
  BY <1>4
<1>6. /\ 0 .. (n - 1) - 1 \in SUBSET Nat /\ 0 .. n - 1 \in SUBSET Nat
      /\ 0 .. (n - 1) - 1 \subseteq 0 .. n - 1
      /\ n - 1 \in 0 .. n - 1 /\ n - 1 \notin 0 .. (n - 1) - 1
  BY <1>4
<1> QED
  BY <1>3, <1>5, <1>6 DEF StrictSubsetOrdering

(* Hence some rank has the largest of all values.                          *)
LEMMA LargestOfRanks ==
  ASSUME NEW f \in [Rank -> Int]
  PROVE  \E q \in Rank : \A r \in Rank : f[r] <= f[q]
<1> DEFINE Largest(n, q) == \A r \in 0 .. n : f[r] <= f[q]
           S == { n \in Nat : n < NumRanks => \E q \in 0 .. n : Largest(n, q) }
<1>1. NumRanks \in Nat \ {0}
  BY BlockPlacesAssumption
<1>2. 0 \in S
  BY <1>1 DEF Rank
<1>3. ASSUME NEW n \in S PROVE n + 1 \in S
  <2> SUFFICES ASSUME n + 1 < NumRanks PROVE \E q \in 0 .. n + 1 : Largest(n + 1, q)
    BY <1>1
  <2>1. PICK q \in 0 .. n : Largest(n, q)
    BY <1>1
  <2>2. f[q] \in Int /\ f[n + 1] \in Int /\ \A r \in 0 .. n : f[r] \in Int
    BY <1>1 DEF Rank
  <2>3. CASE f[n + 1] <= f[q]
    BY <2>1, <2>2, <2>3
  <2>4. CASE ~(f[n + 1] <= f[q])
    BY <2>1, <2>2, <2>4
  <2> QED
    BY <2>3, <2>4
<1>4. S = Nat
  <2> HIDE DEF S
  <2>1. S \in SUBSET Nat
    BY DEF S
  <2> QED
    BY <1>2, <1>3, <2>1, NatSet
<1>5. \E q \in 0 .. NumRanks - 1 : Largest(NumRanks - 1, q)
  <2>1. NumRanks - 1 \in S
    <3> HIDE DEF S
    <3> QED  BY <1>1, <1>4
  <2> QED
    BY <1>1, <2>1
<1> QED
  BY <1>5 DEF Rank

(* What a rank brings to the reduction.                                    *)
NextTagOf(q) == IF tag[q] >= 0 THEN tag[q] ELSE nextTag[q]

(* The tag the ranks agree on is free on all of them.                      *)
LEMMA CommonTagFacts ==
  ASSUME ControlOK, TagsAgree, NEW r \in Rank
  PROVE  /\ CommonTag(r) \in Nat /\ CommonTag(r) < UnregTag
         /\ \A q \in Rank : IF tag[q] = -1 THEN nextTag[q] <= CommonTag(r) ELSE tag[q] = CommonTag(r)
<1> DEFINE f == [q \in Rank |-> NextTagOf(q)]
           S == { NextTagOf(q) : q \in Rank }
<1>1. \A q \in Rank : tag[q] \in Nat \cup {-1} /\ nextTag[q] \in Nat
  BY DEF ControlOK
<1>2. f \in [Rank -> Int]
  BY <1>1 DEF NextTagOf
<1>3. PICK p \in Rank : \A q \in Rank : f[q] <= f[p]
  <2> HIDE DEF f
  <2> QED  BY <1>2, LargestOfRanks
<1>4. \A q \in Rank : NextTagOf(q) \in Int /\ NextTagOf(q) <= NextTagOf(p)
  BY <1>1, <1>3 DEF NextTagOf
<1>5. CommonTag(r) = Max(S)
  BY DEF CommonTag, NextTagOf
<1>6. CommonTag(r) = NextTagOf(p)
  <2>1. NextTagOf(p) \in S /\ \A y \in S : NextTagOf(p) >= y
    BY <1>4
  <2>2. ASSUME NEW x \in S, \A y \in S : x >= y PROVE x = NextTagOf(p)
    BY <2>1, <2>2, <1>4
  <2> QED
    BY <1>5, <2>1, <2>2 DEF Max
<1> QED
  BY <1>1, <1>4, <1>6 DEF TagsAgree, NextTagOf, UnregTag

-----------------------------------------------------------------------------
(* What a thread looks for does not change under way.                      *)
LEMMA AskedKept ==
  ASSUME grid' = grid, NEW t, index'[t] = index[t]
  PROVE  /\ WantedBlock(t)' = WantedBlock(t)
         /\ RankOf(WantedBlock(t))' = RankOf(WantedBlock(t))
         /\ BlockDomainOf(WantedBlock(t))' = BlockDomainOf(WantedBlock(t))
         /\ PlaceOf(WantedBlock(t))' = PlaceOf(WantedBlock(t))
<1>1. WantedBlock(t)' = WantedBlock(t)
  BY DEF WantedBlock
<1> QED
  BY <1>1 DEF RankOf, BlockDomainOf, PlaceOf, Count

(* The steps of a thread in getAt, and those of a rank.                    *)
ThreadStep(t) == Continue(t) \/ \E pos \in Position : Call(t, pos)

RankStep(r) ==
    NotInitialized(r) \/ JoinReduction(r) \/ Proceed(r) \/ Close(r) \/ Communicate(r)

(* A step is one of a thread, one of a rank, or one of a domain that loads *)
(* its blocks.                                                             *)
LEMMA NextSteps ==
  ASSUME Next
  PROVE  \/ \E t \in Thread : ThreadStep(t)
         \/ \E r \in Rank : RankStep(r)
         \/ \E r \in Rank, d \in Domain : LoadBlocks(r, d)
BY DEF Next, ThreadStep, RankStep

(* The steps of threads keep the types of the protocol's state.            *)
LEMMA ThreadTypes ==
  ASSUME ControlOK, NEW t \in Thread, ThreadStep(t)
  PROVE  ControlOK'
<1> USE FullDistAssumption DEF ControlOK, PC, Goto, Fill, Send, Get, setup, choice, manager, network, receiver, locals
<1>1. CASE ReturnOwn(t)
  BY <1>1 DEF ReturnOwn
<1>2. CASE GetHit(t) \/ GetMiss(t)
  <2>1. PICK s \in Slot : Get(t, s)
    BY <1>2 DEF GetHit, GetMiss, SlotsOf
  <2> QED
    BY <2>1
<1>3. CASE LockSlot(t)
  BY <1>3 DEF LockSlot
<1>4. CASE CopyNuma(t) \/ GetWindow(t)
  <2>1. /\ pc' = [pc EXCEPT ![t] = "read"]
        /\ UNCHANGED <<setup, manager, sendRecvMutex, network, stage, receiver, locals>>
    BY <1>4 DEF CopyNuma, GetWindow
  <2> QED
    BY <2>1
<1>5. CASE Ask(t)
  BY <1>5 DEF Ask
<1>6. CASE ReceiveBlock(t)
  BY <1>6 DEF ReceiveBlock
<1>7. CASE Return(t)
  <2>1. 0 \in Slot
    BY DEF Slot
  <2> QED
    BY <1>7, <2>1 DEF Return
<1>8. ASSUME NEW pos \in Position, Call(t, pos) PROVE ControlOK'
  BY <1>8 DEF Call
<1> QED
  BY <1>1, <1>2, <1>3, <1>4, <1>5, <1>6, <1>7, <1>8 DEF ThreadStep, Continue

(* So do those of ranks.                                                   *)
LEMMA RankTypes ==
  ASSUME ControlOK, TagsAgree, NEW r \in Rank, RankStep(r)
  PROVE  ControlOK'
<1> USE DEF ControlOK, Stage, Opening, Enter, Send, setup, choice, manager, network, receiver, locals
<1>1. CASE JoinReduction(r)
  BY <1>1 DEF JoinReduction
<1>10. CASE NotInitialized(r)
  BY <1>10 DEF NotInitialized
<1>2. CASE Reduce(r)
  <2>1. CommonTag(r) \in Nat
    BY CommonTagFacts
  <2> QED
    BY <1>2, <2>1 DEF Reduce
<1>3. CASE Register(r)
  <2>1. stage[r] = "reduced" /\ tag[r] \in Nat
    BY <1>3 DEF Register, TagsAgree
  <2> QED
    BY <1>3, <2>1 DEF Register
<1>4. CASE Close(r)
  BY <1>4 DEF Close
<1>11. CASE EndOpen(r)
  BY <1>11 DEF EndOpen
<1>5. CASE UnregisterReceiver(r)
  BY <1>5 DEF UnregisterReceiver
<1>6. CASE Finalize(r)
  BY <1>6 DEF Finalize
<1>7. CASE ServeUnregister(r)
  BY <1>7 DEF ServeUnregister, Receive
<1>8. CASE ServeExit(r)
  BY <1>8 DEF ServeExit, Receive
<1>9. ASSUME NEW q \in Rank, ServeBlock(r, q) PROVE ControlOK'
  BY <1>9 DEF ServeBlock, Receive
<1> QED
  BY <1>1, <1>2, <1>3, <1>4, <1>5, <1>6, <1>7, <1>8, <1>9, <1>10, <1>11 DEF RankStep, Proceed, Communicate

(* Mutexes are taken and given back where the program counters say.        *)
LEMMA ThreadMutexes ==
  ASSUME ControlOK, MutexesHeld, NEW t \in Thread, ThreadStep(t)
  PROVE  MutexesHeld'
<1> USE FullDistAssumption DEF ControlOK, MutexesHeld, Has, Uses, SlotPC, Goto, setup, choice, manager, network, receiver, locals
<1>1. CASE ReturnOwn(t)
  BY <1>1 DEF ReturnOwn
<1>2. CASE GetHit(t) \/ GetMiss(t)
  <2>1. PICK s \in Slot : Get(t, s) /\ pc[t] = "get"
    BY <1>2 DEF GetHit, GetMiss, SlotsOf
  <2> QED
    BY <2>1 DEF Get
<1>3. CASE LockSlot(t)
  BY <1>3 DEF LockSlot
<1>4. CASE CopyNuma(t) \/ GetWindow(t)
  BY <1>4 DEF CopyNuma, GetWindow
<1>5. CASE Ask(t)
  BY <1>5 DEF Ask
<1>6. CASE ReceiveBlock(t)
  BY <1>6 DEF ReceiveBlock
<1>7. CASE Return(t)
  BY <1>7 DEF Return
<1>8. ASSUME NEW pos \in Position, Call(t, pos) PROVE MutexesHeld'
  BY <1>8 DEF Call
<1> QED
  BY <1>1, <1>2, <1>3, <1>4, <1>5, <1>6, <1>7, <1>8 DEF ThreadStep, Continue

(* What a step of a thread leaves alone.                                   *)
LEMMA ThreadKeeps ==
  ASSUME NEW t \in Thread, ThreadStep(t)
  PROVE  UNCHANGED <<setup, stage, nextTag, tag, receivers, lock, dropped>>
<1> USE DEF Get, setup, choice, manager, network, receiver, locals
<1>1. ASSUME NEW s, Get(t, s)
      PROVE  UNCHANGED <<setup, stage, nextTag, tag, receivers, lock, dropped>>
  BY <1>1
<1> QED
  BY <1>1 DEF ThreadStep, Continue, ReturnOwn, GetHit, GetMiss, LockSlot, CopyNuma, GetWindow,
              Ask, ReceiveBlock, Return, Call

(* What a step of a rank leaves alone.                                     *)
LEMMA RankKeeps ==
  ASSUME NEW r \in Rank, RankStep(r)
  PROVE  UNCHANGED <<setup, manager, data, sendRecvMutex, pc, locals>>
BY DEF RankStep, Proceed, Communicate, NotInitialized, JoinReduction, Reduce, Register, EndOpen,
       UnregisterReceiver, Finalize, Close, ServeUnregister, ServeExit, ServeBlock

(* Ranks leave them alone.                                                 *)
LEMMA RankMutexes ==
  ASSUME MutexesHeld, NEW r \in Rank, RankStep(r)
  PROVE  MutexesHeld'
BY RankKeeps DEF MutexesHeld, Has, Uses, manager, locals

(* A message without an order in its tag is a question.                    *)
LEMMA MessageKinds ==
  ASSUME ControlOK, TagsAgree, RequestsAsked, NEW q \in Rank, NEW r \in Rank, requests[q][r] # <<>>
  PROVE  \/ /\ Head(requests[q][r]).tag \notin {UnregTag, ExitTag}
            /\ \E t \in Thread : Asked(q, r, t)
         \/ /\ Head(requests[q][r]).tag = UnregTag /\ q = r /\ stage[r] = "unregister"
            /\ requests[q][r] = <<UnregisterOf(r)>>
         \/ /\ Head(requests[q][r]).tag = ExitTag /\ q = r /\ stage[r] = "exit"
            /\ requests[q][r] = <<ExitOf(r)>>
<1>1. CASE \E t \in Thread : Asked(q, r, t)
  <2>1. PICK t \in Thread : Asked(q, r, t)
    BY <1>1
  <2>2. Head(requests[q][r]).tag = tag[HomeOf[t]]
    BY <2>1 DEF Asked, QuestionOf
  <2>3. tag[HomeOf[t]] \notin {UnregTag, ExitTag}
    <3>1. HomeOf[t] \in Rank /\ tag[HomeOf[t]] \in Nat \cup {-1}
      BY FullDistAssumption DEF ControlOK
    <3>2. tag[HomeOf[t]] # -1 => tag[HomeOf[t]] < UnregTag
      BY <3>1 DEF TagsAgree
    <3> QED
      BY <3>1, <3>2 DEF UnregTag, ExitTag
  <2> QED
    BY <1>1, <2>2, <2>3
<1>2. CASE ~\E t \in Thread : Asked(q, r, t)
  <2>1. \/ q = r /\ stage[r] = "unregister" /\ requests[q][r] = <<UnregisterOf(r)>>
        \/ q = r /\ stage[r] = "exit" /\ requests[q][r] = <<ExitOf(r)>>
    BY <1>2 DEF RequestsAsked
  <2>2. /\ requests[q][r] = <<UnregisterOf(r)>> => Head(requests[q][r]).tag = UnregTag
        /\ requests[q][r] = <<ExitOf(r)>> => Head(requests[q][r]).tag = ExitTag
    BY DEF UnregisterOf, ExitOf
  <2> QED
    BY <2>1, <2>2
<1> QED
  BY <1>1, <1>2

(* An order is served when it has been given.                              *)
LEMMA OrdersServed ==
  ASSUME ControlOK, TagsAgree, RequestsAsked, NEW r \in Rank
  PROVE  /\ ServeUnregister(r) => stage[r] = "unregister" /\ requests[r][r] = <<UnregisterOf(r)>>
         /\ ServeExit(r) => stage[r] = "exit" /\ requests[r][r] = <<ExitOf(r)>>
<1>1. UnregTag # ExitTag
  BY DEF UnregTag, ExitTag
<1> QED
  BY <1>1, MessageKinds DEF ServeUnregister, ServeExit, Receive

(* Threads start to read only when their rank may.                         *)
LEMMA ThreadStages ==
  ASSUME ControlOK, StagesFollow, NEW t \in Thread, ThreadStep(t)
  PROVE  StagesFollow'
<1>1. stage' = stage /\ loaded' = loaded
  BY ThreadKeeps DEF setup
<1>2. \A u \in Thread : pc'[u] # "idle" => pc[u] # "idle" \/ MayRead(HomeOf[u])
  <2> USE DEF ControlOK, Goto
  <2>1. ASSUME NEW pos, Call(t, pos)
        PROVE  \A u \in Thread : pc'[u] # "idle" => pc[u] # "idle" \/ MayRead(HomeOf[u])
    BY <2>1 DEF Call
  <2>2. ASSUME Continue(t) PROVE  \A u \in Thread : pc'[u] # "idle" => pc[u] # "idle"
    <3>1. ASSUME NEW s, Get(t, s), pc[t] # "idle"
          PROVE  \A u \in Thread : pc'[u] # "idle" => pc[u] # "idle"
      BY <3>1 DEF Get
    <3> QED
      BY <2>2, <3>1 DEF Continue, ReturnOwn, GetHit, GetMiss, LockSlot, CopyNuma, GetWindow, Ask,
                        ReceiveBlock, Return
  <2> QED
    BY <2>1, <2>2 DEF ThreadStep
<1>3. \A r : MayRead(r)' = MayRead(r)
  BY <1>1 DEF MayRead
<1>4. \A u \in Thread : pc'[u] # "idle" => MayRead(HomeOf[u])
  BY <1>2 DEF StagesFollow
<1> QED
  BY <1>1, <1>3, <1>4 DEF StagesFollow, AllClose, MayRead

(* Ranks close a grid when none of their threads reads, and go on from     *)
(* there when all ranks close it.                                          *)
LEMMA RankStages ==
  ASSUME ControlOK, StagesFollow, RequestsAsked, TagsAgree, NEW r \in Rank, RankStep(r)
  PROVE  StagesFollow'
<1> USE FullDistAssumption DEF ControlOK, Stage, Opening, StagesFollow, MayRead, AllClose, Enter, setup, choice, manager, network, receiver, locals
<1>1. CASE JoinReduction(r)
  BY <1>1 DEF JoinReduction
<1>10. CASE NotInitialized(r)
  BY <1>10 DEF NotInitialized
<1>2. CASE Reduce(r)
  BY <1>2 DEF Reduce
<1>3. CASE Register(r)
  BY <1>3 DEF Register
<1>4. CASE Close(r)
  BY <1>4 DEF Close
<1>11. CASE EndOpen(r)
  BY <1>11 DEF EndOpen
<1>5. CASE UnregisterReceiver(r)
  BY <1>5 DEF UnregisterReceiver
<1>6. CASE Finalize(r)
  BY <1>6 DEF Finalize
<1>7. CASE ServeUnregister(r)
  <2>1. stage[r] = "unregister"
    BY <1>7, OrdersServed
  <2> QED
    BY <1>7, <2>1 DEF ServeUnregister, Receive
<1>8. CASE ServeExit(r)
  <2>1. stage[r] = "exit"
    BY <1>8, OrdersServed
  <2> QED
    BY <1>8, <2>1 DEF ServeExit, Receive
<1>9. ASSUME NEW q \in Rank, ServeBlock(r, q) PROVE StagesFollow'
  BY <1>9 DEF ServeBlock, Receive
<1> QED
  BY <1>1, <1>2, <1>3, <1>4, <1>5, <1>6, <1>7, <1>8, <1>9, <1>10, <1>11 DEF RankStep, Proceed, Communicate

(* Threads leave the tags alone.                                           *)
LEMMA ThreadTags ==
  ASSUME TagsAgree, NEW t \in Thread, ThreadStep(t)
  PROVE  TagsAgree'
BY ThreadKeeps DEF TagsAgree

(* The first rank out of the reduction finds the tag, the others the same. *)
LEMMA RankTags ==
  ASSUME ControlOK, TagsAgree, RequestsAsked, NEW r \in Rank, RankStep(r)
  PROVE  TagsAgree'
<1> USE DEF ControlOK, Stage, Opening, TagsAgree, Enter, setup, choice, manager, network, receiver, locals
<1>1. CASE NotInitialized(r) \/ JoinReduction(r)
  BY <1>1 DEF NotInitialized, JoinReduction
<1>2. CASE Reduce(r)
  BY <1>2, CommonTagFacts DEF Reduce
<1>3. CASE Register(r)
  BY <1>3 DEF Register
<1>4. CASE EndOpen(r) \/ Close(r)
  BY <1>4 DEF EndOpen, Close
<1>5. CASE UnregisterReceiver(r)
  BY <1>5 DEF UnregisterReceiver
<1>6. CASE Finalize(r)
  BY <1>6 DEF Finalize
<1>7. CASE ServeUnregister(r)
  <2>1. stage[r] = "unregister"
    BY <1>7, OrdersServed
  <2> QED
    BY <1>7, <2>1 DEF ServeUnregister, Receive
<1>8. CASE ServeExit(r)
  <2>1. stage[r] = "exit"
    BY <1>8, OrdersServed
  <2> QED
    BY <1>8, <2>1 DEF ServeExit, Receive
<1>9. ASSUME NEW q \in Rank, ServeBlock(r, q) PROVE TagsAgree'
  BY <1>9 DEF ServeBlock, Receive
<1> QED
  BY <1>1, <1>2, <1>3, <1>4, <1>5, <1>6, <1>7, <1>8, <1>9 DEF RankStep, Proceed, Communicate

(* Nor does what it is told, as long as its rank keeps its tag.            *)
LEMMA AsksKept ==
  ASSUME grid' = grid, NEW t, NEW q, NEW r, Asks(t, q, r),
         pc'[t] = "reply", index'[t] = index[t]
  PROVE  /\ Asks(t, q, r)'
         /\ PlaceOf(WantedBlock(t))' = PlaceOf(WantedBlock(t))
         /\ memory' = memory =>
               (memory[r][PlaceOf(WantedBlock(t))])' = memory[r][PlaceOf(WantedBlock(t))]
         /\ tag' = tag => QuestionOf(t)' = QuestionOf(t)
BY AskedKept DEF Asks, QuestionOf

(* Messages stay what they are while their threads wait for the answer.    *)
LEMMA AskedStays ==
  ASSUME grid' = grid, NEW q \in Rank, NEW r \in Rank, NEW t \in Thread,
         Asked(q, r, t), pc'[t] = "reply", index'[t] = index[t], tag'[q] = tag[q],
         requests'[q][r] = requests[q][r], replies'[r][q] = replies[r][q]
  PROVE  Asked(q, r, t)'
<1>1. /\ Asks(t, q, r) /\ HomeOf[t] = q
      /\ requests[q][r] = <<[tag |-> tag[q], offset |-> PlaceOf(WantedBlock(t))]>>
      /\ replies[r][q] = <<>>
  BY DEF Asked, Asks, QuestionOf
<1>2. Asks(t, q, r)' /\ PlaceOf(WantedBlock(t))' = PlaceOf(WantedBlock(t))
  BY <1>1, AsksKept
<1> QED
  BY <1>1, <1>2 DEF Asked, QuestionOf

(* The same for answers.                                                   *)
LEMMA AnsweredStays ==
  ASSUME grid' = grid, memory' = memory, NEW q \in Rank, NEW r \in Rank, NEW t \in Thread,
         Answered(q, r, t), pc'[t] = "reply", index'[t] = index[t], replies'[q][r] = replies[q][r]
  PROVE  Answered(q, r, t)'
BY AsksKept DEF Answered

(* A step without messages.                                                *)
LEMMA QuietMessages ==
  ASSUME RequestsAsked, RepliesAsked,
         UNCHANGED <<grid, memory, stage, tag, requests, replies>>,
         \A u \in Thread : pc[u] = "reply" => pc'[u] = "reply" /\ index'[u] = index[u]
  PROVE  RequestsAsked' /\ RepliesAsked'
<1>1. ASSUME NEW q \in Rank, NEW r \in Rank, NEW t \in Thread, Asked(q, r, t)
      PROVE  Asked(q, r, t)'
  <2>1. pc[t] = "reply"
    BY <1>1 DEF Asked, Asks
  <2> QED
    BY <1>1, <2>1, AskedStays
<1>2. ASSUME NEW q \in Rank, NEW r \in Rank, NEW t \in Thread, Answered(q, r, t)
      PROVE  Answered(q, r, t)'
  <2>1. pc[t] = "reply"
    BY <1>2 DEF Answered, Asks
  <2> QED
    BY <1>2, <2>1, AnsweredStays
<1> QED
  BY <1>1, <1>2 DEF RequestsAsked, RepliesAsked, UnregisterOf, ExitOf

(* A rank that asks nothing has no question and no answer under way.       *)
LEMMA NobodyAsks ==
  ASSUME RequestsAsked, RepliesAsked, NEW q \in Rank,
         \A u \in Thread : ~(pc[u] = "reply" /\ HomeOf[u] = q)
  PROVE  \A r \in Rank :
            /\ replies[r][q] = <<>>
            /\ requests[q][r] # <<>> => q = r /\ stage[r] \in {"unregister", "exit"}
<1>1. \A r \in Rank, t \in Thread : ~Asked(q, r, t) /\ ~Answered(r, q, t)
  BY DEF Asked, Answered, Asks
<1> QED
  BY <1>1 DEF RequestsAsked, RepliesAsked

(* A queue of one message.                                                 *)
LEMMA AppendToNone ==
  ASSUME NEW m
  PROVE  Append(<<>>, m) = <<m>> /\ Tail(<<m>>) = <<>> /\ Head(<<m>>) = m
OBVIOUS

(* A question is sent when nothing is under way.                           *)
LEMMA AskMessages ==
  ASSUME Protocol, NEW t \in Thread, Ask(t)
  PROVE  RequestsAsked' /\ RepliesAsked'
<1> USE DEF Protocol
<1>0. PICK h, d : h = HomeOf[t] /\ d = RankOf(WantedBlock(t))
  OBVIOUS
<1>1. /\ UNCHANGED <<grid, memory, stage, tag, index, replies>> /\ pc[t] = "ask" /\ h \in Rank
      /\ stage[h] = "open" /\ sendRecvMutex[h] = NoThread
      /\ pc' = [pc EXCEPT ![t] = "reply"]
      /\ requests' = [requests EXCEPT ![h][d] = Append(@, QuestionOf(t))]
  BY <1>0, FullDistAssumption DEF Ask, setup, choice, receiver, locals, Goto, Send, QuestionOf, StagesFollow, MayRead
<1>2. \A u \in Thread : ~(pc[u] = "reply" /\ HomeOf[u] = h)
  BY <1>1, FullDistAssumption DEF MutexesHeld
<1>3. \A r \in Rank : replies[r][h] = <<>> /\ requests[h][r] = <<>>
  BY <1>1, <1>2, NobodyAsks
<1>4. \A u \in Thread : pc[u] = "reply" => pc'[u] = "reply" /\ index'[u] = index[u] /\ HomeOf[u] # h
  BY <1>1, <1>2 DEF ControlOK
<1>5. \A q, r \in Rank : q # h \/ r # d => requests'[q][r] = requests[q][r]
  BY <1>1 DEF ControlOK
<1>6. ASSUME NEW q \in Rank, NEW r \in Rank, NEW u \in Thread, Asked(q, r, u)
      PROVE  Asked(q, r, u)'
  <2>1. pc[u] = "reply" /\ HomeOf[u] = q
    BY <1>6 DEF Asked, Asks
  <2> QED
    BY <1>1, <1>4, <1>5, <1>6, <2>1, AskedStays
<1>7. ASSUME NEW q \in Rank, NEW r \in Rank, NEW u \in Thread, Answered(q, r, u)
      PROVE  Answered(q, r, u)'
  <2>1. pc[u] = "reply"
    BY <1>7 DEF Answered, Asks
  <2> QED
    BY <1>1, <1>4, <1>7, <2>1, AnsweredStays
<1>8. ASSUME d \in Rank PROVE Asked(h, d, t)'
  <2>1. pc'[t] = "reply" /\ requests'[h][d] = Append(requests[h][d], QuestionOf(t))
    BY <1>1, <1>8 DEF ControlOK
  <2>2. requests'[h][d] = <<QuestionOf(t)>> /\ replies'[d][h] = <<>>
    BY <1>1, <1>3, <1>8, <2>1, AppendToNone
  <2>3. RankOf(WantedBlock(t))' = d /\ PlaceOf(WantedBlock(t))' = PlaceOf(WantedBlock(t))
    BY <1>0, <1>1, AskedKept
  <2>4. QuestionOf(t)' = QuestionOf(t)
    BY <1>1, <2>3 DEF QuestionOf
  <2> QED
    BY <2>1, <2>2, <2>3, <2>4, <1>0 DEF Asked, Asks
<1>9. RequestsAsked'
  <2>1. ASSUME NEW q \in Rank, NEW r \in Rank, ~(q = h /\ r = d)
        PROVE  \/ requests'[q][r] = <<>>
               \/ \E u \in Thread : Asked(q, r, u)'
               \/ q = r /\ stage'[r] = "unregister" /\ requests'[q][r] = <<UnregisterOf(r)'>>
               \/ q = r /\ stage'[r] = "exit" /\ requests'[q][r] = <<ExitOf(r)'>>
    BY <2>1, <1>1, <1>5, <1>6 DEF RequestsAsked, UnregisterOf, ExitOf
  <2> QED
    BY <2>1, <1>8 DEF RequestsAsked
<1>10. RepliesAsked'
  BY <1>1, <1>7 DEF RepliesAsked
<1> QED
  BY <1>9, <1>10

(* An answer is received by the thread that waits for it.                  *)
LEMMA ReceiveMessages ==
  ASSUME Protocol, NEW t \in Thread, ReceiveBlock(t)
  PROVE  RequestsAsked' /\ RepliesAsked'
<1> USE DEF Protocol
<1>0. PICK h, d : h = HomeOf[t] /\ d = RankOf(WantedBlock(t))
  OBVIOUS
<1>1. /\ UNCHANGED <<grid, memory, stage, tag, index, requests>> /\ pc[t] = "reply" /\ h \in Rank
      /\ pc' = [pc EXCEPT ![t] = "read"]
      /\ replies[d][h] # <<>>
      /\ replies' = [replies EXCEPT ![d][h] = Tail(@)]
  BY <1>0, FullDistAssumption DEF ReceiveBlock, setup, choice, receiver, locals, Goto
<1>2. \A u \in Thread : pc[u] = "reply" /\ u # t => pc'[u] = "reply" /\ index'[u] = index[u]
  BY <1>1 DEF ControlOK
<1>3. \A q \in Rank, r \in Rank : q # d \/ r # h => replies'[q][r] = replies[q][r]
  BY <1>1 DEF ControlOK
<1>4. ASSUME NEW q \in Rank, NEW r \in Rank, NEW u \in Thread, Asked(q, r, u)
      PROVE  Asked(q, r, u)'
  <2>1. pc[u] = "reply" /\ HomeOf[u] = q /\ RankOf(WantedBlock(u)) = r /\ replies[r][q] = <<>>
    BY <1>4 DEF Asked, Asks
  <2>2. ~(r = d /\ q = h)
    BY <1>1, <2>1
  <2>3. u # t
    BY <1>0, <2>1, <2>2
  <2>4. replies'[r][q] = replies[r][q]
    BY <1>3, <2>2
  <2> QED
    BY <1>1, <1>2, <1>4, <2>1, <2>3, <2>4, AskedStays
<1>5. RequestsAsked'
  BY <1>1, <1>4 DEF RequestsAsked, UnregisterOf, ExitOf
<1>6. ASSUME NEW q \in Rank, NEW r \in Rank, ~(q = d /\ r = h)
      PROVE  replies'[q][r] = <<>> \/ \E u \in Thread : Answered(q, r, u)'
  <2>1. ASSUME NEW u \in Thread, Answered(q, r, u) PROVE Answered(q, r, u)'
    <3>1. pc[u] = "reply" /\ HomeOf[u] = r /\ RankOf(WantedBlock(u)) = q
      BY <2>1 DEF Answered, Asks
    <3>2. u # t
      BY <1>0, <1>6, <3>1
    <3> QED
      BY <1>1, <1>2, <1>3, <1>6, <2>1, <3>1, <3>2, AnsweredStays
  <2> QED
    BY <1>3, <1>6, <2>1 DEF RepliesAsked
<1>7. d \in Rank => replies'[d][h] = <<>>
  <2> SUFFICES ASSUME d \in Rank PROVE replies'[d][h] = <<>>
    OBVIOUS
  <2>1. replies'[d][h] = Tail(replies[d][h])
    BY <1>1 DEF ControlOK
  <2>2. \E m : replies[d][h] = <<m>>
    BY <1>1 DEF RepliesAsked, Answered
  <2> QED
    BY <2>1, <2>2, AppendToNone
<1> QED
  BY <1>5, <1>6, <1>7 DEF RepliesAsked

(* The messages of threads.                                                *)
LEMMA ThreadMessages ==
  ASSUME Protocol, NEW t \in Thread, ThreadStep(t)
  PROVE  RequestsAsked' /\ RepliesAsked'
<1> DEFINE Quiet == /\ UNCHANGED <<requests, replies>>
                    /\ \A u \in Thread : pc[u] = "reply" => pc'[u] = "reply" /\ index'[u] = index[u]
<1> USE DEF Protocol
<1>1. CASE Ask(t)
  BY <1>1, AskMessages
<1>2. CASE ReceiveBlock(t)
  BY <1>2, ReceiveMessages
<1>3. ASSUME ~Ask(t), ~ReceiveBlock(t) PROVE Quiet
  <2> USE DEF ControlOK, Goto, network, locals
  <2>1. ASSUME NEW s, Get(t, s), pc[t] = "get" PROVE Quiet
    BY <2>1 DEF Get
  <2>2. CASE GetHit(t) \/ GetMiss(t)
    BY <2>1, <2>2 DEF GetHit, GetMiss
  <2>3. CASE ReturnOwn(t) \/ Return(t)
    BY <2>3 DEF ReturnOwn, Return
  <2>4. CASE LockSlot(t)
    BY <2>4 DEF LockSlot
  <2>5. CASE CopyNuma(t) \/ GetWindow(t)
    BY <2>5 DEF CopyNuma, GetWindow
  <2>6. ASSUME NEW pos \in Position, Call(t, pos) PROVE Quiet
    BY <2>6 DEF Call
  <2> QED
    BY <1>3, <2>2, <2>3, <2>4, <2>5, <2>6 DEF ThreadStep, Continue
<1>4. CASE Quiet
  BY <1>4, ThreadKeeps, QuietMessages DEF setup, choice
<1> QED
  BY <1>1, <1>2, <1>3, <1>4

(* The messages of ranks, and the answers of communication threads.        *)
LEMMA RankMessages ==
  ASSUME Protocol, NEW r \in Rank, RankStep(r)
  PROVE  RequestsAsked' /\ RepliesAsked'
<1> USE DEF Protocol
<1>1. /\ UNCHANGED <<grid, memory, pc, index, sendRecvMutex>>
      /\ \A u \in Thread : pc[u] = "reply" => stage[HomeOf[u]] = "open" /\ HomeOf[u] \in Rank
  BY RankKeeps, FullDistAssumption DEF setup, choice, locals, StagesFollow, MayRead
<1>2. ASSUME NEW q \in Rank, NEW p \in Rank, NEW u \in Thread, Asked(q, p, u),
             requests'[q][p] = requests[q][p], replies'[p][q] = replies[p][q], tag'[q] = tag[q]
      PROVE  Asked(q, p, u)'
  <2>1. pc[u] = "reply"
    BY <1>2 DEF Asked, Asks
  <2> QED
    BY <1>1, <1>2, <2>1, AskedStays
<1>3. ASSUME NEW q \in Rank, NEW p \in Rank, NEW u \in Thread, Answered(q, p, u),
             replies'[q][p] = replies[q][p]
      PROVE  Answered(q, p, u)'
  <2>1. pc[u] = "reply"
    BY <1>3 DEF Answered, Asks
  <2> QED
    BY <1>1, <1>3, <2>1, AnsweredStays
<1>4. ASSUME NEW q \in Rank, NEW p \in Rank, NEW u \in Thread, Asked(q, p, u)
      PROVE  stage[q] = "open"
  BY <1>1, <1>4 DEF Asked, Asks
<1>5. ASSUME UNCHANGED <<requests, replies>>, stage[r] \notin {"unregister", "exit"},
             \A q \in Rank : q # r => stage'[q] = stage[q] /\ tag'[q] = tag[q],
             stage[r] = "open" => tag'[r] = tag[r]
      PROVE  RequestsAsked' /\ RepliesAsked'
  <2>1. ASSUME NEW q \in Rank, NEW p \in Rank, NEW t \in Thread, Asked(q, p, t)
        PROVE  Asked(q, p, t)'
    BY <1>2, <1>4, <1>5, <2>1
  <2>2. \A q \in Rank : stage[q] \in {"unregister", "exit"} =>
            /\ stage'[q] = stage[q] /\ UnregisterOf(q)' = UnregisterOf(q) /\ ExitOf(q)' = ExitOf(q)
    BY <1>5 DEF UnregisterOf, ExitOf
  <2>3. RequestsAsked'
    BY <1>5, <2>1, <2>2 DEF RequestsAsked
  <2> QED
    BY <1>3, <1>5, <2>3 DEF RepliesAsked
<1>6. CASE NotInitialized(r) \/ JoinReduction(r) \/ Reduce(r) \/ Register(r) \/ EndOpen(r) \/ Close(r)
  BY <1>5, <1>6 DEF NotInitialized, JoinReduction, Reduce, Register, EndOpen, Close, ControlOK, Enter, network, receiver
<1>7. CASE UnregisterReceiver(r) \/ Finalize(r)
  <2>1. PICK m : /\ requests' = [requests EXCEPT ![r][r] = Append(@, m)]
                 /\ \/ stage[r] = "closing" /\ stage'[r] = "unregister" /\ m = UnregisterOf(r)
                    \/ stage[r] = "closed" /\ stage'[r] = "exit" /\ m = ExitOf(r)
    BY <1>7 DEF UnregisterReceiver, Finalize, Send, UnregisterOf, ExitOf, Enter, ControlOK
  <2>2. UNCHANGED <<replies, tag>> /\ \A q \in Rank : q # r => stage'[q] = stage[q]
    BY <1>7 DEF UnregisterReceiver, Finalize, Enter, ControlOK
  <2>3. requests[r][r] = <<>>
    <3>1. \A u \in Thread : ~(pc[u] = "reply" /\ HomeOf[u] = r)
      BY <1>1, <2>1
    <3> QED
      BY <2>1, <3>1, NobodyAsks
  <2>4. requests'[r][r] = <<m>>
    <3>1. requests'[r][r] = Append(requests[r][r], m)
      BY <2>1 DEF ControlOK
    <3> QED
      BY <2>3, <3>1, AppendToNone
  <2>5. \A q \in Rank, p \in Rank : q # r \/ p # r => requests'[q][p] = requests[q][p]
    BY <2>1 DEF ControlOK
  <2>6. UnregisterOf(r)' = UnregisterOf(r) /\ ExitOf(r)' = ExitOf(r)
    BY <2>2 DEF UnregisterOf, ExitOf
  <2>7. ASSUME NEW q \in Rank, NEW p \in Rank, q # r \/ p # r
        PROVE  \/ requests'[q][p] = <<>>
               \/ \E t \in Thread : Asked(q, p, t)'
               \/ q = p /\ stage'[p] = "unregister" /\ requests'[q][p] = <<UnregisterOf(p)'>>
               \/ q = p /\ stage'[p] = "exit" /\ requests'[q][p] = <<ExitOf(p)'>>
    BY <1>2, <2>2, <2>5, <2>7 DEF RequestsAsked, UnregisterOf, ExitOf
  <2>8. RequestsAsked'
    BY <2>1, <2>4, <2>6, <2>7 DEF RequestsAsked
  <2> QED
    BY <1>3, <2>2, <2>8 DEF RepliesAsked
<1>8. CASE ServeUnregister(r) \/ ServeExit(r)
  <2>1. /\ requests[r][r] = <<UnregisterOf(r)>> \/ requests[r][r] = <<ExitOf(r)>>
        /\ stage[r] \in {"unregister", "exit"}
    BY <1>8, OrdersServed
  <2>2. /\ UNCHANGED <<replies, tag>> /\ \A q \in Rank : q # r => stage'[q] = stage[q]
        /\ requests' = [requests EXCEPT ![r][r] = Tail(@)]
    BY <1>8 DEF ServeUnregister, ServeExit, Receive, Enter, ControlOK
  <2>3. requests'[r][r] = <<>>
    <3>1. requests'[r][r] = Tail(requests[r][r])
      BY <2>2 DEF ControlOK
    <3> QED
      BY <2>1, <3>1, AppendToNone
  <2>4. \A q \in Rank, p \in Rank : q # r \/ p # r => requests'[q][p] = requests[q][p]
    BY <2>2 DEF ControlOK
  <2>5. RequestsAsked'
    BY <1>2, <2>2, <2>3, <2>4 DEF RequestsAsked, UnregisterOf, ExitOf
  <2> QED
    BY <1>3, <2>2, <2>5 DEF RepliesAsked
<1>9. ASSUME NEW q \in Rank, ServeBlock(r, q) PROVE RequestsAsked' /\ RepliesAsked'
  <2> DEFINE m == Head(requests[q][r])
             known == m.tag = tag[r] /\ tag[r] \in receivers[r]
  <2>1. /\ UNCHANGED <<stage, tag>> /\ requests[q][r] # <<>> /\ m.tag \notin {UnregTag, ExitTag}
        /\ requests' = [requests EXCEPT ![q][r] = Tail(@)]
        /\ replies' = IF known THEN [replies EXCEPT ![r][q] = Append(@, memory[r][m.offset])]
                      ELSE replies
    BY <1>9 DEF ServeBlock, Receive, receiver
  <2>2. PICK t \in Thread : Asked(q, r, t)
    BY <2>1, MessageKinds
  <2>3. /\ requests[q][r] = <<QuestionOf(t)>> /\ replies[r][q] = <<>>
        /\ Asks(t, q, r) /\ pc[t] = "reply"
    BY <2>2 DEF Asked, Asks
  <2>4. requests'[q][r] = <<>>
    <3>1. requests'[q][r] = Tail(requests[q][r])
      BY <2>1 DEF ControlOK
    <3> QED
      BY <2>3, <3>1, AppendToNone
  <2>5. m.offset = PlaceOf(WantedBlock(t))
    BY <2>3, AppendToNone DEF QuestionOf
  <2>6. \/ replies'[r][q] = <<>>
        \/ /\ replies'[r][q] = <<memory[r][PlaceOf(WantedBlock(t))]>>
           /\ Head(replies'[r][q]) = memory[r][PlaceOf(WantedBlock(t))]
    <3> HIDE DEF m
    <3>1. replies'[r][q] = replies[r][q] \/ replies'[r][q] = Append(replies[r][q], memory[r][m.offset])
      BY <2>1 DEF ControlOK
    <3> QED
      BY <2>3, <2>5, <3>1, AppendToNone
  <2>7. /\ \A a \in Rank, b \in Rank : a # q \/ b # r => requests'[a][b] = requests[a][b]
        /\ \A a \in Rank, b \in Rank : a # r \/ b # q => replies'[a][b] = replies[a][b]
    BY <2>1 DEF ControlOK
  <2>8. Answered(r, q, t)' \/ replies'[r][q] = <<>>
    <3>1. /\ Asks(t, q, r)'
          /\ (memory[r][PlaceOf(WantedBlock(t))])' = memory[r][PlaceOf(WantedBlock(t))]
      BY <1>1, <2>3, AsksKept
    <3> QED
      BY <2>6, <3>1 DEF Answered
  <2>9. RequestsAsked'
    <3>1. ASSUME NEW a \in Rank, NEW b \in Rank, a # q \/ b # r
          PROVE  \/ requests'[a][b] = <<>>
                 \/ \E u \in Thread : Asked(a, b, u)'
                 \/ a = b /\ stage'[b] = "unregister" /\ requests'[a][b] = <<UnregisterOf(b)'>>
                 \/ a = b /\ stage'[b] = "exit" /\ requests'[a][b] = <<ExitOf(b)'>>
      BY <3>1, <1>2, <2>1, <2>7, SMTT(30) DEF RequestsAsked, UnregisterOf, ExitOf
    <3> QED
      BY <2>4, <3>1 DEF RequestsAsked
  <2> QED
    BY <1>3, <2>7, <2>8, <2>9 DEF RepliesAsked
<1> QED
  BY <1>6, <1>7, <1>8, <1>9 DEF RankStep, Proceed, Communicate

(* Nobody reads while blocks are loaded, if the ranks wait for each other. *)
LEMMA AllLoaded ==
  ASSUME OpenBarrier, Protocol, NEW t \in Thread, pc[t] # "idle"
  PROVE  \A r \in Rank : loaded[r] = Domain
BY DEF Protocol, StagesFollow, MayRead

(* Loading blocks disturbs no more than an answer that nobody waits for.   *)
LEMMA LoadProtocol ==
  ASSUME Protocol, NEW r \in Rank, NEW d \in Domain, LoadBlocks(r, d)
  PROVE  Protocol'
<1> USE DEF Protocol
<1>1. /\ UNCHANGED <<choice, manager, sendRecvMutex, network, stage, receiver, pc, locals>>
      /\ d \notin loaded[r] /\ loaded' = [loaded EXCEPT ![r] = @ \cup {d}]
      /\ DOMAIN memory' = DOMAIN memory
  BY DEF LoadBlocks
<1>2. ControlOK'
  BY <1>1 DEF ControlOK, choice, manager, network, receiver, locals
<1>3. MutexesHeld' /\ TagsAgree'
  BY <1>1 DEF MutexesHeld, Has, Uses, TagsAgree, manager, receiver, locals
<1>4. StagesFollow'
  BY <1>1 DEF StagesFollow, MayRead, AllClose, ControlOK
<1>5. ASSUME NEW q \in Rank, NEW p \in Rank, NEW t \in Thread, Asked(q, p, t)
      PROVE  Asked(q, p, t)'
  BY <1>1, <1>5, AskedStays DEF Asked, Asks, choice, network, receiver, locals
<1>6. RequestsAsked'
  BY <1>1, <1>5 DEF RequestsAsked, UnregisterOf, ExitOf, network, receiver
<1>7. ASSUME NEW q \in Rank, NEW p \in Rank, NEW t \in Thread, Answered(q, p, t)
      PROVE  Answered(q, p, t)'
  <2>1. Asks(t, p, q) /\ pc[t] = "reply" /\ replies[q][p] = <<Head(replies[q][p])>>
    BY <1>7 DEF Answered, Asks
  <2>2. ~OpenBarrier
    BY <1>1, <2>1, AllLoaded
  <2>3. Asks(t, p, q)'
    BY <1>1, <2>1, AsksKept DEF choice, locals
  <2> QED
    BY <1>1, <2>1, <2>2, <2>3 DEF Answered, network
<1>8. RepliesAsked'
  BY <1>1, <1>7 DEF RepliesAsked, network
<1> QED
  BY <1>2, <1>3, <1>4, <1>6, <1>8

(* Every step keeps the protocol.                                          *)
LEMMA ProtocolKept ==
  ASSUME Protocol, [Next]_vars
  PROVE  Protocol'
<1>1. CASE UNCHANGED vars
  <2>1. RequestsAsked' /\ RepliesAsked'
    BY <1>1, QuietMessages DEF vars, Protocol
  <2>2. ControlOK' /\ MutexesHeld'
    BY <1>1 DEF vars, Protocol, ControlOK, MutexesHeld, Has, Uses
  <2>3. StagesFollow' /\ TagsAgree'
    BY <1>1 DEF vars, Protocol, StagesFollow, MayRead, AllClose, TagsAgree
  <2> QED
    BY <2>1, <2>2, <2>3 DEF Protocol
<1>2. ASSUME NEW t \in Thread, ThreadStep(t) PROVE Protocol'
  BY <1>2, ThreadTypes, ThreadMutexes, ThreadStages, ThreadTags, ThreadMessages DEF Protocol
<1>3. ASSUME NEW r \in Rank, RankStep(r) PROVE Protocol'
  BY <1>3, RankTypes, RankMutexes, RankStages, RankTags, RankMessages DEF Protocol
<1>4. ASSUME NEW r \in Rank, NEW d \in Domain, LoadBlocks(r, d) PROVE Protocol'
  BY <1>4, LoadProtocol
<1> QED
  BY <1>1, <1>2, <1>3, <1>4, NextSteps

(* It holds at first.                                                      *)
LEMMA ProtocolInit == Init => Protocol
<1> SUFFICES ASSUME Init PROVE Protocol
  OBVIOUS
<1>1. ControlOK
  <2>1. 0 \in Slot
    BY FullDistAssumption DEF Slot
  <2>2. /\ grid \in { Opened(s.file) : s \in Setup } /\ byWindow \in BOOLEAN
        /\ started \in [Rank -> BOOLEAN]
        /\ nextTag \in [Rank -> Nat] /\ receivers \in [Rank -> SUBSET Nat]
        /\ DOMAIN memory = Rank
    <3>1. PICK s \in Setup :
            /\ grid = Opened(s.file) /\ byWindow = s.byWindow /\ nextTag = s.nextTag
            /\ started = s.started /\ DOMAIN memory = Rank
            /\ receivers = [r \in Rank |-> 0 .. s.nextTag[r] - 1]
      BY DEF Init
    <3>2. s.byWindow \in BOOLEAN /\ s.started \in [Rank -> BOOLEAN] /\ s.nextTag \in [Rank -> Nat]
      BY FullDistAssumption
    <3> QED
      BY <3>1, <3>2
  <2> QED
    <3>1. stage \in [Rank -> Stage] /\ loaded \in [Rank -> SUBSET Domain]
      BY DEF Init, Stage, Opening
    <3>2. /\ cacheMutex \in [Rank -> [Domain -> Thread \cup {NoThread}]]
          /\ blockMutex \in [Rank -> [Domain -> [Slot -> Thread \cup {NoThread}]]]
          /\ sendRecvMutex \in [Rank -> Thread \cup {NoThread}]
      BY DEF Init
    <3>3. /\ tag \in [Rank -> Nat \cup {-1}]
          /\ lock \in [Rank -> BOOLEAN] /\ dropped \in BOOLEAN
          /\ pc \in [Thread -> PC]
      BY DEF Init, PC
    <3>4. /\ position \in [Thread -> Position \cup {<<>>}]
          /\ slot \in [Thread -> Slot] /\ DOMAIN index = Thread
      BY <2>1 DEF Init
    <3>5. \A m \in {requests, replies} : DOMAIN m = Rank /\ \A q \in Rank : DOMAIN m[q] = Rank
      BY DEF Init
    <3> QED
      BY <2>2, <3>1, <3>2, <3>3, <3>4, <3>5 DEF ControlOK
<1>2. MutexesHeld
  BY FullDistAssumption DEF Init, MutexesHeld, Has, Uses, SlotPC
<1>3. StagesFollow
  BY DEF Init, StagesFollow, Opening
<1>4. TagsAgree
  <2>1. \A r \in Rank : nextTag[r] \in 0 .. UnregTag - 1
    BY FullDistAssumption DEF Init
  <2>2. \A r \in Rank : nextTag[r] < UnregTag
    <3>1. UnregTag \in Nat
      BY DEF UnregTag
    <3> QED
      BY <2>1, <3>1
  <2>3. \A r \in Rank : tag[r] = -1 /\ stage[r] = "new"
    BY DEF Init
  <2> QED
    BY <2>2, <2>3 DEF TagsAgree
<1>5. RequestsAsked /\ RepliesAsked
  BY DEF Init, RequestsAsked, RepliesAsked
<1> QED
  BY <1>1, <1>2, <1>3, <1>4, <1>5 DEF Protocol

(* What the threads and the ranks rely on while they open, read and close  *)
(* a grid, whatever is in the blocks: mutexes, stages, tags and messages   *)
(* fit together.                                                           *)
THEOREM ProtocolHolds == Spec => []Protocol
<1>1. Protocol /\ [Next]_vars => Protocol'
  BY ProtocolKept
<1> QED
  BY <1>1, ProtocolInit, PTL DEF Spec

(* A block that arrives at a rank meets the only thread that waits, and    *)
(* with a barrier after open() is the one it asked for, although the       *)
(* message names neither thread nor block.                                 *)
THEOREM RepliesFindTheirThreadHolds == Spec => []RepliesFindTheirThread
<1>1. Protocol => RepliesFindTheirThread
  <2> SUFFICES ASSUME Protocol, NEW q \in Rank, NEW r \in Rank, replies[q][r] # <<>>
               PROVE  \E t \in Thread :
                         /\ pc[t] = "reply" /\ HomeOf[t] = r
                         /\ replies[q][r] = <<Head(replies[q][r])>>
                         /\ OpenBarrier => Head(replies[q][r]) = memory[q][PlaceOf(WantedBlock(t))]
                         /\ RankOf(WantedBlock(t)) = q
                         /\ \A u \in Thread : pc[u] = "reply" /\ HomeOf[u] = r => u = t
    BY DEF RepliesFindTheirThread
  <2>1. PICK t \in Thread : Answered(q, r, t)
    BY DEF Protocol, RepliesAsked
  <2>2. \A u \in Thread : pc[u] = "reply" /\ HomeOf[u] = r => u = sendRecvMutex[r]
    BY DEF Protocol, MutexesHeld
  <2> QED
    BY <2>1, <2>2 DEF Answered, Asks
<1> QED
  BY <1>1, ProtocolHolds, PTL

(* With a barrier after open() a question finds its receiver: tags agree,  *)
(* and all ranks wait for each other before they take a receiver away.     *)
LEMMA KnownReceiver ==
  ASSUME OpenBarrier, Protocol, NEW q \in Rank, NEW r \in Rank, NEW t \in Thread, Asked(q, r, t)
  PROVE  /\ Head(requests[q][r]).tag = tag[r]
         /\ tag[r] \in receivers[r]
         /\ stage[r] # "stopped"
<1> USE DEF Protocol
<1>1. /\ HomeOf[t] = q /\ pc[t] = "reply"
      /\ Head(requests[q][r]).tag = tag[q]
  BY AppendToNone DEF Asked, Asks, QuestionOf
<1>2. stage[q] = "open" /\ stage[r] \notin Opening
  BY <1>1 DEF StagesFollow, MayRead
<1>3. stage[r] \in {"open", "closing"}
  BY <1>2 DEF StagesFollow, AllClose, ControlOK, Stage, Opening
<1>4. tag[r] \in receivers[r] /\ tag[q] # -1 /\ tag[r] # -1
  BY <1>2, <1>3 DEF TagsAgree
<1>5. tag[q] = tag[r]
  BY <1>4 DEF TagsAgree
<1> QED
  BY <1>1, <1>3, <1>4, <1>5

(* If the ranks wait for each other after opening a grid, no message of    *)
(* the level is ever dropped, and none is left when a communication thread *)
(* stops.                                                                  *)
THEOREM NothingDroppedHolds == ASSUME OpenBarrier PROVE Spec => []NothingDropped
<1> DEFINE Kept == Protocol /\ dropped = FALSE
<1>1. Init => Kept
  BY ProtocolInit DEF Init
<1>2. Kept /\ [Next]_vars => Kept'
  <2> SUFFICES ASSUME Kept, [Next]_vars PROVE dropped' = FALSE
    BY ProtocolKept
  <2>1. CASE UNCHANGED vars
    BY <2>1 DEF vars
  <2>2. ASSUME NEW t \in Thread, ThreadStep(t) PROVE dropped' = FALSE
    BY <2>2, ThreadKeeps
  <2>3. ASSUME NEW r \in Rank, RankStep(r) PROVE dropped' = FALSE
    <3>1. ASSUME NEW q \in Rank, ServeBlock(r, q) PROVE dropped' = FALSE
      <4>1. PICK t \in Thread : Asked(q, r, t)
        BY <3>1, MessageKinds DEF Protocol, ServeBlock, Receive
      <4>2. Head(requests[q][r]).tag = tag[r] /\ tag[r] \in receivers[r]
        BY <4>1, KnownReceiver
      <4> QED
        BY <3>1, <4>2 DEF ServeBlock
    <3> QED
      BY <2>3, <3>1 DEF RankStep, Proceed, Communicate, NotInitialized, JoinReduction, Reduce, Register,
         EndOpen, Close, UnregisterReceiver, Finalize, ServeUnregister, ServeExit, network
  <2>4. ASSUME NEW r \in Rank, NEW d \in Domain, LoadBlocks(r, d) PROVE dropped' = FALSE
    BY <2>4 DEF LoadBlocks, network
  <2> QED
    BY <2>1, <2>2, <2>3, <2>4, NextSteps
<1>3. Kept => NothingDropped
  <2> SUFFICES ASSUME Kept, NEW q \in Rank, NEW r \in Rank, stage[r] = "stopped",
                      requests[q][r] # <<>>
               PROVE  FALSE
    BY DEF NothingDropped
  <2>1. PICK t \in Thread : Asked(q, r, t)
    BY DEF Protocol, RequestsAsked
  <2> QED
    BY <2>1, KnownReceiver
<1> QED
  BY <1>1, <1>2, <1>3, PTL DEF Spec

-----------------------------------------------------------------------------
(* Products grow with their factors.                                       *)
LEMMA Products ==
  ASSUME NEW a \in Int, NEW b \in Int, NEW c \in Nat, a <= b
  PROVE  a * c <= b * c
OBVIOUS

(* The multiple of a that the quotient names is the nearest to e of those  *)
(* in the range.                                                           *)
LEMMA NearestMultiple ==
  ASSUME NEW e \in Int, NEW a \in Nat \ {0}, NEW n \in Nat \ {0}, NEW k \in 0 .. n - 1,
         NEW v, v = Clamped((2 * e + a) \div (2 * a), n)
  PROVE  v \in 0 .. n - 1 /\ Abs(e - v * a) <= Abs(e - k * a)
<1> DEFINE c == (2 * e + a) \div (2 * a)
<1>1. PICK rem \in 0 .. 2 * a - 1 : c \in Int /\ 2 * e + a = c * (2 * a) + rem
  <2>1. 2 * e + a \in Int /\ 2 * a \in Nat \ {0}
    OBVIOUS
  <2> QED
    BY <2>1, Division
<1>2. v = IF c < 0 THEN 0 ELSE IF c >= n THEN n - 1 ELSE c
  BY DEF Clamped
<1> HIDE DEF c
<1>3. v \in 0 .. n - 1
  BY <1>1, <1>2
<1>4. k \in Int /\ v \in Int /\ k * a \in Int /\ v * a \in Int /\ c * a \in Int /\ rem \in Int
  BY <1>1, <1>3
<1>5. 2 * e + a = 2 * (c * a) + rem
  BY <1>1
<1>6. CASE c < 0
  <2>1. v * a = 0 /\ 0 <= k * a
    BY <1>2, <1>6
  <2>2. c * a <= (-1) * a
    BY <1>1, <1>6, Products
  <2>3. e < 0
    BY <1>1, <1>4, <1>5, <2>2
  <2>4. PICK x \in Int, y \in Int : x = v * a /\ y = k * a
    BY <1>4
  <2>5. Abs(e - x) <= Abs(e - y)
    BY <2>1, <2>3, <2>4 DEF Abs
  <2> QED
    BY <1>3, <2>4, <2>5
<1>7. CASE c >= n
  <2>1. v = n - 1
    BY <1>1, <1>2, <1>7
  <2>2. n * a <= c * a /\ k * a <= (n - 1) * a /\ (n - 1) * a = n * a - a /\ n * a \in Int
    BY <1>1, <1>7, Products
  <2>3. v * a <= e /\ k * a <= v * a
    BY <1>1, <1>4, <1>5, <2>1, <2>2
  <2> QED
    BY <1>3, <1>4, <2>3 DEF Abs
<1>8. CASE ~(c < 0) /\ ~(c >= n)
  <2>1. v = c
    BY <1>2, <1>8
  <2>2. CASE k = v
    BY <1>3, <1>4, <2>2 DEF Abs
  <2>3. CASE k > v
    <3>1. (v + 1) * a <= k * a /\ (v + 1) * a = v * a + a
      BY <1>4, <2>3, Products
    <3> QED
      BY <1>1, <1>3, <1>4, <1>5, <2>1, <3>1 DEF Abs
  <2>4. CASE k < v
    <3>1. k * a <= (v - 1) * a /\ (v - 1) * a = v * a - a
      BY <1>4, <2>4, Products
    <3> QED
      BY <1>1, <1>3, <1>4, <1>5, <2>1, <3>1 DEF Abs
  <2> QED
    BY <1>4, <2>2, <2>3, <2>4
<1> QED
  BY <1>1, <1>6, <1>7, <1>8

(* So a distance finds its cell, whichever way the coordinates go.         *)
LEMMA NearestCell ==
  ASSUME NEW D \in Int, NEW s \in Int, NEW n \in Nat \ {0}, NEW k \in 0 .. n - 1,
         NEW v, v = Clamped(Cells(D, s), n)
  PROVE  v \in 0 .. n - 1 /\ Abs(D - v * s) <= Abs(D - k * s)
<1>1. CASE s = 0
  <2>1. v = 0
    BY <1>1 DEF Cells, Clamped
  <2>2. D - v * s = D /\ D - k * s = D
    BY <1>1, <2>1
  <2>3. Abs(D) <= Abs(D)
    BY DEF Abs
  <2> QED
    BY <2>1, <2>2, <2>3
<1>2. CASE s > 0
  <2>1. Cells(D, s) = (2 * D + s) \div (2 * s) /\ s \in Nat \ {0}
    BY <1>2 DEF Cells, Sign, Abs
  <2> QED
    BY <2>1, NearestMultiple
<1>3. CASE s < 0
  <2>1. Cells(D, s) = (2 * (-D) + (-s)) \div (2 * (-s)) /\ -s \in Nat \ {0} /\ -D \in Int
    <3>1. 2 * D * (-1) = 2 * (-D)
      OBVIOUS
    <3> QED
      BY <1>3, <3>1 DEF Cells, Sign, Abs
  <2>2. v \in 0 .. n - 1 /\ Abs(-D - v * (-s)) <= Abs(-D - k * (-s))
    BY <2>1, NearestMultiple
  <2>3. \A x \in 0 .. n - 1 : -D - x * (-s) = -(D - x * s) /\ D - x * s \in Int
    OBVIOUS
  <2>4. \A y \in Int : Abs(-y) = Abs(y)
    BY DEF Abs
  <2> QED
    BY <2>2, <2>3, <2>4
<1> QED
  BY <1>1, <1>2, <1>3

-----------------------------------------------------------------------------
(* What a grid knows of its file.                                          *)
LEMMA OpenedFile ==
  ASSUME NEW g \in { Opened(s.file) : s \in Setup }
  PROVE  \E s \in Setup :
            /\ g = Opened(s.file)
            /\ g.size = s.file.size /\ g.size \in Seq(Nat \ {0})
            /\ g.roundRobin = s.file.roundRobin /\ g.roundRobin \in BOOLEAN
            /\ Index(g) = Index(s.file)
            /\ g.level = OpenedLevel(s.file)
<1>1. PICK s \in Setup : g = Opened(s.file)
  OBVIOUS
<1>2. /\ g.size = s.file.size /\ g.roundRobin = s.file.roundRobin
      /\ g.level = OpenedLevel(s.file)
  BY <1>1 DEF Opened
<1>3. Index(g) = Index(s.file)
  BY <1>2 DEF Index
<1> QED
  BY <1>1, <1>2, <1>3, FileAssumption, FullDistAssumption

(* The numbers of a dimension, as open() derives them.                     *)
LEMMA LevelOf ==
  ASSUME NEW s \in Setup, NEW i \in DOMAIN s.file.size
  PROVE  LET file == s.file
             level == OpenedLevel(s.file)
         IN  /\ file.size[i] \in Nat \ {0}
             /\ level.offset[i] = GetOffset(file, i) /\ level.offset[i] \in Int
             /\ file.size[i] = 1 => level.perCell[i] = 0 /\ GetScaling(file, i) = Infinity
             /\ file.size[i] # 1 => level.perCell[i] = GetScaling(file, i)
             /\ level.perCell[i] \in Int
             /\ level.perCell[i] % Fine = 0
             /\ level.min[i] = Min(Ends(file, i)) /\ level.max[i] = Max(Ends(file, i))
<1> DEFINE file == s.file  n == Len(s.file.size)
<1>1. file.size \in Seq(Nat \ {0}) /\ i \in 1 .. n /\ n \in Nat /\ file.size[i] \in Nat \ {0}
  BY FileAssumption
<1>2. file.coords[i] \in {<<>>} \cup (Int \X Int)
  BY FileAssumption
<1>3. OpenedLevel(file).offset[i] = GetOffset(file, i) /\ GetOffset(file, i) \in Int
  BY <1>1, <1>2 DEF OpenedLevel, GetOffset
<1>4. /\ OpenedLevel(file).perCell[i] = IF GetScaling(file, i) = Infinity THEN 0 ELSE GetScaling(file, i)
      /\ OpenedLevel(file).min[i] = Min(Ends(file, i))
      /\ OpenedLevel(file).max[i] = Max(Ends(file, i))
  BY <1>1 DEF OpenedLevel
<1>5. file.size[i] = 1 => GetScaling(file, i) = Infinity
  BY DEF GetScaling
<1>6. file.size[i] # 1 => GetScaling(file, i) # Infinity /\ GetScaling(file, i) % Fine = 0
  BY FileAssumption
<1>7. file.size[i] # 1 => GetScaling(file, i) \in Int
  <2> SUFFICES ASSUME file.size[i] # 1 PROVE GetScaling(file, i) \in Int
    OBVIOUS
  <2>1. CASE file.coords[i] = <<>>
    BY <2>1 DEF GetScaling, Fine
  <2>2. CASE file.coords[i] # <<>>
    <3>1. GetScaling(file, i) = (file.coords[i][2] - file.coords[i][1]) \div (file.size[i] - 1)
      BY <2>2 DEF GetScaling
    <3>2. file.size[i] - 1 \in Nat \ {0}
      BY <1>1
    <3>3. file.coords[i][2] - file.coords[i][1] \in Int
      BY <1>2, <2>2
    <3> QED
      BY <3>1, <3>2, <3>3, Division
  <2> QED
    BY <2>1, <2>2
<1>8. 0 % Fine = 0
  BY DEF Fine
<1> QED
  BY <1>1, <1>3, <1>4, <1>5, <1>6, <1>7, <1>8

(* A grid that has been opened from a file.                                *)
IsOpened(g) == g \in { Opened(s.file) : s \in Setup }

(* A position has the index of the values next to it.                      *)
LEMMA NearestIndex ==
  ASSUME NEW g, IsOpened(g), NEW pos \in Position, Len(pos) = Len(g.size),
         NEW i \in DOMAIN g.size
  PROVE  /\ Pos2Index(g, pos)[i] \in 0 .. g.size[i] - 1
         /\ g = grid =>
              \A k \in 0 .. g.size[i] - 1 :
                 LET p == pos[Len(pos) - i + 1]
                 IN  Abs(p - Coordinate(i, Pos2Index(g, pos)[i])) <= Abs(p - Coordinate(i, k))
<1>1. PICK s \in Setup :
         /\ g.size = s.file.size /\ g.size \in Seq(Nat \ {0})
         /\ g.level = OpenedLevel(s.file)
  BY OpenedFile DEF IsOpened
<1> DEFINE p == pos[Len(pos) - i + 1]
           n == g.size[i]
           o == g.level.offset[i]
           c == g.level.perCell[i]
           v == Pos2Index(g, pos)[i]
<1>2. /\ n \in Nat \ {0} /\ o \in Int /\ c \in Int
      /\ o = GetOffset(s.file, i)
      /\ n = 1 => c = 0
      /\ n # 1 => c = GetScaling(s.file, i)
  BY <1>1, LevelOf
<1>3. p \in Int
  <2>1. pos \in Seq(Int) /\ i \in 1 .. Len(pos)
    BY <1>1, FileAssumption
  <2>2. Len(pos) - i + 1 \in 1 .. Len(pos)
    BY <2>1
  <2> QED
    BY <2>1, <2>2
<1>4. v = Clamped(Cells(p - o, c), n)
  BY DEF Pos2Index, Unclamped
<1>5. c = 0 => Cells(p - o, c) = 0
  BY DEF Cells
<1>6. /\ g.level.coords = s.file.coords
      /\ s.file.coords[i] \in {<<>>} \cup (Int \X Int)
  BY <1>1, FileAssumption DEF OpenedLevel
<1>7. ASSUME g = grid, NEW k \in 0 .. n - 1
      PROVE  /\ Coordinate(i, k) = o + k * c \/ n = 1
             /\ Coordinate(i, k) \in Int
  <2> USE <1>2
  <2>0. k \in Int
    OBVIOUS
  <2>1. CASE s.file.coords[i] = <<>>
    <3>1. Coordinate(i, k) = Fine * k /\ o = 0
      BY <1>2, <1>6, <1>7, <2>1 DEF Coordinate, GetOffset
    <3>2. n # 1 => c = Fine
      BY <1>1, <1>2, <2>1 DEF GetScaling
    <3>3. Fine * k = 0 + k * Fine /\ Fine * k \in Int
      BY <2>0 DEF Fine
    <3> QED
      BY <3>1, <3>2, <3>3
  <2>2. CASE s.file.coords[i] # <<>> /\ n # 1
    <3>1. Coordinate(i, k) = g.level.coords[i][1]
                    + k * ((g.level.coords[i][2] - g.level.coords[i][1]) \div (g.size[i] - 1))
      BY <1>6, <1>7, <2>2 DEF Coordinate
    <3>2. c = (s.file.coords[i][2] - s.file.coords[i][1]) \div (s.file.size[i] - 1)
      BY <1>1, <1>2, <2>2 DEF GetScaling
    <3>3. o = s.file.coords[i][1]
      BY <1>2, <2>2 DEF GetOffset
    <3>4. Coordinate(i, k) = o + k * c
      BY <1>1, <1>6, <3>1, <3>2, <3>3
    <3> HIDE DEF o, c
    <3> QED
      BY <2>0, <3>4
  <2>3. CASE s.file.coords[i] # <<>> /\ n = 1
    BY <1>6, <1>7, <2>3 DEF Coordinate
  <2> QED
    BY <2>1, <2>2, <2>3
<1> HIDE DEF p, n, o, c, v
<1>8. p - o \in Int
  BY <1>2, <1>3
<1>9. v \in 0 .. n - 1
  <2>1. 0 \in 0 .. n - 1
    BY <1>2
  <2> QED
    BY <1>2, <1>4, <1>8, <2>1, NearestCell
<1>10. ASSUME g = grid, NEW k \in 0 .. n - 1
       PROVE  Abs(p - Coordinate(i, v)) <= Abs(p - Coordinate(i, k))
  <2>1. CASE n = 1
    <3>1. v = k
      BY <1>9, <2>1
    <3>2. Abs(p - Coordinate(i, k)) \in Int
      BY <1>3, <1>7, <1>10 DEF Abs
    <3> QED
      BY <3>1, <3>2
  <2>2. CASE n # 1
    <3>1. Abs((p - o) - v * c) <= Abs((p - o) - k * c)
      BY <1>2, <1>4, <1>8, NearestCell
    <3>2. Coordinate(i, v) = o + v * c /\ Coordinate(i, k) = o + k * c
      BY <1>7, <1>9, <1>10, <2>2
    <3>3. p - (o + v * c) = (p - o) - v * c /\ p - (o + k * c) = (p - o) - k * c
      BY <1>2, <1>3, <1>9
    <3> QED
      BY <3>1, <3>2, <3>3
  <2> QED
    BY <2>1, <2>2
<1> QED
  BY <1>9, <1>10 DEF p, n, v

-----------------------------------------------------------------------------
(* A distance of at most m before the first value or after the last one is *)
(* rounded to a cell, when a cell has 4 * m or more.                       *)
LEMMA CellsInRange ==
  ASSUME NEW D \in Int, NEW j \in Int, NEW n \in Nat \ {0}, NEW m \in Int,
         0 <= m, m <= Abs(j),
         \/ j > 0 /\ -m <= D /\ D <= (4 * j) * (n - 1) + m
         \/ j < 0 /\ (4 * j) * (n - 1) - m <= D /\ D <= m
  PROVE  Cells(D, 4 * j) \in 0 .. n - 1
<1> DEFINE a == Abs(j)  e == D * Sign(j)  x == 2 * e + 4 * a
<1>1. a \in Nat \ {0} /\ e \in Int /\ m <= a
  BY DEF Abs, Sign
<1>2. Cells(D, 4 * j) = (2 * e + 4 * a) \div (2 * (4 * a))
  <2>1. CASE j > 0
    BY <2>1 DEF Cells, Sign, Abs
  <2>2. CASE j < 0
    <3>1. Abs(4 * j) = 4 * (-j) /\ Sign(4 * j) = -1 /\ Abs(j) = -j /\ Sign(j) = -1 /\ 4 * j # 0
      BY <2>2 DEF Abs, Sign
    <3>2. 2 * D * (-1) = 2 * (D * (-1))
      OBVIOUS
    <3> QED
      BY <3>1, <3>2 DEF Cells
  <2> QED
    BY <2>1, <2>2
<1>3. -m <= e /\ e <= 4 * (a * n) - 4 * a + m /\ a * n \in Int
  <2>1. CASE j > 0
    <3>1. e = D /\ a = j
      BY <2>1 DEF Abs, Sign
    <3>2. (4 * j) * (n - 1) = 4 * (j * n) - 4 * j
      OBVIOUS
    <3> QED
      BY <2>1, <3>1, <3>2
  <2>2. CASE j < 0
    <3>1. e = -D /\ a = -j
      BY <2>2 DEF Abs, Sign
    <3>2. (4 * j) * (n - 1) = -(4 * ((-j) * n) - 4 * (-j)) /\ (-j) * n \in Int
      OBVIOUS
    <3> QED
      BY <2>2, <3>1, <3>2
  <2> QED
    BY <2>1, <2>2
<1> HIDE DEF a, e
<1>4. x \in Nat
  BY <1>1, <1>3
<1>5. x < 8 * (a * n)
  BY <1>1, <1>3
<1>6. n * (2 * (4 * a)) = 8 * (a * n)
  BY <1>1
<1>7. 2 * (4 * a) \in Nat \ {0}
  BY <1>1
<1>8. x < n * (2 * (4 * a))
  BY <1>5, <1>6
<1> QED
  <2> HIDE DEF x
  <2>1. x \div (2 * (4 * a)) \in 0 .. n - 1
    BY <1>4, <1>7, <1>8, QuotientBound
  <2> QED
    BY <1>2, <2>1 DEF x

(* The end of a dimension is the smaller or larger one of two.             *)
LEMMA EndOfTwo ==
  ASSUME NEW a \in Int, NEW b \in Int
  PROVE  Min({a, b}) = (IF a <= b THEN a ELSE b) /\ Max({a, b}) = (IF a <= b THEN b ELSE a)
<1>1. \A x \in {a, b} : (\A y \in {a, b} : x <= y) <=> x = (IF a <= b THEN a ELSE b)
  OBVIOUS
<1>2. \A x \in {a, b} : (\A y \in {a, b} : x >= y) <=> x = (IF a <= b THEN b ELSE a)
  OBVIOUS
<1>3. (IF a <= b THEN a ELSE b) \in {a, b} /\ (IF a <= b THEN b ELSE a) \in {a, b}
  OBVIOUS
<1> DEFINE lo == IF a <= b THEN a ELSE b
           hi == IF a <= b THEN b ELSE a
<1>4. Min({a, b}) = lo
  <2> HIDE DEF lo, hi
  <2> QED  BY <1>1, <1>3 DEF Min, lo
<1>5. Max({a, b}) = hi
  <2> HIDE DEF lo, hi
  <2> QED  BY <1>2, <1>3 DEF Max, hi
<1> QED
  BY <1>4, <1>5

(* No position between min and max is rounded to a cell outside.           *)
LEMMA RangeInGrid ==
  ASSUME NEW g, IsOpened(g), NEW i \in DOMAIN g.size, NEW p \in Int,
         g.level.min[i] <= p, p <= g.level.max[i]
  PROVE  ~OutOfRange(Cells(p - g.level.offset[i], g.level.perCell[i]), g.size[i])
<1>1. PICK s \in Setup : g.size = s.file.size /\ g.level = OpenedLevel(s.file)
  BY OpenedFile DEF IsOpened
<1> DEFINE file == s.file
           n == g.size[i]
           o == g.level.offset[i]
           c == g.level.perCell[i]
           m == Margin(file, i)
           far == o + c * (n - 1)
<1>2. /\ n \in Nat \ {0} /\ o \in Int /\ c \in Int /\ c % Fine = 0
      /\ o = GetOffset(file, i)
      /\ n = 1 => c = 0
      /\ n # 1 => c = GetScaling(file, i)
      /\ g.level.min[i] = Min(Ends(file, i)) /\ g.level.max[i] = Max(Ends(file, i))
  BY <1>1, LevelOf
<1>3. CASE c = 0
  <2>1. Cells(p - o, c) = 0
    BY <1>3 DEF Cells
  <2> QED
    BY <1>2, <2>1 DEF OutOfRange
<1>4. CASE c # 0
  <2> DEFINE j == c \div Fine
  <2>1. n # 1 /\ GetScaling(file, i) = c
    BY <1>2, <1>4
  <2>2. c = 4 * j /\ j \in Int /\ j # 0
    BY <1>2, <1>4 DEF Fine
  <2>3. GetScaling(file, i) # Infinity
    BY <1>1, <2>1, FileAssumption
  <2> HIDE DEF j, c
  <2>4. m \in {0, j}
    <3>1. m = IF file.cellCentered THEN c \div 2 - c \div Fine ELSE 0
      BY <2>1 DEF Margin
    <3>2. c \div 2 = 2 * j /\ c \div Fine = j
      BY <2>2 DEF Fine
    <3> QED
      BY <2>2, <3>1, <3>2
  <2>5. Ends(file, i) = {o - m, far + m}
    BY <1>1, <1>2, <2>1, <2>3 DEF Ends, c
  <2> HIDE DEF o, m, n
  <2>6. far \in Int /\ o - m \in Int /\ far + m \in Int
    BY <1>2, <2>2, <2>4
  <2>7. /\ o - m <= far + m => o - m <= p /\ p <= far + m
        /\ ~(o - m <= far + m) => far + m <= p /\ p <= o - m
    <3> PICK x \in Int, y \in Int : x = o - m /\ y = far + m
      BY <2>6
    <3>1. g.level.min[i] = Min({x, y}) /\ g.level.max[i] = Max({x, y})
      BY <1>2, <2>5
    <3>2. x <= y => x <= p /\ p <= y
      BY <3>1, EndOfTwo
    <3>3. ~(x <= y) => y <= p /\ p <= x
      BY <3>1, EndOfTwo
    <3> QED
      BY <3>2, <3>3
  <2>8. far = o + (4 * j) * (n - 1)
    BY <2>2
  <2> DEFINE D == p - o  k == Abs(m)
  <2>9. D \in Int /\ k \in Int /\ 0 <= k /\ k <= Abs(j)
    BY <1>2, <2>2, <2>4 DEF Abs
  <2>10. CASE j > 0
    <3>1. k = m
      BY <2>2, <2>4, <2>10 DEF Abs
    <3>2. 0 <= (4 * j) * (n - 1) /\ (4 * j) * (n - 1) \in Int
      BY <1>2, <2>2, <2>10
    <3>3. -k <= D /\ D <= (4 * j) * (n - 1) + k
      <4> PICK w \in Int : w = (4 * j) * (n - 1)
        BY <3>2
      <4> HIDE DEF k, far
      <4> QED  BY <1>2, <2>2, <2>4, <2>6, <2>7, <2>8, <2>9, <2>10, <3>1, <3>2
    <3> HIDE DEF D, k
    <3>4. Cells(D, 4 * j) \in 0 .. n - 1
      BY <1>2, <2>2, <2>9, <2>10, <3>3, CellsInRange
    <3> QED
      BY <1>2, <2>2, <3>4 DEF OutOfRange, D, o, c, n
  <2>11. CASE j < 0
    <3>1. k = -m
      BY <2>2, <2>4, <2>11 DEF Abs
    <3>2. (4 * j) * (n - 1) <= 0 /\ (4 * j) * (n - 1) \in Int
      BY <1>2, <2>2, <2>11
    <3>3. (4 * j) * (n - 1) - k <= D /\ D <= k
      <4> PICK w \in Int : w = (4 * j) * (n - 1)
        BY <3>2
      <4> HIDE DEF k, far
      <4> QED  BY <1>2, <2>2, <2>4, <2>6, <2>7, <2>8, <2>9, <2>11, <3>1, <3>2
    <3> HIDE DEF D, k
    <3>4. Cells(D, 4 * j) \in 0 .. n - 1
      BY <1>2, <2>2, <2>9, <2>11, <3>3, CellsInRange
    <3> QED
      BY <1>2, <2>2, <3>4 DEF OutOfRange, D, o, c, n
  <2> QED
    BY <2>2, <2>10, <2>11
<1> QED
  BY <1>3, <1>4

(* Within the range that min and max promise, no position is out of range. *)
THEOREM RangeIsReadHolds == Spec => []RangeIsRead
<1>1. Protocol => RangeIsRead
  <2> SUFFICES ASSUME Protocol, NEW d \in 0 .. Len(grid.size) - 1, NEW p \in Sample,
                      GetMin(grid, d) <= p, p <= GetMax(grid, d)
               PROVE  LET i == Len(grid.size) - d IN
                      ~OutOfRange(Cells(p - grid.level.offset[i], grid.level.perCell[i]), grid.size[i])
    BY DEF RangeIsRead
  <2> DEFINE i == Len(grid.size) - d
  <2>1. IsOpened(grid)
    BY DEF Protocol, ControlOK, IsOpened
  <2>2. grid.size \in Seq(Nat \ {0})
    BY <2>1, OpenedFile DEF IsOpened
  <2>3. i \in DOMAIN grid.size /\ p \in Int
    BY <2>2, FileAssumption
  <2> QED
    BY <2>1, <2>3, RangeInGrid DEF GetMin, GetMax
<1> QED
  BY <1>1, ProtocolHolds, PTL

-----------------------------------------------------------------------------
(* Layout: numbers in mixed radix, the loop of getVar, and so what loading *)
(* a block makes of it.                                                    *)

(* The greatest element of a set of numbers.                               *)
LEMMA MaxIs ==
  ASSUME NEW S \in SUBSET Int, NEW m \in S, \A x \in S : x <= m
  PROVE  Max(S) = m
<1>1. \A x \in S : (\A y \in S : x >= y) <=> x = m
  OBVIOUS
<1> QED
  BY <1>1 DEF Max

(* The sets that a fold of a sequence goes through.                        *)
LEMMA UpTo ==
  ASSUME NEW n \in Nat, NEW k \in 1 .. n
  PROVE  /\ 1 .. k \in SUBSET (1 .. n) /\ 1 .. k # {}
         /\ Max(1 .. k) = k
         /\ (1 .. k) \ {k} = 1 .. k - 1
<1>1. 1 .. k \in SUBSET Int /\ k \in 1 .. k /\ \A y \in 1 .. k : y <= k
  OBVIOUS
<1>2. Max(1 .. k) = k
  BY <1>1, MaxIs
<1> QED
  BY <1>2

(* A fold of the community modules, which takes one element of a set after *)
(* the other.                                                              *)
IsFold(f, n, base, G) ==
    /\ f \in [SUBSET (1 .. n) -> Int]
    /\ f[{}] = base
    /\ \A x \in SUBSET (1 .. n) : x # {} =>
          /\ Max(x) \in 1 .. n
          /\ f[x] = G[Max(x)][f[x \ {Max(x)}]]

(* A fold of the first elements goes on to the next one.                   *)
LEMMA FoldLonger ==
  ASSUME NEW n \in Nat, NEW base \in Int, NEW G \in [1 .. n -> [Int -> Int]],
         NEW m \in Nat, m + 1 <= n, NEW f, IsFold(f, m, base, G)
  PROVE  \E g : IsFold(g, m + 1, base, G)
<1> DEFINE g == [x \in SUBSET (1 .. m + 1) |->
                   IF x \subseteq 1 .. m THEN f[x] ELSE G[m + 1][f[x \ {m + 1}]]]
<1>1. m + 1 \in 1 .. n
  OBVIOUS
<1>2. ASSUME NEW x \in SUBSET (1 .. m + 1), x # {}
      PROVE  /\ g[x] = G[Max(x)][g[x \ {Max(x)}]]
             /\ Max(x) \in 1 .. m + 1
  <2>1. CASE x \subseteq 1 .. m
    <3>1. x \ {Max(x)} \subseteq 1 .. m /\ x \ {Max(x)} \in SUBSET (1 .. m + 1)
      BY <2>1
    <3>2. g[x] = f[x] /\ g[x \ {Max(x)}] = f[x \ {Max(x)}]
      BY <2>1, <3>1
    <3>3. f[x] = G[Max(x)][f[x \ {Max(x)}]] /\ Max(x) \in 1 .. m
      BY <1>2, <2>1 DEF IsFold
    <3>4. Max(x) \in 1 .. m + 1
      BY <3>3
    <3> HIDE DEF g
    <3> QED
      BY <3>2, <3>3, <3>4
  <2>2. CASE ~(x \subseteq 1 .. m)
    <3>1. m + 1 \in x /\ \A y \in x : y <= m + 1
      <4>1. \A y \in 1 .. m + 1 : y <= m + 1 /\ (y \in 1 .. m \/ y = m + 1)
        OBVIOUS
      <4> HIDE DEF g
      <4> QED
        BY <2>2, <4>1
    <3>2. Max(x) = m + 1
      <4>1. x \in SUBSET Int
        OBVIOUS
      <4> QED
        BY <3>1, <4>1, MaxIs
    <3>3. x \ {m + 1} \subseteq 1 .. m /\ x \ {m + 1} \in SUBSET (1 .. m + 1)
      OBVIOUS
    <3>4. g[x \ {m + 1}] = f[x \ {m + 1}]
      BY <3>3
    <3>5. g[x] = G[m + 1][f[x \ {m + 1}]]
      BY <2>2
    <3>6. m + 1 \in 1 .. m + 1
      OBVIOUS
    <3> HIDE DEF g
    <3> QED
      BY <3>2, <3>4, <3>5, <3>6
  <2> QED
    BY <2>1, <2>2
<1>3. g[{}] = base
  <2>1. {} \in SUBSET (1 .. m + 1) /\ {} \in SUBSET (1 .. m)
    OBVIOUS
  <2> QED
    BY <2>1 DEF IsFold
<1>4. g \in [SUBSET (1 .. m + 1) -> Int]
  <2> SUFFICES ASSUME NEW x \in SUBSET (1 .. m + 1) PROVE g[x] \in Int
    OBVIOUS
  <2>1. CASE x \subseteq 1 .. m
    BY <2>1 DEF IsFold
  <2>2. CASE ~(x \subseteq 1 .. m)
    <3>1. x \ {m + 1} \in SUBSET (1 .. m)
      OBVIOUS
    <3>2. f[x \ {m + 1}] \in Int
      BY <3>1 DEF IsFold
    <3>3. G[m + 1] \in [Int -> Int]
      BY <1>1
    <3>4. G[m + 1][f[x \ {m + 1}]] \in Int
      BY <3>2, <3>3
    <3> QED
      BY <2>2, <3>4
  <2> QED
    BY <2>1, <2>2
<1> HIDE DEF g
<1> QED
  BY <1>2, <1>3, <1>4 DEF IsFold

(* Hence there is one of them all.                                         *)
LEMMA FoldExists ==
  ASSUME NEW n \in Nat, NEW base \in Int, NEW G \in [1 .. n -> [Int -> Int]]
  PROVE  \E f : IsFold(f, n, base, G)
<1> DEFINE T == { m \in Nat : m <= n => \E f : IsFold(f, m, base, G) }
<1>1. 0 \in T
  <2>1. SUBSET (1 .. 0) = {{}}
    OBVIOUS
  <2> DEFINE g == [x \in {{}} |-> base]
  <2>2. g \in [SUBSET (1 .. 0) -> Int] /\ g[{}] = base /\ \A x \in SUBSET (1 .. 0) : x = {}
    BY <2>1
  <2> HIDE DEF g
  <2>3. IsFold(g, 0, base, G)
    BY <2>2 DEF IsFold
  <2> QED
    BY <2>3
<1>2. ASSUME NEW m \in Nat, m \in T PROVE m + 1 \in T
  <2>1. CASE m + 1 <= n
    <3>1. PICK f : IsFold(f, m, base, G)
      BY <1>2, <2>1
    <3>2. \E g : IsFold(g, m + 1, base, G)
      BY <2>1, <3>1, FoldLonger
    <3> QED
      BY <3>2
  <2>2. CASE ~(m + 1 <= n)
    BY <2>2
  <2> QED
    BY <2>1, <2>2
<1>3. T \in SUBSET Nat
  OBVIOUS
<1>4. T = Nat
  <2> HIDE DEF T
  <2> QED
    BY <1>1, <1>2, <1>3, NatSet
<1>5. n \in T
  BY <1>4
<1> QED
  BY <1>5

(* Induction up to a bound, and down from it.                              *)
LEMMA Upwards ==
  ASSUME NEW n \in Nat, NEW S, 0 \in S, \A k \in 0 .. n - 1 : k \in S => k + 1 \in S
  PROVE  \A k \in 0 .. n : k \in S
<1> DEFINE T == { k \in Nat : k <= n => k \in S }
<1>1. 0 \in T
  OBVIOUS
<1>2. ASSUME NEW k \in T PROVE k + 1 \in T
  <2>1. CASE k + 1 <= n
    BY <2>1
  <2>2. CASE ~(k + 1 <= n)
    BY <2>2
  <2> QED
    BY <2>1, <2>2
<1>3. T \in SUBSET Nat
  OBVIOUS
<1>4. T = Nat
  <2> HIDE DEF T
  <2> QED  BY <1>1, <1>2, <1>3, NatSet
<1> QED
  BY <1>4

(* The same from the last number to 0.                                     *)
LEMMA Downwards ==
  ASSUME NEW n \in Nat, NEW S, n \in S, \A k \in 1 .. n : k \in S => k - 1 \in S
  PROVE  \A k \in 0 .. n : k \in S
<1> DEFINE T == { j \in 0 .. n : n - j \in S }
<1>1. 0 \in T
  OBVIOUS
<1>2. ASSUME NEW j \in 0 .. n - 1, j \in T PROVE j + 1 \in T
  <2>1. n - j \in 1 .. n /\ (n - j) - 1 = n - (j + 1) /\ n - j \in S
    BY <1>2
  <2> QED
    BY <2>1
<1>3. \A j \in 0 .. n : j \in T
  <2> HIDE DEF T
  <2> QED  BY <1>1, <1>2, Upwards
<1>4. ASSUME NEW k \in 0 .. n PROVE k \in S
  <2>1. n - k \in 0 .. n /\ n - (n - k) = k
    OBVIOUS
  <2>2. n - k \in T
    BY <1>3, <2>1
  <2> QED
    BY <2>1, <2>2
<1> QED
  BY <1>4

(* What such a fold has after each element.                                *)
Takes(it, n, base, G) ==
    /\ it[{}] = base
    /\ \A x \in SUBSET (1 .. n) : x # {} /\ Max(x) \in 1 .. n /\ it[x \ {Max(x)}] \in Int =>
          it[x] = G[Max(x)][it[x \ {Max(x)}]]

Folded(p, it, n, base, G) ==
    /\ p \in [0 .. n -> Int]
    /\ p[0] = base /\ p[n] = it[1 .. n]
    /\ \A k \in 1 .. n : p[k] = G[k][p[k - 1]]

(* A fold takes the elements one after the other.                          *)
LEMMA FoldTakes ==
  ASSUME NEW n \in Nat, NEW base \in Int, NEW G \in [1 .. n -> [Int -> Int]], NEW it,
         Takes(it, n, base, G)
  PROVE  \E p : Folded(p, it, n, base, G)
<1> DEFINE p == [k \in 0 .. n |-> it[1 .. k]]
           T == { k \in 0 .. n : p[k] \in Int }
<1>1. p[0] = base
  <2>1. 1 .. 0 = {}
    OBVIOUS
  <2> QED
    BY <2>1 DEF Takes
<1>2. ASSUME NEW k \in 1 .. n, p[k - 1] \in Int
      PROVE  p[k] = G[k][p[k - 1]] /\ p[k] \in Int
  <2>1. PICK x \in SUBSET (1 .. n) : x = 1 .. k /\ x # {} /\ Max(x) = k /\ x \ {k} = 1 .. k - 1
    BY UpTo
  <2>2. k - 1 \in 0 .. n /\ k \in 0 .. n
    OBVIOUS
  <2>3. p[k] = it[x] /\ p[k - 1] = it[x \ {k}]
    BY <2>1, <2>2
  <2> HIDE DEF p
  <2>4. it[x] = G[k][it[x \ {k}]]
    BY <1>2, <2>1, <2>3 DEF Takes
  <2>5. G[k] \in [Int -> Int]
    OBVIOUS
  <2> QED
    BY <1>2, <2>3, <2>4, <2>5
<1>3. DOMAIN p = 0 .. n /\ p[n] = it[1 .. n] /\ p = [k \in 0 .. n |-> p[k]]
  OBVIOUS
<1> HIDE DEF p
<1>4. \A k \in 0 .. n : k \in T
  <2>1. 0 \in T
    BY <1>1
  <2>2. ASSUME NEW k \in 0 .. n - 1, k \in T PROVE k + 1 \in T
    <3>1. k + 1 \in 1 .. n /\ (k + 1) - 1 = k /\ k + 1 \in 0 .. n
      OBVIOUS
    <3>2. p[k + 1] \in Int
      BY <1>2, <2>2, <3>1
    <3> QED
      BY <3>1, <3>2
  <2> HIDE DEF T
  <2> QED
    BY <2>1, <2>2, Upwards
<1>5. p \in [0 .. n -> Int]
  BY <1>3, <1>4
<1>6. \A k \in 1 .. n : p[k] = G[k][p[k - 1]]
  <2> SUFFICES ASSUME NEW k \in 1 .. n PROVE p[k] = G[k][p[k - 1]]
    OBVIOUS
  <2>1. k - 1 \in 0 .. n
    OBVIOUS
  <2> QED
    BY <1>2, <1>4, <2>1
<1>7. Folded(p, it, n, base, G)
  BY <1>1, <1>3, <1>5, <1>6 DEF Folded
<1> QED
  BY <1>7

(* The product of a sequence, element by element.                          *)
LEMMA VolumeSteps ==
  ASSUME NEW r \in Seq(Int)
  PROVE  \E p \in [0 .. Len(r) -> Int] :
            /\ p[0] = 1 /\ Volume(r) = p[Len(r)]
            /\ \A k \in 1 .. Len(r) : p[k] = p[k - 1] * r[k]
<1> DEFINE n == Len(r)
           G == [k \in 1 .. n |-> [v \in Int |-> v * r[k]]]
           Is(f) == f = [x \in SUBSET DOMAIN r |->
                           IF x = {} THEN 1 ELSE f[x \ {Max(x)}] * r[Max(x)]]
           it == CHOOSE f : Is(f)
<1>1. n \in Nat /\ DOMAIN r = 1 .. n /\ \A k \in 1 .. n : r[k] \in Int
  OBVIOUS
<1>2. G \in [1 .. n -> [Int -> Int]]
  BY <1>1
<1>3. Volume(r) = it[DOMAIN r]
  BY DEF Volume, FoldLeft, MapThenFoldSet
<1>4. \A k \in 1 .. n, v \in Int : G[k][v] = v * r[k]
  OBVIOUS
<1> HIDE DEF n, G
<1>5. PICK f : IsFold(f, n, 1, G)
  <2> HIDE DEF it
  <2>1. n \in Nat /\ 1 \in Int
    BY <1>1
  <2> QED
    BY <1>2, <2>1, FoldExists
<1>6. Is(f)
  <2>1. ASSUME NEW x \in SUBSET (1 .. n), x # {}
        PROVE  f[x] = f[x \ {Max(x)}] * r[Max(x)]
    <3>1. f[x] = G[Max(x)][f[x \ {Max(x)}]] /\ Max(x) \in 1 .. n
      BY <1>5, <2>1 DEF IsFold
    <3>2. x \ {Max(x)} \in SUBSET (1 .. n)
      OBVIOUS
    <3>3. f[x \ {Max(x)}] \in Int
      BY <1>5, <3>2 DEF IsFold
    <3> QED
      BY <1>4, <3>1, <3>3
  <2>2. f = [x \in SUBSET (1 .. n) |-> f[x]] /\ f[{}] = 1
    BY <1>5 DEF IsFold
  <2> QED
    BY <1>1, <2>1, <2>2
<1>7. Is(it)
  BY <1>6
<1> HIDE DEF it
<1>8. /\ it[{}] = 1
      /\ \A x \in SUBSET (1 .. n) : x # {} => it[x] = it[x \ {Max(x)}] * r[Max(x)]
  BY <1>1, <1>7
<1>9. PICK p : Folded(p, it, n, 1, G)
  <2>1. Takes(it, n, 1, G)
    BY <1>4, <1>8 DEF Takes
  <2>2. n \in Nat /\ 1 \in Int
    BY <1>1
  <2> QED
    BY <1>2, <2>1, <2>2, FoldTakes
<1>10. \A k \in 1 .. n : p[k] = p[k - 1] * r[k]
  <2> SUFFICES ASSUME NEW k \in 1 .. n PROVE p[k] = p[k - 1] * r[k]
    OBVIOUS
  <2>1. k - 1 \in 0 .. n
    BY <1>1
  <2>2. p[k - 1] \in Int
    BY <1>9, <2>1 DEF Folded
  <2> QED
    BY <1>4, <1>9, <2>2 DEF Folded
<1> QED
  BY <1>1, <1>3, <1>9, <1>10 DEF n, Folded

(* A number, digit by digit.                                               *)
LEMMA NumberSteps ==
  ASSUME NEW r \in Seq(Int), NEW d \in [DOMAIN r -> Int]
  PROVE  \E p \in [0 .. Len(r) -> Int] :
            /\ p[0] = 0 /\ Number(d, r) = p[Len(r)]
            /\ \A k \in 1 .. Len(r) : p[k] = p[k - 1] * r[k] + d[k]
<1> DEFINE n == Len(r)
           G == [k \in 1 .. n |-> [v \in Int |-> v * r[k] + d[k]]]
           id == [i \in DOMAIN r |-> i]
           Is(f) == f = [x \in SUBSET DOMAIN id |->
                           IF x = {} THEN 0
                           ELSE f[x \ {Max(x)}] * r[id[Max(x)]] + d[id[Max(x)]]]
           it == CHOOSE f : Is(f)
<1>1. n \in Nat /\ DOMAIN r = 1 .. n /\ \A k \in 1 .. n : r[k] \in Int /\ d[k] \in Int
  OBVIOUS
<1>2. G \in [1 .. n -> [Int -> Int]]
  BY <1>1
<1>3. Number(d, r) = it[DOMAIN id]
  BY DEF Number, FoldLeftDomain, FoldLeft, MapThenFoldSet
<1>4. \A k \in 1 .. n, v \in Int : G[k][v] = v * r[k] + d[k]
  OBVIOUS
<1>a. DOMAIN id = 1 .. n /\ \A k \in 1 .. n : id[k] = k
  BY <1>1
<1> HIDE DEF n, G, id
<1>5. PICK f : IsFold(f, n, 0, G)
  <2> HIDE DEF it
  <2>1. n \in Nat /\ 0 \in Int
    BY <1>1
  <2> QED
    BY <1>2, <2>1, FoldExists
<1>6. Is(f)
  <2>1. ASSUME NEW x \in SUBSET (1 .. n), x # {}
        PROVE  f[x] = f[x \ {Max(x)}] * r[id[Max(x)]] + d[id[Max(x)]]
    <3>1. f[x] = G[Max(x)][f[x \ {Max(x)}]] /\ Max(x) \in 1 .. n
      BY <1>5, <2>1 DEF IsFold
    <3>2. x \ {Max(x)} \in SUBSET (1 .. n)
      OBVIOUS
    <3>3. f[x \ {Max(x)}] \in Int
      BY <1>5, <3>2 DEF IsFold
    <3> QED
      BY <1>4, <1>a, <3>1, <3>3
  <2>2. f = [x \in SUBSET (1 .. n) |-> f[x]] /\ f[{}] = 0
    BY <1>5 DEF IsFold
  <2> QED
    BY <1>a, <2>1, <2>2
<1>7. Is(it)
  BY <1>6
<1> HIDE DEF it
<1>8. /\ it[{}] = 0
      /\ \A x \in SUBSET (1 .. n) : x # {} =>
            it[x] = it[x \ {Max(x)}] * r[id[Max(x)]] + d[id[Max(x)]]
  BY <1>a, <1>7
<1>9. PICK p : Folded(p, it, n, 0, G)
  <2>1. ASSUME NEW x \in SUBSET (1 .. n), x # {}, Max(x) \in 1 .. n, it[x \ {Max(x)}] \in Int
        PROVE  it[x] = G[Max(x)][it[x \ {Max(x)}]]
    <3>1. id[Max(x)] = Max(x)
      BY <1>a, <2>1
    <3>2. it[x] = it[x \ {Max(x)}] * r[Max(x)] + d[Max(x)]
      BY <1>8, <2>1, <3>1
    <3> QED
      BY <1>4, <2>1, <3>2
  <2>3. Takes(it, n, 0, G)
    BY <1>8, <2>1 DEF Takes
  <2>2. n \in Nat /\ 0 \in Int
    BY <1>1
  <2> QED
    BY <1>2, <2>2, <2>3, FoldTakes
<1>10. \A k \in 1 .. n : p[k] = p[k - 1] * r[k] + d[k]
  <2> SUFFICES ASSUME NEW k \in 1 .. n PROVE p[k] = p[k - 1] * r[k] + d[k]
    OBVIOUS
  <2>1. k - 1 \in 0 .. n
    BY <1>1
  <2>2. p[k - 1] \in Int
    BY <1>9, <2>1 DEF Folded
  <2> QED
    BY <1>4, <1>9, <2>2 DEF Folded
<1>11. Number(d, r) = p[n]
  BY <1>3, <1>a, <1>9 DEF Folded
<1>12. p \in [0 .. n -> Int] /\ p[0] = 0
  BY <1>9 DEF Folded
<1> QED
  BY <1>10, <1>11, <1>12 DEF n

(* What one step of a digit counts.                                        *)
Weight(r, i) == Volume(SubSeq(r, i + 1, Len(r)))

(* The rest of a sequence behind an element.                               *)
LEMMA Suffix ==
  ASSUME NEW r \in Seq(Int), NEW i \in 0 .. Len(r)
  PROVE  /\ SubSeq(r, i + 1, Len(r)) \in Seq(Int)
         /\ Len(SubSeq(r, i + 1, Len(r))) = Len(r) - i
         /\ \A k \in 1 .. Len(r) - i : SubSeq(r, i + 1, Len(r))[k] = r[i + k]
<1> DEFINE n == Len(r)
<1>1. n \in Nat /\ i \in Nat /\ i + 1 \in Nat /\ \A k \in 1 .. n : r[k] \in Int
  OBVIOUS
<1>2. \A k \in 1 .. n - i : i + k \in 1 .. n
  BY <1>1
<1>3. SubSeq(r, i + 1, n) = [k \in 1 .. n - i |-> r[i + k]]
  OBVIOUS
<1>4. SubSeq(r, i + 1, n) \in Seq(Int)
  BY <1>1, <1>2, <1>3
<1>5. Len(SubSeq(r, i + 1, n)) = n - i
  OBVIOUS
<1> QED
  BY <1>3, <1>4, <1>5

(* The weight of a digit is the size of the next one times its weight.     *)
LEMMA WeightSteps ==
  ASSUME NEW r \in Seq(Int)
  PROVE  /\ Weight(r, Len(r)) = 1
         /\ \A i \in 1 .. Len(r) : Weight(r, i - 1) = r[i] * Weight(r, i)
         /\ Weight(r, 0) = Volume(r)
         /\ \A i \in 0 .. Len(r) : Weight(r, i) \in Int
<1> DEFINE n == Len(r)
<1>1. n \in Nat /\ \A i \in 1 .. n : r[i] \in Int
  OBVIOUS
<1>2. ASSUME NEW i \in 0 .. n
      PROVE  \E p \in [0 .. n - i -> Int] :
                /\ p[0] = 1 /\ Weight(r, i) = p[n - i]
                /\ \A k \in 1 .. n - i : p[k] = p[k - 1] * r[i + k]
  <2> DEFINE s == SubSeq(r, i + 1, n)
  <2>1. s \in Seq(Int) /\ Len(s) = n - i /\ \A k \in 1 .. n - i : s[k] = r[i + k]
    BY Suffix
  <2>2. Weight(r, i) = Volume(s)
    BY DEF Weight
  <2> HIDE DEF s, n
  <2>3. PICK p \in [0 .. Len(s) -> Int] :
           /\ p[0] = 1 /\ Volume(s) = p[Len(s)]
           /\ \A k \in 1 .. Len(s) : p[k] = p[k - 1] * s[k]
    BY <2>1, VolumeSteps
  <2> QED
    BY <2>1, <2>2, <2>3
<1>3. Weight(r, n) = 1
  <2>1. n - n = 0 /\ n \in 0 .. n
    BY <1>1
  <2> HIDE DEF n
  <2> QED
    BY <1>2, <2>1
<1>4. ASSUME NEW i \in 1 .. n
      PROVE  Weight(r, i - 1) = r[i] * Weight(r, i)
  <2>1. i \in 0 .. n /\ i - 1 \in 0 .. n
    BY <1>1
  <2> HIDE DEF n
  <2>2. PICK q \in [0 .. n - i -> Int] :
           /\ q[0] = 1 /\ Weight(r, i) = q[n - i]
           /\ \A k \in 1 .. n - i : q[k] = q[k - 1] * r[i + k]
    BY <1>2, <2>1
  <2>3. PICK p \in [0 .. n - (i - 1) -> Int] :
           /\ p[0] = 1 /\ Weight(r, i - 1) = p[n - (i - 1)]
           /\ \A k \in 1 .. n - (i - 1) : p[k] = p[k - 1] * r[(i - 1) + k]
    BY <1>2, <2>1
  <2> DEFINE S == { k \in 0 .. n - i : p[k + 1] = r[i] * q[k] }
  <2>4. 0 \in S
    <3>1. 1 \in 1 .. n - (i - 1) /\ 0 \in 0 .. n - i /\ (i - 1) + 1 = i /\ 1 - 1 = 0 /\ 0 + 1 = 1
      BY <1>1
    <3>2. p[1] = p[0] * r[i]
      BY <2>3, <3>1
    <3>3. r[i] \in Int
      BY <1>1
    <3>4. p[1] = r[i] * q[0]
      BY <2>2, <2>3, <3>2, <3>3
    <3> QED
      BY <3>1, <3>4
  <2>5. ASSUME NEW k \in 0 .. (n - i) - 1, k \in S PROVE k + 1 \in S
    <3>1. /\ k + 1 \in 1 .. n - i /\ (k + 1) - 1 = k /\ k + 1 \in 0 .. n - i
          /\ (k + 1) + 1 \in 1 .. n - (i - 1) /\ ((k + 1) + 1) - 1 = k + 1
          /\ (i - 1) + ((k + 1) + 1) = i + (k + 1) /\ i + (k + 1) \in 1 .. n
          /\ k \in 0 .. n - i
      BY <1>1
    <3>2. q[k + 1] = q[k] * r[i + (k + 1)] /\ p[(k + 1) + 1] = p[k + 1] * r[i + (k + 1)]
      BY <2>2, <2>3, <3>1
    <3>3. p[k + 1] = r[i] * q[k]
      BY <2>5
    <3>4. PICK a \in Int, b \in Int, c \in Int : a = r[i] /\ b = q[k] /\ c = r[i + (k + 1)]
      BY <1>1, <2>2, <3>1
    <3>5. (a * b) * c = a * (b * c)
      OBVIOUS
    <3>6. p[(k + 1) + 1] = r[i] * q[k + 1]
      BY <3>2, <3>3, <3>4, <3>5
    <3> QED
      BY <3>1, <3>6
  <2>6. \A k \in 0 .. n - i : k \in S
    <3>1. n - i \in Nat
      BY <1>1
    <3> HIDE DEF S
    <3> QED
      BY <2>4, <2>5, <3>1, Upwards
  <2>7. n - i \in 0 .. n - i /\ (n - i) + 1 = n - (i - 1)
    BY <1>1
  <2> QED
    BY <2>2, <2>3, <2>6, <2>7
<1>5. Weight(r, 0) = Volume(r)
  <2>1. /\ SubSeq(r, 0 + 1, n) \in Seq(Int) /\ Len(SubSeq(r, 0 + 1, n)) = n
        /\ \A k \in 1 .. n : SubSeq(r, 0 + 1, n)[k] = r[k]
    BY <1>1, Suffix
  <2>2. SubSeq(r, 0 + 1, n) = r
    BY <2>1
  <2> QED
    BY <2>2 DEF Weight
<1>6. \A i \in 0 .. n : Weight(r, i) \in Int
  <2> SUFFICES ASSUME NEW i \in 0 .. n PROVE Weight(r, i) \in Int
    OBVIOUS
  <2>1. n - i \in 0 .. n - i
    BY <1>1
  <2> HIDE DEF n
  <2> QED
    BY <1>2, <2>1
<1> QED
  BY <1>3, <1>4, <1>5, <1>6

Radix == Seq(Nat \ {0})

IsDigits(d, r) == d \in [1 .. Len(r) -> Int] /\ \A i \in 1 .. Len(r) : d[i] \in 0 .. r[i] - 1

(* What sequences of sizes are made of.                                    *)
LEMMA RadixFacts ==
  ASSUME NEW r \in Radix
  PROVE  /\ r \in Seq(Int) /\ Len(r) \in Nat /\ DOMAIN r = 1 .. Len(r)
         /\ \A i \in 1 .. Len(r) : r[i] \in Nat \ {0}
BY DEF Radix

(* All weights are positive.                                               *)
LEMMA WeightPositive ==
  ASSUME NEW r \in Radix
  PROVE  /\ \A i \in 0 .. Len(r) : Weight(r, i) \in Nat \ {0}
         /\ Volume(r) \in Nat \ {0}
<1> DEFINE n == Len(r)
           S == { i \in 0 .. n : Weight(r, i) \in Nat \ {0} }
<1>1. r \in Seq(Int) /\ n \in Nat /\ \A i \in 1 .. n : r[i] \in Nat \ {0}
  BY RadixFacts
<1>2. n \in S
  BY <1>1, WeightSteps
<1>3. ASSUME NEW i \in 1 .. n, i \in S PROVE i - 1 \in S
  <2>1. Weight(r, i - 1) = r[i] * Weight(r, i) /\ i - 1 \in 0 .. n
    BY <1>1, WeightSteps
  <2>2. PICK a \in Nat \ {0}, b \in Nat \ {0} : a = r[i] /\ b = Weight(r, i)
    BY <1>1, <1>3
  <2>3. a * b \in Nat \ {0}
    OBVIOUS
  <2> QED
    BY <2>1, <2>2, <2>3
<1>4. \A i \in 0 .. n : i \in S
  <2> HIDE DEF S, n
  <2> QED
    BY <1>1, <1>2, <1>3, Downwards
<1>5. 0 \in 0 .. n
  BY <1>1
<1> QED
  BY <1>1, <1>4, <1>5, WeightSteps

(* A number splits at every digit into the digits before and after it.     *)
Split(p, d, r) ==
    /\ p \in [0 .. Len(r) -> Int]
    /\ p[0] = 0 /\ Number(d, r) = p[Len(r)]
    /\ \A k \in 1 .. Len(r) : p[k] = p[k - 1] * r[k] + d[k]

(* Every number of digits has such steps.                                  *)
LEMMA SplitExists ==
  ASSUME NEW r \in Radix, NEW d \in [1 .. Len(r) -> Int]
  PROVE  \E p : Split(p, d, r)
<1>1. r \in Seq(Int) /\ d \in [DOMAIN r -> Int]
  BY RadixFacts
<1>2. PICK p \in [0 .. Len(r) -> Int] :
            /\ p[0] = 0 /\ Number(d, r) = p[Len(r)]
            /\ \A k \in 1 .. Len(r) : p[k] = p[k - 1] * r[k] + d[k]
  BY <1>1, NumberSteps
<1>3. Split(p, d, r)
  BY <1>2 DEF Split
<1> QED
  BY <1>3

(* What the first digits leave is less than the weight of the last one.    *)
LEMMA SplitRest ==
  ASSUME NEW r \in Radix, NEW d, IsDigits(d, r), NEW p, Split(p, d, r)
  PROVE  \A k \in 0 .. Len(r) : Number(d, r) - p[k] * Weight(r, k) \in 0 .. Weight(r, k) - 1
<1> DEFINE n == Len(r)
           Rest(k) == Number(d, r) - p[k] * Weight(r, k)
           S == { k \in 0 .. n : Rest(k) \in 0 .. Weight(r, k) - 1 }
<1>1. r \in Seq(Int) /\ n \in Nat /\ \A i \in 1 .. n : r[i] \in Nat \ {0}
  BY RadixFacts
<1>2. /\ \A k \in 0 .. n : p[k] \in Int
      /\ Number(d, r) = p[n]
      /\ \A k \in 1 .. n : p[k] = p[k - 1] * r[k] + d[k]
  BY DEF Split
<1>3. /\ \A k \in 0 .. n : Weight(r, k) \in Nat \ {0}
      /\ \A k \in 1 .. n : Weight(r, k - 1) = r[k] * Weight(r, k)
      /\ Weight(r, n) = 1
  BY <1>1, WeightPositive, WeightSteps
<1>4. \A k \in 1 .. n : d[k] \in 0 .. r[k] - 1
  BY DEF IsDigits
<1> HIDE DEF n
<1>5. n \in S
  <2>1. n \in 0 .. n /\ p[n] \in Int
    BY <1>1, <1>2
  <2> QED
    BY <1>2, <1>3, <2>1
<1>6. ASSUME NEW k \in 1 .. n, k \in S PROVE k - 1 \in S
  <2>1. k - 1 \in 0 .. n /\ k \in 0 .. n
    BY <1>1
  <2>2. PICK a \in Int, w \in Nat \ {0}, x \in Nat \ {0}, q \in Int, e \in Int, m \in Int :
          /\ a = p[k - 1] /\ w = Weight(r, k) /\ x = r[k] /\ q = p[k] /\ e = d[k]
          /\ m = Number(d, r)
    <3>1. n \in 0 .. n
      BY <1>1
    <3>2. Number(d, r) \in Int
      BY <1>2, <3>1
    <3>3. d[k] \in Int
      BY <1>4, <1>1
    <3>4. p[k - 1] \in Int /\ p[k] \in Int /\ Weight(r, k) \in Nat \ {0} /\ r[k] \in Nat \ {0}
      BY <1>1, <1>2, <1>3, <2>1
    <3> QED
      BY <3>2, <3>3, <3>4
  <2>3. q = a * x + e /\ e \in 0 .. x - 1 /\ m - q * w \in 0 .. w - 1
    BY <1>2, <1>4, <1>6, <2>2
  <2>4. m - a * (x * w) = (m - q * w) + e * w
    <3>1. q * w = a * (x * w) + e * w
      BY <2>3
    <3> QED
      BY <3>1
  <2>5. e * w \in Nat /\ e * w + w <= x * w
    <3>1. e \in Nat /\ e + 1 <= x
      BY <2>3
    <3>2. (e + 1) * w <= x * w
      BY <3>1
    <3>3. (e + 1) * w = e * w + w
      BY <3>1
    <3>4. e * w \in Nat
      BY <3>1
    <3> QED
      BY <3>1, <3>2, <3>3, <3>4
  <2>6. m - a * (x * w) \in 0 .. (x * w) - 1
    <3>1. PICK v \in Int, ew \in Nat, xw \in Int : v = m - q * w /\ ew = e * w /\ xw = x * w
      BY <2>5
    <3>2. v + ew \in 0 .. xw - 1
      BY <2>3, <2>5, <3>1
    <3> QED
      BY <2>4, <3>1, <3>2
  <2>7. Weight(r, k - 1) = x * w
    BY <1>3, <2>2
  <2> QED
    BY <2>1, <2>2, <2>6, <2>7
<1>7. \A k \in 0 .. n : k \in S
  <2> HIDE DEF S
  <2> QED
    BY <1>1, <1>5, <1>6, Downwards
<1> QED
  BY <1>7 DEF n

(* A number that is made of digits is in range and has these digits.       *)
LEMMA DigitsOfNumber ==
  ASSUME NEW r \in Radix, NEW d, IsDigits(d, r)
  PROVE  /\ Number(d, r) \in 0 .. Volume(r) - 1
         /\ Digits(Number(d, r), r) = d
<1> DEFINE n == Len(r)
           m == Number(d, r)
<1>1. r \in Seq(Int) /\ n \in Nat /\ DOMAIN r = 1 .. n /\ \A i \in 1 .. n : r[i] \in Nat \ {0}
  BY RadixFacts
<1>2. PICK p : Split(p, d, r)
  BY SplitExists DEF IsDigits
<1>3. /\ \A k \in 0 .. n : p[k] \in Int /\ Weight(r, k) \in Nat \ {0}
      /\ \A k \in 0 .. n : m - p[k] * Weight(r, k) \in 0 .. Weight(r, k) - 1
      /\ \A k \in 1 .. n : p[k] = p[k - 1] * r[k] + d[k]
      /\ p[0] = 0 /\ m = p[n] /\ Weight(r, 0) = Volume(r)
  BY <1>1, <1>2, SplitRest, WeightPositive, WeightSteps DEF Split
<1>4. \A k \in 1 .. n : d[k] \in 0 .. r[k] - 1
  BY DEF IsDigits
<1> HIDE DEF n, m
<1>5. m \in Int
  <2>1. n \in 0 .. n
    BY <1>1
  <2> QED
    BY <1>3, <2>1
<1>6. m \in 0 .. Volume(r) - 1
  <2>1. 0 \in 0 .. n
    BY <1>1
  <2>2. PICK v \in Nat \ {0} : v = Weight(r, 0)
    BY <1>3, <2>1
  <2>3. m - 0 * v \in 0 .. v - 1
    BY <1>3, <2>1, <2>2
  <2> QED
    BY <1>3, <1>5, <2>2, <2>3
<1>7. ASSUME NEW k \in 1 .. n
      PROVE  (m \div Weight(r, k)) % r[k] = d[k]
  <2>1. k \in 0 .. n /\ k - 1 \in 0 .. n
    BY <1>1
  <2>2. PICK w \in Nat \ {0}, q \in Int, e \in Int :
           w = Weight(r, k) /\ q = p[k] /\ e = m - q * w
    BY <1>3, <1>5, <2>1
  <2>3. e \in 0 .. w - 1 /\ m = q * w + e
    BY <1>3, <1>5, <2>1, <2>2
  <2>4. m \div w = q
    BY <2>3, DivisionUnique
  <2>5. p[k] % r[k] = d[k]
    <3>1. PICK a \in Int, x \in Nat \ {0} : a = p[k - 1] /\ x = r[k]
      BY <1>1, <1>3, <2>1
    <3>2. p[k] = a * x + d[k] /\ d[k] \in 0 .. x - 1
      BY <1>3, <1>4, <3>1
    <3>3. (a * x + d[k]) % x = d[k]
      BY <3>2, DivisionUnique
    <3> QED
      BY <3>1, <3>2, <3>3
  <2> QED
    BY <2>2, <2>4, <2>5
<1>8. Digits(m, r) = d
  <2>1. Digits(m, r) = [k \in 1 .. n |-> (m \div Weight(r, k)) % r[k]]
    BY <1>1 DEF Digits, Weight
  <2>2. d = [k \in 1 .. n |-> d[k]]
    BY DEF IsDigits, n
  <2> QED
    BY <1>7, <2>1, <2>2
<1> QED
  BY <1>6, <1>8 DEF m

(* A number in range is made of its digits.                                *)
LEMMA NumberOfDigits ==
  ASSUME NEW r \in Radix, NEW m \in 0 .. Volume(r) - 1
  PROVE  /\ IsDigits(Digits(m, r), r)
         /\ Number(Digits(m, r), r) = m
<1> DEFINE n == Len(r)
           d == Digits(m, r)
           q(k) == m \div Weight(r, k)
<1>1. r \in Seq(Int) /\ n \in Nat /\ DOMAIN r = 1 .. n /\ \A i \in 1 .. n : r[i] \in Nat \ {0}
  BY RadixFacts
<1>2. /\ \A k \in 0 .. n : Weight(r, k) \in Nat \ {0}
      /\ \A k \in 1 .. n : Weight(r, k - 1) = r[k] * Weight(r, k)
      /\ Weight(r, 0) = Volume(r) /\ Weight(r, n) = 1
  BY <1>1, WeightPositive, WeightSteps
<1>3. m \in Nat /\ m < Volume(r) /\ Volume(r) \in Nat \ {0}
  BY WeightPositive
<1>4. d = [k \in 1 .. n |-> q(k) % r[k]]
  BY <1>1 DEF Digits, Weight
<1> HIDE DEF n
<1>5. \A k \in 0 .. n : q(k) \in Nat
  <2> SUFFICES ASSUME NEW k \in 0 .. n PROVE q(k) \in Nat
    OBVIOUS
  <2>1. PICK w \in Nat \ {0} : w = Weight(r, k)
    BY <1>2
  <2>2. m \div w \in Nat
    BY <1>3
  <2> QED
    BY <2>1, <2>2
<1>6. ASSUME NEW k \in 1 .. n
      PROVE  /\ d[k] \in 0 .. r[k] - 1
             /\ q(k) = q(k - 1) * r[k] + d[k]
  <2>1. k \in 0 .. n /\ k - 1 \in 0 .. n
    BY <1>1
  <2>2. PICK w \in Nat \ {0}, x \in Nat \ {0} : w = Weight(r, k) /\ x = r[k]
    BY <1>1, <1>2, <2>1
  <2>3. q(k - 1) = (m \div w) \div x
    <3>1. Weight(r, k - 1) = w * x
      BY <1>2, <2>2
    <3>2. m \div (w * x) = (m \div w) \div x
      BY <1>3, NestedDivision
    <3> QED
      BY <3>1, <3>2 DEF q
  <2>4. PICK y \in Nat : y = m \div w
    BY <1>5, <2>1, <2>2
  <2>5. y = (y \div x) * x + (y % x) /\ y % x \in 0 .. x - 1
    <3>1. y \in Int
      OBVIOUS
    <3> HIDE DEF d, q
    <3> QED
      BY <3>1, Division
  <2>6. d[k] = y % x
    BY <1>4, <2>2, <2>4
  <2> QED
    BY <2>2, <2>3, <2>4, <2>5, <2>6
<1> HIDE DEF q
<1>7. IsDigits(d, r)
  <2>1. \A k \in 1 .. n : d[k] \in Int
    BY <1>1, <1>6
  <2>2. d = [k \in 1 .. n |-> d[k]]
    BY <1>4
  <2> HIDE DEF d
  <2>3. d \in [1 .. n -> Int]
    BY <2>1, <2>2
  <2> QED
    BY <1>6, <2>3 DEF IsDigits, n
<1> HIDE DEF d
<1>8. PICK p : Split(p, d, r)
  BY <1>7, SplitExists DEF IsDigits
<1> DEFINE S == { k \in 0 .. n : p[k] = q(k) }
<1>9. 0 \in S
  <2>1. q(0) = 0
    <3>1. PICK v \in Nat \ {0} : v = Volume(r)
      BY <1>3
    <3>2. m \div v = 0
      BY <1>3, <3>1
    <3> QED
      BY <1>2, <3>1, <3>2 DEF q
  <2>2. 0 \in 0 .. n
    BY <1>1
  <2> QED
    BY <1>8, <2>1, <2>2 DEF Split
<1>10. ASSUME NEW k \in 0 .. n - 1, k \in S PROVE k + 1 \in S
  <2>1. k + 1 \in 1 .. n /\ (k + 1) - 1 = k /\ k + 1 \in 0 .. n
    BY <1>1
  <2>2. p[k + 1] = p[k] * r[k + 1] + d[k + 1]
    BY <1>8, <2>1 DEF Split, n
  <2>3. q(k + 1) = q(k) * r[k + 1] + d[k + 1]
    BY <1>6, <2>1
  <2> QED
    BY <1>10, <2>1, <2>2, <2>3
<1>11. \A k \in 0 .. n : k \in S
  <2> HIDE DEF S
  <2> QED
    BY <1>1, <1>9, <1>10, Upwards
<1>12. Number(d, r) = q(n)
  <2>1. n \in 0 .. n
    BY <1>1
  <2> QED
    BY <1>8, <1>11, <2>1 DEF Split, n
<1>13. q(n) = m
  BY <1>2, <1>3 DEF q
<1> QED
  BY <1>7, <1>12, <1>13 DEF d

(* What another digit changes.                                             *)
LEMMA NumberChange ==
  ASSUME NEW r \in Radix, NEW d \in [1 .. Len(r) -> Int], NEW i \in 1 .. Len(r), NEW v \in Int
  PROVE  /\ [d EXCEPT ![i] = v] \in [1 .. Len(r) -> Int]
         /\ Number(d, r) \in Int
         /\ Number([d EXCEPT ![i] = v], r) = Number(d, r) + (v - d[i]) * Weight(r, i)
<1> DEFINE n == Len(r)
           e == [d EXCEPT ![i] = v]
<1>1. r \in Seq(Int) /\ n \in Nat /\ \A k \in 1 .. n : r[k] \in Nat \ {0}
  BY RadixFacts
<1>2. /\ \A k \in 0 .. n : Weight(r, k) \in Nat \ {0}
      /\ \A k \in 1 .. n : Weight(r, k - 1) = r[k] * Weight(r, k)
      /\ Weight(r, n) = 1
  BY <1>1, WeightPositive, WeightSteps
<1>3. e \in [1 .. n -> Int] /\ e[i] = v /\ \A k \in 1 .. n : k # i => e[k] = d[k]
  OBVIOUS
<1>4. PICK p : Split(p, d, r)
  BY SplitExists
<1> HIDE DEF e
<1>5. PICK q : Split(q, e, r)
  BY <1>3, SplitExists
<1>6. /\ \A k \in 0 .. n : p[k] \in Int /\ q[k] \in Int
      /\ p[0] = 0 /\ q[0] = 0 /\ Number(d, r) = p[n] /\ Number(e, r) = q[n]
      /\ \A k \in 1 .. n : p[k] = p[k - 1] * r[k] + d[k] /\ q[k] = q[k - 1] * r[k] + e[k]
  BY <1>4, <1>5 DEF Split
<1>7. \A k \in 1 .. n : d[k] \in Int
  OBVIOUS
<1> HIDE DEF n
<1>a. i \in 1 .. n
  BY DEF n
<1> DEFINE S == { k \in 0 .. n : IF k < i THEN q[k] = p[k]
                                 ELSE (q[k] - p[k]) * Weight(r, k) = (v - d[i]) * Weight(r, i) }
<1>8. 0 \in S
  <2>1. 0 \in 0 .. n /\ 0 < i
    BY <1>1, <1>a
  <2> QED
    BY <1>6, <2>1
<1>9. ASSUME NEW j \in 0 .. n - 1, j \in S PROVE j + 1 \in S
  <2>1. /\ j + 1 \in 1 .. n /\ (j + 1) - 1 = j /\ j + 1 \in 0 .. n /\ j \in 0 .. n
        /\ i \in 1 .. n /\ i \in 0 .. n
    BY <1>1, <1>a
  <2>2. PICK a \in Int, b \in Int, x \in Nat \ {0}, w \in Nat \ {0}, y \in Int :
           a = p[j] /\ b = q[j] /\ x = r[j + 1] /\ w = Weight(r, j + 1) /\ y = d[j + 1]
    BY <1>1, <1>2, <1>6, <1>7, <2>1
  <2>3. p[j + 1] = a * x + y /\ q[j + 1] = b * x + e[j + 1] /\ Weight(r, j) = x * w
    BY <1>2, <1>6, <2>1, <2>2
  <2>4. CASE j + 1 < i
    <3>1. a = b /\ e[j + 1] = y
      BY <1>3, <1>9, <2>1, <2>2, <2>4
    <3> QED
      BY <2>1, <2>3, <2>4, <3>1
  <2>5. CASE j + 1 = i
    <3>1. a = b /\ e[j + 1] = v /\ y = d[i]
      BY <1>3, <1>9, <2>1, <2>2, <2>5
    <3>2. PICK ax \in Int : ax = a * x
      BY <2>2
    <3>3. q[j + 1] - p[j + 1] = v - y
      BY <2>3, <3>1, <3>2
    <3> QED
      BY <2>1, <2>5, <3>1, <3>3
  <2>6. CASE j + 1 > i
    <3>1. (b - a) * (x * w) = (v - d[i]) * Weight(r, i) /\ e[j + 1] = y
      BY <1>3, <1>9, <2>1, <2>2, <2>3, <2>6
    <3>2. q[j + 1] - p[j + 1] = (b - a) * x
      BY <2>3, <3>1
    <3>3. ((b - a) * x) * w = (b - a) * (x * w)
      OBVIOUS
    <3>4. (q[j + 1] - p[j + 1]) * Weight(r, j + 1) = (v - d[i]) * Weight(r, i)
      BY <2>2, <3>1, <3>2, <3>3
    <3> QED
      BY <2>1, <2>6, <3>4
  <2> QED
    BY <2>1, <2>4, <2>5, <2>6
<1>10. \A k \in 0 .. n : k \in S
  <2> HIDE DEF S
  <2> QED
    BY <1>1, <1>8, <1>9, Upwards
<1>11. n \in 0 .. n /\ ~(n < i)
  BY <1>1, <1>a
<1>12. (q[n] - p[n]) * 1 = (v - d[i]) * Weight(r, i)
  BY <1>2, <1>10, <1>11
<1>13. PICK c \in Int : c = (v - d[i]) * Weight(r, i)
  <2>1. d[i] \in Int /\ Weight(r, i) \in Int
    BY <1>2, <1>7, <1>11, <1>a
  <2> QED
    BY <2>1
<1>14. Number(e, r) = Number(d, r) + c /\ Number(d, r) \in Int
  BY <1>6, <1>11, <1>12, <1>13
<1> QED
  BY <1>3, <1>13, <1>14 DEF e, n

(* Larger radices, larger numbers.                                         *)
LEMMA NumberGrows ==
  ASSUME NEW r \in Radix, NEW s \in Radix, Len(s) = Len(r),
         \A i \in 1 .. Len(r) : r[i] <= s[i],
         NEW d, IsDigits(d, r)
  PROVE  Number(d, r) <= Number(d, s)
<1> DEFINE n == Len(r)
<1>1. /\ n \in Nat /\ \A k \in 1 .. n : r[k] \in Nat \ {0} /\ s[k] \in Nat \ {0}
      /\ \A k \in 1 .. n : d[k] \in Nat
  BY RadixFacts DEF IsDigits
<1>2. PICK p : Split(p, d, r)
  BY SplitExists DEF IsDigits
<1>3. PICK q : Split(q, d, s)
  BY SplitExists DEF IsDigits
<1>4. /\ p[0] = 0 /\ q[0] = 0 /\ Number(d, r) = p[n] /\ Number(d, s) = q[n]
      /\ \A k \in 1 .. n : p[k] = p[k - 1] * r[k] + d[k] /\ q[k] = q[k - 1] * s[k] + d[k]
  BY <1>2, <1>3 DEF Split
<1>a. \A k \in 1 .. n : r[k] <= s[k]
  OBVIOUS
<1> HIDE DEF n
<1> DEFINE S == { k \in 0 .. n : p[k] \in Nat /\ q[k] \in Nat /\ p[k] <= q[k] }
<1>5. 0 \in S
  BY <1>1, <1>4
<1>6. ASSUME NEW j \in 0 .. n - 1, j \in S PROVE j + 1 \in S
  <2>1. j + 1 \in 1 .. n /\ (j + 1) - 1 = j /\ j + 1 \in 0 .. n
    BY <1>1
  <2>2. PICK a \in Nat, b \in Nat, x \in Nat \ {0}, y \in Nat \ {0}, e \in Nat :
           a = p[j] /\ b = q[j] /\ x = r[j + 1] /\ y = s[j + 1] /\ e = d[j + 1]
    BY <1>1, <1>6, <2>1
  <2>3. a <= b /\ x <= y
    BY <1>6, <1>a, <2>1, <2>2
  <2>4. a * x <= b * y
    <3>1. a * x <= b * x
      BY <2>3
    <3>2. b * x <= b * y
      BY <2>3
    <3> QED
      BY <3>1, <3>2
  <2>5. p[j + 1] = a * x + e /\ q[j + 1] = b * y + e
    BY <1>4, <2>1, <2>2
  <2>6. PICK c \in Nat, f \in Nat : c = a * x /\ f = b * y
    <3>1. a * x \in Nat /\ b * y \in Nat
      OBVIOUS
    <3> QED
      BY <3>1
  <2> QED
    BY <2>1, <2>4, <2>5, <2>6
<1>7. \A k \in 0 .. n : k \in S
  <2> HIDE DEF S
  <2> QED
    BY <1>1, <1>5, <1>6, Upwards
<1>8. n \in 0 .. n
  BY <1>1
<1> QED
  BY <1>4, <1>7, <1>8 DEF n

(* A number whose first digit is negative and others are digits.           *)
LEMMA NumberNegative ==
  ASSUME NEW r \in Radix, Len(r) # 0, NEW d \in [1 .. Len(r) -> Int], d[1] < 0,
         \A i \in 2 .. Len(r) : d[i] \in 0 .. r[i] - 1
  PROVE  Number(d, r) < 0
<1> DEFINE n == Len(r)
           e == [d EXCEPT ![1] = 0]
<1>1. r \in Seq(Int) /\ n \in Nat /\ 1 \in 1 .. n /\ \A k \in 1 .. n : r[k] \in Nat \ {0}
  BY RadixFacts
<1>2. e \in [1 .. n -> Int] /\ e[1] = 0 /\ \A k \in 2 .. n : e[k] = d[k]
  BY <1>1
<1>3. /\ Number(d, r) \in Int
      /\ Number(e, r) = Number(d, r) + (0 - d[1]) * Weight(r, 1)
  <2>1. 1 \in 1 .. Len(r) /\ 0 \in Int
    BY <1>1
  <2> QED
    BY <2>1, NumberChange
<1> HIDE DEF e
<1>4. IsDigits(e, r)
  <2>1. \A k \in 1 .. n : k = 1 \/ k \in 2 .. n
    BY <1>1
  <2>2. \A k \in 1 .. n : e[k] \in 0 .. r[k] - 1
    BY <1>1, <1>2, <2>1
  <2> QED
    BY <1>2, <2>2 DEF IsDigits
<1>5. PICK p : Split(p, e, r)
  BY <1>4, SplitExists DEF IsDigits
<1>6. p[1] = 0
  <2>1. p[1] = p[1 - 1] * r[1] + e[1] /\ p[0] = 0
    BY <1>1, <1>5 DEF Split
  <2> QED
    BY <1>1, <1>2, <2>1
<1>7. PICK w \in Nat \ {0}, a \in Int, m \in Int : w = Weight(r, 1) /\ a = d[1] /\ m = Number(d, r)
  <2>1. 1 \in 0 .. Len(r) /\ d[1] \in Int
    BY <1>1, SMTT(30)
  <2>2. Weight(r, 1) \in Nat \ {0}
    BY <2>1, WeightPositive
  <2> QED
    BY <1>3, <2>1, <2>2
<1>8. Number(e, r) - 0 * w \in 0 .. w - 1
  BY <1>1, <1>4, <1>5, <1>6, <1>7, SplitRest
<1>9. m + (0 - a) * w < w
  <2>1. PICK x \in Int : x = m + (0 - a) * w
    BY <1>7
  <2> QED
    BY <1>3, <1>7, <1>8, <2>1
<1>10. (0 - a) * w >= w
  BY <1>7
<1>11. PICK z \in Int : z = (0 - a) * w
  BY <1>7
<1> QED
  BY <1>7, <1>9, <1>10, <1>11

(* A function defined by its value before exists.                          *)
Iterates(f, n, X, base, G) ==
    /\ f \in [0 .. n -> X] /\ f[0] = base
    /\ \A k \in 1 .. n : f[k] = G[k][f[k - 1]]

(* A recursive function of a number exists.                                *)
LEMMA Recursion ==
  ASSUME NEW n \in Nat, NEW X, NEW base \in X, NEW G \in [1 .. n -> [X -> X]]
  PROVE  \E f : Iterates(f, n, X, base, G)
<1> DEFINE P(m, f) == /\ f \in [0 .. m -> X] /\ f[0] = base
                      /\ \A k \in 1 .. m : f[k] = G[k][f[k - 1]]
           S == { m \in 0 .. n : \E f : P(m, f) }
<1>1. 0 \in S
  <2> DEFINE f == [k \in 0 .. 0 |-> base]
  <2>1. P(0, f)
    OBVIOUS
  <2>2. 0 \in 0 .. n
    OBVIOUS
  <2> HIDE DEF f, P
  <2> QED
    BY <2>1, <2>2
<1>2. ASSUME NEW m \in 0 .. n - 1, m \in S PROVE m + 1 \in S
  <2>1. PICK f : P(m, f)
    BY <1>2
  <2> DEFINE g == [k \in 0 .. m + 1 |-> IF k <= m THEN f[k] ELSE G[m + 1][f[m]]]
  <2>2. m + 1 \in 1 .. n /\ m \in 0 .. m /\ m + 1 \in 0 .. m + 1 /\ m \in Nat
    OBVIOUS
  <2>3. \A k \in 0 .. m : g[k] = f[k]
    OBVIOUS
  <2>4. g[m + 1] = G[m + 1][f[m]]
    BY <2>2
  <2>5. G[m + 1][f[m]] \in X
    BY <2>1, <2>2
  <2>6. \A k \in 0 .. m + 1 : k \in 0 .. m \/ k = m + 1
    OBVIOUS
  <2>7. g = [k \in 0 .. m + 1 |-> g[k]]
    OBVIOUS
  <2> HIDE DEF g
  <2>8. g \in [0 .. m + 1 -> X]
    BY <2>1, <2>3, <2>4, <2>5, <2>6, <2>7
  <2>9. ASSUME NEW k \in 1 .. m + 1 PROVE g[k] = G[k][g[k - 1]]
    <3>1. CASE k = m + 1
      BY <2>2, <2>3, <2>4, <3>1
    <3>2. CASE k # m + 1
      <4>1. k \in 1 .. m /\ k \in 0 .. m /\ k - 1 \in 0 .. m
        BY <3>2
      <4> QED
        BY <2>1, <2>3, <4>1
    <3> QED
      BY <3>1, <3>2
  <2>10. 0 \in 0 .. m
    OBVIOUS
  <2>11. P(m + 1, g)
    BY <2>1, <2>3, <2>8, <2>9, <2>10
  <2>12. m + 1 \in 0 .. n
    OBVIOUS
  <2> HIDE DEF P
  <2> QED
    BY <2>11, <2>12
<1>3. \A k \in 0 .. n : k \in S
  <2> HIDE DEF S
  <2> QED
    BY <1>1, <1>2, Upwards
<1>4. PICK f : P(n, f)
  BY <1>3
<1>5. Iterates(f, n, X, base, G)
  BY <1>4 DEF Iterates
<1> QED
  BY <1>5

(* The state of getVar's loop, and what it does to one dimension.          *)
LoopState(B, F, n) ==
    [buf : B, pos : [1 .. n -> Int], indexFile : F, indexBuf : Int]

BorrowAt(act, size, i, p) ==
    IF p.pos[i] >= 0 THEN p
    ELSE [buf |-> p.buf,
          pos |-> [[p.pos EXCEPT ![i - 1] = p.pos[i - 1] - 1] EXCEPT ![i] = act[i] - 1],
          indexFile |-> p.indexFile,
          indexBuf |-> p.indexBuf - Weight(size, i - 1) + Weight(size, i) * act[i]]

BorrowAtOf(act, size, i, p) ==
    IF p.pos[i] >= 0 THEN p
    ELSE [p EXCEPT !.pos[i - 1] = @ - 1, !.pos[i] = act[i] - 1,
                   !.indexBuf = @ - Weight(size, i - 1) + Weight(size, i) * act[i]]

(* Borrowing gives a state of the loop again.                              *)
LEMMA BorrowAtState ==
  ASSUME NEW B, NEW F, NEW n \in Nat, NEW act \in Radix, NEW size \in Radix,
         Len(act) = n, Len(size) = n, NEW i \in 2 .. n, NEW p \in LoopState(B, F, n)
  PROVE  /\ BorrowAt(act, size, i, p) \in LoopState(B, F, n)
         /\ BorrowAt(act, size, i, p).buf = p.buf
         /\ BorrowAt(act, size, i, p).indexFile = p.indexFile
         /\ BorrowAt(act, size, i, p) = BorrowAtOf(act, size, i, p)
<1>1. i - 1 \in 1 .. n /\ i \in 1 .. n /\ i \in 0 .. n /\ i - 1 \in 0 .. n
  OBVIOUS
<1>2. act[i] \in Int /\ Weight(size, i - 1) \in Int /\ Weight(size, i) \in Int
  BY <1>1, RadixFacts, WeightPositive
<1>3. PICK x \in Int : x = Weight(size, i) * act[i]
  BY <1>2
<1>4. /\ p.buf \in B /\ p.pos \in [1 .. n -> Int] /\ p.indexFile \in F /\ p.indexBuf \in Int
      /\ p = [buf |-> p.buf, pos |-> p.pos, indexFile |-> p.indexFile, indexBuf |-> p.indexBuf]
  BY DEF LoopState
<1>5. p.pos[i - 1] \in Int
  BY <1>1, <1>4
<1> DEFINE new == [[p.pos EXCEPT ![i - 1] = p.pos[i - 1] - 1] EXCEPT ![i] = act[i] - 1]
           next == p.indexBuf - Weight(size, i - 1) + x
<1>6. new \in [1 .. n -> Int] /\ next \in Int
  <2>1. PICK q \in [1 .. n -> Int], v \in Int, w \in Int :
           q = p.pos /\ v = p.pos[i - 1] - 1 /\ w = act[i] - 1
    BY <1>2, <1>4, <1>5, SMTT(30)
  <2>2. [[q EXCEPT ![i - 1] = v] EXCEPT ![i] = w] \in [1 .. n -> Int]
    OBVIOUS
  <2>3. new = [[q EXCEPT ![i - 1] = v] EXCEPT ![i] = w]
    BY <2>1
  <2>4. PICK y \in Int, z \in Int : y = p.indexBuf /\ z = Weight(size, i - 1)
    BY <1>2, <1>4
  <2>5. next = y - z + x
    BY <2>4
  <2> HIDE DEF new, next
  <2> QED
    BY <2>2, <2>3, <2>5
<1>7. CASE p.pos[i] >= 0
  BY <1>4, <1>7 DEF BorrowAt, BorrowAtOf
<1>8. CASE ~(p.pos[i] >= 0)
  <2>1. BorrowAt(act, size, i, p) =
           [buf |-> p.buf, pos |-> new, indexFile |-> p.indexFile, indexBuf |-> next]
    BY <1>3, <1>8 DEF BorrowAt
  <2>2. [p EXCEPT !.pos[i - 1] = @ - 1, !.pos[i] = act[i] - 1,
                  !.indexBuf = @ - Weight(size, i - 1) + Weight(size, i) * act[i]]
           = [buf |-> p.buf, pos |-> new, indexFile |-> p.indexFile, indexBuf |-> next]
    <3> HIDE DEF new, next
    <3>1. PICK u, m : u = Weight(size, i - 1) /\ m = Weight(size, i) * act[i]
      OBVIOUS
    <3>2. PICK v : v = act[i] - 1
      OBVIOUS
    <3>3. [p EXCEPT !.pos[i - 1] = @ - 1, !.pos[i] = v, !.indexBuf = @ - u + m]
             = [buf |-> p.buf, pos |-> [[p.pos EXCEPT ![i - 1] = p.pos[i - 1] - 1] EXCEPT ![i] = v],
                indexFile |-> p.indexFile, indexBuf |-> p.indexBuf - u + m]
      <4> DEFINE z == [p EXCEPT !.pos[i - 1] = @ - 1, !.pos[i] = v, !.indexBuf = @ - u + m]
                 q == [[p.pos EXCEPT ![i - 1] = p.pos[i - 1] - 1] EXCEPT ![i] = v]
      <4>1. DOMAIN p = {"buf", "pos", "indexFile", "indexBuf"}
        BY <1>4
      <4>2. /\ DOMAIN z = DOMAIN p /\ z.buf = p.buf /\ z.pos = q
            /\ z.indexFile = p.indexFile /\ z.indexBuf = p.indexBuf - u + m
        BY <4>1
      <4>3. z = [c \in DOMAIN z |-> z[c]]
        OBVIOUS
      <4> HIDE DEF z, q
      <4>4. z = [buf |-> p.buf, pos |-> q, indexFile |-> p.indexFile, indexBuf |-> p.indexBuf - u + m]
        BY <4>1, <4>2, <4>3
      <4> QED
        BY <4>4 DEF z, q
    <3>4. [[p.pos EXCEPT ![i - 1] = p.pos[i - 1] - 1] EXCEPT ![i] = v] = new /\ p.indexBuf - u + m = next
      BY <1>3, <3>1, <3>2 DEF new, next
    <3> QED
      BY <3>1, <3>2, <3>3, <3>4
  <2> HIDE DEF new, next
  <2> QED
    BY <1>4, <1>6, <1>8, <2>1, <2>2 DEF LoopState, BorrowAtOf
<1> QED
  BY <1>7, <1>8

(* The inner loop of getVar, dimension by dimension.                       *)
Borrowed(b, act, size, s, B, F) ==
    /\ b \in [0 .. Len(size) - 1 -> LoopState(B, F, Len(size))]
    /\ b[0] = s
    /\ \A k \in 1 .. Len(size) - 1 : b[k] = BorrowAt(act, size, Len(size) + 1 - k, b[k - 1])

(* The recursive function of the model takes these steps.                  *)
LEMMA BorrowSteps ==
  ASSUME NEW g, NEW block, NEW B, NEW F,
         g.blockSize \in Radix, ActSize(g, block) \in Radix, Len(g.blockSize) # 0,
         Len(g.size) = Len(g.blockSize), DOMAIN g.size = 1 .. Len(g.size),
         Len(ActSize(g, block)) = Len(g.blockSize),
         NEW s \in LoopState(B, F, Len(g.blockSize))
  PROVE  \E b : /\ Borrowed(b, ActSize(g, block), g.blockSize, s, B, F)
                /\ Borrow(g, block, s) = b[Len(g.blockSize) - 1]
<1> DEFINE act == ActSize(g, block)
           size == g.blockSize
           n == Len(size)
           X == LoopState(B, F, n)
           G == [k \in 1 .. n - 1 |-> [p \in X |-> BorrowAt(act, size, n + 1 - k, p)]]
           step(k, p) == IF p.pos[n + 1 - k] >= 0 THEN p
                         ELSE [p EXCEPT !.pos[(n + 1 - k) - 1] = @ - 1,
                                        !.pos[n + 1 - k] = act[n + 1 - k] - 1,
                                        !.indexBuf = @ - Imap(g)[(n + 1 - k) - 1]
                                                        + Imap(g)[n + 1 - k] * act[n + 1 - k]]
           Is(b) == b = [k \in 0 .. n - 1 |-> IF k = 0 THEN s ELSE step(k, b[k - 1])]
           it == CHOOSE b : Is(b)
<1>1. n \in Nat \ {0} /\ \A k \in 1 .. n - 1 : n + 1 - k \in 2 .. n
  <2>1. size \in Radix /\ n # 0
    OBVIOUS
  <2>2. n \in Nat \ {0}
    BY <2>1, RadixFacts
  <2> HIDE DEF n
  <2> QED
    BY <2>2
<1>2. Borrow(g, block, s) = it[n - 1]
  BY DEF Borrow
<1>3. \A i \in 1 .. n : Imap(g)[i] = Weight(size, i)
  BY DEF Imap, Weight
<1>4. act \in Radix /\ size \in Radix /\ Len(act) = n /\ Len(size) = n /\ s \in X
  OBVIOUS
<1> HIDE DEF act, size, n
<1>5. ASSUME NEW k \in 1 .. n - 1, NEW p \in X
      PROVE  BorrowAt(act, size, n + 1 - k, p) \in X /\ BorrowAt(act, size, n + 1 - k, p) = step(k, p)
  <2>1. PICK i \in 2 .. n : i = n + 1 - k
    BY <1>1
  <2>2. i \in 1 .. n /\ i - 1 \in 1 .. n
    BY <1>1
  <2>3. Imap(g)[i] = Weight(size, i) /\ Imap(g)[i - 1] = Weight(size, i - 1)
    BY <1>3, <2>2
  <2>4. /\ BorrowAt(act, size, i, p) \in X
        /\ BorrowAt(act, size, i, p) = BorrowAtOf(act, size, i, p)
    BY <1>1, <1>4, BorrowAtState
  <2>5. BorrowAtOf(act, size, i, p) = step(k, p)
    BY <2>1, <2>3 DEF BorrowAtOf
  <2> QED
    BY <2>1, <2>4, <2>5
<1>6. G \in [1 .. n - 1 -> [X -> X]]
  <2> HIDE DEF X, step
  <2> QED
    BY <1>5
<1>7. PICK b : Iterates(b, n - 1, X, s, G)
  <2>1. n - 1 \in Nat
    BY <1>1
  <2> HIDE DEF G, X
  <2> QED
    BY <1>4, <1>6, <2>1, Recursion
<1>b. /\ b \in [0 .. n - 1 -> X] /\ b[0] = s
      /\ \A k \in 1 .. n - 1 : b[k] = G[k][b[k - 1]]
  BY <1>7 DEF Iterates
<1>8. ASSUME NEW k \in 1 .. n - 1 
      PROVE  b[k - 1] \in X /\ b[k] = BorrowAt(act, size, n + 1 - k, b[k - 1])
  <2>1. k - 1 \in 0 .. n - 1
    BY <1>1
  <2>2. b[k - 1] \in X
    BY <1>b, <2>1
  <2> HIDE DEF X
  <2> QED
    BY <1>b, <2>2
<1> HIDE DEF G
<1>9. Is(b)
  <2>1. ASSUME NEW k \in 0 .. n - 1
        PROVE  b[k] = IF k = 0 THEN s ELSE step(k, b[k - 1])
    <3>1. CASE k = 0
      BY <1>b, <3>1
    <3>2. CASE k # 0
      <4>1. k \in 1 .. n - 1
        BY <3>2
      <4>2. b[k] = step(k, b[k - 1])
        BY <1>5, <1>8, <4>1
      <4> HIDE DEF step
      <4> QED
        BY <3>2, <4>2
    <3> QED
      BY <3>1, <3>2
  <2> HIDE DEF step, X
  <2> QED
    BY <1>b, <2>1
<1>10. Is(it)
  <2> HIDE DEF Is
  <2> QED
    BY <1>9
<1>11. ASSUME NEW c, Is(c) PROVE c = b
  <2> DEFINE S == { k \in 0 .. n - 1 : c[k] = b[k] }
  <2> HIDE DEF step, X
  <2>1. c = [k \in 0 .. n - 1 |-> c[k]] /\ b = [k \in 0 .. n - 1 |-> b[k]]
    BY <1>b, <1>11
  <2>2. /\ \A k \in 0 .. n - 1 : c[k] = IF k = 0 THEN s ELSE step(k, c[k - 1])
        /\ \A k \in 0 .. n - 1 : b[k] = IF k = 0 THEN s ELSE step(k, b[k - 1])
    BY <1>9, <1>11
  <2> HIDE DEF Is
  <2>3. 0 \in S
    BY <1>1, <2>2
  <2>4. ASSUME NEW k \in 0 .. (n - 1) - 1, k \in S PROVE k + 1 \in S
    <3>1. k + 1 \in 0 .. n - 1 /\ k + 1 # 0 /\ (k + 1) - 1 = k
      BY <1>1
    <3>2. c[k] = b[k]
      BY <2>4
    <3> QED
      BY <2>2, <3>1, <3>2
  <2>5. \A k \in 0 .. n - 1 : k \in S
    <3>1. n - 1 \in Nat
      BY <1>1
    <3> HIDE DEF S
    <3> QED
      BY <2>3, <2>4, <3>1, Upwards
  <2> QED
    BY <2>1, <2>5
<1>12. it = b
  <2> HIDE DEF Is, it
  <2> QED
    BY <1>10, <1>11
<1>13. Borrowed(b, act, size, s, B, F)
  BY <1>4, <1>b, <1>8 DEF Borrowed, n
<1> QED
  BY <1>2, <1>12, <1>13 DEF act, size, n

(* While it borrows, the loop keeps both numbers.                          *)
Borrowing(p, act, size, f, s, j) ==
    /\ p.buf = s.buf /\ p.indexFile = s.indexFile
    /\ \A i \in 1 .. Len(size) : i # j => p.pos[i] \in 0 .. act[i] - 1
    /\ p.pos[j] \in -1 .. act[j] - 1
    /\ Number(p.pos, act) = f - 1
    /\ Number(p.pos, size) = p.indexBuf
    /\ p.indexBuf <= s.indexBuf

(* Borrowing from the next dimension keeps both.                           *)
LEMMA BorrowAtMoves ==
  ASSUME NEW B, NEW F, NEW act \in Radix, NEW size \in Radix, Len(act) = Len(size),
         \A i \in 1 .. Len(size) : act[i] <= size[i],
         NEW j \in 2 .. Len(size), NEW s \in LoopState(B, F, Len(size)),
         NEW p \in LoopState(B, F, Len(size)), NEW f \in Nat,
         Borrowing(p, act, size, f, s, j)
  PROVE  Borrowing(BorrowAt(act, size, j, p), act, size, f, s, j - 1)
<1> DEFINE n == Len(size)
<1>1. /\ n \in Nat /\ j \in 1 .. n /\ j - 1 \in 1 .. n /\ j - 1 # j
      /\ act[j] \in Nat \ {0} /\ act[j - 1] \in Nat \ {0} /\ size[j] \in Nat \ {0}
      /\ act[j] <= size[j]
  BY RadixFacts
<1>2. p.pos \in [1 .. n -> Int] /\ p.indexBuf \in Int /\ s.indexBuf \in Int
  BY DEF LoopState
<1>3. p.pos[j - 1] \in 0 .. act[j - 1] - 1 /\ p.pos[j] \in -1 .. act[j] - 1
  BY <1>1 DEF Borrowing
<1>6. p.pos[j - 1] \in Int /\ p.pos[j] \in Int
  BY <1>1, <1>2
<1>4. CASE p.pos[j] >= 0
  <2>1. BorrowAt(act, size, j, p) = p
    BY <1>4 DEF BorrowAt
  <2>2. p.pos[j] \in 0 .. act[j] - 1 /\ p.pos[j - 1] \in -1 .. act[j - 1] - 1
    BY <1>1, <1>3, <1>4, SMTT(30)
  <2> QED
    BY <2>1, <2>2 DEF Borrowing
<1>5. CASE ~(p.pos[j] >= 0)
  <2>1. PICK d \in [1 .. n -> Int], u \in Int, v \in Int :
           d = p.pos /\ u = p.pos[j - 1] - 1 /\ v = act[j] - 1
    <3>1. p.pos[j - 1] - 1 \in Int /\ act[j] - 1 \in Int
      BY <1>1, <1>6
    <3> QED
      BY <1>2, <3>1
  <2>2. PICK d1 \in [1 .. n -> Int] : d1 = [d EXCEPT ![j - 1] = u]
    BY <1>1
  <2>3. PICK d2 \in [1 .. n -> Int] : d2 = [d1 EXCEPT ![j] = v]
    BY <1>1
  <2>4. /\ d1[j] = -1 /\ d2[j - 1] = u /\ d2[j] = v /\ d[j - 1] = u + 1
        /\ \A i \in 1 .. n : i # j /\ i # j - 1 => d2[i] = d[i]
    <3>1. d[j] = -1
      BY <1>3, <1>5, <1>6, <2>1
    <3>2. d[j - 1] = u + 1
      BY <1>6, <2>1
    <3>3. d1[j] = d[j] /\ d1[j - 1] = u /\ \A i \in 1 .. n : i # j - 1 => d1[i] = d[i]
      BY <1>1, <2>2
    <3>4. d2[j] = v /\ d2[j - 1] = d1[j - 1] /\ \A i \in 1 .. n : i # j => d2[i] = d1[i]
      BY <1>1, <2>3
    <3> QED
      BY <3>1, <3>2, <3>3, <3>4
  <2>5. /\ BorrowAt(act, size, j, p).buf = p.buf
        /\ BorrowAt(act, size, j, p).indexFile = p.indexFile
        /\ BorrowAt(act, size, j, p).pos = d2
        /\ BorrowAt(act, size, j, p).indexBuf
              = p.indexBuf - Weight(size, j - 1) + Weight(size, j) * act[j]
    BY <1>5, <2>1, <2>2, <2>3 DEF BorrowAt
  <2>6. ASSUME NEW r \in Radix, Len(r) = n
        PROVE  Number(d2, r) = Number(d, r) - Weight(r, j - 1) + act[j] * Weight(r, j)
               /\ Number(d, r) \in Int
    <3>1. Number(d1, r) = Number(d, r) + (u - d[j - 1]) * Weight(r, j - 1) /\ Number(d, r) \in Int
      <4> HIDE DEF n
      <4> QED
        BY <1>1, <2>2, <2>6, NumberChange, ZenonT(60)
    <3>2. Number(d2, r) = Number(d1, r) + (v - d1[j]) * Weight(r, j)
      <4> HIDE DEF n
      <4> QED
        BY <1>1, <2>3, <2>6, NumberChange
    <3>3. PICK x \in Int, y \in Int, a \in Int :
             x = Weight(r, j - 1) /\ y = Weight(r, j) /\ a = act[j]
      <4>1. j - 1 \in 0 .. Len(r) /\ j \in 0 .. Len(r)
        BY <1>1, <2>6
      <4>2. Weight(r, j - 1) \in Int /\ Weight(r, j) \in Int
        BY <4>1, WeightPositive
      <4> QED
        BY <1>1, <4>2
    <3>4. (u - d[j - 1]) * x = -x
      BY <2>4
    <3>5. (v - d1[j]) * y = a * y
      BY <1>1, <2>1, <2>4, <3>3, SMTT(30)
    <3>6. PICK z \in Int : z = a * y
      OBVIOUS
    <3> QED
      BY <3>1, <3>2, <3>3, <3>4, <3>5, <3>6
  <2>7. /\ Weight(act, j - 1) = act[j] * Weight(act, j)
        /\ Weight(size, j - 1) = size[j] * Weight(size, j)
        /\ Weight(act, j) \in Int /\ Weight(size, j) \in Nat
    <3>1. j \in 0 .. n
      BY <1>1
    <3> QED
      BY <1>1, <3>1, RadixFacts, WeightSteps, WeightPositive
  <2>8. Number(d2, act) = f - 1
    <3>1. PICK z \in Int : z = act[j] * Weight(act, j)
      BY <1>1, <2>7
    <3>2. Number(d2, act) = Number(d, act) - z + z /\ Number(d, act) \in Int
      BY <2>6, <2>7, <3>1
    <3>3. Number(d, act) = f - 1
      BY <2>1 DEF Borrowing
    <3> QED
      BY <3>1, <3>2, <3>3
  <2>9. PICK w \in Nat, a \in Int, b \in Int, k \in Int :
           w = Weight(size, j) /\ a = act[j] /\ b = size[j] /\ k = p.indexBuf
    BY <1>1, <1>2, <2>7
  <2>10. PICK aw \in Int, bw \in Int : aw = a * w /\ bw = b * w /\ aw <= bw
    <3>1. a <= b
      BY <1>1, <2>9
    <3>2. a * w <= b * w /\ a * w \in Int /\ b * w \in Int
      BY <3>1
    <3> QED
      BY <3>2
  <2>11. w * a = aw
    BY <2>10
  <2>12. BorrowAt(act, size, j, p).indexBuf = k - bw + aw
    BY <2>5, <2>7, <2>9, <2>10, <2>11
  <2>13. Number(d2, size) = k - bw + aw
    <3>1. Number(d, size) = k
      BY <2>1, <2>9 DEF Borrowing
    <3> QED
      BY <2>6, <2>7, <2>9, <2>10, <3>1
  <2>14. k - bw + aw <= s.indexBuf
    <3>1. k <= s.indexBuf
      BY <2>9 DEF Borrowing
    <3>2. PICK m \in Int : m = s.indexBuf
      BY <1>2
    <3>3. aw <= bw /\ k <= m
      BY <2>10, <3>1, <3>2
    <3>4. k - bw + aw <= m
      BY <3>3
    <3> QED
      BY <3>2, <3>4
  <2>15. \A i \in 1 .. n : i # j - 1 => d2[i] \in 0 .. act[i] - 1
    <3>1. d2[j] \in 0 .. act[j] - 1
      BY <1>1, <2>1, <2>4, SMTT(30)
    <3>2. \A i \in 1 .. n : i # j => d[i] \in 0 .. act[i] - 1
      BY <2>1 DEF Borrowing
    <3> QED
      BY <2>4, <3>1, <3>2
  <2>16. d2[j - 1] \in -1 .. act[j - 1] - 1
    <3>1. PICK y \in Int, h \in Int : y = p.pos[j - 1] /\ h = act[j - 1]
      <4>1. act[j - 1] \in Int
        BY <1>1
      <4> QED
        BY <1>6, <4>1
    <3>2. y \in 0 .. h - 1 /\ u = y - 1 /\ d2[j - 1] = u
      BY <1>3, <2>1, <2>4, <3>1
    <3>3. u \in -1 .. h - 1
      BY <3>2
    <3> QED
      BY <3>1, <3>2, <3>3
  <2>17. p.buf = s.buf /\ p.indexFile = s.indexFile
    BY DEF Borrowing
  <2> QED
    BY <2>5, <2>8, <2>12, <2>13, <2>14, <2>15, <2>16, <2>17 DEF Borrowing
<1> QED
  BY <1>4, <1>5

(* The place in a block of number k of the values read.                    *)
CellOf(k, act, size) == Number(Digits(k, act), size)

(* The loop before it borrows, after value f of those read was copied.     *)
OneBack(s, f, act, size) ==
    /\ s.pos = [Digits(f, act) EXCEPT ![Len(size)] = @ - 1]
    /\ s.indexBuf = CellOf(f, act, size) - 1

(* A step back in the file's order is one in the buffer's as well.         *)
LEMMA BorrowMoves ==
  ASSUME NEW B, NEW F, NEW act \in Radix, NEW size \in Radix, Len(act) = Len(size), Len(size) # 0,
         \A i \in 1 .. Len(size) : act[i] <= size[i],
         NEW s \in LoopState(B, F, Len(size)), NEW f \in Nat, f > 0, f < Volume(act),
         OneBack(s, f, act, size),
         NEW b, Borrowed(b, act, size, s, B, F), NEW e, e = b[Len(size) - 1]
  PROVE  /\ e.buf = s.buf /\ e.indexFile = s.indexFile
         /\ e.pos = Digits(f - 1, act)
         /\ e.indexBuf = CellOf(f - 1, act, size)
         /\ e.indexBuf <= s.indexBuf
<1> DEFINE n == Len(size)
           d == Digits(f, act)
           S == { k \in 0 .. n - 1 : Borrowing(b[k], act, size, f, s, n - k) }
<1>1. n \in Nat \ {0} /\ \A i \in 1 .. n : act[i] \in Nat \ {0}
  BY RadixFacts
<1>2. IsDigits(d, act) /\ Number(d, act) = f /\ d \in [1 .. n -> Int]
  <2>1. Volume(act) \in Nat
    BY WeightPositive
  <2>2. f \in 0 .. Volume(act) - 1
    BY <2>1
  <2>3. IsDigits(Digits(f, act), act) /\ Number(Digits(f, act), act) = f
    BY <2>2, NumberOfDigits
  <2> QED
    BY <2>3 DEF IsDigits
<1>3. \A k \in 0 .. n - 1 : b[k] \in LoopState(B, F, n)
  BY DEF Borrowed
<1>4. /\ b[0] = s /\ \A k \in 1 .. n - 1 : b[k] = BorrowAt(act, size, n + 1 - k, b[k - 1])
      /\ e = b[n - 1]
  BY DEF Borrowed
<1>5. /\ Len(act) = n /\ Len(size) = n /\ \A i \in 1 .. n : act[i] <= size[i]
      /\ s.pos = [d EXCEPT ![n] = d[n] - 1] /\ s.indexBuf = Number(d, size) - 1
      /\ s \in LoopState(B, F, n)
  BY DEF OneBack, CellOf
<1> HIDE DEF n, d
<1>6. Borrowing(s, act, size, f, s, n)
  <2>1. n \in 1 .. n /\ d[n] \in 0 .. act[n] - 1 /\ d[n] \in Int
    BY <1>1, <1>2, <1>5 DEF IsDigits
  <2>2. ASSUME NEW r \in Radix, Len(r) = n
        PROVE  Number(s.pos, r) = Number(d, r) - 1
    <3>1. PICK v \in Int : v = d[n] - 1
      BY <2>1
    <3>2. Number([d EXCEPT ![n] = v], r) = Number(d, r) + (v - d[n]) * Weight(r, n) /\ Number(d, r) \in Int
      <4>1. PICK c \in [1 .. Len(r) -> Int], m \in 1 .. Len(r) : c = d /\ m = n
        BY <1>2, <2>1, <2>2
      <4>2. Number([c EXCEPT ![m] = v], r) = Number(c, r) + (v - c[m]) * Weight(r, m) /\ Number(c, r) \in Int
        BY <2>2, NumberChange
      <4> QED
        BY <4>1, <4>2
    <3>3. Weight(r, n) = 1
      BY <2>2, RadixFacts, WeightSteps
    <3>4. s.pos = [d EXCEPT ![n] = v]
      BY <1>5, <3>1
    <3> QED
      BY <2>1, <3>1, <3>2, <3>3, <3>4
  <2>3. /\ s.pos[n] = d[n] - 1 /\ \A i \in 1 .. n : i # n => s.pos[i] = d[i]
    BY <1>2, <1>5, <2>1
  <2>4. \A i \in 1 .. n : d[i] \in 0 .. act[i] - 1
    BY <1>2, <1>5 DEF IsDigits
  <2>5. Number(s.pos, act) = f - 1 /\ Number(s.pos, size) = s.indexBuf
    BY <1>2, <1>5, <2>2
  <2>6. s.indexBuf \in Int
    BY <1>5 DEF LoopState
  <2>7. s.pos[n] \in -1 .. act[n] - 1
    BY <1>1, <2>1, <2>3
  <2> QED
    BY <1>5, <2>3, <2>4, <2>5, <2>6, <2>7 DEF Borrowing
<1>7. 0 \in S
  BY <1>1, <1>4, <1>6
<1>8. ASSUME NEW k \in 0 .. (n - 1) - 1, k \in S PROVE k + 1 \in S
  <2>1. /\ k \in 0 .. n - 1 /\ k + 1 \in 1 .. n - 1 /\ (k + 1) - 1 = k /\ k + 1 \in 0 .. n - 1
        /\ n + 1 - (k + 1) = n - k /\ n - k \in 2 .. n /\ n - (k + 1) = (n - k) - 1
    BY <1>1
  <2>2. PICK j \in 2 .. n : j = n - k
    BY <2>1
  <2>3. b[k + 1] = BorrowAt(act, size, j, b[k])
    BY <1>4, <2>1, <2>2
  <2>4. PICK p \in LoopState(B, F, n) : p = b[k]
    BY <1>3, <2>1
  <2>5. Borrowing(p, act, size, f, s, j)
    BY <1>8, <2>2, <2>4
  <2>6. Borrowing(BorrowAt(act, size, j, p), act, size, f, s, j - 1)
    BY <1>5, <2>5, BorrowAtMoves
  <2> QED
    BY <2>1, <2>2, <2>3, <2>4, <2>6
<1>9. \A k \in 0 .. n - 1 : k \in S
  <2>1. n - 1 \in Nat
    BY <1>1
  <2> HIDE DEF S
  <2> QED
    BY <1>7, <1>8, <2>1, Upwards
<1>10. Borrowing(e, act, size, f, s, 1) /\ e \in LoopState(B, F, n)
  <2>1. n - 1 \in 0 .. n - 1 /\ n - (n - 1) = 1
    BY <1>1
  <2> QED
    BY <1>3, <1>4, <1>9, <2>1
<1>11. /\ e.buf = s.buf /\ e.indexFile = s.indexFile /\ e.indexBuf <= s.indexBuf
       /\ Number(e.pos, act) = f - 1 /\ Number(e.pos, size) = e.indexBuf
       /\ \A i \in 1 .. n : i # 1 => e.pos[i] \in 0 .. act[i] - 1
       /\ e.pos[1] \in -1 .. act[1] - 1
       /\ e.pos \in [1 .. n -> Int]
  BY <1>5, <1>10 DEF Borrowing, LoopState
<1>12. e.pos[1] >= 0
  <2> SUFFICES ASSUME e.pos[1] < 0 PROVE FALSE
    BY <1>1, <1>11
  <2>1. \A i \in 2 .. n : e.pos[i] \in 0 .. act[i] - 1
    BY <1>1, <1>11
  <2>2. Number(e.pos, act) < 0
    BY <1>1, <1>5, <1>11, <2>1, NumberNegative
  <2> QED
    BY <1>11, <2>2
<1>13. IsDigits(e.pos, act)
  <2>1. \A i \in 1 .. n : e.pos[i] \in 0 .. act[i] - 1
    BY <1>1, <1>11, <1>12
  <2> QED
    BY <1>5, <1>11, <2>1 DEF IsDigits
<1>14. Digits(f - 1, act) = e.pos
  BY <1>11, <1>13, DigitsOfNumber
<1> QED
  BY <1>11, <1>14 DEF CellOf

(* A grid whose dimensions are cut into blocks.                            *)
IsCut(g) ==
    /\ g.size \in Radix /\ g.blockSize \in Radix /\ g.blocks \in Radix
    /\ Len(g.blockSize) = Len(g.size) /\ Len(g.blocks) = Len(g.size)
    /\ \A i \in 1 .. Len(g.size) :
          /\ g.blockSize[i] <= g.size[i]
          /\ g.blocks[i] = (g.size[i] + g.blockSize[i] - 1) \div g.blockSize[i]
    /\ g.count = Volume(g.blocks)
    /\ g.totalBlockSize = Volume(g.blockSize)

(* The smaller one of two numbers.                                         *)
LEMMA MinOfTwo ==
  ASSUME NEW a \in Int, NEW b \in Int
  PROVE  Min({a, b}) = IF a <= b THEN a ELSE b
<1> DEFINE m == IF a <= b THEN a ELSE b
<1>1. m \in {a, b} /\ \A y \in {a, b} : m <= y
  OBVIOUS
<1>2. \A x \in {a, b} : (\A y \in {a, b} : x <= y) => x = m
  OBVIOUS
<1> HIDE DEF m
<1>3. Min({a, b}) = m
  BY <1>1, <1>2 DEF Min
<1> QED
  BY <1>3 DEF m

(* A dimension cut into pieces, the last of which may be smaller.          *)
LEMMA Pieces ==
  ASSUME NEW z \in Nat \ {0}, NEW s \in Nat \ {0}, NEW q, q = (z + s - 1) \div s
  PROVE  /\ q \in Nat \ {0}
         /\ \A k \in 0 .. q - 1 : k * s \in 0 .. z - 1
         /\ \A i \in 0 .. z - 1 :
               /\ i \div s \in 0 .. q - 1 /\ i % s \in 0 .. s - 1
               /\ i = (i \div s) * s + (i % s)
<1>1. PICK a \in Nat : a = z + s - 1
  OBVIOUS
<1>2. a \div s \in Int /\ a % s \in 0 .. s - 1 /\ a = (a \div s) * s + (a % s)
  BY Division
<1>3. PICK r \in 0 .. s - 1 : q \in Int /\ a = q * s + r
  BY <1>1, <1>2
<1>4. PICK p \in Int : p = q * s
  BY <1>3
<1>5. p = z + s - 1 - r
  BY <1>1, <1>3, <1>4
<1>6. q \in Nat \ {0}
  <2> SUFFICES ASSUME q <= 0 PROVE FALSE
    BY <1>3
  <2>1. q * s <= 0
    BY <1>3
  <2> QED
    BY <1>4, <1>5, <2>1
<1>7. ASSUME NEW k \in 0 .. q - 1 PROVE k * s \in 0 .. z - 1
  <2>1. PICK x \in Int : x = k * s
    OBVIOUS
  <2>2. x >= 0
    BY <2>1
  <2>3. k <= q - 1
    BY <1>3
  <2>4. x <= p - s
    <3>1. k * s <= (q - 1) * s
      BY <1>3, <2>3
    <3>2. (q - 1) * s = q * s - s
      BY <1>3
    <3> QED
      BY <1>3, <1>4, <2>1, <3>1, <3>2
  <2> QED
    BY <1>5, <2>1, <2>2, <2>4
<1>8. ASSUME NEW i \in 0 .. z - 1
      PROVE  /\ i \div s \in 0 .. q - 1 /\ i % s \in 0 .. s - 1
             /\ i = (i \div s) * s + (i % s)
  <2>0. i \in Int /\ i \in Nat
    OBVIOUS
  <2>1. i \div s \in Int /\ i % s \in 0 .. s - 1 /\ i = (i \div s) * s + (i % s)
    BY <2>0, Division
  <2>2. i < q * s
    BY <1>4, <1>5
  <2>3. i \div s \in 0 .. q - 1
    BY <1>6, <2>0, <2>2, QuotientBound
  <2> QED
    BY <2>1, <2>3
<1> QED
  BY <1>6, <1>7, <1>8

(* A sequence of sizes, element by element.                                *)
LEMMA RadixOf ==
  ASSUME NEW n \in Nat, NEW f, f = [i \in 1 .. n |-> f[i]],
         \A i \in 1 .. n : f[i] \in Nat \ {0}
  PROVE  f \in Radix /\ Len(f) = n
<1> DEFINE S == Nat \ {0}
<1>1. \A i \in 1 .. n : f[i] \in S
  OBVIOUS
<1> HIDE DEF S
<1>2. f \in [1 .. n -> S]
  BY <1>1
<1>3. f \in Seq(S) /\ Len(f) = n
  BY <1>2
<1> QED
  BY <1>3 DEF Radix, S

(* Blocked::open cuts every file so.                                       *)
LEMMA OpenedIsCut ==
  ASSUME NEW s \in Setup
  PROVE  IsCut(Opened(s.file))
<1> DEFINE file == s.file
           n == Len(file.size)
           g == Opened(file)
<1>1. /\ file.size \in Seq(Nat \ {0}) /\ n \in Nat
      /\ file.wanted \in Seq(Int) /\ Len(file.wanted) = n
  BY FileAssumption
<1>2. \A i \in 1 .. n : file.size[i] \in Nat \ {0} /\ file.wanted[n - i + 1] \in Int
  BY <1>1, SMTT(30)
<1>3. /\ g.size = file.size
      /\ g.blockSize = [i \in 1 .. n |-> BlockSizeOf(file.wanted[n - i + 1], file.size[i])]
      /\ g.blocks = [i \in 1 .. n |-> (file.size[i] + g.blockSize[i] - 1) \div g.blockSize[i]]
      /\ g.count = Volume(g.blocks)
      /\ g.totalBlockSize = Volume(g.blockSize)
  BY DEF Opened
<1> HIDE DEF g, file
<1>4. ASSUME NEW w \in Int, NEW z \in Nat \ {0}
      PROVE  BlockSizeOf(w, z) \in Nat \ {0} /\ BlockSizeOf(w, z) <= z
  <2>1. CASE w < 0
    BY <2>1 DEF BlockSizeOf
  <2>2. CASE ~(w < 0)
    <3>1. PICK v \in Nat \ {0} : v = IF w = 0 THEN 64 ELSE w
      BY <2>2
    <3>2. BlockSizeOf(w, z) = Min({z, v})
      BY <2>2, <3>1 DEF BlockSizeOf
    <3>3. Min({z, v}) = IF z <= v THEN z ELSE v
      BY MinOfTwo
    <3> QED
      BY <3>2, <3>3
  <2> QED
    BY <2>1, <2>2
<1>5. \A i \in 1 .. n : g.blockSize[i] \in Nat \ {0} /\ g.blockSize[i] <= file.size[i]
  <2> SUFFICES ASSUME NEW i \in 1 .. n
               PROVE  g.blockSize[i] \in Nat \ {0} /\ g.blockSize[i] <= file.size[i]
    OBVIOUS
  <2>1. PICK w \in Int, z \in Nat \ {0} : w = file.wanted[n - i + 1] /\ z = file.size[i]
    BY <1>2
  <2>2. g.blockSize[i] = BlockSizeOf(w, z)
    BY <1>3, <2>1
  <2> QED
    BY <1>4, <2>1, <2>2
<1>6. \A i \in 1 .. n : /\ g.blocks[i] = (file.size[i] + g.blockSize[i] - 1) \div g.blockSize[i]
                        /\ g.blocks[i] \in Nat \ {0}
  <2> SUFFICES ASSUME NEW i \in 1 .. n
               PROVE  /\ g.blocks[i] = (file.size[i] + g.blockSize[i] - 1) \div g.blockSize[i]
                      /\ g.blocks[i] \in Nat \ {0}
    OBVIOUS
  <2>1. g.blocks[i] = (file.size[i] + g.blockSize[i] - 1) \div g.blockSize[i]
    BY <1>3
  <2>2. PICK z \in Nat \ {0}, b \in Nat \ {0} : z = file.size[i] /\ b = g.blockSize[i]
    BY <1>2, <1>5
  <2>3. PICK q : q = (z + b - 1) \div b
    OBVIOUS
  <2>4. q \in Nat \ {0}
    BY <2>3, Pieces
  <2> QED
    BY <2>1, <2>2, <2>3, <2>4
<1>7. g.blockSize \in Radix /\ Len(g.blockSize) = n
  <2>1. g.blockSize = [i \in 1 .. n |-> g.blockSize[i]]
    BY <1>3
  <2> QED
    BY <1>1, <1>5, <2>1, RadixOf
<1>8. g.blocks \in Radix /\ Len(g.blocks) = n
  <2>1. g.blocks = [i \in 1 .. n |-> g.blocks[i]]
    BY <1>3
  <2> QED
    BY <1>1, <1>6, <2>1, RadixOf
<1> QED
  BY <1>1, <1>3, <1>5, <1>6, <1>7, <1>8 DEF IsCut, Radix, g, file

(* The box of the file that a block is loaded from.                        *)
LEMMA BlockBox ==
  ASSUME NEW g, IsCut(g), NEW block \in 0 .. g.count - 1
  PROVE  /\ ActSize(g, block) \in Radix /\ Len(ActSize(g, block)) = Len(g.size)
         /\ \A i \in 1 .. Len(g.size) :
               /\ Start(g, block)[i] = Digits(block, g.blocks)[i] * g.blockSize[i]
               /\ Start(g, block)[i] \in Nat
               /\ ActSize(g, block)[i] =
                     IF g.blockSize[i] <= g.size[i] - Start(g, block)[i]
                     THEN g.blockSize[i] ELSE g.size[i] - Start(g, block)[i]
               /\ ActSize(g, block)[i] <= g.blockSize[i]
               /\ Start(g, block)[i] + ActSize(g, block)[i] <= g.size[i]
<1> DEFINE n == Len(g.size)
           start == Start(g, block)
           act == ActSize(g, block)
<1>1. /\ n \in Nat /\ DOMAIN g.size = 1 .. n
      /\ \A i \in 1 .. n : g.size[i] \in Nat \ {0} /\ g.blockSize[i] \in Nat \ {0}
  BY RadixFacts DEF IsCut
<1>2. IsDigits(Digits(block, g.blocks), g.blocks)
  <2>1. g.blocks \in Radix /\ block \in 0 .. Volume(g.blocks) - 1
    BY DEF IsCut
  <2> QED
    BY <2>1, NumberOfDigits
<1>3. ASSUME NEW i \in 1 .. n
      PROVE  /\ start[i] = Digits(block, g.blocks)[i] * g.blockSize[i]
             /\ start[i] \in 0 .. g.size[i] - 1
  <2>1. start[i] = Digits(block, g.blocks)[i] * g.blockSize[i]
    BY <1>1 DEF Start, CalcBlockPosition
  <2>2. PICK z \in Nat \ {0}, s \in Nat \ {0} : z = g.size[i] /\ s = g.blockSize[i]
    BY <1>1
  <2>3. PICK q : q = (z + s - 1) \div s
    OBVIOUS
  <2>4. q \in Nat \ {0} /\ \A k \in 0 .. q - 1 : k * s \in 0 .. z - 1
    BY <2>3, Pieces
  <2>5. Digits(block, g.blocks)[i] \in 0 .. q - 1
    BY <1>2, <2>2, <2>3 DEF IsDigits, IsCut
  <2> QED
    BY <2>1, <2>2, <2>4, <2>5
<1>4. ASSUME NEW i \in 1 .. n
      PROVE  /\ act[i] = IF g.blockSize[i] <= g.size[i] - start[i]
                         THEN g.blockSize[i] ELSE g.size[i] - start[i]
             /\ act[i] \in Nat \ {0}
             /\ act[i] <= g.blockSize[i]
             /\ start[i] + act[i] <= g.size[i]
  <2>1. act[i] = Min({g.blockSize[i], g.size[i] - start[i]})
    BY <1>1 DEF ActSize
  <2> HIDE DEF act, start, n
  <2>2. PICK z \in Nat \ {0}, s \in Nat \ {0} : z = g.size[i] /\ s = g.blockSize[i]
    BY <1>1
  <2>3. PICK x \in 0 .. z - 1 : x = start[i]
    BY <1>3, <2>2
  <2>4. s \in Int /\ z - x \in Int
    OBVIOUS
  <2>5. Min({s, z - x}) = IF s <= z - x THEN s ELSE z - x
    BY <2>4, MinOfTwo
  <2>6. act[i] = IF s <= z - x THEN s ELSE z - x
    BY <2>1, <2>2, <2>3, <2>5
  <2>7. act[i] \in Nat \ {0} /\ act[i] <= s /\ x + act[i] <= z
    BY <2>6
  <2> QED
    BY <2>2, <2>3, <2>6, <2>7
<1>5. act \in Radix /\ Len(act) = n
  <2>1. act = [i \in 1 .. n |-> act[i]]
    BY <1>1 DEF ActSize
  <2> HIDE DEF act, n
  <2> QED
    BY <1>1, <1>4, <2>1, RadixOf
<1>6. \A i \in 1 .. n : start[i] \in Nat
  BY <1>1, <1>3
<1> QED
  BY <1>3, <1>4, <1>5, <1>6

(* This place is in the block, not before the value, and has its digits.   *)
LEMMA CellFacts ==
  ASSUME NEW act \in Radix, NEW size \in Radix, Len(act) = Len(size),
         \A i \in 1 .. Len(size) : act[i] <= size[i],
         NEW k \in 0 .. Volume(act) - 1
  PROVE  /\ CellOf(k, act, size) \in 0 .. Volume(size) - 1
         /\ k <= CellOf(k, act, size)
         /\ Digits(CellOf(k, act, size), size) = Digits(k, act)
<1> DEFINE d == Digits(k, act)
<1>1. IsDigits(d, act) /\ Number(d, act) = k
  BY NumberOfDigits
<1>2. /\ Len(act) \in Nat
      /\ \A i \in 1 .. Len(act) : act[i] \in Nat \ {0} /\ size[i] \in Nat \ {0} /\ act[i] <= size[i]
  BY RadixFacts
<1> HIDE DEF d
<1>3. IsDigits(d, size)
  <2>1. d \in [1 .. Len(size) -> Int]
    BY <1>1 DEF IsDigits
  <2>2. ASSUME NEW i \in 1 .. Len(size) PROVE d[i] \in 0 .. size[i] - 1
    <3>1. PICK a \in Nat, b \in Nat : a = act[i] /\ b = size[i] /\ a <= b
      BY <1>2
    <3>2. d[i] \in 0 .. a - 1
      BY <1>1, <3>1 DEF IsDigits
    <3> QED
      BY <3>1, <3>2
  <2> QED
    BY <2>1, <2>2 DEF IsDigits
<1>4. Number(d, size) \in 0 .. Volume(size) - 1 /\ Digits(Number(d, size), size) = d
  BY <1>3, DigitsOfNumber
<1>5. Number(d, act) <= Number(d, size)
  BY <1>1, <1>2, NumberGrows
<1> QED
  BY <1>1, <1>4, <1>5 DEF CellOf, d

(* No two values have the same place.                                      *)
LEMMA CellsDiffer ==
  ASSUME NEW act \in Radix, NEW size \in Radix, Len(act) = Len(size),
         \A i \in 1 .. Len(size) : act[i] <= size[i],
         NEW k \in 0 .. Volume(act) - 1, NEW m \in 0 .. Volume(act) - 1,
         CellOf(k, act, size) = CellOf(m, act, size)
  PROVE  k = m
<1>1. Digits(k, act) = Digits(m, act)
  BY CellFacts
<1>2. Number(Digits(k, act), act) = k /\ Number(Digits(m, act), act) = m
  BY NumberOfDigits
<1> QED
  BY <1>1, <1>2

(* The first value stays where it is.                                      *)
LEMMA FirstCell ==
  ASSUME NEW act \in Radix, NEW size \in Radix, Len(act) = Len(size)
  PROVE  CellOf(0, act, size) = 0
<1> DEFINE n == Len(size)
<1>1. ASSUME NEW r \in Radix, Len(r) = n PROVE Digits(0, r) = [i \in 1 .. n |-> 0]
  <2>1. DOMAIN r = 1 .. n /\ \A i \in 1 .. n : r[i] \in Nat \ {0} /\ Weight(r, i) \in Nat \ {0}
    <3>1. \A i \in 1 .. n : i \in 0 .. Len(r)
      BY <1>1
    <3> QED
      BY <1>1, <3>1, RadixFacts, WeightPositive
  <2>2. Digits(0, r) = [i \in 1 .. n |-> (0 \div Weight(r, i)) % r[i]]
    BY <2>1 DEF Digits, Weight
  <2>3. ASSUME NEW i \in 1 .. n PROVE (0 \div Weight(r, i)) % r[i] = 0
    <3>1. PICK w \in Nat \ {0}, a \in Nat \ {0} : w = Weight(r, i) /\ a = r[i]
      BY <2>1
    <3>2. (0 * w + 0) \div w = 0 /\ (0 * a + 0) % a = 0
      OBVIOUS
    <3>3. 0 \div w = 0 /\ 0 % a = 0
      BY <3>2
    <3> QED
      BY <3>1, <3>3
  <2> QED
    BY <2>2, <2>3
<1>2. Digits(0, act) = Digits(0, size)
  BY <1>1
<1>3. Number(Digits(0, size), size) = 0
  <2>1. 0 \in 0 .. Volume(size) - 1
    BY WeightPositive
  <2> QED
    BY <2>1, NumberOfDigits
<1> QED
  BY <1>2, <1>3 DEF CellOf

(* The digits of the last value are the greatest ones.                     *)
LEMMA LastDigits ==
  ASSUME NEW r \in Radix
  PROVE  /\ IsDigits([i \in DOMAIN r |-> r[i] - 1], r)
         /\ Number([i \in DOMAIN r |-> r[i] - 1], r) = Volume(r) - 1
         /\ Digits(Volume(r) - 1, r) = [i \in DOMAIN r |-> r[i] - 1]
<1> DEFINE n == Len(r)
           d == [i \in DOMAIN r |-> r[i] - 1]
<1>1. r \in Seq(Int) /\ n \in Nat /\ DOMAIN r = 1 .. n /\ \A i \in 1 .. n : r[i] \in Nat \ {0}
  BY RadixFacts
<1>2. d \in [1 .. n -> Int] /\ \A i \in 1 .. n : d[i] = r[i] - 1
  BY <1>1
<1> HIDE DEF d
<1>3. IsDigits(d, r)
  BY <1>1, <1>2 DEF IsDigits
<1>4. PICK p : Split(p, d, r)
  BY <1>2, SplitExists
<1>5. /\ \A k \in 0 .. n : p[k] \in Int
      /\ Number(d, r) = p[n] /\ p[0] = 0
      /\ \A k \in 1 .. n : p[k] = p[k - 1] * r[k] + d[k]
  BY <1>4 DEF Split
<1>6. /\ \A k \in 0 .. n : Weight(r, k) \in Nat \ {0}
      /\ \A k \in 1 .. n : Weight(r, k - 1) = r[k] * Weight(r, k)
      /\ Weight(r, n) = 1 /\ Weight(r, 0) = Volume(r) /\ Volume(r) \in Nat \ {0}
  BY <1>1, WeightPositive, WeightSteps
<1> DEFINE S == { k \in 0 .. n : (p[k] + 1) * Weight(r, k) = Volume(r) }
<1>7. 0 \in S
  <2>1. 0 \in 0 .. n
    BY <1>1
  <2>2. (0 + 1) * Weight(r, 0) = Volume(r)
    BY <1>6
  <2> QED
    BY <1>5, <2>1, <2>2
<1>8. ASSUME NEW k \in 0 .. n - 1, k \in S PROVE k + 1 \in S
  <2>1. k + 1 \in 1 .. n /\ k + 1 \in 0 .. n /\ k \in 0 .. n /\ (k + 1) - 1 = k
    BY <1>1
  <2>2. PICK a \in Int, b \in Int, w \in Int, x \in Int, y \in Int :
           a = p[k] /\ b = r[k + 1] /\ w = Weight(r, k + 1) /\ x = p[k + 1] /\ y = Weight(r, k)
    <3>1. p[k] \in Int /\ r[k + 1] \in Int /\ p[k + 1] \in Int
      BY <1>1, <1>5, <2>1
    <3>2. Weight(r, k + 1) \in Int /\ Weight(r, k) \in Int
      BY <1>6, <2>1
    <3> QED
      BY <3>1, <3>2
  <2>3. y = b * w
    BY <1>6, <2>1, <2>2
  <2>4. x = a * b + (b - 1)
    BY <1>2, <1>5, <2>1, <2>2
  <2>5. (a + 1) * y = Volume(r)
    BY <1>8, <2>2
  <2>6. (x + 1) * w = (a + 1) * (b * w)
    BY <2>4
  <2>7. (x + 1) * w = Volume(r)
    BY <2>3, <2>5, <2>6
  <2> QED
    BY <2>1, <2>2, <2>7
<1>9. \A k \in 0 .. n : k \in S
  <2> HIDE DEF S
  <2> QED
    BY <1>1, <1>7, <1>8, Upwards
<1>10. Number(d, r) = Volume(r) - 1
  <2>1. n \in 0 .. n
    BY <1>1
  <2>2. (p[n] + 1) * 1 = Volume(r) /\ p[n] \in Int
    BY <1>5, <1>6, <1>9, <2>1
  <2> QED
    BY <1>5, <2>2
<1>11. Digits(Volume(r) - 1, r) = d
  BY <1>3, <1>10, DigitsOfNumber
<1> QED
  BY <1>3, <1>10, <1>11 DEF d

(* One step back of the loop, in a block of a grid.                        *)
BackTo(e, s, f, act, size, B, F) ==
    /\ e \in LoopState(B, F, Len(size))
    /\ e.buf = s.buf /\ e.indexFile = s.indexFile
    /\ e.pos = Digits(f, act)
    /\ e.indexBuf = CellOf(f, act, size) /\ e.indexBuf <= s.indexBuf

(* The step ends at the value before.                                      *)
LEMMA BorrowOne ==
  ASSUME NEW g, IsCut(g), NEW block \in 0 .. g.count - 1, NEW B, NEW F,
         Len(g.size) # 0,
         NEW s \in LoopState(B, F, Len(g.size)), NEW f \in Nat, f > 0, f < Volume(ActSize(g, block)),
         OneBack(s, f, ActSize(g, block), g.blockSize)
  PROVE  BackTo(Borrow(g, block, s), s, f - 1, ActSize(g, block), g.blockSize, B, F)
<1> DEFINE act == ActSize(g, block)
           size == g.blockSize
           e == Borrow(g, block, s)
<1>1. /\ act \in Radix /\ size \in Radix /\ Len(act) = Len(size) /\ Len(size) = Len(g.size)
      /\ DOMAIN g.size = 1 .. Len(g.size) /\ Len(size) \in Nat
      /\ \A i \in 1 .. Len(size) : act[i] <= size[i]
  BY BlockBox, RadixFacts DEF IsCut
<1>2. s \in LoopState(B, F, Len(size))
  BY <1>1
<1>3. PICK b : Borrowed(b, act, size, s, B, F) /\ e = b[Len(size) - 1]
  <2>1. /\ g.blockSize \in Radix /\ ActSize(g, block) \in Radix /\ Len(g.blockSize) # 0
        /\ Len(g.size) = Len(g.blockSize) /\ DOMAIN g.size = 1 .. Len(g.size)
        /\ Len(ActSize(g, block)) = Len(g.blockSize)
        /\ s \in LoopState(B, F, Len(g.blockSize))
    BY <1>1, <1>2
  <2>2. \E b : /\ Borrowed(b, ActSize(g, block), g.blockSize, s, B, F)
               /\ Borrow(g, block, s) = b[Len(g.blockSize) - 1]
    BY <2>1, BorrowSteps
  <2> QED
    BY <2>2
<1>4. e \in LoopState(B, F, Len(size))
  <2>1. Len(size) - 1 \in 0 .. Len(size) - 1
    BY <1>1
  <2> QED
    BY <1>3, <2>1 DEF Borrowed
<1>5. OneBack(s, f, act, size) /\ f < Volume(act) /\ Len(size) # 0
  BY <1>1
<1> HIDE DEF act, size, e
<1>7. /\ e.buf = s.buf /\ e.indexFile = s.indexFile
      /\ e.pos = Digits(f - 1, act)
      /\ e.indexBuf = CellOf(f - 1, act, size)
      /\ e.indexBuf <= s.indexBuf
  BY <1>1, <1>2, <1>3, <1>5, BorrowMoves, SMTT(30)
<1> QED
  BY <1>4, <1>7 DEF BackTo, act, size, e

(* What a block of a grid has, in the terms of the lemmas above.           *)
LEMMA BlockRadix ==
  ASSUME NEW g, IsCut(g), NEW block \in 0 .. g.count - 1
  PROVE  /\ g.blockSize \in Radix /\ ActSize(g, block) \in Radix
         /\ Len(ActSize(g, block)) = Len(g.blockSize) /\ Len(g.blockSize) = Len(g.size)
         /\ \A i \in 1 .. Len(g.blockSize) : ActSize(g, block)[i] <= g.blockSize[i]
         /\ Volume(ActSize(g, block)) \in Nat \ {0}
         /\ g.totalBlockSize = Volume(g.blockSize) /\ g.totalBlockSize \in Nat \ {0}
         /\ Len(g.size) \in Nat /\ DOMAIN g.size = 1 .. Len(g.size)
BY BlockBox, RadixFacts, WeightPositive DEF IsCut

(* The next value has a later place.                                       *)
LEMMA CellsGrow ==
  ASSUME NEW g, IsCut(g), NEW block \in 0 .. g.count - 1,
         NEW k \in 1 .. Volume(ActSize(g, block)) - 1
  PROVE  CellOf(k - 1, ActSize(g, block), g.blockSize) + 1 <= CellOf(k, ActSize(g, block), g.blockSize)
<1> DEFINE act == ActSize(g, block)
           size == g.blockSize
           n == Len(g.size)
           M(j) == CellOf(j, act, size)
<1>1. /\ size \in Radix /\ act \in Radix /\ Len(act) = Len(size) /\ Len(size) = n
      /\ \A i \in 1 .. Len(size) : act[i] <= size[i]
      /\ Volume(act) \in Nat \ {0} /\ Volume(size) \in Nat \ {0} /\ n \in Nat
  BY BlockRadix
<1>2. n # 0
  <2> SUFFICES ASSUME n = 0 PROVE FALSE
    OBVIOUS
  <2>1. act \in Seq(Int)
    BY <1>1, RadixFacts
  <2>2. Volume(act) = 1
    BY <1>1, <2>1, WeightSteps
  <2> QED
    BY <2>2
<1>3. k \in 0 .. Volume(act) - 1 /\ k - 1 \in 0 .. Volume(act) - 1 /\ k \in Nat /\ k > 0 /\ k < Volume(act)
  BY <1>1
<1>4. M(k) \in Int /\ M(k - 1) \in Int
  <2>1. M(k) \in 0 .. Volume(size) - 1 /\ M(k - 1) \in 0 .. Volume(size) - 1
    BY <1>1, <1>3, CellFacts
  <2> QED
    BY <2>1
<1>5. PICK d \in [1 .. n -> Int] : d = Digits(k, act)
  BY <1>1, <1>3, NumberOfDigits DEF IsDigits
<1>6. PICK s : s = [buf |-> 0, pos |-> [d EXCEPT ![n] = @ - 1], indexFile |-> 0, indexBuf |-> M(k) - 1]
  OBVIOUS
<1>7. s \in LoopState({0}, {0}, n)
  <2>1. n \in 1 .. n /\ d[n] - 1 \in Int
    BY <1>1, <1>2
  <2>2. [d EXCEPT ![n] = @ - 1] \in [1 .. n -> Int]
    BY <2>1
  <2>3. M(k) - 1 \in Int
    BY <1>4
  <2> QED
    BY <1>6, <2>2, <2>3 DEF LoopState
<1>8. OneBack(s, k, act, size)
  <2>1. s.pos = [d EXCEPT ![n] = @ - 1] /\ s.indexBuf = M(k) - 1
    BY <1>6
  <2> QED
    BY <1>1, <1>5, <2>1 DEF OneBack
<1>9. /\ Borrow(g, block, s).indexBuf = M(k - 1)
      /\ Borrow(g, block, s).indexBuf <= s.indexBuf
  <2>1. /\ Len(g.size) # 0 /\ k \in Nat /\ k > 0 /\ k < Volume(ActSize(g, block))
        /\ OneBack(s, k, ActSize(g, block), g.blockSize)
    BY <1>2, <1>3, <1>8
  <2>2. PICK B, F : s \in LoopState(B, F, Len(g.size))
    BY <1>7
  <2> HIDE DEF act, size, n, M
  <2>3. BackTo(Borrow(g, block, s), s, k - 1, ActSize(g, block), g.blockSize, B, F)
    BY <2>1, <2>2, BorrowOne
  <2> QED
    BY <2>3 DEF BackTo, M, act, size
<1>10. M(k - 1) <= M(k) - 1
  BY <1>6, <1>9
<1> HIDE DEF M
<1>11. M(k - 1) + 1 <= M(k)
  BY <1>4, <1>10
<1> QED
  BY <1>11 DEF M

(* If a value is read to its place, all values before it are, too.         *)
LEMMA CellsInPlace ==
  ASSUME NEW g, IsCut(g), NEW block \in 0 .. g.count - 1,
         NEW f \in 0 .. Volume(ActSize(g, block)) - 1,
         f >= CellOf(f, ActSize(g, block), g.blockSize)
  PROVE  \A k \in 0 .. f : CellOf(k, ActSize(g, block), g.blockSize) = k
<1> DEFINE act == ActSize(g, block)
           size == g.blockSize
           M(j) == CellOf(j, act, size)
           S == { k \in 0 .. f : M(k) = k }
<1>1. /\ size \in Radix /\ act \in Radix /\ Len(act) = Len(size)
      /\ \A i \in 1 .. Len(size) : act[i] <= size[i]
      /\ Volume(act) \in Nat \ {0} /\ Volume(size) \in Nat \ {0}
  BY BlockRadix
<1>2. ASSUME NEW k \in 0 .. f PROVE M(k) \in Int /\ k <= M(k) /\ k \in 0 .. Volume(act) - 1
  <2>1. k \in 0 .. Volume(act) - 1
    BY <1>1
  <2>2. M(k) \in 0 .. Volume(size) - 1 /\ k <= M(k)
    BY <1>1, <2>1, CellFacts
  <2> HIDE DEF M
  <2> QED
    BY <2>1, <2>2
<1>3. f \in S
  <2>1. f \in 0 .. f /\ f \in Nat
    BY <1>1
  <2>2. f >= M(f)
    OBVIOUS
  <2>3. M(f) \in Int /\ f <= M(f)
    BY <1>2, <2>1
  <2> HIDE DEF M
  <2> QED
    BY <2>1, <2>2, <2>3
<1>4. ASSUME NEW k \in 1 .. f, k \in S PROVE k - 1 \in S
  <2>1. k - 1 \in 0 .. f /\ k \in 1 .. Volume(act) - 1 /\ k \in 0 .. f
    BY <1>1
  <2>2. M(k - 1) + 1 <= M(k)
    BY <2>1, CellsGrow
  <2>3. M(k) = k /\ M(k - 1) \in Int /\ k - 1 <= M(k - 1)
    BY <1>2, <1>4, <2>1
  <2> HIDE DEF M
  <2>4. M(k - 1) = k - 1
    BY <2>2, <2>3
  <2> QED
    BY <2>1, <2>4
<1>5. f \in Nat
  BY <1>1
<1>6. \A k \in 0 .. f : k \in S
  <2> HIDE DEF S
  <2> QED
    BY <1>3, <1>4, <1>5, Downwards
<1> QED
  BY <1>6

(* The values of a block that are read are those of its box.               *)
LEMMA ReadValues ==
  ASSUME NEW g, IsCut(g), NEW block \in 0 .. g.count - 1
  PROVE  /\ Unmapped(g, block) \in [0 .. g.totalBlockSize - 1 -> Index(g) \cup {Unset}]
         /\ \A k \in 0 .. Volume(ActSize(g, block)) - 1 :
               /\ Unmapped(g, block)[k] = Shifted(Start(g, block), Digits(k, ActSize(g, block)))
               /\ k \in 0 .. g.totalBlockSize - 1
<1> DEFINE act == ActSize(g, block)
           V == Volume(act)
           U == Unmapped(g, block)
           T == g.totalBlockSize
           start == Start(g, block)
<1>1. /\ g.blockSize \in Radix /\ act \in Radix /\ Len(act) = Len(g.blockSize)
      /\ \A i \in 1 .. Len(g.blockSize) : act[i] <= g.blockSize[i]
      /\ Len(g.blockSize) = Len(g.size)
      /\ V \in Nat \ {0} /\ T = Volume(g.blockSize) /\ T \in Nat \ {0}
      /\ Len(g.size) \in Nat /\ DOMAIN g.size = 1 .. Len(g.size)
  BY BlockRadix
<1>2. ASSUME NEW k \in 0 .. V - 1 PROVE k \in 0 .. T - 1
  <2>1. /\ CellOf(k, act, g.blockSize) \in 0 .. Volume(g.blockSize) - 1
        /\ k <= CellOf(k, act, g.blockSize)
    BY <1>1, CellFacts
  <2>2. k \in Nat
    BY <1>1
  <2> HIDE DEF act
  <2> QED
    BY <1>1, <2>1, <2>2
<1>3. ASSUME NEW k \in 0 .. V - 1 PROVE Shifted(start, Digits(k, act)) \in Index(g)
  <2> DEFINE i == Shifted(start, Digits(k, act))
             n == Len(g.size)
  <2>1. IsDigits(Digits(k, act), act)
    BY <1>1, NumberOfDigits
  <2>2. DOMAIN start = 1 .. n
    BY <1>1 DEF Start
  <2>3. ASSUME NEW j \in 1 .. n PROVE i[j] \in Int /\ i[j] \in 0 .. g.size[j] - 1
    <3>1. i[j] = start[j] + Digits(k, act)[j]
      BY <2>2 DEF Shifted
    <3>2. start[j] \in Nat /\ start[j] + act[j] <= g.size[j]
      BY BlockBox
    <3>3. g.size[j] \in Nat /\ act[j] \in Nat
      BY <1>1, RadixFacts DEF IsCut
    <3>4. Digits(k, act)[j] \in 0 .. act[j] - 1
      BY <1>1, <2>1 DEF IsDigits
    <3> HIDE DEF i, start, act
    <3>5. PICK a \in Nat, b \in Nat, m \in Nat, z \in Nat :
             a = start[j] /\ b = Digits(k, act)[j] /\ m = act[j] /\ z = g.size[j]
      BY <3>2, <3>3, <3>4
    <3>6. a + m <= z /\ b < m
      BY <3>2, <3>4, <3>5
    <3>7. i[j] = a + b
      BY <3>1, <3>5
    <3>8. a + b \in Int /\ a + b \in 0 .. z - 1
      BY <3>6
    <3> QED
      BY <3>5, <3>7, <3>8
  <2>4. i = [j \in 1 .. n |-> i[j]]
    BY <2>2 DEF Shifted
  <2>5. IsDigits(i, g.size)
    <3> HIDE DEF i
    <3> QED
      BY <2>3, <2>4 DEF IsDigits
  <2>6. g.size \in Radix
    BY DEF IsCut
  <2> HIDE DEF i
  <2>7. Number(i, g.size) \in 0 .. Volume(g.size) - 1 /\ Digits(Number(i, g.size), g.size) = i
    BY <2>5, <2>6, DigitsOfNumber
  <2>8. i \in Index(g)
    BY <2>7 DEF Index
  <2> QED
    BY <2>8 DEF i
<1>4. U = [k \in 0 .. T - 1 |-> IF k < V THEN Shifted(start, Digits(k, act)) ELSE Unset]
  BY DEF Unmapped
<1> HIDE DEF act, V, U, T, start
<1>5. \A k \in 0 .. T - 1 : U[k] \in Index(g) \cup {Unset}
  <2> SUFFICES ASSUME NEW k \in 0 .. T - 1 PROVE U[k] \in Index(g) \cup {Unset}
    OBVIOUS
  <2>1. CASE k < V
    <3>1. k \in 0 .. V - 1
      BY <1>1, <2>1
    <3> QED
      BY <1>3, <1>4, <2>1, <3>1
  <2>2. CASE ~(k < V)
    BY <1>4, <2>2
  <2> QED
    BY <2>1, <2>2
<1>6. U \in [0 .. T - 1 -> Index(g) \cup {Unset}]
  BY <1>4, <1>5
<1>7. ASSUME NEW k \in 0 .. V - 1
      PROVE  U[k] = Shifted(start, Digits(k, act)) /\ k \in 0 .. T - 1
  BY <1>1, <1>2, <1>4
<1> QED
  BY <1>6, <1>7 DEF act, V, U, T, start

(* The states of getVar's loop when it has yet to copy value indexFile: the *)
(* later values are in their places, the others where they were read.      *)
LoopStates(g, block) ==
    { s \in LoopState([0 .. g.totalBlockSize - 1 -> Index(g) \cup {Unset}],
                      0 .. Volume(ActSize(g, block)) - 1, Len(g.size)) :
        /\ s.pos = Digits(s.indexFile, ActSize(g, block))
        /\ s.indexBuf = CellOf(s.indexFile, ActSize(g, block), g.blockSize)
        /\ \A k \in 0 .. Volume(ActSize(g, block)) - 1 :
              /\ k <= s.indexFile => s.buf[k] = Unmapped(g, block)[k]
              /\ k > s.indexFile =>
                    s.buf[CellOf(k, ActSize(g, block), g.blockSize)] = Unmapped(g, block)[k] }

Stops(s) == s.indexFile < 0 \/ s.indexFile >= s.indexBuf

(* One pass of the loop.                                                   *)
LEMMA SpreadKeeps ==
  ASSUME NEW g, IsCut(g), NEW block \in 0 .. g.count - 1,
         NEW s \in LoopStates(g, block), ~Stops(s)
  PROVE  /\ Spread(g, block, s) \in LoopStates(g, block)
         /\ Spread(g, block, s).indexFile = s.indexFile - 1
<1> DEFINE act == ActSize(g, block)
           size == g.blockSize
           n == Len(g.size)
           M(j) == CellOf(j, act, size)
           V == Volume(act)
           T == g.totalBlockSize
           U == Unmapped(g, block)
           B == [0 .. T - 1 -> Index(g) \cup {Unset}]
           F == 0 .. V - 1
           f == s.indexFile
           buf == [s.buf EXCEPT ![s.indexBuf] = s.buf[f]]
           next == [buf |-> buf, pos |-> [s.pos EXCEPT ![n] = @ - 1],
                    indexFile |-> f - 1, indexBuf |-> s.indexBuf - 1]
           e == Borrow(g, block, next)
<1>1. /\ size \in Radix /\ act \in Radix /\ Len(act) = Len(size) /\ Len(size) = n
      /\ \A i \in 1 .. Len(size) : act[i] <= size[i]
      /\ V \in Nat \ {0} /\ T = Volume(size) /\ T \in Nat \ {0} /\ n \in Nat
  BY BlockRadix
<1>2. /\ s.buf \in B /\ s.pos \in [1 .. n -> Int] /\ f \in F /\ s.indexBuf \in Int
      /\ s = [buf |-> s.buf, pos |-> s.pos, indexFile |-> f, indexBuf |-> s.indexBuf]
      /\ s.pos = Digits(f, act) /\ s.indexBuf = M(f)
      /\ \A k \in F : /\ k <= f => s.buf[k] = U[k]
                      /\ k > f => s.buf[M(k)] = U[k]
  BY DEF LoopStates, LoopState
<1>3. ASSUME NEW k \in F PROVE M(k) \in 0 .. T - 1 /\ k <= M(k) /\ k \in 0 .. T - 1 /\ k \in Nat
  <2>1. M(k) \in 0 .. Volume(size) - 1 /\ k <= M(k)
    BY <1>1, CellFacts
  <2>2. k \in Nat
    BY <1>1
  <2> HIDE DEF M, act, size
  <2> QED
    BY <1>1, <2>1, <2>2
<1>4. f \in Nat /\ f > 0 /\ f < V
  <2>1. CellOf(0, act, size) = 0
    BY <1>1, FirstCell
  <2>2. f # 0
    BY <1>2, <2>1 DEF Stops
  <2> HIDE DEF f, act, size
  <2> QED
    BY <1>1, <1>2, <2>2
<1>5. n # 0
  <2> SUFFICES ASSUME n = 0 PROVE FALSE
    OBVIOUS
  <2>1. act \in Seq(Int)
    BY <1>1, RadixFacts
  <2>2. V = 1
    BY <1>1, <2>1, WeightSteps
  <2> HIDE DEF f, V
  <2> QED
    BY <1>4, <2>2
<1>6. Spread(g, block, s) = e
  <2> DEFINE z == [s EXCEPT !.buf[s.indexBuf] = s.buf[s.indexFile],
                            !.indexFile = @ - 1, !.indexBuf = @ - 1, !.pos[Len(g.size)] = @ - 1]
  <2>1. DOMAIN s = {"buf", "pos", "indexFile", "indexBuf"}
    BY <1>2
  <2>2. /\ DOMAIN z = DOMAIN s /\ z.buf = buf /\ z.pos = [s.pos EXCEPT ![n] = @ - 1]
        /\ z.indexFile = f - 1 /\ z.indexBuf = s.indexBuf - 1
    BY <2>1
  <2>3. z = [c \in DOMAIN z |-> z[c]]
    OBVIOUS
  <2>4. z = next
    <3> HIDE DEF z
    <3> QED
      BY <2>1, <2>2, <2>3
  <2>5. Spread(g, block, s) = Borrow(g, block, z)
    BY DEF Spread
  <2> HIDE DEF z, next
  <2> QED
    BY <2>4, <2>5
<1>7. s.indexBuf \in 0 .. T - 1 /\ s.buf[f] \in Index(g) \cup {Unset} /\ buf \in B
  <2>1. M(f) \in 0 .. T - 1 /\ f \in 0 .. T - 1
    BY <1>2, <1>3
  <2>2. s.buf[f] \in Index(g) \cup {Unset}
    BY <1>2, <2>1
  <2>3. PICK h \in B, c \in 0 .. T - 1, v \in Index(g) \cup {Unset} :
           h = s.buf /\ c = s.indexBuf /\ v = s.buf[f]
    BY <1>2, <2>1, <2>2
  <2>4. [h EXCEPT ![c] = v] \in B
    OBVIOUS
  <2> HIDE DEF M, B
  <2> QED
    BY <1>2, <2>1, <2>2, <2>3, <2>4
<1>8. next \in LoopState(B, F, n)
  <2>1. PICK p \in [1 .. n -> Int] : p = s.pos
    BY <1>2
  <2>2. n \in 1 .. n /\ p[n] - 1 \in Int
    BY <1>1, <1>5
  <2>3. [p EXCEPT ![n] = @ - 1] \in [1 .. n -> Int]
    BY <2>2
  <2>4. f - 1 \in F
    <3> HIDE DEF f, V
    <3> QED
      BY <1>1, <1>4
  <2>5. s.indexBuf - 1 \in Int
    BY <1>2
  <2> HIDE DEF B, F, buf, f
  <2> QED
    BY <1>7, <2>1, <2>3, <2>4, <2>5 DEF LoopState
<1>9. OneBack(next, f, act, size)
  <2>1. next.pos = [Digits(f, act) EXCEPT ![n] = @ - 1] /\ next.indexBuf = M(f) - 1
    BY <1>2
  <2> HIDE DEF next, act, size, f
  <2> QED
    BY <1>1, <2>1 DEF OneBack
<1>10. /\ e \in LoopState(B, F, n)
       /\ e.buf = next.buf /\ e.indexFile = next.indexFile
       /\ e.pos = Digits(f - 1, act)
       /\ e.indexBuf = M(f - 1)
  <2>1. PICK m \in Nat : m = f /\ m > 0 /\ m < Volume(ActSize(g, block))
    BY <1>4
  <2>2. PICK x, X, Y : x = next /\ X = B /\ Y = F
    OBVIOUS
  <2>3. OneBack(x, m, ActSize(g, block), g.blockSize) /\ x \in LoopState(X, Y, Len(g.size))
    BY <1>8, <1>9, <2>1, <2>2
  <2>4. Len(g.size) # 0
    BY <1>5
  <2> HIDE DEF B, F, next, n, act, size, f, M, e
  <2>5. BackTo(Borrow(g, block, x), x, m - 1, ActSize(g, block), g.blockSize, X, Y)
    BY <2>1, <2>3, <2>4, BorrowOne
  <2>6. BackTo(e, next, f - 1, act, size, B, F)
    BY <2>1, <2>2, <2>5 DEF e, act, size
  <2> QED
    BY <1>1, <2>6 DEF BackTo, M
<1>11. next.buf = buf /\ next.indexFile = f - 1
  OBVIOUS
<1>12. ASSUME NEW k \in F
       PROVE  /\ k <= f - 1 => buf[k] = U[k]
              /\ k > f - 1 => buf[M(k)] = U[k]
  <2>1. /\ k \in 0 .. T - 1 /\ M(k) \in 0 .. T - 1 /\ k \in Nat /\ k <= M(k)
        /\ f <= M(f) /\ M(f) \in 0 .. T - 1 /\ f \in Nat
    BY <1>2, <1>3
  <2>2. DOMAIN s.buf = 0 .. T - 1
    BY <1>2
  <2>3. k # f => M(k) # M(f)
    BY <1>1, <1>2, CellsDiffer
  <2>4. buf = [s.buf EXCEPT ![M(f)] = s.buf[f]]
    BY <1>2
  <2>5. s.buf[f] = U[f]
    BY <1>2, <2>1
  <2>6. /\ k <= f => s.buf[k] = U[k]
        /\ k > f => s.buf[M(k)] = U[k]
    BY <1>2
  <2> HIDE DEF M, buf, f, U, T, F
  <2>7. CASE k < f
    <3>1. k # M(f)
      BY <2>1, <2>7
    <3> QED
      BY <2>1, <2>2, <2>4, <2>6, <2>7, <3>1
  <2>8. CASE k = f
    BY <2>1, <2>2, <2>4, <2>5, <2>8
  <2>9. CASE k > f
    BY <2>1, <2>2, <2>3, <2>4, <2>6, <2>9
  <2> QED
    BY <2>1, <2>7, <2>8, <2>9
<1>13. e \in LoopStates(g, block) /\ e.indexFile = f - 1
  <2> HIDE DEF e, next, buf, f
  <2> QED
    BY <1>10, <1>11, <1>12 DEF LoopStates
<1> QED
  BY <1>6, <1>13

(* The loop starts at the last value.                                      *)
FirstState(g, block) ==
    [buf |-> Unmapped(g, block),
     pos |-> [i \in DOMAIN ActSize(g, block) |-> ActSize(g, block)[i] - 1],
     indexFile |-> Volume(ActSize(g, block)) - 1,
     indexBuf |-> Number([i \in DOMAIN ActSize(g, block) |-> ActSize(g, block)[i] - 1], g.blockSize)]

(* Before the first pass, no value has been moved.                         *)
LEMMA LoopStarts ==
  ASSUME NEW g, IsCut(g), NEW block \in 0 .. g.count - 1
  PROVE  FirstState(g, block) \in LoopStates(g, block)
<1> DEFINE act == ActSize(g, block)
           size == g.blockSize
           n == Len(g.size)
           V == Volume(act)
           U == Unmapped(g, block)
           B == [0 .. g.totalBlockSize - 1 -> Index(g) \cup {Unset}]
           last == [i \in DOMAIN act |-> act[i] - 1]
           s == FirstState(g, block)
<1>1. /\ size \in Radix /\ act \in Radix /\ Len(act) = Len(size) /\ Len(size) = n
      /\ \A i \in 1 .. Len(size) : act[i] <= size[i]
      /\ V \in Nat \ {0} /\ Volume(size) \in Nat \ {0}
  BY BlockRadix, WeightPositive
<1>2. U \in B
  BY ReadValues
<1>3. IsDigits(last, act) /\ Digits(V - 1, act) = last
  BY <1>1, LastDigits
<1>4. last \in [1 .. n -> Int]
  BY <1>1, <1>3 DEF IsDigits
<1>5. s = [buf |-> U, pos |-> last, indexFile |-> V - 1, indexBuf |-> Number(last, size)]
  BY DEF FirstState
<1>6. V - 1 \in 0 .. V - 1
  <2> HIDE DEF V
  <2> QED
    BY <1>1
<1>7. Number(last, size) = CellOf(V - 1, act, size)
  BY <1>3 DEF CellOf
<1>8. CellOf(V - 1, act, size) \in Int
  <2>1. CellOf(V - 1, act, size) \in 0 .. Volume(size) - 1
    BY <1>1, <1>6, CellFacts
  <2> QED
    BY <2>1
<1> HIDE DEF s, last, B, U
<1>9. s \in LoopState(B, 0 .. V - 1, n)
  <2> HIDE DEF act, V, size, n
  <2> QED
    BY <1>2, <1>4, <1>5, <1>6, <1>7, <1>8 DEF LoopState
<1>10. /\ s.pos = Digits(s.indexFile, act)
       /\ s.indexBuf = CellOf(s.indexFile, act, size)
  BY <1>3, <1>5, <1>7
<1>11. ASSUME NEW k \in 0 .. V - 1
       PROVE  s.buf[k] = U[k] /\ ~(k > s.indexFile)
  <2> HIDE DEF V
  <2> QED
    BY <1>1, <1>5
<1>12. s \in LoopStates(g, block)
  BY <1>9, <1>10, <1>11 DEF LoopStates, B, U
<1> QED
  BY <1>12 DEF s

(* Where the loop ends, all values are in their places.                    *)
LEMMA LoopEnds ==
  ASSUME NEW g, IsCut(g), NEW block \in 0 .. g.count - 1,
         NEW s \in LoopStates(g, block), Stops(s)
  PROVE  \A k \in 0 .. Volume(ActSize(g, block)) - 1 :
            s.buf[CellOf(k, ActSize(g, block), g.blockSize)] = Unmapped(g, block)[k]
<1> DEFINE f == s.indexFile
           V == Volume(ActSize(g, block))
           M(j) == CellOf(j, ActSize(g, block), g.blockSize)
<1>1. /\ f \in 0 .. V - 1 /\ s.indexBuf = M(f)
      /\ \A k \in 0 .. V - 1 : /\ k <= f => s.buf[k] = Unmapped(g, block)[k]
                               /\ k > f => s.buf[M(k)] = Unmapped(g, block)[k]
  BY DEF LoopStates, LoopState
<1>2. V \in Nat \ {0}
  BY BlockRadix
<1>3. f >= M(f)
  <2> HIDE DEF M, f
  <2>1. f < 0 \/ f >= s.indexBuf
    BY DEF Stops, f
  <2> QED
    BY <1>1, <1>2, <2>1
<1>4. \A k \in 0 .. f : M(k) = k
  BY <1>1, <1>3, CellsInPlace
<1>5. ASSUME NEW k \in 0 .. V - 1 PROVE s.buf[M(k)] = Unmapped(g, block)[k]
  <2> HIDE DEF M, f, V
  <2>1. CASE k <= f
    <3>1. k \in 0 .. f
      BY <1>1, <1>2, <2>1
    <3> QED
      BY <1>1, <1>4, <2>1, <3>1
  <2>2. CASE k > f
    BY <1>1, <2>2
  <2> QED
    BY <1>1, <1>2, <2>1, <2>2
<1> QED
  BY <1>5

(* The whole loop.                                                         *)
Looped(b, g, block) ==
    /\ b \in [0 .. Volume(ActSize(g, block)) -> LoopStates(g, block)]
    /\ b[0] = FirstState(g, block)
    /\ \A k \in 1 .. Volume(ActSize(g, block)) :
          b[k] = IF Stops(b[k - 1]) THEN b[k - 1] ELSE Spread(g, block, b[k - 1])

(* The recursive function of the model makes these passes.                 *)
LEMMA LoopSteps ==
  ASSUME NEW g, IsCut(g), NEW block \in 0 .. g.count - 1
  PROVE  \E b : /\ Looped(b, g, block)
                /\ Loaded(g, block) = b[Volume(ActSize(g, block))].buf
<1> DEFINE act == ActSize(g, block)
           V == Volume(act)
           X == LoopStates(g, block)
           first == FirstState(g, block)
           step(s) == IF s.indexFile < 0 \/ s.indexFile >= s.indexBuf THEN s ELSE Spread(g, block, s)
           G == [k \in 1 .. V |-> [s \in X |-> step(s)]]
           Is(b) == b = [k \in 0 .. V |-> IF k = 0 THEN first ELSE step(b[k - 1])]
           it == CHOOSE b : Is(b)
<1>1. V \in Nat
  BY BlockRadix
<1>2. Loaded(g, block) = it[V].buf
  BY DEF Loaded, FirstState
<1>3. first \in X
  BY LoopStarts
<1>4. ASSUME NEW s \in X PROVE step(s) \in X
  <2>1. CASE Stops(s)
    BY <2>1 DEF Stops
  <2>2. CASE ~Stops(s)
    <3>1. Spread(g, block, s) \in X
      BY <2>2, SpreadKeeps
    <3> QED
      BY <3>1
  <2> QED
    BY <2>1, <2>2
<1> HIDE DEF V, X, first
<1>5. G \in [1 .. V -> [X -> X]]
  <2> HIDE DEF step
  <2> QED
    BY <1>4
<1>6. PICK b : Iterates(b, V, X, first, G)
  <2> HIDE DEF G
  <2> QED
    BY <1>1, <1>3, <1>5, Recursion
<1>7. /\ b \in [0 .. V -> X] /\ b[0] = first
      /\ \A k \in 1 .. V : b[k] = G[k][b[k - 1]]
  BY <1>6 DEF Iterates
<1>8. ASSUME NEW k \in 1 .. V
      PROVE  b[k - 1] \in X /\ b[k] = step(b[k - 1])
  <2>1. k - 1 \in 0 .. V
    BY <1>1
  <2>2. b[k - 1] \in X
    BY <1>7, <2>1
  <2> HIDE DEF step
  <2> QED
    BY <1>7, <2>2
<1> HIDE DEF G
<1>9. Is(b)
  <2>1. ASSUME NEW k \in 0 .. V
        PROVE  b[k] = IF k = 0 THEN first ELSE step(b[k - 1])
    <3>1. CASE k = 0
      BY <1>7, <3>1
    <3>2. CASE k # 0
      <4>1. k \in 1 .. V
        BY <1>1, <3>2
      <4>2. b[k] = step(b[k - 1])
        BY <1>8, <4>1
      <4> HIDE DEF step
      <4> QED
        BY <3>2, <4>2
    <3> QED
      BY <3>1, <3>2
  <2> HIDE DEF step
  <2> QED
    BY <1>7, <2>1
<1>10. Is(it)
  <2> HIDE DEF Is
  <2> QED
    BY <1>9
<1>11. ASSUME NEW c, Is(c) PROVE c = b
  <2> DEFINE S == { k \in 0 .. V : c[k] = b[k] }
  <2> HIDE DEF step
  <2>1. c = [k \in 0 .. V |-> c[k]] /\ b = [k \in 0 .. V |-> b[k]]
    BY <1>7, <1>11
  <2>2. /\ \A k \in 0 .. V : c[k] = IF k = 0 THEN first ELSE step(c[k - 1])
        /\ \A k \in 0 .. V : b[k] = IF k = 0 THEN first ELSE step(b[k - 1])
    BY <1>9, <1>11
  <2> HIDE DEF Is
  <2>3. 0 \in S
    BY <1>1, <2>2
  <2>4. ASSUME NEW k \in 0 .. V - 1, k \in S PROVE k + 1 \in S
    <3>1. k + 1 \in 0 .. V /\ k + 1 # 0 /\ (k + 1) - 1 = k
      BY <1>1
    <3>2. c[k] = b[k]
      BY <2>4
    <3> QED
      BY <2>2, <3>1, <3>2
  <2>5. \A k \in 0 .. V : k \in S
    <3> HIDE DEF S
    <3> QED
      BY <1>1, <2>3, <2>4, Upwards
  <2> QED
    BY <2>1, <2>5
<1>12. it = b
  <2> HIDE DEF Is, it
  <2> QED
    BY <1>10, <1>11
<1>13. Looped(b, g, block)
  <2>1. \A k \in 1 .. V : b[k] = IF Stops(b[k - 1]) THEN b[k - 1] ELSE Spread(g, block, b[k - 1])
    BY <1>8 DEF Stops
  <2> QED
    BY <1>7, <2>1 DEF Looped, V, X, first
<1> QED
  BY <1>2, <1>12, <1>13 DEF V

(* Loading a block puts all values that are read in their places.          *)
LEMMA LoadedInPlace ==
  ASSUME NEW g, IsCut(g), NEW block \in 0 .. g.count - 1
  PROVE  /\ Loaded(g, block) \in [0 .. g.totalBlockSize - 1 -> Index(g) \cup {Unset}]
         /\ \A k \in 0 .. Volume(ActSize(g, block)) - 1 :
               Loaded(g, block)[CellOf(k, ActSize(g, block), g.blockSize)]
                  = Shifted(Start(g, block), Digits(k, ActSize(g, block)))
<1> DEFINE V == Volume(ActSize(g, block))
           X == LoopStates(g, block)
<1>1. PICK b : Looped(b, g, block) /\ Loaded(g, block) = b[V].buf
  BY LoopSteps
<1>2. /\ b \in [0 .. V -> X] /\ b[0] = FirstState(g, block)
      /\ \A k \in 1 .. V : b[k] = IF Stops(b[k - 1]) THEN b[k - 1] ELSE Spread(g, block, b[k - 1])
  BY <1>1 DEF Looped
<1>3. V \in Nat
  BY BlockRadix
<1>4. \A s \in X : s.indexFile \in 0 .. V - 1
  BY DEF LoopStates, LoopState
<1> DEFINE S == { k \in 0 .. V : Stops(b[k]) \/ b[k].indexFile = V - 1 - k }
<1>5. 0 \in S
  <2>1. b[0].indexFile = V - 1
    BY <1>2 DEF FirstState
  <2> HIDE DEF V
  <2> QED
    BY <1>3, <2>1
<1>6. ASSUME NEW k \in 0 .. V - 1, k \in S PROVE k + 1 \in S
  <2>1. k + 1 \in 1 .. V /\ k + 1 \in 0 .. V /\ (k + 1) - 1 = k /\ k \in 0 .. V /\ k \in Int
    <3> HIDE DEF V
    <3> QED
      BY <1>3
  <2>2. b[k + 1] = IF Stops(b[k]) THEN b[k] ELSE Spread(g, block, b[k])
    <3> HIDE DEF V
    <3> QED
      BY <1>2, <2>1
  <2>3. CASE Stops(b[k])
    BY <2>1, <2>2, <2>3
  <2>4. CASE ~Stops(b[k])
    <3>1. b[k] \in X
      BY <1>2, <2>1
    <3>2. Spread(g, block, b[k]).indexFile = b[k].indexFile - 1
      BY <2>4, <3>1, SpreadKeeps
    <3>3. b[k].indexFile = V - 1 - k
      BY <1>6, <2>4
    <3>4. V - 1 - k - 1 = V - 1 - (k + 1)
      <4> HIDE DEF V
      <4> QED
        BY <1>3, <2>1
    <3> HIDE DEF V
    <3>5. b[k + 1].indexFile = V - 1 - (k + 1)
      BY <2>2, <2>4, <3>2, <3>3, <3>4
    <3> QED
      BY <2>1, <3>5
  <2> QED
    BY <2>3, <2>4
<1>7. \A k \in 0 .. V : k \in S
  <2> HIDE DEF S, V
  <2> QED
    BY <1>3, <1>5, <1>6, Upwards
<1>8. b[V] \in X /\ Stops(b[V])
  <2> HIDE DEF V
  <2>1. V \in 0 .. V
    BY <1>3
  <2>2. b[V] \in X
    BY <1>2, <2>1
  <2>3. b[V].indexFile \in 0 .. V - 1
    BY <1>4, <2>2
  <2>4. b[V].indexFile # V - 1 - V
    BY <1>3, <2>3
  <2> QED
    BY <1>7, <2>1, <2>2, <2>4
<1>9. \A k \in 0 .. V - 1 :
         b[V].buf[CellOf(k, ActSize(g, block), g.blockSize)] = Unmapped(g, block)[k]
  BY <1>8, LoopEnds
<1>10. \A k \in 0 .. V - 1 : Unmapped(g, block)[k] = Shifted(Start(g, block), Digits(k, ActSize(g, block)))
  BY ReadValues
<1>11. b[V].buf \in [0 .. g.totalBlockSize - 1 -> Index(g) \cup {Unset}]
  BY <1>8 DEF LoopStates, LoopState
<1> HIDE DEF V, X, S
<1>12. \A k \in 0 .. V - 1 :
          Loaded(g, block)[CellOf(k, ActSize(g, block), g.blockSize)]
             = Shifted(Start(g, block), Digits(k, ActSize(g, block)))
  BY <1>1, <1>9, <1>10
<1> QED
  BY <1>1, <1>11, <1>12 DEF V

(* The block of an index, and its place in the block.                      *)
LEMMA IndexInBlock ==
  ASSUME NEW g, IsCut(g), NEW i, IsDigits(i, g.size)
  PROVE  /\ BlockByCoords(g, i) \in 0 .. g.count - 1
         /\ \E k \in 0 .. Volume(ActSize(g, BlockByCoords(g, i))) - 1 :
               /\ CalcOffsetInBlock(g, i) = CellOf(k, ActSize(g, BlockByCoords(g, i)), g.blockSize)
               /\ Shifted(Start(g, BlockByCoords(g, i)), Digits(k, ActSize(g, BlockByCoords(g, i)))) = i
<1> DEFINE n == Len(g.size)
           p == [j \in DOMAIN i |-> i[j] \div g.blockSize[j]]
           l == [j \in DOMAIN i |-> i[j] % g.blockSize[j]]
           block == BlockByCoords(g, i)
           act == ActSize(g, block)
           start == Start(g, block)
<1>1. /\ n \in Nat /\ DOMAIN g.size = 1 .. n /\ DOMAIN i = 1 .. n
      /\ g.blockSize \in Radix /\ g.blocks \in Radix /\ Len(g.blockSize) = n /\ Len(g.blocks) = n
      /\ i = [j \in 1 .. n |-> i[j]]
      /\ \A j \in 1 .. n : /\ g.size[j] \in Nat \ {0} /\ g.blockSize[j] \in Nat \ {0}
                           /\ i[j] \in 0 .. g.size[j] - 1 /\ i[j] \in Int
  BY RadixFacts DEF IsCut, IsDigits
<1>2. ASSUME NEW j \in 1 .. n
      PROVE  /\ p[j] \in 0 .. g.blocks[j] - 1 /\ p[j] \in Int
             /\ l[j] \in 0 .. g.blockSize[j] - 1 /\ l[j] \in Int
             /\ i[j] = p[j] * g.blockSize[j] + l[j]
  <2>1. p[j] = i[j] \div g.blockSize[j] /\ l[j] = i[j] % g.blockSize[j]
    BY <1>1
  <2>2. PICK z \in Nat \ {0}, s \in Nat \ {0} : z = g.size[j] /\ s = g.blockSize[j]
    BY <1>1
  <2>3. PICK q : q = (z + s - 1) \div s
    OBVIOUS
  <2>4. PICK x \in 0 .. z - 1 : x = i[j]
    BY <1>1, <2>2
  <2>5. x \div s \in 0 .. q - 1 /\ x % s \in 0 .. s - 1 /\ x = (x \div s) * s + (x % s) /\ q \in Nat \ {0}
    BY <2>3, Pieces
  <2>6. g.blocks[j] = q
    BY <1>1, <2>2, <2>3 DEF IsCut
  <2>7. p[j] = x \div s /\ l[j] = x % s
    BY <2>1, <2>2, <2>4
  <2> HIDE DEF p, l
  <2> QED
    BY <2>2, <2>4, <2>5, <2>6, <2>7
<1>3. p = [j \in 1 .. n |-> p[j]] /\ l = [j \in 1 .. n |-> l[j]]
  BY <1>1
<1>4. block = Number(p, g.blocks) /\ CalcOffsetInBlock(g, i) = Number(l, g.blockSize)
  BY DEF BlockByCoords, CalcOffsetInBlock
<1> HIDE DEF p, l, block
<1>5. block \in 0 .. g.count - 1 /\ Digits(block, g.blocks) = p
  <2>1. IsDigits(p, g.blocks)
    BY <1>1, <1>2, <1>3 DEF IsDigits
  <2> QED
    BY <1>1, <1>4, <2>1, DigitsOfNumber DEF IsCut
<1>6. ASSUME NEW j \in 1 .. n
      PROVE  l[j] \in 0 .. act[j] - 1 /\ start[j] + l[j] = i[j]
  <2>1. /\ start[j] = p[j] * g.blockSize[j]
        /\ act[j] = IF g.blockSize[j] <= g.size[j] - start[j]
                    THEN g.blockSize[j] ELSE g.size[j] - start[j]
    BY <1>5, BlockBox
  <2>2. start[j] + l[j] = i[j]
    BY <1>2, <2>1
  <2>3. PICK x \in Int, y \in Int, s \in Int, z \in Int, v \in Int :
           x = start[j] /\ y = l[j] /\ s = g.blockSize[j] /\ z = g.size[j] /\ v = i[j]
    <3>1. start[j] \in Int
      BY <1>5, BlockBox
    <3>2. g.blockSize[j] \in Int /\ g.size[j] \in Int /\ i[j] \in Int
      BY <1>1
    <3>3. l[j] \in Int
      BY <1>2
    <3> QED
      BY <3>1, <3>2, <3>3
  <2>4. y \in 0 .. s - 1 /\ v \in 0 .. z - 1 /\ x + y = v
    BY <1>1, <1>2, <2>2, <2>3
  <2> HIDE DEF act, start
  <2>5. act[j] = IF s <= z - x THEN s ELSE z - x
    BY <2>1, <2>3
  <2>6. y \in 0 .. (IF s <= z - x THEN s ELSE z - x) - 1
    BY <2>4
  <2> QED
    BY <2>2, <2>3, <2>5, <2>6
<1>7. act \in Radix /\ Len(act) = n
  BY <1>5, BlockBox
<1>8. IsDigits(l, act)
  <2>1. l \in [1 .. n -> Int]
    BY <1>2, <1>3
  <2> HIDE DEF act
  <2> QED
    BY <1>6, <1>7, <2>1 DEF IsDigits
<1>9. PICK k : k = Number(l, act)
  OBVIOUS
<1>10. k \in 0 .. Volume(act) - 1 /\ Digits(k, act) = l
  BY <1>7, <1>8, <1>9, DigitsOfNumber
<1>11. CalcOffsetInBlock(g, i) = CellOf(k, act, g.blockSize)
  BY <1>4, <1>10 DEF CellOf
<1>12. Shifted(start, l) = i
  <2>1. DOMAIN start = 1 .. n
    BY <1>1 DEF Start
  <2>2. Shifted(start, l) = [j \in 1 .. n |-> start[j] + l[j]]
    BY <2>1 DEF Shifted
  <2> HIDE DEF start
  <2> QED
    BY <1>1, <1>6, <2>2
<1> HIDE DEF act, start
<1>13. \E m \in 0 .. Volume(act) - 1 :
          CalcOffsetInBlock(g, i) = CellOf(m, act, g.blockSize) /\ Shifted(start, Digits(m, act)) = i
  BY <1>10, <1>11, <1>12
<1> QED
  BY <1>5, <1>13 DEF act, start, block

(* Hence what open(), blockByCoords, calcOffsetInBlock and the reader      *)
(* compute agree: every index of every file has a block and an offset in   *)
(* it, where loading the block puts the value of this index.               *)
THEOREM FilesRight == \A s \in Setup : BlocksRight(Opened(s.file))
<1> SUFFICES ASSUME NEW s \in Setup PROVE BlocksRight(Opened(s.file))
  OBVIOUS
<1>1. PICK g : g = Opened(s.file)
  OBVIOUS
<1>2. IsCut(g)
  BY <1>1, OpenedIsCut
<1>3. g.count \in Nat \ {0}
  BY <1>2, WeightPositive DEF IsCut
<1>4. \A b \in 0 .. g.count - 1 :
         Loaded(g, b) \in [0 .. g.totalBlockSize - 1 -> Index(g) \cup {Unset}]
  BY <1>2, LoadedInPlace
<1>5. ASSUME NEW i \in [DOMAIN g.size -> UNION { 0 .. g.size[n] - 1 : n \in DOMAIN g.size }],
             \A n \in DOMAIN i : i[n] < g.size[n]
      PROVE  /\ i \in Index(g)
             /\ BlockByCoords(g, i) \in 0 .. g.count - 1
             /\ Loaded(g, BlockByCoords(g, i))[CalcOffsetInBlock(g, i)] = i
  <2>1. /\ g.size \in Radix /\ Len(g.size) \in Nat /\ DOMAIN g.size = 1 .. Len(g.size)
        /\ \A n \in 1 .. Len(g.size) : g.size[n] \in Nat \ {0}
    BY <1>2, RadixFacts DEF IsCut
  <2>2. IsDigits(i, g.size)
    <3>1. DOMAIN i = 1 .. Len(g.size)
      BY <2>1
    <3>2. ASSUME NEW n \in 1 .. Len(g.size) PROVE i[n] \in 0 .. g.size[n] - 1 /\ i[n] \in Int
      <4>1. i[n] \in UNION { 0 .. g.size[m] - 1 : m \in DOMAIN g.size }
        BY <2>1
      <4>2. i[n] \in Nat
        BY <2>1, <4>1
      <4>3. i[n] < g.size[n] /\ g.size[n] \in Nat
        BY <1>5, <2>1, <3>1
      <4> QED
        BY <4>2, <4>3
    <3>3. i \in [1 .. Len(g.size) -> Int]
      BY <2>1, <3>2
    <3> QED
      BY <3>2, <3>3 DEF IsDigits
  <2>3. i \in Index(g)
    <3>1. Number(i, g.size) \in 0 .. Volume(g.size) - 1 /\ Digits(Number(i, g.size), g.size) = i
      BY <2>1, <2>2, DigitsOfNumber
    <3> QED
      BY <3>1 DEF Index
  <2>4. PICK b : b = BlockByCoords(g, i)
    OBVIOUS
  <2>5. /\ b \in 0 .. g.count - 1
        /\ \E k \in 0 .. Volume(ActSize(g, b)) - 1 :
              /\ CalcOffsetInBlock(g, i) = CellOf(k, ActSize(g, b), g.blockSize)
              /\ Shifted(Start(g, b), Digits(k, ActSize(g, b))) = i
    BY <1>2, <2>2, <2>4, IndexInBlock
  <2>6. Loaded(g, b)[CalcOffsetInBlock(g, i)] = i
    BY <1>2, <2>5, LoadedInPlace
  <2> QED
    BY <2>3, <2>4, <2>5, <2>6
<1>6. BlocksRight(g)
  BY <1>3, <1>4, <1>5 DEF BlocksRight
<1> QED
  BY <1>1, <1>6

-----------------------------------------------------------------------------
(* The level is one that Layout and Full::open set up right.               *)
IsRight == IsOpened(grid) /\ BlocksRight(grid) /\ BlocksLoaded

(* Every position has an index, whose block contains its value.            *)
LEMMA IndexOfPosition ==
  ASSUME NEW g, IsOpened(g), BlocksRight(g), NEW pos \in Position, Len(pos) = Len(g.size)
  PROVE  LET i == Pos2Index(g, pos) IN
         /\ i \in Index(g)
         /\ BlockByCoords(g, i) \in 0 .. g.count - 1
         /\ Loaded(g, BlockByCoords(g, i))[CalcOffsetInBlock(g, i)] = i
<1> DEFINE i == Pos2Index(g, pos)
<1>1. i = [n \in DOMAIN g.size |-> i[n]]
  BY DEF Pos2Index
<1>2. \A n \in DOMAIN g.size : i[n] \in 0 .. g.size[n] - 1 /\ i[n] \in Int
  <2> SUFFICES ASSUME NEW n \in DOMAIN g.size PROVE i[n] \in 0 .. g.size[n] - 1
    OBVIOUS
  <2> QED
    BY NearestIndex
<1>3. \A n \in DOMAIN g.size : g.size[n] \in Nat \ {0}
  BY OpenedFile DEF IsOpened
<1> HIDE DEF i
<1>4. i \in [DOMAIN g.size -> UNION { 0 .. g.size[n] - 1 : n \in DOMAIN g.size }]
  BY <1>1, <1>2
<1>5. DOMAIN i = DOMAIN g.size
  BY <1>1
<1>6. \A n \in DOMAIN i : i[n] < g.size[n]
  BY <1>2, <1>3, <1>5
<1> QED
  BY <1>4, <1>6 DEF BlocksRight, i

(* Numbers of a grid that is cut right.                                    *)
LEMMA GridNumbers ==
  ASSUME NEW g, IsOpened(g), BlocksRight(g)
  PROVE  g.count \in Nat \ {0} /\ g.roundRobin \in BOOLEAN /\ Index(g) \subseteq AnyIndex
<1>1. PICK s \in Setup : g.roundRobin \in BOOLEAN /\ Index(g) = Index(s.file)
  BY OpenedFile DEF IsOpened
<1> QED
  BY <1>1 DEF BlocksRight, AnyIndex

(* A block, its rank and its place there, and what is in it once its       *)
(* domain has loaded it.                                                   *)
LEMMA BlockFacts ==
  ASSUME IsRight, NEW b \in 0 .. Count - 1
  PROVE  /\ RankOf(b) \in Rank
         /\ PlaceOf(b) \in 0 .. NodeCount(Count) - 1 /\ PlaceOf(b) \in Nat
         /\ LocalCount(Count) * BlockDomainOf(b) + BlockOffset(Count, grid.roundRobin, b) = PlaceOf(b)
         /\ BlockDomainOf(b) \in Domain
         /\ BlockDomainOf(b) \in loaded[RankOf(b)] =>
               memory[RankOf(b)][PlaceOf(b)] = Loaded(grid, b)
         /\ Loaded(grid, b) \in Values
<1> DEFINE rank == BlockRank(Count, grid.roundRobin, b)
           domain == BlockDomain(Count, grid.roundRobin, b)
           offset == BlockOffset(Count, grid.roundRobin, b)
           local == LocalCount(Count)
<1>1. Count \in Nat \ {0} /\ grid.roundRobin \in BOOLEAN /\ Index(grid) \subseteq AnyIndex
  BY GridNumbers DEF IsRight, Count
<1>2. /\ rank \in Rank /\ domain \in Domain /\ offset \in 0 .. local - 1
      /\ local \in Nat \ {0}
  BY <1>1, BlocksHavePlaces, EnoughPlaces
<1>3. PlaceOf(b) = offset + domain * local
  BY DEF PlaceOf, BlockNodeOffset
<1>4. /\ offset + domain * local \in 0 .. NodeCount(Count) - 1
      /\ (offset + domain * local) \div local = domain
  BY <1>1, <1>2, NodeOffset
<1>5. domain \in loaded[rank] => memory[rank][PlaceOf(b)] = Loaded(grid, b)
  <2>1. MemoryOf(grid)[rank][PlaceOf(b)] = Loaded(grid, b)
    BY <1>1, MemoryHasEveryBlock DEF PlaceOf, Count
  <2>2. PlaceOf(b) \in 0 .. NodeCount(Count) - 1 /\ PlaceOf(b) \div local = domain
    BY <1>3, <1>4
  <2> HIDE DEF rank, domain, offset
  <2> QED
    BY <1>2, <2>1, <2>2 DEF IsRight, BlocksLoaded, local
<1>6. Loaded(grid, b) \in Values
  <2>1. Loaded(grid, b) \in [0 .. grid.totalBlockSize - 1 -> Index(grid) \cup {Unset}]
    BY DEF IsRight, BlocksRight, Count
  <2> QED
    BY <1>1, <2>1 DEF Values
<1>7. domain \in Nat
  BY <1>2 DEF Domain
<1> HIDE DEF rank, domain, offset, local
<1>8. local * domain + offset = offset + domain * local
  BY <1>2, <1>7
<1> QED
  BY <1>2, <1>3, <1>4, <1>5, <1>6, <1>8 DEF RankOf, BlockDomainOf, rank, domain, offset, local

(* The memory of a rank contains values of the file.                       *)
LEMMA MemoryTypes ==
  ASSUME IsRight, NEW r \in Rank, NEW o \in 0 .. NodeCount(Count) - 1
  PROVE  memory[r][o] \in Values
<1> DEFINE local == LocalCount(Count)
           id == Local2Global(Count, grid.roundRobin, r, o \div local, o % local)
<1>1. Count \in Nat \ {0} /\ grid.roundRobin \in BOOLEAN /\ Index(grid) \subseteq AnyIndex
  BY GridNumbers DEF IsRight, Count
<1>2. local \in Nat \ {0} /\ NumDomains \in Nat \ {0}
  BY <1>1, EnoughPlaces, BlockPlacesAssumption
<1>3. o \in Nat /\ o < NumDomains * local
  <2>1. NodeCount(Count) = local * NumDomains
    BY DEF NodeCount
  <2> HIDE DEF local
  <2> QED
    BY <1>2, <2>1
<1>4. o \div local \in Domain /\ o % local \in 0 .. local - 1
  <2> HIDE DEF local
  <2>1. o \div local \in 0 .. NumDomains - 1
    BY <1>2, <1>3, QuotientBound
  <2> QED
    BY <1>2, <1>3, <2>1, Division DEF Domain
<1>5. id \in Nat
  BY <1>1, <1>4, PlacesOfBlocks DEF KeptAt
<1>6. memory[r][o] = Content(grid, id) \/ memory[r][o] = NotLoaded(grid)
  <2>1. MemoryOf(grid)[r][o] = Content(grid, id)
    BY DEF MemoryOf, Count
  <2> QED
    BY <2>1 DEF IsRight, BlocksLoaded
<1> HIDE DEF id
<1>9. NotLoaded(grid) \in Values
  BY DEF NotLoaded, Values
<1>7. CASE id < grid.count
  <2>1. id \in 0 .. Count - 1
    BY <1>1, <1>5, <1>7 DEF Count
  <2> QED
    BY <1>6, <1>7, <1>9, <2>1, BlockFacts DEF Content
<1>8. CASE ~(id < grid.count)
  BY <1>6, <1>8, <1>9 DEF Content
<1> QED
  BY <1>7, <1>8

(* What a thread in getAt looks for is in the grid.                        *)
LEMMA WantedFacts ==
  ASSUME IsRight, PositionsAsked, NEW t \in Thread, pc[t] # "idle"
  PROVE  /\ index[t] \in Index(grid) /\ index[t] \in AnyIndex
         /\ WantedBlock(t) \in 0 .. Count - 1 /\ WantedBlock(t) # Absent
         /\ Loaded(grid, WantedBlock(t))[CalcOffsetInBlock(grid, index[t])] = index[t]
<1>1. /\ position[t] \in Position /\ Len(position[t]) = Len(grid.size)
      /\ index[t] = Pos2Index(grid, position[t])
  BY DEF PositionsAsked
<1>2. /\ index[t] \in Index(grid)
      /\ BlockByCoords(grid, index[t]) \in 0 .. grid.count - 1
      /\ Loaded(grid, BlockByCoords(grid, index[t]))[CalcOffsetInBlock(grid, index[t])] = index[t]
  BY <1>1, IndexOfPosition DEF IsRight
<1>3. grid.count \in Nat /\ Index(grid) \subseteq AnyIndex
  BY GridNumbers DEF IsRight
<1> QED
  BY <1>2, <1>3 DEF WantedBlock, Count, Absent

(* A thread knows the index of its position until it returns.              *)
LEMMA ThreadPositions ==
  ASSUME ControlOK, PositionsAsked, NEW t \in Thread, ThreadStep(t)
  PROVE  PositionsAsked'
<1> USE DEF ControlOK, Goto, setup, choice, manager, network, receiver, locals
<1>0. grid' = grid
  BY ThreadKeeps
<1>a. \A u \in Thread : index'[u] = index[u] =>
         /\ WantedBlock(u)' = WantedBlock(u)
         /\ RankOf(WantedBlock(u))' = RankOf(WantedBlock(u))
         /\ BlockDomainOf(WantedBlock(u))' = BlockDomainOf(WantedBlock(u))
  BY <1>0, AskedKept
<1> DEFINE Same(u) == position'[u] = position[u] /\ index'[u] = index[u]
<1>1. ASSUME \A u \in Thread : pc'[u] # "idle" => pc[u] # "idle" /\ Same(u),
             \A u \in Thread : pc'[u] = "own" => pc[u] = "own",
             \A u \in Thread : pc'[u] = "numa" =>
                pc[u] = "numa" \/ RankOf(WantedBlock(u)) = HomeOf[u]
      PROVE  PositionsAsked'
  BY <1>0, <1>a, <1>1 DEF PositionsAsked
<1>2. CASE ReturnOwn(t)
  BY <1>1, <1>2 DEF ReturnOwn
<1>3. CASE GetHit(t) \/ GetMiss(t)
  <2>1. PICK s \in Slot : Get(t, s) /\ pc[t] = "get"
    BY <1>3 DEF GetHit, GetMiss, SlotsOf
  <2> QED
    BY <1>1, <2>1 DEF Get
<1>4. CASE LockSlot(t)
  BY <1>1, <1>4 DEF LockSlot
<1>5. CASE CopyNuma(t) \/ GetWindow(t) \/ Ask(t) \/ ReceiveBlock(t)
  BY <1>1, <1>5 DEF CopyNuma, GetWindow, Ask, ReceiveBlock
<1>6. CASE Return(t)
  BY <1>1, <1>6 DEF Return
<1>7. ASSUME NEW pos \in Position, Call(t, pos) PROVE PositionsAsked'
  <2>1. /\ position' = [position EXCEPT ![t] = pos]
        /\ index' = [index EXCEPT ![t] = Pos2Index(grid, pos)]
        /\ pc[t] = "idle" /\ Len(pos) = Len(grid.size)
        /\ pc' = [pc EXCEPT ![t] = IF /\ RankOf(BlockByCoords(grid, Pos2Index(grid, pos))) = HomeOf[t]
                                      /\ BlockDomainOf(BlockByCoords(grid, Pos2Index(grid, pos))) = DomainOf[t]
                                   THEN "own" ELSE "get"]
    BY <1>7 DEF Call
  <2>2. \A u \in Thread : u # t => pc'[u] = pc[u] /\ Same(u)
    BY <2>1
  <2>3. position'[t] = pos /\ index'[t] = Pos2Index(grid, pos)
    BY <2>1
  <2>4. WantedBlock(t)' = BlockByCoords(grid, Pos2Index(grid, pos))
    BY <1>0, <2>3 DEF WantedBlock
  <2>5. /\ RankOf(WantedBlock(t))' = RankOf(BlockByCoords(grid, Pos2Index(grid, pos)))
        /\ BlockDomainOf(WantedBlock(t))' = BlockDomainOf(BlockByCoords(grid, Pos2Index(grid, pos)))
    BY <1>0, <2>4 DEF RankOf, BlockDomainOf, Count
  <2>6. /\ pc'[t] \in {"own", "get"}
        /\ pc'[t] = "own" => /\ RankOf(WantedBlock(t))' = HomeOf[t]
                             /\ BlockDomainOf(WantedBlock(t))' = DomainOf[t]
    BY <2>1, <2>5
  <2>7. ASSUME NEW u \in Thread, u # t, pc'[u] # "idle"
        PROVE  /\ position'[u] \in Position /\ Len(position'[u]) = Len(grid'.size)
               /\ index'[u] = Pos2Index(grid', position'[u])
               /\ pc'[u] \in {"own", "numa"} => RankOf(WantedBlock(u))' = HomeOf[u]
               /\ pc'[u] = "own" => BlockDomainOf(WantedBlock(u))' = DomainOf[u]
    BY <1>0, <1>a, <2>2, <2>7 DEF PositionsAsked
  <2> QED
    BY <1>0, <2>1, <2>3, <2>6, <2>7 DEF PositionsAsked
<1> QED
  BY <1>2, <1>3, <1>4, <1>5, <1>6, <1>7 DEF ThreadStep, Continue

-----------------------------------------------------------------------------
(* What the invariant says of a slot.                                      *)
Listed(r, d, s) ==
    /\ \A u \in Thread : WaitsFor(u, r, d, s) => stored[r][d][s] = WantedBlock(u)
    /\ \A t \in Thread : Has(t, r, d, s) =>
          /\ \A u \in Thread : WaitsFor(u, r, d, s) => old[u] = WantedBlock(t)
          /\ (\A u \in Thread : ~WaitsFor(u, r, d, s)) => stored[r][d][s] = WantedBlock(t)

SlotRight(r, d, s) ==
    (\A t \in Thread : Has(t, r, d, s) => pc[t] = "read") =>
        /\ \A u \in Thread : WaitsFor(u, r, d, s) => Filled(r, d, s, old[u])
        /\ (\A u \in Thread : ~WaitsFor(u, r, d, s)) => Filled(r, d, s, stored[r][d][s])

(* The invariant is about one slot at a time.                              *)
LEMMA SlotsOneByOne ==
  /\ SlotsListed <=> \A r \in Rank, d \in Domain, s \in Slot : Listed(r, d, s)
  /\ SlotsLoaded <=> \A r \in Rank, d \in Domain, s \in Slot : SlotRight(r, d, s)
  /\ SlotsListed' <=> \A r \in Rank, d \in Domain, s \in Slot : Listed(r, d, s)'
  /\ SlotsLoaded' <=> \A r \in Rank, d \in Domain, s \in Slot : SlotRight(r, d, s)'
BY DEF SlotsListed, SlotsLoaded, Listed, SlotRight

(* A slot and its threads that a step leaves alone.                        *)
LEMMA QuietSlot ==
  ASSUME grid' = grid, NEW r \in Rank, NEW d \in Domain, NEW s \in Slot,
         stored'[r][d][s] = stored[r][d][s], data'[r][d][s] = data[r][d][s],
         \A u \in Thread : WaitsFor(u, r, d, s)' <=> WaitsFor(u, r, d, s),
         \A u \in Thread : Has(u, r, d, s)' <=> Has(u, r, d, s),
         \A u \in Thread : WaitsFor(u, r, d, s) \/ Has(u, r, d, s) =>
            /\ index'[u] = index[u] /\ old'[u] = old[u]
            /\ pc'[u] = "read" <=> pc[u] = "read"
  PROVE  /\ Listed(r, d, s) => Listed(r, d, s)'
         /\ SlotRight(r, d, s) => SlotRight(r, d, s)'
<1>1. \A u \in Thread : WaitsFor(u, r, d, s) \/ Has(u, r, d, s) => WantedBlock(u)' = WantedBlock(u)
  BY AskedKept
<1>2. Listed(r, d, s) => Listed(r, d, s)'
  BY <1>1 DEF Listed
<1>3. \A b : Filled(r, d, s, b)' <=> Filled(r, d, s, b)
  BY DEF Filled
<1>4. SlotRight(r, d, s) => SlotRight(r, d, s)'
  <2>1. (Filled(r, d, s, stored[r][d][s]))' <=> Filled(r, d, s, stored[r][d][s])
    BY DEF Filled
  <2>2. \A u \in Thread : WaitsFor(u, r, d, s) =>
           ((Filled(r, d, s, old[u]))' <=> Filled(r, d, s, old[u]))
    BY DEF Filled
  <2> QED
    BY <2>1, <2>2 DEF SlotRight
<1> QED
  BY <1>2, <1>4

(* Steps of a thread outside of the slots.                                 *)
LEMMA QuietThread ==
  ASSUME grid' = grid, UNCHANGED <<stored, data>>,
         \A u \in Thread : \/ /\ pc'[u] = pc[u]
                              /\ index'[u] = index[u] /\ old'[u] = old[u] /\ slot'[u] = slot[u]
                           \/ /\ pc[u] \notin SlotPC \cup {"lock"}
                              /\ pc'[u] \notin SlotPC \cup {"lock"}
                           \/ /\ pc[u] \in SlotPC \ {"read"} /\ pc'[u] \in SlotPC \ {"read"}
                              /\ index'[u] = index[u] /\ old'[u] = old[u] /\ slot'[u] = slot[u]
  PROVE  /\ SlotsListed => SlotsListed'
         /\ SlotsLoaded => SlotsLoaded'
<1>1. ASSUME NEW r \in Rank, NEW d \in Domain, NEW s \in Slot
      PROVE  /\ Listed(r, d, s) => Listed(r, d, s)'
             /\ SlotRight(r, d, s) => SlotRight(r, d, s)'
  <2>1. \A u \in Thread :
          /\ WaitsFor(u, r, d, s)' <=> WaitsFor(u, r, d, s)
          /\ Has(u, r, d, s)' <=> Has(u, r, d, s)
          /\ WaitsFor(u, r, d, s) \/ Has(u, r, d, s) =>
                /\ index'[u] = index[u] /\ old'[u] = old[u]
                /\ pc'[u] = "read" <=> pc[u] = "read"
    BY DEF WaitsFor, Has, Uses, SlotPC
  <2> QED
    BY <2>1, QuietSlot
<1> QED
  BY <1>1, SlotsOneByOne

(* Who waits for a slot, or has one, is the only one.                      *)
LEMMA Holders ==
  ASSUME MutexesHeld, NEW r \in Rank, NEW d \in Domain, NEW s \in Slot,
         NEW t \in Thread, NEW u \in Thread
  PROVE  /\ Has(t, r, d, s) /\ Has(u, r, d, s) => t = u
         /\ \A x \in Slot : WaitsFor(t, r, d, s) /\ WaitsFor(u, r, d, x) => t = u
BY DEF MutexesHeld, WaitsFor, Uses

(* The types of the caches.                                                *)
SlotTypes ==
    /\ stored \in [Rank -> [Domain -> [Slot -> 0 .. Count - 1 \cup {Absent}]]]
    /\ data \in [Rank -> [Domain -> [Slot -> Values \cup {<<>>}]]]
    /\ old \in [Thread -> 0 .. Count - 1 \cup {Absent}]

(* A thread that takes a slot has it renamed, and remembers its content.   *)
LEMMA GetSlots ==
  ASSUME ControlOK, MutexesHeld, SlotTypes, SlotsListed, SlotsLoaded,
         NEW t \in Thread, NEW s \in Slot, pc[t] = "get", Get(t, s)
  PROVE  SlotsListed' /\ SlotsLoaded'
<1> DEFINE h == HomeOf[t]  e == DomainOf[t]
<1>1. /\ h \in Rank /\ e \in Domain
  BY FullDistAssumption
<1>2. /\ cacheMutex[h][e] = NoThread
      /\ stored' = [stored EXCEPT ![h][e][s] = WantedBlock(t)]
      /\ slot' = [slot EXCEPT ![t] = s]
      /\ old' = [old EXCEPT ![t] = stored[h][e][s]]
      /\ pc' = [pc EXCEPT ![t] = "lock"]
      /\ UNCHANGED <<grid, data, index>>
  BY DEF Get, Goto, setup, choice
<1>3. /\ slot'[t] = s /\ old'[t] = stored[h][e][s] /\ pc'[t] = "lock"
      /\ \A u \in Thread : u # t => slot'[u] = slot[u] /\ old'[u] = old[u] /\ pc'[u] = pc[u]
  BY <1>2 DEF ControlOK, SlotTypes
<1>4. /\ stored'[h][e][s] = WantedBlock(t)
      /\ \A r \in Rank, d \in Domain, x \in Slot : ~(r = h /\ d = e /\ x = s) =>
            stored'[r][d][x] = stored[r][d][x]
  BY <1>1, <1>2 DEF SlotTypes
<1>5. \A u \in Thread, x \in Slot : ~WaitsFor(u, h, e, x)
  BY <1>1, <1>2, FullDistAssumption DEF MutexesHeld, WaitsFor, Uses
<1>6. \A u \in Thread, r \in Rank, d \in Domain, x \in Slot :
         /\ Has(u, r, d, x)' <=> Has(u, r, d, x)
         /\ WaitsFor(u, r, d, x)' <=> \/ WaitsFor(u, r, d, x)
                                      \/ u = t /\ r = h /\ d = e /\ x = s
         /\ Has(t, r, d, x) => FALSE
  BY <1>3 DEF Has, WaitsFor, Uses, SlotPC
<1>7. ASSUME NEW r \in Rank, NEW d \in Domain, NEW x \in Slot, ~(r = h /\ d = e /\ x = s)
      PROVE  Listed(r, d, x)' /\ SlotRight(r, d, x)'
  <2>1. Listed(r, d, x) /\ SlotRight(r, d, x)
    BY SlotsOneByOne
  <2>2. \A u \in Thread : WaitsFor(u, r, d, x) \/ Has(u, r, d, x) => u # t
    BY <1>6 DEF WaitsFor
  <2> HIDE DEF h, e
  <2> QED
    BY <1>2, <1>3, <1>4, <1>6, <1>7, <2>1, <2>2, QuietSlot
<1>8. Listed(h, e, s)'
  <2>1. \A u \in Thread : WantedBlock(u)' = WantedBlock(u)
    BY <1>2, AskedKept
  <2>2. ASSUME NEW u \in Thread, Has(u, h, e, s) PROVE stored[h][e][s] = WantedBlock(u)
    BY <1>1, <1>5, <2>2, SlotsOneByOne DEF Listed
  <2>3. \A u \in Thread : WaitsFor(u, h, e, s)' <=> u = t
    BY <1>1, <1>5, <1>6
  <2>4. \A u \in Thread : Has(u, h, e, s)' => Has(u, h, e, s)
    BY <1>1, <1>6
  <2> QED
    BY <1>3, <1>4, <2>1, <2>2, <2>3, <2>4 DEF Listed
<1>9. SlotRight(h, e, s)'
  <2> SUFFICES ASSUME \A u \in Thread : Has(u, h, e, s)' => pc'[u] = "read"
               PROVE  Filled(h, e, s, stored[h][e][s])
    <3>1. \A u \in Thread : WaitsFor(u, h, e, s)' <=> u = t
      BY <1>1, <1>5, <1>6
    <3>2. Filled(h, e, s, stored[h][e][s]) => (Filled(h, e, s, old[t]))'
      BY <1>2, <1>3 DEF Filled
    <3> QED
      BY <3>1, <3>2 DEF SlotRight
  <2>1. \A u \in Thread : Has(u, h, e, s) => pc[u] = "read"
    BY <1>1, <1>3, <1>6
  <2> QED
    BY <1>1, <1>5, <2>1, SlotsOneByOne DEF SlotRight
<1> QED
  <2>1. \A r \in Rank, d \in Domain, x \in Slot : Listed(r, d, x)' /\ SlotRight(r, d, x)'
    BY <1>7, <1>8, <1>9
  <2> QED
    BY <2>1, SlotsOneByOne

(* Then it is the only one that has the slot; a hit finds its block there. *)
LEMMA LockSlots ==
  ASSUME ControlOK, MutexesHeld, SlotTypes, SlotsListed, SlotsLoaded,
         NEW t \in Thread, LockSlot(t)
  PROVE  SlotsListed' /\ SlotsLoaded'
<1> DEFINE h == HomeOf[t]  e == DomainOf[t]  s == slot[t]
<1>1. /\ h \in Rank /\ e \in Domain /\ s \in Slot
  BY FullDistAssumption DEF ControlOK
<1>2. /\ pc[t] = "lock" /\ blockMutex[h][e][s] = NoThread
      /\ UNCHANGED <<grid, stored, data, index, slot, old>>
  BY DEF LockSlot, setup, choice, locals
<1>3. /\ pc'[t] \in SlotPC
      /\ pc'[t] = "read" => old[t] = WantedBlock(t)
      /\ \A u \in Thread : u # t => pc'[u] = pc[u]
  BY DEF LockSlot, Goto, ControlOK, SlotPC
<1>4. \A u \in Thread : ~Has(u, h, e, s)
  BY <1>1, <1>2, FullDistAssumption DEF MutexesHeld
<1>5. WaitsFor(t, h, e, s) /\ \A u \in Thread : WaitsFor(u, h, e, s) => u = t
  <2>1. WaitsFor(t, h, e, s)
    BY <1>2 DEF WaitsFor, Uses
  <2> QED
    BY <1>1, <2>1, Holders
<1>6. \A u \in Thread, r \in Rank, d \in Domain, x \in Slot :
         /\ Has(u, r, d, x)' <=> \/ Has(u, r, d, x)
                                 \/ u = t /\ r = h /\ d = e /\ x = s
         /\ u # t => (WaitsFor(u, r, d, x)' <=> WaitsFor(u, r, d, x))
         /\ ~WaitsFor(t, r, d, x)' /\ ~Has(t, r, d, x)
         /\ WaitsFor(t, r, d, x) => r = h /\ d = e /\ x = s
  BY <1>2, <1>3 DEF Has, WaitsFor, Uses, SlotPC
<1>7. ASSUME NEW r \in Rank, NEW d \in Domain, NEW x \in Slot, ~(r = h /\ d = e /\ x = s)
      PROVE  Listed(r, d, x)' /\ SlotRight(r, d, x)'
  <2>1. Listed(r, d, x) /\ SlotRight(r, d, x)
    BY SlotsOneByOne
  <2>2. \A u \in Thread : /\ WaitsFor(u, r, d, x)' <=> WaitsFor(u, r, d, x)
                          /\ Has(u, r, d, x)' <=> Has(u, r, d, x)
                          /\ WaitsFor(u, r, d, x) \/ Has(u, r, d, x) => u # t
    BY <1>6, <1>7
  <2> HIDE DEF h, e, s
  <2> QED
    BY <1>2, <1>3, <1>7, <2>1, <2>2, QuietSlot
<1>9. stored[h][e][s] = WantedBlock(t) /\ WantedBlock(t)' = WantedBlock(t)
  BY <1>1, <1>2, <1>5, SlotsOneByOne, AskedKept DEF Listed
<1>10. PICK r \in Rank, d \in Domain, x \in Slot : r = h /\ d = e /\ x = s
  BY <1>1
<1>8. /\ \A u \in Thread : ~WaitsFor(u, r, d, x)'
      /\ \A u \in Thread : Has(u, r, d, x)' <=> u = t
  BY <1>4, <1>5, <1>6, <1>10
<1> HIDE DEF h, e, s
<1>11. Listed(r, d, x)'
  BY <1>2, <1>8, <1>9, <1>10 DEF Listed
<1>12. SlotRight(r, d, x)'
  <2>1. pc'[t] = "read" => Filled(r, d, x, stored[r][d][x])
    BY <1>3, <1>4, <1>5, <1>9, <1>10, SlotsOneByOne DEF SlotRight
  <2>2. Filled(r, d, x, stored[r][d][x]) => (Filled(r, d, x, stored[r][d][x]))'
    BY <1>2 DEF Filled
  <2> QED
    BY <1>8, <1>10, <2>1, <2>2 DEF SlotRight
<1> QED
  <2>1. \A a \in Rank, b \in Domain, y \in Slot : Listed(a, b, y)' /\ SlotRight(a, b, y)'
    BY <1>7, <1>10, <1>11, <1>12
  <2> QED
    BY <2>1, SlotsOneByOne

-----------------------------------------------------------------------------
(* A thread fills its slot with the block it wants, whether it comes from  *)
(* the memory of its rank, a window or a message.                          *)
FillStep(t) == CopyNuma(t) \/ GetWindow(t) \/ ReceiveBlock(t)

(* It does so with what is at the place of the block.                      *)
LEMMA FilledWith ==
  ASSUME OpenBarrier, Protocol, IsRight, PositionsAsked, NEW t \in Thread, FillStep(t)
  PROVE  /\ pc[t] \in SlotPC \ {"read"} /\ pc' = [pc EXCEPT ![t] = "read"]
         /\ data' = [data EXCEPT ![HomeOf[t]][DomainOf[t]][slot[t]] = Loaded(grid, WantedBlock(t))]
         /\ Loaded(grid, WantedBlock(t)) \in Values
         /\ UNCHANGED <<grid, memory, stored, old, index, slot>>
<1>1. /\ pc[t] \in SlotPC \ {"read"} /\ pc' = [pc EXCEPT ![t] = "read"]
      /\ UNCHANGED <<grid, memory, stored, old, index, slot>>
  BY DEF FillStep, CopyNuma, GetWindow, ReceiveBlock, Goto, SlotPC, setup, choice, manager, locals
<1>2. /\ WantedBlock(t) \in 0 .. Count - 1
      /\ \A r \in Rank : loaded[r] = Domain
  BY <1>1, WantedFacts, AllLoaded DEF SlotPC
<1> DEFINE b == WantedBlock(t)
<1>3. /\ RankOf(b) \in Rank
      /\ LocalCount(Count) * BlockDomainOf(b) + BlockOffset(Count, grid.roundRobin, b) = PlaceOf(b)
      /\ memory[RankOf(b)][PlaceOf(b)] = Loaded(grid, b)
      /\ Loaded(grid, b) \in Values
  BY <1>2, BlockFacts
<1>4. CASE CopyNuma(t)
  <2>1. RankOf(b) = HomeOf[t]
    BY <1>4 DEF CopyNuma, PositionsAsked
  <2> QED
    BY <1>1, <1>3, <1>4, <2>1 DEF CopyNuma, Fill
<1>5. CASE GetWindow(t)
  BY <1>1, <1>3, <1>5 DEF GetWindow, Fill
<1>6. CASE ReceiveBlock(t)
  <2> DEFINE q == RankOf(b)  r == HomeOf[t]
  <2>1. r \in Rank /\ pc[t] = "reply" /\ replies[q][r] # <<>>
    BY <1>6, FullDistAssumption DEF ReceiveBlock
  <2>2. PICK u \in Thread : Answered(q, r, u)
    BY <1>3, <2>1 DEF Protocol, RepliesAsked
  <2>3. u = t
    BY <2>1, <2>2 DEF Protocol, MutexesHeld, Answered, Asks
  <2>4. replies[q][r] = <<Loaded(grid, b)>>
    BY <1>3, <2>2, <2>3 DEF Answered, Asks
  <2>5. Head(replies[q][r]) = Loaded(grid, b)
    BY <2>4, AppendToNone
  <2> QED
    BY <1>1, <1>3, <1>6, <2>5 DEF ReceiveBlock, Fill
<1> QED
  BY <1>4, <1>5, <1>6 DEF FillStep

(* Filling makes a slot what the directory says, or said before the next   *)
(* thread came.                                                            *)
LEMMA FillSlots ==
  ASSUME OpenBarrier, Protocol, IsRight, PositionsAsked, SlotTypes, SlotsListed, SlotsLoaded,
         NEW t \in Thread, FillStep(t)
  PROVE  SlotsListed' /\ SlotsLoaded'
<1>1. PICK h \in Rank, e \in Domain, s \in Slot : h = HomeOf[t] /\ e = DomainOf[t] /\ s = slot[t]
  BY FullDistAssumption DEF Protocol, ControlOK
<1>2. /\ pc[t] \in SlotPC \ {"read"} /\ pc' = [pc EXCEPT ![t] = "read"]
      /\ data' = [data EXCEPT ![h][e][s] = Loaded(grid, WantedBlock(t))]
      /\ UNCHANGED <<grid, stored, old, index, slot>>
  BY <1>1, FilledWith
<1>3. /\ pc'[t] = "read" /\ \A u \in Thread : u # t => pc'[u] = pc[u]
      /\ data'[h][e][s] = Loaded(grid, WantedBlock(t))
      /\ \A r \in Rank, d \in Domain, x \in Slot : ~(r = h /\ d = e /\ x = s) =>
            data'[r][d][x] = data[r][d][x]
  BY <1>2 DEF SlotTypes, Protocol, ControlOK
<1>4. \A u \in Thread, r \in Rank, d \in Domain, x \in Slot :
         /\ Has(u, r, d, x)' <=> Has(u, r, d, x)
         /\ WaitsFor(u, r, d, x)' <=> WaitsFor(u, r, d, x)
         /\ ~WaitsFor(t, r, d, x)
         /\ Has(t, r, d, x) <=> r = h /\ d = e /\ x = s
  BY <1>1, <1>2, <1>3 DEF Has, WaitsFor, Uses, SlotPC
<1>5. ASSUME NEW r \in Rank, NEW d \in Domain, NEW x \in Slot, ~(r = h /\ d = e /\ x = s)
      PROVE  Listed(r, d, x)' /\ SlotRight(r, d, x)'
  <2>1. Listed(r, d, x) /\ SlotRight(r, d, x)
    BY SlotsOneByOne
  <2>2. \A u \in Thread : WaitsFor(u, r, d, x) \/ Has(u, r, d, x) => u # t
    BY <1>4, <1>5
  <2> QED
    BY <1>2, <1>3, <1>4, <1>5, <2>1, <2>2, QuietSlot
<1>6. \A u \in Thread : WantedBlock(u)' = WantedBlock(u)
  BY <1>2, AskedKept
<1>7. Listed(h, e, s)
  BY SlotsOneByOne
<1>8. Listed(h, e, s)'
  BY <1>2, <1>4, <1>6, <1>7 DEF Listed
<1>9. SlotRight(h, e, s)'
  <2>1. \A b : b = WantedBlock(t) => Filled(h, e, s, b)'
    BY <1>2, <1>3 DEF Filled
  <2>2. \A u \in Thread : WaitsFor(u, h, e, s) => (Filled(h, e, s, old[u]))'
    <3> SUFFICES ASSUME NEW u \in Thread, WaitsFor(u, h, e, s) PROVE (Filled(h, e, s, old[u]))'
      OBVIOUS
    <3>1. old[u] = WantedBlock(t) /\ old'[u] = old[u]
      BY <1>2, <1>4, <1>7 DEF Listed
    <3> QED
      BY <1>2, <1>3, <3>1 DEF Filled
  <2>3. (\A u \in Thread : ~WaitsFor(u, h, e, s)) => (Filled(h, e, s, stored[h][e][s]))'
    <3> SUFFICES ASSUME \A u \in Thread : ~WaitsFor(u, h, e, s)
                 PROVE  (Filled(h, e, s, stored[h][e][s]))'
      OBVIOUS
    <3>1. stored[h][e][s] = WantedBlock(t) /\ stored' = stored
      BY <1>2, <1>4, <1>7 DEF Listed
    <3> QED
      BY <1>2, <1>3, <3>1 DEF Filled
  <2> QED
    BY <1>4, <2>2, <2>3 DEF SlotRight
<1> QED
  <2>1. \A a \in Rank, b \in Domain, y \in Slot : Listed(a, b, y)' /\ SlotRight(a, b, y)'
    BY <1>5, <1>8, <1>9
  <2> QED
    BY <2>1, SlotsOneByOne

(* A thread leaves its slot as the directory says.                         *)
LEMMA ReturnSlots ==
  ASSUME Protocol, SlotTypes, SlotsListed, SlotsLoaded, NEW t \in Thread, Return(t)
  PROVE  SlotsListed' /\ SlotsLoaded'
<1>1. PICK h \in Rank, e \in Domain, s \in Slot : h = HomeOf[t] /\ e = DomainOf[t] /\ s = slot[t]
  BY FullDistAssumption DEF Protocol, ControlOK
<1>2. /\ pc[t] = "read" /\ pc'[t] = "idle"
      /\ \A u \in Thread : u # t => /\ pc'[u] = pc[u] /\ index'[u] = index[u]
                                    /\ slot'[u] = slot[u] /\ old'[u] = old[u]
      /\ UNCHANGED <<grid, stored, data>>
  BY DEF Return, Goto, setup, choice, Protocol, ControlOK, SlotTypes
<1>3. \A u \in Thread, r \in Rank, d \in Domain, x \in Slot :
         /\ Has(u, r, d, x)' <=> Has(u, r, d, x) /\ u # t
         /\ WaitsFor(u, r, d, x)' <=> WaitsFor(u, r, d, x)
         /\ ~WaitsFor(t, r, d, x)
         /\ Has(t, r, d, x) <=> r = h /\ d = e /\ x = s
  BY <1>1, <1>2 DEF Has, WaitsFor, Uses, SlotPC
<1>4. ASSUME NEW r \in Rank, NEW d \in Domain, NEW x \in Slot, ~(r = h /\ d = e /\ x = s)
      PROVE  Listed(r, d, x)' /\ SlotRight(r, d, x)'
  <2>1. Listed(r, d, x) /\ SlotRight(r, d, x)
    BY SlotsOneByOne
  <2>2. \A u \in Thread : WaitsFor(u, r, d, x) \/ Has(u, r, d, x) => u # t
    BY <1>3, <1>4
  <2> QED
    BY <1>2, <1>3, <2>1, <2>2, QuietSlot
<1>5. \A u \in Thread : u # t => WantedBlock(u)' = WantedBlock(u)
  BY <1>2, AskedKept
<1>6. \A u \in Thread : Has(u, h, e, s) => u = t
  BY <1>3, Holders DEF Protocol
<1>7. Listed(h, e, s)'
  BY <1>2, <1>3, <1>5, <1>6, SlotsOneByOne DEF Listed
<1>8. SlotRight(h, e, s)'
  <2>1. /\ \A u \in Thread : WaitsFor(u, h, e, s) => Filled(h, e, s, old[u])
        /\ (\A u \in Thread : ~WaitsFor(u, h, e, s)) => Filled(h, e, s, stored[h][e][s])
    BY <1>2, <1>6, SlotsOneByOne DEF SlotRight
  <2>2. \A u \in Thread : u # t => (Filled(h, e, s, old[u]) => (Filled(h, e, s, old[u]))')
    BY <1>2 DEF Filled
  <2>3. Filled(h, e, s, stored[h][e][s]) => (Filled(h, e, s, stored[h][e][s]))'
    BY <1>2 DEF Filled
  <2> QED
    BY <1>3, <2>1, <2>2, <2>3 DEF SlotRight
<1> QED
  <2>1. \A a \in Rank, b \in Domain, y \in Slot : Listed(a, b, y)' /\ SlotRight(a, b, y)'
    BY <1>4, <1>7, <1>8
  <2> QED
    BY <2>1, SlotsOneByOne

(* The steps of threads and the slots.                                     *)
LEMMA ThreadSlots ==
  ASSUME OpenBarrier, Protocol, IsRight, PositionsAsked, SlotTypes, SlotsListed, SlotsLoaded,
         NEW t \in Thread, ThreadStep(t)
  PROVE  SlotsListed' /\ SlotsLoaded'
<1> DEFINE Quiet(u) == \/ /\ pc'[u] = pc[u]
                          /\ index'[u] = index[u] /\ old'[u] = old[u] /\ slot'[u] = slot[u]
                       \/ /\ pc[u] \notin SlotPC \cup {"lock"}
                          /\ pc'[u] \notin SlotPC \cup {"lock"}
                       \/ /\ pc[u] \in SlotPC \ {"read"} /\ pc'[u] \in SlotPC \ {"read"}
                          /\ index'[u] = index[u] /\ old'[u] = old[u] /\ slot'[u] = slot[u]
<1>1. CASE ReturnOwn(t) \/ Ask(t) \/ \E pos \in Position : Call(t, pos)
  <2>1. UNCHANGED <<grid, stored, data, old, slot>>
    BY <1>1 DEF ReturnOwn, Ask, Call, setup, choice, manager, locals
  <2>2. \A u \in Thread : Quiet(u)
    <3>1. CASE ReturnOwn(t)
      BY <2>1, <3>1 DEF ReturnOwn, Goto, Protocol, ControlOK, SlotPC
    <3>2. CASE Ask(t)
      BY <2>1, <3>2 DEF Ask, Goto, Protocol, ControlOK, SlotPC, locals
    <3>3. ASSUME NEW pos \in Position, Call(t, pos) PROVE \A u \in Thread : Quiet(u)
      BY <2>1, <3>3 DEF Call, Goto, Protocol, ControlOK, SlotPC
    <3> QED
      BY <1>1, <3>1, <3>2, <3>3
  <2> QED
    BY <2>1, <2>2, QuietThread
<1>2. CASE GetHit(t) \/ GetMiss(t)
  <2>1. PICK s \in Slot : Get(t, s) /\ pc[t] = "get"
    BY <1>2 DEF GetHit, GetMiss, SlotsOf
  <2> QED
    BY <2>1, GetSlots DEF Protocol
<1>3. CASE LockSlot(t)
  BY <1>3, LockSlots DEF Protocol
<1>4. CASE FillStep(t)
  BY <1>4, FillSlots
<1>5. CASE Return(t)
  BY <1>5, ReturnSlots
<1> QED
  BY <1>1, <1>2, <1>3, <1>4, <1>5 DEF ThreadStep, Continue, FillStep

-----------------------------------------------------------------------------
(* A message to a communication thread.                                    *)
Message == [tag : Nat, offset : Nat]

(* The types of what is under way.                                         *)
MessageTypes ==
    /\ requests \in [Rank -> [Rank -> Seq(Message)]]
    /\ replies \in [Rank -> [Rank -> Seq(Values)]]
    /\ index \in [Thread -> AnyIndex \cup {<<>>}]

(* The inductive invariant, with the types in the form the steps keep.     *)
DataKept ==
    /\ Protocol /\ IsRight /\ PositionsAsked
    /\ SlotTypes /\ MessageTypes /\ SlotsListed /\ SlotsLoaded

(* The types depend on the grid only.                                      *)
LEMMA TypesKept ==
  ASSUME grid' = grid
  PROVE  Values' = Values /\ Count' = Count
BY DEF Values, Count, AnyIndex

(* The steps of threads keep the types of blocks and messages.             *)
LEMMA ThreadDataTypes ==
  ASSUME OpenBarrier, DataKept, NEW t \in Thread, ThreadStep(t)
  PROVE  SlotTypes' /\ MessageTypes'
<1> USE DEF DataKept
<1>1. grid' = grid
  BY ThreadKeeps DEF setup, choice
<1>2. Values' = Values /\ Count' = Count
  BY <1>1, TypesKept
<1>3. SlotTypes'
  <2>1. CASE UNCHANGED <<stored, data, old>>
    BY <1>2, <2>1 DEF SlotTypes
  <2>2. ASSUME NEW s \in Slot, Get(t, s), pc[t] = "get" PROVE SlotTypes'
    <3>1. WantedBlock(t) \in 0 .. Count - 1
      BY <2>2, WantedFacts
    <3>2. HomeOf[t] \in Rank /\ DomainOf[t] \in Domain
      BY FullDistAssumption
    <3> QED
      BY <1>2, <2>2, <3>1, <3>2 DEF Get, SlotTypes
  <2>3. CASE FillStep(t)
    <3> DEFINE block == Loaded(grid, WantedBlock(t))
    <3>1. /\ block \in Values /\ UNCHANGED <<stored, old>>
          /\ data' = [data EXCEPT ![HomeOf[t]][DomainOf[t]][slot[t]] = block]
      BY <2>3, FilledWith
    <3> HIDE DEF block
    <3>2. data' \in [Rank -> [Domain -> [Slot -> Values \cup {<<>>}]]]
      BY <3>1, ZenonT(60) DEF SlotTypes
    <3> QED
      BY <1>2, <3>1, <3>2 DEF SlotTypes
  <2>4. CASE Return(t)
    BY <1>2, <2>4 DEF Return, SlotTypes
  <2>5. CASE ReturnOwn(t) \/ LockSlot(t) \/ Ask(t) \/ \E pos \in Position : Call(t, pos)
    BY <2>1, <2>5 DEF ReturnOwn, LockSlot, Ask, Call, manager, locals
  <2> QED
    BY <2>2, <2>3, <2>4, <2>5 DEF ThreadStep, Continue, FillStep, GetHit, GetMiss, SlotsOf
<1>4. MessageTypes'
  <2>1. CASE UNCHANGED <<requests, replies, index>>
    BY <1>2, <2>1 DEF MessageTypes
  <2>2. CASE Ask(t)
    <3> DEFINE b == WantedBlock(t)
    <3>1. b \in 0 .. Count - 1
      BY <2>2, WantedFacts DEF Ask
    <3>2. RankOf(b) \in Rank /\ PlaceOf(b) \in Nat
      BY <3>1, BlockFacts
    <3>3. HomeOf[t] \in Rank /\ tag[HomeOf[t]] \in Nat
      <4>1. HomeOf[t] \in Rank
        BY FullDistAssumption
      <4>2. stage[HomeOf[t]] = "open"
        BY <2>2 DEF Ask, Protocol, StagesFollow, MayRead
      <4> QED
        BY <4>1, <4>2 DEF Protocol, TagsAgree, ControlOK
    <3>4. [tag |-> tag[HomeOf[t]], offset |-> PlaceOf(b)] \in Message
      BY <3>2, <3>3 DEF Message
    <3>5. /\ requests' = [requests EXCEPT ![HomeOf[t]][RankOf(b)] =
                            Append(@, [tag |-> tag[HomeOf[t]], offset |-> PlaceOf(b)])]
          /\ UNCHANGED <<replies, index>>
      BY <2>2 DEF Ask, Send, locals
    <3> HIDE DEF b
    <3> QED
      BY <1>2, <3>2, <3>3, <3>4, <3>5 DEF MessageTypes
  <2>3. CASE ReceiveBlock(t)
    <3>1. PICK q, r : /\ replies[q][r] # <<>>
                      /\ replies' = [replies EXCEPT ![q][r] = Tail(@)]
                      /\ UNCHANGED <<requests, index>>
                      /\ r = HomeOf[t] /\ q = RankOf(WantedBlock(t))
      BY <2>3 DEF ReceiveBlock, locals
    <3>2. q \in Rank /\ r \in Rank
      <4>1. WantedBlock(t) \in 0 .. Count - 1
        BY <2>3, WantedFacts DEF ReceiveBlock
      <4> QED
        BY <3>1, <4>1, BlockFacts, FullDistAssumption
    <3>3. Tail(replies[q][r]) \in Seq(Values)
      BY <3>1, <3>2 DEF MessageTypes
    <3> QED
      BY <1>2, <3>1, <3>2, <3>3 DEF MessageTypes
  <2>4. CASE ReturnOwn(t) \/ Return(t)
    BY <1>2, <2>4 DEF ReturnOwn, Return, MessageTypes, network
  <2>5. ASSUME NEW pos \in Position, Call(t, pos) PROVE MessageTypes'
    <3>1. Pos2Index(grid, pos) \in AnyIndex
      <4>1. Pos2Index(grid, pos) \in Index(grid)
        BY <2>5, IndexOfPosition DEF IsRight, Call
      <4> QED
        BY <4>1, GridNumbers DEF IsRight
    <3> QED
      BY <1>2, <2>5, <3>1 DEF Call, MessageTypes, network
  <2>6. ASSUME NEW s, Get(t, s) PROVE MessageTypes'
    BY <2>1, <2>6 DEF Get, network
  <2>7. CASE LockSlot(t) \/ CopyNuma(t) \/ GetWindow(t)
    BY <2>1, <2>7 DEF LockSlot, CopyNuma, GetWindow, network, locals
  <2> QED
    BY <2>2, <2>3, <2>4, <2>5, <2>6, <2>7 DEF ThreadStep, Continue, GetHit, GetMiss
<1> QED
  BY <1>3, <1>4

(* So do those of ranks.                                                   *)
LEMMA RankMessageTypes ==
  ASSUME DataKept, NEW r \in Rank, RankStep(r)
  PROVE  MessageTypes'
<1> USE DEF DataKept
<1>1. grid' = grid /\ index' = index
  BY RankKeeps DEF setup, choice, locals
<1>2. Values' = Values
  BY <1>1, TypesKept
<1>3. CASE NotInitialized(r) \/ JoinReduction(r) \/ Reduce(r) \/ Register(r) \/ EndOpen(r) \/ Close(r)
  BY <1>1, <1>2, <1>3 DEF NotInitialized, JoinReduction, Reduce, Register, EndOpen, Close, MessageTypes, network
<1>4. CASE UnregisterReceiver(r) \/ Finalize(r)
  <2>1. UnregisterOf(r) \in Message \/ Finalize(r)
    <3>1. UnregisterReceiver(r) => tag[r] \in Nat
      BY DEF UnregisterReceiver, Protocol, TagsAgree, ControlOK
    <3> QED
      BY <1>4, <3>1 DEF UnregisterOf, UnregTag, Message
  <2>2. ExitOf(r) \in Message
    BY DEF ExitOf, ExitTag, Message
  <2>3. PICK m \in Message : /\ requests' = [requests EXCEPT ![r][r] = Append(@, m)]
                             /\ replies' = replies
    BY <1>4, <2>1, <2>2 DEF UnregisterReceiver, Finalize, Send, UnregisterOf, ExitOf
  <2> QED
    BY <1>1, <1>2, <2>3 DEF MessageTypes
<1>5. ASSUME NEW q \in Rank, NEW tags, Receive(r, q, tags)
      PROVE  requests' \in [Rank -> [Rank -> Seq(Message)]]
  <2>1. Tail(requests[q][r]) \in Seq(Message)
    BY <1>5 DEF Receive, MessageTypes
  <2> QED
    BY <1>5, <2>1 DEF Receive, MessageTypes
<1>6. CASE ServeUnregister(r) \/ ServeExit(r)
  BY <1>1, <1>2, <1>5, <1>6 DEF ServeUnregister, ServeExit, MessageTypes
<1>7. ASSUME NEW q \in Rank, ServeBlock(r, q) PROVE MessageTypes'
  <2>1. requests' \in [Rank -> [Rank -> Seq(Message)]]
    BY <1>5, <1>7 DEF ServeBlock
  <2>2. PICK t \in Thread : Asked(q, r, t)
    BY <1>7, MessageKinds DEF Protocol, ServeBlock, Receive
  <2>3. Head(requests[q][r]).offset = PlaceOf(WantedBlock(t)) /\ RankOf(WantedBlock(t)) = r
    BY <2>2, AppendToNone DEF Asked, Asks, QuestionOf
  <2>4. WantedBlock(t) \in 0 .. Count - 1
    BY <2>2, WantedFacts DEF Asked, Asks
  <2>5. memory[r][Head(requests[q][r]).offset] \in Values
    BY <2>3, <2>4, BlockFacts, MemoryTypes
  <2>6. replies' = replies \/ replies' = [replies EXCEPT ![r][q] =
                                 Append(@, memory[r][Head(requests[q][r]).offset])]
    BY <1>7 DEF ServeBlock
  <2>7. replies' \in [Rank -> [Rank -> Seq(Values)]]
    <3> PICK block \in Values : block = memory[r][Head(requests[q][r]).offset]
      BY <2>5
    <3> PICK more : more = Append(replies[r][q], block)
      OBVIOUS
    <3>1. replies \in [Rank -> [Rank -> Seq(Values)]] /\ more \in Seq(Values)
      BY DEF MessageTypes
    <3>2. replies' = replies \/ replies' = [replies EXCEPT ![r][q] = more]
      BY <2>6
    <3>3. CASE replies' = replies
      BY <3>1, <3>3
    <3>4. CASE replies' = [replies EXCEPT ![r][q] = more]
      <4>1. [replies[r] EXCEPT ![q] = more] \in [Rank -> Seq(Values)]
        BY <3>1
      <4> QED
        BY <3>1, <3>4, <4>1
    <3> QED
      BY <3>2, <3>3, <3>4
  <2> QED
    BY <1>1, <1>2, <2>1, <2>7 DEF MessageTypes
<1> QED
  BY <1>3, <1>4, <1>6, <1>7 DEF RankStep, Proceed, Communicate

(* A domain loads its own blocks, and all of them.                         *)
LEMMA LoadIsRight ==
  ASSUME ControlOK, IsRight, NEW r \in Rank, NEW d \in Domain, LoadBlocks(r, d)
  PROVE  IsRight'
<1>1. grid' = grid
  BY DEF LoadBlocks, choice
<1>2. /\ memory' = [memory EXCEPT ![r] = [o \in 0 .. NodeCount(Count) - 1 |->
                    IF o \div LocalCount(Count) = d THEN MemoryOf(grid)[r][o] ELSE memory[r][o]]]
      /\ loaded' = [loaded EXCEPT ![r] = @ \cup {d}]
      /\ DOMAIN memory = Rank /\ DOMAIN loaded = Rank
  BY DEF LoadBlocks, ControlOK
<1>3. ASSUME NEW q \in Rank, q # r
      PROVE  memory'[q] = memory[q] /\ loaded'[q] = loaded[q]
  BY <1>2, <1>3
<1>4. ASSUME NEW o \in 0 .. NodeCount(Count) - 1
      PROVE  memory'[r][o] = IF o \div LocalCount(Count) \in loaded'[r]
                             THEN MemoryOf(grid)[r][o] ELSE NotLoaded(grid)
  <2>1. /\ memory'[r][o] = IF o \div LocalCount(Count) = d THEN MemoryOf(grid)[r][o] ELSE memory[r][o]
        /\ loaded'[r] = loaded[r] \cup {d}
    BY <1>2
  <2>2. memory[r][o] = IF o \div LocalCount(Count) \in loaded[r]
                       THEN MemoryOf(grid)[r][o] ELSE NotLoaded(grid)
    BY DEF IsRight, BlocksLoaded
  <2> QED
    BY <2>1, <2>2, Zenon
<1>5. BlocksLoaded'
  <2>1. \A q \in Rank : q # r => \A o \in 0 .. NodeCount(Count) - 1 :
           memory'[q][o] = IF o \div LocalCount(Count) \in loaded'[q]
                           THEN MemoryOf(grid)[q][o] ELSE NotLoaded(grid)
    BY <1>3 DEF IsRight, BlocksLoaded
  <2>2. Count' = Count
    BY <1>1 DEF Count
  <2> QED
    BY <1>1, <1>4, <2>1, <2>2, Zenon DEF BlocksLoaded
<1> QED
  BY <1>1, <1>5 DEF IsRight

(* Every step keeps all of it.                                             *)
LEMMA DataStep ==
  ASSUME OpenBarrier, DataKept, [Next]_vars
  PROVE  DataKept'
<1> USE DEF DataKept
<1>1. Protocol'
  BY ProtocolKept
<1>2. ASSUME UNCHANGED <<grid, memory, loaded>> PROVE IsRight'
  BY <1>2 DEF IsRight, BlocksLoaded, Count
<1>3. ASSUME UNCHANGED <<grid, pc, position, index, stored, data, old, slot>>
      PROVE  PositionsAsked' /\ SlotTypes' /\ SlotsListed' /\ SlotsLoaded'
  <2>1. PositionsAsked'
    <3>1. \A t \in Thread :
             /\ RankOf(WantedBlock(t))' = RankOf(WantedBlock(t))
             /\ BlockDomainOf(WantedBlock(t))' = BlockDomainOf(WantedBlock(t))
      BY <1>3, AskedKept
    <3> QED
      BY <1>3, <3>1 DEF PositionsAsked
  <2>2. SlotTypes'
    BY <1>3, TypesKept DEF SlotTypes
  <2>3. SlotsListed' /\ SlotsLoaded'
    BY <1>3, QuietThread
  <2> QED
    BY <2>1, <2>2, <2>3
<1>4. CASE UNCHANGED vars
  <2>1. MessageTypes'
    BY <1>4, TypesKept DEF vars, MessageTypes
  <2> QED
    BY <1>1, <1>2, <1>3, <1>4, <2>1 DEF vars
<1>5. ASSUME NEW t \in Thread, ThreadStep(t) PROVE DataKept'
  <2>1. IsRight'
    BY <1>2, <1>5, ThreadKeeps DEF setup, choice
  <2> QED
    BY <1>1, <1>5, <2>1, ThreadPositions, ThreadDataTypes, ThreadSlots DEF Protocol
<1>6. ASSUME NEW r \in Rank, RankStep(r) PROVE DataKept'
  <2>1. UNCHANGED <<grid, memory, loaded, pc, position, index, stored, data, old, slot>>
    BY <1>6, RankKeeps DEF setup, choice, manager, locals
  <2> QED
    BY <1>1, <1>2, <1>3, <1>6, <2>1, RankMessageTypes
<1>7. ASSUME NEW r \in Rank, NEW d \in Domain, LoadBlocks(r, d) PROVE DataKept'
  <2>1. UNCHANGED <<grid, pc, position, index, stored, data, old, slot, requests, replies>>
    BY <1>7 DEF LoadBlocks, choice, manager, network, locals
  <2>2. MessageTypes'
    BY <2>1, TypesKept DEF MessageTypes
  <2> QED
    BY <1>1, <1>3, <1>7, <2>1, <2>2, LoadIsRight DEF Protocol
<1> QED
  BY <1>4, <1>5, <1>6, <1>7, NextSteps

(* It holds at first.                                                      *)
LEMMA DataInit ==
  ASSUME Init
  PROVE  DataKept
<1>1. Protocol
  BY ProtocolInit
<1>2. IsRight
  <2>1. IsOpened(grid) /\ BlocksRight(grid)
    BY FilesRight DEF Init, IsOpened
  <2>2. BlocksLoaded
    BY DEF Init, BlocksLoaded, Count
  <2> QED
    BY <2>1, <2>2 DEF IsRight
<1>3. PositionsAsked
  BY DEF Init, PositionsAsked
<1>4. \A t \in Thread : pc[t] = "idle"
  BY DEF Init
<1>5. SlotTypes
  BY DEF Init, SlotTypes
<1>6. MessageTypes
  BY DEF Init, MessageTypes
<1>7. SlotsListed /\ SlotsLoaded
  <2>1. \A t \in Thread, r \in Rank, d \in Domain, s \in Slot : ~Has(t, r, d, s) /\ ~WaitsFor(t, r, d, s)
    BY <1>4 DEF Has, WaitsFor, SlotPC
  <2>2. \A r \in Rank, d \in Domain, s \in Slot : stored[r][d][s] = Absent
    BY DEF Init
  <2> QED
    BY <2>1, <2>2 DEF SlotsListed, SlotsLoaded, Filled
<1> QED
  BY <1>1, <1>2, <1>3, <1>5, <1>6, <1>7 DEF DataKept

(* Hence it always holds.                                                  *)
LEMMA DataHolds == ASSUME OpenBarrier PROVE Spec => []DataKept
<1>1. Init => DataKept
  BY DataInit
<1>2. DataKept /\ [Next]_vars => DataKept'
  BY DataStep
<1> QED
  BY <1>1, <1>2, PTL DEF Spec

(* The inductive invariant that the run checks, if the ranks wait for each *)
(* other after opening a grid: otherwise a slot may be filled with a block *)
(* that its domain is still loading.                                       *)
THEOREM InvHolds == ASSUME OpenBarrier PROVE Spec => []Inv
<1>1. DataKept => Inv
  <2> SUFFICES ASSUME DataKept PROVE Inv
    OBVIOUS
  <2>1. TypeOK
    BY MemoryTypes DEF DataKept, Protocol, SlotTypes, MessageTypes, Message, TypeOK
  <2> QED
    BY <2>1 DEF DataKept, IsRight, Inv
<1> QED
  BY <1>1, DataHolds, PTL

(* If the ranks wait for each other after opening a grid, what a thread    *)
(* returns from its own domain's memory or from its slot is the value next *)
(* to the position it was asked for.                                       *)
THEOREM ReadsRequestedValueHolds == ASSUME OpenBarrier PROVE Spec => []ReadsRequestedValue
<1>1. DataKept => ReadsRequestedValue
  <2> SUFFICES ASSUME DataKept, NEW t \in Thread, pc[t] \in {"own", "read"}
               PROVE  LET cell == CalcOffsetInBlock(grid, index[t]) IN
                      /\ pc[t] = "own" => Nearest(position[t], memory[HomeOf[t]][OwnPlace(t)][cell])
                      /\ pc[t] = "read" => Nearest(position[t], data[HomeOf[t]][DomainOf[t]][slot[t]][cell])
    BY DEF ReadsRequestedValue
  <2> DEFINE b == WantedBlock(t)
             cell == CalcOffsetInBlock(grid, index[t])
  <2> USE DEF DataKept
  <2>1. /\ index[t] \in Index(grid)
        /\ b \in 0 .. Count - 1 /\ b # Absent
        /\ Loaded(grid, b)[cell] = index[t]
    BY WantedFacts
  <2>2. Nearest(position[t], index[t])
    <3>1. /\ position[t] \in Position /\ Len(position[t]) = Len(grid.size)
          /\ index[t] = Pos2Index(grid, position[t])
      BY DEF PositionsAsked
    <3>2. DOMAIN index[t] = DOMAIN grid.size
      BY <3>1 DEF Pos2Index
    <3>3. IsOpened(grid)
      BY DEF IsRight
    <3>4. ASSUME NEW i \in DOMAIN grid.size, NEW k \in 0 .. grid.size[i] - 1
          PROVE  LET p == position[t][Len(position[t]) - i + 1]
                 IN  Abs(p - Coordinate(i, index[t][i])) <= Abs(p - Coordinate(i, k))
      BY <3>1, <3>3, NearestIndex
    <3> QED
      BY <2>1, <3>2, <3>4 DEF Nearest
  <2>3. CASE pc[t] = "own"
    <3>1. RankOf(b) = HomeOf[t] /\ BlockDomainOf(b) = DomainOf[t]
      BY <2>3 DEF PositionsAsked
    <3>2. memory[HomeOf[t]][OwnPlace(t)] = Loaded(grid, b)
      BY <2>1, <2>3, <3>1, BlockFacts, AllLoaded DEF OwnPlace
    <3> QED
      BY <2>1, <2>2, <2>3, <3>2
  <2>4. CASE pc[t] = "read"
    <3>1. PICK h \in Rank, e \in Domain, s \in Slot : h = HomeOf[t] /\ e = DomainOf[t] /\ s = slot[t]
      BY FullDistAssumption DEF Protocol, ControlOK
    <3>2. Has(t, h, e, s)
      BY <2>4, <3>1 DEF Has, Uses, SlotPC
    <3>3. \A u \in Thread : Has(u, h, e, s) => pc[u] = "read"
      BY <2>4, <3>2, Holders DEF Protocol
    <3>4. Listed(h, e, s) /\ SlotRight(h, e, s)
      BY SlotsOneByOne
    <3>5. Filled(h, e, s, b)
      <4>1. CASE \A u \in Thread : ~WaitsFor(u, h, e, s)
        BY <3>2, <3>3, <3>4, <4>1 DEF Listed, SlotRight
      <4>2. ASSUME NEW u \in Thread, WaitsFor(u, h, e, s) PROVE Filled(h, e, s, b)
        <5>1. old[u] = b
          BY <3>2, <3>4, <4>2 DEF Listed
        <5>2. Filled(h, e, s, old[u])
          BY <3>3, <3>4, <4>2 DEF SlotRight
        <5> QED
          BY <5>1, <5>2
      <4> QED
        BY <4>1, <4>2
    <3>6. data[h][e][s] = Loaded(grid, b)
      BY <2>1, <3>5 DEF Filled
    <3> QED
      BY <2>1, <2>2, <2>4, <3>1, <3>6
  <2> QED
    BY <2>3, <2>4
<1> QED
  BY <1>1, DataHolds, PTL
=============================================================================
