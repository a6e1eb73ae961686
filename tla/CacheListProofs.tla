--------------------------- MODULE CacheListProofs ---------------------------
(***************************************************************************)
(* Proofs about one directory used by one caller at a time, for every      *)
(* size, hand distance and set of blocks.                                  *)
(***************************************************************************)
EXTENDS CacheListSpec, FiniteSetTheorems, WellFoundedInduction, TLAPS

-----------------------------------------------------------------------------
(* Facts about the operators of LRU and CacheList.                         *)

(* Every non-empty set of naturals has a least element.                    *)
LEMMA LeastElement ==
  ASSUME NEW T \in SUBSET Nat, T # {}
  PROVE  \E x \in T : \A y \in T : x <= y
<1>1. PICK x \in T : \A y \in T : ~ (<<y, x>> \in OpToRel(<, Nat))
  BY NatLessThanWellFounded, WFMin
<1>2. \A y \in T : ~(y < x)
  BY <1>1 DEF OpToRel
<1> QED  BY <1>2

(* The ring arithmetic stays on the ring.                                  *)
LEMMA PlusInSlots ==
  ASSUME NEW i \in Slots, NEW k \in 0 .. Size
  PROVE  Plus(i, k) \in Slots
BY LRUAssumption DEF Slots, Plus

LEMMA ClearStartRange == ClearStart \in 0 .. Size - 1
BY LRUAssumption DEF ClearStart

(* With the hands at their distance, the loop of getFree() ends: the pass  *)
(* ClearStart + 1 looks at the slot that the first pass cleared.           *)
LEMMA LoopEnds ==
  ASSUME NEW clock \in Clock, HandsApart(clock)
  PROVE  /\ ClearStart + 1 \in 1 .. Size
         /\ EndsAfter(clock, ClearStart + 1)
<1>1. /\ ClearStart + 1 \in 1 .. Size
      /\ clock.nextPage \in Slots /\ clock.nextClear \in Slots
  BY LRUAssumption, ClearStartRange DEF Clock
<1>2. Plus(clock.nextClear, 0) = clock.nextClear
  BY <1>1, LRUAssumption DEF Plus, Slots
<1>3. 0 \in 0 .. ClearStart + 1 - 1
  BY <1>1, ClearStartRange, LRUAssumption
<1>4. clock.nextClear \notin Cleared(clock, ClearStart + 1)
  BY <1>1, <1>2, <1>3 DEF Cleared
<1> QED
  BY <1>1, <1>4 DEF EndsAfter, HandsApart

LEMMA PassesLeast ==
  ASSUME NEW clock \in Clock, HandsApart(clock)
  PROVE  /\ Passes(clock) \in 1 .. ClearStart + 1
         /\ Passes(clock) \in 1 .. Size
         /\ EndsAfter(clock, Passes(clock))
         /\ \A j \in 1 .. Passes(clock) - 1 : ~EndsAfter(clock, j)
<1> DEFINE T == { k \in 1 .. Size : EndsAfter(clock, k) }
<1>1. T \in SUBSET Nat /\ ClearStart + 1 \in T
  BY LoopEnds, LRUAssumption
<1>2. PICK k \in T : \A j \in T : k <= j
  BY <1>1, LeastElement
<1>3. /\ k \in 1 .. Size /\ EndsAfter(clock, k)
      /\ \A j \in 1 .. k - 1 : ~EndsAfter(clock, j)
  BY <1>2, LRUAssumption
<1>4. /\ Passes(clock) \in 1 .. Size /\ EndsAfter(clock, Passes(clock))
      /\ \A j \in 1 .. Passes(clock) - 1 : ~EndsAfter(clock, j)
  BY <1>3 DEF Passes
<1>5. ~(ClearStart + 1 < Passes(clock))
  BY <1>4, LoopEnds, ClearStartRange, LRUAssumption
<1> QED  BY <1>4, <1>5, ClearStartRange, LRUAssumption

(* What getFree() does to the clock.                                       *)
LEMMA GetFreeClock ==
  ASSUME NEW clock \in Clock, HandsApart(clock)
  PROVE  /\ GetFree(clock) \in Clock
         /\ HandsApart(GetFree(clock))
         /\ GetFree(clock).nextPage = Plus(clock.nextPage, Passes(clock))
         /\ GetFree(clock).referenced \subseteq
                clock.referenced \cup {GetFree(clock).nextPage}
<1> DEFINE k == Passes(clock)
<1>1. /\ k \in 0 .. Size
      /\ clock.nextPage \in Slots /\ clock.nextClear \in Slots
      /\ clock.referenced \subseteq Slots
  BY PassesLeast, LRUAssumption DEF Clock
<1>2. /\ Plus(clock.nextPage, k) \in Slots
      /\ Plus(clock.nextClear, k) \in Slots
  BY <1>1, PlusInSlots
<1>3. Plus(clock.nextClear, k) = Plus(Plus(clock.nextPage, k), ClearStart + 1)
  <2>1. clock.nextClear = Plus(clock.nextPage, ClearStart + 1)
    BY DEF HandsApart
  <2> HIDE DEF k
  <2> QED
    BY <1>1, <2>1, ClearStartRange, LRUAssumption DEF Plus, Slots
<1>4. Cleared(clock, k) \subseteq clock.referenced
  BY DEF Cleared
<1> HIDE DEF k
<1>5. GetFree(clock) =
        [nextPage |-> Plus(clock.nextPage, k),
         nextClear |-> Plus(clock.nextClear, k),
         referenced |-> Cleared(clock, k) \cup {Plus(clock.nextPage, k)}]
  BY DEF GetFree, k
<1>6. /\ GetFree(clock).nextPage = Plus(clock.nextPage, k)
      /\ GetFree(clock).nextClear = Plus(clock.nextClear, k)
      /\ GetFree(clock).referenced = Cleared(clock, k) \cup {Plus(clock.nextPage, k)}
  BY <1>5
<1>7. GetFree(clock) \in Clock
  BY <1>1, <1>2, <1>4, <1>5 DEF Clock
<1> QED
  BY <1>3, <1>4, <1>6, <1>7 DEF HandsApart, k

(* A slot on the ring has one distance from the page hand.                 *)
LEMMA PlusInjective ==
  ASSUME NEW i \in Slots, NEW k \in 1 .. Size, NEW m \in 1 .. Size,
         Plus(i, k) = Plus(i, m)
  PROVE  k = m
BY LRUAssumption DEF Plus, Slots

(* The second chance at the level of the clock: getFree() never returns a  *)
(* slot between the hands whose bit is set.                                *)
LEMMA GetFreeSparesReferenced ==
  ASSUME NEW clock \in Clock, HandsApart(clock),
         NEW k \in 1 .. ClearStart, Plus(clock.nextPage, k) \in clock.referenced
  PROVE  GetFree(clock).nextPage # Plus(clock.nextPage, k)
<1> SUFFICES ASSUME GetFree(clock).nextPage = Plus(clock.nextPage, k)
             PROVE  FALSE
  OBVIOUS
<1>1. clock.nextPage \in Slots /\ k \in 1 .. Size
  BY ClearStartRange, LRUAssumption DEF Clock
<1>2. Passes(clock) = k
  <2>1. Plus(clock.nextPage, Passes(clock)) = Plus(clock.nextPage, k)
    BY GetFreeClock
  <2>2. Passes(clock) \in 1 .. Size
    BY PassesLeast
  <2> QED  BY <1>1, <2>1, <2>2, PlusInjective
<1>3. EndsAfter(clock, k)
  BY <1>2, PassesLeast
<1>4. PICK j \in 0 .. k - 1 : Plus(clock.nextPage, k) = Plus(clock.nextClear, j)
  BY <1>3 DEF EndsAfter, Cleared
<1> QED
  BY <1>1, <1>4, ClearStartRange, LRUAssumption DEF HandsApart, Plus, Slots

-----------------------------------------------------------------------------
(* What a hit does to a directory.                                         *)
LEMMA TouchFacts ==
  ASSUME NEW D \in Directory, HandsApart(D.clock), Agree(D),
         NEW b \in Block, Stored(D, b)
  PROVE  /\ D.blockToIndex[b] \in Slots
         /\ D.indexToBlock[D.blockToIndex[b]] = b
         /\ Touch(D, b) \in Directory
         /\ Touch(D, b).clock = Access(D.clock, D.blockToIndex[b])
         /\ Touch(D, b).indexToBlock = D.indexToBlock
         /\ Touch(D, b).blockToIndex = D.blockToIndex
         /\ HandsApart(Touch(D, b).clock)
         /\ Agree(Touch(D, b))
<1> DEFINE s == D.blockToIndex[b]
<1>1. /\ D.clock \in Clock
      /\ D.indexToBlock \in [Slots -> Block \cup {Absent}]
      /\ D.blockToIndex \in [Block -> Slots \cup {Absent}]
  BY DEF Directory
<1>2. s \in Slots /\ D.indexToBlock[s] = b
  BY <1>1 DEF Stored, Agree
<1> HIDE DEF s
<1>3. /\ Touch(D, b).clock = Access(D.clock, s)
      /\ Touch(D, b).indexToBlock = D.indexToBlock
      /\ Touch(D, b).blockToIndex = D.blockToIndex
      /\ Touch(D, b) = [D EXCEPT !.clock = Access(D.clock, s)]
  BY DEF Touch, Directory, s
<1>4. Access(D.clock, s) \in Clock /\ HandsApart(Access(D.clock, s))
  BY <1>1, <1>2 DEF Access, Clock, HandsApart
<1>5. Touch(D, b) \in Directory
  BY <1>3, <1>4 DEF Directory
<1>6. Agree(Touch(D, b))
  BY <1>3 DEF Agree, Stored
<1> QED  BY <1>2, <1>3, <1>4, <1>5, <1>6 DEF s

(* What a miss does to a directory.                                        *)
LEMMA InsertFacts ==
  ASSUME NEW D \in Directory, HandsApart(D.clock), Agree(D),
         NEW b \in Block, ~Stored(D, b)
  PROVE  /\ FreeSlot(D) \in Slots
         /\ Replaced(D) \in (Block \ {b}) \cup {Absent}
         /\ Replaced(D) = D.indexToBlock[FreeSlot(D)]
         /\ Insert(D, b) \in Directory
         /\ Insert(D, b).clock = GetFree(D.clock)
         /\ Insert(D, b).indexToBlock = [D.indexToBlock EXCEPT ![FreeSlot(D)] = b]
         /\ Insert(D, b).blockToIndex[b] = FreeSlot(D)
         /\ \A x \in Block \ {b} :
               Insert(D, b).blockToIndex[x] =
                 IF x = Replaced(D) THEN Absent ELSE D.blockToIndex[x]
<1> DEFINE i == FreeSlot(D)
           old == Replaced(D)
           b2i == [x \in Block |-> CASE x = b -> i
                                    [] x = old /\ x # b -> Absent
                                    [] OTHER -> D.blockToIndex[x]]
<1>1. /\ D.clock \in Clock
      /\ D.indexToBlock \in [Slots -> Block \cup {Absent}]
      /\ D.blockToIndex \in [Block -> Slots \cup {Absent}]
  BY DEF Directory
<1>2. GetFree(D.clock) \in Clock
  BY <1>1, GetFreeClock
<1>3. i \in Slots
  BY <1>2 DEF FreeSlot, Clock
<1>4. old \in (Block \ {b}) \cup {Absent} /\ old = D.indexToBlock[i]
  <2>1. old \in Block \cup {Absent} /\ old = D.indexToBlock[i]
    BY <1>1, <1>3 DEF Replaced
  <2>2. old # b
    <3> SUFFICES ASSUME old = b PROVE FALSE
      OBVIOUS
    <3>1. D.blockToIndex[b] = i
      BY <1>3, <2>1, BlockAssumption DEF Agree
    <3> QED  BY <1>3, <3>1, LRUAssumption DEF Stored, Slots, Absent
  <2> QED  BY <2>1, <2>2
<1> HIDE DEF i, old
<1>5. Insert(D, b) = [clock |-> GetFree(D.clock),
                      indexToBlock |-> [D.indexToBlock EXCEPT ![i] = b],
                      blockToIndex |-> b2i]
  BY DEF Insert, i, old
<1>6. /\ Insert(D, b).clock = GetFree(D.clock)
      /\ Insert(D, b).indexToBlock = [D.indexToBlock EXCEPT ![i] = b]
      /\ Insert(D, b).blockToIndex = b2i
  BY <1>5
<1>7. [D.indexToBlock EXCEPT ![i] = b] \in [Slots -> Block \cup {Absent}]
  BY <1>1
<1>8. b2i \in [Block -> Slots \cup {Absent}]
  BY <1>1, <1>3
<1>9. Insert(D, b) \in Directory
  BY <1>2, <1>5, <1>7, <1>8 DEF Directory
<1>10. /\ b2i[b] = i
       /\ \A x \in Block \ {b} : b2i[x] = IF x = old THEN Absent ELSE D.blockToIndex[x]
  OBVIOUS
<1> HIDE DEF b2i
<1> QED
  BY <1>3, <1>4, <1>6, <1>9, <1>10 DEF i, old

(* A miss keeps the two maps inverse to each other.                        *)
LEMMA InsertAgrees ==
  ASSUME NEW D \in Directory, HandsApart(D.clock), Agree(D),
         NEW b \in Block, ~Stored(D, b)
  PROVE  Agree(Insert(D, b)) /\ HandsApart(Insert(D, b).clock)
<1> DEFINE E == Insert(D, b)
           i == FreeSlot(D)
           old == Replaced(D)
<1>1. /\ D.clock \in Clock
      /\ D.indexToBlock \in [Slots -> Block \cup {Absent}]
      /\ D.blockToIndex \in [Block -> Slots \cup {Absent}]
  BY DEF Directory
<1>2. /\ i \in Slots /\ old \in (Block \ {b}) \cup {Absent}
      /\ old = D.indexToBlock[i]
      /\ E.clock = GetFree(D.clock)
      /\ E.indexToBlock = [D.indexToBlock EXCEPT ![i] = b]
      /\ E.blockToIndex[b] = i
      /\ \A x \in Block \ {b} :
            E.blockToIndex[x] = IF x = old THEN Absent ELSE D.blockToIndex[x]
  BY InsertFacts
<1> HIDE DEF E, i, old
<1>3. ASSUME NEW x \in Block, Stored(E, x)
      PROVE  E.indexToBlock[E.blockToIndex[x]] = x
  <2>1. CASE x = b
    BY <1>1, <1>2, <2>1
  <2>2. CASE x # b
    <3>1. x # old /\ E.blockToIndex[x] = D.blockToIndex[x]
      BY <1>2, <1>3, <2>2 DEF Stored
    <3>2. D.blockToIndex[x] \in Slots /\ D.indexToBlock[D.blockToIndex[x]] = x
      BY <1>1, <1>3, <3>1 DEF Stored, Agree
    <3> QED  BY <1>1, <1>2, <3>1, <3>2
  <2> QED  BY <2>1, <2>2
<1>4. ASSUME NEW j \in Slots, E.indexToBlock[j] # Absent
      PROVE  E.blockToIndex[E.indexToBlock[j]] = j
  <2>1. CASE j = i
    BY <1>1, <1>2, <2>1
  <2>2. CASE j # i
    <3>1. E.indexToBlock[j] = D.indexToBlock[j] /\ D.indexToBlock[j] \in Block
      BY <1>1, <1>2, <1>4, <2>2
    <3>2. D.blockToIndex[D.indexToBlock[j]] = j
      BY <1>4, <3>1 DEF Agree
    <3>3. D.indexToBlock[j] # b
      BY <3>2, LRUAssumption DEF Stored, Slots, Absent
    <3>4. D.indexToBlock[j] # old
      <4>1. CASE old = Absent
        BY <1>4, <3>1, <4>1
      <4>2. CASE old # Absent
        BY <1>2, <2>2, <3>2, <4>2 DEF Agree
      <4> QED  BY <4>1, <4>2
    <3> QED  BY <1>2, <3>1, <3>2, <3>3, <3>4
  <2> QED  BY <2>1, <2>2
<1>5. HandsApart(E.clock)
  BY <1>1, <1>2, GetFreeClock
<1> QED  BY <1>3, <1>4, <1>5 DEF Agree, E

(* The directories that init() creates.                                    *)
LEMMA InitDirectoryFacts ==
  ASSUME NEW D \in InitDirectories
  PROVE  /\ D \in Directory
         /\ D.clock.nextPage = Size - 1
         /\ D.clock.referenced \subseteq ClearStart .. Size - 1
         /\ D.indexToBlock = [i \in Slots |-> Absent]
         /\ D.blockToIndex = [b \in Block |-> Absent]
         /\ HandsApart(D.clock)
         /\ Agree(D)
<1>1. /\ D.clock \in [nextPage : {Size - 1}, nextClear : {ClearStart},
                       referenced : SUBSET (ClearStart .. Size - 1)]
      /\ D = [clock |-> D.clock,
              indexToBlock |-> [i \in Slots |-> Absent],
              blockToIndex |-> [b \in Block |-> Absent]]
  BY DEF InitDirectories, InitClocks
<1>2. /\ D.clock.nextPage = Size - 1 /\ D.clock.nextClear = ClearStart
      /\ D.clock.referenced \subseteq ClearStart .. Size - 1
  BY <1>1
<1>3. D.indexToBlock = [i \in Slots |-> Absent] /\ D.blockToIndex = [b \in Block |-> Absent]
  BY <1>1
<1>4. D.clock \in Clock
  BY <1>1, ClearStartRange, LRUAssumption DEF Clock, Slots
<1>5. D \in Directory
  <2>1. D = [clock |-> D.clock, indexToBlock |-> D.indexToBlock,
             blockToIndex |-> D.blockToIndex]
    BY <1>1, <1>3
  <2> QED  BY <1>3, <1>4, <2>1 DEF Directory
<1>6. HandsApart(D.clock)
  BY <1>2, ClearStartRange, LRUAssumption DEF HandsApart, Plus
<1>7. Agree(D)
  BY <1>3 DEF Agree, Stored
<1> QED  BY <1>2, <1>3, <1>5, <1>6, <1>7

-----------------------------------------------------------------------------
LEMMA InitInv == Init => Inv
<1> SUFFICES ASSUME Init PROVE Inv
  OBVIOUS
<1>1. /\ dir.clock.nextPage = Size - 1
      /\ dir.clock.referenced \subseteq ClearStart .. Size - 1
      /\ dir.indexToBlock = [i \in Slots |-> Absent]
  BY InitDirectoryFacts DEF Init
<1>2. TypeOK /\ MapsAgree /\ HandsApart(dir.clock)
  BY InitDirectoryFacts DEF Init, TypeOK, MapsAgree
<1>6. FilledInOrder
  <2>1. FreshSlots = 0 .. Size - 1
    BY <1>1 DEF FreshSlots, Slots
  <2>2. Plus(dir.clock.nextPage, 1) = 0
    BY <1>1, LRUAssumption DEF Plus
  <2>3. \A i \in dir.clock.referenced : i < 0 \/ i >= 0 + ClearStart
    BY <1>1, ClearStartRange
  <2> QED  BY <2>1, <2>2, <2>3, LRUAssumption DEF FilledInOrder
<1> QED  BY <1>2, <1>6 DEF Inv

(* The parts of a directory that satisfies the type invariant.             *)
LEMMA DirectoryParts ==
  ASSUME TypeOK
  PROVE  /\ dir.clock \in Clock
         /\ dir.indexToBlock \in [Slots -> Block \cup {Absent}]
         /\ dir.blockToIndex \in [Block -> Slots \cup {Absent}]
BY DEF TypeOK, Directory

LEMMA HitInv ==
  ASSUME Inv, NEW b \in Block, Hit(b)
  PROVE  Inv'
<1> DEFINE s == dir.blockToIndex[b]
<1>1. /\ dir \in Directory /\ dir.clock \in Clock
      /\ HandsApart(dir.clock) /\ Agree(dir)
      /\ Stored(dir, b) /\ dir' = Touch(dir, b)
  BY DirectoryParts DEF Inv, TypeOK, MapsAgree, Agree, Hit
<1>2. /\ s \in Slots /\ s \notin FreshSlots
      /\ TypeOK' /\ MapsAgree' /\ HandsApart(dir.clock)'
  BY <1>1, TouchFacts, BlockAssumption DEF FreshSlots, TypeOK, MapsAgree, Agree
<1>3. /\ dir'.clock = Access(dir.clock, s)
      /\ dir'.indexToBlock = dir.indexToBlock
  BY <1>1, TouchFacts
<1>4. /\ dir'.clock.nextPage = dir.clock.nextPage
      /\ dir'.clock.nextClear = dir.clock.nextClear
      /\ dir'.clock.referenced = dir.clock.referenced \cup {s}
  BY <1>1, <1>2, <1>3 DEF Access, Clock
<1>6. FreshSlots' = FreshSlots
  BY <1>3 DEF FreshSlots
<1>8. FilledInOrder'
  <2>1. PICK n \in 0 .. Size :
          /\ FreshSlots = n .. Size - 1
          /\ n < Size =>
                /\ Plus(dir.clock.nextPage, 1) = n
                /\ \A i \in dir.clock.referenced : i < n \/ i >= n + ClearStart
    BY DEF Inv, FilledInOrder
  <2>2. s < n
    BY <1>2, <2>1, LRUAssumption DEF Slots
  <2> QED
    BY <1>4, <1>6, <2>1, <2>2 DEF FilledInOrder
<1> QED  BY <1>2, <1>8 DEF Inv

(* While a slot is unused, a miss takes the first unused one.              *)
LEMMA MissTakesFresh ==
  ASSUME Inv, NEW n \in 0 .. Size - 1, FreshSlots = n .. Size - 1,
         Plus(dir.clock.nextPage, 1) = n,
         \A i \in dir.clock.referenced : i < n \/ i >= n + ClearStart
  PROVE  /\ Passes(dir.clock) = 1
         /\ FreeSlot(dir) = n
         /\ Replaced(dir) = Absent
         /\ GetFree(dir.clock).referenced =
               (dir.clock.referenced \ {Plus(n, ClearStart)}) \cup {n}
<1>1. dir.clock \in Clock /\ HandsApart(dir.clock)
  BY DirectoryParts DEF Inv
<1>2. dir.clock.nextPage \in Slots /\ dir.clock.nextClear \in Slots
  BY <1>1 DEF Clock
<1>3. Plus(dir.clock.nextClear, 0) = dir.clock.nextClear
  BY <1>2, LRUAssumption DEF Plus, Slots
<1>4. dir.clock.nextClear = Plus(n, ClearStart)
  <2>1. dir.clock.nextClear = Plus(dir.clock.nextPage, ClearStart + 1)
    BY <1>1 DEF HandsApart
  <2> DEFINE p == dir.clock.nextPage
             c == dir.clock.nextClear
  <2>2. p \in Slots /\ Plus(p, 1) = n /\ c = Plus(p, ClearStart + 1)
    BY <1>2, <2>1
  <2> HIDE DEF p, c
  <2>3. c = Plus(n, ClearStart)
    BY <2>2, ClearStartRange, LRUAssumption DEF Plus, Slots
  <2> QED  BY <2>3 DEF c
<1>5. Cleared(dir.clock, 1) = dir.clock.referenced \ {dir.clock.nextClear}
  <2>1. { Plus(dir.clock.nextClear, j) : j \in 0 .. 1 - 1 } = {Plus(dir.clock.nextClear, 0)}
    <3>1. 0 .. 1 - 1 = {0}
      OBVIOUS
    <3> QED  BY <3>1
  <2> QED  BY <1>3, <2>1 DEF Cleared
<1>6. n \notin Cleared(dir.clock, 1)
  <2>1. CASE ClearStart = 0
    <3>1. Plus(n, ClearStart) = n
      BY <2>1, LRUAssumption DEF Plus
    <3> QED  BY <3>1, <1>4, <1>5
  <2>2. CASE ClearStart # 0
    <3>1. ~(n < n \/ n >= n + ClearStart)
      BY <2>2, ClearStartRange, LRUAssumption
    <3> QED  BY <3>1, <1>5
  <2> QED  BY <2>1, <2>2
<1>7. EndsAfter(dir.clock, 1)
  BY <1>6 DEF EndsAfter
<1>8. Passes(dir.clock) = 1
  BY <1>1, <1>7, PassesLeast, LRUAssumption
<1>9. GetFree(dir.clock).nextPage = n
  BY <1>1, <1>8, GetFreeClock
<1>10. Replaced(dir) = Absent
  BY <1>9, LRUAssumption DEF Replaced, FreeSlot, FreshSlots
<1>11. GetFree(dir.clock).referenced = Cleared(dir.clock, 1) \cup {n}
  BY <1>8, <1>9 DEF GetFree
<1> QED
  BY <1>4, <1>5, <1>8, <1>9, <1>10, <1>11 DEF FreeSlot

(* What a miss does to the directory.                                      *)
LEMMA MissDirectory ==
  ASSUME Inv, NEW b \in Block, Miss(b)
  PROVE  /\ FreeSlot(dir) \in Slots
         /\ Replaced(dir) \in (Block \ {b}) \cup {Absent}
         /\ TypeOK' /\ MapsAgree' /\ HandsApart(dir.clock)'
         /\ dir'.clock = GetFree(dir.clock)
         /\ dir'.indexToBlock = [dir.indexToBlock EXCEPT ![FreeSlot(dir)] = b]
         /\ dir'.blockToIndex[b] = FreeSlot(dir)
         /\ \A x \in Block \ {b} :
               dir'.blockToIndex[x] =
                 IF x = Replaced(dir) THEN Absent ELSE dir.blockToIndex[x]
<1>1. dir \in Directory /\ HandsApart(dir.clock) /\ Agree(dir)
  BY DEF Inv, TypeOK, MapsAgree, Agree
<1>2. dir' = Insert(dir, b) /\ ~Stored(dir, b)
  BY DEF Miss
<1> QED
  BY <1>1, <1>2, InsertFacts, InsertAgrees DEF TypeOK, MapsAgree, Agree

LEMMA MissInv ==
  ASSUME Inv, NEW b \in Block, Miss(b)
  PROVE  Inv'
<1> DEFINE i == FreeSlot(dir)
           old == Replaced(dir)
<1>1. /\ dir.clock \in Clock
      /\ dir.indexToBlock \in [Slots -> Block \cup {Absent}]
      /\ dir.blockToIndex \in [Block -> Slots \cup {Absent}]
  BY DirectoryParts DEF Inv
<1>2. /\ i \in Slots /\ old \in (Block \ {b}) \cup {Absent}
      /\ TypeOK'
      /\ dir'.clock = GetFree(dir.clock)
      /\ dir'.indexToBlock = [dir.indexToBlock EXCEPT ![i] = b]
      /\ dir'.blockToIndex[b] = i
      /\ \A x \in Block \ {b} :
            dir'.blockToIndex[x] = IF x = old THEN Absent ELSE dir.blockToIndex[x]
      /\ old = dir.indexToBlock[i]
  BY MissDirectory DEF Replaced
<1> HIDE DEF i, old
<1>3. FreshSlots' = FreshSlots \ {i}
  BY <1>1, <1>2, BlockAssumption DEF FreshSlots
<1>4. MapsAgree' /\ HandsApart(dir.clock)'
  BY MissDirectory
<1>6. FilledInOrder'
  <2>1. PICK n \in 0 .. Size :
          /\ FreshSlots = n .. Size - 1
          /\ n < Size =>
                /\ Plus(dir.clock.nextPage, 1) = n
                /\ \A j \in dir.clock.referenced : j < n \/ j >= n + ClearStart
    BY DEF Inv, FilledInOrder
  <2>2. CASE n = Size
    <3>1. FreshSlots' = Size .. Size - 1
      BY <1>3, <2>1, <2>2, LRUAssumption
    <3> QED  BY <3>1, LRUAssumption DEF FilledInOrder
  <2>3. CASE n < Size
    <3>1. n \in 0 .. Size - 1
      BY <2>3, LRUAssumption
    <3>2. /\ i = n
          /\ GetFree(dir.clock).referenced =
                (dir.clock.referenced \ {Plus(n, ClearStart)}) \cup {n}
      BY <2>1, <2>3, <3>1, MissTakesFresh DEF i
    <3>3. dir'.clock.nextPage = n
      BY <1>2, <3>2 DEF i, FreeSlot
    <3>4. FreshSlots' = n + 1 .. Size - 1
      BY <1>3, <2>1, <3>1, <3>2, LRUAssumption
    <3>5. n + 1 < Size => Plus(dir'.clock.nextPage, 1) = n + 1
      BY <3>1, <3>3, LRUAssumption DEF Plus
    <3>6. ASSUME NEW j \in dir'.clock.referenced, n + 1 < Size
          PROVE  j < n + 1 \/ j >= n + 1 + ClearStart
      <4>1. j \in (dir.clock.referenced \ {Plus(n, ClearStart)}) \cup {n}
        BY <1>2, <3>2, <3>6
      <4>2. CASE j = n
        BY <4>2, <3>1, LRUAssumption
      <4>3. CASE j # n
        <5>1. j \in dir.clock.referenced /\ j # Plus(n, ClearStart) /\ j \in Slots
          BY <1>1, <4>1, <4>3 DEF Clock
        <5>2. j < n \/ j >= n + ClearStart
          BY <2>1, <2>3, <5>1
        <5> QED
          BY <5>1, <5>2, <3>1, ClearStartRange, LRUAssumption DEF Plus, Slots
      <4> QED  BY <4>2, <4>3
    <3> QED  BY <3>1, <3>4, <3>5, <3>6, LRUAssumption DEF FilledInOrder
  <2> QED  BY <2>1, <2>2, <2>3, LRUAssumption
<1> QED  BY <1>2, <1>4, <1>6 DEF Inv

(* Inv is inductive.                                                       *)
LEMMA Inductive == Inv /\ [Next]_vars => Inv'
<1> SUFFICES ASSUME Inv, [Next]_vars PROVE Inv'
  OBVIOUS
<1>1. CASE UNCHANGED vars
  BY <1>1
     DEF vars, Inv, TypeOK, MapsAgree, Agree, HandsApart, FilledInOrder, Cached,
         Stored, FreshSlots
<1>2. CASE Next
  BY <1>2, HitInv, MissInv DEF Next
<1> QED  BY <1>1, <1>2

LEMMA Invariance == Spec => []Inv
BY InitInv, Inductive, PTL DEF Spec

-----------------------------------------------------------------------------
(* The directory keeps its type.                                           *)
THEOREM TypeCorrect == Spec => []TypeOK
<1>1. Inv => TypeOK
  BY DEF Inv
<1> QED  BY <1>1, Invariance, PTL

(* m_indexToBlock and m_blockToIndex are inverse to each other, for every  *)
(* cache size, spread and set of blocks.                                   *)
THEOREM MapsAgreeHolds == Spec => []MapsAgree
<1>1. Inv => MapsAgree
  BY DEF Inv
<1> QED  BY <1>1, Invariance, PTL

(* The loop of getFree() ends after at most one pass more than the         *)
(* distance of the hands.                                                  *)
THEOREM LoopBoundHolds == Spec => []LoopBound
<1>1. Inv => LoopBound
  <2> SUFFICES ASSUME Inv PROVE LoopBound
    OBVIOUS
  <2>1. EndsAfter(dir.clock, ClearStart + 1) /\ HandsApart(dir.clock)
    BY LoopEnds, DirectoryParts DEF Inv
  <2>2. ClearStart + 1 \in 1 .. ClearStart + 1
    BY ClearStartRange, LRUAssumption
  <2> QED  BY <2>1, <2>2 DEF LoopBound
<1> QED  BY <1>1, Invariance, PTL

(* No block leaves the cache while a slot was never used.                  *)
THEOREM ColdFillHolds == Spec => ColdFill
<1>1. Inv /\ [Next]_vars => [FreshSlots # {} => Cached \subseteq Cached']_vars
  <2> SUFFICES ASSUME Inv, Next, FreshSlots # {}
               PROVE  Cached \subseteq Cached'
    BY DEF vars
  <2>1. PICK b \in Block : Hit(b) \/ Miss(b)
    BY DEF Next
  <2>2. CASE Hit(b)
    <3>1. dir'.blockToIndex = dir.blockToIndex
      BY <2>2 DEF Hit, Touch, Inv, TypeOK, Directory
    <3> QED  BY <3>1 DEF Cached, Stored
  <2>3. CASE Miss(b)
    <3>1. PICK n \in 0 .. Size - 1 :
            /\ FreshSlots = n .. Size - 1
            /\ Plus(dir.clock.nextPage, 1) = n
            /\ \A i \in dir.clock.referenced : i < n \/ i >= n + ClearStart
      BY LRUAssumption DEF Inv, FilledInOrder
    <3>2. Replaced(dir) = Absent
      BY <3>1, MissTakesFresh
    <3>3. /\ FreeSlot(dir) \in Slots
          /\ dir'.blockToIndex[b] = FreeSlot(dir)
          /\ \A x \in Block \ {b} : dir'.blockToIndex[x] = dir.blockToIndex[x]
      BY <2>1, <2>3, <3>2, MissDirectory, BlockAssumption
    <3>4. FreeSlot(dir) # Absent
      BY <3>3, LRUAssumption DEF Slots, Absent
    <3> QED  BY <3>3, <3>4 DEF Cached, Stored
  <2> QED  BY <2>1, <2>2, <2>3
<1> QED  BY <1>1, Invariance, PTL DEF Spec, ColdFill

(* A block used since the clear hand passed its slot survives the next     *)
(* miss.                                                                   *)
THEOREM SecondChanceHolds == Spec => SecondChance
<1> DEFINE Spared == \A i \in BetweenHands \cap dir.clock.referenced :
                        (dir.indexToBlock[i])' = dir.indexToBlock[i]
<1>1. Inv /\ [Next]_vars => [Spared]_vars
  <2> SUFFICES ASSUME Inv, Next,
                      NEW i \in BetweenHands, i \in dir.clock.referenced
               PROVE  (dir.indexToBlock[i])' = dir.indexToBlock[i]
    BY DEF vars
  <2>1. PICK b \in Block : Hit(b) \/ Miss(b)
    BY DEF Next
  <2>2. dir.clock \in Clock /\ dir.indexToBlock \in [Slots -> Block \cup {Absent}]
    BY DirectoryParts DEF Inv
  <2>3. CASE Hit(b)
    BY <2>3 DEF Hit, Touch, Inv, TypeOK, Directory
  <2>4. CASE Miss(b)
    <3>1. PICK k \in 1 .. ClearStart : i = Plus(dir.clock.nextPage, k)
      BY DEF BetweenHands
    <3>2. FreeSlot(dir) # i
      BY <2>2, <3>1, GetFreeSparesReferenced DEF Inv, FreeSlot
    <3>3. dir'.indexToBlock = [dir.indexToBlock EXCEPT ![FreeSlot(dir)] = b]
      BY <2>1, <2>4, MissDirectory
    <3>4. i \in Slots
      BY <2>2 DEF Clock
    <3> QED  BY <2>2, <3>2, <3>3, <3>4
  <2> QED  BY <2>1, <2>3, <2>4
<1> QED  BY <1>1, Invariance, PTL DEF Spec, SecondChance

-----------------------------------------------------------------------------
(* As many blocks are cached as slots are used.                            *)
LEMMA CachedCardinality ==
  ASSUME Inv, NEW n \in 0 .. Size, FreshSlots = n .. Size - 1
  PROVE  IsFiniteSet(Cached) /\ Cardinality(Cached) = n
<1> DEFINE f == [i \in 0 .. n - 1 |-> dir.indexToBlock[i]]
<1>1. Slots \ FreshSlots = 0 .. n - 1
  BY LRUAssumption DEF Slots
<1>2. /\ dir.indexToBlock \in [Slots -> Block \cup {Absent}]
      /\ dir.blockToIndex \in [Block -> Slots \cup {Absent}]
      /\ MapsAgree
  BY DirectoryParts DEF Inv
<1>3. \A i \in 0 .. n - 1 : /\ dir.indexToBlock[i] \in Cached
                            /\ dir.blockToIndex[dir.indexToBlock[i]] = i
  <2> SUFFICES ASSUME NEW i \in Slots \ FreshSlots
               PROVE  /\ dir.indexToBlock[i] \in Cached
                      /\ dir.blockToIndex[dir.indexToBlock[i]] = i
    BY <1>1
  <2>1. dir.blockToIndex[dir.indexToBlock[i]] = i /\ dir.indexToBlock[i] \in Block
    BY <1>2 DEF MapsAgree, Agree, FreshSlots
  <2>2. i # Absent
    BY LRUAssumption DEF Slots, Absent
  <2> QED  BY <2>1, <2>2 DEF Cached, Stored
<1>4. \A b \in Cached : dir.blockToIndex[b] \in 0 .. n - 1 /\ dir.indexToBlock[dir.blockToIndex[b]] = b
  <2> TAKE b \in Cached
  <2>1. dir.blockToIndex[b] \in Slots /\ dir.indexToBlock[dir.blockToIndex[b]] = b
    BY <1>2 DEF MapsAgree, Agree, Cached, Stored
  <2>2. dir.blockToIndex[b] \notin FreshSlots
    BY <2>1, BlockAssumption DEF Cached, FreshSlots
  <2> QED  BY <1>1, <2>1, <2>2
<1>5. f \in [0 .. n - 1 -> Cached]
  BY <1>3
<1>6. f \in Injection(0 .. n - 1, Cached)
  BY <1>3, <1>5 DEF Injection, IsInjective
<1>7. f \in Surjection(0 .. n - 1, Cached)
  BY <1>4, <1>5 DEF Surjection
<1>8. ExistsBijection(0 .. n - 1, Cached)
  BY <1>6, <1>7 DEF Bijection, ExistsBijection
<1>9. IsFiniteSet(0 .. n - 1) /\ Cardinality(0 .. n - 1) = n
  <2>1. n - 1 \in Int /\ 0 \in Int /\ (IF 0 > n - 1 THEN 0 ELSE n - 1 - 0 + 1) = n
    BY LRUAssumption
  <2> QED  BY <2>1, FS_Interval
<1> QED  BY <1>8, <1>9, FS_Bijection

LEMMA SameCardinality == Abstract!Cardinality(Cached) = Cardinality(Cached)
BY DEF Abstract!Cardinality, Cardinality

(* Every step of the directory is a step of the bounded cache, or does not *)
(* change the set of cached blocks.                                        *)
LEMMA StepRefines ==
  ASSUME Inv, Inv', NEW b \in Block, Hit(b) \/ Miss(b)
  PROVE  Abstract!Request(b) \/ UNCHANGED Cached
<1>1. CASE Hit(b)
  <2>1. dir'.blockToIndex = dir.blockToIndex
    BY <1>1 DEF Hit, Touch, Inv, TypeOK, Directory
  <2> QED  BY <2>1 DEF Cached, Stored
<1>2. CASE Miss(b)
  <2>1. /\ FreeSlot(dir) \in Slots
        /\ Replaced(dir) \in (Block \ {b}) \cup {Absent}
        /\ dir'.blockToIndex[b] = FreeSlot(dir)
        /\ \A x \in Block \ {b} :
              dir'.blockToIndex[x] =
                IF x = Replaced(dir) THEN Absent ELSE dir.blockToIndex[x]
    BY <1>2, MissDirectory
  <2>2. FreeSlot(dir) # Absent
    BY <2>1, LRUAssumption DEF Slots, Absent
  <2>3. b \notin Cached
    BY <1>2 DEF Miss, Cached
  <2>4. Cached' = (Cached \ {Replaced(dir)}) \cup {b}
    BY <2>1, <2>2, <2>3 DEF Cached, Stored
  <2>5. PICK n \in 0 .. Size :
          /\ FreshSlots = n .. Size - 1
          /\ n < Size =>
                /\ Plus(dir.clock.nextPage, 1) = n
                /\ \A i \in dir.clock.referenced : i < n \/ i >= n + ClearStart
    BY DEF Inv, FilledInOrder
  <2>6. Abstract!Cardinality(Cached) = n
    BY <2>5, CachedCardinality, SameCardinality
  <2>7. CASE n < Size
    <3>1. Replaced(dir) = Absent
      BY <2>5, <2>7, MissTakesFresh, LRUAssumption
    <3>2. Cached' = Cached \cup {b}
      BY <2>4, <3>1, BlockAssumption DEF Cached
    <3> QED  BY <2>3, <2>6, <2>7, <3>2 DEF Abstract!Request
  <2>8. CASE n = Size
    <3>1. Abstract!Cardinality(Cached) = Size
      BY <2>6, <2>8
    <3>2. FreshSlots = {}
      BY <2>5, <2>8, LRUAssumption
    <3>3. Replaced(dir) \in Cached
      <4>1. Replaced(dir) # Absent
        BY <2>1, <3>2 DEF Replaced, FreshSlots
      <4>2. dir.blockToIndex[Replaced(dir)] = FreeSlot(dir)
        BY <2>1, <4>1 DEF Inv, MapsAgree, Agree, Replaced
      <4> QED  BY <2>1, <2>2, <4>1, <4>2 DEF Cached, Stored
    <3> QED  BY <2>3, <2>4, <3>1, <3>3 DEF Abstract!Request
  <2> QED  BY <2>7, <2>8, LRUAssumption
<1> QED  BY <1>1, <1>2

(* The directory implements the bounded cache: the requested block is      *)
(* there afterwards, and one block leaves only when all slots are used.    *)
THEOREM DirectoryImplementsBoundedCache == Spec => AbstractSpec
<1>1. Init => Abstract!Init
  BY DEF Init, InitDirectories, Abstract!Init, Cached, Stored
<1>2. Inv /\ Inv' /\ [Next]_vars => [\E b \in Block : Abstract!Request(b)]_Cached
  <2> SUFFICES ASSUME Inv, Inv', [Next]_vars
               PROVE  [\E b \in Block : Abstract!Request(b)]_Cached
    OBVIOUS
  <2>1. CASE UNCHANGED vars
    BY <2>1 DEF vars, Cached, Stored
  <2>2. CASE Next
    BY <2>2, StepRefines DEF Next
  <2> QED  BY <2>1, <2>2
<1> QED  BY <1>1, <1>2, Invariance, PTL DEF Spec, AbstractSpec, Abstract!Spec
=============================================================================
