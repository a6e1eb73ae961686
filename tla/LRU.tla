--------------------------------- MODULE LRU ---------------------------------
(***************************************************************************)
(* The replacement policy of one cache: the two-handed clock of            *)
(* cache/lru.h.  The page hand (m_nextPage) chooses the victim, the clear  *)
(* hand (m_nextClear) runs ahead of it and takes the second-chance bits    *)
(* away.  A clock is a record, so that the cache manager of every NUMA     *)
(* domain can own one.                                                     *)
(***************************************************************************)
EXTENDS Integers

CONSTANTS
    Size,       \* number of slots of the cache (m_size)
    HandDiff    \* the CACHE_HAND_SPREAD parameter; negative selects the default

(* Grid::open refuses a cache without slots.  Nothing in the source bounds *)
(* the spread from above, but a spread of Size or more makes init and the  *)
(* first getFree write behind the array.                                   *)
ASSUME LRUAssumption ==
    /\ Size \in Nat \ {0}
    /\ HandDiff \in Int
    /\ HandDiff < Size

Slots == 0 .. Size - 1

(* Slot i after k increments modulo m_size, for k in 0 .. Size.            *)
Plus(i, k) == IF i + k < Size THEN i + k ELSE i + k - Size

(* The slots from which the clear hand starts.                             *)
ClearStart == IF HandDiff < 0 THEN Size \div 2 ELSE HandDiff

(* The bits m_referenced that are set, as a set of slots.                  *)
Clock == [nextPage : Slots, nextClear : Slots, referenced : SUBSET Slots]

(* Faulty variant: init() leaves all the bits uninitialised.               *)
InitClocksUncleared ==
    [nextPage : {Size - 1}, nextClear : {ClearStart}, referenced : SUBSET Slots]

(* init() clears only the bits below the clear hand: the others hold       *)
(* whatever the allocation contained.                                      *)
InitClocks ==
    [nextPage : {Size - 1}, nextClear : {ClearStart},
     referenced : SUBSET (ClearStart .. Size - 1)]

Access(clock, i) == [clock EXCEPT !.referenced = @ \cup {i}]

(* The bits after k passes of the loop of getFree(): the clear hand has    *)
(* gone over k slots.                                                      *)
Cleared(clock, k) ==
    clock.referenced \ { Plus(clock.nextClear, j) : j \in 0 .. k - 1 }

(* Faulty variant: the loop does not test the bit.                         *)
EndsAtOnce(clock, k) == TRUE

(* The loop of getFree() ends after pass k: the page hand, moved k times,  *)
(* points at a slot whose bit is clear after k passes of the clear hand.   *)
EndsAfter(clock, k) == Plus(clock.nextPage, k) \notin Cleared(clock, k)

Passes(clock) ==
    CHOOSE k \in 1 .. Size :
        EndsAfter(clock, k) /\ \A j \in 1 .. k - 1 : ~EndsAfter(clock, j)

(* Faulty variant: the clear hand stays behind in the last pass.           *)
GetFreeClearLate(clock) ==
    LET k == Passes(clock)
        page == Plus(clock.nextPage, k)
    IN  [nextPage |-> page,
         nextClear |-> Plus(clock.nextClear, k - 1),
         referenced |-> Cleared(clock, k - 1) \cup {page}]

(* getFree(): the clock it leaves behind; the slot it returns is the new   *)
(* position of the page hand.                                              *)
GetFree(clock) ==
    LET k == Passes(clock)
        page == Plus(clock.nextPage, k)
    IN  [nextPage |-> page,
         nextClear |-> Plus(clock.nextClear, k),
         referenced |-> Cleared(clock, k) \cup {page}]

(* The distance of the two hands, as init() places them.                   *)
HandsApart(clock) == clock.nextClear = Plus(clock.nextPage, ClearStart + 1)
=============================================================================
