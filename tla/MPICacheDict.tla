----------------------------- MODULE MPICacheDict -----------------------------
(***************************************************************************)
(* One entry of the distributed dictionary (transfer/mpicache.h): an array *)
(* of at most DictSize places where a block is stored, the newest first.   *)
(* A place is a rank and a slot of its cache in one number; Unused ends    *)
(* the list.                                                               *)
(***************************************************************************)
EXTENDS Integers

CONSTANTS
    NumRanks,       \* size of the communicator
    CacheSize,      \* rankCacheSize(): the slots of one rank
    DictSize        \* m_dictEntrySize

Rank == 0 .. NumRanks - 1

Slots == 0 .. CacheSize - 1

ASSUME MPICacheDictAssumption ==
    /\ NumRanks \in Nat \ {0}
    /\ CacheSize \in Nat \ {0}
    /\ DictSize \in Nat \ {0}

Unused == -1

(* The number of a place, and how transfer() takes it apart.               *)
PlaceOf(rank, slot) == rank * CacheSize + slot

RankOf(place) == place \div CacheSize

SlotOf(place) == place % CacheSize

Places == { PlaceOf(r, s) : r \in Rank, s \in Slots }

Index == 0 .. DictSize - 1

DictEntry == [Index -> Places \cup {Unused}]

EmptyEntry == [i \in Index |-> Unused]

(* What an entry looks like: a list of different places.                   *)
IsList(entry) ==
    /\ \E n \in 0 .. DictSize : \A i \in Index : entry[i] # Unused <=> i < n
    /\ \A i, j \in Index : entry[i] # Unused /\ entry[i] = entry[j] => i = j

(* How many places are listed before the first unused one.                 *)
Count(entry) ==
    CHOOSE n \in 0 .. DictSize :
        /\ \A i \in 0 .. n - 1 : entry[i] # Unused
        /\ n < DictSize => entry[n] = Unused

Listed(entry) == { entry[i] : i \in 0 .. Count(entry) - 1 }

(* fetchBlockInfo(): any listed place, Unused if there is none.            *)
Fetched(entry) == IF Count(entry) = 0 THEN {Unused} ELSE Listed(entry)

(* updateBlockInfo(): the new place goes to the front; a full entry loses  *)
(* its last place.                                                         *)
Updated(entry, place) ==
    [i \in Index |-> CASE i = 0 -> place
                       [] i > 0 /\ i <= Count(entry) -> entry[i - 1]
                       [] OTHER -> entry[i]]

(* Faulty variants: nothing is removed; always the newest place is.        *)
DeletedNothing(entry, place) == entry

DeletedNewest(entry, place) ==
    [i \in Index |-> IF i = DictSize - 1 THEN Unused ELSE entry[i + 1]]

(* deleteBlockInfo(): everything behind the place moves forward.  When the *)
(* place is not listed the last one is erased all the same.                *)
Deleted(entry, place) ==
    [i \in Index |->
        CASE i = DictSize - 1 -> Unused
          [] i < DictSize - 1 /\ (\E j \in 0 .. i : entry[j] = place) -> entry[i + 1]
          [] OTHER -> entry[i]]
=============================================================================
