------------------------------ MODULE CacheList ------------------------------
(***************************************************************************)
(* The directory of one cache (cache/cachelist.h): which block is in which *)
(* slot, in both directions, and the clock that selects the slot of the    *)
(* next block.                                                             *)
(***************************************************************************)
EXTENDS LRU

CONSTANT Block          \* the global block ids

Absent == -1            \* m_indexToBlock of a slot never used, and the
                        \* missing value of m_blockToIndex

ASSUME BlockAssumption == Absent \notin Block

Directory ==
    [clock : Clock,
     indexToBlock : [Slots -> Block \cup {Absent}],
     blockToIndex : [Block -> Slots \cup {Absent}]]

InitDirectories ==
    { [clock |-> c,
       indexToBlock |-> [i \in Slots |-> Absent],
       blockToIndex |-> [b \in Block |-> Absent]] : c \in InitClocks }

(* getIndex(): is the block stored, and where.                             *)
Stored(dir, b) == dir.blockToIndex[b] # Absent

(* getIndex() with access = true, for a stored block.                      *)
Touch(dir, b) == [dir EXCEPT !.clock = Access(dir.clock, dir.blockToIndex[b])]

(* getFreeIndex(): the slot the new block gets, the block it replaces, and *)
(* the directory it leaves behind.                                         *)
FreeSlot(dir) == GetFree(dir.clock).nextPage

Replaced(dir) == dir.indexToBlock[FreeSlot(dir)]

(* Faulty variant: the replaced block is not erased from m_blockToIndex.   *)
InsertKeepsOld(dir, b) ==
    [clock |-> GetFree(dir.clock),
     indexToBlock |-> [dir.indexToBlock EXCEPT ![FreeSlot(dir)] = b],
     blockToIndex |-> [dir.blockToIndex EXCEPT ![b] = FreeSlot(dir)]]

Insert(dir, b) ==
    LET i == FreeSlot(dir)
        old == Replaced(dir)
    IN  [clock |-> GetFree(dir.clock),
         indexToBlock |-> [dir.indexToBlock EXCEPT ![i] = b],
         blockToIndex |-> [x \in Block |->
             CASE x = b -> i
               [] x = old /\ x # b -> Absent
               [] OTHER -> dir.blockToIndex[x]]]

(* m_indexToBlock and m_blockToIndex are inverse to each other.            *)
Agree(dir) ==
    /\ \A b \in Block :
          Stored(dir, b) => dir.indexToBlock[dir.blockToIndex[b]] = b
    /\ \A i \in Slots :
          dir.indexToBlock[i] # Absent => dir.blockToIndex[dir.indexToBlock[i]] = i
=============================================================================
