---------------------------- MODULE CacheListSpec ----------------------------
(***************************************************************************)
(* One directory used by one caller at a time, as CacheManager does under  *)
(* its m_cacheMutex: every request finds its block or takes a slot for it. *)
(***************************************************************************)
EXTENDS CacheList

VARIABLE dir

vars == dir

Init == dir \in InitDirectories

Hit(b) == Stored(dir, b) /\ dir' = Touch(dir, b)

Miss(b) == ~Stored(dir, b) /\ dir' = Insert(dir, b)

Next == \E b \in Block : Hit(b) \/ Miss(b)

Spec == Init /\ [][Next]_vars

-----------------------------------------------------------------------------
Cached == { b \in Block : Stored(dir, b) }

FreshSlots == { i \in Slots : dir.indexToBlock[i] = Absent }

TypeOK == dir \in Directory

(* m_indexToBlock and m_blockToIndex stay inverse to each other, whatever  *)
(* mix of hits, cold misses and evictions the callers produce: the erase   *)
(* and the two stores of getFreeIndex() never leave a block with a slot    *)
(* that belongs to another one.                                            *)
MapsAgree == Agree(dir)

(* The clear hand keeps its distance to the page hand for ever, and the    *)
(* loop of getFree() ends after at most distance + 1 passes, although      *)
(* nothing in the loop counts them and the bits start uninitialised.       *)
LoopBound ==
    /\ HandsApart(dir.clock)
    /\ \E k \in 1 .. ClearStart + 1 : EndsAfter(dir.clock, k)

(* No block is evicted while a slot was never used: the bits that init()   *)
(* leaves uninitialised are never read.                                    *)
ColdFill == [][FreshSlots # {} => Cached \subseteq Cached']_vars

(* Why ColdFill holds: the slots are first used in ascending order, the    *)
(* page hand stands before the first unused one, and the bits between the  *)
(* hands have been cleared.                                                *)
FilledInOrder ==
    \E n \in 0 .. Size :
        /\ FreshSlots = n .. Size - 1
        /\ n < Size =>
              /\ Plus(dir.clock.nextPage, 1) = n
              /\ \A i \in dir.clock.referenced : i < n \/ i >= n + ClearStart

(* The inductive invariant of the proofs in CacheListProofs.               *)
Inv == TypeOK /\ MapsAgree /\ HandsApart(dir.clock) /\ FilledInOrder

(* The second chance: a miss does not evict a block that was used after    *)
(* the clear hand had gone over its slot and before the page hand got      *)
(* there.                                                                  *)
BetweenHands == { Plus(dir.clock.nextPage, k) : k \in 1 .. ClearStart }

SecondChance ==
    [][\A i \in BetweenHands \cap dir.clock.referenced :
        (dir.indexToBlock[i])' = dir.indexToBlock[i]]_vars

-----------------------------------------------------------------------------
(* What a cache promises, whatever its policy (BoundedCache).              *)
Abstract == INSTANCE BoundedCache WITH cached <- Cached

AbstractSpec == Abstract!Spec
=============================================================================
