----------------------------- MODULE BoundedCache -----------------------------
(***************************************************************************)
(* What a cache promises its caller, whatever the replacement policy: the  *)
(* requested block is present afterwards, at most one block leaves, and    *)
(* one leaves only when every slot is taken.                               *)
(***************************************************************************)
EXTENDS Integers, FiniteSets

CONSTANTS Block, Size

VARIABLE cached

Init == cached = {}

Request(b) ==
    \/ b \in cached /\ UNCHANGED cached
    \/ /\ b \notin cached
       /\ Cardinality(cached) < Size
       /\ cached' = cached \cup {b}
    \/ /\ b \notin cached
       /\ Cardinality(cached) = Size
       /\ \E victim \in cached : cached' = (cached \ {victim}) \cup {b}

Spec == Init /\ [][\E b \in Block : Request(b)]_cached
=============================================================================
