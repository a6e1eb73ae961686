----------------------------- MODULE BlockPlaces -----------------------------
(***************************************************************************)
(* Where the n blocks of a level are kept (grid/level/blocked.h): every    *)
(* rank and every NUMA domain of it stores the same number of blocks, the  *)
(* last ones perhaps fewer.  The functions are written twice in the code,  *)
(* for blocks in turn (ROUND_ROBIN) and for blocks in a row.               *)
(***************************************************************************)
EXTENDS Integers

CONSTANTS
    NumRanks,       \* comm().size()
    NumDomains      \* numa().totalDomains()

ASSUME BlockPlacesAssumption ==
    /\ NumRanks \in Nat \ {0}
    /\ NumDomains \in Nat \ {0}

Rank == 0 .. NumRanks - 1
Domain == 0 .. NumDomains - 1

(* localBlockCount() and nodeBlockCount()                                  *)
LocalCount(n) == (n + NumRanks * NumDomains - 1) \div (NumRanks * NumDomains)
NodeCount(n) == LocalCount(n) * NumDomains

BlockRank(n, roundRobin, id) ==
    IF roundRobin THEN id % NumRanks ELSE id \div NodeCount(n)

BlockDomain(n, roundRobin, id) ==
    (IF roundRobin THEN id \div NumRanks ELSE id \div LocalCount(n)) % NumDomains

BlockOffset(n, roundRobin, id) ==
    IF roundRobin THEN (id \div NumRanks) \div NumDomains ELSE id % LocalCount(n)

BlockNodeOffset(n, roundRobin, id) ==
    BlockOffset(n, roundRobin, id) + BlockDomain(n, roundRobin, id) * LocalCount(n)

Local2Global(n, roundRobin, rank, domain, id) ==
    IF roundRobin
    THEN (id * NumDomains + domain) * NumRanks + rank
    ELSE id + (domain + rank * NumDomains) * LocalCount(n)
=============================================================================
