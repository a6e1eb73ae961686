-------------------------- MODULE MCCacheDistThread --------------------------
(* Ranks, the threads that run on them, the ranks that keep the dictionary *)
(* entries of the blocks, and applications.                                *)
EXTENDS CacheDistThread, TLC

CONSTANTS t1, t2, t3, t4, b1, b2

OneEach == (t1 :> 0) @@ (t2 :> 1)

TwoAndOne == (t1 :> 0) @@ (t2 :> 0) @@ (t3 :> 1)

TwoEach == (t1 :> 0) @@ (t2 :> 0) @@ (t3 :> 1) @@ (t4 :> 1)

BlocksOnEach == [b \in Block |-> IF b = b1 THEN 0 ELSE 1]

Application(size, blocks) == [cacheSize |-> size, program |-> blocks]

(* Every miss of a cache with one slot is an eviction.                     *)
Evict == { Application(1, Anything) }

(* With two slots two threads of a rank fetch different blocks at once.    *)
EvictAndFetch ==
    Evict \cup
    { Application(2, (t1 :> <<b1, b2>>) @@ (t2 :> <<b2>>) @@ (t3 :> <<b1, b2>>)) }

(* On each of two ranks the first thread reads the block of its own part   *)
(* and then, like the second thread, the block of the other part.          *)
HaloExchange ==
    { Application(2, (t1 :> <<b1, b2>>) @@ (t2 :> <<b2>>)
                        @@ (t3 :> <<b2, b1>>) @@ (t4 :> <<b1>>)) }
=============================================================================
