---------------------------- MODULE MCCacheLevel ----------------------------
(* Two NUMA domains; which threads belong to which.                        *)
EXTENDS CacheLevel, TLC

CONSTANTS t1, t2, t3, t4

DefaultSpread == -1

TwoEach == (t1 :> 0) @@ (t2 :> 0) @@ (t3 :> 1) @@ (t4 :> 1)
=============================================================================
