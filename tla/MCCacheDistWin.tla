--------------------------- MODULE MCCacheDistWin ---------------------------
(* Ranks and the threads that run on them.                                 *)
EXTENDS CacheDistWin, TLC

CONSTANTS t1, t2, t3, t4

TwoEach == (t1 :> 0) @@ (t2 :> 0) @@ (t3 :> 1) @@ (t4 :> 1)
=============================================================================
