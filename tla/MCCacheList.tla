----------------------------- MODULE MCCacheList -----------------------------
(* CacheListSpec on four slots and five blocks, with the default spread.   *)
EXTENDS CacheListSpec

DefaultSpread == -1
=============================================================================
