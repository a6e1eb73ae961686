------------------------------ MODULE MCMPIMutexOrder ------------------------------
(* Two ranks; lock l1 is stored on rank 0, lock l2 on rank 1.              *)
EXTENDS MPIMutexOrder, TLC

CONSTANTS l1, l2

OneOnEach == (l1 :> 0) @@ (l2 :> 1)
=============================================================================
