------------------------------ MODULE MCMPIMutex ------------------------------
(* Two ranks; the only lock is stored on rank 0.                            *)
EXTENDS MPIMutex, TLC

CONSTANT l1

OnFirst == l1 :> 0
=============================================================================
