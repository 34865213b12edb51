------------------------------- MODULE MCQueue -------------------------------
(* Instance of Queue for TLC: three goroutines (the pod reconciler, the      *)
(* request handler and the controller) and two distinct items.               *)
EXTENDS Queue, TLC
=============================================================================
