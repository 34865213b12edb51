------------------------------- MODULE MCPool -------------------------------
(* Instances of PoolClient for TLC.  One image class: workers of different     *)
(* classes share only the order of the queues.                                *)
EXTENDS PoolClient, TLC

CONSTANT i1

OneImage == [w \in Pods |-> i1]
OneShellImage == [s \in Shells |-> i1]
Names == Permutations(Pods) \cup Permutations(Shells)
=============================================================================
