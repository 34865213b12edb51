---------------------------- MODULE MCController ----------------------------
(* Instances of Controller for TLC.                                            *)
EXTENDS Controller, TLC

SpecOf(mode, ttl, cleanup) == [mode |-> mode, prefix |-> "p", ttl |-> ttl, cleanup |-> cleanup]

Timed == {SpecOf("Ingress", "some", FALSE)}
Plain == {SpecOf("NodePort", "none", FALSE)}
Mixed == Plain \cup {SpecOf("VirtualService", "some", TRUE), SpecOf("Ingress", "zero", FALSE)}
ShellNames == Permutations(Shells)
=============================================================================
