------------------------------ MODULE PodStore ------------------------------
(***************************************************************************)
(* The worker pods at the API server, as pkg/workerpool uses them          *)
(* (external): an ApiStore of pods, whose containers a kubelet stops       *)
(* before a deleted pod disappears.                                        *)
(***************************************************************************)
EXTENDS Naturals, Sequences, FiniteSets

CONSTANTS Pods,     \* pod names; random suffixes never collide
          Shells,   \* cloudshells
          None      \* the empty owner label, an absent request label, no pod

VARIABLES server, watch, cache, cur, ptr    \* see ApiStore

store == <<server, watch, cache, cur, ptr>>

PodRec == [phase : {"absent", "live", "deleting"},
           owner : Shells \cup {None},   \* label cloudshell.cloudtty.io/owner-name
           req   : Shells \cup {None},   \* label cloudshell.cloudtty.io/request
           fin   : BOOLEAN,              \* carries ControllerFinalizer
           ready : BOOLEAN]              \* condition Ready

NoPod == [phase |-> "absent", owner |-> None, req |-> None, fin |-> FALSE, ready |-> FALSE]

INSTANCE ApiStore WITH Names <- Pods, Objects <- PodRec, Gone <- NoPod, NoName <- None

\* Deletion only marks the pod; it stays until the finalizer is gone.
Delete(w) ==
    \/ /\ server[w].phase = "live"
       /\ Write(w, [server[w] EXCEPT !.phase = "deleting"])
    \/ /\ server[w].phase = "deleting"
       /\ UNCHANGED store

\* The kubelet has stopped the containers of a deleted pod nobody protects.
Reap(w) ==
    /\ server[w].phase = "deleting" /\ ~server[w].fin
    /\ Write(w, NoPod)
=============================================================================
