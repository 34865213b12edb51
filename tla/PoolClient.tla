----------------------------- MODULE PoolClient -----------------------------
(***************************************************************************)
(* The worker pool closed with the discipline of its only caller, the      *)
(* controller goroutine of pkg/controllers/cloudshell_controller.go: it    *)
(* borrows for a cloudshell that has no worker and remembers the worker    *)
(* when Borrow returns; gives the worker back when the cloudshell is       *)
(* deleted, again and again until that succeeds; and gives it back once,   *)
(* and forgets it, when it is not ready.                                   *)
(***************************************************************************)
EXTENDS WorkerPool

CONSTANTS ShellImage,   \* the image of each cloudshell
          MaxShells     \* bound on how many times a cloudshell is created

ASSUME ClientAssumption == ShellImage \in [Shells -> Images] /\ MaxShells \in Nat

\* caller.bound: the worker remembered for each cloudshell; caller.leaving: the
\* cloudshells whose deletion was requested; caller.reassign: the worker is given
\* back because it is not ready; caller.created: creations so far.
CallerType == [bound : [Shells -> Pods \cup {None}], leaving : SUBSET Shells,
               reassign : BOOLEAN, created : 0 .. MaxShells]

bound == caller.bound
leaving == caller.leaving

CInit ==
    /\ Init
    /\ shellQ = {} /\ exists = {}
    /\ caller = [bound |-> [s \in Shells |-> None], leaving |-> {}, reassign |-> FALSE, created |-> 0]

\* Users create and delete cloudshells.
CreateShell(s) ==
    /\ s \notin exists /\ caller.created < MaxShells
    /\ caller' = [caller EXCEPT !.created = @ + 1]
    /\ exists' = exists \cup {s}
    /\ shellQ' = shellQ \cup {s}
    /\ UNCHANGED <<store, wq, workerQueue, requestQueue, rec, hnd, scl, clt, trouble>>

DeleteShell(s) ==
    /\ s \in exists \ leaving
    /\ caller' = [caller EXCEPT !.leaving = @ \cup {s}]
    /\ shellQ' = shellQ \cup {s}
    /\ UNCHANGED <<store, wq, workerQueue, requestQueue, exists, rec, hnd, scl, clt, trouble>>

\* The branches of one synchronisation.
NeedsWorker(s) == s \in exists \ leaving /\ (bound[s] # None => cache[bound[s]].phase = "absent")
MustBack(s) ==
    /\ bound[s] # None
    /\ s \in leaving \/ (s \in exists /\ cache[bound[s]].phase # "absent" /\ ~cache[bound[s]].ready)

SyncBorrow(s) ==
    /\ s \in shellQ /\ NeedsWorker(s)
    /\ Borrow(s, ShellImage[s])
    /\ shellQ' = shellQ \ {s}
    /\ UNCHANGED world

SyncBack(s) ==
    /\ s \in shellQ /\ MustBack(s)
    /\ Back(s, bound[s])
    /\ shellQ' = shellQ \ {s}
    /\ caller' = [caller EXCEPT !.reassign = s \notin leaving]
    /\ UNCHANGED exists

SyncDone(s) ==
    /\ clt.pc = "idle" /\ s \in shellQ /\ ~NeedsWorker(s) /\ ~MustBack(s)
    /\ shellQ' = shellQ \ {s}
    /\ exists' = exists \ (leaving \cap {s})
    /\ caller' = [caller EXCEPT !.leaving = @ \ {s}]
    /\ UNCHANGED <<store, wq, workerQueue, requestQueue, rec, hnd, scl, clt, trouble>>

Sync(s) == SyncBorrow(s) \/ SyncBack(s) \/ SyncDone(s)

\* Borrow or Back has returned.  A borrowed worker is remembered in the cached
\* cloudshell before the Update that records it; the Update may fail, and the
\* conflict with a deletion also replaces the cached cloudshell.
Finish ==
    LET s == clt.shell
        known == [caller EXCEPT !.bound[s] = IF clt.op = "borrow" THEN clt.pod ELSE None,
                                !.reassign = FALSE] IN
    /\ clt.pc = "ret"
    /\ clt' = CltIdle /\ ptr' = NoPtr
    /\ \/ /\ NoFault
          /\ caller' = IF clt.ok = "ok" \/ (clt.op = "back" /\ caller.reassign) THEN known ELSE caller
          /\ shellQ' = IF clt.ok = "error" \/ clt.op = "back" THEN shellQ \cup {s} ELSE shellQ
       \/ /\ clt.op = "borrow" /\ clt.ok = "ok"
          /\ \/ Fault /\ caller' = known
             \/ s \in leaving /\ NoFault /\ caller' = caller
          /\ shellQ' = shellQ \cup {s}
    /\ UNCHANGED <<server, watch, cache, cur, wq, workerQueue, requestQueue, exists, rec, hnd, scl>>

ClientNext == Finish \/ \E s \in Shells : CreateShell(s) \/ DeleteShell(s) \/ Sync(s)

CNext == ClientNext \/ PoolNext \/ Crash

(***************************************************************************)
(* Fairness.  The informer delivers what it has read, kubelets start and   *)
(* stop containers, and every goroutine that can run does.  The client-go  *)
(* work queues are first-in first-out, so no key is overtaken for ever,    *)
(* and Go's select picks among ready cases at random, so a blocked sender  *)
(* is not passed over for ever: both are strong fairness.  Users and       *)
(* disturbances owe nothing.                                               *)
(***************************************************************************)
PoolFairness ==
    /\ \A w \in Pods : /\ WF_vars(PodEvent(w)) /\ WF_vars(BecomeReady(w)) /\ WF_vars(PodReaped(w))
                       /\ SF_vars(ProcessNext(w))
    /\ WF_vars(RecSteps) /\ WF_vars(HndSteps) /\ WF_vars(SclSteps) /\ WF_vars(CltSteps)
    /\ WF_vars(Tick) /\ SF_vars(SignalFromReconcile) /\ SF_vars(SignalFromClient)

ClientFairness == WF_vars(Finish) /\ \A s \in Shells : SF_vars(Sync(s))

CSpec == CInit /\ [][CNext]_vars
FairSpec == CSpec /\ PoolFairness /\ ClientFairness

-----------------------------------------------------------------------------
\* The pool's state and the caller's.
TypeOK == PoolTypeOK /\ caller \in CallerType

\* Two cloudshells never work in the same worker (worker_pool.go:393: Borrow
\* takes the worker out of the queue so that nobody else gets it).
WorkersExclusive == \A s, t \in exists : s # t /\ bound[s] # None => bound[s] # bound[t]

\* A cloudshell that waits for a worker gets one (worker_pool.go:63-65: "when the
\* worker is running, it needs to inform the controller").
ShellsServed ==
    \A s \in Shells : (s \in exists \ leaving) ~> (bound[s] # None \/ s \notin exists \ leaving)
=============================================================================
