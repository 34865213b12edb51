----------------------------- MODULE WorkerPool -----------------------------
(***************************************************************************)
(* pkg/workerpool/worker_pool.go: the pool's three goroutines (reconcile,  *)
(* handleRequestQueue, scaleInWorkerQueue) and its two methods Borrow and  *)
(* Back, which the controller's single goroutine calls.  A step is one     *)
(* access to shared state: a call of the API server, of one of the two     *)
(* queues, of the lister, or a rendez-vous on matchRequestSignal.          *)
(*                                                                         *)
(* workerQueue and requestQueue are atomic ordered sets (Queue.tla proves  *)
(* that they are).  Namespace and image of a worker only ever matter       *)
(* together and never change: a class in Images stands for the pair, and   *)
(* ImageOf gives the class of each pod name.                               *)
(***************************************************************************)
EXTENDS PodStore, SequencesExt

CONSTANTS Images, ImageOf,
          CoreLimit, MaxLimit,            \* coreWorkerLimit, maxWorkerLimit
          Kinds, MaxTrouble               \* the disturbances that may happen, and how many

ASSUME PoolAssumption ==
    /\ IsFiniteSet(Pods) /\ ImageOf \in [Pods -> Images]
    /\ None \notin Shells /\ None \notin Pods
    /\ CoreLimit \in Nat /\ MaxLimit \in Nat
    /\ Kinds \subseteq {"status", "delete", "fault", "crash", "scalein"}
    /\ MaxTrouble \in Nat

VARIABLES wq,            \* w.queue: pod keys to reconcile
          workerQueue,   \* w.workerQueue: idle, ready workers
          requestQueue,  \* w.requestQueue: cloudshells waiting for a worker
          shellQ,        \* Request.CloudShellQueue, the controller's work queue
          exists,        \* the cloudshells at the API server
          caller,        \* the state of the pool's caller, which the pool never touches
          rec,           \* the reconcile goroutine: [pc, pod]
          hnd,           \* the request handler: [pc, todo]
          scl,           \* the scale-in goroutine: [bad, idle, gone]
          clt,           \* the controller goroutine inside Borrow or Back
          trouble        \* the number of disturbances so far

queues == <<wq, workerQueue, requestQueue, shellQ>>
world == <<exists, caller>>
vars == <<store, queues, world, rec, hnd, scl, clt, trouble>>

Requests == [shell : Shells, img : Images]

\* What processNextCluster does with the copy it took from the lister is decided
\* by the copy alone, so the program counter keeps the decision for the copy.
RecPCs == {"idle", "deleting", "notready", "ready", "finalizer", "signal"}
HndPCs == {"select", "match", "remove"}
CltPCs == {"idle", "b_signal", "b_update", "b_remove",
           "k_read", "k_delete", "k_update", "k_add", "k_signal", "ret"}

RecIdle == [pc |-> "idle", pod |-> None]
HndIdle == [pc |-> "select", todo |-> <<>>]
SclIdle == [bad |-> {}, idle |-> {}, gone |-> {}]
CltIdle == [pc |-> "idle", op |-> "none", shell |-> None, pod |-> None, req |-> FALSE, ok |-> "none"]

Init ==
    /\ StoreInit
    /\ wq = {} /\ workerQueue = <<>> /\ requestQueue = <<>>
    /\ rec = RecIdle /\ hnd = HndIdle /\ scl = SclIdle /\ clt = CltIdle
    /\ trouble = 0

(***************************************************************************)
(* The queues, and the lookups on them.                                    *)
(***************************************************************************)
Added(q, x) == IF x \in ToSet(q) THEN q ELSE Append(q, x)
Removed(q, x) ==
    IF x \in ToSet(q) THEN RemoveAt(q, CHOOSE i \in DOMAIN q : q[i] = x) ELSE q

Idle(p) == p.owner = None

\* matchWorkerFor: the first queued worker of the image, looked up in the lister.
Candidates(img) == {i \in DOMAIN workerQueue : ImageOf[workerQueue[i]] = img}
First(img) == workerQueue[CHOOSE i \in Candidates(img) : \A j \in Candidates(img) : i <= j]
NoWorker(img) == Candidates(img) = {}
Matched(img) == ~NoWorker(img) /\ cache[First(img)].phase # "absent"

\* matchRequestFor
Wanted(w) == \E i \in DOMAIN requestQueue : requestQueue[i].img = ImageOf[w]

\* A fault is an API call that fails for a reason other than the object's state.
Disturb(kind) == kind \in Kinds /\ trouble < MaxTrouble /\ trouble' = trouble + 1
Fault == Disturb("fault")
NoFault == UNCHANGED trouble

(***************************************************************************)
(* Pod events.  The pool's handler keeps the pods whose owner label is     *)
(* empty, the controller's those that have an owner; for a deletion they   *)
(* see the last object.  It is the cached one here, which may differ in an *)
(* owner that Borrow or Back could not store: such a call has failed, and  *)
(* its cloudshell is enqueued for that or already reassigned.              *)
(***************************************************************************)
Enqueue(w, obj) == IF Idle(obj) THEN wq \cup {w} ELSE wq
EnqueueShell(obj) == IF Idle(obj) THEN shellQ ELSE shellQ \cup {obj.owner}
Event(w) == IF Head(watch[w]).phase = "absent" THEN cache[w] ELSE Head(watch[w])

PodEvent(w) ==
    /\ Deliver(w)
    /\ wq' = Enqueue(w, Event(w))
    /\ shellQ' = EnqueueShell(Event(w))
    /\ UNCHANGED <<workerQueue, requestQueue, world, rec, hnd, scl, clt, trouble>>

(***************************************************************************)
(* The reconcile goroutine.                                                *)
(***************************************************************************)
\* processNextCluster: take a key and a copy of the cached pod.
ProcessNext(w) ==
    /\ rec.pc = "idle" /\ w \in wq
    /\ wq' = wq \ {w}
    /\ rec' = IF cache[w].phase = "absent" THEN RecIdle
              ELSE [pod |-> w,
                    pc |-> IF cache[w].phase = "deleting" THEN "deleting"
                           ELSE IF cache[w].ready THEN "ready" ELSE "notready"]
    /\ UNCHANGED <<store, workerQueue, requestQueue, shellQ, world, hnd, scl, clt, trouble>>

\* Mutant: a ready worker is announced and not put into the queue.
ReconcileNoAdd ==
    /\ \/ /\ rec.pc = "deleting"
          /\ workerQueue' = Removed(workerQueue, rec.pod)
          /\ rec' = [rec EXCEPT !.pc = "finalizer"]
       \/ /\ rec.pc = "notready"
          /\ workerQueue' = Removed(workerQueue, rec.pod)
          /\ rec' = RecIdle
       \/ /\ rec.pc = "ready"
          /\ UNCHANGED workerQueue
          /\ rec' = [rec EXCEPT !.pc = "signal"]
    /\ UNCHANGED <<store, wq, requestQueue, shellQ, world, hnd, scl, clt, trouble>>

\* reconcile, up to its API calls or its send on matchRequestSignal.
Reconcile ==
    /\ \/ /\ rec.pc = "deleting"
          /\ workerQueue' = Removed(workerQueue, rec.pod)
          /\ rec' = [rec EXCEPT !.pc = "finalizer"]
       \/ /\ rec.pc = "notready"
          /\ workerQueue' = Removed(workerQueue, rec.pod)
          /\ rec' = RecIdle
       \/ /\ rec.pc = "ready"
          /\ workerQueue' = Added(workerQueue, rec.pod)
          /\ rec' = [rec EXCEPT !.pc = "signal"]
    /\ UNCHANGED <<store, wq, requestQueue, shellQ, world, hnd, scl, clt, trouble>>

\* Mutant: the finalizer is not removed from a deleted worker.
KeepFinalizer ==
    /\ rec.pc = "finalizer"
    /\ rec' = RecIdle
    /\ UNCHANGED <<store, queues, world, hnd, scl, clt, trouble>>

\* The retried Get and Update of reconcile.  An iteration that loses the race
\* for the resource version changes nothing, so the pair is one step; a failed
\* Get is taken for a pod without finalizer, a failed Update is requeued.
RemoveFinalizer ==
    LET w == rec.pod IN
    /\ rec.pc = "finalizer"
    /\ rec' = RecIdle
    /\ \/ /\ server[w].fin
          /\ Write(w, [server[w] EXCEPT !.fin = FALSE])
          /\ NoFault
          /\ UNCHANGED wq
       \/ /\ ~server[w].fin
          /\ NoFault
          /\ UNCHANGED <<store, wq>>
       \/ /\ server[w].fin
          /\ Fault
          /\ wq' \in {wq, wq \cup {w}}
          /\ UNCHANGED store
    /\ UNCHANGED <<workerQueue, requestQueue, shellQ, world, hnd, scl, clt>>

(***************************************************************************)
(* The request handler.                                                    *)
(***************************************************************************)
\* tryHandleRequestQueue leaves its select, by the ticker or by a signal, and
\* handleRequestQueue takes its snapshot.
Snapshot == hnd' = IF requestQueue = <<>> THEN HndIdle
                   ELSE [pc |-> "match", todo |-> requestQueue]

Tick ==
    /\ hnd.pc = "select" /\ requestQueue # <<>>
    /\ Snapshot
    /\ UNCHANGED <<store, queues, world, rec, scl, clt, trouble>>

\* The rendez-vous with reconcile, and with Borrow or Back.
SignalFromReconcile ==
    /\ hnd.pc = "select" /\ rec.pc = "signal"
    /\ Snapshot
    /\ rec' = RecIdle
    /\ UNCHANGED <<store, queues, world, scl, clt, trouble>>

SignalFromClient ==
    /\ hnd.pc = "select" /\ clt.pc \in {"b_signal", "k_signal"}
    /\ Snapshot
    /\ clt' = [clt EXCEPT !.pc = "ret", !.ok = IF clt.pc = "b_signal" THEN "notworker" ELSE "ok"]
    /\ UNCHANGED <<store, queues, world, rec, scl, trouble>>

Continue == hnd' = IF Len(hnd.todo) = 1 THEN HndIdle
                   ELSE [pc |-> "match", todo |-> Tail(hnd.todo)]

\* A name no object and no queue refers to.
Unused(w) ==
    /\ server[w].phase = "absent" /\ cache[w].phase = "absent" /\ watch[w] = <<>>
    /\ w \notin wq /\ w \notin ToSet(workerQueue)
    /\ w \notin scl.bad \cup scl.idle \cup scl.gone
    /\ rec.pod # w /\ clt.pod # w /\ ptr.name # w

\* createWorker
NewWorker(r) == [phase |-> "live", owner |-> None, req |-> r.shell, fin |-> TRUE, ready |-> FALSE]

\* The lister knows a worker that was created for this cloudshell.
Underway(r) == \E w \in Pods : cache[w].phase # "absent" /\ cache[w].req = r.shell

\* Mutant: the handler retries until the creation succeeds.
HandleMissRetries ==
    LET r == Head(hnd.todo) IN
    /\ hnd.pc = "match" /\ ~Matched(r.img)
    /\ \/ /\ Underway(r)
          /\ Continue
          /\ UNCHANGED store
       \/ /\ ~Underway(r)
          /\ \E w \in Pods : ImageOf[w] = r.img /\ Unused(w) /\ Write(w, NewWorker(r))
          /\ Continue
    /\ NoFault
    /\ UNCHANGED <<queues, world, rec, scl, clt>>

\* No worker for the request: create one unless one is underway.  Creation fails
\* on a fault, and when the names of this instance are used up (a full quota).
HandleMiss ==
    LET r == Head(hnd.todo) IN
    /\ hnd.pc = "match" /\ ~Matched(r.img)
    /\ \/ /\ Underway(r)
          /\ NoFault
          /\ UNCHANGED store
       \/ /\ ~Underway(r)
          /\ \E w \in Pods : ImageOf[w] = r.img /\ Unused(w) /\ Write(w, NewWorker(r))
          /\ NoFault
       \/ /\ ~Underway(r)
          /\ Fault \/ (NoFault /\ \A w \in Pods : ImageOf[w] = r.img => ~Unused(w))
          /\ UNCHANGED store
    /\ Continue
    /\ UNCHANGED <<queues, world, rec, scl, clt>>

\* Mutant: the request of a deleted cloudshell is kept.
HandleHitKeeps ==
    LET r == Head(hnd.todo) IN
    /\ hnd.pc = "match" /\ Matched(r.img)
    /\ \/ /\ r.shell \in exists
          /\ shellQ' = shellQ \cup {r.shell}
          /\ hnd' = [hnd EXCEPT !.pc = "remove"]
          /\ NoFault
          /\ UNCHANGED requestQueue
       \/ /\ r.shell \notin exists
          /\ Continue
          /\ NoFault
          /\ UNCHANGED <<requestQueue, shellQ>>
    /\ UNCHANGED <<store, wq, workerQueue, world, rec, scl, clt>>

\* Mutant: the cloudshell is not put back into the controller's queue.
HandleHitSilent ==
    LET r == Head(hnd.todo) IN
    /\ hnd.pc = "match" /\ Matched(r.img)
    /\ \/ /\ r.shell \in exists
          /\ hnd' = [hnd EXCEPT !.pc = "remove"]
          /\ UNCHANGED requestQueue
       \/ /\ r.shell \notin exists
          /\ requestQueue' = Removed(requestQueue, r)
          /\ Continue
    /\ NoFault
    /\ UNCHANGED <<store, wq, workerQueue, shellQ, world, rec, scl, clt>>

\* A worker is there: wake the cloudshell up, or drop the request of one that
\* no longer exists.
HandleHit ==
    LET r == Head(hnd.todo) IN
    /\ hnd.pc = "match" /\ Matched(r.img)
    /\ \/ /\ r.shell \in exists
          /\ shellQ' = shellQ \cup {r.shell}
          /\ hnd' = [hnd EXCEPT !.pc = "remove"]
          /\ NoFault
          /\ UNCHANGED requestQueue
       \/ /\ r.shell \notin exists
          /\ requestQueue' = Removed(requestQueue, r)
          /\ Continue
          /\ NoFault
          /\ UNCHANGED shellQ
       \/ /\ Fault
          /\ Continue
          /\ UNCHANGED <<requestQueue, shellQ>>
    /\ UNCHANGED <<store, wq, workerQueue, world, rec, scl, clt>>

HandleRemove ==
    /\ hnd.pc = "remove"
    /\ requestQueue' = Removed(requestQueue, Head(hnd.todo))
    /\ Continue
    /\ UNCHANGED <<store, wq, workerQueue, shellQ, world, rec, scl, clt, trouble>>

(***************************************************************************)
(* Scale-in.                                                               *)
(***************************************************************************)
\* Mutant: the result is truncated instead of rounded.
ScaleNumberTruncated(n) == IF n > CoreLimit THEN (3 * (n - CoreLimit)) \div 4 ELSE 0

\* int(math.Floor(float64(n - core) * ScaleInQueueThreshold + 0.5))
ScaleNumber(n) == IF n > CoreLimit THEN (3 * (n - CoreLimit) + 2) \div 4 ELSE 0

Listed == {w \in Pods : cache[w].phase # "absent" /\ Idle(cache[w])}
IdleListed == {w \in Listed : cache[w].ready /\ ~Wanted(w)}

\* One pass over the lister: `bad` have been unready for half an hour (time is
\* not modelled: any unready ones), `idle` are the first ScaleNumber of the
\* idle workers in the sorted order (the order is not modelled: any of them).
ScaleInList ==
    /\ scl = SclIdle
    /\ Disturb("scalein")
    /\ \E bad \in SUBSET {w \in Listed : ~cache[w].ready}, v \in SUBSET IdleListed :
          /\ Cardinality(v) = ScaleNumber(Cardinality(IdleListed))
          /\ scl' = [bad |-> bad, idle |-> v, gone |-> {}]
    /\ UNCHANGED <<store, queues, world, rec, hnd, clt>>

\* Mutant: scale-in deletes by force, past the finalizer.
ScaleInForce(w) ==
    /\ scl.gone = {} /\ w \in scl.bad \cup scl.idle
    /\ server[w].phase # "absent"
    /\ Write(w, NoPod)
    /\ scl' = [bad |-> scl.bad \ {w}, idle |-> scl.idle \ {w}, gone |-> {w} \cap scl.idle]
    /\ NoFault
    /\ UNCHANGED <<queues, world, rec, hnd, clt>>

ScaleInDelete(w) ==
    /\ scl.gone = {} /\ w \in scl.bad \cup scl.idle
    /\ \/ /\ Delete(w)
          /\ NoFault
          /\ scl' = [bad |-> scl.bad \ {w}, idle |-> scl.idle \ {w}, gone |-> {w} \cap scl.idle]
       \/ /\ \/ server[w].phase = "absent" /\ NoFault
             \/ server[w].phase # "absent" /\ Fault
          /\ scl' = [bad |-> scl.bad \ {w}, idle |-> scl.idle \ {w}, gone |-> {}]
          /\ UNCHANGED store
    /\ UNCHANGED <<queues, world, rec, hnd, clt>>

ScaleInRemove ==
    /\ scl.gone # {}
    /\ workerQueue' = Removed(workerQueue, CHOOSE w \in scl.gone : TRUE)
    /\ scl' = [scl EXCEPT !.gone = {}]
    /\ UNCHANGED <<store, wq, requestQueue, shellQ, world, rec, hnd, clt, trouble>>

(***************************************************************************)
(* Borrow, called by the controller for a cloudshell and an image; `ok`    *)
(* of clt is what it returns.                                              *)
(***************************************************************************)
Borrow(shell, img) ==
    LET call == [CltIdle EXCEPT !.op = "borrow", !.shell = shell] IN
    /\ clt.pc = "idle"
    /\ \/ /\ NoWorker(img)
          /\ requestQueue' = Added(requestQueue, [shell |-> shell, img |-> img])
          /\ clt' = [call EXCEPT !.pc = "b_signal"]
          /\ UNCHANGED store
       \/ /\ ~NoWorker(img) /\ ~Matched(img)
          /\ clt' = [call EXCEPT !.pc = "ret", !.ok = "error"]
          /\ UNCHANGED <<store, requestQueue>>
       \/ /\ Matched(img)
          /\ Hold(First(img))
          /\ clt' = [call EXCEPT !.pc = "b_update", !.pod = First(img)]
          /\ UNCHANGED requestQueue
    /\ UNCHANGED <<wq, workerQueue, rec, hnd, scl, trouble>>

Return(result) == clt' = [clt EXCEPT !.pc = "ret", !.ok = result]

Borrowed(p, shell) == [p EXCEPT !.owner = shell, !.req = None, !.fin = FALSE]

\* The retry loop reuses the same object, so a conflict is never overcome: the
\* object's resource version stays outdated.
BorrowUpdate ==
    LET p == Borrowed(ptr.obj, clt.shell) IN
    /\ clt.pc = "b_update"
    /\ \/ /\ UpdateOK(p, p)
          /\ NoFault
          /\ clt' = [clt EXCEPT !.pc = "b_remove"]
       \/ /\ ~Accepts(p)
          /\ Mutate(p)
          /\ NoFault
          /\ Return("error")
       \/ /\ UpdateLost(p, p) \/ (Accepts(p) /\ Mutate(p))
          /\ Fault
          /\ Return("error")
    /\ UNCHANGED <<queues, world, rec, hnd, scl>>

BorrowRemove ==
    /\ clt.pc = "b_remove"
    /\ workerQueue' = Removed(workerQueue, clt.pod)
    /\ Return("ok")
    /\ UNCHANGED <<store, wq, requestQueue, shellQ, world, rec, hnd, scl, trouble>>

(***************************************************************************)
(* Back, called with the worker of a cloudshell.                           *)
(***************************************************************************)
Back(shell, w) ==
    /\ clt.pc = "idle"
    /\ clt' = [CltIdle EXCEPT !.op = "back", !.shell = shell, !.pc = "k_read", !.pod = w]
    /\ UNCHANGED <<store, wq, workerQueue, requestQueue, rec, hnd, scl, trouble>>

\* One iteration of the retried function, up to its API call.
BackRead ==
    LET w == clt.pod IN
    /\ clt.pc = "k_read"
    /\ \/ /\ cache[w].phase = "absent"
          /\ Return("ok")
          /\ UNCHANGED store
       \/ /\ cache[w].phase # "absent"
          /\ ~cache[w].ready \/ (~Wanted(w) /\ Len(workerQueue) >= MaxLimit)
          /\ clt' = [clt EXCEPT !.pc = "k_delete"]
          /\ UNCHANGED store
       \/ /\ cache[w].phase # "absent"
          /\ cache[w].ready /\ (Wanted(w) \/ Len(workerQueue) < MaxLimit)
          /\ Hold(w)
          /\ clt' = [clt EXCEPT !.pc = "k_update", !.req = Wanted(w)]
    /\ UNCHANGED <<queues, world, rec, hnd, scl, trouble>>

BackDelete ==
    /\ clt.pc = "k_delete"
    /\ \/ Delete(clt.pod) /\ NoFault /\ Return("ok")
       \/ server[clt.pod].phase = "absent" /\ NoFault /\ Return("error") /\ UNCHANGED store
       \/ server[clt.pod].phase # "absent" /\ Fault /\ Return("error") /\ UNCHANGED store
    /\ UNCHANGED <<queues, world, rec, hnd, scl>>

\* Mutant: Back forgets the finalizer.
ReturnedWithoutFinalizer(p) == [p EXCEPT !.owner = None]
Returned(p) == [p EXCEPT !.owner = None, !.fin = TRUE]

\* A conflict is retried from the lister until the attempts are used up.
BackUpdate ==
    LET p == Returned(ptr.obj) IN
    /\ clt.pc = "k_update"
    /\ \/ /\ UpdateOK(p, p)
          /\ NoFault
          /\ clt' = [clt EXCEPT !.pc = "k_add"]
       \/ /\ ~Accepts(p)
          /\ Mutate(p)
          /\ NoFault
          /\ \/ ~ptr.cur /\ clt' = [clt EXCEPT !.pc = "k_read"]
             \/ Return("error")
       \/ /\ UpdateLost(p, p) \/ (Accepts(p) /\ Mutate(p))
          /\ Fault
          /\ Return("error")
    /\ UNCHANGED <<queues, world, rec, hnd, scl>>

\* Mutant: the key is taken from an object without a web-tty container, and the
\* error of WorkerKeyFunc is ignored.
BackAddEmptyKey ==
    /\ clt.pc = "k_add"
    /\ workerQueue' = Added(workerQueue, None)
    /\ IF clt.req THEN clt' = [clt EXCEPT !.pc = "k_signal"] ELSE Return("ok")
    /\ UNCHANGED <<store, wq, requestQueue, shellQ, world, rec, hnd, scl, trouble>>

BackAdd ==
    /\ clt.pc = "k_add"
    /\ workerQueue' = Added(workerQueue, clt.pod)
    /\ IF clt.req THEN clt' = [clt EXCEPT !.pc = "k_signal"] ELSE Return("ok")
    /\ UNCHANGED <<store, wq, requestQueue, shellQ, world, rec, hnd, scl, trouble>>

(***************************************************************************)
(* The environment of the pool (external): kubelets and users.             *)
(***************************************************************************)
\* A new worker comes up.
BecomeReady(w) ==
    /\ server[w].phase = "live" /\ ~server[w].ready
    /\ Write(w, [server[w] EXCEPT !.ready = TRUE])
    /\ UNCHANGED <<queues, world, rec, hnd, scl, clt, trouble>>

\* Any other status change: readiness lost, or a heartbeat.
StatusUpdate(w) ==
    /\ server[w].phase = "live" /\ server[w].ready
    /\ Disturb("status")
    /\ \E r \in BOOLEAN : Write(w, [server[w] EXCEPT !.ready = r])
    /\ UNCHANGED <<queues, world, rec, hnd, scl, clt>>

\* Somebody deletes the pod: a user, a node drain, an eviction.
PodDeleted(w) ==
    /\ server[w].phase = "live"
    /\ Disturb("delete")
    /\ Delete(w)
    /\ UNCHANGED <<queues, world, rec, hnd, scl, clt>>

PodReaped(w) ==
    /\ Reap(w)
    /\ UNCHANGED <<queues, world, rec, hnd, scl, clt, trouble>>

\* The process dies and its successor starts from the API server's state: the
\* informers report every object as added.
Crash ==
    /\ Disturb("crash")
    /\ Relist
    /\ wq' = {w \in Pods : server[w].phase # "absent" /\ Idle(server[w])}
    /\ workerQueue' = <<>> /\ requestQueue' = <<>>
    /\ shellQ' = exists \cup ({server[w].owner : w \in Pods} \ {None})
    /\ rec' = RecIdle /\ hnd' = HndIdle /\ scl' = SclIdle /\ clt' = CltIdle
    /\ UNCHANGED world

RecSteps == Reconcile \/ RemoveFinalizer
HndSteps == HandleMiss \/ HandleHit \/ HandleRemove
SclSteps == (\E w \in Pods : ScaleInDelete(w)) \/ ScaleInRemove
CltSteps == BorrowUpdate \/ BorrowRemove \/ BackRead \/ BackDelete \/ BackUpdate \/ BackAdd

PoolNext ==
    \/ \E w \in Pods :
          \/ PodEvent(w) \/ ProcessNext(w) \/ BecomeReady(w)
          \/ StatusUpdate(w) \/ PodDeleted(w) \/ PodReaped(w)
    \/ RecSteps \/ HndSteps \/ SclSteps \/ CltSteps
    \/ Tick \/ SignalFromReconcile \/ SignalFromClient \/ ScaleInList

(***************************************************************************)
(* Properties of the pool whoever calls it.                                *)
(***************************************************************************)
\* The shape of the pool's own state.
PoolTypeOK ==
    /\ StoreTypeOK
    /\ wq \subseteq Pods /\ shellQ \subseteq Shells /\ exists \subseteq Shells
    /\ workerQueue \in Seq(Pods) /\ requestQueue \in Seq(Requests)
    /\ rec \in [pc : RecPCs, pod : Pods \cup {None}]
    /\ hnd \in [pc : HndPCs, todo : Seq(Requests)]
    /\ scl \in [bad : SUBSET Pods, idle : SUBSET Pods, gone : SUBSET Pods]
    /\ clt \in [pc : CltPCs, op : {"none", "borrow", "back"}, shell : Shells \cup {None},
                pod : Pods \cup {None}, req : BOOLEAN,
                ok : {"none", "ok", "error", "notworker"}]
    /\ trouble \in 0 .. MaxTrouble

\* A pod's labels and finalizer agree.  A worker in the pool carries the pool's
\* finalizer, so that its deletion passes through reconcile and takes it out of
\* the worker queue; a borrowed one does not, so that nothing keeps it when it
\* is deleted; and a borrowed one no longer counts as created for a request,
\* which would keep handleRequestQueue from creating the next one.
Coherent(p) ==
    /\ p.phase = "live" => (p.fin <=> Idle(p))
    /\ p.fin => Idle(p)
    /\ ~Idle(p) => p.req = None

WorkersCoherent == \A w \in Pods : Coherent(server[w])

\* The worker pods live the life WorkerLife promises, whatever the goroutines, the
\* kubelets and users do to them through cached copies: no Update takes back a
\* deletion, no idle worker is without the finalizer, and reconcile alone lets a
\* deleted idle worker go.
Life == INSTANCE WorkerLife WITH
          Workers <- Pods,
          life <- [w \in Pods |-> [phase |-> server[w].phase, owner |-> server[w].owner,
                                  guarded |-> server[w].fin]]
PoolKeepsLife == Life!LSpec

\* A scale-in pass (worker_pool.go:322-352) leaves at least core idle workers of
\* those it listed, and takes at least one away when there are more.
ScaleInKeepsCore ==
    [][ScaleInList =>
         LET n == Cardinality(IdleListed)
             kept == Cardinality(IdleListed \ scl'.idle)
         IN  /\ kept >= (IF n < CoreLimit THEN n ELSE CoreLimit)
             /\ n > CoreLimit => kept < n]_vars

\* A ready worker that nobody owns comes to be offered: whatever reconcile, Back,
\* Borrow, scale-in and a restart do to the worker queue, the pool does not
\* forget it.
IdleReady(w) == server[w].phase = "live" /\ server[w].ready /\ Idle(server[w])
IdleWorkersOffered ==
    \A w \in Pods : IdleReady(w) ~> (w \in ToSet(workerQueue) \/ ~IdleReady(w))

\* A deleted worker goes away: reconcile removes the finalizer, whoever deleted
\* the pod and whatever Borrow or Back were doing with it.
DeletedWorkersGo == \A w \in Pods : server[w].phase = "deleting" ~> server[w].phase = "absent"

\* Nobody stays blocked on the unbuffered matchRequestSignal (worker_pool.go:223,
\* 364, 474).
SendersProceed ==
    /\ rec.pc = "signal" ~> rec.pc # "signal"
    /\ clt.pc \in {"b_signal", "k_signal"} ~> clt.pc \notin {"b_signal", "k_signal"}

\* The request of a cloudshell that has been deleted is dropped.
StaleRequestsDropped ==
    \A r \in Requests :
        (r \in ToSet(requestQueue) /\ r.shell \notin exists)
            ~> (r \notin ToSet(requestQueue) \/ r.shell \in exists)
=============================================================================
