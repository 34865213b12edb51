# Verification of CloudTTY

CloudTTY is a Kubernetes operator. A user creates a `CloudShell` object; the
operator gives it a *worker* (a pod that can run ttyd), routes HTTP to the worker,
starts ttyd in it with a kubeconfig, and takes all of that back when the
cloudshell is deleted or its time to live is over. This directory holds TLA+
models of the operator's own logic, the TLC configurations that check them, and
TLAPS proofs. `PROJECT.json` ties every definition to the lines it models and
lists runs, mutants, findings, hazards and theorems.

Paths below are relative to the repository.

## 1. Inventory

| component | source | state it keeps | operations |
|---|---|---|---|
| queue | `pkg/workerpool/queue.go` | slice `queue`, set `dirty`, an RWMutex | Add, Len, Get, Remove, Has, All |
| worker pool | `pkg/workerpool/worker_pool.go`, `pkg/utils/pod.go` | `workerQueue`, `requestQueue`, a work queue of pod keys, the unbuffered channel `matchRequestSignal`; the workers' labels and finalizer at the API server | Borrow, Back (called by the controller), reconcile, handleRequestQueue, scaleInWorkerQueue (goroutines), the pod event handler |
| controller | `pkg/controllers/cloudshell_controller.go` | the work queue with back-off and timers; labels, finalizer, secretRef and status of cloudshells; services, ingress paths, virtual service routes | syncHandler and what it calls, two event handlers |
| manager | `cmd/main.go`, `cmd/app` | the lease of the leader election | elects one replica, which starts one controller goroutine, the pool's goroutines and two informers with resync 0; stops them on SIGTERM |
| API types | `pkg/apis` | - | the fields of a cloudshell |
| scripts | `docker/cloudshell/script` | ttyd, kubeconfig and history inside a worker | startup.sh, reset.sh |
| browser terminal | `html/src` | web socket, Enter handlers, `reconnect`, `doReconnect`, count of pending writes | connect, reconnect on Enter, write output, pause and resume ttyd |
| rest | manifests, options, helpers, generated clients | - | pure or generated |

**How they interact.** The controller goroutine calls `Borrow` and `Back`
synchronously. When there is no worker, Borrow queues a request and signals the
handler over the channel; the handler creates a worker, and when one is in
`workerQueue` puts the cloudshell's key into the controller's work queue. Pods
reach both parties through one shared informer: the pool takes the events of pods
whose owner label is empty, the controller those of owned pods. Everything else
is shared state: the objects at the API server, protected by resource versions,
and the informers' caches. **Borrow, Back and the controller change objects of
the cache in place** and then send them, so an Update that fails leaves the cache
different from the server.

**What is hard.** Four goroutines, two informers and kubelets act on the same
pods; decisions are made on cached or copied objects that are stale when used; an
Update may be refused, fail, or succeed with its answer lost; the process may
restart at any point and its queues, timers and requests are in memory only; a
channel without buffer links three senders to one receiver; a cloudshell is
released in several steps, each of which can fail and is retried. The full list
is "hazards" in `PROJECT.json`. Between replicas of the manager, time matters: a
leader that cannot renew must be gone before another may think the lease expired.
In the browser, callbacks of a lost connection's output arrive in the next one.

**What makes each component correct.** The queue: each call is atomic, `dirty`
mirrors the slice, every call returns. The pool: a worker belongs to at most one
cloudshell, label and finalizer agree, an idle worker is offered and a waiting
cloudshell served, a deleted worker goes away, nobody blocks on the channel,
scale-in keeps the core. The controller: a worker goes back reset, a Ready
cloudshell is reachable, a lost worker is noticed, a deleted cloudshell releases
worker and route and disappears, a TTL is honoured across restarts. The manager: one replica works, and never
nobody for ever. The terminal: one connection, and output that was paused goes on.

## 2. Modules

| module | models |
|---|---|
| `OrderedSet` | abstract: what the queue promises, atomic calls on one ordered set |
| `Queue` | `queue.go` at the granularity of lock operations and statements |
| `QueueProofs` | theorems about `Queue` |
| `ApiStore` | external: API server, watch stream, informer cache, and one pointer into the cache |
| `PodStore` | external: an `ApiStore` of worker pods |
| `WorkerLife` | abstract: the life of a worker, seen from the API server |
| `WorkerPool` | the pool's goroutines, Borrow, Back, pod events, restart |
| `PoolClient` | `WorkerPool` closed with the discipline of its caller |
| `PoolProofs` | theorems about `PoolClient`, hence about `WorkerPool` under its caller; `WorkerPool` implements `WorkerLife` |
| `StreamFacts` | lemmas about watch streams, for the proofs about pool and controller |
| `ShellLife` | abstract: the life of a cloudshell, seen from the API server |
| `Controller` | the controller goroutine, with the pool reduced to what it sees |
| `ControllerProofs` | theorems about `Controller`: what guards a deleted cloudshell, what users write |
| `ControllerResetProofs` | the theorem that workers go back reset |
| `ControllerLifeProofs` | `Controller` implements `ShellLife`; no wake-up is lost |
| `Manager` | replicas of the manager and their leader election |
| `ManagerProofs` | theorems about `Manager` |
| `Terminal` | the terminal page: socket, reconnection, flow control |
| `TerminalProofs` | theorems about `Terminal` |
| `MCQueue`, `MCPool`, `MCController` | instances for TLC |

### Queue and OrderedSet

A thread is `idle` or inside one method; `pc` says where. `Lock` is two steps
(announce, then wait for the readers inside), because Go's RWMutex turns new
readers away as soon as a writer has announced itself: that is what makes a
nested `RLock` a deadlock (the comment at `queue.go:115`). Writers have two steps
in the critical section, one for the slice and one for `dirty`; `All` copies one
element per step. The refinement mapping takes the slice for the abstract set and
shows a call's result from the step that last touches the slice.

### ApiStore and PodStore

`server` holds the stored objects, `watch` the versions of each object that the
informer has not seen, `cache` the informer's objects. Resource versions are not
counted; `cur` holds the names whose cached object still has the server's, and
`ptr` is the one object the controller goroutine holds from a lister: `ptr.alias`
says that it is still the cache's object, so that writing to it writes to the
cache, `ptr.cur` that an Update of it would be accepted. An Update has four
outcomes: accepted, refused (resource version, absent object, or a finalizer
added to an object being deleted), failed, and accepted with the answer lost.
Deletion of an object with a finalizer only marks it.

### WorkerPool and PoolClient

| code | state or actions |
|---|---|
| `w.queue`, `processNextCluster`, `reconcile` | `wq`, `rec`; `ProcessNext`, `Reconcile`, `RemoveFinalizer`, `SignalFromReconcile` |
| `tryHandleRequestQueue`, `handleRequestQueue` | `hnd`; `Tick`, `HandleMiss`, `HandleHit`, `HandleRemove` |
| `scaleInWorkerQueue` | `scl`; `ScaleInList`, `ScaleInDelete`, `ScaleInRemove` |
| `Borrow` | `clt`; `Borrow`, `BorrowUpdate`, `BorrowRemove`, `SignalFromClient` |
| `Back` | `clt`; `Back`, `BackRead`, `BackDelete`, `BackUpdate`, `BackAdd`, `SignalFromClient` |
| event handlers | `PodEvent` |
| a new process | `Crash` |

A step is one access to shared state. The two queues are atomic objects, which
`Queue!Refinement` justifies. `reconcile` decides on a copy of the pod, so its
decision is kept in `rec.pc` while the pod moves on. The pool's own `sync.Mutex`
is taken by one goroutine only and is left out. Abstracted: namespace and image
of a worker are one class (`ImageOf`), keys are pod names, "unready for half an
hour" is "unready", the sorted order of scale-in candidates is any order, the
binding count label and the worker's ClusterIP service are left out.

`PoolClient` is the caller as the pool sees it: Borrow for a cloudshell without
worker, Back for one that is deleted or whose worker is not ready. `caller.bound`
is what the cloudshell remembers; it survives a restart, as the label does. The
Update that records it may fail (`Finish`): then the worker is still in the cached
cloudshell, unless it was the conflict with a deletion that made the Update fail.
Users' edits, which can do the same to a live cloudshell, are `Controller`'s.

`WorkerLife` says what all of this promises about one worker: it is created idle
and guarded by the pool's finalizer, lent without it, taken back with it only
while it is not being deleted, marked, let go of, and gone in this order.
`WorkerPool` implements it (`PoolKeepsLife`) with the server's objects as the
abstract state; caches, queues and places in the code disappear.

### Controller

`job.pc` walks through `syncHandler`: `ensure`, `check`, then `borrow`, `label`,
`route`, `secret`, `exec`, `status` on the way up; `reassign`, `unlabel` for a
worker that is not ready; `release`, `reset`, `back`, `unroute`, `unfin` on the
way down, then `delete` or `complete` after a TTL. Each is one call on shared
state. The cloudshell is held through `csPtr` and changed in place. `session[w]`
is the cloudshell whose ttyd runs in worker `w`; `routes` holds services, ingress
paths and virtual service routes, each leading to a worker. `PoolBorrow` and
`PoolBack` do what Borrow and Back do to the pod, in one step: they change the
cached pod (`view`) in place and send it, the server accepts it if the informer has
seen the pod's last version (`podNews` holds the workers of which it has not), and
the write is delivered later as an event of its own, which wakes the owner up. The
races inside the pool are `WorkerPool`'s subject. Back-off (at least two seconds)
and TTL are assumed to outlast the informers' delay, except for the disturbance
`lag`.

A TTL is `none`, `some` or `zero`, which stands for zero and less: neither the CRD
nor `types.go` has a minimum. `nextRequeueTimeDuration` counts from now when there is
no `lastScheduleTime`, so `zero` is over at the first synchronisation: a cloudshell that
never had a worker is completed without a start time. `some` runs out when `Elapse`
says so. The time to come back at is taken at the beginning (`job.why = "later"`),
before `lastScheduleTime` is set, so a timer may fire too early.

`ShellLife` says what users may rely on who see only the API server: a cloudshell is
created, edited and deleted by users; the controller records finalizer, worker and
secret on one that is not being deleted, reports Ready with the time of the start
and Complete with or without one but never forgets it, and takes its finalizer away
only when nothing serves it any more. `Controller` implements it (`ControllerKeepsLife`) with the server's objects as
the abstract state; routes and workers appear only in `Serving`, which says what is
still served. Caches, the held object, queues and places in the code disappear.

### Manager

A process is `down`, `standby`, `leading`, or in one of the states that `Run`
makes possible: `draining` after SIGTERM, when the controllers have stopped but
the election, which runs under `context.TODO()`, renews on; `deaf` for a standby
that got SIGTERM and campaigns all the same; `lost` when RunOrDie has returned and
the process, whose controllers still run, is about to exit. client-go's election
is external: `seen` holds the replicas that know the present record and `age` how
long they have known it (or, for the leader, how old its last renewal is). `Tick`
lets time pass up to the next deadline somebody must meet.

### Terminal

One action per handler of the event loop. `prompts` counts the Enter handlers
that `onSocketClose` registered, `fetching` the token requests that end in
`connect()`. Of the output only the writes with a callback are kept (one per
`limit` bytes); `marks` are the callbacks xterm owes, `down`, `up` and `paused`
the connection and the ttyd process at its end. A callback that calls `resume()`
while the socket is connecting throws and ends xterm's write loop (`stopped`).

## 3. Disturbances and bounds

`Kinds` names what may go wrong in an instance and `MaxTrouble` how often. Pool:
`status` (readiness lost, or any status write that takes a resource version),
`delete` (a user, a drain), `fault` (an API call fails, or its answer is lost),
`crash`, `scalein`. Controller: `fault`, `crash`, `edit` (a user changes the
spec), `unready`, `evict`, `lag`. One disturbance at any point is already a
single fault at every step of every interleaving. `MaxShells` bounds how many
times a cloudshell is created; two generations let a worker be returned and
borrowed again. Two workers are enough for one to be stale while the other is
good, one image class because classes share only the order of queues. The
controller's passing runs have one cloudshell and one worker, and every property of
theirs is proved for any number, except the two liveness properties,
`LostWorkersNoticed` and `RoutesRemoved`; what a second cloudshell breaks is
`controller_unreachable`. Three
goroutines call the queue in the code, hence three threads and two items.

`Manager`: three replicas, so that there is a candidate besides the one that
takes over; the default durations, 15, 10 and 2 seconds, a tick being a second;
`ExitTime` 2 seconds for an answer under way and the exit; three signals or
crashes, one per replica. `Terminal`: the watermarks of `terminal/index.tsx`, 10 and 4;
`Window` bounds messages in flight, `Backlog` the writes waiting in xterm at three
more than the high watermark, so that PAUSE is sent and more output is on its way.

## 4. Runs

| run | checks | size |
|---|---|---|
| `queue` | `TypeOK`, `DirtyMatchesQueue`, `EveryCallReturns`, `Refinement` | 107 k states |
| `pool_safety` | `TypeOK`, `WorkersCoherent`, `ScaleInKeepsCore`, `PoolKeepsLife` | 479 k |
| `pool_progress` | `IdleWorkersOffered`, `DeletedWorkersGo`, `SendersProceed` | 79 k |
| `pool_service` | `ShellsServed`, `StaleRequestsDropped` | 35 k |
| `controller_guards` | `TypeOK`, `LiveShellsAttended`, `LostWorkersNoticed`, `FinalizerGuards`, `UserWritesStand`, `ControllerKeepsLife` | 978 k |
| `controller_progress` | `RoutesRemoved`, `DeletedShellsAttended`, `WorkersResetFirst`, `DeletedShellsGo`, `TtlHonoured` | 140 k |
| `terminal` | `TypeOK`, `OneConnection`, `PendingExact`, `NoStall`, `OutputResumes` | 10 k |
| `manager` | `TypeOK`, `OneActive`, `SomebodyActive` | 216 k |
| `pool_exclusive` | `WorkersExclusive` is violated | |
| `controller_orphan` | `WorkersReleased` is violated | |
| `controller_stuck` | `DeletedShellsGo` is violated after a failed Update | |
| `controller_unreachable` | `ReadyShellsReachable` is violated after a restart | |

Deadlock is checked for the queue and the manager. Pool, controller and page rest
when no user and no disturbance acts, so their configurations say `CHECK_DEADLOCK
FALSE`; that work in progress is finished is what the liveness properties say.

Four runs show disagreements between the code and what it says of itself:

* `pool_exclusive`: `reconcile` copies an idle pod, Borrow labels it and takes it
  out of the queue, `reconcile` adds it again. The next cloudshell borrows a
  worker that has an owner. No fault is needed, only a pod event just before.
* `controller_orphan`: a cloudshell deleted between Borrow and the Update that
  records the worker's name leaves the worker labelled with a dead owner; it is
  never returned, reset or scaled in.
* `controller_stuck`: `removeFinalizer` changes the cached object, the Update
  fails, and the retry sees no finalizer to remove, until the process restarts or the
  informer lists again.
* `controller_unreachable` (two cloudshells, one worker, one restart): the label that
  names the worker goes from the server only together with the finalizer. A restart
  between Back and that Update leaves a deleted cloudshell whose label names the
  worker it gave back. The successor may serve another cloudshell first, which
  borrows the worker and becomes Ready; then it synchronises the deleted one, resets
  that worker and gives it back again. The Ready cloudshell is not woken up, because
  the pod no longer names it.

Reasons of the same sort bound the passing runs: `pool_progress` has no faults (a
failed Get in `reconcile`, line 206, drops the removal of the finalizer), and
`controller_progress` has neither faults nor loss of readiness (`controller_stuck`; a
failed reset is only logged; readiness is read twice).
Further facts the models show when their constants are changed:

* `pool_service` with `delete` in `Kinds`: the handler wakes the cloudshell and
  then removes its request. If the worker is deleted in between, the woken
  cloudshell's Borrow finds its request still there, and then it is removed:
  `ShellsServed` fails.
* `pool_progress` with `fault` and two disturbances: the failed Get after a deletion,
  `DeletedWorkersGo` fails.
* `RoutesRemoved` with `edit` and two modes: only the route of the present exposure
  mode is removed.
* `RoutesRemoved` with `fault`, or with one more creation and an eviction: a cloudshell
  is deleted before `ensureCloudShell`'s Update arrives, so the server lets it go at
  once, but the finalizer is in the cached object. If its key is taken again before
  the cache hears of the deletion (Borrow's own write enqueues it), nothing calls the
  server until a route has been added, and nobody removes that.

### Fairness

`Queue`: a goroutine inside a method keeps running (WF); Go's mutex hands itself
to a waiter that starved for a millisecond (SF of `Lock`). `PoolClient`,
`Controller`: informers deliver, kubelets start and stop containers, runnable
goroutines run (WF). client-go's work queue is first-in first-out and a `select`
chooses at random among ready cases, so a key or a blocked sender is not passed
over for ever (SF). Timers fire (WF). Users and disturbances owe nothing; in
particular nothing forces a deletion, an edit or a TTL to happen.

`Terminal`: the event loop runs handlers that are due and the network delivers
(WF of `ZmodemWrite`, `WriteCallback`, `Control`); connections may break or stay as
they like. `Manager`: time passes, candidates poll, the kubelet kills after the
grace period and restarts what ended (WF). Renewals owe nothing and may fail for
ever.

## 5. Proofs

`QueueProofs` proves, for any set of goroutines and items:

* `QueueConsistent`: `Spec => [](TypeOK /\ DirtyMatchesQueue)`;
* `QueueTyped`: `Spec => []TypeOK`;
* `QueueRefines`: `Spec => Refinement`, that is, every behaviour of the queue is a
  behaviour of `OrderedSet`.

`DirtyMatchesQueue` is not inductive: inside a critical section slice and set
differ. The invariant `IInv` adds who holds the lock (`LockInv`: one writer, no
reader beside a writer past `announced`), which methods may be where (`OpInv`),
by exactly which item slice and set differ half way (`DataInv`), and what the
result holds while a call runs (`ResultInv`; for `All`, a prefix of the slice, which
no writer can change meanwhile). The proof has a lemma for lock steps, one for
writers' and one for readers' bodies; the refinement has one lemma for the steps
that take effect, one for returns and one for stuttering steps.

No assumption on the constants is needed: threads and items are arbitrary sets.

`PoolProofs` proves, for any number of pods, cloudshells, images and disturbances
and any limits:

* `PoolWorkersCoherent`: `CSpec => []WorkersCoherent`;
* `PoolTyped`: `CSpec => []TypeOK`;
* `PoolKeepsCore`: `CSpec => ScaleInKeepsCore`, from the cardinality of a
  difference and the arithmetic of `ScaleNumber`.

The invariant behind the first two (`PoolInvariant`, with `IInv`; TLC checked it
on the instance of `pool_safety` first) says what `WorkersCoherent` leaves out.
`reconcile` takes the finalizer away on the word of a copy it read earlier, which
is harmless only if the pod is still being deleted by then. So `DeletionKnown`
says that a deletion seen in the cache, in an undelivered version or through the
pointer is true at the server, and `PcInv` carries it to the goroutine's next
steps. That this knowledge lasts needs more, because Borrow and Back send the
whole object back: `VersionsAgree` says that an object with the server's resource
version has the server's phase, hence an Update of an outdated live object cannot
be accepted and revive the pod. `PcInv` also says what each goroutine holds at
each place. The proof has one lemma per operation of the store (`WriteInv`,
`UpdateInv`, `DeliverInv`, ...), and one per group of actions: those that leave
the store alone, those of kubelets and users, the pool's writes, and each step of
Borrow and Back. The assumptions are `PoolAssumption` and `ClientAssumption`:
finitely many pod names, `None` is neither a pod nor a cloudshell, the bounds are
natural numbers, every pod and cloudshell has an image.

`PoolProofs` also proves `PoolRefinesLife`: `CSpec => PoolKeepsLife`, the refinement of
`WorkerLife`, under the same assumptions. It rests on `PoolInvariant` and one
more conjunct (`Vacant`: a name without pod holds nothing else). Each write of the
pool, its caller, users and kubelets is shown to replace one pod by a record that
`WorkerLife` allows next (`Replaces`), and everything else to leave the server
alone. `DeletionKnown` is what makes `RemoveFinalizer` a `LetGo`, and `VersionsAgree`
what makes an accepted Update of Borrow a `Lend` and one of Back a `TakeBack`.

`ManagerProofs` proves `Spec => []OneActive` and `Spec => []TypeOK` for any number of
replicas and stops and all durations with RetryPeriod + RenewDeadline + ExitTime <
LeaseDuration (`ManagerAssumption`; client-go itself only asks for RenewDeadline <
LeaseDuration and RetryPeriod < RenewDeadline). `LeaseInv` is the strengthening:
whoever was elected and has not exited holds the lease, nobody has known the
record for longer than it has, and its own age is within its deadline. So nobody
can see the lease expired before it is gone.

`TerminalProofs` proves `OneConnection`, `PendingExact`, `NoStall` and `TypeOK` for
all watermarks with lowWater <= highWater and any amount in flight. `NoStall` needs
`PendingExact` (PAUSE is decided on `pending`, the promise is about the callbacks)
and `WireInv`: a connection that is not open has nothing on its wire, so a RESUME
that could not be sent is missed by nobody.

`ControllerProofs` proves, for any number of cloudshells, workers, specs, creations
and disturbances of every kind, from `ControllerAssumption` alone (`None` is neither a
cloudshell nor a worker, a spec has one of the three modes, bounds are natural
numbers):

* `ControllerTyped`: `Spec => []TypeOK`;
* `ControllerFinalizerGuards`: `Spec => FinalizerGuards`;
* `ControllerUserWritesStand`: `Spec => UserWritesStand`.

All three follow from `ControllerInvariant`. The two action properties speak of the
server's object at the moment an Update is accepted, whereas the goroutine decided
from a cached object that it has changed since, so `IInv` says how the two may
differ. `VersionsAgree`: an object (cached, held, last in the stream) with the
server's resource version has its phase and spec, and one that is being deleted
names the server's worker unless that worker was given back and its name cleared
here first. That exception must not be undone: `CacheUntouched` says that the
goroutine has not cleared the worker of a deleted object while it works with a live
one, so that a Borrow cannot make the worker the cloudshell's own again behind it.
`OwnedKnown` (a worker with an owner is in the lister's cache) covers the path where
`GetBindingWorkerFor` finds nothing, which must mean that there is nothing to give
back, and that it is as ready there as at the server once its last version has been
seen; `DeletingGuarded` leaves `removeFinalizer` as the only step by which a deleted
cloudshell disappears; `PcInv` carries what has been released from place to place.
TLC looked at `IInv` on instances with two cloudshells and with two disturbances
before it was proved.

`ControllerResetProofs` proves `ControllerResetsFirst`: `Spec => WorkersResetFirst`, for
any number of cloudshells and workers, if `Kinds` holds only restarts, edits,
evictions and late events. The hypothesis is what the code needs: a failed reset is
only logged, and a worker that is not ready may become ready again between the
check and Back. The invariant follows names: whatever worker a label, a cached
object, a version in the stream or the goroutine names is ready or gone
(`NamedReady`), since names enter labels through Borrow only and the pool does not
reuse them. Hence a reset fails only in a worker that is gone, and `Reassign` is
never reached.

`ControllerLifeProofs` proves, from `ControllerAssumption` and for every kind of
disturbance, `ControllerRefinesLife`: `Spec => ControllerKeepsLife`. `ControllerInvariant` says
that an object the server accepts has the server's phase and spec; that the write is
also one of `ShellLife`'s needs to know what the object carries besides. `SecretsKept`:
an object with the server's resource version has lost neither the reference to the
secret nor the time of the start, so that an Update cannot forget the one nor a status
the other. `Carries`: past `ensureCloudShell` the held object has the finalizer; past `exec`
it says Ready and when it was started. A cloudshell that is removed because of its TTL
need not have been started, since a TTL of zero is over at once; for it, `Dated` says
that the object has the time if the server's cloudshell has one, whatever its resource
version, because Complete is reported after a conflict from whatever object the lister
has by then. The step that takes the finalizer away is a `LetGo` because of what `PcInv`
says has been released by then. `SaveOutcome` states once what a `c.Update` of the held
object may do to the server; each action then names the step of `ShellLife` it takes.

The same module proves the safety part of the liveness properties, that no wake-up is
lost:

* `ControllerLiveAttended`: `Spec => []LiveShellsAttended`, for every kind of disturbance;
* `ControllerDeletedAttended`: `Spec => []DeletedShellsAttended`, if no call fails.

Whether an update is enqueued is decided when it is delivered, by comparison with a
cached object that the goroutine has changed in place, so it must be shown that these
changes hide nothing. `StreamTells` looks at all versions in a stream at once: the stream
ends with the server's object, and if that is live, each version that is not live is
followed by one that will be enqueued (`FiresAfter`), whatever becomes of secrets meanwhile.
The goroutine never changes phase or spec of a cached object (`Flows`), so this lasts until
delivery, when `Enqueues` says yes or a later version remains (`CatchTells`). `LiveOf` then
follows one key: queued, waiting, in back-off or pending in the stream, or in the
goroutine's hands with what it will do at the end, or served. Whether the goroutine
will set a timer is decided at the beginning, from the spec of then; `SpecSeen` says
that if the cached spec has changed since, or has a TTL that was not there, the key is
queued again. For deleted cloudshells
`FinCached` is needed besides: `removeFinalizer` takes the finalizer out of the cached
object before it asks the server, and the next synchronisation of that object asks for
nothing. It does no harm as long as an object with the server's resource version still
has its finalizer, for then a newer version is on its way. A failing call breaks exactly
this, which `controller_stuck` shows; the hypothesis cannot be dropped. TLC looked at both
invariants before they were proved, on instances with two creations and two disturbances.

The proofs found one error in the model: `PoolBack` used to write the whole cached
state of all workers to the server instead of the one pod. No property noticed on
the instances of the runs, but `FinalizerGuards` could not be proved.

Only model-checked:

* every liveness property: fairness and ENABLED are beyond the prover. Of
  `DeletedShellsGo` and `TtlHonoured` the theorems `ControllerDeletedAttended` and
  `ControllerLiveAttended` give what a step could destroy for good: the key that brings
  the cloudshell back;
* `LostWorkersNoticed`, for one cloudshell and one worker under any one disturbance;
* `RoutesRemoved`, which is false in general (see section 4), so there is no theorem to
  prove. What remains true of it for every instance is the second half of
  `FinalizerGuards`.

The violations are counterexamples and need no proof.

## 6. Not modelled

Time as a quantity outside `Manager`, access URLs, templates, options, host
validation, generated clients, the worker's own service, the ClusterIP exposure
mode (for which `CreateRouteRule` has no case), a virtual service without
configuration (an error on every attempt), informer tombstones, panics, the pprof
server, `--leader-elect=false`. Of the page: ZMODEM transfers, the upload and
download dialogs, rendering, resizing and titles. Two replicas inside `WorkerPool`
and `Controller`: `OneActive` is what makes one enough. Cloudshells of the same name
in two namespaces that share an ingress, which `SetRouteRulePath` gives one path: a
name is an identity in the models. What is left of the source is
generated (`pkg/generated`, deep copies), text (`pkg/manifests`) or evaluated once
before any state exists (`cmd/app/options`), with nothing to interleave.

## 7. State of the plan

Done: inventory; `Queue` with its refinement and proofs; `WorkerPool` and `PoolClient` with
proofs and the refinement of the abstract `WorkerLife`; `Controller` with proofs of its
safety, of the refinement of the abstract `ShellLife` and of the wake-ups; `Manager` and
`Terminal` with proofs.

Not done, and why: a theorem about `RoutesRemoved`. It would have to exclude edits, late
events and refused or failed Updates (after one of those the server may lack the
finalizer that the cached object has, while a route is added), and what remains is the
second half of `FinalizerGuards`. That `PoolBorrow` and `PoolBack` allow everything `WorkerPool` does to one
worker does not hold by intent: `Controller` lends only workers whose cached object is up
to date, and the races that lend others are what `pool_exclusive` shows. A model of the
worker's own service would be an extension of `Controller`.
