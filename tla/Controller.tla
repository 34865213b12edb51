----------------------------- MODULE Controller -----------------------------
(***************************************************************************)
(* pkg/controllers/cloudshell_controller.go: the one goroutine that        *)
(* synchronises cloudshells.  A step is one access to shared state: an API *)
(* call, an exec in a worker, a call of the worker pool, a read of the pod *)
(* lister.  The cloudshell is the lister's object, changed in place and    *)
(* sent to the server: an ApiStore with a pointer into the cache.          *)
(*                                                                         *)
(* The worker pool is reduced to what the goroutine sees of it: Borrow and *)
(* Back are single steps (WorkerPool.tla models their inside).             *)
(***************************************************************************)
EXTENDS Naturals, Sequences, FiniteSets

CONSTANTS Shells, Workers, None,
          Specs,         \* the specs users give: [mode, prefix, ttl, cleanup]; a ttl is not
                         \* set, some time or "zero", which stands for zero and less
          Kinds,         \* the disturbances that may happen
          MaxTrouble,    \* how many of them
          MaxShells      \* how many times a cloudshell is created

ASSUME ControllerAssumption ==
    /\ None \notin Shells /\ None \notin Workers
    /\ \A sp \in Specs : /\ sp.mode \in {"NodePort", "Ingress", "VirtualService"}
                         /\ sp.ttl \in {"none", "some", "zero"} /\ sp.cleanup \in BOOLEAN
    /\ Kinds \subseteq {"fault", "crash", "edit", "unready", "evict", "lag"}
    /\ MaxTrouble \in Nat /\ MaxShells \in Nat

VARIABLES cs, csWatch, csCache, csCur, csPtr,   \* the cloudshells, see ApiStore
          csQ,         \* c.queue
          backoff,     \* keys waiting in AddRateLimited, at least two seconds
          timers,      \* keys waiting in AddAfter for the TTL
          elapsed,     \* cloudshells whose TTL has run out since their lastScheduleTime
          pods,        \* the workers at the API server; one that is gone keeps its owner,
                       \* which the event of its deletion carries
          podNews,     \* the workers of which the pod informer has not seen the last version
          view,        \* the workers in the pod informer's cache, changed in place by the pool
          session,     \* the cloudshell whose ttyd runs in each worker
          waiting,     \* cloudshells in the pool's request queue
          routes,      \* services, ingress paths and virtual service routes
          job,         \* the goroutine
          created,     \* creations so far
          trouble      \* disturbances so far

csStore == <<cs, csWatch, csCache, csCur, csPtr>>
workers == <<pods, podNews, view, session, waiting>>
clock == <<backoff, timers, elapsed>>
budget == <<created, trouble>>
vars == <<csStore, csQ, clock, workers, routes, job, budget>>

ShellRec == [phase   : {"absent", "live", "deleting"},
             fin     : BOOLEAN,                  \* finalizer, and defaults filled in
             pod     : Workers \cup {None},      \* label naming the bound worker
             spec    : Specs \cup {None},
             secret  : BOOLEAN,                  \* spec.secretRef
             started : BOOLEAN,                  \* status.lastScheduleTime
             status  : {"none", "Ready", "Complete"}]

NoShell == [phase |-> "absent", fin |-> FALSE, pod |-> None, spec |-> None,
            secret |-> FALSE, started |-> FALSE, status |-> "none"]

API == INSTANCE ApiStore WITH Names <- Shells, Objects <- ShellRec, Gone <- NoShell,
         NoName <- None, server <- cs, watch <- csWatch, cache <- csCache,
         cur <- csCur, ptr <- csPtr

WorkerRec == [phase : {"absent", "live", "deleting"}, owner : Shells \cup {None}, ready : BOOLEAN]
NoWorker == [phase |-> "absent", owner |-> None, ready |-> FALSE]

JobPCs == {"idle", "ensure", "check", "reassign", "unlabel", "borrow", "label", "route",
           "secret", "exec", "status", "release", "reset", "back", "unroute", "unfin",
           "complete", "delete", "ok", "later", "error"}
JobIdle == [pc |-> "idle", shell |-> None, worker |-> None, why |-> "none"]

Init ==
    /\ API!StoreInit
    /\ csQ = {} /\ backoff = {} /\ timers = {} /\ elapsed = {}
    /\ pods = [w \in Workers |-> NoWorker] /\ podNews = {} /\ view = pods
    /\ session = [w \in Workers |-> None]
    /\ waiting = {} /\ routes = {} /\ job = JobIdle
    /\ created = 0 /\ trouble = 0

Disturb(kind) == kind \in Kinds /\ trouble < MaxTrouble /\ trouble' = trouble + 1 /\ UNCHANGED created
Fault == Disturb("fault")
NoFault == UNCHANGED budget

me == job.shell
obj == csPtr.obj
Goto(pc) == job' = [job EXCEPT !.pc = pc]
Fail == Goto("error")

\* The API server has done what it was asked; its answer may be lost.
Done(next) == (Goto(next) /\ NoFault) \/ (Fail /\ Fault)

\* A cloudshell whose deletion was requested disappears with its last finalizer.
Final(rec) == IF rec.phase = "deleting" /\ ~rec.fin THEN NoShell ELSE rec

\* Mutant: the object takes over the server's resource version before it is sent.
SaveForced(rec, next) ==
    LET sent == [rec EXCEPT !.status = cs[me].status, !.started = cs[me].started] IN
    \/ cs[me].phase # "absent" /\ API!Write(me, Final(sent)) /\ NoFault /\ Goto(next)
    \/ cs[me].phase = "absent" /\ API!Mutate(rec) /\ NoFault /\ Fail

\* c.Update of the held cloudshell.  Status is a subresource: the server keeps its own.
Save(rec, next) ==
    LET sent == [rec EXCEPT !.status = cs[me].status, !.started = cs[me].started] IN
    \/ API!UpdateOK(sent, Final(sent)) /\ NoFault /\ Goto(next)
    \/ ~API!Accepts(rec) /\ API!Mutate(rec) /\ NoFault /\ Fail
    \/ /\ API!UpdateLost(rec, Final(sent)) \/ (API!Accepts(rec) /\ API!Mutate(rec))
       /\ Fault /\ Fail

(***************************************************************************)
(* The informers.                                                          *)
(***************************************************************************)
\* Mutant: the deletion timestamp is not looked at.
EnqueuesSpecOnly(old, new) ==
    \/ old.phase = "absent" \/ new.phase = "absent"
    \/ old.spec # new.spec \/ old.secret # new.secret

\* Additions and deletions are enqueued, updates when the spec changed or the
\* cloudshell is being deleted; the old object is the one in the cache, with
\* everything the goroutine has done to it.
Enqueues(old, new) ==
    \/ old.phase = "absent" \/ new.phase # "live"
    \/ old.spec # new.spec \/ old.secret # new.secret

ShellEvent(s) ==
    /\ API!Deliver(s)
    /\ csQ' = IF Enqueues(csCache[s], Head(csWatch[s])) THEN csQ \cup {s} ELSE csQ
    /\ UNCHANGED <<clock, workers, routes, job, budget>>

\* Mutant: deletions of pods are not handled.
PodEventNoDelete(w) ==
    /\ w \in podNews
    /\ podNews' = podNews \ {w}
    /\ view' = [view EXCEPT ![w] = pods[w]]
    /\ csQ' = IF pods[w].phase = "absent" THEN csQ ELSE csQ \cup ({pods[w].owner} \ {None})
    /\ UNCHANGED <<csStore, clock, pods, session, waiting, routes, job, budget>>

\* enqueueCloudshellForPod, also for the pool's own writes.  Versions that the
\* informer has not seen when another one follows are delivered with it.
PodEvent(w) ==
    /\ w \in podNews
    /\ podNews' = podNews \ {w}
    /\ view' = [view EXCEPT ![w] = pods[w]]
    /\ csQ' = csQ \cup ({pods[w].owner} \ {None})
    /\ UNCHANGED <<csStore, clock, pods, session, waiting, routes, job, budget>>

(***************************************************************************)
(* The worker pool.  Borrow and Back change the cached pod in place before *)
(* they send it, so the change stays when the server refuses it.           *)
(***************************************************************************)
\* A write that changes nothing gives no event.
PodWrite(w, rec) ==
    /\ pods' = [pods EXCEPT ![w] = rec]
    /\ podNews' = IF rec = pods[w] THEN podNews ELSE podNews \cup {w}
PodKept == UNCHANGED <<pods, podNews>>

\* The answer to a call of the API server; it may be lost.
Answered(result) == (result = "ok" /\ NoFault) \/ (result = "error" /\ Fault)
Refused(result) == result = "error" /\ NoFault
Lost(result) == result = "error" /\ Fault

\* A worker in the pool's queue whose cached object has the server's version.
Available(w) == pods[w] = [phase |-> "live", owner |-> None, ready |-> TRUE] /\ w \notin podNews

\* Borrow of a worker: the pool may not have heard of its last version (the retries
\* send the same object, so the conflict stays), and it may have the key of a worker
\* that is gone.
PoolBorrow(w, result) ==
    \/ view[w].phase = "absent" /\ PodKept /\ UNCHANGED view /\ Refused(result)
    \/ /\ view' = [view EXCEPT ![w].owner = me]
       /\ \/ Available(w) /\ PodWrite(w, [pods[w] EXCEPT !.owner = me]) /\ Answered(result)
          \/ Available(w) /\ PodKept /\ Lost(result)
          \/ /\ w \in podNews /\ view[w].phase = "live" /\ view[w].ready /\ view[w].owner \in {None, me}
             /\ PodKept /\ Refused(result)

\* Back: a worker that is not ready, or one too many, is deleted; any other gets
\* the pool's finalizer back, which the server refuses to one that is being
\* deleted.  A conflict is retried until the attempts are used up.
PoolBack(w, result) ==
    \/ view[w].phase = "absent" /\ PodKept /\ UNCHANGED view /\ result = "ok" /\ NoFault
    \/ /\ view[w].phase # "absent" /\ UNCHANGED view
       /\ \/ /\ pods[w].phase # "absent"
             /\ PodWrite(w, [pods[w] EXCEPT !.phase = "deleting"]) /\ Answered(result)
          \/ pods[w].phase = "absent" /\ PodKept /\ Refused(result)
          \/ PodKept /\ Lost(result)
    \/ /\ view[w].phase # "absent" /\ view[w].ready
       /\ view' = [view EXCEPT ![w].owner = None]
       /\ \/ /\ w \notin podNews /\ (pods[w].phase = "live" \/ pods[w].owner = None)
             /\ PodWrite(w, [pods[w] EXCEPT !.owner = None]) /\ Answered(result)
          \/ (w \in podNews \/ pods[w].phase # "live") /\ PodKept /\ Refused(result)
          \/ PodKept /\ Lost(result)

\* handleRequestQueue wakes the cloudshell up, or drops the request of one that
\* is gone, and otherwise creates a worker.
PoolWakes(s) ==
    /\ s \in waiting /\ \E w \in Workers : Available(w)
    /\ waiting' = waiting \ {s}
    /\ csQ' = IF cs[s].phase = "absent" THEN csQ ELSE csQ \cup {s}
    /\ UNCHANGED <<csStore, clock, pods, podNews, view, session, routes, job, budget>>

\* A name that nothing refers to: the pool draws the names of workers at random.
Fresh(w) ==
    /\ pods[w].phase = "absent" /\ view[w].phase = "absent"
    /\ \A s \in Shells : \A o \in {cs[s], csCache[s]} \cup {csWatch[s][i] : i \in DOMAIN csWatch[s]} :
          o.pod # w
    /\ obj.pod # w /\ job.worker # w
    /\ \A r \in routes : r.to # w

PoolCreates(w) ==
    /\ waiting # {} /\ Fresh(w)
    /\ \A v \in Workers : pods[v].phase # "live" \/ pods[v].owner # None
    /\ PodWrite(w, [phase |-> "live", owner |-> None, ready |-> FALSE])
    /\ session' = [session EXCEPT ![w] = None]
    /\ UNCHANGED <<csStore, csQ, clock, view, waiting, routes, job, budget>>

(***************************************************************************)
(* One synchronisation.                                                    *)
(***************************************************************************)
\* processNextItem and syncHandler: take a key and the lister's object.
Take(s) ==
    /\ job.pc = "idle" /\ s \in csQ
    /\ csQ' = csQ \ {s}
    /\ IF csCache[s].phase = "absent" THEN UNCHANGED <<csStore, job>>
       ELSE /\ API!Hold(s)
            /\ job' = [JobIdle EXCEPT !.shell = s,
                         !.pc = IF csCache[s].phase = "deleting" THEN "release" ELSE "ensure",
                         !.why = IF csCache[s].phase = "deleting" THEN "deleted" ELSE "none"]
    /\ UNCHANGED <<clock, workers, routes, budget>>

\* ensureCloudShell
Ensure ==
    /\ job.pc = "ensure"
    /\ IF obj.fin THEN Goto("check") /\ NoFault /\ UNCHANGED csStore
       ELSE Save([obj EXCEPT !.fin = TRUE], "check")
    /\ UNCHANGED <<csQ, clock, workers, routes>>

\* GetBindingWorkerFor
BindingWorker == IF obj.pod # None /\ view[obj.pod].phase # "absent" THEN obj.pod ELSE None

\* nextRequeueTimeDuration is negative.  Without a lastScheduleTime it counts from
\* now, so that a TTL of zero or less, which the API accepts, is over at once.
TimedOut ==
    \/ obj.spec.ttl = "zero"
    \/ obj.spec.ttl = "some" /\ obj.started /\ me \in elapsed

\* syncCloudShell, up to its first call.  The time to come back at is decided here.
Check ==
    LET w == BindingWorker IN
    /\ job.pc = "check"
    /\ job' = IF TimedOut THEN [job EXCEPT !.pc = "release", !.why = "ttl"]
              ELSE [job EXCEPT !.worker = w,
                      !.why = IF obj.spec.ttl = "none" THEN "none" ELSE "later",
                      !.pc = IF w = None THEN "borrow"
                             ELSE IF view[w].ready THEN "route" ELSE "reassign"]
    /\ UNCHANGED <<csStore, csQ, clock, workers, routes, budget>>

\* The bound worker is not ready: give it back, whatever comes of that, and
\* forget it.
Reassign ==
    /\ job.pc = "reassign"
    /\ \E result \in {"ok", "error"} : PoolBack(job.worker, result)
    /\ API!Mutate([obj EXCEPT !.pod = None])
    /\ Goto("unlabel")
    /\ UNCHANGED <<csQ, clock, session, waiting, routes>>

Unlabel ==
    /\ job.pc = "unlabel"
    /\ Save(obj, "borrow")
    /\ UNCHANGED <<csQ, clock, workers, routes>>

\* Mutant: the result of Borrow is assigned to a variable of the inner scope.
BorrowShadowed ==
    /\ job.pc = "borrow"
    /\ \/ \E w \in Workers : PoolBorrow(w, "ok") /\ Goto("label") /\ UNCHANGED waiting
       \/ \E w \in Workers : PoolBorrow(w, "error") /\ Fail /\ UNCHANGED waiting
       \/ /\ \A w \in Workers : ~Available(w)
          /\ waiting' = waiting \cup {me}
          /\ Goto("ok") /\ NoFault
          /\ UNCHANGED <<pods, podNews, view>>
    /\ UNCHANGED <<csStore, csQ, clock, session, routes>>

Borrow ==
    /\ job.pc = "borrow"
    /\ \/ \E w \in Workers :
            /\ \/ PoolBorrow(w, "ok") /\ job' = [job EXCEPT !.pc = "label", !.worker = w]
               \/ PoolBorrow(w, "error") /\ Fail
            /\ UNCHANGED waiting
       \/ /\ \A w \in Workers : ~Available(w)
          /\ waiting' = waiting \cup {me}
          /\ Goto("ok") /\ NoFault
          /\ UNCHANGED <<pods, podNews, view>>
    /\ UNCHANGED <<csStore, csQ, clock, session, routes>>

Label ==
    /\ job.pc = "label"
    /\ Save([obj EXCEPT !.pod = job.worker], "route")
    /\ UNCHANGED <<csQ, clock, workers, routes>>

\* Where CreateRouteRule puts the route of a cloudshell: a service of its own, or
\* a path (SetRouteRulePath) of the shared ingress or virtual service.
At(s, sp) == [mode |-> sp.mode, prefix |-> IF sp.mode = "NodePort" THEN None ELSE sp.prefix, shell |-> s]
Without(at) == {r \in routes : r.at # at}

\* A path that is already there gets the new backend, otherwise one is added.
Pointed(at, w) == Without(at) \cup {[at |-> at, to |-> w]}

\* CreateRouteRule: one service, ingress or virtual service is read and written.
Route ==
    /\ job.pc = "route"
    /\ \/ routes' = Pointed(At(me, obj.spec), job.worker) /\ Done("secret")
       \/ Fail /\ Fault /\ UNCHANGED routes
    /\ UNCHANGED <<csStore, csQ, clock, workers>>

\* StartupWorkerFor: read the kubeconfig secret, or create one and refer to it.
Secret ==
    /\ job.pc = "secret"
    /\ \/ obj.secret /\ Goto("exec") /\ NoFault /\ UNCHANGED csStore
       \/ ~obj.secret /\ Save([obj EXCEPT !.secret = TRUE], "exec")
       \/ Fail /\ Fault /\ UNCHANGED csStore
    /\ UNCHANGED <<csQ, clock, workers, routes>>

\* A command in the worker the label names; one in a pod that is not ready may
\* fail, one in an absent pod does.
ExecOK(w) == w # None /\ pods[w].phase # "absent"
ExecFails(w) == \/ (w = None \/ pods[w].phase = "absent" \/ ~pods[w].ready) /\ NoFault
                \/ Fault

\* StartupWorker, and the status it leads to.
Exec ==
    /\ job.pc = "exec"
    /\ \/ /\ ExecOK(obj.pod) /\ NoFault
          /\ session' = [session EXCEPT ![obj.pod] = me]
          /\ API!Mutate([obj EXCEPT !.status = "Ready", !.started = TRUE])
          /\ Goto("status")
       \/ ExecFails(obj.pod) /\ Fail /\ UNCHANGED <<csStore, session>>
    /\ UNCHANGED <<csQ, clock, pods, podNews, view, waiting, routes>>

\* UpdateCloudshellStatus: on a conflict, carry the status over to the lister's
\* object of now and try again, until the attempts are used up.
Status ==
    LET kept == [csCache[me] EXCEPT !.status = obj.status, !.started = obj.started] IN
    /\ job.pc = "status"
    /\ \/ /\ csPtr.cur /\ cs[me].phase # "absent"
          /\ API!Write(me, [cs[me] EXCEPT !.status = obj.status, !.started = obj.started])
          /\ Done(IF job.why = "later" THEN "later" ELSE "ok")
       \/ /\ ~csPtr.cur /\ cs[me].phase # "absent" /\ csCache[me].phase # "absent"
          /\ csCache' = [csCache EXCEPT ![me] = kept]
          /\ csPtr' = [name |-> me, obj |-> kept, alias |-> TRUE, cur |-> me \in csCur]
          /\ NoFault
          /\ UNCHANGED <<cs, csWatch, csCur, job>>
       \/ ~csPtr.cur /\ Fail /\ NoFault /\ UNCHANGED csStore
       \/ Fail /\ Fault /\ UNCHANGED csStore
    /\ UNCHANGED <<csQ, clock, workers, routes>>

(***************************************************************************)
(* removeCloudshell, for a deleted cloudshell or for one whose TTL is over.*)
(***************************************************************************)
Release ==
    /\ job.pc = "release"
    /\ job' = [job EXCEPT !.worker = BindingWorker,
                          !.pc = IF BindingWorker = None THEN "unroute" ELSE "reset"]
    /\ UNCHANGED <<csStore, csQ, clock, workers, routes, budget>>

\* Mutant: the worker goes back as it is.
ResetSkipped ==
    /\ job.pc = "reset"
    /\ Goto("back")
    /\ UNCHANGED <<csStore, csQ, clock, workers, routes, budget>>

\* ResetWorker; its failure is only logged.
Reset ==
    /\ job.pc = "reset"
    /\ \/ ExecOK(obj.pod) /\ NoFault /\ session' = [session EXCEPT ![obj.pod] = None]
       \/ ExecFails(obj.pod) /\ UNCHANGED session
    /\ Goto("back")
    /\ UNCHANGED <<csStore, csQ, clock, pods, podNews, view, waiting, routes>>

Back ==
    /\ job.pc = "back"
    /\ \/ PoolBack(job.worker, "ok") /\ API!Mutate([obj EXCEPT !.pod = None]) /\ Goto("unroute")
       \/ PoolBack(job.worker, "error") /\ Fail /\ UNCHANGED csStore
    /\ UNCHANGED <<csQ, clock, session, waiting, routes>>

\* Mutant: only ingress routes are taken out.
UnrouteIngressOnly ==
    LET at == At(me, obj.spec) IN
    /\ job.pc = "unroute"
    /\ routes' = IF obj.spec.mode = "Ingress" THEN Without(at) ELSE routes
    /\ Goto("unfin") /\ NoFault
    /\ UNCHANGED <<csStore, csQ, clock, workers>>

\* Mutant: an expired cloudshell keeps its route until it is deleted.
UnrouteWhenDeleted ==
    LET at == At(me, obj.spec) IN
    /\ job.pc = "unroute"
    /\ routes' = IF obj.spec.mode # "NodePort" /\ job.why = "deleted" THEN Without(at) ELSE routes
    /\ Goto("unfin") /\ NoFault
    /\ UNCHANGED <<csStore, csQ, clock, workers>>

\* removeCloudshellRoute; a service is left to its owner reference.
Unroute ==
    LET at == At(me, obj.spec) IN
    /\ job.pc = "unroute"
    /\ \/ obj.spec.mode = "NodePort" /\ UNCHANGED routes /\ Goto("unfin") /\ NoFault
       \/ obj.spec.mode # "NodePort" /\ routes' = Without(at) /\ Done("unfin")
       \/ obj.spec.mode # "NodePort" /\ Fail /\ Fault /\ UNCHANGED routes
    /\ UNCHANGED <<csStore, csQ, clock, workers>>

\* removeFinalizer, and what follows: nothing, c.Delete or the status Complete.
Unfin ==
    LET next == IF job.why = "deleted" THEN "ok"
                ELSE IF obj.spec.cleanup THEN "delete" ELSE "complete" IN
    /\ job.pc = "unfin"
    /\ IF obj.fin THEN Save([obj EXCEPT !.fin = FALSE], next)
       ELSE Goto(next) /\ NoFault /\ UNCHANGED csStore
    /\ UNCHANGED <<csQ, clock, workers, routes>>

Complete ==
    /\ job.pc = "complete"
    /\ API!Mutate([obj EXCEPT !.status = "Complete"])
    /\ Goto("status")
    /\ UNCHANGED <<csQ, clock, workers, routes, budget>>

Marked(s) == Final([cs[s] EXCEPT !.phase = "deleting"])

DeleteSelf ==
    /\ job.pc = "delete"
    /\ \/ cs[me].phase = "live" /\ API!Write(me, Marked(me)) /\ Done("ok")
       \/ cs[me].phase = "deleting" /\ Goto("ok") /\ NoFault /\ UNCHANGED csStore
       \/ cs[me].phase = "absent" /\ Fail /\ NoFault /\ UNCHANGED csStore
       \/ Fail /\ Fault /\ UNCHANGED csStore
    /\ UNCHANGED <<csQ, clock, workers, routes>>

\* Mutant: the time the handler asks for is ignored.
EndForgetsTimer ==
    /\ job.pc \in {"ok", "later", "error"}
    /\ backoff' = IF job.pc = "error" THEN backoff \cup {me} ELSE backoff
    /\ job' = JobIdle /\ csPtr' = API!NoPtr
    /\ UNCHANGED <<cs, csWatch, csCache, csCur, csQ, timers, elapsed, workers, routes, budget>>

\* processNextItem: retry after an error, come back when the TTL is over.
End ==
    /\ job.pc \in {"ok", "later", "error"}
    /\ backoff' = IF job.pc = "error" THEN backoff \cup {me} ELSE backoff
    /\ timers' = IF job.pc = "later" THEN timers \cup {me} ELSE timers
    /\ job' = JobIdle /\ csPtr' = API!NoPtr
    /\ UNCHANGED <<cs, csWatch, csCache, csCur, csQ, elapsed, workers, routes, budget>>

Sync == \/ Ensure \/ Check \/ Reassign \/ Unlabel \/ Borrow \/ Label \/ Route \/ Secret \/ Exec
        \/ Status \/ Release \/ Reset \/ Back \/ Unroute \/ Unfin \/ Complete \/ DeleteSelf \/ End

(***************************************************************************)
(* Users, time, kubelets and restarts (external).                          *)
(***************************************************************************)
CreateShell(s, sp) ==
    /\ cs[s].phase = "absent" /\ created < MaxShells
    /\ created' = created + 1
    /\ API!Write(s, [NoShell EXCEPT !.phase = "live", !.spec = sp])
    /\ elapsed' = elapsed \ {s}
    /\ UNCHANGED <<csQ, backoff, timers, workers, routes, job, trouble>>

DeleteShell(s) ==
    /\ cs[s].phase = "live"
    /\ API!Write(s, Marked(s))
    /\ UNCHANGED <<csQ, clock, workers, routes, job, budget>>

EditShell(s, sp) ==
    /\ cs[s].phase = "live" /\ cs[s].spec # sp
    /\ Disturb("edit")
    /\ API!Write(s, [cs[s] EXCEPT !.spec = sp])
    /\ UNCHANGED <<csQ, clock, workers, routes, job>>

\* Back-offs and TTLs last longer than the informers' delay; one that does not is
\* a disturbance.
CaughtUp(s) == \/ csWatch[s] = <<>> /\ podNews = {} /\ NoFault
               \/ (csWatch[s] # <<>> \/ podNews # {}) /\ Disturb("lag")

Retry(s) ==
    /\ s \in backoff /\ CaughtUp(s)
    /\ backoff' = backoff \ {s}
    /\ csQ' = csQ \cup {s}
    /\ UNCHANGED <<csStore, timers, elapsed, workers, routes, job>>

\* The time counts from the stored lastScheduleTime, or from one that was set in
\* the cached object and could not be stored.
Elapse(s) ==
    /\ cs[s].phase # "absent" /\ cs[s].spec.ttl = "some" /\ s \notin elapsed
    /\ cs[s].started \/ csCache[s].started
    /\ CaughtUp(s)
    /\ elapsed' = elapsed \cup {s}
    /\ UNCHANGED <<csStore, csQ, backoff, timers, workers, routes, job>>

\* The time to come back at was taken before lastScheduleTime was set, so a timer
\* may fire before the TTL is over.
TimerFires(s) ==
    /\ s \in timers
    /\ \/ (s \in elapsed \/ cs[s].phase = "absent") /\ NoFault
       \/ s \notin elapsed /\ cs[s].phase # "absent" /\ CaughtUp(s)
    /\ timers' = timers \ {s}
    /\ csQ' = csQ \cup {s}
    /\ UNCHANGED <<csStore, backoff, elapsed, workers, routes, job>>

\* The service of a deleted cloudshell is garbage collected.
Collect(s) ==
    /\ cs[s].phase = "absent"
    /\ routes' = {r \in routes : ~(r.at.mode = "NodePort" /\ r.at.shell = s)}
    /\ routes' # routes
    /\ UNCHANGED <<csStore, csQ, clock, workers, job, budget>>

WorkerReady(w) ==
    /\ pods[w].phase = "live" /\ ~pods[w].ready
    /\ PodWrite(w, [pods[w] EXCEPT !.ready = TRUE])
    /\ UNCHANGED <<csStore, csQ, clock, view, session, waiting, routes, job, budget>>

\* Readiness is lost, and ttyd with it when the container restarts.
WorkerUnready(w) ==
    /\ pods[w].phase = "live" /\ pods[w].ready
    /\ Disturb("unready")
    /\ PodWrite(w, [pods[w] EXCEPT !.ready = FALSE])
    /\ session' \in {session, [session EXCEPT ![w] = None]}
    /\ UNCHANGED <<csStore, csQ, clock, view, waiting, routes, job>>

WorkerEvicted(w) ==
    /\ pods[w].phase = "live"
    /\ Disturb("evict")
    /\ PodWrite(w, [pods[w] EXCEPT !.phase = "deleting"])
    /\ UNCHANGED <<csStore, csQ, clock, view, session, waiting, routes, job>>

WorkerGone(w) ==
    /\ pods[w].phase = "deleting"
    /\ PodWrite(w, [NoWorker EXCEPT !.owner = pods[w].owner])
    /\ session' = [session EXCEPT ![w] = None]
    /\ UNCHANGED <<csStore, csQ, clock, view, waiting, routes, job, budget>>

\* The process dies and its successor lists everything.
Crash ==
    /\ Disturb("crash")
    /\ API!Relist
    /\ view' = pods /\ podNews' = {}
    /\ csQ' = {s \in Shells : \/ cs[s].phase # "absent"
                              \/ \E w \in Workers : pods[w].phase # "absent" /\ pods[w].owner = s}
    /\ backoff' = {} /\ timers' = {} /\ waiting' = {} /\ job' = JobIdle
    /\ UNCHANGED <<elapsed, pods, session, routes>>

Next ==
    \/ Sync \/ Crash
    \/ \E s \in Shells :
          \/ ShellEvent(s) \/ Take(s) \/ PoolWakes(s) \/ DeleteShell(s) \/ Elapse(s) \/ Retry(s)
          \/ TimerFires(s) \/ Collect(s)
          \/ \E sp \in Specs : CreateShell(s, sp) \/ EditShell(s, sp)
    \/ \E w \in Workers :
          \/ PodEvent(w) \/ PoolCreates(w) \/ WorkerReady(w) \/ WorkerUnready(w)
          \/ WorkerEvicted(w) \/ WorkerGone(w)

\* The informers deliver, the goroutine runs and its queue is first-in first-out,
\* timers fire, the pool serves its requests and kubelets stop and start pods.
Fairness ==
    /\ WF_vars(Sync)
    /\ \A s \in Shells : /\ WF_vars(ShellEvent(s)) /\ SF_vars(Take(s))
                         /\ WF_vars(TimerFires(s)) /\ WF_vars(Retry(s)) /\ WF_vars(PoolWakes(s))
    /\ \A w \in Workers : /\ WF_vars(PodEvent(w)) /\ WF_vars(WorkerReady(w))
                          /\ WF_vars(WorkerGone(w)) /\ WF_vars(PoolCreates(w))

Spec == Init /\ [][Next]_vars
FairSpec == Spec /\ Fairness

-----------------------------------------------------------------------------
\* The shape of the state.
TypeOK ==
    /\ API!StoreTypeOK
    /\ csQ \subseteq Shells /\ backoff \subseteq Shells /\ timers \subseteq Shells /\ elapsed \subseteq Shells
    /\ waiting \subseteq Shells
    /\ pods \in [Workers -> WorkerRec] /\ podNews \subseteq Workers /\ view \in [Workers -> WorkerRec]
    /\ session \in [Workers -> Shells \cup {None}]
    /\ \A r \in routes : r.at.shell \in Shells /\ r.to \in Workers
    /\ job \in [pc : JobPCs, shell : Shells \cup {None}, worker : Workers \cup {None},
                why : {"none", "deleted", "ttl", "later"}]
    /\ created \in 0 .. MaxShells /\ trouble \in 0 .. MaxTrouble

\* Nothing is under way for the cloudshell.
Settled(s) ==
    /\ csWatch[s] = <<>> /\ s \notin csQ \cup backoff \cup waiting /\ job.shell # s
    /\ podNews = {}

\* A worker enters the pool only after a reset, whichever cloudshell gives it back and
\* however often, as long as no call fails and workers stay ready (a failed reset
\* is only logged, and syncCloudShell gives back what is not ready as it is).
WorkersResetFirst ==
    [][\A w \in Workers :
         /\ pods[w].phase # "absent" /\ pods[w].owner # None
         /\ pods'[w].owner = None /\ pods'[w].phase = "live"
         => session[w] = None]_vars

\* Once things have settled, a cloudshell that says it is Ready can be reached: its
\* route leads to the worker of its label, and its ttyd runs there ("When the status
\* of cloudshell changes to `Ready` and the `URL` field appears, copy and paste the
\* URL on your browser to access the cluster", README.md).
ReadyShellsReachable ==
    \A s \in Shells :
        Settled(s) /\ cs[s].phase = "live" /\ cs[s].status = "Ready" =>
            /\ [at |-> At(s, cs[s].spec), to |-> cs[s].pod] \in routes
            /\ session[cs[s].pod] = s

\* The finalizer does what its comment says (lines 52-53): a deleted cloudshell
\* disappears only when the worker its label names is no longer its own and the
\* route of its spec is gone, whatever failed or was restarted on the way.
FinalizerGuards ==
    [][\A s \in Shells :
         cs[s].phase = "deleting" /\ cs'[s].phase = "absent" =>
            /\ cs[s].pod # None => pods[cs[s].pod].phase # "live" \/ pods[cs[s].pod].owner # s
            /\ \A r \in routes : r.at = At(s, cs[s].spec) => r.at.mode = "NodePort"]_vars

\* The goroutine sends objects it read before other calls and has changed since;
\* whatever has become of the cloudshell meanwhile, it never undoes a deletion,
\* restores a spec the user has replaced or brings back what is gone.
UserWritesStand ==
    [][\A s \in Shells :
         /\ cs[s].phase = "deleting" => cs'[s].phase # "live"
         /\ cs'[s].phase # "absent" /\ (cs[s].phase = "absent" \/ cs'[s].spec # cs[s].spec)
              => UNCHANGED job]_vars

\* Nothing routes to a cloudshell that is gone: "If Ingress or VirtualService mode
\* is used, the corresponding routing information will be deleted too" (README.md,
\* Rationale 4).  An expired cloudshell has no finalizer any more and disappears
\* without another synchronisation, so its route must have gone before.  It does
\* not survive an edit of mode or path, where only the present route is removed,
\* nor a deletion before the finalizer is stored: it is in the cached object all the
\* same, and a synchronisation of that object adds a route.
RoutesRemoved ==
    \A s \in Shells :
        Settled(s) /\ cs[s].phase = "absent" =>
            \A r \in routes : r.at.shell = s => r.at.mode = "NodePort"

\* A cloudshell that is gone owns no worker any more (test/e2e/workerpool_test.go:
\* "should reset worker label after CloudShell is deleted").
WorkersReleased ==
    \A s \in Shells :
        Settled(s) /\ cs[s].phase = "absent" =>
            \A w \in Workers : pods[w].phase = "live" => pods[w].owner # s

\* The controller will look at the cloudshell again, or is at it.
Attended(s) == s \in csQ \cup backoff \/ job.shell = s \/ csWatch[s] # <<>>

\* No wake-up is lost, whatever fails, is edited or restarted: a live cloudshell that
\* nobody will look at again (no event to come, not queued, not waiting for a
\* worker) has been served, and its TTL, if it has one, is on a timer.  Updates are
\* enqueued or not by comparison with a cached object that the goroutine changes.
LiveShellsAttended ==
    \A s \in Shells :
        cs[s].phase = "live" /\ ~Attended(s) /\ s \notin waiting =>
            /\ cs[s].status # "none"
            /\ cs[s].status = "Ready" /\ cs[s].spec.ttl # "none" => s \in timers

\* A worker that disappears is noticed: once the pod informer has told of it, a Ready
\* cloudshell whose route leads there, and whose own the worker was, is in a queue or
\* in the works (enqueueCloudshellForPod), whatever its label says by then: the
\* goroutine changes the label in the cache before the server accepts it, or not.
LostWorkersNoticed ==
    \A s \in Shells : \A w \in Workers \ podNews :
        /\ cs[s].phase = "live" /\ cs[s].status = "Ready"
        /\ [at |-> At(s, cs[s].spec), to |-> w] \in routes
        /\ pods[w].phase = "absent" /\ pods[w].owner = s
        => Attended(s) \/ s \in waiting

\* As long as no call fails, the controller is not done with a deleted cloudshell
\* before it is gone, although removeFinalizer takes the finalizer out of a cached
\* object whose Update may then be refused.
DeletedShellsAttended == \A s \in Shells : cs[s].phase = "deleting" => Attended(s)

\* A deleted cloudshell disappears (test/e2e/cloudshell_basic_test.go: "Waiting
\* for CloudShell CR to be removed").
DeletedShellsGo == \A s \in Shells : cs[s].phase = "deleting" ~> cs[s].phase = "absent"

\* A cloudshell whose TTL is over becomes Complete or is deleted, also when the
\* controller restarts and its timers are lost.
TtlHonoured ==
    \A s \in Shells :
        s \in elapsed /\ cs[s].phase = "live" /\ cs[s].spec.ttl = "some"
            ~> cs[s].phase # "live" \/ cs[s].status = "Complete"

\* The cloudshells that something still serves: a path of their spec leads into a
\* worker, or the worker of one that is being deleted has not been given back.
Serving ==
    {s \in Shells :
        /\ cs[s].phase # "absent"
        /\ \/ \E r \in routes : r.at = At(s, cs[s].spec) /\ r.at.mode # "NodePort"
           \/ /\ cs[s].phase = "deleting" /\ cs[s].pod # None
              /\ pods[cs[s].pod].phase = "live" /\ pods[cs[s].pod].owner = s}

Life == INSTANCE ShellLife WITH life <- cs, held <- Serving

\* Whatever object the goroutine sends, however old and however changed, each write
\* that the server accepts is one that ShellLife allows: removeFinalizer, for a
\* deleted and for an expired cloudshell, only when nothing serves it, nothing but
\* that and a status once the deletion is requested, no secretRef forgotten, Ready
\* only with the lastScheduleTime from which nextRequeueTimeDuration counts, and that
\* time never lost (a TTL of zero or less completes a cloudshell that has none).
ControllerKeepsLife == Life!LSpec
=============================================================================
