------------------------ MODULE ControllerResetProofs ------------------------
(***************************************************************************)
(* A worker is reset before it enters the pool: WorkersResetFirst of       *)
(* Controller.tla for any number of cloudshells and workers, with restarts,*)
(* edits, evictions and late events, while calls succeed and workers stay  *)
(* ready.                                                                  *)
(*                                                                         *)
(* The argument follows the names of workers.  A name gets into a label    *)
(* only through Borrow, which lends ready workers, and the pool does not   *)
(* use a name twice while anything refers to it.  So the worker a          *)
(* cloudshell names is ready or gone: the reset cannot fail in a worker    *)
(* that is still there, and syncCloudShell never takes the path that gives *)
(* a worker back without a reset.                                          *)
(***************************************************************************)
EXTENDS ControllerProofs

\* No copy of a cloudshell, wherever it is, names the worker.
Unlabelled(w) ==
    /\ \A s \in Shells : /\ cs[s].pod # w /\ csCache[s].pod # w
                         /\ \A i \in DOMAIN csWatch[s] : csWatch[s][i].pod # w
    /\ csPtr.obj.pod # w

Unnamed(w) == Unlabelled(w) /\ job.worker # w

\* At the server and in the cache the worker is ready, if it is there.
Sound(w) == /\ pods[w].phase # "absent" => pods[w].ready
            /\ view[w].phase # "absent" => view[w].ready

NamedReady == \A w \in Workers : Unnamed(w) \/ Sound(w)

\* The worker that goes back has been reset, unless it is gone.
AfterReset == job.pc = "back" => pods[job.worker].phase = "absent" \/ session[job.worker] = None

ResetInv == NamedReady /\ AfterReset /\ job.pc # "reassign"

\* What WorkersResetFirst says of one step.
ResetStep ==
    \A w \in Workers :
        /\ pods[w].phase # "absent" /\ pods[w].owner # None
        /\ pods'[w].owner = None /\ pods'[w].phase = "live"
        => session[w] = None

(***************************************************************************)
(* Where names of workers go.                                              *)
(***************************************************************************)
LEMMA WriteLabels ==
    ASSUME StoreInv, NEW w \in Workers, Unlabelled(w), NEW n \in Shells, NEW r \in ShellRec,
           r.pod # w, API!Write(n, r)
    PROVE  Unlabelled(w)'
<1>1. cs \in [Shells -> ShellRec] /\ csWatch \in [Shells -> Seq(ShellRec)] /\ csPtr \in API!PtrRec
    BY DEF StoreInv, API!StoreTypeOK
<1>2. csPtr'.obj = csPtr.obj
    BY <1>1 DEF API!Write, API!PtrRec
<1>3. ASSUME NEW s \in Shells PROVE \A i \in DOMAIN csWatch'[s] : csWatch'[s][i].pod # w
    BY <1>1 DEF API!Write, Unlabelled
<1> QED
    BY <1>1, <1>2, <1>3 DEF API!Write, Unlabelled

LEMMA MutateLabels ==
    ASSUME StoreInv, NEW w \in Workers, Unlabelled(w), NEW r \in ShellRec, r.pod # w, API!Mutate(r)
    PROVE  Unlabelled(w)'
<1>1. csCache \in [Shells -> ShellRec] /\ csPtr \in API!PtrRec
    BY DEF StoreInv, API!StoreTypeOK
<1>2. csPtr'.obj = r
    BY <1>1 DEF API!Mutate, API!PtrRec
<1>3. \A s \in Shells : csCache'[s].pod # w
    BY <1>1 DEF API!Mutate, API!InPlace, Unlabelled
<1> QED
    BY <1>2, <1>3 DEF API!Mutate, Unlabelled

\* An Update, answered or not.
LEMMA UpdateLabels ==
    ASSUME StoreInv, NEW w \in Workers, Unlabelled(w), NEW n \in Shells, csPtr.name = n,
           NEW r \in ShellRec, r.pod # w, NEW stored \in ShellRec, stored.pod # w,
           API!UpdateOK(r, stored) \/ API!UpdateLost(r, stored)
    PROVE  Unlabelled(w)'
<1>1. /\ cs \in [Shells -> ShellRec] /\ csWatch \in [Shells -> Seq(ShellRec)] /\ csPtr \in API!PtrRec
      /\ csCache \in [Shells -> ShellRec]
    BY DEF StoreInv, API!StoreTypeOK
<1>2. csPtr'.obj = r
    BY <1>1 DEF API!UpdateOK, API!UpdateLost, API!PtrRec
<1>3. \A s \in Shells : csCache'[s].pod # w
    BY <1>1 DEF API!UpdateOK, API!UpdateLost, API!InPlace, Unlabelled
<1>4. cs' = [cs EXCEPT ![n] = stored] /\ csWatch' = [csWatch EXCEPT ![n] = Append(@, stored)]
    BY DEF API!UpdateOK, API!UpdateLost
<1>5. ASSUME NEW s \in Shells PROVE \A i \in DOMAIN csWatch'[s] : csWatch'[s][i].pod # w
    BY <1>1, <1>4 DEF Unlabelled
<1> QED
    BY <1>1, <1>2, <1>3, <1>4, <1>5 DEF Unlabelled

LEMMA SaveLabels ==
    ASSUME IInv, NEW w \in Workers, Unlabelled(w), job.pc # "idle",
           NEW rec \in ShellRec, rec.pod # w, NEW next, Save(rec, next)
    PROVE  /\ Unlabelled(w)'
           /\ job' = [job EXCEPT !.pc = next] \/ job' = [job EXCEPT !.pc = "error"]
<1>1. PICK n \in Shells : n = me
    BY AtWork
<1>2. csPtr.name = n /\ cs[n] \in ShellRec /\ None \notin Workers /\ StoreInv
    BY <1>1, AtWork DEF IInv
<1>3. PICK sent : sent = [rec EXCEPT !.status = cs[me].status, !.started = cs[me].started]
    OBVIOUS
<1>4. sent \in ShellRec /\ sent.pod = rec.pod
    BY <1>1, <1>2, <1>3 DEF ShellRec
<1>5. Final(sent) \in ShellRec /\ Final(sent).pod # w
    BY <1>2, <1>4 DEF Final, NoShell, ShellRec
<1>6. ASSUME API!UpdateOK(sent, Final(sent)) \/ API!UpdateLost(rec, Final(sent)) PROVE Unlabelled(w)'
    BY <1>2, <1>4, <1>5, <1>6, UpdateLabels
<1>7. ASSUME API!Mutate(rec) PROVE Unlabelled(w)'
    BY <1>2, <1>7, MutateLabels
<1>8. Unlabelled(w)'
    BY <1>3, <1>6, <1>7 DEF Save
<1> QED
    BY <1>8 DEF Save, Goto, Fail

\* The steps of the goroutine that write cloudshells.
LEMMA SyncSaves ==
    ASSUME IInv, NEW w \in Workers, Unnamed(w), Ensure \/ Unlabel \/ Label \/ Secret \/ Unfin
    PROVE  /\ Unnamed(w)'
           /\ job'.pc \notin {"back", "reassign"}
<1>0. job.pc # "idle" /\ Unlabelled(w) /\ job.worker # w
    BY DEF Ensure, Unlabel, Label, Secret, Unfin, Unnamed
<1>1. obj \in ShellRec /\ job \in JobType /\ obj.pod # w
    BY <1>0, AtWork DEF Unlabelled
<1>2. ASSUME NEW rec \in ShellRec, rec.pod # w, NEW next, next \notin {"back", "reassign"}, Save(rec, next)
      PROVE  Unnamed(w)' /\ job'.pc \notin {"back", "reassign"}
  <2>1. /\ Unlabelled(w)'
        /\ job' = [job EXCEPT !.pc = next] \/ job' = [job EXCEPT !.pc = "error"]
      BY <1>0, <1>2, SaveLabels
  <2>2. job'.worker = job.worker /\ job'.pc \notin {"back", "reassign"}
      BY <1>1, <1>2, <2>1 DEF JobType
  <2> QED
      BY <1>0, <2>1, <2>2 DEF Unnamed
<1>3. ASSUME NEW next, next \notin {"back", "reassign"}, Goto(next), UNCHANGED csStore
      PROVE  Unnamed(w)' /\ job'.pc \notin {"back", "reassign"}
  <2>1. job'.worker = job.worker /\ job'.pc = next
      BY <1>1, <1>3 DEF Goto, JobType
  <2> QED
      BY <1>0, <1>3, <2>1 DEF Unnamed, Unlabelled, csStore
<1>4. CASE Ensure
  <2>1. PICK rec : rec = [obj EXCEPT !.fin = TRUE]
      OBVIOUS
  <2>2. rec \in ShellRec /\ rec.pod # w
      BY <1>1, <2>1 DEF ShellRec
  <2>3. Save(rec, "check") \/ (Goto("check") /\ UNCHANGED csStore)
      BY <1>4, <2>1 DEF Ensure
  <2> QED
      BY <1>2, <1>3, <2>2, <2>3
<1>5. CASE Unlabel
    BY <1>1, <1>2, <1>5 DEF Unlabel
<1>6. CASE Label
  <2>1. job.worker \in Workers
      BY <1>6 DEF Label, IInv, PcInv
  <2>2. PICK rec : rec = [obj EXCEPT !.pod = job.worker]
      OBVIOUS
  <2>3. rec \in ShellRec /\ rec.pod # w
      BY <1>0, <1>1, <2>1, <2>2 DEF ShellRec
  <2>4. Save(rec, "route")
      BY <1>6, <2>2 DEF Label
  <2> QED
      BY <1>2, <2>3, <2>4
<1>7. CASE Secret
  <2>1. PICK rec : rec = [obj EXCEPT !.secret = TRUE]
      OBVIOUS
  <2>2. rec \in ShellRec /\ rec.pod # w
      BY <1>1, <2>1 DEF ShellRec
  <2>3. Save(rec, "exec") \/ ((Goto("exec") \/ Goto("error")) /\ UNCHANGED csStore)
      BY <1>7, <2>1 DEF Secret, Fail
  <2> QED
      BY <1>2, <1>3, <2>2, <2>3
<1>8. CASE Unfin
  <2>1. [obj EXCEPT !.fin = FALSE] \in ShellRec /\ [obj EXCEPT !.fin = FALSE].pod = obj.pod
      BY <1>1 DEF ShellRec
  <2> DEFINE next == IF job.why = "deleted" THEN "ok" ELSE IF obj.spec.cleanup THEN "delete" ELSE "complete"
  <2>2. next \notin {"back", "reassign"}
      OBVIOUS
  <2>3. Save([obj EXCEPT !.fin = FALSE], next) \/ (Goto(next) /\ UNCHANGED csStore)
      BY <1>8 DEF Unfin
  <2> HIDE DEF next
  <2> QED
      BY <1>1, <1>2, <1>3, <2>1, <2>2, <2>3
<1> QED
    BY <1>4, <1>5, <1>6, <1>7, <1>8

\* The steps that leave the cloudshells alone.
LEMMA SyncMoves ==
    ASSUME IInv, NEW w \in Workers, Unnamed(w), Check \/ Release \/ Borrow \/ Route \/ Reset \/ Unroute
    PROVE  /\ Unnamed(w)' \/ Available(w)
<1>0. job.pc # "idle" /\ Unlabelled(w) /\ job.worker # w /\ w # None
    BY ControllerAssumption DEF Check, Release, Borrow, Route, Reset, Unroute, Unnamed, ControllerAssumption
<1>1. job \in JobType /\ obj.pod # w
    BY <1>0, AtWork DEF Unlabelled, obj
<1>2. UNCHANGED csStore
    BY DEF Check, Release, Borrow, Route, Reset, Unroute
<1>3. Unlabelled(w)'
    BY <1>0, <1>2 DEF Unlabelled, csStore
<1>4. job'.worker # w \/ Available(w)
  <2>1. CASE Check
      BY <1>0, <1>1, <2>1 DEF Check, BindingWorker, JobType
  <2>2. CASE Release
      BY <1>0, <1>1, <2>2 DEF Release, BindingWorker, JobType
  <2>3. CASE Borrow
    <3>1. ASSUME NEW v \in Workers, PoolBorrow(v, "ok") PROVE Available(v)
        BY <3>1 DEF PoolBorrow, Refused, Lost
    <3>2. ASSUME NEW v \in Workers, PoolBorrow(v, "ok"), job' = [job EXCEPT !.pc = "label", !.worker = v]
          PROVE  job'.worker # w \/ Available(w)
        BY <1>1, <3>1, <3>2 DEF JobType
    <3>3. ASSUME Goto("error") \/ Goto("ok") PROVE job'.worker # w
        BY <1>0, <1>1, <3>3 DEF Goto, JobType
    <3> QED
        BY <2>3, <3>2, <3>3 DEF Borrow, Fail
  <2>4. CASE Route \/ Reset \/ Unroute
      BY <1>0, <1>1, <2>4 DEF Route, Reset, Unroute, Done, Goto, Fail, JobType
  <2> QED
      BY <2>1, <2>2, <2>3, <2>4
<1> QED
    BY <1>3, <1>4 DEF Unnamed

\* The others.
LEMMA SyncRest ==
    ASSUME IInv, NEW w \in Workers, Unnamed(w),
           Reassign \/ Back \/ Exec \/ Complete \/ Status \/ DeleteSelf \/ End
    PROVE  Unnamed(w)'
<1>0. job.pc # "idle" /\ Unlabelled(w) /\ job.worker # w /\ w # None /\ StoreInv
    BY ControllerAssumption
    DEF Reassign, Back, Exec, Complete, Status, DeleteSelf, End, Unnamed, ControllerAssumption, IInv
<1>1. PICK n \in Shells : n = me
    BY <1>0, AtWork
<1>2. job \in JobType /\ obj \in ShellRec /\ obj.pod # w /\ cs[n] \in ShellRec /\ csCache[n] \in ShellRec
    BY <1>0, <1>1, AtWork DEF Unlabelled, obj
<1>3. job'.worker # w
    BY <1>0, <1>2 DEF Reassign, Back, Exec, Complete, Status, DeleteSelf, End, Done, Goto, Fail, JobType, JobIdle
<1>4. ASSUME UNCHANGED csStore PROVE Unlabelled(w)'
    BY <1>0, <1>4 DEF Unlabelled, csStore
<1>5. ASSUME Reassign \/ Back PROVE Unlabelled(w)'
  <2>1. [obj EXCEPT !.pod = None] \in ShellRec /\ [obj EXCEPT !.pod = None].pod = None
      BY <1>2 DEF ShellRec
  <2> QED
      BY <1>0, <1>4, <1>5, <2>1, MutateLabels DEF Reassign, Back
<1>6. ASSUME Exec \/ Complete PROVE Unlabelled(w)'
  <2>1. /\ [obj EXCEPT !.status = "Ready", !.started = TRUE] \in ShellRec
        /\ [obj EXCEPT !.status = "Ready", !.started = TRUE].pod = obj.pod
        /\ [obj EXCEPT !.status = "Complete"] \in ShellRec /\ [obj EXCEPT !.status = "Complete"].pod = obj.pod
      BY <1>2 DEF ShellRec
  <2> QED
      BY <1>0, <1>2, <1>4, <1>6, <2>1, MutateLabels DEF Exec, Complete
<1>7. ASSUME Status PROVE Unlabelled(w)'
  <2> DEFINE set == [cs[n] EXCEPT !.status = obj.status, !.started = obj.started]
             kept == [csCache[n] EXCEPT !.status = obj.status, !.started = obj.started]
  <2>1. set \in ShellRec /\ set.pod # w /\ kept \in ShellRec /\ kept.pod # w
      BY <1>0, <1>2 DEF ShellRec, Unlabelled
  <2>2. \/ API!Write(n, set)
        \/ csCache' = [csCache EXCEPT ![n] = kept] /\ csPtr'.obj = kept /\ UNCHANGED <<cs, csWatch>>
        \/ UNCHANGED csStore
      BY <1>1, <1>7 DEF Status
  <2> HIDE DEF set, kept
  <2>3. csCache \in [Shells -> ShellRec]
      BY <1>0 DEF StoreInv, API!StoreTypeOK
  <2>4. ASSUME csCache' = [csCache EXCEPT ![n] = kept], csPtr'.obj = kept, UNCHANGED <<cs, csWatch>>
        PROVE  Unlabelled(w)'
      BY <1>0, <2>1, <2>3, <2>4 DEF Unlabelled
  <2> QED
      BY <1>0, <1>4, <2>1, <2>2, <2>4, WriteLabels
<1>8. ASSUME DeleteSelf PROVE Unlabelled(w)'
  <2>1. Marked(n) \in ShellRec /\ Marked(n).pod # w
      BY <1>0, <1>2 DEF Marked, Final, NoShell, ShellRec, Unlabelled
  <2> QED
      BY <1>0, <1>1, <1>4, <1>8, <2>1, WriteLabels DEF DeleteSelf
<1>9. ASSUME End PROVE Unlabelled(w)'
    BY <1>0, <1>9 DEF End, Unlabelled, API!NoPtr, NoShell
<1> QED
    BY <1>3, <1>5, <1>6, <1>7, <1>8, <1>9 DEF Unnamed

\* A name that nothing refers to comes into use only through Borrow.
LEMMA NextNames ==
    ASSUME IInv, [Next]_vars, NEW w \in Workers, Unnamed(w)
    PROVE  Unnamed(w)' \/ Available(w)
<1>0. Unlabelled(w) /\ job.worker # w /\ w # None /\ StoreInv
    BY ControllerAssumption DEF Unnamed, ControllerAssumption, IInv
<1>1. /\ cs \in [Shells -> ShellRec] /\ csWatch \in [Shells -> Seq(ShellRec)] /\ csPtr \in API!PtrRec
      /\ csCache \in [Shells -> ShellRec]
    BY <1>0 DEF StoreInv, API!StoreTypeOK
<1>2. CASE Sync
    BY <1>2, SyncSaves, SyncMoves, SyncRest DEF Sync
<1>3. CASE Crash
    BY <1>0, <1>3 DEF Crash, API!Relist, API!NoPtr, NoShell, JobIdle, Unnamed, Unlabelled
<1>4. ASSUME NEW s \in Shells, ShellEvent(s) PROVE Unnamed(w)'
  <2>1. csWatch[s] \in Seq(ShellRec) /\ csWatch[s] # <<>> /\ csPtr'.obj = csPtr.obj /\ UNCHANGED <<cs, job>>
      BY <1>1, <1>4 DEF ShellEvent, API!Deliver, API!PtrRec
  <2>2. /\ csWatch' = [csWatch EXCEPT ![s] = Tail(csWatch[s])]
        /\ csCache' = [csCache EXCEPT ![s] = Head(csWatch[s])]
      BY <1>4 DEF ShellEvent, API!Deliver
  <2>3. Head(csWatch[s]).pod # w /\ \A i \in DOMAIN Tail(csWatch[s]) : Tail(csWatch[s])[i].pod # w
      BY <1>0, <2>1, ShrinksAtFront DEF Unlabelled
  <2> QED
      BY <1>0, <1>1, <2>1, <2>2, <2>3 DEF Unnamed, Unlabelled
<1>5. ASSUME NEW s \in Shells, Take(s) PROVE Unnamed(w)'
  <2>1. CASE UNCHANGED <<csStore, job>>
      BY <1>0, <2>1 DEF Unnamed, Unlabelled, csStore
  <2>2. CASE API!Hold(s) /\ job'.worker = None
      BY <1>0, <2>2 DEF API!Hold, Unnamed, Unlabelled
  <2> QED
      BY <1>5, <2>1, <2>2 DEF Take, JobIdle
<1>6. ASSUME NEW s \in Shells, DeleteShell(s) \/ \E sp \in Specs : CreateShell(s, sp) \/ EditShell(s, sp)
      PROVE  Unnamed(w)'
  <2>1. UNCHANGED job /\ cs[s] \in ShellRec /\ cs[s].pod # w
      BY <1>0, <1>1, <1>6 DEF DeleteShell, CreateShell, EditShell, Unlabelled
  <2>2. PICK r \in ShellRec : API!Write(s, r) /\ r.pod # w
    <3>1. Marked(s) \in ShellRec /\ Marked(s).pod # w
        BY <1>0, <2>1 DEF Marked, Final, NoShell, ShellRec
    <3>2. ASSUME NEW sp \in Specs
          PROVE  /\ [NoShell EXCEPT !.phase = "live", !.spec = sp] \in ShellRec
                 /\ [NoShell EXCEPT !.phase = "live", !.spec = sp].pod # w
                 /\ [cs[s] EXCEPT !.spec = sp] \in ShellRec /\ [cs[s] EXCEPT !.spec = sp].pod # w
        BY <1>0, <2>1 DEF NoShell, ShellRec
    <3> QED
        BY <1>6, <3>1, <3>2 DEF DeleteShell, CreateShell, EditShell
  <2>3. Unlabelled(w)'
      BY <1>0, <2>2, WriteLabels
  <2> QED
      BY <1>0, <2>1, <2>3 DEF Unnamed
<1>7. ASSUME UNCHANGED <<csStore, job>> PROVE Unnamed(w)'
    BY <1>0, <1>7 DEF Unnamed, Unlabelled, csStore
<1>8. ASSUME NEW s \in Shells, PoolWakes(s) \/ Elapse(s) \/ Retry(s) \/ TimerFires(s) \/ Collect(s)
      PROVE  UNCHANGED <<csStore, job>>
    BY <1>8 DEF PoolWakes, Elapse, Retry, TimerFires, Collect
<1>9. ASSUME NEW v \in Workers,
             \/ PodEvent(v) \/ PoolCreates(v) \/ WorkerReady(v) \/ WorkerUnready(v)
             \/ WorkerEvicted(v) \/ WorkerGone(v)
      PROVE  UNCHANGED <<csStore, job>>
    BY <1>9 DEF PodEvent, PoolCreates, WorkerReady, WorkerUnready, WorkerEvicted, WorkerGone
<1>10. CASE UNCHANGED vars
    BY <1>7, <1>10 DEF vars
<1> QED
    BY <1>2, <1>3, <1>4, <1>5, <1>6, <1>7, <1>8, <1>9, <1>10 DEF Next

(***************************************************************************)
(* Workers that are named stay ready, as long as none becomes unready.     *)
(***************************************************************************)
\* The calls of the pool take no worker's readiness away.
LEMMA PoolSound ==
    ASSUME pods \in [Workers -> WorkerRec], view \in [Workers -> WorkerRec], NEW w \in Workers, Sound(w),
           NEW v \in Workers, \E result \in {"ok", "error"} : PoolBorrow(v, result) \/ PoolBack(v, result)
    PROVE  Sound(w)'
<1>1. ASSUME NEW own PROVE /\ [view EXCEPT ![v].owner = own][w].phase = view[w].phase
                           /\ [view EXCEPT ![v].owner = own][w].ready = view[w].ready
                           /\ [pods[v] EXCEPT !.owner = own].phase = pods[v].phase
                           /\ [pods[v] EXCEPT !.owner = own].ready = pods[v].ready
    BY DEF WorkerRec
<1>2. view'[w].phase = view[w].phase /\ view'[w].ready = view[w].ready
  <2>1. view' = view \/ \E own : view' = [view EXCEPT ![v].owner = own]
      BY DEF PoolBorrow, PoolBack
  <2> QED
      BY <1>1, <2>1
<1>3. /\ pods'[w].ready = pods[w].ready
      /\ pods[w].phase = "absent" => pods'[w].phase = "absent"
  <2>1. CASE UNCHANGED pods
      BY <2>1
  <2>2. CASE pods[v].phase # "absent" /\ PodWrite(v, [pods[v] EXCEPT !.phase = "deleting"])
      BY <2>2 DEF PodWrite, WorkerRec
  <2>3. ASSUME NEW own, PodWrite(v, [pods[v] EXCEPT !.owner = own])
        PROVE  pods'[w].phase = pods[w].phase /\ pods'[w].ready = pods[w].ready
      BY <1>1, <2>3 DEF PodWrite
  <2> QED
      BY <2>1, <2>2, <2>3 DEF PoolBorrow, PoolBack, PodKept
<1> QED
    BY <1>2, <1>3 DEF Sound

LEMMA NextSound ==
    ASSUME IInv, [Next]_vars, "unready" \notin Kinds, NEW w \in Workers, Sound(w)
    PROVE  Sound(w)' \/ PoolCreates(w)
<1>0. pods \in [Workers -> WorkerRec] /\ view \in [Workers -> WorkerRec]
    BY DEF IInv, TypeOK
<1>1. ASSUME UNCHANGED <<pods, view>> PROVE Sound(w)'
    BY <1>1 DEF Sound
<1>2. CASE Reassign \/ Back
  <2>1. PICK v \in Workers : v = job.worker
      BY <1>2 DEF Reassign, Back, IInv, PcInv
  <2> QED
      BY <1>0, <1>2, <2>1, PoolSound DEF Reassign, Back
<1>3. CASE Borrow
    BY <1>0, <1>1, <1>3, PoolSound DEF Borrow
<1>4. CASE Sync /\ ~(Reassign \/ Back \/ Borrow)
  <2>1. UNCHANGED <<pods, view>>
      BY <1>4 DEF Sync, Ensure, Check, Unlabel, Label, Route, Secret, Exec, Status, Release, Reset, Unroute,
                  Unfin, Complete, DeleteSelf, End, workers
  <2> QED
      BY <1>1, <2>1
<1>5. CASE Crash
    BY <1>5 DEF Crash, Sound
<1>6. ASSUME NEW s \in Shells,
             \/ ShellEvent(s) \/ Take(s) \/ PoolWakes(s) \/ DeleteShell(s) \/ Elapse(s) \/ Retry(s)
             \/ TimerFires(s) \/ Collect(s)
             \/ \E sp \in Specs : CreateShell(s, sp) \/ EditShell(s, sp)
      PROVE  UNCHANGED <<pods, view>>
    BY <1>6 DEF ShellEvent, Take, PoolWakes, DeleteShell, Elapse, Retry, TimerFires, Collect,
                CreateShell, EditShell, workers
<1>7. ASSUME NEW v \in Workers,
             \/ PodEvent(v) \/ PoolCreates(v) \/ WorkerReady(v) \/ WorkerUnready(v)
             \/ WorkerEvicted(v) \/ WorkerGone(v)
      PROVE  Sound(w)' \/ PoolCreates(w)
  <2>1. CASE PodEvent(v)
      BY <1>0, <2>1 DEF PodEvent, Sound
  <2>2. CASE PoolCreates(v)
      BY <1>0, <2>2 DEF PoolCreates, PodWrite, Sound
  <2>3. CASE WorkerReady(v)
      BY <1>0, <2>3 DEF WorkerReady, PodWrite, Sound, WorkerRec
  <2>4. CASE WorkerUnready(v)
      BY <2>4 DEF WorkerUnready, Disturb
  <2>5. CASE WorkerEvicted(v)
      BY <1>0, <2>5 DEF WorkerEvicted, PodWrite, Sound, WorkerRec
  <2>6. CASE WorkerGone(v)
      BY <1>0, <2>6 DEF WorkerGone, PodWrite, Sound, NoWorker
  <2> QED
      BY <1>7, <2>1, <2>2, <2>3, <2>4, <2>5, <2>6
<1>8. CASE UNCHANGED vars
    BY <1>1, <1>8 DEF vars, workers
<1> QED
    BY <1>1, <1>2, <1>3, <1>4, <1>5, <1>6, <1>7, <1>8 DEF Next

LEMMA NamedStayReady ==
    ASSUME IInv, NamedReady, [Next]_vars, "unready" \notin Kinds
    PROVE  NamedReady'
<1>1. ASSUME NEW w \in Workers, ~Unnamed(w)' PROVE Sound(w)'
  <2>1. Sound(w)
    <3>1. CASE ~Unnamed(w)
        BY <1>1, <3>1 DEF NamedReady
    <3>2. CASE Available(w)
      <4>1. pods[w].ready /\ w \notin podNews
          BY ONLY <3>2 DEF Available
      <4>2. view[w].ready = pods[w].ready
          BY <4>1 DEF IInv, OwnedKnown
      <4> QED
          BY <4>1, <4>2 DEF Sound
    <3> QED
        BY <1>1, <3>1, <3>2, NextNames
  <2>2. ~PoolCreates(w)
    <3>1. ASSUME PoolCreates(w) PROVE FALSE
      <4>1. Unnamed(w) /\ UNCHANGED <<csStore, job>>
          BY <3>1 DEF PoolCreates, Fresh, Unnamed, Unlabelled, obj
      <4>2. Unnamed(w)'
          BY <4>1 DEF Unnamed, Unlabelled, csStore
      <4> QED
          BY <1>1, <4>2
    <3> QED
        BY <3>1
  <2> QED
      BY <2>1, <2>2, NextSound
<1> QED
    BY <1>1 DEF NamedReady

(***************************************************************************)
(* The way to Back.                                                        *)
(***************************************************************************)
Calm == Kinds \subseteq {"crash", "edit", "evict", "lag"}

\* The bound worker is ready or gone, so syncCloudShell does not give it back.
LEMMA CheckMoves ==
    ASSUME IInv, NamedReady, Check
    PROVE  job'.pc \notin {"back", "reassign"}
<1>1. job \in JobType /\ None \notin Workers /\ BindingWorker \in Workers \cup {None}
      /\ (BindingWorker # None => BindingWorker = obj.pod)
    BY AtWork, BindingKnown DEF Check
<1>2. BindingWorker # None => view[BindingWorker].ready
  <2>1. ASSUME BindingWorker # None PROVE view[BindingWorker].ready
    <3>1. PICK w \in Workers : w = BindingWorker
        BY <1>1, <2>1
    <3>2. w = csPtr.obj.pod /\ view[w].phase # "absent"
        BY <1>1, <2>1, <3>1 DEF BindingWorker, obj
    <3>3. ~Unnamed(w)
        BY <3>2 DEF Unnamed, Unlabelled
    <3> QED
        BY <3>1, <3>2, <3>3 DEF NamedReady, Sound
  <2> QED
      BY <2>1
<1>3. PICK w : w = BindingWorker
    OBVIOUS
<1> QED
    BY <1>1, <1>2, <1>3 DEF Check, JobType

\* Nothing but Reset leads to Back.
LEMMA SyncLeads ==
    ASSUME IInv, NamedReady, Sync
    PROVE  /\ job'.pc # "reassign"
           /\ job'.pc = "back" => Reset
<1>0. job.pc # "idle"
    BY DEF Sync, Ensure, Check, Reassign, Unlabel, Borrow, Label, Route, Secret, Exec, Status, Release, Reset,
           Back, Unroute, Unfin, Complete, DeleteSelf, End
<1>1. job \in JobType
    BY <1>0, AtWork
<1>2. CASE Check
    BY <1>2, CheckMoves
<1>3. CASE Ensure \/ Unlabel \/ Label \/ Secret \/ Unfin
  <2>1. CASE Ensure
      BY <1>1, <2>1 DEF Ensure, Save, Goto, Fail, JobType
  <2>2. CASE Unlabel \/ Label
      BY <1>1, <2>2 DEF Unlabel, Label, Save, Goto, Fail, JobType
  <2>3. CASE Secret
      BY <1>1, <2>3 DEF Secret, Save, Goto, Fail, JobType
  <2>4. CASE Unfin
      BY <1>1, <2>4 DEF Unfin, Save, Goto, Fail, JobType
  <2> QED
      BY <1>3, <2>1, <2>2, <2>3, <2>4
<1>4. CASE Reassign \/ Borrow \/ Route \/ Exec \/ Unroute
    BY <1>1, <1>4 DEF Reassign, Borrow, Route, Exec, Unroute, Done, Goto, Fail, JobType
<1>5. CASE Status \/ Release \/ Back \/ Complete \/ DeleteSelf \/ End
  <2>1. CASE Status
    <3>1. \/ Goto("later") \/ Goto("ok") \/ Goto("error")
          \/ job' = job /\ job.pc = "status"
        BY <2>1 DEF Status, Done, Fail
    <3> QED
        BY <1>1, <3>1 DEF Goto, JobType
  <2>2. CASE Release
      BY <1>1, <2>2 DEF Release, JobType
  <2>3. CASE Back \/ Complete \/ DeleteSelf \/ End
      BY <1>1, <2>3 DEF Back, Complete, DeleteSelf, End, Done, Goto, Fail, JobType, JobIdle
  <2> QED
      BY <1>5, <2>1, <2>2, <2>3
<1>6. CASE Reset
    BY <1>1, <1>6 DEF Reset, Goto, JobType
<1> QED
    BY <1>2, <1>3, <1>4, <1>5, <1>6 DEF Sync

\* ResetWorker fails only in a worker that is gone.
LEMMA ResetDone ==
    ASSUME IInv, NamedReady, Calm, Reset
    PROVE  AfterReset'
<1>1. PICK w \in Workers : w = job.worker /\ w = csPtr.obj.pod
    BY DEF Reset, IInv, PcInv, obj
<1>2. session \in [Workers -> Shells \cup {None}] /\ job \in JobType /\ None \notin Workers
    BY AtWork DEF Reset, IInv, TypeOK
<1>3. job'.worker = w /\ UNCHANGED pods
    BY <1>1, <1>2 DEF Reset, Goto, JobType
<1>4. pods[w].phase # "absent" => pods[w].ready
    BY <1>1 DEF NamedReady, Unnamed, Sound
<1>5. pods[w].phase = "absent" \/ session'[w] = None
  <2>1. CASE session' = [session EXCEPT ![w] = None]
      BY <1>2, <2>1
  <2>2. CASE ExecFails(w)
    <3>1. ~Fault
        BY DEF Calm, Fault, Disturb
    <3> QED
        BY <1>1, <1>2, <1>4, <2>2, <3>1 DEF ExecFails
  <2> QED
      BY <1>1, <2>1, <2>2 DEF Reset, obj
<1> QED
    BY <1>3, <1>5 DEF AfterReset

\* While the worker waits to go back, nobody starts anything in it.
LEMMA OthersReset ==
    ASSUME IInv, ResetInv, Calm, UNCHANGED job,
           \/ UNCHANGED <<pods, session>>
           \/ \E v \in Workers : \/ PodEvent(v) \/ PoolCreates(v) \/ WorkerReady(v) \/ WorkerUnready(v)
                                 \/ WorkerEvicted(v) \/ WorkerGone(v)
    PROVE  AfterReset'
<1>1. SUFFICES ASSUME job.pc = "back"
               PROVE  pods'[job.worker].phase = "absent" \/ session'[job.worker] = None
    BY DEF AfterReset
<1>2. PICK w \in Workers : w = job.worker /\ (pods[w].phase = "absent" \/ session[w] = None)
    BY <1>1 DEF IInv, PcInv, ResetInv, AfterReset
<1>3. /\ pods \in [Workers -> WorkerRec] /\ session \in [Workers -> Shells \cup {None}]
    BY DEF IInv, TypeOK
<1>4. CASE UNCHANGED <<pods, session>>
    BY <1>2, <1>4
<1>5. ASSUME NEW v \in Workers, \/ PodEvent(v) \/ PoolCreates(v) \/ WorkerReady(v) \/ WorkerUnready(v)
                                \/ WorkerEvicted(v) \/ WorkerGone(v)
      PROVE  pods'[w].phase = "absent" \/ session'[w] = None
  <2>1. CASE PodEvent(v)
      BY <1>2, <2>1 DEF PodEvent
  <2>2. CASE PoolCreates(v)
      BY <1>2, <1>3, <2>2 DEF PoolCreates, PodWrite, Fresh
  <2>3. CASE WorkerReady(v) \/ WorkerEvicted(v)
      BY <1>2, <1>3, <2>3 DEF WorkerReady, WorkerEvicted, PodWrite, WorkerRec
  <2>4. CASE WorkerUnready(v)
      BY <2>4 DEF WorkerUnready, Disturb, Calm
  <2>5. CASE WorkerGone(v)
      BY <1>2, <1>3, <2>5 DEF WorkerGone, PodWrite, NoWorker
  <2> QED
      BY <1>5, <2>1, <2>2, <2>3, <2>4, <2>5
<1> QED
    BY <1>2, <1>4, <1>5

LEMMA ResetKept ==
    ASSUME IInv, ResetInv, Calm, [Next]_vars
    PROVE  ResetInv'
<1>1. NamedReady'
    BY NamedStayReady DEF ResetInv, Calm
<1>2. ASSUME UNCHANGED job, AfterReset' PROVE AfterReset' /\ job'.pc # "reassign"
    BY <1>2 DEF ResetInv
<1>3. AfterReset' /\ job'.pc # "reassign"
  <2>1. CASE Sync
    <3>1. job'.pc # "reassign" /\ (job'.pc = "back" => Reset)
        BY <2>1, SyncLeads DEF ResetInv
    <3>2. CASE Reset
        BY <3>1, <3>2, ResetDone DEF ResetInv
    <3>3. CASE ~Reset
        BY <3>1, <3>3 DEF AfterReset
    <3> QED
        BY <3>2, <3>3
  <2>2. CASE Crash
      BY <2>2 DEF Crash, JobIdle, AfterReset
  <2>3. ASSUME NEW s \in Shells, Take(s) PROVE AfterReset' /\ job'.pc # "reassign"
    <3>1. job.pc = "idle" /\ (job' = job \/ job'.pc \in {"release", "ensure"})
        BY <2>3 DEF Take, JobIdle
    <3> QED
        BY <3>1 DEF AfterReset
  <2>4. ASSUME NEW s \in Shells,
               \/ ShellEvent(s) \/ PoolWakes(s) \/ DeleteShell(s) \/ Elapse(s) \/ Retry(s)
               \/ TimerFires(s) \/ Collect(s)
               \/ \E sp \in Specs : CreateShell(s, sp) \/ EditShell(s, sp)
        PROVE  AfterReset' /\ job'.pc # "reassign"
    <3>1. UNCHANGED <<pods, session, job>>
        BY <2>4 DEF ShellEvent, PoolWakes, DeleteShell, Elapse, Retry, TimerFires, Collect,
                    CreateShell, EditShell, workers
    <3> QED
        BY <1>2, <3>1, OthersReset
  <2>5. ASSUME NEW v \in Workers,
               \/ PodEvent(v) \/ PoolCreates(v) \/ WorkerReady(v) \/ WorkerUnready(v)
               \/ WorkerEvicted(v) \/ WorkerGone(v)
        PROVE  AfterReset' /\ job'.pc # "reassign"
    <3>1. UNCHANGED job
        BY <2>5 DEF PodEvent, PoolCreates, WorkerReady, WorkerUnready, WorkerEvicted, WorkerGone
    <3> QED
        BY <1>2, <2>5, <3>1, OthersReset
  <2>6. CASE UNCHANGED vars
    <3>1. UNCHANGED <<pods, session, job>>
        BY <2>6 DEF vars, workers
    <3> QED
        BY <1>2, <3>1, OthersReset
  <2> QED
      BY <2>1, <2>2, <2>3, <2>4, <2>5, <2>6 DEF Next
<1> QED
    BY <1>1, <1>3 DEF ResetInv

\* Back puts a worker into the pool that has been reset; nobody else puts one there.
LEMMA NextResets ==
    ASSUME IInv, ResetInv, [Next]_vars
    PROVE  ResetStep
<1>0. pods \in [Workers -> WorkerRec] /\ None \notin Shells
    BY ControllerAssumption DEF IInv, TypeOK, ControllerAssumption
<1>1. ASSUME UNCHANGED pods PROVE ResetStep
    BY <1>1 DEF ResetStep
<1>2. CASE Reassign \/ Back
  <2>1. PICK w \in Workers, result \in {"ok", "error"} :
          /\ w = job.worker /\ PoolBack(w, result)
          /\ pods[w].phase = "absent" \/ session[w] = None
      BY <1>2 DEF Reassign, Back, IInv, PcInv, ResetInv, AfterReset
  <2>2. \/ UNCHANGED pods
        \/ pods' = [pods EXCEPT ![w].phase = "deleting"]
        \/ pods' = [pods EXCEPT ![w].owner = None]
      BY <2>1 DEF PoolBack, PodWrite, PodKept
  <2>3. CASE pods' = [pods EXCEPT ![w].phase = "deleting"]
      BY <1>0, <2>3 DEF ResetStep, WorkerRec
  <2>4. CASE pods' = [pods EXCEPT ![w].owner = None]
      BY <1>0, <2>1, <2>4 DEF ResetStep, WorkerRec
  <2> QED
      BY <1>1, <2>2, <2>3, <2>4
<1>3. CASE Borrow
  <2>1. me \in Shells
      BY <1>3, AtWork DEF Borrow
  <2>2. ASSUME NEW w \in Workers, pods' = [pods EXCEPT ![w].owner = me] PROVE ResetStep
      BY <1>0, <2>1, <2>2 DEF ResetStep, WorkerRec
  <2> QED
      BY <1>1, <1>3, <2>2 DEF Borrow, PoolBorrow, PodWrite, PodKept
<1>4. CASE Sync /\ ~(Reassign \/ Back \/ Borrow)
  <2>1. UNCHANGED pods
      BY <1>4 DEF Sync, Ensure, Check, Unlabel, Label, Route, Secret, Exec, Status, Release, Reset, Unroute,
                  Unfin, Complete, DeleteSelf, End, workers
  <2> QED
      BY <1>1, <2>1
<1>5. CASE Crash
    BY <1>1, <1>5 DEF Crash
<1>6. ASSUME NEW s \in Shells,
             \/ ShellEvent(s) \/ Take(s) \/ PoolWakes(s) \/ DeleteShell(s) \/ Elapse(s) \/ Retry(s)
             \/ TimerFires(s) \/ Collect(s)
             \/ \E sp \in Specs : CreateShell(s, sp) \/ EditShell(s, sp)
      PROVE  UNCHANGED pods
    BY <1>6 DEF ShellEvent, Take, PoolWakes, DeleteShell, Elapse, Retry, TimerFires, Collect,
                CreateShell, EditShell, workers
<1>7. ASSUME NEW v \in Workers,
             \/ PodEvent(v) \/ PoolCreates(v) \/ WorkerReady(v) \/ WorkerUnready(v)
             \/ WorkerEvicted(v) \/ WorkerGone(v)
      PROVE  ResetStep
  <2>1. CASE PodEvent(v)
      BY <1>1, <2>1 DEF PodEvent
  <2>2. CASE PoolCreates(v)
      BY <1>0, <2>2 DEF PoolCreates, PodWrite, Fresh, ResetStep
  <2>3. CASE WorkerReady(v) \/ WorkerUnready(v) \/ WorkerEvicted(v)
    <3>1. \A w \in Workers : pods'[w].owner = pods[w].owner
        BY <1>0, <2>3 DEF WorkerReady, WorkerUnready, WorkerEvicted, PodWrite, WorkerRec
    <3> QED
        BY <3>1 DEF ResetStep
  <2>4. CASE WorkerGone(v)
      BY <1>0, <2>4 DEF WorkerGone, PodWrite, NoWorker, ResetStep
  <2> QED
      BY <1>7, <2>1, <2>2, <2>3, <2>4
<1>8. CASE UNCHANGED vars
    BY <1>1, <1>8 DEF vars, workers
<1> QED
    BY <1>1, <1>2, <1>3, <1>4, <1>5, <1>6, <1>7, <1>8 DEF Next

LEMMA ResetInit ==
    ASSUME Init
    PROVE  ResetInv
BY ControllerAssumption
   DEF Init, API!StoreInit, API!NoPtr, NoShell, NoWorker, JobIdle, ResetInv, NamedReady, AfterReset, Sound

\* removeCloudshell (cloudshell_controller.go:901-926) resets a worker before it gives
\* it back, and nothing else puts a worker of a cloudshell back into the pool:
\* whatever number of cloudshells and workers, restarts, evictions, edits and late
\* events there are, a worker that enters the pool runs nobody's ttyd.  Calls that
\* fail and workers that become unready are excluded: they do put a worker back
\* that was not reset.
THEOREM ControllerResetsFirst == ASSUME Calm PROVE Spec => WorkersResetFirst
<1>1. Init => ResetInv
    BY ResetInit
<1>2. IInv /\ ResetInv /\ [Next]_vars => ResetInv'
    BY ResetKept
<1>3. IInv /\ ResetInv /\ [Next]_vars =>
        [\A w \in Workers :
            /\ pods[w].phase # "absent" /\ pods[w].owner # None
            /\ pods'[w].owner = None /\ pods'[w].phase = "live"
            => session[w] = None]_vars
    BY NextResets DEF ResetStep
<1> QED
    BY <1>1, <1>2, <1>3, ControllerInvariant, PTL DEF Spec, WorkersResetFirst
=============================================================================
