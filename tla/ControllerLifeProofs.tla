------------------------ MODULE ControllerLifeProofs ------------------------
(***************************************************************************)
(* The controller implements ShellLife for any number of cloudshells,      *)
(* workers, specs and disturbances.  The refinement mapping looks at the   *)
(* API server's cloudshells, and at routes and workers only to say which   *)
(* of them something still serves.  What the goroutine writes comes from   *)
(* copies it has read and changed before, so the invariant follows what    *)
(* the copies carry: the finalizer, the reference to the secret and the    *)
(* time of the start.                                                      *)
(*                                                                         *)
(* On the same invariant rests that no wake-up is lost: whatever has not   *)
(* been looked at is in the watch stream and will be enqueued from there.  *)
(***************************************************************************)
EXTENDS ControllerProofs

\* An object with the server's resource version has lost neither the reference to the
\* secret nor the time of the start that the server has.
Remembers(s, o) == cs[s].phase # "absent" => (cs[s].secret => o.secret) /\ (cs[s].started => o.started)

SecretsKept == /\ \A s \in csCur : Remembers(s, csCache[s])
               /\ csPtr.cur => Remembers(csPtr.name, csPtr.obj)

\* removeCloudshell of an expired cloudshell works with an object that has the
\* finalizer, so its Update must be accepted before the status is reported.  From
\* then on the object says when the server's cloudshell was started, if it was,
\* whatever its resource version.
RemovePCs == {"release", "reset", "back", "unroute", "unfin"}
Dated == cs[job.shell].phase # "absent" /\ cs[job.shell].started => csPtr.obj.started

Carries ==
    /\ job.pc \in SyncPCs => job.why \in {"none", "later"}
    /\ job.pc \in SyncPCs \ {"ensure"} => csPtr.obj.fin
    /\ job.pc \in RemovePCs /\ job.why # "deleted" => csPtr.obj.fin
    /\ job.pc \in {"complete", "status"} => Dated
    /\ job.pc = "status" =>
          /\ csPtr.obj.status # "none"
          /\ csPtr.obj.status = "Ready" => csPtr.obj.started /\ job.why \in {"none", "later"}

LifeInv == IInv /\ SecretsKept /\ Carries

(***************************************************************************)
(* The secrets, through the operations of the store.                       *)
(***************************************************************************)
LEMMA WriteKeeps ==
    ASSUME StoreInv, SecretsKept, NEW n \in Shells, NEW r, API!Write(n, r)
    PROVE  SecretsKept'
<1>1. cs \in [Shells -> ShellRec] /\ csCur \subseteq Shells /\ csPtr \in API!PtrRec
    BY DEF StoreInv, API!StoreTypeOK
<1>2. csPtr'.name = csPtr.name /\ csPtr'.obj = csPtr.obj /\ (csPtr'.cur => csPtr.cur /\ csPtr.name # n)
    BY <1>1 DEF API!Write, API!PtrRec
<1>3. \A s \in Shells : s # n => cs'[s] = cs[s]
    BY <1>1 DEF API!Write
<1>4. csPtr.cur => csPtr.name \in Shells
    BY DEF StoreInv, VersionsAgree
<1> QED
    BY <1>1, <1>2, <1>3, <1>4 DEF SecretsKept, Remembers, API!Write

LEMMA MutateKeeps ==
    ASSUME StoreInv, SecretsKept, NEW n \in Shells, csPtr.name = n, NEW rec \in ShellRec, API!Mutate(rec),
           csPtr.obj.secret => rec.secret, csPtr.obj.started => rec.started
    PROVE  SecretsKept'
<1>1. csCache \in [Shells -> ShellRec] /\ csCur \subseteq Shells /\ csPtr \in API!PtrRec
      /\ (csPtr.alias => csPtr.obj = csCache[n])
    BY DEF StoreInv, API!StoreTypeOK, VersionsAgree
<1>2. /\ csPtr'.name = n /\ csPtr'.obj = rec /\ csPtr'.cur = csPtr.cur /\ UNCHANGED <<cs, csCur>>
      /\ csCache' = IF csPtr.alias THEN [csCache EXCEPT ![n] = rec] ELSE csCache
    BY <1>1 DEF API!Mutate, API!InPlace, API!PtrRec
<1>3. ASSUME NEW s \in csCur' PROVE Remembers(s, csCache[s])'
    BY <1>1, <1>2, <1>3 DEF SecretsKept, Remembers
<1>4. ASSUME csPtr'.cur PROVE Remembers(csPtr.name, csPtr.obj)'
    BY <1>2, <1>4 DEF SecretsKept, Remembers
<1> QED
    BY <1>3, <1>4 DEF SecretsKept

\* An accepted Update leaves in the copies what the server has now.
LEMMA UpdateKeeps ==
    ASSUME StoreInv, SecretsKept, NEW n \in Shells, csPtr.name = n, NEW rec \in ShellRec, NEW sent \in ShellRec,
           API!UpdateOK(sent, Final(sent)) \/ API!UpdateLost(rec, Final(sent))
    PROVE  SecretsKept'
<1>1. cs \in [Shells -> ShellRec] /\ csCache \in [Shells -> ShellRec] /\ csCur \subseteq Shells
      /\ csPtr \in API!PtrRec
    BY DEF StoreInv, API!StoreTypeOK
<1>2. Final(sent).phase # "absent" => Final(sent) = sent
    BY DEF Final, NoShell
<1>3. /\ cs' = [cs EXCEPT ![n] = Final(sent)] /\ csPtr'.name = n
      /\ csPtr'.cur => csPtr'.obj = sent
      /\ csCur' \subseteq csCur \cup {n} /\ (n \in csCur' => csCache'[n] = sent)
      /\ \A s \in Shells : s # n => csCache'[s] = csCache[s]
  <2>1. CASE API!UpdateOK(sent, Final(sent))
      BY <1>1, <2>1 DEF API!UpdateOK, API!InPlace, API!PtrRec
  <2>2. CASE API!UpdateLost(rec, Final(sent))
      BY <1>1, <2>2 DEF API!UpdateLost, API!InPlace, API!PtrRec
  <2> QED
      BY <2>1, <2>2
<1>4. cs'[n] = Final(sent) /\ \A s \in Shells : s # n => cs'[s] = cs[s]
    BY <1>1, <1>3
<1> QED
    BY <1>1, <1>2, <1>3, <1>4 DEF SecretsKept, Remembers

\* A copy is read: from the lister, from the stream or from the server.
LEMMA ReadKeeps ==
    ASSUME StoreInv, SecretsKept,
           \/ \E n \in Shells : API!Hold(n) \/ API!Deliver(n)
           \/ API!Relist
           \/ csPtr' = API!NoPtr /\ UNCHANGED <<cs, csCache, csCur>>
           \/ UNCHANGED csStore
    PROVE  SecretsKept'
<1>1. cs \in [Shells -> ShellRec] /\ csCache \in [Shells -> ShellRec] /\ csCur \subseteq Shells
      /\ csPtr \in API!PtrRec /\ csWatch \in [Shells -> Seq(ShellRec)]
    BY DEF StoreInv, API!StoreTypeOK
<1>2. ASSUME NEW n \in Shells, API!Hold(n) PROVE SecretsKept'
    BY <1>1, <1>2 DEF API!Hold, SecretsKept, Remembers
<1>3. ASSUME NEW n \in Shells, API!Deliver(n) PROVE SecretsKept'
  <2>1. /\ csPtr'.name = csPtr.name /\ csPtr'.obj = csPtr.obj /\ csPtr'.cur = csPtr.cur
        /\ cs' = cs /\ csCache' = [csCache EXCEPT ![n] = Head(csWatch[n])]
        /\ csCur' \subseteq csCur \cup {n} /\ (n \in csCur' => Len(csWatch[n]) = 1)
        /\ csWatch[n] # <<>> /\ csWatch[n] \in Seq(ShellRec)
      BY <1>1, <1>3 DEF API!Deliver, API!PtrRec
  <2>2. n \in csCur' => csCache'[n] = cs[n]
      BY <1>1, <2>1, ShrinksAtFront DEF StoreInv, VersionsAgree
  <2>3. ASSUME NEW s \in csCur' PROVE Remembers(s, csCache[s])'
      BY <1>1, <2>1, <2>2, <2>3 DEF SecretsKept, Remembers
  <2> QED
      BY <2>1, <2>3 DEF SecretsKept, Remembers
<1>4. CASE API!Relist
    BY <1>4 DEF API!Relist, API!NoPtr, SecretsKept, Remembers
<1>5. CASE csPtr' = API!NoPtr /\ UNCHANGED <<cs, csCache, csCur>>
    BY <1>5 DEF API!NoPtr, SecretsKept, Remembers
<1>6. CASE UNCHANGED csStore
    BY <1>6 DEF csStore, SecretsKept, Remembers
<1> QED
    BY <1>2, <1>3, <1>4, <1>5, <1>6

(***************************************************************************)
(* An Update of the held object.                                           *)
(***************************************************************************)
\* What the server makes of it: status and lastScheduleTime are its own, phase and
\* spec are the same.
Updated(n, rec) == [cs[n] EXCEPT !.fin = rec.fin, !.pod = rec.pod, !.secret = rec.secret]

LEMMA SaveOutcome ==
    ASSUME LifeInv, job.pc # "idle", NEW n \in Shells, n = me, NEW rec \in ShellRec, NEW next,
           Save(rec, next), rec.phase = obj.phase, rec.spec = obj.spec, obj.secret => rec.secret,
           rec.started = obj.started
    PROVE  /\ SecretsKept'
           /\ \/ cs' = cs
              \/ /\ cs' = [cs EXCEPT ![n] = Final(Updated(n, rec))]
                 /\ cs[n].phase # "absent" /\ Agrees(n, obj) /\ (cs[n].secret => rec.secret)
           /\ \/ Fail
              \/ /\ Goto(next) /\ csPtr.cur /\ cs[n].phase # "absent"
                 /\ csPtr'.obj.fin = rec.fin /\ csPtr'.obj.started = cs[n].started
                 /\ cs'[n].phase # "absent" => cs'[n].started = cs[n].started
<1>1. /\ csPtr.name = n /\ csPtr.obj = obj /\ obj \in ShellRec /\ cs[n] \in ShellRec /\ StoreInv
      /\ csPtr \in API!PtrRec /\ SecretsKept /\ IInv
    BY AtWork DEF LifeInv, IInv, StoreInv, API!StoreTypeOK
<1>2. PICK sent : sent = [rec EXCEPT !.status = cs[me].status, !.started = cs[me].started]
    OBVIOUS
<1>3. /\ sent \in ShellRec /\ sent.phase = rec.phase /\ sent.spec = rec.spec /\ sent.pod = rec.pod
      /\ sent.fin = rec.fin /\ sent.secret = rec.secret
      /\ sent.status = cs[n].status /\ sent.started = cs[n].started
    BY <1>1, <1>2 DEF ShellRec
<1>4. ASSUME API!Mutate(rec) PROVE SecretsKept' /\ cs' = cs
    BY <1>1, <1>4, MutateKeeps DEF API!Mutate
<1>5. ASSUME API!UpdateOK(sent, Final(sent)) \/ API!UpdateLost(rec, Final(sent))
      PROVE  /\ SecretsKept' /\ csPtr.cur
             /\ cs' = [cs EXCEPT ![n] = Final(Updated(n, rec))]
             /\ cs[n].phase # "absent" /\ Agrees(n, obj) /\ (cs[n].secret => rec.secret)
  <2>1. SecretsKept'
      BY <1>1, <1>3, <1>5, UpdateKeeps
  <2>2. cs' = [cs EXCEPT ![n] = Final(sent)] /\ cs[n].phase # "absent" /\ csPtr.cur
      BY <1>1, <1>5 DEF API!UpdateOK, API!UpdateLost, API!Accepts
  <2>3. Agrees(n, obj) /\ Remembers(n, obj)
      BY <1>1, <2>2 DEF StoreInv, VersionsAgree, SecretsKept
  <2>4. sent.phase = cs[n].phase /\ sent.spec = cs[n].spec
      BY <1>3, <2>2, <2>3 DEF Agrees
  <2>5. sent = Updated(n, rec)
      BY <1>1, <1>3, <2>4 DEF Updated, ShellRec
  <2>6. cs[n].secret => rec.secret
      BY <2>2, <2>3 DEF Remembers
  <2> QED
      BY <2>1, <2>2, <2>3, <2>5, <2>6
<1>6. ASSUME API!UpdateOK(sent, Final(sent))
      PROVE  /\ csPtr'.obj.fin = rec.fin /\ csPtr'.obj.started = cs[n].started
             /\ cs'[n].phase # "absent" => cs'[n].started = cs[n].started
  <2>1. Final(sent).phase # "absent" => Final(sent) = sent
      BY DEF Final, NoShell
  <2>2. cs'[n] = Final(sent) /\ csPtr'.obj = sent
      BY <1>1, <1>6 DEF API!UpdateOK, API!PtrRec, StoreInv, API!StoreTypeOK
  <2> QED
      BY <1>3, <2>1, <2>2
<1>7. \/ API!UpdateOK(sent, Final(sent)) /\ Goto(next)
      \/ API!Mutate(rec) /\ Fail
      \/ API!UpdateLost(rec, Final(sent)) /\ Fail
    BY <1>2 DEF Save
<1> QED
    BY <1>4, <1>5, <1>6, <1>7

\* The controller records something about a cloudshell that is not being deleted.
LEMMA RecordLives ==
    ASSUME LifeInv, NEW n \in Shells, NEW rec \in ShellRec, rec.fin, obj.phase = "live",
           cs[n].phase # "absent", Agrees(n, obj), cs[n].secret => rec.secret,
           cs' = [cs EXCEPT ![n] = Final(Updated(n, rec))]
    PROVE  Life!LNext
<1>1. cs[n] \in ShellRec /\ cs[n].phase = "live"
    BY DEF LifeInv, IInv, StoreInv, API!StoreTypeOK, Agrees
<1>2. Updated(n, rec).phase = "live"
    BY <1>1 DEF Updated, ShellRec
<1>3. cs' = [cs EXCEPT ![n] = Updated(n, rec)]
    BY <1>2 DEF Final
<1>4. rec.pod \in Workers \cup {None} /\ rec.secret \in BOOLEAN /\ rec.fin = TRUE
    BY DEF ShellRec
<1>5. Life!Record(n)
    BY <1>1, <1>3, <1>4 DEF Life!Record, Life!Becomes, Updated
<1> QED
    BY <1>5 DEF Life!LNext

\* removeFinalizer comes when nothing serves the cloudshell any more.
LEMMA LetGoLives ==
    ASSUME LifeInv, job.pc = "unfin", NEW n \in Shells, n = me, NEW rec \in ShellRec, ~rec.fin,
           cs[n].phase # "absent", Agrees(n, obj), cs[n].secret => rec.secret,
           cs' = [cs EXCEPT ![n] = Final(Updated(n, rec))]
    PROVE  Life!LNext
<1>1. cs[n] \in ShellRec /\ obj.phase = cs[n].phase /\ obj.spec = cs[n].spec
    BY DEF LifeInv, IInv, StoreInv, API!StoreTypeOK, Agrees
<1>2. n \notin Serving
  <2>1. \A r \in routes : r.at = At(n, cs[n].spec) => r.at.mode = "NodePort"
      BY <1>1 DEF LifeInv, IInv, PcInv
  <2>2. ASSUME cs[n].phase = "deleting", cs[n].pod # None
        PROVE  pods[cs[n].pod].phase # "live" \/ pods[cs[n].pod].owner # n
    <3>1. obj.pod = cs[n].pod \/ Loose(n, cs[n].pod)
        BY <1>1, <2>2 DEF Agrees
    <3>2. obj.pod # None => Loose(n, obj.pod)
        BY DEF LifeInv, IInv, PcInv
    <3> QED
        BY <2>2, <3>1, <3>2 DEF Loose
  <2> QED
      BY <2>1, <2>2 DEF Serving
<1>3. Updated(n, rec).phase = cs[n].phase /\ Updated(n, rec).fin = rec.fin
    BY <1>1 DEF Updated, ShellRec
<1>4. CASE cs[n].phase = "deleting"
  <2>1. cs' = [cs EXCEPT ![n] = Life!Absent]
      BY <1>3, <1>4 DEF Final, NoShell, Life!Absent
  <2> QED
      BY <1>2, <1>4, <2>1 DEF Life!LNext, Life!LetGo, Life!Becomes
<1>5. CASE cs[n].phase = "live"
  <2>1. cs' = [cs EXCEPT ![n] = Updated(n, rec)]
      BY <1>3, <1>5 DEF Final
  <2>2. rec.pod \in Workers \cup {None} /\ rec.secret \in BOOLEAN /\ rec.fin = FALSE
      BY DEF ShellRec
  <2>3. Life!LetGo(n)
      BY <1>2, <1>5, <2>1, <2>2 DEF Life!LetGo, Life!Becomes, Updated
  <2> QED
      BY <2>3 DEF Life!LNext
<1> QED
    BY <1>1, <1>4, <1>5 DEF ShellRec

(***************************************************************************)
(* The steps.  Each does what ShellLife allows and keeps the invariant.    *)
(***************************************************************************)
Lives == Life!LNext \/ cs' = cs

StepLives == SecretsKept' /\ Carries' /\ Lives

\* Places where nothing is asked of the object.
FreePCs == {"idle", "ok", "later", "error", "delete"}

LEMMA FreeCarries ==
    ASSUME \/ job'.pc \in FreePCs
           \/ job'.pc = "ensure" /\ job'.why = "none"
           \/ job'.pc = "release" /\ job'.why = "deleted"
    PROVE  Carries'
BY DEF FreePCs, Carries, SyncPCs, RemovePCs

LEMMA FailCarries ==
    ASSUME LifeInv, job.pc # "idle", Fail
    PROVE  Carries'
<1>1. job \in JobType
    BY AtWork DEF LifeInv
<1>2. job'.pc = "error"
    BY <1>1 DEF Fail, Goto, JobType
<1> QED
    BY <1>2, FreeCarries DEF FreePCs

\* Nobody but the goroutine starts a cloudshell.
StartsNone == \A s \in Shells : cs'[s].phase # "absent" /\ cs'[s].started => cs[s].phase # "absent" /\ cs[s].started

\* The goroutine stands still.
LEMMA QuietCarries ==
    ASSUME LifeInv, UNCHANGED job, job.pc # "idle" => csPtr'.obj = csPtr.obj, StartsNone
    PROVE  Carries'
<1>1. CASE job.pc = "idle"
    BY <1>1, FreeCarries DEF FreePCs
<1>2. CASE job.pc # "idle"
  <2>1. job.shell \in Shells
      BY <1>2, AtWork DEF LifeInv, me
  <2>2. Dated => Dated'
      BY <1>2, <2>1 DEF Dated, StartsNone
  <2> QED
      BY <1>2, <2>2 DEF LifeInv, Carries
<1> QED
    BY <1>1, <1>2

\* Ensure, Unlabel, Label and Secret write with the finalizer.
LEMMA RecordSteps ==
    ASSUME LifeInv, Ensure \/ Unlabel \/ Label \/ Secret
    PROVE  StepLives
<1>0. job.pc \in SyncPCs /\ job.pc # "idle"
    BY DEF Ensure, Unlabel, Label, Secret, SyncPCs
<1>1. PICK n \in Shells : n = me
    BY <1>0, AtWork DEF LifeInv
<1>2. obj \in ShellRec /\ obj.phase = "live" /\ job \in JobType /\ StoreInv /\ SecretsKept
      /\ job.why \in {"none", "later"}
    BY <1>0, AtWork DEF LifeInv, IInv, PcInv, Carries
<1>3. ASSUME NEW rec \in ShellRec, NEW next \in SyncPCs, Save(rec, next), rec.fin,
             rec.phase = obj.phase, rec.spec = obj.spec, obj.secret => rec.secret, rec.started = obj.started
      PROVE  StepLives
  <2>1. /\ SecretsKept'
        /\ \/ cs' = cs
           \/ /\ cs' = [cs EXCEPT ![n] = Final(Updated(n, rec))]
              /\ cs[n].phase # "absent" /\ Agrees(n, obj) /\ (cs[n].secret => rec.secret)
        /\ Fail \/ (Goto(next) /\ csPtr'.obj.fin = rec.fin)
      BY <1>0, <1>1, <1>3, SaveOutcome
  <2>2. Lives
      BY <1>2, <1>3, <2>1, RecordLives DEF Lives
  <2>3. Carries'
    <3>1. CASE Fail
        BY <1>0, <3>1, FailCarries
    <3>2. CASE Goto(next) /\ csPtr'.obj.fin = rec.fin
      <4>1. job'.pc = next /\ job'.why = job.why
          BY <1>2, <3>2 DEF Goto, JobType
      <4> QED
          BY <1>2, <1>3, <3>2, <4>1 DEF Carries, SyncPCs, RemovePCs
    <3> QED
        BY <2>1, <3>1, <3>2
  <2> QED
      BY <2>1, <2>2, <2>3 DEF StepLives
<1>4. ASSUME NEW next \in SyncPCs, Goto(next), UNCHANGED csStore, obj.fin
      PROVE  StepLives
  <2>1. job'.pc = next /\ job'.why = job.why /\ csPtr' = csPtr
      BY <1>2, <1>4 DEF Goto, JobType, csStore
  <2>2. Carries'
      BY <1>2, <1>4, <2>1 DEF Carries, SyncPCs, RemovePCs, obj
  <2>3. SecretsKept'
      BY <1>2, <1>4, ReadKeeps
  <2> QED
      BY <1>4, <2>2, <2>3 DEF StepLives, Lives, csStore
<1>5. ASSUME Fail, UNCHANGED csStore PROVE StepLives
  <2>1. Carries' /\ SecretsKept'
      BY <1>0, <1>2, <1>5, FailCarries, ReadKeeps
  <2> QED
      BY <1>5, <2>1 DEF StepLives, Lives, csStore
<1>6. CASE Ensure
  <2>1. PICK rec : rec = [obj EXCEPT !.fin = TRUE]
      OBVIOUS
  <2>2. /\ rec \in ShellRec /\ rec.fin /\ rec.phase = obj.phase /\ rec.spec = obj.spec
        /\ rec.secret = obj.secret /\ rec.started = obj.started
      BY <1>2, <2>1 DEF ShellRec
  <2>3. Save(rec, "check") \/ (Goto("check") /\ UNCHANGED csStore /\ obj.fin)
      BY <1>6, <2>1 DEF Ensure
  <2> QED
      BY <1>3, <1>4, <2>2, <2>3 DEF SyncPCs
<1>7. CASE Unlabel \/ Label \/ Secret
  <2>0. obj.fin /\ job.worker \in Workers \cup {None}
      BY <1>2, <1>7 DEF Unlabel, Label, Secret, LifeInv, Carries, SyncPCs, obj, JobType
  <2>1. CASE Unlabel
      BY <1>2, <1>3, <2>0, <2>1 DEF Unlabel, SyncPCs
  <2>2. CASE Label
    <3>1. PICK rec : rec = [obj EXCEPT !.pod = job.worker]
        OBVIOUS
    <3>2. /\ rec \in ShellRec /\ rec.fin /\ rec.phase = obj.phase /\ rec.spec = obj.spec
          /\ rec.secret = obj.secret /\ rec.started = obj.started
        BY <1>2, <2>0, <3>1 DEF ShellRec
    <3>3. Save(rec, "route")
        BY <2>2, <3>1 DEF Label
    <3> QED
        BY <1>3, <3>2, <3>3 DEF SyncPCs
  <2>3. CASE Secret
    <3>1. PICK rec : rec = [obj EXCEPT !.secret = TRUE]
        OBVIOUS
    <3>2. /\ rec \in ShellRec /\ rec.fin /\ rec.phase = obj.phase /\ rec.spec = obj.spec
          /\ rec.secret /\ rec.started = obj.started
        BY <1>2, <2>0, <3>1 DEF ShellRec
    <3>3. Save(rec, "exec") \/ ((Goto("exec") \/ Fail) /\ UNCHANGED csStore)
        BY <2>3, <3>1 DEF Secret
    <3> QED
        BY <1>3, <1>4, <1>5, <2>0, <3>2, <3>3 DEF SyncPCs
  <2> QED
      BY <1>7, <2>1, <2>2, <2>3
<1> QED
    BY <1>6, <1>7

LEMMA UnfinSteps ==
    ASSUME LifeInv, Unfin
    PROVE  StepLives
<1>0. job.pc = "unfin"
    BY DEF Unfin
<1>1. PICK n \in Shells : n = me
    BY <1>0, AtWork DEF LifeInv
<1>2. obj \in ShellRec /\ job \in JobType /\ StoreInv /\ SecretsKept
    BY <1>0, AtWork DEF LifeInv, IInv
<1>3. PICK next : next = IF job.why = "deleted" THEN "ok" ELSE IF obj.spec.cleanup THEN "delete" ELSE "complete"
    OBVIOUS
<1>4. next \in {"ok", "delete", "complete"} /\ (next = "complete" => job.why # "deleted")
    BY <1>3
<1>5. next = "complete" => obj.fin
    BY <1>0, <1>4 DEF LifeInv, Carries, RemovePCs, obj
<1>6. ASSUME Goto(next), next = "complete" => (cs'[n].phase # "absent" /\ cs'[n].started => csPtr'.obj.started)
      PROVE  Carries'
  <2>1. job'.pc = next /\ job'.shell = n
      BY <1>1, <1>2, <1>6 DEF Goto, JobType, me
  <2>2. CASE next # "complete"
      BY <1>4, <2>1, <2>2, FreeCarries DEF FreePCs
  <2>3. CASE next = "complete"
      BY <1>6, <2>1, <2>3 DEF Carries, Dated, SyncPCs, RemovePCs
  <2> QED
      BY <2>2, <2>3
<1>7. CASE obj.fin
  <2>1. PICK rec : rec = [obj EXCEPT !.fin = FALSE]
      OBVIOUS
  <2>2. /\ rec \in ShellRec /\ ~rec.fin /\ rec.phase = obj.phase /\ rec.spec = obj.spec
        /\ rec.secret = obj.secret /\ rec.started = obj.started
      BY <1>2, <2>1 DEF ShellRec
  <2>3. Save(rec, next)
      BY <1>3, <1>7, <2>1 DEF Unfin
  <2>4. /\ SecretsKept'
        /\ \/ cs' = cs
           \/ /\ cs' = [cs EXCEPT ![n] = Final(Updated(n, rec))]
              /\ cs[n].phase # "absent" /\ Agrees(n, obj) /\ (cs[n].secret => rec.secret)
        /\ \/ Fail
           \/ /\ Goto(next) /\ csPtr'.obj.started = cs[n].started
              /\ cs'[n].phase # "absent" => cs'[n].started = cs[n].started
      BY <1>0, <1>1, <2>2, <2>3, SaveOutcome
  <2>5. Lives
      BY <1>0, <1>1, <2>2, <2>4, LetGoLives DEF Lives
  <2>6. Carries'
      BY <1>0, <1>6, <2>4, FailCarries
  <2> QED
      BY <2>4, <2>5, <2>6 DEF StepLives
<1>8. CASE ~obj.fin
  <2>1. Goto(next) /\ UNCHANGED csStore
      BY <1>3, <1>8 DEF Unfin
  <2>2. Carries' /\ SecretsKept'
      BY <1>2, <1>5, <1>6, <1>8, <2>1, ReadKeeps
  <2> QED
      BY <2>1, <2>2 DEF StepLives, Lives, csStore
<1> QED
    BY <1>7, <1>8

\* The steps that leave the cloudshells alone.
LEMMA MoveSteps ==
    ASSUME LifeInv, Check \/ Release \/ Borrow \/ Route \/ Reset \/ Unroute
    PROVE  StepLives
<1>0. job.pc # "idle" /\ UNCHANGED csStore
    BY DEF Check, Release, Borrow, Route, Reset, Unroute
<1>1. PICK n \in Shells : n = me
    BY <1>0, AtWork DEF LifeInv
<1>2. job \in JobType /\ StoreInv /\ SecretsKept /\ cs' = cs /\ csPtr' = csPtr
    BY <1>0, AtWork DEF LifeInv, IInv, csStore
<1>3. SecretsKept'
    BY <1>0, <1>2, ReadKeeps
<1>4. ASSUME NEW next \in SyncPCs \cup FreePCs, job'.pc = next, job.pc \in SyncPCs \ {"ensure"},
             job'.why \in {"none", "later"}
      PROVE  Carries'
    BY <1>2, <1>4 DEF LifeInv, Carries, SyncPCs, RemovePCs, FreePCs
<1>5. ASSUME NEW next \in RemovePCs, job'.pc = next, job.pc \in RemovePCs,
             job'.why = job.why, job'.shell = job.shell
      PROVE  Carries'
    BY <1>2, <1>5 DEF LifeInv, Carries, SyncPCs, RemovePCs
<1>6. ASSUME NEW next \in RemovePCs, Goto(next), job.pc \in RemovePCs PROVE Carries'
  <2>1. job'.pc = next /\ job'.why = job.why /\ job'.shell = job.shell
      BY <1>2, <1>6 DEF Goto, JobType
  <2> QED
      BY <1>5, <1>6, <2>1
<1>7. ASSUME NEW next \in SyncPCs \cup FreePCs, Goto(next), job.pc \in SyncPCs \ {"ensure"} PROVE Carries'
  <2>1. job'.pc = next /\ job'.why = job.why
      BY <1>2, <1>7 DEF Goto, JobType
  <2>2. job.why \in {"none", "later"}
      BY <1>7 DEF LifeInv, Carries
  <2> QED
      BY <1>4, <1>7, <2>1, <2>2
<1>8. ASSUME Check PROVE Carries'
  <2>1. CASE TimedOut
    <3>1. job'.pc = "release" /\ csPtr.obj.fin
        BY <1>2, <1>8, <2>1 DEF Check, JobType, LifeInv, Carries, SyncPCs
    <3> QED
        BY <1>2, <3>1 DEF Carries, SyncPCs, RemovePCs
  <2>2. CASE ~TimedOut
    <3>1. job'.pc \in {"borrow", "route", "reassign"} /\ job'.why \in {"none", "later"}
        BY <1>2, <1>8, <2>2 DEF Check, JobType
    <3> QED
        BY <1>4, <1>8, <3>1 DEF Check, SyncPCs
  <2> QED
      BY <2>1, <2>2
<1>9. ASSUME Release PROVE Carries'
  <2>1. job'.pc \in {"unroute", "reset"} /\ job'.why = job.why /\ job'.shell = job.shell
      BY <1>2, <1>9 DEF Release, JobType
  <2> QED
      BY <1>5, <1>9, <2>1 DEF Release, RemovePCs
<1>10. ASSUME Borrow PROVE Carries'
  <2>1. job'.pc \in {"label", "ok", "error"} /\ job'.why = job.why
      BY <1>2, <1>10 DEF Borrow, Goto, Fail, JobType
  <2>2. job.why \in {"none", "later"}
      BY <1>10 DEF Borrow, LifeInv, Carries, SyncPCs
  <2> QED
      BY <1>4, <1>10, <2>1, <2>2 DEF Borrow, SyncPCs, FreePCs
<1>11. ASSUME Route PROVE Carries'
    BY <1>7, <1>11 DEF Route, Done, Fail, SyncPCs, FreePCs
<1>12. ASSUME Reset PROVE Carries'
    BY <1>6, <1>12 DEF Reset, RemovePCs
<1>13. ASSUME Unroute PROVE Carries'
    BY <1>0, <1>6, <1>13, FailCarries DEF Unroute, Done, RemovePCs
<1>14. Carries'
    BY <1>8, <1>9, <1>10, <1>11, <1>12, <1>13
<1> QED
    BY <1>2, <1>3, <1>14 DEF StepLives, Lives

\* The steps that change the held object and do not send it.
LEMMA MutateSteps ==
    ASSUME LifeInv, Reassign \/ Back \/ Exec \/ Complete
    PROVE  StepLives
<1>0. job.pc # "idle"
    BY DEF Reassign, Back, Exec, Complete
<1>1. PICK n \in Shells : n = me
    BY <1>0, AtWork DEF LifeInv
<1>2. job \in JobType /\ obj \in ShellRec /\ csPtr.obj = obj /\ csPtr.name = n
      /\ StoreInv /\ SecretsKept /\ csPtr \in API!PtrRec
    BY <1>0, <1>1, AtWork DEF LifeInv, IInv, StoreInv, API!StoreTypeOK
<1>3. ASSUME NEW rec \in ShellRec, NEW next, rec.secret = obj.secret, obj.started => rec.started,
             API!Mutate(rec), Goto(next), Carries'
      PROVE  StepLives
  <2>1. SecretsKept' /\ cs' = cs
      BY <1>2, <1>3, MutateKeeps DEF API!Mutate
  <2> QED
      BY <1>3, <2>1 DEF StepLives, Lives
<1>4. ASSUME NEW rec \in ShellRec, API!Mutate(rec)
      PROVE  csPtr'.obj = rec /\ csPtr'.cur = csPtr.cur /\ cs' = cs
    BY <1>2, <1>4 DEF API!Mutate, API!PtrRec
<1>5. ASSUME NEW next, Goto(next)
      PROVE  job'.pc = next /\ job'.why = job.why /\ job'.shell = job.shell
    BY <1>2, <1>5 DEF Goto, JobType
<1>6. ASSUME Fail, UNCHANGED csStore PROVE StepLives
  <2>1. Carries' /\ SecretsKept'
      BY <1>0, <1>2, <1>6, FailCarries, ReadKeeps
  <2> QED
      BY <1>6, <2>1 DEF StepLives, Lives, csStore
<1>7. CASE Reassign \/ Back
  <2>1. PICK rec : rec = [obj EXCEPT !.pod = None]
      OBVIOUS
  <2>2. rec \in ShellRec /\ rec.secret = obj.secret /\ rec.fin = obj.fin /\ rec.started = obj.started
      BY <1>2, <2>1 DEF ShellRec
  <2>3. CASE Reassign
    <3>1. obj.fin /\ Goto("unlabel") /\ API!Mutate(rec) /\ job.why \in {"none", "later"}
        BY <1>2, <2>1, <2>3 DEF Reassign, LifeInv, Carries, SyncPCs
    <3>2. csPtr'.obj = rec /\ rec.fin /\ job'.pc = "unlabel" /\ job'.why = job.why
        BY <1>4, <1>5, <2>2, <3>1
    <3>3. Carries'
        BY <3>1, <3>2 DEF Carries, SyncPCs, RemovePCs
    <3> QED
        BY <1>3, <2>2, <3>1, <3>3
  <2>4. CASE Back /\ ~(Fail /\ UNCHANGED csStore)
    <3>1. Goto("unroute") /\ API!Mutate(rec)
        BY <2>1, <2>4 DEF Back
    <3>2. job.why # "deleted" => obj.fin
        BY <2>4 DEF Back, LifeInv, Carries, RemovePCs, obj
    <3>3. csPtr'.obj = rec /\ job'.pc = "unroute" /\ job'.why = job.why
        BY <1>4, <1>5, <2>2, <3>1
    <3>4. Carries'
        BY <2>2, <3>2, <3>3 DEF Carries, SyncPCs, RemovePCs
    <3> QED
        BY <1>3, <2>2, <3>1, <3>4
  <2> QED
      BY <1>6, <1>7, <2>3, <2>4
<1>8. CASE Exec /\ ~(Fail /\ UNCHANGED csStore)
  <2>1. PICK rec : rec = [obj EXCEPT !.status = "Ready", !.started = TRUE]
      OBVIOUS
  <2>2. rec \in ShellRec /\ rec.secret = obj.secret /\ rec.started /\ rec.status = "Ready"
      BY <1>2, <2>1 DEF ShellRec
  <2>3. Goto("status") /\ API!Mutate(rec) /\ job.why \in {"none", "later"}
      BY <1>8, <2>1 DEF Exec, LifeInv, Carries, SyncPCs
  <2>4. csPtr'.obj = rec /\ job'.pc = "status" /\ job'.why = job.why
      BY <1>4, <1>5, <2>2, <2>3
  <2>5. Carries'
      BY <2>2, <2>3, <2>4 DEF Carries, Dated, SyncPCs, RemovePCs
  <2> QED
      BY <1>3, <2>2, <2>3, <2>5
<1>9. CASE Complete
  <2>1. PICK rec : rec = [obj EXCEPT !.status = "Complete"]
      OBVIOUS
  <2>2. rec \in ShellRec /\ rec.secret = obj.secret /\ rec.started = obj.started /\ rec.status = "Complete"
      BY <1>2, <2>1 DEF ShellRec
  <2>3. Goto("status") /\ API!Mutate(rec) /\ Dated
      BY <1>9, <2>1 DEF Complete, LifeInv, Carries
  <2>4. csPtr'.obj = rec /\ cs' = cs /\ job'.pc = "status" /\ job'.shell = job.shell
      BY <1>4, <1>5, <2>2, <2>3
  <2>5. Dated'
      BY <1>2, <2>2, <2>3, <2>4 DEF Dated
  <2>6. Carries'
      BY <2>2, <2>4, <2>5 DEF Carries, SyncPCs, RemovePCs
  <2> QED
      BY <1>3, <2>2, <2>3, <2>6
<1> QED
    BY <1>6, <1>7, <1>8, <1>9

\* UpdateCloudshellStatus.
LEMMA StatusSteps ==
    ASSUME LifeInv, Status
    PROVE  StepLives
<1>0. job.pc = "status"
    BY DEF Status
<1>1. PICK n \in Shells : n = me
    BY <1>0, AtWork DEF LifeInv
<1>2. /\ job \in JobType /\ obj \in ShellRec /\ csPtr.obj = obj /\ csPtr.name = n
      /\ StoreInv /\ SecretsKept /\ cs[n] \in ShellRec /\ csCache[n] \in ShellRec
      /\ obj.started \in BOOLEAN /\ obj.status \in {"Ready", "Complete"} /\ (obj.status = "Ready" => obj.started)
      /\ cs[n].phase # "absent" /\ cs[n].started => obj.started
      /\ csCache \in [Shells -> ShellRec] /\ csCur \subseteq Shells
  <2>1. obj.status # "none" /\ (obj.status = "Ready" => obj.started) /\ Dated /\ obj \in ShellRec
      BY <1>0, AtWork DEF LifeInv, Carries, obj
  <2>2. obj.started \in BOOLEAN /\ obj.status \in {"Ready", "Complete"}
      BY <2>1 DEF ShellRec
  <2>3. cs[n].phase # "absent" /\ cs[n].started => obj.started
      BY <1>1, <2>1 DEF Dated, me, obj
  <2> QED
      BY <1>0, <1>1, <2>1, <2>2, <2>3, AtWork DEF LifeInv, IInv, StoreInv, API!StoreTypeOK
<1>3. ASSUME UNCHANGED csStore, Fail PROVE StepLives
  <2>1. Carries' /\ SecretsKept'
      BY <1>0, <1>2, <1>3, FailCarries, ReadKeeps
  <2> QED
      BY <1>3, <2>1 DEF StepLives, Lives, csStore
<1>4. ASSUME cs[n].phase # "absent", Goto("later") \/ Goto("ok") \/ Fail,
             API!Write(n, [cs[n] EXCEPT !.status = obj.status, !.started = obj.started])
      PROVE  StepLives
  <2>1. SecretsKept'
      BY <1>2, <1>4, WriteKeeps
  <2>2. job'.pc \in FreePCs
      BY <1>2, <1>4 DEF Goto, Fail, JobType, FreePCs
  <2>3. cs' = [cs EXCEPT ![n] = [cs[n] EXCEPT !.status = obj.status, !.started = obj.started]]
      BY <1>4 DEF API!Write
  <2>4. ASSUME obj.status = "Ready" PROVE Life!Report(n)
    <3>1. obj.started = TRUE
        BY <1>2, <2>4
    <3>2. cs' = [cs EXCEPT ![n] = [cs[n] EXCEPT !.status = "Ready", !.started = TRUE]]
        BY <2>3, <2>4, <3>1
    <3> QED
        BY <1>4, <3>2 DEF Life!Report, Life!Becomes
  <2>5. ASSUME obj.status = "Complete" PROVE Life!Report(n)
    <3>1. PICK b \in BOOLEAN : b = obj.started
        BY <1>2
    <3>2. cs' = [cs EXCEPT ![n] = [cs[n] EXCEPT !.status = "Complete", !.started = b]] /\ (cs[n].started => b)
        BY <1>2, <1>4, <2>3, <2>5, <3>1
    <3> QED
        BY <1>4, <3>2 DEF Life!Report, Life!Becomes
  <2>6. Life!Report(n)
      BY <1>2, <2>4, <2>5
  <2> QED
      BY <2>1, <2>2, <2>6, FreeCarries DEF StepLives, Lives, Life!LNext
<1>5. PICK kept : kept = [csCache[n] EXCEPT !.status = obj.status, !.started = obj.started]
    OBVIOUS
<1>6. kept.secret = csCache[n].secret /\ kept.started = obj.started /\ kept.status = obj.status
    BY <1>2, <1>5 DEF ShellRec
<1>7. ASSUME csCache' = [csCache EXCEPT ![n] = kept],
             csPtr' = [name |-> n, obj |-> kept, alias |-> TRUE, cur |-> n \in csCur],
             UNCHANGED <<cs, csWatch, csCur, job>>
      PROVE  StepLives
  <2>1. csCache'[n] = kept /\ \A s \in Shells : s # n => csCache'[s] = csCache[s]
      BY <1>2, <1>7
  <2>2. n \in csCur => Remembers(n, kept)
      BY <1>2, <1>6 DEF SecretsKept, Remembers
  <2>3. (\A s \in csCur' : Remembers(s, csCache[s])') /\ (csPtr'.cur => Remembers(csPtr.name, csPtr.obj)')
      BY <1>2, <1>7, <2>1, <2>2 DEF SecretsKept, Remembers
  <2>4. csPtr'.obj.started = csPtr.obj.started /\ csPtr'.obj.status = csPtr.obj.status /\ job' = job /\ cs' = cs
      BY <1>2, <1>6, <1>7
  <2>5. Carries'
      BY <1>0, <2>4 DEF LifeInv, Carries, Dated, SyncPCs, RemovePCs
  <2> QED
      BY <1>7, <2>3, <2>5 DEF StepLives, SecretsKept, Lives
<1> QED
    BY <1>1, <1>3, <1>4, <1>5, <1>7 DEF Status, Done

\* c.Delete; repeated on a cloudshell that is being deleted it changes nothing.
LEMMA DeletedLives ==
    ASSUME LifeInv, NEW n \in Shells, cs[n].phase # "absent", API!Write(n, Marked(n))
    PROVE  Lives /\ SecretsKept'
<1>1. cs \in [Shells -> ShellRec] /\ cs[n] \in ShellRec /\ StoreInv /\ SecretsKept
    BY DEF LifeInv, IInv, StoreInv, API!StoreTypeOK
<1>2. SecretsKept' /\ cs' = [cs EXCEPT ![n] = Marked(n)]
    BY <1>1, WriteKeeps DEF API!Write
<1>3. PICK gone : gone = [cs[n] EXCEPT !.phase = "deleting"]
    OBVIOUS
<1>4. gone.phase = "deleting" /\ gone.fin = cs[n].fin
    BY <1>1, <1>3 DEF ShellRec
<1>5. Marked(n) = IF cs[n].fin THEN gone ELSE Life!Absent
    BY <1>3, <1>4 DEF Marked, Final, NoShell, Life!Absent
<1>6. CASE cs[n].phase = "live"
    BY <1>2, <1>3, <1>5, <1>6 DEF Lives, Life!LNext, Life!Delete, Life!Becomes
<1>7. CASE cs[n].phase = "deleting"
  <2>1. cs[n].fin /\ gone = cs[n]
      BY <1>1, <1>3, <1>7 DEF StoreInv, DeletingGuarded, ShellRec
  <2> QED
      BY <1>1, <1>2, <1>5, <2>1 DEF Lives
<1> QED
    BY <1>1, <1>2, <1>6, <1>7 DEF ShellRec

LEMMA LastSteps ==
    ASSUME LifeInv, DeleteSelf \/ End
    PROVE  StepLives
<1>0. job.pc # "idle"
    BY DEF DeleteSelf, End
<1>1. PICK n \in Shells : n = me
    BY <1>0, AtWork DEF LifeInv
<1>2. job \in JobType /\ StoreInv /\ SecretsKept
    BY <1>0, AtWork DEF LifeInv, IInv
<1>3. job'.pc \in FreePCs
    BY <1>2 DEF DeleteSelf, End, Done, Goto, Fail, JobIdle, JobType, FreePCs
<1>4. SecretsKept' /\ Lives
  <2>1. CASE cs[n].phase # "absent" /\ API!Write(n, Marked(n))
      BY <2>1, DeletedLives
  <2>2. CASE UNCHANGED csStore
      BY <1>2, <2>2, ReadKeeps DEF Lives, csStore
  <2>3. CASE End
      BY <1>2, <2>3, ReadKeeps DEF End, Lives
  <2> QED
      BY <1>1, <2>1, <2>2, <2>3 DEF DeleteSelf
<1> QED
    BY <1>3, <1>4, FreeCarries DEF StepLives

LEMMA SyncLives ==
    ASSUME LifeInv, Sync
    PROVE  StepLives
BY RecordSteps, UnfinSteps, MoveSteps, MutateSteps, StatusSteps, LastSteps DEF Sync

\* The goroutine never brings a cloudshell back.
LEMMA SyncBearsNone ==
    ASSUME LifeInv, Sync, NEW s \in Shells, cs[s].phase = "absent"
    PROVE  cs'[s].phase = "absent"
<1>0. job.pc # "idle"
    BY DEF Sync, Ensure, Check, Reassign, Unlabel, Borrow, Label, Route, Secret, Exec, Status, Release, Reset,
           Back, Unroute, Unfin, Complete, DeleteSelf, End
<1>1. job \in JobType
    BY <1>0, AtWork DEF LifeInv
<1>2. ASSUME NEW rec, NEW next, Save(rec, next), next # job.pc, job.pc # "error" PROVE job' # job
    BY <1>1, <1>2 DEF Save, Goto, Fail, JobType
<1>3. UNCHANGED cs \/ job' # job
  <2>1. ASSUME Ensure \/ Unlabel PROVE UNCHANGED cs \/ job' # job
      BY <1>2, <2>1 DEF Ensure, Unlabel, csStore
  <2>2. ASSUME Label \/ Secret PROVE UNCHANGED cs \/ job' # job
      BY <1>2, <2>2 DEF Label, Secret, csStore
  <2>3. ASSUME Unfin PROVE UNCHANGED cs \/ job' # job
    <3>1. PICK next : next = IF job.why = "deleted" THEN "ok" ELSE IF obj.spec.cleanup THEN "delete" ELSE "complete"
        OBVIOUS
    <3>2. Save([obj EXCEPT !.fin = FALSE], next) \/ UNCHANGED csStore
        BY <2>3, <3>1 DEF Unfin
    <3> QED
        BY <1>2, <2>3, <3>1, <3>2 DEF Unfin, csStore
  <2>4. ASSUME Status \/ DeleteSelf PROVE UNCHANGED cs \/ job' # job
      BY <1>1, <2>4 DEF Status, DeleteSelf, Done, Fail, Goto, JobType, csStore
  <2>5. ASSUME \/ Check \/ Reassign \/ Borrow \/ Route \/ Exec \/ Release \/ Reset \/ Back \/ Unroute
               \/ Complete \/ End
        PROVE  UNCHANGED cs
      BY <2>5 DEF Check, Reassign, Borrow, Route, Exec, Release, Reset, Back, Unroute, Complete, End,
                  csStore, API!Mutate
  <2> QED
      BY <2>1, <2>2, <2>3, <2>4, <2>5 DEF Sync
<1>4. StandStep /\ cs' \in [Shells -> ShellRec]
  <2>1. IInv /\ IInv'
      BY SyncInv DEF LifeInv
  <2> QED
      BY <2>1, SyncStands DEF IInv, StoreInv, API!StoreTypeOK
<1> QED
    BY <1>3, <1>4 DEF StandStep

\* Users.
LEMMA UserLives ==
    ASSUME LifeInv, NEW s \in Shells, DeleteShell(s) \/ \E sp \in Specs : CreateShell(s, sp) \/ EditShell(s, sp)
    PROVE  StepLives
<1>1. cs \in [Shells -> ShellRec] /\ csPtr \in API!PtrRec /\ StoreInv /\ SecretsKept
    BY DEF LifeInv, IInv, StoreInv, API!StoreTypeOK
<1>2. UNCHANGED job /\ \E r : API!Write(s, r)
    BY DEF DeleteShell, CreateShell, EditShell
<1>3. csPtr'.obj = csPtr.obj /\ StartsNone
  <2>1. csPtr'.obj = csPtr.obj /\ \A n \in Shells : n # s => cs'[n] = cs[n]
      BY <1>1, <1>2 DEF API!Write, API!PtrRec
  <2>2. CASE DeleteShell(s)
    <3>1. cs'[s] = Marked(s) /\ cs[s] \in ShellRec /\ cs[s].phase = "live"
        BY <1>1, <2>2 DEF DeleteShell, API!Write
    <3>2. Marked(s).phase # "absent" => Marked(s).started = cs[s].started
        BY <3>1 DEF Marked, Final, NoShell, ShellRec
    <3> QED
        BY <2>1, <3>1, <3>2 DEF StartsNone
  <2>3. ASSUME NEW sp \in Specs, CreateShell(s, sp) PROVE ~cs'[s].started
      BY <1>1, <2>3 DEF CreateShell, API!Write, NoShell
  <2>4. ASSUME NEW sp \in Specs, EditShell(s, sp) PROVE cs'[s].started = cs[s].started /\ cs[s].phase = "live"
      BY <1>1, <2>4 DEF EditShell, API!Write, ShellRec
  <2> QED
      BY <2>1, <2>2, <2>3, <2>4 DEF StartsNone
<1>4. SecretsKept' /\ Carries'
    BY <1>1, <1>2, <1>3, WriteKeeps, QuietCarries
<1>5. CASE DeleteShell(s)
    BY <1>4, <1>5, DeletedLives DEF DeleteShell, StepLives
<1>6. ASSUME NEW sp \in Specs, CreateShell(s, sp) PROVE Life!Create(s, sp)
    BY <1>6 DEF CreateShell, API!Write, NoShell, Life!Create, Life!Becomes, Life!Absent
<1>7. ASSUME NEW sp \in Specs, EditShell(s, sp) PROVE Life!Edit(s, sp)
    BY <1>7 DEF EditShell, API!Write, Life!Edit, Life!Becomes
<1> QED
    BY <1>4, <1>5, <1>6, <1>7 DEF StepLives, Lives, Life!LNext

\* Everybody else leaves the server's cloudshells alone.
LEMMA OtherLives ==
    ASSUME LifeInv,
           \/ Crash \/ UNCHANGED vars
           \/ \E s \in Shells : \/ ShellEvent(s) \/ Take(s) \/ PoolWakes(s) \/ Elapse(s) \/ Retry(s)
                                \/ TimerFires(s) \/ Collect(s)
           \/ \E w \in Workers : \/ PodEvent(w) \/ PoolCreates(w) \/ WorkerReady(w) \/ WorkerUnready(w)
                                 \/ WorkerEvicted(w) \/ WorkerGone(w)
    PROVE  StepLives /\ cs' = cs
<1>1. StoreInv /\ SecretsKept /\ csPtr \in API!PtrRec
    BY DEF LifeInv, IInv, StoreInv, API!StoreTypeOK
<1>2. ASSUME UNCHANGED <<csStore, job>> PROVE StepLives /\ cs' = cs
  <2>1. SecretsKept' /\ Carries'
      BY <1>1, <1>2, ReadKeeps, QuietCarries DEF csStore, StartsNone
  <2> QED
      BY <1>2, <2>1 DEF StepLives, Lives, csStore
<1>3. CASE Crash
  <2>1. job'.pc \in FreePCs /\ API!Relist
      BY <1>3 DEF Crash, JobIdle, FreePCs
  <2> QED
      BY <1>1, <2>1, ReadKeeps, FreeCarries DEF StepLives, Lives, API!Relist
<1>4. ASSUME NEW s \in Shells, ShellEvent(s) PROVE StepLives /\ cs' = cs
  <2>1. API!Deliver(s) /\ UNCHANGED job
      BY <1>4 DEF ShellEvent
  <2>2. csPtr'.obj = csPtr.obj /\ csPtr'.cur = csPtr.cur /\ cs' = cs
      BY <1>1, <2>1 DEF API!Deliver, API!PtrRec
  <2>3. SecretsKept' /\ Carries'
      BY <1>1, <2>1, <2>2, ReadKeeps, QuietCarries DEF StartsNone
  <2> QED
      BY <2>2, <2>3 DEF StepLives, Lives
<1>5. ASSUME NEW s \in Shells, Take(s), ~UNCHANGED <<csStore, job>> PROVE StepLives /\ cs' = cs
  <2>1. /\ API!Hold(s)
        /\ \/ job'.pc = "ensure" /\ job'.why = "none"
           \/ job'.pc = "release" /\ job'.why = "deleted"
      BY <1>5 DEF Take, JobIdle
  <2> QED
      BY <1>1, <2>1, ReadKeeps, FreeCarries DEF StepLives, Lives, API!Hold
<1>6. ASSUME NEW s \in Shells, PoolWakes(s) \/ Elapse(s) \/ Retry(s) \/ TimerFires(s) \/ Collect(s)
      PROVE  UNCHANGED <<csStore, job>>
    BY <1>6 DEF PoolWakes, Elapse, Retry, TimerFires, Collect
<1>7. ASSUME NEW w \in Workers,
             \/ PodEvent(w) \/ PoolCreates(w) \/ WorkerReady(w) \/ WorkerUnready(w)
             \/ WorkerEvicted(w) \/ WorkerGone(w)
      PROVE  UNCHANGED <<csStore, job>>
    BY <1>7 DEF PodEvent, PoolCreates, WorkerReady, WorkerUnready, WorkerEvicted, WorkerGone
<1>8. CASE UNCHANGED vars
    BY <1>2, <1>8 DEF vars
<1> QED
    BY <1>2, <1>3, <1>4, <1>5, <1>6, <1>7, <1>8

(***************************************************************************)
(* All steps together.                                                     *)
(***************************************************************************)
LEMMA NextLives ==
    ASSUME LifeInv, [Next]_vars
    PROVE  LifeInv' /\ Lives
<1>1. IInv'
    BY NextInv DEF LifeInv
<1>2. StepLives
    BY SyncLives, UserLives, OtherLives DEF Next
<1> QED
    BY <1>1, <1>2 DEF LifeInv, StepLives

\* Before the first step there is no cloudshell.
LEMMA LifeInit ==
    ASSUME Init
    PROVE  LifeInv
<1>1. /\ IInv /\ cs = [s \in Shells |-> NoShell] /\ csCache = cs
      /\ job.pc = "idle" /\ csPtr.cur = FALSE
    BY InitInv DEF Init, API!StoreInit, API!NoPtr, JobIdle
<1>2. SecretsKept /\ Carries
    BY <1>1 DEF SecretsKept, Remembers, Carries, SyncPCs, RemovePCs, NoShell,
                IInv, StoreInv, API!StoreTypeOK
<1> QED
    BY <1>1, <1>2 DEF LifeInv

\* Seen from the API server a cloudshell lives as ShellLife says, whatever is late,
\* fails, is edited or restarted: removeFinalizer (cloudshell_controller.go:513)
\* takes effect only on a cloudshell that nothing serves any more, whether it was
\* deleted or has expired; once a deletion is requested nothing but that and a
\* status is written; Ready is reported with a lastScheduleTime, and neither that nor
\* the reference to the kubeconfig secret is ever lost, also when a TTL of zero
\* expires a cloudshell that was never started; and only a user replaces a spec.
THEOREM ControllerRefinesLife == Spec => ControllerKeepsLife
<1>1. Init => LifeInv /\ Life!LInit
    BY LifeInit DEF Init, API!StoreInit, Life!LInit, Life!Absent, NoShell
<1>2. LifeInv /\ [Next]_vars => LifeInv' /\ [Life!LNext]_cs
    BY NextLives DEF Lives
<1> QED
    BY <1>1, <1>2, PTL DEF Spec, ControllerKeepsLife, Life!LSpec
(***************************************************************************)
(* No wake-up is lost.  What the goroutine has not looked at yet is in the *)
(* watch stream; the invariant says which of its versions will be enqueued *)
(* when they arrive, although they are compared with an object that the    *)
(* goroutine has changed meanwhile (it never changes phase or spec).       *)
(***************************************************************************)
\* The i-th version in the stream w, and before the first the cached object c.
Version(c, w, i) == IF i = 0 THEN c ELSE w[i]

\* Enqueues answers yes whatever has become of the secret.
Stirs(old, new) == old.phase = "absent" \/ new.phase # "live" \/ old.spec # new.spec

\* A version after the i-th will be enqueued.
FiresAfter(c, w, i) == \E j \in 1 .. Len(w) : i < j /\ Stirs(Version(c, w, j - 1), Version(c, w, j))

\* For all that will be enqueued, the objects are the same.
Alike(c, d) == d.phase = c.phase /\ d.spec = c.spec

\* What the goroutine does to the cached object does not matter.
LEMMA FiresSame ==
    ASSUME NEW c, NEW d, Alike(c, d), NEW w, NEW i, FiresAfter(c, w, i)
    PROVE  FiresAfter(d, w, i)
BY DEF Alike, FiresAfter, Stirs, Version

\* A new version at the end of a stream changes nothing for the older ones.
LEMMA FiresGrow ==
    ASSUME NEW c, NEW d, Alike(c, d), NEW w \in Seq(ShellRec), NEW r \in ShellRec
    PROVE  LET t == Append(w, r) IN
           /\ t \in Seq(ShellRec) /\ t # <<>> /\ Len(t) = Len(w) + 1
           /\ \A i \in 0 .. Len(w) : Alike(Version(c, w, i), Version(d, t, i))
           /\ Version(d, t, Len(t)) = r
           /\ \A i \in 0 .. Len(w) : FiresAfter(c, w, i) => FiresAfter(d, t, i)
           /\ Stirs(Version(c, w, Len(w)), r) => \A i \in 0 .. Len(w) : FiresAfter(d, t, i)
<1> DEFINE t == Append(w, r)
<1>1. t \in Seq(ShellRec) /\ Len(w) \in Nat /\ Len(t) = Len(w) + 1 /\ t # <<>> /\ t[Len(t)] = r
      /\ \A i \in 1 .. Len(w) : t[i] = w[i]
    OBVIOUS
<1>2. \A i \in 0 .. Len(w) : Alike(Version(c, w, i), Version(d, t, i))
    BY <1>1 DEF Alike, Version
<1>3. Version(d, t, Len(t)) = r
    BY <1>1 DEF Version
<1>4. ASSUME NEW i \in 0 .. Len(w), FiresAfter(c, w, i) PROVE FiresAfter(d, t, i)
  <2>1. PICK j \in 1 .. Len(w) : i < j /\ Stirs(Version(c, w, j - 1), Version(c, w, j))
      BY <1>4 DEF FiresAfter
  <2>2. j \in 1 .. Len(t) /\ j \in 0 .. Len(w) /\ j - 1 \in 0 .. Len(w)
      BY <1>1
  <2>3. Stirs(Version(d, t, j - 1), Version(d, t, j))
      BY <1>2, <2>1, <2>2 DEF Stirs, Alike
  <2> QED
      BY <2>1, <2>2, <2>3 DEF FiresAfter
<1>5. ASSUME Stirs(Version(c, w, Len(w)), r), NEW i \in 0 .. Len(w) PROVE FiresAfter(d, t, i)
  <2>1. Len(t) \in 1 .. Len(t) /\ i < Len(t) /\ Len(t) - 1 = Len(w) /\ Len(w) \in 0 .. Len(w)
      BY <1>1
  <2>2. Stirs(Version(d, t, Len(t) - 1), Version(d, t, Len(t)))
      BY <1>2, <1>3, <1>5, <2>1 DEF Stirs, Alike
  <2> QED
      BY <2>1, <2>2 DEF FiresAfter
<1> QED
    BY <1>1, <1>2, <1>3, <1>4, <1>5

\* What would be enqueued is enqueued on delivery of the first version, or is still in the stream.
LEMMA FiresTail ==
    ASSUME NEW c, NEW w \in Seq(ShellRec), w # <<>>
    PROVE  LET t == Tail(w) IN
           /\ t \in Seq(ShellRec) /\ Len(t) = Len(w) - 1 /\ Len(w) \in Nat /\ Head(w) \in ShellRec
           /\ (Len(w) = 1 => w[Len(w)] = Head(w)) /\ (Len(w) # 1 => t # <<>>)
           /\ \A i \in 0 .. Len(t) : /\ i + 1 \in 0 .. Len(w)
                                     /\ Version(Head(w), t, i) = Version(c, w, i + 1)
                                     /\ FiresAfter(c, w, i + 1) => FiresAfter(Head(w), t, i)
           /\ FiresAfter(c, w, 0) => Stirs(c, Head(w)) \/ FiresAfter(Head(w), t, 0)
<1> DEFINE t == Tail(w)
           h == Head(w)
<1>1. t \in Seq(ShellRec) /\ Len(w) \in Nat \ {0} /\ Len(t) = Len(w) - 1 /\ h = w[1] /\ h \in ShellRec
      /\ \A i \in 1 .. Len(t) : t[i] = w[i + 1]
  <2>1. t \in Seq(ShellRec) /\ Len(w) \in Nat \ {0} /\ Len(t) = Len(w) - 1 /\ h = w[1]
        /\ \A i \in 1 .. Len(t) : t[i] = w[i + 1]
      OBVIOUS
  <2>2. w[1] \in ShellRec
      BY <2>1
  <2> QED
      BY <2>1, <2>2
<1>2. (Len(w) = 1 => w[Len(w)] = h) /\ (Len(w) # 1 => t # <<>>)
  <2>1. Len(w) # 1 => Len(t) # 0
      BY <1>1
  <2> QED
      BY <1>1, <2>1
<1>3. ASSUME NEW i \in 0 .. Len(t) PROVE i + 1 \in 0 .. Len(w) /\ Version(h, t, i) = Version(c, w, i + 1)
    BY <1>1 DEF Version
<1>4. ASSUME NEW i \in 0 .. Len(t), NEW j \in 1 .. Len(w), i + 1 < j,
             Stirs(Version(c, w, j - 1), Version(c, w, j))
      PROVE  FiresAfter(h, t, i)
  <2>1. j - 1 \in 1 .. Len(t) /\ i < j - 1 /\ j - 1 \in 0 .. Len(t) /\ j - 2 \in 0 .. Len(t)
      BY <1>1, <1>4
  <2>2. Version(h, t, j - 1) = Version(c, w, j) /\ Version(h, t, (j - 1) - 1) = Version(c, w, j - 1)
      BY <1>1, <2>1 DEF Version
  <2> QED
      BY <1>4, <2>1, <2>2 DEF FiresAfter
<1>5. ASSUME NEW i \in 0 .. Len(t), FiresAfter(c, w, i + 1) PROVE FiresAfter(h, t, i)
    BY <1>4, <1>5 DEF FiresAfter
<1>6. ASSUME FiresAfter(c, w, 0) PROVE Stirs(c, h) \/ FiresAfter(h, t, 0)
  <2>1. PICK j \in 1 .. Len(w) : 0 < j /\ Stirs(Version(c, w, j - 1), Version(c, w, j))
      BY <1>6 DEF FiresAfter
  <2>2. CASE j = 1
      BY <1>1, <2>1, <2>2 DEF Version
  <2>3. CASE j # 1
    <3>1. 0 \in 0 .. Len(t) /\ 0 + 1 < j
        BY <1>1, <2>3
    <3> QED
        BY <1>4, <2>1, <3>1
  <2> QED
      BY <2>2, <2>3
<1> QED
    BY <1>1, <1>2, <1>3, <1>5, <1>6

\* A stream that has run dry has told everything, and one that leads to a live
\* cloudshell will have it enqueued after whatever was not live.
Pending(s) == FiresAfter(csCache[s], csWatch[s], 0)
TellsOf(s) ==
    /\ s \notin csCur => csWatch[s] # <<>>
    /\ csWatch[s] = <<>> => Alike(cs[s], csCache[s])
    /\ cs[s].phase = "live" =>
          \A i \in 0 .. Len(csWatch[s]) :
              Version(csCache[s], csWatch[s], i).phase # "live" => FiresAfter(csCache[s], csWatch[s], i)
StreamTells == \A s \in Shells : TellsOf(s)

\* What a step does to the stream of a cloudshell.
Stays(s) == /\ cs'[s] = cs[s] /\ csWatch'[s] = csWatch[s] /\ Alike(csCache[s], csCache'[s])
            /\ s \in csCur' <=> s \in csCur
Grows(s) == csWatch'[s] = Append(csWatch[s], cs'[s]) /\ Alike(csCache[s], csCache'[s])
Catches(s) == /\ csWatch[s] # <<>> /\ csWatch'[s] = Tail(csWatch[s]) /\ csCache'[s] = Head(csWatch[s])
              /\ cs'[s] = cs[s] /\ (s \in csCur' \/ csWatch'[s] # <<>>)
Flows(s) == Stays(s) \/ Grows(s)

\* What is new to a live cloudshell will be enqueued, and what will be enqueued
\* stays so as long as nothing is delivered.
StaysPending(s) ==
    cs'[s].phase = "live" /\ (cs[s].phase # "live" \/ cs'[s].spec # cs[s].spec \/ Pending(s))
        => Pending(s)'

\* The stream ends with the server's cloudshell, or the cache shows it.
LEMMA StreamLast ==
    ASSUME StoreInv, NEW s \in Shells, TellsOf(s)
    PROVE  /\ cs[s] \in ShellRec /\ csCache[s] \in ShellRec /\ csWatch[s] \in Seq(ShellRec)
           /\ Len(csWatch[s]) \in 0 .. Len(csWatch[s])
           /\ Alike(cs[s], Version(csCache[s], csWatch[s], Len(csWatch[s])))
<1>1. cs[s] \in ShellRec /\ csCache[s] \in ShellRec /\ csWatch[s] \in Seq(ShellRec)
    BY DEF StoreInv, API!StoreTypeOK
<1>2. Len(csWatch[s]) \in 0 .. Len(csWatch[s])
    BY <1>1
<1>3. CASE csWatch[s] = <<>>
  <2>1. Len(csWatch[s]) = 0
      BY <1>3
  <2>2. Alike(cs[s], csCache[s])
      BY <1>3 DEF TellsOf
  <2>3. Version(csCache[s], csWatch[s], Len(csWatch[s])) = csCache[s]
      BY <2>1 DEF Version
  <2> QED
      BY <1>1, <1>2, <2>2, <2>3
<1>4. CASE csWatch[s] # <<>>
  <2>1. Len(csWatch[s]) # 0 /\ csWatch[s][Len(csWatch[s])] = cs[s]
      BY <1>1, <1>4 DEF StoreInv, VersionsAgree
  <2> QED
      BY <1>1, <1>2, <2>1 DEF Version, Alike
<1> QED
    BY <1>1, <1>2, <1>3, <1>4

\* A stream that stays or grows tells as much as before, and what was to be enqueued still is.
LEMMA FlowTells ==
    ASSUME StoreInv, NEW s \in Shells, TellsOf(s), Flows(s), cs'[s] \in ShellRec,
           cs[s].phase = "deleting" => cs'[s].phase # "live"
    PROVE  TellsOf(s)' /\ StaysPending(s)
<1> DEFINE c == csCache[s]
           d == csCache'[s]
           w == csWatch[s]
           t == csWatch'[s]
<1>1. /\ cs[s] \in ShellRec /\ c \in ShellRec /\ w \in Seq(ShellRec) /\ Len(w) \in 0 .. Len(w)
      /\ Alike(cs[s], Version(c, w, Len(w)))
    BY StreamLast
<1>2. CASE Stays(s)
  <2>1. \A i : FiresAfter(c, w, i) => FiresAfter(d, t, i)
      BY <1>2, FiresSame DEF Stays
  <2>2. \A i : Version(d, t, i).phase = Version(c, w, i).phase
      BY <1>2 DEF Stays, Version, Alike
  <2> QED
      BY <1>2, <2>1, <2>2 DEF Stays, TellsOf, StaysPending, Pending, Alike
<1>3. CASE Grows(s)
  <2>1. t = Append(w, cs'[s]) /\ Alike(c, d)
      BY <1>3 DEF Grows
  <2>2. /\ t # <<>> /\ Len(t) = Len(w) + 1 /\ Version(d, t, Len(t)) = cs'[s]
        /\ \A i \in 0 .. Len(w) : Alike(Version(c, w, i), Version(d, t, i))
        /\ \A i \in 0 .. Len(w) : FiresAfter(c, w, i) => FiresAfter(d, t, i)
        /\ Stirs(Version(c, w, Len(w)), cs'[s]) => \A i \in 0 .. Len(w) : FiresAfter(d, t, i)
      BY <1>1, <2>1, FiresGrow
  <2>3. ASSUME cs'[s].phase = "live", cs[s].phase # "live" \/ cs'[s].spec # cs[s].spec
        PROVE  Stirs(Version(c, w, Len(w)), cs'[s])
      BY <1>1, <2>3 DEF Stirs, Alike, ShellRec
  <2>4. ASSUME cs'[s].phase = "live", NEW i \in 0 .. Len(t), Version(d, t, i).phase # "live"
        PROVE  FiresAfter(d, t, i)
    <3>1. i \in 0 .. Len(w)
        BY <1>1, <2>2, <2>4
    <3>2. Version(c, w, i).phase # "live"
        BY <2>2, <2>4, <3>1 DEF Alike
    <3>3. CASE cs[s].phase = "live"
        BY <2>2, <3>1, <3>2, <3>3 DEF TellsOf
    <3>4. CASE cs[s].phase # "live"
        BY <2>2, <2>3, <2>4, <3>1, <3>4
    <3> QED
        BY <3>3, <3>4
  <2>5. 0 \in 0 .. Len(w)
      BY <1>1
  <2>6. TellsOf(s)'
      BY <2>2, <2>4 DEF TellsOf
  <2>7. StaysPending(s)
      BY <2>2, <2>3, <2>5 DEF StaysPending, Pending
  <2> QED
      BY <2>6, <2>7
<1> QED
    BY <1>2, <1>3 DEF Flows

\* A delivery enqueues what was to be enqueued, or leaves it in the stream.
LEMMA CatchTells ==
    ASSUME StoreInv, NEW s \in Shells, TellsOf(s), Catches(s)
    PROVE  TellsOf(s)' /\ (Pending(s) => Stirs(csCache[s], Head(csWatch[s])) \/ Pending(s)')
<1> DEFINE c == csCache[s]
           d == csCache'[s]
           w == csWatch[s]
           t == csWatch'[s]
<1>1. /\ cs[s] \in ShellRec /\ c \in ShellRec /\ w \in Seq(ShellRec)
    BY StreamLast
<1>2. w # <<>> /\ t = Tail(w) /\ d = Head(w) /\ cs'[s] = cs[s] /\ (s \in csCur' \/ t # <<>>)
    BY DEF Catches
<1>3. /\ Len(t) = Len(w) - 1 /\ Len(w) \in Nat
      /\ (Len(w) = 1 => w[Len(w)] = d) /\ (Len(w) # 1 => t # <<>>)
      /\ \A i \in 0 .. Len(t) : /\ i + 1 \in 0 .. Len(w)
                                /\ Version(d, t, i) = Version(c, w, i + 1)
                                /\ FiresAfter(c, w, i + 1) => FiresAfter(d, t, i)
      /\ FiresAfter(c, w, 0) => Stirs(c, Head(w)) \/ FiresAfter(d, t, 0)
  <2> HIDE DEF c, d, w, t
  <2> QED
      BY <1>1, <1>2, FiresTail
<1>4. w[Len(w)] = cs[s]
    BY <1>2 DEF StoreInv, VersionsAgree
<1>5. t = <<>> => Alike(cs'[s], d)
    BY <1>2, <1>3, <1>4 DEF Alike
<1>6. TellsOf(s)'
    BY <1>2, <1>3, <1>5 DEF TellsOf
<1> QED
    BY <1>2, <1>3, <1>6 DEF Pending

\* Every operation of the store is a step of each stream.
LEMMA StoreFlows ==
    ASSUME StoreInv, NEW s \in Shells,
           \/ \E n \in Shells : \E r : API!Write(n, r)
           \/ \E n \in Shells : \E rec, sent \in ShellRec :
                 /\ csPtr.name = n /\ Alike(csPtr.obj, rec) /\ Alike(csPtr.obj, sent)
                 /\ API!Mutate(rec) \/ API!UpdateOK(sent, Final(sent)) \/ API!UpdateLost(rec, Final(sent))
           \/ \E n \in Shells : \E kept :
                 /\ Alike(csCache[n], kept) /\ csCache' = [csCache EXCEPT ![n] = kept]
                 /\ UNCHANGED <<cs, csWatch, csCur>>
           \/ UNCHANGED <<cs, csWatch, csCache, csCur>>
    PROVE  Flows(s)
<1>1. /\ cs \in [Shells -> ShellRec] /\ csCache \in [Shells -> ShellRec]
      /\ csWatch \in [Shells -> Seq(ShellRec)] /\ csCur \subseteq Shells
      /\ (csPtr.alias => csPtr.obj = csCache[csPtr.name])
    BY DEF StoreInv, API!StoreTypeOK, VersionsAgree
<1> USE DEF Flows, Alike
<1>2. ASSUME NEW n \in Shells, NEW r, API!Write(n, r) PROVE Flows(s)
    BY <1>1, <1>2 DEF API!Write, Stays, Grows
<1>3. ASSUME NEW n \in Shells, NEW rec \in ShellRec, csPtr.name = n, Alike(csPtr.obj, rec), API!Mutate(rec)
      PROVE  Flows(s)
    BY <1>1, <1>3 DEF API!Mutate, API!InPlace, Stays
<1>4. ASSUME NEW n \in Shells, NEW rec \in ShellRec, NEW sent \in ShellRec, csPtr.name = n,
             Alike(csPtr.obj, rec), Alike(csPtr.obj, sent),
             API!UpdateOK(sent, Final(sent)) \/ API!UpdateLost(rec, Final(sent))
      PROVE  Flows(s)
  <2>1. /\ cs' = [cs EXCEPT ![n] = Final(sent)]
        /\ csWatch' = [csWatch EXCEPT ![n] = Append(@, Final(sent))]
        /\ s # n => (s \in csCur' <=> s \in csCur)
      BY <1>1, <1>4 DEF API!UpdateOK, API!UpdateLost
  <2>2. Alike(csCache[s], csCache'[s])
      BY <1>1, <1>4 DEF API!UpdateOK, API!UpdateLost, API!InPlace
  <2> QED
      BY <1>1, <2>1, <2>2 DEF Stays, Grows
<1>5. ASSUME NEW n \in Shells, NEW kept, Alike(csCache[n], kept), csCache' = [csCache EXCEPT ![n] = kept],
             UNCHANGED <<cs, csWatch, csCur>>
      PROVE  Flows(s)
    BY <1>1, <1>5 DEF Stays
<1>6. CASE UNCHANGED <<cs, csWatch, csCache, csCur>>
    BY <1>6 DEF Stays
<1> QED
    BY <1>2, <1>3, <1>4, <1>5, <1>6

\* An Update of the held object, whatever comes of it.
LEMMA SaveFlows ==
    ASSUME IInv, job.pc # "idle", NEW s \in Shells, NEW rec \in ShellRec, NEW next, Save(rec, next), Alike(obj, rec)
    PROVE  Flows(s)
<1>1. PICK n \in Shells : n = me
    BY AtWork
<1>2. csPtr.name = n /\ csPtr.obj = obj /\ cs[n] \in ShellRec /\ StoreInv
    BY <1>1, AtWork DEF IInv
<1>3. PICK sent : sent = [rec EXCEPT !.status = cs[me].status, !.started = cs[me].started]
    OBVIOUS
<1>4. sent \in ShellRec /\ Alike(obj, sent)
    BY <1>1, <1>2, <1>3 DEF ShellRec, Alike
<1>5. API!Mutate(rec) \/ API!UpdateOK(sent, Final(sent)) \/ API!UpdateLost(rec, Final(sent))
    BY <1>3 DEF Save
<1> QED
    BY <1>2, <1>4, <1>5, StoreFlows

\* The goroutine's steps.
LEMMA SyncFlows ==
    ASSUME IInv, Sync, NEW s \in Shells
    PROVE  Flows(s)
<1>0. job.pc # "idle"
    BY DEF Sync, Ensure, Check, Reassign, Unlabel, Borrow, Label, Route, Secret, Exec, Status, Release, Reset,
           Back, Unroute, Unfin, Complete, DeleteSelf, End
<1>1. PICK n \in Shells : n = me
    BY <1>0, AtWork
<1>2. /\ csPtr.name = n /\ csPtr.obj = obj /\ obj \in ShellRec /\ StoreInv /\ job \in JobType
      /\ cs[n] \in ShellRec /\ csCache[n] \in ShellRec
    BY <1>0, <1>1, AtWork DEF IInv
<1>3. CASE UNCHANGED <<cs, csWatch, csCache, csCur>>
    BY <1>2, <1>3, StoreFlows
<1>4. ASSUME NEW rec \in ShellRec, Alike(obj, rec), API!Mutate(rec) PROVE Flows(s)
    BY <1>2, <1>4, StoreFlows
<1>5. ASSUME NEW r, API!Write(n, r) PROVE Flows(s)
    BY <1>2, <1>5, StoreFlows
<1>6. CASE Ensure
  <2>1. [obj EXCEPT !.fin = TRUE] \in ShellRec /\ Alike(obj, [obj EXCEPT !.fin = TRUE])
      BY <1>2 DEF ShellRec, Alike
  <2> QED
      BY <1>0, <1>3, <1>6, <2>1, SaveFlows DEF Ensure, csStore
<1>7. CASE Label
  <2>1. job.worker \in Workers \cup {None}
      BY <1>2 DEF JobType
  <2>2. [obj EXCEPT !.pod = job.worker] \in ShellRec /\ Alike(obj, [obj EXCEPT !.pod = job.worker])
      BY <1>2, <2>1 DEF ShellRec, Alike
  <2> QED
      BY <1>0, <1>7, <2>2, SaveFlows DEF Label
<1>8. CASE Secret
  <2>1. [obj EXCEPT !.secret = TRUE] \in ShellRec /\ Alike(obj, [obj EXCEPT !.secret = TRUE])
      BY <1>2 DEF ShellRec, Alike
  <2> QED
      BY <1>0, <1>3, <1>8, <2>1, SaveFlows DEF Secret, csStore
<1>9. CASE Unlabel
    BY <1>0, <1>2, <1>9, SaveFlows DEF Unlabel, Alike
<1>10. CASE Unfin
  <2>1. [obj EXCEPT !.fin = FALSE] \in ShellRec /\ Alike(obj, [obj EXCEPT !.fin = FALSE])
      BY <1>2 DEF ShellRec, Alike
  <2>2. CASE obj.fin
      BY <1>0, <1>10, <2>1, <2>2, SaveFlows DEF Unfin
  <2>3. CASE ~obj.fin
      BY <1>3, <1>10, <2>3 DEF Unfin, csStore
  <2> QED
      BY <2>2, <2>3
<1>11. CASE Reassign \/ Back
  <2>1. [obj EXCEPT !.pod = None] \in ShellRec /\ Alike(obj, [obj EXCEPT !.pod = None])
      BY <1>2 DEF ShellRec, Alike
  <2> QED
      BY <1>3, <1>4, <1>11, <2>1 DEF Reassign, Back, csStore
<1>12. CASE Exec \/ Complete
  <2>1. /\ [obj EXCEPT !.status = "Ready", !.started = TRUE] \in ShellRec
        /\ Alike(obj, [obj EXCEPT !.status = "Ready", !.started = TRUE])
        /\ [obj EXCEPT !.status = "Complete"] \in ShellRec /\ Alike(obj, [obj EXCEPT !.status = "Complete"])
      BY <1>2 DEF ShellRec, Alike
  <2> QED
      BY <1>3, <1>4, <1>12, <2>1 DEF Exec, Complete, csStore
<1>13. CASE Status
  <2>1. PICK kept : kept = [csCache[n] EXCEPT !.status = obj.status, !.started = obj.started]
      OBVIOUS
  <2>2. Alike(csCache[n], kept)
      BY <1>2, <2>1 DEF ShellRec, Alike
  <2>3. \/ \E r : API!Write(n, r)
        \/ csCache' = [csCache EXCEPT ![n] = kept] /\ UNCHANGED <<cs, csWatch, csCur>>
        \/ UNCHANGED csStore
      BY <1>1, <1>13, <2>1 DEF Status
  <2> QED
      BY <1>2, <1>3, <1>5, <2>2, <2>3, StoreFlows DEF csStore
<1>14. CASE DeleteSelf
    BY <1>1, <1>3, <1>5, <1>14 DEF DeleteSelf, csStore
<1>15. CASE Check \/ Borrow \/ Route \/ Release \/ Reset \/ Unroute \/ End
    BY <1>3, <1>15 DEF Check, Borrow, Route, Release, Reset, Unroute, End, csStore
<1> QED
    BY <1>6, <1>7, <1>8, <1>9, <1>10, <1>11, <1>12, <1>13, <1>14, <1>15 DEF Sync

\* What the others do: everything but the informer's delivery and a restart.
OtherStep ==
    \/ UNCHANGED vars
    \/ \E n \in Shells :
          \/ Take(n) \/ PoolWakes(n) \/ DeleteShell(n) \/ Elapse(n) \/ Retry(n) \/ TimerFires(n) \/ Collect(n)
          \/ \E sp \in Specs : CreateShell(n, sp) \/ EditShell(n, sp)
    \/ \E w \in Workers :
          \/ PodEvent(w) \/ PoolCreates(w) \/ WorkerReady(w) \/ WorkerUnready(w)
          \/ WorkerEvicted(w) \/ WorkerGone(w)

\* The others' steps.
LEMMA OtherFlows ==
    ASSUME IInv, OtherStep, NEW s \in Shells
    PROVE  Flows(s)
<1>1. StoreInv
    BY DEF IInv
<1>2. \/ \E n \in Shells : \E r : API!Write(n, r)
      \/ UNCHANGED <<cs, csWatch, csCache, csCur>>
  <2>1. ASSUME NEW n \in Shells, DeleteShell(n) \/ \E sp \in Specs : CreateShell(n, sp) \/ EditShell(n, sp)
        PROVE  \E r : API!Write(n, r)
      BY <2>1 DEF DeleteShell, CreateShell, EditShell
  <2>2. ASSUME NEW n \in Shells, Take(n) PROVE UNCHANGED <<cs, csWatch, csCache, csCur>>
      BY <2>2 DEF Take, API!Hold, csStore
  <2>3. ASSUME NEW n \in Shells, PoolWakes(n) \/ Elapse(n) \/ Retry(n) \/ TimerFires(n) \/ Collect(n)
        PROVE  UNCHANGED <<cs, csWatch, csCache, csCur>>
      BY <2>3 DEF PoolWakes, Elapse, Retry, TimerFires, Collect, csStore
  <2>4. ASSUME NEW w \in Workers, \/ PodEvent(w) \/ PoolCreates(w) \/ WorkerReady(w) \/ WorkerUnready(w)
                                  \/ WorkerEvicted(w) \/ WorkerGone(w)
        PROVE  UNCHANGED <<cs, csWatch, csCache, csCur>>
      BY <2>4 DEF PodEvent, PoolCreates, WorkerReady, WorkerUnready, WorkerEvicted, WorkerGone, csStore
  <2>5. CASE UNCHANGED vars
      BY <2>5 DEF vars, csStore
  <2> QED
      BY <2>1, <2>2, <2>3, <2>4, <2>5 DEF OtherStep
<1> QED
    BY <1>1, <1>2, StoreFlows

(***************************************************************************)
(* The queues lose no key.                                                 *)
(***************************************************************************)
\* Steps of the informers.
Event == \E n \in Shells : ShellEvent(n)

\* A key leaves the queues when it is taken, and moves from one to another otherwise.
LEMMA QueueKept ==
    ASSUME IInv, Sync \/ OtherStep \/ Event, NEW s \in Shells, ~Take(s)
    PROVE  /\ s \in csQ \cup backoff => s \in csQ' \cup backoff'
           /\ s \in waiting /\ cs[s].phase # "absent" => s \in waiting' \cup csQ'
           /\ s \in timers => s \in timers' \cup csQ'
<1>1. CASE Sync
  <2>1. csQ' = csQ /\ backoff \subseteq backoff' /\ timers \subseteq timers' /\ waiting \subseteq waiting'
      BY <1>1 DEF Sync, Ensure, Check, Reassign, Unlabel, Borrow, Label, Route, Secret, Exec, Status, Release, Reset,
                  Back, Unroute, Unfin, Complete, DeleteSelf, End, clock, workers
  <2> QED
      BY <2>1
<1>2. CASE Event
    BY <1>2 DEF Event, ShellEvent, clock, workers
<1>3. ASSUME NEW n \in Shells, Take(n) PROVE s # n /\ csQ' = csQ \ {n} /\ UNCHANGED <<backoff, timers, waiting>>
    BY <1>3 DEF Take, clock, workers
<1>4. ASSUME NEW n \in Shells, PoolWakes(n)
      PROVE  /\ waiting' = waiting \ {n} /\ csQ \subseteq csQ' /\ (cs[n].phase # "absent" => n \in csQ')
             /\ UNCHANGED <<backoff, timers>>
    BY <1>4 DEF PoolWakes, clock
<1>5. ASSUME NEW n \in Shells, Retry(n) \/ TimerFires(n)
      PROVE  /\ csQ' = csQ \cup {n} /\ backoff \subseteq backoff' \cup {n} /\ timers \subseteq timers' \cup {n}
             /\ UNCHANGED waiting
    BY <1>5 DEF Retry, TimerFires, workers
<1>6. ASSUME NEW n \in Shells, \/ DeleteShell(n) \/ Elapse(n) \/ Collect(n)
                             \/ \E sp \in Specs : CreateShell(n, sp) \/ EditShell(n, sp)
      PROVE  UNCHANGED <<csQ, backoff, timers, waiting>>
    BY <1>6 DEF DeleteShell, Elapse, Collect, CreateShell, EditShell, clock, workers
<1>7. ASSUME NEW w \in Workers, \/ PodEvent(w) \/ PoolCreates(w) \/ WorkerReady(w) \/ WorkerUnready(w)
                                \/ WorkerEvicted(w) \/ WorkerGone(w)
      PROVE  csQ \subseteq csQ' /\ UNCHANGED <<backoff, timers, waiting>>
    BY <1>7 DEF PodEvent, PoolCreates, WorkerReady, WorkerUnready, WorkerEvicted, WorkerGone, clock
<1>8. CASE UNCHANGED vars
    BY <1>8 DEF vars, clock, workers
<1> QED
    BY <1>1, <1>2, <1>3, <1>4, <1>5, <1>6, <1>7, <1>8 DEF OtherStep

\* Only the goroutine, and only Take and End, change what it is at work on.
LEMMA OthersJob ==
    ASSUME OtherStep \/ Event, \A n \in Shells : ~Take(n)
    PROVE  job' = job
<1>1. ASSUME NEW n \in Shells, \/ ShellEvent(n) \/ PoolWakes(n) \/ DeleteShell(n) \/ Elapse(n) \/ Retry(n)
                             \/ TimerFires(n) \/ Collect(n)
                             \/ \E sp \in Specs : CreateShell(n, sp) \/ EditShell(n, sp)
      PROVE  job' = job
    BY <1>1 DEF ShellEvent, PoolWakes, DeleteShell, Elapse, Retry, TimerFires, Collect, CreateShell, EditShell
<1>2. ASSUME NEW w \in Workers, \/ PodEvent(w) \/ PoolCreates(w) \/ WorkerReady(w) \/ WorkerUnready(w)
                                \/ WorkerEvicted(w) \/ WorkerGone(w)
      PROVE  job' = job
    BY <1>2 DEF PodEvent, PoolCreates, WorkerReady, WorkerUnready, WorkerEvicted, WorkerGone
<1>3. CASE UNCHANGED vars
    BY <1>3 DEF vars
<1> QED
    BY <1>1, <1>2, <1>3 DEF OtherStep, Event

\* Users write to one cloudshell, and leave its status alone while it is there.
LEMMA OthersWrite ==
    ASSUME IInv, OtherStep \/ Event, NEW s \in Shells, cs[s].phase = "live", cs'[s].phase = "live"
    PROVE  cs'[s].status = cs[s].status
<1>0. cs \in [Shells -> ShellRec]
    BY DEF IInv, StoreInv, API!StoreTypeOK
<1>1. ASSUME NEW n \in Shells, DeleteShell(n) PROVE cs'[s].status = cs[s].status
  <2>1. Marked(n).phase # "live"
      BY <1>0 DEF Marked, Final, NoShell, ShellRec
  <2>2. cs' = [cs EXCEPT ![n] = Marked(n)]
      BY <1>1 DEF DeleteShell, API!Write
  <2> QED
      BY <1>0, <2>1, <2>2
<1>2. ASSUME NEW n \in Shells, NEW sp \in Specs, CreateShell(n, sp) PROVE cs'[s].status = cs[s].status
    BY <1>0, <1>2 DEF CreateShell, API!Write
<1>3. ASSUME NEW n \in Shells, NEW sp \in Specs, EditShell(n, sp) PROVE cs'[s].status = cs[s].status
    BY <1>0, <1>3 DEF EditShell, API!Write, ShellRec
<1>4. ASSUME NEW n \in Shells, ShellEvent(n) \/ Take(n) PROVE cs' = cs
    BY <1>4 DEF ShellEvent, Take, API!Deliver, API!Hold, csStore
<1>5. ASSUME NEW n \in Shells, PoolWakes(n) \/ Elapse(n) \/ Retry(n) \/ TimerFires(n) \/ Collect(n) PROVE cs' = cs
    BY <1>5 DEF PoolWakes, Elapse, Retry, TimerFires, Collect, csStore
<1>6. ASSUME NEW w \in Workers, \/ PodEvent(w) \/ PoolCreates(w) \/ WorkerReady(w) \/ WorkerUnready(w)
                                \/ WorkerEvicted(w) \/ WorkerGone(w)
      PROVE  cs' = cs
    BY <1>6 DEF PodEvent, PoolCreates, WorkerReady, WorkerUnready, WorkerEvicted, WorkerGone, csStore
<1>7. CASE UNCHANGED vars
    BY <1>7 DEF vars, csStore
<1> QED
    BY <1>1, <1>2, <1>3, <1>4, <1>5, <1>6, <1>7 DEF OtherStep, Event

\* The goroutine writes to its own cloudshell only, and goes from place to place.
LEMMA SyncWrites ==
    ASSUME IInv, Sync, NEW s \in Shells, s # me
    PROVE  cs'[s] = cs[s]
<1>1. cs \in [Shells -> ShellRec] /\ (job.pc # "idle" => csPtr.name = me)
    BY DEF IInv, StoreInv, API!StoreTypeOK, PcInv, me
<1>2. ASSUME NEW rec, NEW next, Save(rec, next), csPtr.name = me PROVE cs'[s] = cs[s]
    BY <1>1, <1>2 DEF Save, API!Write, API!UpdateOK, API!UpdateLost, API!Mutate
<1>3. ASSUME Ensure \/ Unlabel \/ Label \/ Secret PROVE cs'[s] = cs[s]
    BY <1>1, <1>2, <1>3 DEF Ensure, Unlabel, Label, Secret, csStore
<1>4. ASSUME Unfin PROVE cs'[s] = cs[s]
    BY <1>1, <1>2, <1>4 DEF Unfin, csStore
<1>5. ASSUME Status \/ DeleteSelf PROVE cs'[s] = cs[s]
    BY <1>1, <1>5 DEF Status, DeleteSelf, API!Write, csStore
<1>6. ASSUME \/ Check \/ Reassign \/ Borrow \/ Route \/ Exec \/ Release \/ Reset \/ Back \/ Unroute
             \/ Complete \/ End
      PROVE  cs'[s] = cs[s]
    BY <1>6 DEF Check, Reassign, Borrow, Route, Exec, Release, Reset, Back, Unroute, Complete, End,
                csStore, API!Mutate
<1> QED
    BY <1>3, <1>4, <1>5, <1>6 DEF Sync

\* Where a step of the goroutine leads, short of the end.
LEMMA SyncJob ==
    ASSUME IInv, Sync, ~End
    PROVE  /\ job.pc # "idle" /\ me \in Shells /\ job' \in JobType /\ job'.pc # "idle" /\ job'.shell = me
           /\ job'.why = "deleted" => job.why = "deleted"
           /\ ~Check => job'.why = job.why
           /\ job'.pc = "ok" => Borrow \/ Status \/ Unfin \/ DeleteSelf
           /\ job'.pc = "later" => Status
<1>0. job.pc # "idle" /\ job.pc # "ok" /\ job.pc # "later"
    BY DEF Sync, Ensure, Check, Reassign, Unlabel, Borrow, Label, Route, Secret, Exec, Status, Release, Reset,
           Back, Unroute, Unfin, Complete, DeleteSelf
<1>1. me \in Shells /\ job \in JobType /\ job' \in JobType
  <2>1. IInv'
      BY SyncInv
  <2> QED
      BY <1>0, <2>1, AtWork DEF IInv, TypeOK, JobType
<1> DEFINE Moved(P) == job' = [job EXCEPT !.pc = P]
<1>2. ASSUME NEW pc, Goto(pc) PROVE /\ job'.pc = pc /\ job'.shell = me /\ job'.why = job.why
    BY <1>1, <1>2 DEF Goto, JobType, me
<1>3. ASSUME NEW rec, NEW next, Save(rec, next) PROVE Goto(next) \/ Goto("error")
    BY <1>3 DEF Save, Fail
<1>4. CASE Ensure \/ Label \/ Unlabel \/ Secret
  <2>1. Goto("check") \/ Goto("route") \/ Goto("borrow") \/ Goto("exec") \/ Goto("error")
      BY <1>3, <1>4 DEF Ensure, Label, Unlabel, Secret, Fail
  <2> QED
      BY <1>0, <1>1, <1>2, <2>1
<1>5. CASE Check
  <2>1. /\ job'.pc \in {"release", "borrow", "route", "reassign"} /\ job'.shell = job.shell
        /\ job'.why # "deleted"
      BY <1>1, <1>5 DEF Check, JobType
  <2> QED
      BY <1>0, <1>1, <1>5, <2>1 DEF me
<1>6. CASE Release
  <2>1. job'.pc \in {"unroute", "reset"} /\ job'.shell = job.shell /\ job'.why = job.why
      BY <1>1, <1>6 DEF Release, JobType
  <2> QED
      BY <1>0, <1>1, <2>1 DEF me
<1>7. CASE Reassign \/ Route \/ Exec \/ Reset \/ Back \/ Unroute \/ Complete
  <2>1. \/ Goto("unlabel") \/ Goto("secret") \/ Goto("status") \/ Goto("back") \/ Goto("unroute")
        \/ Goto("unfin") \/ Goto("error")
      BY <1>7 DEF Reassign, Route, Exec, Reset, Back, Unroute, Complete, Done, Fail
  <2> QED
      BY <1>0, <1>1, <1>2, <2>1
<1>8. CASE Borrow
  <2>1. job'.pc \in {"label", "ok", "error"} /\ job'.shell = job.shell /\ job'.why = job.why
      BY <1>1, <1>8 DEF Borrow, JobType, Goto, Fail
  <2> QED
      BY <1>0, <1>1, <1>8, <2>1 DEF me
<1>9. CASE Status
  <2>1. Goto("ok") \/ Goto("later") \/ job' = job \/ Goto("error")
      BY <1>9 DEF Status, Done, Fail
  <2> QED
      BY <1>0, <1>1, <1>2, <1>9, <2>1 DEF me
<1>10. CASE Unfin
  <2>1. Goto("ok") \/ Goto("delete") \/ Goto("complete") \/ Goto("error")
    <3>1. PICK next : next = IF job.why = "deleted" THEN "ok" ELSE IF obj.spec.cleanup THEN "delete" ELSE "complete"
        OBVIOUS
    <3>2. Goto(next) \/ Save([obj EXCEPT !.fin = FALSE], next)
        BY <1>10, <3>1 DEF Unfin
    <3> QED
        BY <1>3, <3>1, <3>2
  <2> QED
      BY <1>0, <1>1, <1>2, <1>10, <2>1
<1>11. CASE DeleteSelf
  <2>1. Goto("ok") \/ Goto("error")
      BY <1>11 DEF DeleteSelf, Done, Fail
  <2> QED
      BY <1>0, <1>1, <1>2, <1>11, <2>1
<1> QED
    BY <1>4, <1>5, <1>6, <1>7, <1>8, <1>9, <1>10, <1>11 DEF Sync

\* Nobody else touches what the goroutine holds and is at.
LEMMA OthersHold ==
    ASSUME IInv, OtherStep \/ Event, \A n \in Shells : ~Take(n)
    PROVE  job' = job /\ csPtr'.obj = csPtr.obj
<1>1. job' = job
    BY OthersJob
<1>2. csPtr \in API!PtrRec
    BY DEF IInv, StoreInv, API!StoreTypeOK
<1>3. ASSUME NEW n \in Shells, DeleteShell(n) \/ \E sp \in Specs : CreateShell(n, sp) \/ EditShell(n, sp)
      PROVE  csPtr'.obj = csPtr.obj
    BY <1>2, <1>3 DEF DeleteShell, CreateShell, EditShell, API!Write, API!PtrRec
<1>4. ASSUME NEW n \in Shells, ShellEvent(n) PROVE csPtr'.obj = csPtr.obj
    BY <1>2, <1>4 DEF ShellEvent, API!Deliver, API!PtrRec
<1>5. ASSUME NEW n \in Shells, PoolWakes(n) \/ Elapse(n) \/ Retry(n) \/ TimerFires(n) \/ Collect(n)
      PROVE  csPtr' = csPtr
    BY <1>5 DEF PoolWakes, Elapse, Retry, TimerFires, Collect, csStore
<1>6. ASSUME NEW w \in Workers, \/ PodEvent(w) \/ PoolCreates(w) \/ WorkerReady(w) \/ WorkerUnready(w)
                                \/ WorkerEvicted(w) \/ WorkerGone(w)
      PROVE  csPtr' = csPtr
    BY <1>6 DEF PodEvent, PoolCreates, WorkerReady, WorkerUnready, WorkerEvicted, WorkerGone, csStore
<1>7. CASE UNCHANGED vars
    BY <1>7 DEF vars, csStore
<1> QED
    BY <1>1, <1>3, <1>4, <1>5, <1>6, <1>7 DEF OtherStep, Event

(***************************************************************************)
(* Live cloudshells.                                                       *)
(***************************************************************************)
\* The goroutine is at work on the cloudshell.
Busy(s) == job.pc # "idle" /\ job.shell = s

\* The cloudshell will be looked at, or it has been served.
Queued(s) == s \in csQ \cup backoff \cup waiting \/ Pending(s)
Served(s) == cs[s].status # "none" /\ (cs[s].status = "Ready" /\ cs[s].spec.ttl # "none" => s \in timers)

LiveOf(s) ==
    cs[s].phase = "live" =>
        /\ ~Busy(s) => Queued(s) \/ Served(s)
        /\ Busy(s) /\ job.why = "deleted" => Queued(s)
        /\ Busy(s) /\ job.pc = "ok" => Queued(s) \/ Served(s)
        /\ Busy(s) /\ job.pc = "later" => Queued(s) \/ cs[s].status # "none"

\* The time to come back at is decided by Check, with the spec the object has then.
\* When the cached object has another one, or the object has been read again with
\* another one, the event that brought it has enqueued the cloudshell.
Decided == \/ job.pc \in SyncPCs \ {"ensure", "check"}
           \/ job.pc = "status" /\ csPtr.obj.status = "Ready"

Again == job.shell \in csQ \cup backoff

SpecSeen ==
    job.pc # "idle" =>
        /\ csCache[job.shell].spec # csPtr.obj.spec => Again
        /\ Decided /\ job.why = "none" /\ csPtr.obj.spec.ttl # "none" => Again

AttendInv == LifeInv /\ StreamTells /\ SpecSeen /\ \A s \in Shells : LiveOf(s)

\* A key that is in a queue or will be enqueued stays so until it is taken.
LEMMA QueuedStays ==
    ASSUME IInv, Sync \/ OtherStep \/ Event, NEW s \in Shells, ~Take(s), cs[s].phase = "live", cs'[s].phase = "live",
           Pending(s) => Pending(s)' \/ s \in csQ', Queued(s)
    PROVE  Queued(s)'
BY QueueKept DEF Queued

\* Nothing is done by the goroutine for the cloudshell.
LEMMA LiveStays ==
    ASSUME IInv, Sync \/ OtherStep \/ Event, NEW s \in Shells, ~Take(s), LiveOf(s), cs'[s] \in ShellRec,
           cs'[s].phase = "live" => (cs[s].phase = "live" /\ cs'[s].spec = cs[s].spec) \/ Pending(s)',
           cs[s].phase = "live" /\ cs'[s].phase = "live" => /\ Pending(s) => Pending(s)' \/ s \in csQ'
                                                            /\ cs'[s].status = cs[s].status,
           job' = job \/ (~Busy(s) /\ ~Busy(s)')
    PROVE  LiveOf(s)'
<1> SUFFICES ASSUME cs'[s].phase = "live", ~Pending(s)' PROVE LiveOf(s)'
    BY DEF LiveOf, Queued
<1>1. cs[s].phase = "live" /\ cs'[s].spec = cs[s].spec /\ cs'[s].status = cs[s].status
    OBVIOUS
<1>2. Queued(s) => Queued(s)'
    BY <1>1, QueuedStays
<1>3. Served(s) => Served(s)' \/ Queued(s)'
    BY <1>1, QueueKept DEF Served, Queued
<1>4. CASE ~Busy(s) /\ ~Busy(s)'
    BY <1>1, <1>2, <1>3, <1>4 DEF LiveOf
<1>5. CASE job' = job
    BY <1>1, <1>2, <1>3, <1>5 DEF LiveOf, Busy
<1> QED
    BY <1>4, <1>5

\* The others and the informers.
LEMMA OthersAttend ==
    ASSUME AttendInv, OtherStep \/ Event, \A n \in Shells : ~Take(n), NEW s \in Shells, StandStep, IInv'
    PROVE  TellsOf(s)' /\ LiveOf(s)'
<1>1. job' = job /\ IInv /\ StoreInv /\ cs'[s] \in ShellRec /\ TellsOf(s) /\ LiveOf(s)
    BY OthersJob DEF AttendInv, StreamTells, LifeInv, IInv, StoreInv, API!StoreTypeOK
<1>2. cs[s].phase = "deleting" => cs'[s].phase # "live"
    BY DEF StandStep
<1>3. cs[s].phase = "live" /\ cs'[s].phase = "live" => cs'[s].status = cs[s].status
    BY <1>1, OthersWrite
<1>4. CASE Flows(s)
  <2>1. TellsOf(s)' /\ StaysPending(s)
      BY <1>1, <1>2, <1>4, FlowTells
  <2> QED
      BY <1>1, <1>3, <2>1, LiveStays DEF StaysPending
<1>5. CASE ShellEvent(s)
  <2>1. Catches(s) /\ cs' = cs
    <3>1. /\ csWatch \in [Shells -> Seq(ShellRec)] /\ csCache \in [Shells -> ShellRec] /\ csCur \subseteq Shells
          /\ csWatch[s] \in Seq(ShellRec)
        BY <1>1 DEF StoreInv, API!StoreTypeOK
    <3>2. /\ csWatch[s] # <<>> /\ csWatch'[s] = Tail(csWatch[s]) /\ csCache'[s] = Head(csWatch[s]) /\ cs' = cs
          /\ Len(csWatch[s]) = 1 => s \in csCur'
        BY <1>5, <3>1 DEF ShellEvent, API!Deliver
    <3>3. Len(csWatch[s]) # 1 => Tail(csWatch[s]) # <<>>
      <4>1. csWatch[s] # <<>>
          BY <3>2
      <4> QED
          BY <3>1, <4>1, FiresTail
    <3> QED
        BY <3>2, <3>3 DEF Catches
  <2>2. TellsOf(s)' /\ (Pending(s) => Stirs(csCache[s], Head(csWatch[s])) \/ Pending(s)')
      BY <1>1, <2>1, CatchTells
  <2>3. Stirs(csCache[s], Head(csWatch[s])) => s \in csQ'
      BY <1>5 DEF ShellEvent, Enqueues, Stirs
  <2> QED
      BY <1>1, <1>3, <1>5, <2>1, <2>2, <2>3, LiveStays DEF Event
<1>6. ASSUME NEW n \in Shells, n # s, ShellEvent(n) PROVE Flows(s)
    BY <1>1, <1>6 DEF ShellEvent, API!Deliver, Flows, Stays, Alike, StoreInv, API!StoreTypeOK
<1> QED
    BY <1>1, <1>4, <1>5, <1>6, OtherFlows DEF Event

\* The spec of the held object changes only when it is read again.
LEMMA SyncSpec ==
    ASSUME IInv, Sync, ~End
    PROVE  \/ csPtr'.obj.spec = csPtr.obj.spec
           \/ /\ csPtr'.obj.spec = csCache[me].spec /\ csPtr'.obj.status = csPtr.obj.status
              /\ job' = job /\ job.pc = "status"
<1>0. job.pc # "idle"
    BY SyncJob
<1>1. PICK n \in Shells : n = me
    BY <1>0, AtWork
<1>2. /\ csPtr.name = n /\ csPtr.obj = obj /\ obj \in ShellRec /\ csPtr \in API!PtrRec
      /\ cs[n] \in ShellRec /\ csCache[n] \in ShellRec
    BY <1>0, <1>1, AtWork DEF IInv, StoreInv, API!StoreTypeOK
<1>3. ASSUME UNCHANGED csStore PROVE csPtr'.obj.spec = obj.spec
    BY <1>2, <1>3 DEF csStore
<1>4. ASSUME NEW rec \in ShellRec, rec.spec = obj.spec, API!Mutate(rec) PROVE csPtr'.obj.spec = obj.spec
    BY <1>2, <1>4 DEF API!Mutate, API!PtrRec
<1>5. ASSUME NEW r, API!Write(n, r) PROVE csPtr'.obj.spec = obj.spec
    BY <1>2, <1>5 DEF API!Write, API!PtrRec
<1>6. ASSUME NEW rec \in ShellRec, rec.spec = obj.spec, NEW next, Save(rec, next) PROVE csPtr'.obj.spec = obj.spec
  <2>1. PICK sent : sent = [rec EXCEPT !.status = cs[me].status, !.started = cs[me].started]
      OBVIOUS
  <2>2. sent \in ShellRec /\ sent.spec = obj.spec
      BY <1>1, <1>2, <1>6, <2>1 DEF ShellRec
  <2>3. API!Mutate(rec) \/ API!UpdateOK(sent, Final(sent)) \/ API!UpdateLost(rec, Final(sent))
      BY <1>6, <2>1 DEF Save
  <2>4. csPtr'.obj \in {rec, sent}
      BY <1>2, <2>3 DEF API!Mutate, API!UpdateOK, API!UpdateLost, API!PtrRec
  <2> QED
      BY <1>6, <2>2, <2>4
<1>7. CASE Ensure \/ Secret \/ Unfin
  <2>1. /\ [obj EXCEPT !.fin = TRUE] \in ShellRec /\ [obj EXCEPT !.fin = TRUE].spec = obj.spec
        /\ [obj EXCEPT !.secret = TRUE] \in ShellRec /\ [obj EXCEPT !.secret = TRUE].spec = obj.spec
        /\ [obj EXCEPT !.fin = FALSE] \in ShellRec /\ [obj EXCEPT !.fin = FALSE].spec = obj.spec
      BY <1>2 DEF ShellRec
  <2>2. CASE Ensure \/ Secret
      BY <1>2, <1>3, <1>6, <2>1, <2>2 DEF Ensure, Secret
  <2>3. CASE Unfin
      BY <1>2, <1>3, <1>6, <2>1, <2>3 DEF Unfin
  <2> QED
      BY <1>7, <2>2, <2>3
<1>8. CASE Label \/ Unlabel
  <2>1. job.worker \in Workers \cup {None}
      BY <1>0, AtWork DEF JobType
  <2>2. [obj EXCEPT !.pod = job.worker] \in ShellRec /\ [obj EXCEPT !.pod = job.worker].spec = obj.spec
      BY <1>2, <2>1 DEF ShellRec
  <2> QED
      BY <1>2, <1>6, <1>8, <2>2 DEF Label, Unlabel
<1>9. CASE Reassign \/ Back \/ Exec \/ Complete
  <2>1. /\ [obj EXCEPT !.pod = None] \in ShellRec /\ [obj EXCEPT !.pod = None].spec = obj.spec
        /\ [obj EXCEPT !.status = "Ready", !.started = TRUE] \in ShellRec
        /\ [obj EXCEPT !.status = "Ready", !.started = TRUE].spec = obj.spec
        /\ [obj EXCEPT !.status = "Complete"] \in ShellRec /\ [obj EXCEPT !.status = "Complete"].spec = obj.spec
      BY <1>2 DEF ShellRec
  <2> QED
      BY <1>2, <1>3, <1>4, <1>9, <2>1 DEF Reassign, Back, Exec, Complete
<1>10. CASE Status
  <2>1. PICK kept : kept = [csCache[n] EXCEPT !.status = obj.status, !.started = obj.started]
      OBVIOUS
  <2>2. kept.spec = csCache[n].spec /\ kept.status = obj.status
      BY <1>2, <2>1 DEF ShellRec
  <2>3. \/ \E r : API!Write(n, r)
        \/ csPtr' = [name |-> n, obj |-> kept, alias |-> TRUE, cur |-> n \in csCur] /\ job' = job
        \/ UNCHANGED csStore
      BY <1>1, <1>10, <2>1 DEF Status
  <2>4. job.pc = "status"
      BY <1>10 DEF Status
  <2> QED
      BY <1>1, <1>2, <1>3, <1>5, <2>2, <2>3, <2>4
<1>11. CASE DeleteSelf
    BY <1>1, <1>2, <1>3, <1>5, <1>11 DEF DeleteSelf
<1>12. CASE Check \/ Borrow \/ Route \/ Release \/ Reset \/ Unroute
    BY <1>2, <1>3, <1>12 DEF Check, Borrow, Route, Release, Reset, Unroute
<1> QED
    BY <1>7, <1>8, <1>9, <1>10, <1>11, <1>12 DEF Sync

\* Only Check decides.
LEMMA SyncDecides ==
    ASSUME IInv, Sync, ~End, Decided', job'.why = "none"
    PROVE  \/ csPtr'.obj.spec = csPtr.obj.spec /\ csPtr.obj.spec.ttl = "none"
           \/ Decided /\ job.why = "none"
<1>0. job.pc # "idle" /\ (~Check => job'.why = job.why)
    BY SyncJob
<1>1. job \in JobType /\ obj \in ShellRec /\ csPtr.obj = obj /\ csPtr \in API!PtrRec
    BY <1>0, AtWork DEF IInv, StoreInv, API!StoreTypeOK
<1>2. CASE Check
  <2>1. UNCHANGED csStore /\ ~TimedOut
      BY <1>1, <1>2 DEF Check, JobType
  <2>2. obj.spec.ttl = "none"
      BY <1>1, <1>2, <2>1 DEF Check, JobType
  <2> QED
      BY <1>1, <2>1, <2>2 DEF csStore
<1>3. CASE Reassign \/ Unlabel \/ Borrow \/ Label \/ Route \/ Secret \/ Exec
  <2>1. Decided /\ ~Check
      BY <1>3 DEF Reassign, Unlabel, Borrow, Label, Route, Secret, Exec, Check, Decided, SyncPCs
  <2> QED
      BY <1>0, <2>1
<1>4. ASSUME NEW pc, Goto(pc) PROVE job'.pc = pc
    BY <1>1, <1>4 DEF Goto, JobType
<1>5. CASE Ensure \/ Unfin
  <2>1. ASSUME NEW rec, NEW next, Save(rec, next) PROVE Goto(next) \/ Goto("error")
      BY <2>1 DEF Save, Fail
  <2>2. CASE Ensure
    <3>1. job'.pc \in {"check", "error"}
        BY <1>4, <2>1, <2>2 DEF Ensure
    <3> QED
        BY <3>1 DEF Decided, SyncPCs
  <2>3. CASE Unfin
    <3>1. PICK next : next = IF job.why = "deleted" THEN "ok" ELSE IF obj.spec.cleanup THEN "delete" ELSE "complete"
        OBVIOUS
    <3>2. Goto(next) \/ Goto("error")
        BY <2>1, <2>3, <3>1 DEF Unfin
    <3>3. job'.pc \in {"ok", "delete", "complete", "error"}
        BY <1>4, <3>1, <3>2
    <3> QED
        BY <3>3 DEF Decided, SyncPCs
  <2> QED
      BY <1>5, <2>2, <2>3
<1>6. CASE Release
  <2>1. job'.pc \in {"unroute", "reset"}
      BY <1>1, <1>6 DEF Release, JobType
  <2> QED
      BY <2>1 DEF Decided, SyncPCs
<1>7. CASE Reset \/ Back \/ Unroute \/ DeleteSelf
  <2>1. job'.pc \in {"back", "unroute", "unfin", "ok", "error"}
      BY <1>4, <1>7 DEF Reset, Back, Unroute, DeleteSelf, Done, Fail
  <2> QED
      BY <2>1 DEF Decided, SyncPCs
<1>8. CASE Complete
  <2>1. job'.pc = "status"
      BY <1>4, <1>8 DEF Complete
  <2>2. csPtr'.obj = [obj EXCEPT !.status = "Complete"]
      BY <1>1, <1>8 DEF Complete, API!Mutate, API!PtrRec
  <2>3. csPtr'.obj.status = "Complete"
      BY <1>1, <2>2 DEF ShellRec
  <2> QED
      BY <2>1, <2>3 DEF Decided, SyncPCs
<1>9. CASE Status
  <2>1. job' = job \/ job'.pc \in {"ok", "later", "error"}
      BY <1>4, <1>9 DEF Status, Done, Fail
  <2>2. job' = job
      BY <2>1 DEF Decided, SyncPCs
  <2>3. job.pc = "status" /\ ~Check
      BY <1>9 DEF Status, Check
  <2>4. csPtr'.obj.status = csPtr.obj.status
    <3>1. PICK kept : kept = [csCache[me] EXCEPT !.status = obj.status, !.started = obj.started]
        OBVIOUS
    <3>2. kept.status = obj.status
      <4>1. csCache[me] \in ShellRec
          BY <1>0, AtWork DEF IInv
      <4> QED
          BY <3>1, <4>1 DEF ShellRec
    <3>3. csPtr' = [name |-> me, obj |-> kept, alias |-> TRUE, cur |-> me \in csCur]
      <4>1. \A pc : Goto(pc) => pc = "status"
          BY <1>4, <2>2, <2>3
      <4> QED
          BY <1>9, <3>1, <4>1 DEF Status, Done, Fail
    <3> QED
        BY <1>1, <3>2, <3>3
  <2> QED
      BY <1>0, <2>2, <2>3, <2>4 DEF Decided
<1> QED
    BY <1>2, <1>3, <1>5, <1>6, <1>7, <1>8, <1>9 DEF Sync

\* A spec that the goroutine has not decided about enqueues the cloudshell.
LEMMA NextSees ==
    ASSUME LifeInv, SpecSeen, [Next]_vars
    PROVE  SpecSeen'
<1>0. IInv /\ csCache \in [Shells -> ShellRec] /\ csWatch \in [Shells -> Seq(ShellRec)]
    BY DEF LifeInv, IInv, StoreInv, API!StoreTypeOK
<1> SUFFICES ASSUME job'.pc # "idle" PROVE SpecSeen'
    BY DEF SpecSeen
<1>1. CASE Sync
  <2>1. ~End
      BY DEF End, JobIdle
  <2>2. job.pc # "idle" /\ me \in Shells /\ job'.shell = me
      BY <1>0, <1>1, <2>1, SyncJob
  <2>3. Again => Again'
    <3>1. ~Take(me)
        BY <2>2 DEF Take
    <3> QED
        BY <1>0, <1>1, <2>2, <3>1, QueueKept DEF Again, me
  <2>4. csCache'[me].spec = csCache[me].spec
      BY <1>0, <1>1, <2>2, SyncFlows DEF Flows, Stays, Grows, Alike
  <2>5. csPtr'.obj.spec = csPtr.obj.spec \/ (csPtr'.obj.spec = csCache[me].spec)
      BY <1>0, <1>1, <2>1, SyncSpec
  <2>6. csCache'[me].spec # csPtr'.obj.spec => Again'
      BY <2>2, <2>3, <2>4, <2>5 DEF SpecSeen, me
  <2>7. ASSUME Decided', job'.why = "none", csPtr'.obj.spec.ttl # "none" PROVE Again'
    <3>1. \/ csPtr'.obj.spec = csPtr.obj.spec /\ csPtr.obj.spec.ttl = "none"
          \/ Decided /\ job.why = "none"
        BY <1>0, <1>1, <2>1, <2>7, SyncDecides
    <3>2. Decided /\ job.why = "none"
        BY <2>7, <3>1
    <3>3. CASE csPtr'.obj.spec = csPtr.obj.spec
        BY <2>2, <2>3, <2>7, <3>2, <3>3 DEF SpecSeen
    <3>4. CASE csPtr'.obj.spec = csCache[me].spec /\ csPtr'.obj.spec # csPtr.obj.spec
        BY <2>2, <2>3, <3>4 DEF SpecSeen, me
    <3> QED
        BY <2>5, <3>3, <3>4
  <2> QED
      BY <2>2, <2>6, <2>7 DEF SpecSeen, me
<1>2. CASE Crash
    BY <1>2 DEF Crash, JobIdle
<1>3. ASSUME NEW n \in Shells, Take(n) PROVE SpecSeen'
  <2>1. API!Hold(n) /\ job'.shell = n /\ job'.pc \in {"release", "ensure"}
      BY <1>3 DEF Take, JobIdle
  <2> QED
      BY <2>1 DEF API!Hold, SpecSeen, Decided, SyncPCs
<1>4. CASE ~Sync /\ ~Crash /\ \A n \in Shells : ~Take(n)
  <2>1. OtherStep \/ Event
      BY <1>4 DEF Next, OtherStep, Event
  <2>2. job' = job /\ csPtr'.obj = csPtr.obj /\ (Decided' <=> Decided)
      BY <1>0, <1>4, <2>1, OthersHold DEF Decided
  <2>3. PICK s \in Shells : s = job.shell
      BY <1>0, <2>2, AtWork DEF me
  <2>4. Again => Again'
      BY <1>0, <1>4, <2>1, <2>2, <2>3, QueueKept DEF Again
  <2>5. csCache'[s].spec = csCache[s].spec \/ Again'
    <3>1. CASE Flows(s)
        BY <3>1 DEF Flows, Stays, Grows, Alike
    <3>2. CASE ShellEvent(s)
      <4>1. csCache'[s] = Head(csWatch[s]) /\ (Enqueues(csCache[s], Head(csWatch[s])) => s \in csQ')
          BY <1>0, <3>2 DEF ShellEvent, API!Deliver
      <4> QED
          BY <2>2, <2>3, <4>1 DEF Enqueues, Again
    <3>3. ASSUME NEW n \in Shells, n # s, ShellEvent(n) PROVE csCache'[s] = csCache[s]
        BY <1>0, <3>3 DEF ShellEvent, API!Deliver
    <3> QED
        BY <1>0, <2>1, <3>1, <3>2, <3>3, OtherFlows DEF Event
  <2> QED
      BY <2>2, <2>3, <2>4, <2>5 DEF SpecSeen
<1> QED
    BY <1>1, <1>2, <1>3, <1>4

\* A place reached from elsewhere short of the end.
LEMMA SyncPasses ==
    ASSUME LifeInv, SpecSeen, Sync, ~End, NEW s \in Shells, s = me, cs'[s].phase = "live", job'.pc \in {"ok", "later"}
    PROVE  \/ s \in waiting' \cup csQ \cup backoff
           \/ job.why = "deleted"
           \/ cs'[s].status # "none" /\ (job'.pc = "ok" => cs'[s].status # "Ready" \/ cs'[s].spec.ttl = "none")
<1>1. /\ job.pc # "idle" /\ IInv /\ Carries /\ (job'.pc = "ok" => Borrow \/ Status \/ Unfin \/ DeleteSelf)
      /\ (job'.pc = "later" => Status)
    BY SyncJob DEF LifeInv
<1>2. /\ job \in JobType /\ cs \in [Shells -> ShellRec] /\ cs[s] \in ShellRec
      /\ csPtr.name = s /\ csPtr.obj = obj /\ obj \in ShellRec /\ StoreInv
    BY <1>1, AtWork DEF IInv, StoreInv, API!StoreTypeOK
<1>3. CASE Borrow
  <2>1. job'.pc \in {"ok", "later"} => waiting' = waiting \cup {me}
      BY <1>2, <1>3 DEF Borrow, Goto, Fail, JobType
  <2> QED
      BY <2>1
<1>4. CASE Unfin
  <2>1. PICK next : next = IF job.why = "deleted" THEN "ok" ELSE IF obj.spec.cleanup THEN "delete" ELSE "complete"
      OBVIOUS
  <2>2. Goto(next) \/ Goto("error")
      BY <1>4, <2>1 DEF Unfin, Save, Fail
  <2>3. job'.pc \in {next, "error"}
      BY <1>2, <2>2 DEF Goto, JobType
  <2> QED
      BY <2>1, <2>3
<1>5. CASE DeleteSelf
  <2>1. API!Write(s, Marked(s)) \/ (cs[s].phase = "deleting" /\ UNCHANGED csStore)
      BY <1>2, <1>5 DEF DeleteSelf, Done, Goto, Fail, JobType
  <2>2. cs' = [cs EXCEPT ![s] = Marked(s)] \/ (cs' = cs /\ cs[s].phase = "deleting")
      BY <2>1 DEF API!Write, csStore
  <2>3. Marked(s).phase # "live"
      BY <1>2 DEF Marked, Final, NoShell, ShellRec
  <2> QED
      BY <1>2, <2>2, <2>3
<1>6. CASE Status
  <2>1. /\ csPtr.cur /\ cs[s].phase # "absent"
        /\ API!Write(s, [cs[s] EXCEPT !.status = obj.status, !.started = obj.started])
        /\ Goto(IF job.why = "later" THEN "later" ELSE "ok")
      BY <1>2, <1>6 DEF Status, Done, Goto, Fail, JobType
  <2>2. Agrees(s, obj) /\ obj.status # "none" /\ (obj.status = "Ready" => job.why \in {"none", "later"})
      BY <1>2, <1>1, <1>6, <2>1 DEF StoreInv, VersionsAgree, Carries, Status
  <2>3. obj.spec = cs[s].spec
      BY <2>1, <2>2 DEF Agrees
  <2>4. cs'[s].status = obj.status /\ cs'[s].spec = cs[s].spec
      BY <1>2, <2>1 DEF API!Write, ShellRec
  <2>5. job'.pc = "ok" => job.why # "later"
      BY <1>2, <2>1 DEF Goto, JobType
  <2>6. obj.status = "Ready" /\ job.why = "none" => obj.spec.ttl = "none" \/ s \in csQ \cup backoff
      BY <1>1, <1>2, <1>6 DEF Status, SpecSeen, Decided, Again, me
  <2> QED
      BY <2>2, <2>3, <2>4, <2>5, <2>6
<1> QED
    BY <1>1, <1>3, <1>4, <1>5, <1>6

\* The goroutine ends a synchronisation with a wake-up to come or with the cloudshell served.
LEMMA SyncAttends ==
    ASSUME AttendInv, Sync, NEW s \in Shells
    PROVE  TellsOf(s)' /\ LiveOf(s)'
<1>0. LifeInv /\ SpecSeen /\ IInv /\ IInv' /\ TellsOf(s) /\ LiveOf(s)
    BY SyncInv DEF AttendInv, StreamTells, LifeInv
<1>1. job.pc # "idle" /\ ~Take(s)
    BY DEF Sync, Ensure, Check, Reassign, Unlabel, Borrow, Label, Route, Secret, Exec, Status, Release, Reset,
           Back, Unroute, Unfin, Complete, DeleteSelf, End, Take
<1>2. /\ cs[s] \in ShellRec /\ cs'[s] \in ShellRec /\ me \in Shells /\ StoreInv
      /\ (cs'[s].phase = "live" => cs[s].phase = "live")
  <2>1. StandStep
      BY <1>0, SyncStands
  <2>2. cs[s].phase = "absent" => cs'[s].phase = "absent"
      BY <1>0, SyncBearsNone
  <2> QED
      BY <1>0, <1>1, <2>1, <2>2, AtWork DEF StandStep, IInv, StoreInv, API!StoreTypeOK, ShellRec
<1>3. TellsOf(s)' /\ StaysPending(s)
  <2>1. Flows(s)
      BY <1>0, SyncFlows
  <2> QED
      BY <1>0, <1>2, <2>1, FlowTells
<1>4. CASE s # me
  <2>1. cs'[s] = cs[s]
      BY <1>0, <1>4, SyncWrites
  <2>2. ~Busy(s) /\ ~Busy(s)'
    <3>1. job' = JobIdle \/ job'.shell = me
        BY <1>0, SyncJob DEF End
    <3> QED
        BY <1>4, <3>1 DEF Busy, JobIdle, me
  <2> QED
      BY <1>0, <1>1, <1>2, <1>3, <2>1, <2>2, LiveStays DEF StaysPending
<1>5. CASE s = me
  <2> SUFFICES ASSUME cs'[s].phase = "live" PROVE LiveOf(s)'
      BY <1>3 DEF LiveOf
  <2>1. cs[s].phase = "live" /\ Busy(s)
      BY <1>1, <1>2, <1>5 DEF Busy, me
  <2>2. Queued(s) => Queued(s)'
      BY <1>0, <1>1, <1>3, <2>1, QueuedStays DEF StaysPending
  <2>3. CASE End
    <3>1. ~Busy(s)' /\ cs' = cs /\ job.pc \in {"ok", "later", "error"}
        BY <2>3 DEF End, Busy, JobIdle
    <3>2. CASE job.pc = "error"
      <4>1. s \in backoff'
          BY <1>5, <2>3, <3>2 DEF End
      <4> QED
          BY <3>1, <4>1 DEF LiveOf, Queued
    <3>3. CASE job.pc = "later"
      <4>1. s \in timers'
          BY <1>5, <2>3, <3>3 DEF End
      <4> QED
          BY <1>0, <2>1, <2>2, <3>1, <3>3, <4>1 DEF LiveOf, Served
    <3>4. CASE job.pc = "ok"
      <4>1. timers' = timers
          BY <2>3, <3>4 DEF End
      <4> QED
          BY <1>0, <2>1, <2>2, <3>1, <3>4, <4>1 DEF LiveOf, Served
    <3> QED
        BY <3>1, <3>2, <3>3, <3>4
  <2>4. CASE ~End
    <3>1. Busy(s)' /\ (job'.why = "deleted" => job.why = "deleted")
        BY <1>0, <1>5, <2>4, SyncJob DEF Busy
    <3>2. job.why = "deleted" => Queued(s)'
        BY <1>0, <2>1, <2>2 DEF LiveOf
    <3>3. ASSUME job'.pc \in {"ok", "later"}
          PROVE  \/ Queued(s)'
                 \/ cs'[s].status # "none" /\ (job'.pc = "ok" => cs'[s].status # "Ready" \/ cs'[s].spec.ttl = "none")
      <4>1. s \in waiting' \cup csQ \cup backoff => Queued(s)'
          BY <2>2 DEF Queued
      <4> QED
          BY <1>0, <1>5, <2>4, <3>2, <3>3, <4>1, SyncPasses
    <3> QED
        BY <3>1, <3>2, <3>3 DEF LiveOf, Served
  <2> QED
      BY <2>3, <2>4
<1> QED
    BY <1>4, <1>5

\* A cloudshell is taken off the queue only to be looked at, unless what the cache
\* shows of it is of the past; then it will be enqueued again.
LEMMA TakeAttends ==
    ASSUME AttendInv, NEW n \in Shells, Take(n), NEW s \in Shells
    PROVE  TellsOf(s)' /\ LiveOf(s)'
<1>1. /\ LifeInv /\ IInv /\ StoreInv /\ TellsOf(s) /\ LiveOf(s)
      /\ cs' = cs /\ csWatch' = csWatch /\ csCache' = csCache /\ csCur' = csCur
      /\ csWatch[s] \in Seq(ShellRec) /\ cs[s] \in ShellRec /\ csCache[s] \in ShellRec
      /\ job.pc = "idle"
    BY DEF AttendInv, StreamTells, LifeInv, IInv, StoreInv, API!StoreTypeOK, Take, API!Hold, csStore
<1>2. TellsOf(s)' /\ (Pending(s) => Pending(s)')
    BY <1>1 DEF TellsOf, Pending
<1>3. CASE s # n
  <2>1. ~Take(s)
      BY <1>3 DEF Take
  <2>2. ~Busy(s) /\ ~Busy(s)'
      BY <1>1, <1>3 DEF Busy, Take, JobIdle
  <2> QED
      BY <1>1, <1>2, <2>1, <2>2, LiveStays DEF OtherStep
<1>4. CASE s = n
  <2> SUFFICES ASSUME cs[s].phase = "live" PROVE LiveOf(s)'
      BY <1>1, <1>2 DEF LiveOf
  <2>1. csCache[s].phase # "live" => Pending(s)'
    <3>1. 0 \in 0 .. Len(csWatch[s]) /\ Version(csCache[s], csWatch[s], 0) = csCache[s]
        BY <1>1 DEF Version
    <3> QED
        BY <1>1, <1>2, <3>1 DEF TellsOf, Pending
  <2>2. CASE csCache[s].phase = "live"
    <3>1. job'.pc = "ensure" /\ job'.why = "none" /\ job'.shell = s
        BY <1>4, <2>2 DEF Take, JobIdle
    <3> QED
        BY <3>1 DEF LiveOf, Busy
  <2>3. CASE csCache[s].phase # "live"
    <3>1. job'.pc \notin {"ok", "later"}
        BY <1>1, <1>4, <2>3 DEF Take, JobIdle
    <3> QED
        BY <2>1, <2>3, <3>1 DEF LiveOf, Queued
  <2> QED
      BY <2>2, <2>3
<1> QED
    BY <1>2, <1>3, <1>4

\* A new process lists what there is and enqueues it.
LEMMA CrashAttends ==
    ASSUME AttendInv, Crash, NEW s \in Shells
    PROVE  TellsOf(s)' /\ LiveOf(s)'
<1>1. /\ cs' = cs /\ csCache'[s] = cs[s] /\ csWatch'[s] = <<>> /\ s \in csCur' /\ job'.pc = "idle"
      /\ (cs[s].phase # "absent" => s \in csQ')
    BY DEF Crash, API!Relist, JobIdle
<1>2. \A i \in 0 .. Len(csWatch'[s]) : Version(csCache'[s], csWatch'[s], i) = cs[s]
    BY <1>1 DEF Version
<1>3. TellsOf(s)'
    BY <1>1, <1>2 DEF TellsOf, Alike
<1> QED
    BY <1>1, <1>3 DEF LiveOf, Busy, Queued

\* Every step keeps the invariant.
LEMMA NextAttends ==
    ASSUME AttendInv, [Next]_vars
    PROVE  AttendInv'
<1>1. LifeInv' /\ IInv' /\ StandStep /\ SpecSeen'
    BY NextLives, NextStands, NextSees DEF AttendInv, LifeInv
<1>2. ASSUME NEW s \in Shells PROVE TellsOf(s)' /\ LiveOf(s)'
  <2>1. CASE Sync
      BY <2>1, SyncAttends
  <2>2. CASE Crash
      BY <2>2, CrashAttends
  <2>3. ASSUME NEW n \in Shells, Take(n) PROVE TellsOf(s)' /\ LiveOf(s)'
      BY <2>3, TakeAttends
  <2>4. CASE ~Sync /\ ~Crash /\ \A n \in Shells : ~Take(n)
    <3>1. OtherStep \/ Event
        BY <2>4 DEF Next, OtherStep, Event
    <3> QED
        BY <1>1, <2>4, <3>1, OthersAttend
  <2> QED
      BY <2>1, <2>2, <2>3, <2>4
<1> QED
    BY <1>1, <1>2 DEF AttendInv, StreamTells

\* Nor is there anything to look at.
LEMMA AttendInit ==
    ASSUME Init
    PROVE  AttendInv /\ \A s \in Shells : cs[s].phase = "absent"
<1>1. /\ LifeInv /\ cs = [s \in Shells |-> NoShell] /\ csCache = cs /\ csCur = Shells
      /\ \A s \in Shells : cs[s].phase = "absent"
    BY LifeInit DEF Init, API!StoreInit, NoShell
<1>2. StreamTells
    BY <1>1 DEF StreamTells, TellsOf, Alike, NoShell
<1>3. SpecSeen
    BY DEF Init, JobIdle, SpecSeen
<1> QED
    BY <1>1, <1>2, <1>3 DEF AttendInv, LiveOf

\* No wake-up of a live cloudshell is lost (cloudshell_controller.go:121-150, 203-240):
\* although an update is enqueued or not by comparison with a cached object that the
\* goroutine has changed in place, although faults, restarts, edits and late events
\* come in any order, a cloudshell that no event, queue, back-off or request for a
\* worker will bring back has its status, and a timer if it is Ready and has a TTL.
THEOREM ControllerLiveAttended == Spec => []LiveShellsAttended
<1>1. Init => AttendInv
    BY AttendInit
<1>2. AttendInv /\ [Next]_vars => AttendInv'
    BY NextAttends
<1>3. AttendInv => LiveShellsAttended
  <2> SUFFICES ASSUME AttendInv, NEW s \in Shells, cs[s].phase = "live", ~Attended(s), s \notin waiting
               PROVE  Served(s)
      BY DEF LiveShellsAttended, Served
  <2>1. ~Busy(s)
      BY DEF Attended, Busy
  <2>2. ~Pending(s)
    <3>1. csWatch[s] = <<>>
        BY DEF Attended
    <3> QED
        BY <3>1 DEF Pending, FiresAfter
  <2>3. ~Queued(s)
      BY <2>2 DEF Queued, Attended
  <2> QED
      BY <2>1, <2>3 DEF AttendInv, LiveOf
<1> QED
    BY <1>1, <1>2, <1>3, PTL DEF Spec

(***************************************************************************)
(* Deleted cloudshells, when no call fails.  removeFinalizer takes the     *)
(* finalizer out of the cached object before the server has agreed; a      *)
(* synchronisation that starts from such an object never asks the server.  *)
(***************************************************************************)
\* A cached object with the server's resource version still has its finalizer, and
\* the goroutine does not hold it with an older one.
FinCached ==
    /\ \A s \in csCur : cs[s].phase = "deleting" => csCache[s].fin
    /\ csPtr.alias /\ csPtr.name \in csCur => csPtr.cur

\* The operations of the store.
LEMMA StoreFins ==
    ASSUME StoreInv, FinCached, NEW n \in Shells,
           \/ \E r : API!Write(n, r)
           \/ API!Deliver(n) \/ API!Relist \/ API!Hold(n)
           \/ \E rec \in ShellRec :
                 /\ csPtr.name = n
                 /\ \/ API!UpdateOK(rec, Final(rec))
                    \/ API!Mutate(rec) /\ (rec.fin \in {csPtr.obj.fin, TRUE} \/ ~csPtr.cur \/ cs[n].phase = "absent")
           \/ \E kept \in ShellRec :
                 /\ kept.fin = csCache[n].fin /\ csCache' = [csCache EXCEPT ![n] = kept]
                 /\ csPtr' = [name |-> n, obj |-> kept, alias |-> TRUE, cur |-> n \in csCur]
                 /\ UNCHANGED <<cs, csCur>>
           \/ UNCHANGED <<cs, csCache, csCur>> /\ csPtr' \in {csPtr, API!NoPtr}
    PROVE  FinCached'
<1>1. /\ cs \in [Shells -> ShellRec] /\ csCache \in [Shells -> ShellRec] /\ csPtr \in API!PtrRec
      /\ csWatch \in [Shells -> Seq(ShellRec)] /\ csCur \subseteq Shells
      /\ (csPtr.alias => csPtr.obj = csCache[csPtr.name])
      /\ \A s \in Shells : cs[s].phase = "deleting" => cs[s].fin
    BY DEF StoreInv, API!StoreTypeOK, VersionsAgree, DeletingGuarded
<1>2. ASSUME NEW r, API!Write(n, r) PROVE FinCached'
    BY <1>1, <1>2 DEF API!Write, FinCached, API!PtrRec
<1>3. CASE API!Deliver(n)
  <2>1. csWatch[n] \in Seq(ShellRec) /\ csWatch[n] # <<>> /\ csWatch[n][Len(csWatch[n])] = cs[n]
      BY <1>1, <1>3 DEF API!Deliver, StoreInv, VersionsAgree
  <2>2. Len(csWatch[n]) = 1 => Head(csWatch[n]) = cs[n]
      BY <2>1
  <2>3. /\ cs' = cs /\ csCache' = [csCache EXCEPT ![n] = Head(csWatch[n])]
        /\ csCur' = IF Len(csWatch[n]) = 1 THEN csCur \cup {n} ELSE csCur \ {n}
        /\ (csPtr'.alias => csPtr' = csPtr /\ csPtr.name # n)
      BY <1>1, <1>3 DEF API!Deliver, API!PtrRec
  <2> QED
      BY <1>1, <2>2, <2>3 DEF FinCached
<1>4. CASE API!Relist
    BY <1>1, <1>4 DEF API!Relist, API!NoPtr, FinCached
<1>5. CASE API!Hold(n)
    BY <1>1, <1>5 DEF API!Hold, FinCached
<1>6. ASSUME NEW rec \in ShellRec, csPtr.name = n, API!UpdateOK(rec, Final(rec)) PROVE FinCached'
  <2>1. Final(rec).phase = "deleting" => rec.fin
      BY DEF Final, NoShell
  <2>2. /\ cs' = [cs EXCEPT ![n] = Final(rec)] /\ csPtr.cur /\ csPtr'.cur
        /\ csPtr'.alias = csPtr.alias
        /\ csCache' = IF csPtr.alias THEN [csCache EXCEPT ![n] = rec] ELSE csCache
        /\ csCur' = IF csPtr.alias THEN csCur \cup {n} ELSE csCur \ {n}
      BY <1>1, <1>6 DEF API!UpdateOK, API!Accepts, API!InPlace, API!PtrRec
  <2> QED
      BY <1>1, <2>1, <2>2 DEF FinCached
<1>7. ASSUME NEW rec \in ShellRec, csPtr.name = n, API!Mutate(rec),
             rec.fin \in {csPtr.obj.fin, TRUE} \/ ~csPtr.cur \/ cs[n].phase = "absent"
      PROVE  FinCached'
  <2>1. /\ UNCHANGED <<cs, csCur>> /\ csPtr'.alias = csPtr.alias /\ csPtr'.name = n /\ csPtr'.cur = csPtr.cur
        /\ csCache' = IF csPtr.alias THEN [csCache EXCEPT ![n] = rec] ELSE csCache
      BY <1>1, <1>7 DEF API!Mutate, API!InPlace, API!PtrRec
  <2>2. csPtr.alias /\ n \in csCur /\ cs[n].phase = "deleting" => rec.fin
      BY <1>1, <1>7 DEF FinCached
  <2> QED
      BY <1>1, <1>7, <2>1, <2>2 DEF FinCached
<1>8. ASSUME NEW kept \in ShellRec, kept.fin = csCache[n].fin, csCache' = [csCache EXCEPT ![n] = kept],
             csPtr' = [name |-> n, obj |-> kept, alias |-> TRUE, cur |-> n \in csCur], UNCHANGED <<cs, csCur>>
      PROVE  FinCached'
    BY <1>1, <1>8 DEF FinCached
<1>9. CASE UNCHANGED <<cs, csCache, csCur>> /\ csPtr' \in {csPtr, API!NoPtr}
    BY <1>9 DEF FinCached, API!NoPtr
<1> QED
    BY <1>2, <1>3, <1>4, <1>5, <1>6, <1>7, <1>8, <1>9

\* No call fails.
Faultless == "fault" \notin Kinds

\* An Update that is refused although the object was up to date was not for the finalizer.
LEMMA SaveFins ==
    ASSUME IInv, FinCached, Faultless, job.pc # "idle", NEW rec \in ShellRec, NEW next, Save(rec, next)
    PROVE  FinCached'
<1>1. PICK n \in Shells : n = me
    BY AtWork
<1>2. csPtr.name = n /\ csPtr.obj = obj /\ cs[n] \in ShellRec /\ StoreInv /\ ~Fault
    BY <1>1, AtWork DEF IInv, Fault, Disturb, Faultless
<1>3. PICK sent : sent = [rec EXCEPT !.status = cs[me].status, !.started = cs[me].started]
    OBVIOUS
<1>4. sent \in ShellRec
    BY <1>1, <1>2, <1>3 DEF ShellRec
<1>5. API!UpdateOK(sent, Final(sent)) \/ (API!Mutate(rec) /\ ~API!Accepts(rec))
    BY <1>2, <1>3 DEF Save
<1>6. API!Mutate(rec) /\ ~API!Accepts(rec) => rec.fin = TRUE \/ ~csPtr.cur \/ cs[n].phase = "absent"
    BY <1>2 DEF API!Accepts, ShellRec
<1> QED
    BY <1>2, <1>4, <1>5, <1>6, StoreFins

\* The goroutine's steps, when no call fails.
LEMMA SyncFins ==
    ASSUME IInv, FinCached, Faultless, Sync
    PROVE  FinCached'
<1>0. job.pc # "idle"
    BY DEF Sync, Ensure, Check, Reassign, Unlabel, Borrow, Label, Route, Secret, Exec, Status, Release, Reset,
           Back, Unroute, Unfin, Complete, DeleteSelf, End
<1>1. PICK n \in Shells : n = me
    BY <1>0, AtWork
<1>2. /\ csPtr.name = n /\ csPtr.obj = obj /\ obj \in ShellRec /\ StoreInv /\ job \in JobType
      /\ cs[n] \in ShellRec /\ csCache[n] \in ShellRec
    BY <1>0, <1>1, AtWork DEF IInv
<1>3. CASE UNCHANGED csStore
    BY <1>2, <1>3, StoreFins DEF csStore
<1>4. ASSUME NEW rec \in ShellRec, rec.fin = obj.fin, API!Mutate(rec) PROVE FinCached'
    BY <1>2, <1>4, StoreFins
<1>5. ASSUME NEW r, API!Write(n, r) PROVE FinCached'
    BY <1>2, <1>5, StoreFins
<1>6. CASE Ensure \/ Secret
  <2>1. [obj EXCEPT !.fin = TRUE] \in ShellRec /\ [obj EXCEPT !.secret = TRUE] \in ShellRec
      BY <1>2 DEF ShellRec
  <2> QED
      BY <1>0, <1>3, <1>6, <2>1, SaveFins DEF Ensure, Secret
<1>7. CASE Label \/ Unlabel
  <2>1. job.worker \in Workers \cup {None}
      BY <1>2 DEF JobType
  <2>2. [obj EXCEPT !.pod = job.worker] \in ShellRec
      BY <1>2, <2>1 DEF ShellRec
  <2> QED
      BY <1>0, <1>2, <1>7, <2>2, SaveFins DEF Label, Unlabel
<1>8. CASE Unfin
  <2>1. [obj EXCEPT !.fin = FALSE] \in ShellRec
      BY <1>2 DEF ShellRec
  <2>2. CASE obj.fin
      BY <1>0, <1>8, <2>1, <2>2, SaveFins DEF Unfin
  <2>3. CASE ~obj.fin
      BY <1>3, <1>8, <2>3 DEF Unfin
  <2> QED
      BY <2>2, <2>3
<1>9. CASE Reassign \/ Back \/ Exec \/ Complete
  <2>1. /\ [obj EXCEPT !.pod = None] \in ShellRec /\ [obj EXCEPT !.pod = None].fin = obj.fin
        /\ [obj EXCEPT !.status = "Ready", !.started = TRUE] \in ShellRec
        /\ [obj EXCEPT !.status = "Ready", !.started = TRUE].fin = obj.fin
        /\ [obj EXCEPT !.status = "Complete"] \in ShellRec /\ [obj EXCEPT !.status = "Complete"].fin = obj.fin
      BY <1>2 DEF ShellRec
  <2> QED
      BY <1>3, <1>4, <1>9, <2>1 DEF Reassign, Back, Exec, Complete
<1>10. CASE Status
  <2>1. PICK kept : kept = [csCache[n] EXCEPT !.status = obj.status, !.started = obj.started]
      OBVIOUS
  <2>2. kept \in ShellRec /\ kept.fin = csCache[n].fin
      BY <1>2, <2>1 DEF ShellRec
  <2>3. \/ \E r : API!Write(n, r)
        \/ /\ csCache' = [csCache EXCEPT ![n] = kept] /\ UNCHANGED <<cs, csCur>>
           /\ csPtr' = [name |-> n, obj |-> kept, alias |-> TRUE, cur |-> n \in csCur]
        \/ UNCHANGED csStore
      BY <1>1, <1>10, <2>1 DEF Status
  <2> QED
      BY <1>2, <1>3, <1>5, <2>2, <2>3, StoreFins
<1>11. CASE DeleteSelf
    BY <1>1, <1>3, <1>5, <1>11 DEF DeleteSelf
<1>12. CASE Check \/ Borrow \/ Route \/ Release \/ Reset \/ Unroute
    BY <1>3, <1>12 DEF Check, Borrow, Route, Release, Reset, Unroute
<1>13. CASE End
    BY <1>2, <1>13, StoreFins DEF End
<1> QED
    BY <1>6, <1>7, <1>8, <1>9, <1>10, <1>11, <1>12, <1>13 DEF Sync

\* The others' steps.
LEMMA OtherFins ==
    ASSUME IInv, FinCached, OtherStep \/ Event \/ Crash, Shells # {}
    PROVE  FinCached'
<1>1. StoreInv
    BY DEF IInv
<1>2. ASSUME NEW n \in Shells, DeleteShell(n) \/ \E sp \in Specs : CreateShell(n, sp) \/ EditShell(n, sp)
      PROVE  FinCached'
  <2>1. \E r : API!Write(n, r)
      BY <1>2 DEF DeleteShell, CreateShell, EditShell
  <2> QED
      BY <1>1, <2>1, StoreFins
<1>3. CASE UNCHANGED csStore
  <2>1. UNCHANGED <<cs, csCache, csCur, csPtr>>
      BY <1>3 DEF csStore
  <2> QED
      BY <2>1 DEF FinCached
<1>4. ASSUME NEW n \in Shells, Take(n) \/ ShellEvent(n) PROVE FinCached'
    BY <1>1, <1>3, <1>4, StoreFins DEF Take, ShellEvent
<1>5. ASSUME NEW n \in Shells, PoolWakes(n) \/ Elapse(n) \/ Retry(n) \/ TimerFires(n) \/ Collect(n) PROVE FinCached'
    BY <1>3, <1>5 DEF PoolWakes, Elapse, Retry, TimerFires, Collect
<1>6. ASSUME NEW w \in Workers, \/ PodEvent(w) \/ PoolCreates(w) \/ WorkerReady(w) \/ WorkerUnready(w)
                                \/ WorkerEvicted(w) \/ WorkerGone(w)
      PROVE  FinCached'
    BY <1>3, <1>6 DEF PodEvent, PoolCreates, WorkerReady, WorkerUnready, WorkerEvicted, WorkerGone
<1>7. CASE Crash
    BY <1>1, <1>7, StoreFins DEF Crash
<1>8. CASE UNCHANGED vars
    BY <1>3, <1>8 DEF vars
<1> QED
    BY <1>2, <1>4, <1>5, <1>6, <1>7, <1>8 DEF OtherStep, Event

\* The deleted cloudshell will be looked at.
Looked(s) == s \in csQ \cup backoff \/ csWatch[s] # <<>>

\* What makes a synchronisation of a deleted cloudshell of no use: it began when the
\* cloudshell was not deleted, or with an object without finalizer.
Vain == \/ job.why # "deleted" \/ job.pc = "ok"
        \/ job.pc \in RemovePCs /\ ~csPtr.obj.fin

DeletedOf(s) == cs[s].phase = "deleting" /\ (~Busy(s) \/ Vain) => Looked(s)

DeletedWhys == job.why = "deleted" => job.pc \in RemovePCs \cup {"ok", "error"}

GoneInv == AttendInv /\ FinCached /\ DeletedWhys /\ \A s \in Shells : DeletedOf(s)

\* A deletion is in the stream until it is enqueued.
LEMMA LookedStays ==
    ASSUME IInv, Sync \/ OtherStep \/ Event, NEW s \in Shells, ~Take(s), cs'[s].phase = "deleting",
           cs[s].phase = "deleting" => Looked(s)
    PROVE  Looked(s)'
<1>1. /\ csWatch \in [Shells -> Seq(ShellRec)] /\ csCache \in [Shells -> ShellRec]
      /\ csWatch[s] \in Seq(ShellRec) /\ (csWatch[s] # <<>> => csWatch[s][Len(csWatch[s])] = cs[s])
    BY DEF IInv, StoreInv, API!StoreTypeOK, VersionsAgree
<1>2. CASE Flows(s)
  <2>1. CASE Stays(s)
      BY <2>1, QueueKept DEF Stays, Looked
  <2>2. CASE Grows(s)
    <3>1. csWatch'[s] # <<>>
        BY <1>1, <2>2 DEF Grows
    <3> QED
        BY <3>1 DEF Looked
  <2> QED
      BY <1>2, <2>1, <2>2 DEF Flows
<1>3. CASE ShellEvent(s)
  <2>1. csWatch[s] # <<>> /\ csWatch'[s] = Tail(csWatch[s]) /\ cs' = cs
      BY <1>1, <1>3 DEF ShellEvent, API!Deliver
  <2>2. CASE Len(csWatch[s]) = 1
    <3>1. Head(csWatch[s]).phase = "deleting"
        BY <1>1, <2>1, <2>2
    <3>2. s \in csQ'
        BY <1>3, <3>1 DEF ShellEvent, Enqueues
    <3> QED
        BY <3>2 DEF Looked
  <2>3. CASE Len(csWatch[s]) # 1
    <3>1. csWatch'[s] # <<>>
        BY <1>1, <2>1, <2>3, FiresTail
    <3> QED
        BY <3>1 DEF Looked
  <2> QED
      BY <2>2, <2>3
<1>4. ASSUME NEW n \in Shells, n # s, ShellEvent(n) PROVE Flows(s)
    BY <1>1, <1>4 DEF ShellEvent, API!Deliver, Flows, Stays, Alike, IInv, StoreInv, API!StoreTypeOK
<1> QED
    BY <1>2, <1>3, <1>4, SyncFlows, OtherFlows DEF Event

\* removeCloudshell of a deleted cloudshell goes on with the object it has, until
\* its Update makes the cloudshell disappear or fails.
LEMMA RemovePasses ==
    ASSUME IInv, Faultless, Sync, job.why = "deleted", job.pc \in RemovePCs, NEW s \in Shells, s = me
    PROVE  /\ ~End /\ job'.why = "deleted" /\ job'.pc \in RemovePCs \cup {"ok", "error"}
           /\ cs'[s].phase = "deleting" /\ csPtr.obj.fin =>
                 job'.pc # "ok" /\ (job'.pc \in RemovePCs => csPtr'.obj.fin)
<1>0. job.pc # "idle" /\ ~End /\ (Release \/ Reset \/ Back \/ Unroute \/ Unfin)
    BY DEF Sync, Ensure, Check, Reassign, Unlabel, Borrow, Label, Route, Secret, Exec, Status,
           Complete, DeleteSelf, End, RemovePCs
<1>1. /\ job \in JobType /\ cs \in [Shells -> ShellRec] /\ cs[s] \in ShellRec /\ StoreInv
      /\ csPtr.name = s /\ csPtr.obj = obj /\ obj \in ShellRec /\ csPtr \in API!PtrRec /\ ~Fault
    BY <1>0, AtWork DEF IInv, StoreInv, API!StoreTypeOK, Fault, Disturb, Faultless
<1>2. CASE Release
  <2>1. job'.pc \in {"unroute", "reset"} /\ job'.why = "deleted" /\ csPtr' = csPtr
      BY <1>1, <1>2 DEF Release, JobType, csStore
  <2> QED
      BY <1>0, <2>1 DEF RemovePCs
<1>3. CASE Reset \/ Unroute
  <2>1. (Goto("back") \/ Goto("unfin") \/ Goto("error")) /\ csPtr' = csPtr
      BY <1>3 DEF Reset, Unroute, Done, Fail, csStore
  <2> QED
      BY <1>0, <1>1, <2>1 DEF RemovePCs, Goto, JobType
<1>4. CASE Back
  <2>1. /\ Goto("unroute") \/ Goto("error")
        /\ API!Mutate([obj EXCEPT !.pod = None]) \/ UNCHANGED csStore
      BY <1>4 DEF Back, Fail
  <2>2. csPtr'.obj.fin = csPtr.obj.fin
      BY <1>1, <2>1 DEF API!Mutate, API!PtrRec, ShellRec, csStore
  <2> QED
      BY <1>0, <1>1, <2>1, <2>2 DEF RemovePCs, Goto, JobType
<1>5. CASE Unfin
  <2>1. job'.why = "deleted" /\ job'.pc \in {"ok", "error"}
    <3>1. Goto("ok") \/ Goto("error")
      <4>1. PICK next : next = IF job.why = "deleted" THEN "ok" ELSE IF obj.spec.cleanup THEN "delete" ELSE "complete"
          OBVIOUS
      <4>2. Goto(next) \/ Goto("error")
          BY <1>5, <4>1 DEF Unfin, Save, Fail
      <4> QED
          BY <4>1, <4>2
    <3> QED
        BY <1>1, <3>1 DEF Goto, JobType
  <2>2. ASSUME csPtr.obj.fin, job'.pc = "ok" PROVE cs'[s].phase # "deleting"
    <3>1. PICK rec : rec = [obj EXCEPT !.fin = FALSE]
        OBVIOUS
    <3>2. PICK sent : sent = [rec EXCEPT !.status = cs[me].status, !.started = cs[me].started]
        OBVIOUS
    <3>3. Save(rec, "ok")
        BY <1>1, <1>5, <2>2, <3>1 DEF Unfin
    <3>4. API!UpdateOK(sent, Final(sent)) \/ Fail
        BY <1>1, <3>2, <3>3 DEF Save
    <3>5. API!UpdateOK(sent, Final(sent))
        BY <1>1, <2>2, <3>4 DEF Fail, Goto, JobType
    <3>6. sent.fin = FALSE /\ sent.phase = obj.phase
        BY <1>1, <3>1, <3>2 DEF ShellRec
    <3>7. Final(sent).phase # "deleting"
        BY <3>6 DEF Final, NoShell
    <3>8. cs' = [cs EXCEPT ![s] = Final(sent)]
        BY <1>1, <3>5 DEF API!UpdateOK
    <3> QED
        BY <1>1, <3>7, <3>8
  <2> QED
      BY <1>0, <2>1, <2>2 DEF RemovePCs
<1> QED
    BY <1>0, <1>2, <1>3, <1>4, <1>5

\* A synchronisation in vain leaves the deletion to the next one.
LEMMA SyncLooks ==
    ASSUME GoneInv, Faultless, Sync
    PROVE  DeletedWhys' /\ \A s \in Shells : DeletedOf(s)'
<1>0. LifeInv /\ IInv /\ job.pc # "idle" /\ me \in Shells
  <2>1. job.pc # "idle"
      BY DEF Sync, Ensure, Check, Reassign, Unlabel, Borrow, Label, Route, Secret, Exec, Status, Release, Reset,
             Back, Unroute, Unfin, Complete, DeleteSelf, End
  <2> QED
      BY <2>1, AtWork DEF GoneInv, AttendInv, LifeInv
<1>1. job' = JobIdle \/ (~End /\ job'.shell = me)
    BY <1>0, SyncJob DEF End
<1>2. DeletedWhys'
  <2>1. CASE End
      BY <2>1 DEF End, JobIdle, DeletedWhys
  <2>2. CASE ~End
    <3> SUFFICES ASSUME job'.why = "deleted" PROVE job'.pc \in RemovePCs \cup {"ok", "error"}
        BY DEF DeletedWhys
    <3>1. job.why = "deleted"
        BY <1>0, <2>2, SyncJob
    <3>2. job.pc \in RemovePCs \cup {"ok", "error"}
        BY <3>1 DEF GoneInv, DeletedWhys
    <3>3. job.pc \notin {"ok", "error"}
        BY <2>2 DEF Sync, Ensure, Check, Reassign, Unlabel, Borrow, Label, Route, Secret, Exec, Status, Release,
                    Reset, Back, Unroute, Unfin, Complete, DeleteSelf
    <3> QED
        BY <1>0, <3>1, <3>2, <3>3, RemovePasses
  <2> QED
      BY <2>1, <2>2
<1>3. ASSUME NEW s \in Shells PROVE DeletedOf(s)'
  <2> SUFFICES ASSUME cs'[s].phase = "deleting", ~Busy(s)' \/ Vain', ~Looked(s)' PROVE FALSE
      BY DEF DeletedOf
  <2>1. ~Take(s) /\ DeletedOf(s)
      BY <1>0 DEF Take, GoneInv
  <2>2. cs[s].phase = "deleting" /\ ~Looked(s)
      BY <1>0, <2>1, LookedStays
  <2>3. Busy(s) /\ ~Vain
      BY <2>1, <2>2 DEF DeletedOf
  <2>4. s = me /\ job.why = "deleted" /\ job.pc # "ok" /\ (job.pc \in RemovePCs => csPtr.obj.fin)
      BY <2>3 DEF Busy, Vain, me
  <2>5. CASE job.pc = "error"
    <3>1. End
        BY <2>5 DEF Sync, Ensure, Check, Reassign, Unlabel, Borrow, Label, Route, Secret, Exec, Status, Release,
                    Reset, Back, Unroute, Unfin, Complete, DeleteSelf
    <3> QED
        BY <2>4, <2>5, <3>1 DEF End, Looked
  <2>6. CASE job.pc # "error"
    <3>1. job.pc \in RemovePCs
        BY <2>4, <2>6 DEF GoneInv, DeletedWhys
    <3>2. /\ ~End /\ job'.why = "deleted" /\ job'.pc # "ok" /\ (job'.pc \in RemovePCs => csPtr'.obj.fin)
        BY <1>0, <2>4, <3>1, RemovePasses
    <3>3. job'.shell = s /\ job'.pc # "idle"
        BY <1>0, <2>4, <3>2, SyncJob
    <3> QED
        BY <3>2, <3>3 DEF Busy, Vain
  <2> QED
      BY <2>5, <2>6
<1> QED
    BY <1>2, <1>3

\* A synchronisation begins in vain only while a newer version is on its way.
LEMMA TakeLooks ==
    ASSUME GoneInv, NEW n \in Shells, Take(n)
    PROVE  DeletedWhys' /\ \A s \in Shells : DeletedOf(s)'
<1>1. /\ LifeInv /\ IInv /\ job.pc = "idle" /\ cs' = cs /\ csWatch' = csWatch /\ job \in JobType
      /\ csPtr'.obj = csCache[n] \/ job' = job
    BY DEF GoneInv, AttendInv, LifeInv, Take, API!Hold, csStore, IInv, TypeOK, JobType
<1>2. DeletedWhys'
    BY <1>1 DEF Take, JobIdle, GoneInv, DeletedWhys, RemovePCs
<1>3. ASSUME NEW s \in Shells PROVE DeletedOf(s)'
  <2> SUFFICES ASSUME cs'[s].phase = "deleting", ~Busy(s)' \/ Vain' PROVE Looked(s)'
      BY DEF DeletedOf
  <2>1. cs[s].phase = "deleting" /\ Looked(s)
      BY <1>1 DEF GoneInv, DeletedOf, Busy
  <2>2. CASE s # n
    <3>1. ~Take(s)
        BY <2>2 DEF Take
    <3> QED
        BY <1>1, <2>1, <3>1, LookedStays DEF OtherStep
  <2>3. CASE s = n
    <3>1. csCache[s].phase # "deleting" => csWatch[s] # <<>>
        BY <2>1 DEF GoneInv, AttendInv, StreamTells, TellsOf, Alike
    <3>2. ~csCache[s].fin => csWatch[s] # <<>>
        BY <2>1 DEF GoneInv, AttendInv, StreamTells, TellsOf, FinCached
    <3>3. CASE csCache[s].phase = "deleting" /\ csCache[s].fin
      <4>1. job'.pc = "release" /\ job'.why = "deleted" /\ job'.shell = s /\ csPtr'.obj = csCache[s]
        <5>1. API!Hold(s) /\ job' = [JobIdle EXCEPT !.shell = s, !.pc = "release", !.why = "deleted"]
            BY <2>3, <3>3 DEF Take
        <5> QED
            BY <5>1 DEF JobIdle, API!Hold
      <4>2. Busy(s)' /\ ~Vain'
          BY <3>3, <4>1 DEF Busy, Vain
      <4> QED
          BY <4>2
    <3>4. CASE csWatch[s] # <<>>
        BY <1>1, <3>4 DEF Looked
    <3> QED
        BY <3>1, <3>2, <3>3, <3>4
  <2> QED
      BY <2>2, <2>3
<1> QED
    BY <1>2, <1>3

\* The others and the informers.
LEMMA OthersLook ==
    ASSUME GoneInv, OtherStep \/ Event, \A n \in Shells : ~Take(n)
    PROVE  DeletedWhys' /\ \A s \in Shells : DeletedOf(s)'
<1>1. job' = job /\ csPtr'.obj = csPtr.obj /\ IInv
    BY OthersHold DEF GoneInv, AttendInv, LifeInv
<1>2. DeletedWhys'
    BY <1>1 DEF GoneInv, DeletedWhys
<1>3. ASSUME NEW s \in Shells PROVE DeletedOf(s)'
  <2> SUFFICES ASSUME cs'[s].phase = "deleting", ~Busy(s)' \/ Vain' PROVE Looked(s)'
      BY DEF DeletedOf
  <2>1. ~Busy(s) \/ Vain
      BY <1>1 DEF Busy, Vain
  <2>2. cs[s].phase = "deleting" => Looked(s)
      BY <2>1 DEF GoneInv, DeletedOf
  <2> QED
      BY <1>1, <2>2, LookedStays
<1> QED
    BY <1>2, <1>3

\* Every step keeps the invariant.
LEMMA NextLooks ==
    ASSUME GoneInv, Faultless, [Next]_vars
    PROVE  GoneInv'
<1>1. AttendInv' /\ IInv /\ IInv'
    BY NextAttends DEF GoneInv, AttendInv, LifeInv
<1>2. FinCached'
  <2>1. CASE Shells = {}
      BY <1>1, <2>1 DEF FinCached, IInv, StoreInv, VersionsAgree, API!StoreTypeOK
  <2>2. CASE Shells # {}
    <3>1. Sync \/ OtherStep \/ Event \/ Crash
        BY DEF Next, OtherStep, Event
    <3> QED
        BY <1>1, <2>2, <3>1, SyncFins, OtherFins DEF GoneInv
  <2> QED
      BY <2>1, <2>2
<1>3. DeletedWhys' /\ \A s \in Shells : DeletedOf(s)'
  <2>1. CASE Crash
      BY <2>1 DEF Crash, API!Relist, JobIdle, DeletedWhys, DeletedOf, Looked
  <2>2. ASSUME ~Sync, ~Crash, \A n \in Shells : ~Take(n) PROVE OtherStep \/ Event
      BY <2>2 DEF Next, OtherStep, Event
  <2> QED
      BY <2>1, <2>2, SyncLooks, TakeLooks, OthersLook
<1> QED
    BY <1>1, <1>2, <1>3 DEF GoneInv

\* As long as no call fails, the controller is not done with a deleted cloudshell before
\* it is gone (cloudshell_controller.go:121-150, 512-525): removeFinalizer takes the
\* finalizer out of the informer's object whether or not its Update is accepted, and
\* a synchronisation that finds no finalizer asks nothing of the server, but when
\* that happens a newer version is on its way and will be enqueued.  A call that
\* fails must be excluded: the object keeps its resource version and the cloudshell
\* stays for ever.
THEOREM ControllerDeletedAttended == ASSUME Faultless PROVE Spec => []DeletedShellsAttended
<1>1. Init => GoneInv
    BY AttendInit DEF GoneInv, FinCached, DeletedWhys, DeletedOf, Init, API!StoreInit, API!NoPtr, JobIdle
<1>2. GoneInv /\ [Next]_vars => GoneInv'
    BY NextLooks
<1>3. GoneInv => DeletedShellsAttended
    BY DEF GoneInv, DeletedOf, DeletedShellsAttended, Attended, Looked, Busy
<1> QED
    BY <1>1, <1>2, <1>3, PTL DEF Spec
=============================================================================
