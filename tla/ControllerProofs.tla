-------------------------- MODULE ControllerProofs --------------------------
(***************************************************************************)
(* Theorems about the cloudshell controller (Controller.tla) for any       *)
(* number of cloudshells, workers, specs and disturbances.                 *)
(***************************************************************************)
EXTENDS Controller, StreamFacts, TLAPS

(***************************************************************************)
(* The strengthening.  FinalizerGuards speaks about the server's object at *)
(* the moment removeFinalizer's Update is accepted, while the goroutine    *)
(* has decided everything from an object of the informer's cache, which it *)
(* has changed since.  So the invariant says how the two may differ.       *)
(***************************************************************************)
\* The worker is not in use for the cloudshell.
Loose(s, w) == pods[w].phase # "live" \/ pods[w].owner # s

\* An object with the server's resource version has its phase and spec.  One that
\* is being deleted names the server's worker too, unless that worker has been
\* given back and its name cleared here and not yet there.
Agrees(s, o) ==
    cs[s].phase # "absent" =>
        /\ o.phase = cs[s].phase /\ o.spec = cs[s].spec
        /\ o.phase = "deleting" =>
              \/ o.pod = cs[s].pod
              \/ o.pod = None /\ (cs[s].pod # None => Loose(s, cs[s].pod))

\* The cache, the held object and the watch stream against the server.
VersionsAgree ==
    /\ \A s \in csCur : Agrees(s, csCache[s])
    /\ csPtr.cur => csPtr.name \in Shells /\ Agrees(csPtr.name, csPtr.obj)
    /\ csPtr.alias => csPtr.name \in Shells /\ csPtr.obj = csCache[csPtr.name]
    /\ \A s \in Shells : csWatch[s] # <<>> => csWatch[s][Len(csWatch[s])] = cs[s]

\* While the goroutine works with an object that is not being deleted, it has not
\* cleared the worker of one that is: a Borrow cannot make a worker that was
\* given back the cloudshell's again behind the back of the cache.
CacheUntouched ==
    \A s \in csCur :
        csPtr.name = s /\ csPtr.obj.phase = "live" /\ csCache[s].phase = "deleting"
            => csCache[s].pod = cs[s].pod

\* The server never keeps a deleted cloudshell without finalizer.
DeletingGuarded == \A s \in Shells : cs[s].phase = "deleting" => cs[s].fin

StoreInv == API!StoreTypeOK /\ VersionsAgree /\ CacheUntouched /\ DeletingGuarded

\* The cached workers differ from the server's only in what the pool has changed in
\* place, unless there is news of them; one that has an owner is known to the lister.
OwnedKnown == \A w \in Workers :
    /\ w \notin podNews => view[w].phase = pods[w].phase /\ view[w].ready = pods[w].ready
    /\ pods[w].owner # None /\ pods[w].phase # "absent" => view[w].phase # "absent"

\* Where the goroutine is says what it holds and what it has done.
SyncPCs == {"ensure", "check", "reassign", "unlabel", "borrow", "label", "route", "secret", "exec"}
PcInv ==
    /\ job.pc # "idle" => job.shell \in Shells /\ csPtr.name = job.shell
    /\ job.pc \in SyncPCs => obj.phase = "live"
    /\ job.pc \in {"reassign", "label", "route", "reset", "back"} => job.worker \in Workers
    /\ job.pc \in {"reset", "back"} => job.worker = obj.pod
    /\ job.pc \in {"unroute", "unfin"} /\ obj.pod # None => Loose(me, obj.pod)
    /\ job.pc = "unfin" => \A r \in routes : r.at = At(me, obj.spec) => r.at.mode = "NodePort"

IInv == TypeOK /\ StoreInv /\ OwnedKnown /\ PcInv

\* No worker comes into use for a cloudshell.
LooseKept == \A s \in Shells, w \in Workers : Loose(s, w) => Loose(s, w)'

\* What FinalizerGuards says of one step.
GuardStep ==
    \A s \in Shells :
        cs[s].phase = "deleting" /\ cs'[s].phase = "absent" =>
            /\ cs[s].pod # None => pods[cs[s].pod].phase # "live" \/ pods[cs[s].pod].owner # s
            /\ \A r \in routes : r.at = At(s, cs[s].spec) => r.at.mode = "NodePort"

(***************************************************************************)
(* The operations of the store.                                            *)
(***************************************************************************)
\* An object goes on agreeing with the server's as long as nobody writes to it and
\* no worker comes into use for the cloudshell.
LEMMA AgreesFor ==
    ASSUME NEW s \in Shells, NEW o, cs[s] \in ShellRec, cs'[s] = cs[s], Agrees(s, o),
           \A w \in Workers : Loose(s, w) => Loose(s, w)'
    PROVE  Agrees(s, o)'
BY DEF Agrees, ShellRec

LEMMA AgreesKept ==
    ASSUME NEW s \in Shells, NEW o, cs[s] \in ShellRec, cs'[s] = cs[s], LooseKept, Agrees(s, o)
    PROVE  Agrees(s, o)'
BY AgreesFor DEF LooseKept

\* Nothing happens to the cloudshells.
LEMMA StoreSame ==
    ASSUME StoreInv, UNCHANGED csStore, LooseKept
    PROVE  StoreInv' /\ GuardStep
<1> USE DEF StoreInv
<1>1. cs \in [Shells -> ShellRec] /\ csCur \subseteq Shells /\ csPtr \in API!PtrRec
    BY DEF API!StoreTypeOK
<1>2. API!StoreTypeOK' /\ CacheUntouched' /\ DeletingGuarded'
    BY DEF API!StoreTypeOK, CacheUntouched, DeletingGuarded, csStore
<1>3. VersionsAgree'
  <2>1. \A s \in csCur' : Agrees(s, csCache[s])'
      BY <1>1, AgreesKept DEF VersionsAgree, csStore
  <2>2. csPtr'.cur => csPtr'.name \in Shells /\ Agrees(csPtr.name, csPtr.obj)'
      BY <1>1, AgreesKept DEF VersionsAgree, csStore
  <2> QED
      BY <2>1, <2>2 DEF VersionsAgree, csStore
<1> QED
    BY <1>2, <1>3 DEF GuardStep, csStore

\* A write past the held object.
LEMMA WriteInv ==
    ASSUME StoreInv, NEW n \in Shells, NEW r \in ShellRec, API!Write(n, r), LooseKept,
           r.phase = "deleting" => r.fin, cs[n].phase = "deleting" => r.phase # "absent"
    PROVE  StoreInv' /\ GuardStep /\ csPtr'.name = csPtr.name /\ csPtr'.obj = csPtr.obj
<1> USE DEF StoreInv
<1>1. cs \in [Shells -> ShellRec] /\ csCur \subseteq Shells /\ csPtr \in API!PtrRec
      /\ csWatch \in [Shells -> Seq(ShellRec)]
    BY DEF API!StoreTypeOK
<1>2. csPtr' \in API!PtrRec /\ csPtr'.name = csPtr.name /\ csPtr'.obj = csPtr.obj
      /\ csPtr'.alias = csPtr.alias /\ (csPtr'.cur => csPtr.cur /\ csPtr.name # n)
    BY <1>1 DEF API!Write, API!PtrRec
<1>3. API!StoreTypeOK'
    BY <1>2 DEF API!StoreTypeOK, API!Write
<1>4. \A s \in Shells : s # n => cs'[s] = cs[s]
    BY <1>1 DEF API!Write
<1>5. VersionsAgree'
  <2>1. \A s \in csCur' : Agrees(s, csCache[s])'
    <3>1. ASSUME NEW s \in csCur' PROVE Agrees(s, csCache[s])'
      <4>1. s \in csCur /\ s # n /\ s \in Shells /\ csCache' = csCache
          BY <1>1, <3>1 DEF API!Write
      <4>2. Agrees(s, csCache[s])
          BY <4>1 DEF VersionsAgree
      <4> QED
          BY <1>1, <1>4, <4>1, <4>2, AgreesKept
    <3> QED
        BY <3>1
  <2>2. csPtr'.cur => csPtr'.name \in Shells /\ Agrees(csPtr.name, csPtr.obj)'
    <3>1. ASSUME csPtr'.cur PROVE csPtr'.name \in Shells /\ Agrees(csPtr.name, csPtr.obj)'
      <4>1. csPtr.name \in Shells /\ csPtr.name # n /\ Agrees(csPtr.name, csPtr.obj)
          BY <1>2, <3>1 DEF VersionsAgree
      <4> QED
          BY <1>1, <1>2, <1>4, <4>1, AgreesKept
    <3> QED
        BY <3>1
  <2>3. \A s \in Shells : csWatch'[s] # <<>> => csWatch'[s][Len(csWatch'[s])] = cs'[s]
      BY <1>1, GrowsAtEnd DEF VersionsAgree, API!Write
  <2>4. csPtr'.alias => csPtr'.name \in Shells /\ csPtr'.obj = csCache'[csPtr'.name]
      BY <1>2 DEF VersionsAgree, API!Write
  <2> QED
      BY <2>1, <2>2, <2>3, <2>4 DEF VersionsAgree
<1>6. CacheUntouched'
    BY <1>1, <1>2, <1>4 DEF CacheUntouched, API!Write
<1>7. DeletingGuarded'
    BY <1>1, <1>4 DEF DeletingGuarded, API!Write
<1>8. GuardStep
    BY <1>1, <1>4 DEF GuardStep, API!Write
<1> QED
    BY <1>2, <1>3, <1>5, <1>6, <1>7, <1>8

\* The goroutine's own changes to the object leave phase and spec alone, and the
\* worker too unless the object is not being deleted or the worker has been given
\* back.
Edits(o, rec) ==
    /\ rec.phase = o.phase /\ rec.spec = o.spec
    /\ rec.pod = o.pod \/ o.phase = "live"

\* The worker the object names is no longer in use for the cloudshell.
GivenBack(n, o) == \A w \in Workers : o.pod = w => Loose(n, w)'

\* The object is changed in place and the server keeps what it has.
LEMMA MutateInv ==
    ASSUME StoreInv, NEW n \in Shells, csPtr.name = n, NEW rec \in ShellRec, API!Mutate(rec), LooseKept,
           \/ Edits(csPtr.obj, rec)
           \/ /\ rec.phase = csPtr.obj.phase /\ rec.spec = csPtr.obj.spec /\ rec.pod = None
              /\ GivenBack(n, csPtr.obj)
    PROVE  StoreInv' /\ GuardStep /\ cs' = cs /\ csPtr'.name = n /\ csPtr'.obj = rec
<1> USE DEF StoreInv
<1>1. cs \in [Shells -> ShellRec] /\ csCache \in [Shells -> ShellRec] /\ csCur \subseteq Shells
      /\ csPtr \in API!PtrRec /\ csPtr.obj \in ShellRec
    BY DEF API!StoreTypeOK, API!PtrRec
<1>2. /\ csPtr' \in API!PtrRec /\ csPtr'.name = n /\ csPtr'.obj = rec
      /\ csPtr'.alias = csPtr.alias /\ csPtr'.cur = csPtr.cur
      /\ UNCHANGED <<cs, csWatch, csCur>>
      /\ csCache' = IF csPtr.alias THEN [csCache EXCEPT ![n] = rec] ELSE csCache
    BY <1>1 DEF API!Mutate, API!InPlace, API!PtrRec
<1>3. API!StoreTypeOK'
    BY <1>1, <1>2 DEF API!StoreTypeOK
<1>4. \A s \in Shells : \A o : Agrees(s, o) => Agrees(s, o)'
    BY <1>1, <1>2, AgreesKept
<1>5. ASSUME Agrees(n, csPtr.obj) PROVE Agrees(n, rec)'
  <2>1. cs'[n] = cs[n] /\ cs[n] \in ShellRec
      BY <1>1, <1>2
  <2>2. PICK v \in Workers \cup {None} : v = cs[n].pod
      BY <2>1 DEF ShellRec
  <2>3. v # None /\ Loose(n, v) => Loose(n, v)'
      BY DEF LooseKept
  <2>4. Agrees(n, rec)' <=>
          (cs[n].phase # "absent" =>
            /\ rec.phase = cs[n].phase /\ rec.spec = cs[n].spec
            /\ rec.phase = "deleting" => rec.pod = v \/ (rec.pod = None /\ (v # None => Loose(n, v)')))
      BY <2>1, <2>2 DEF Agrees
  <2>5. CASE Edits(csPtr.obj, rec)
      BY <1>5, <2>2, <2>3, <2>4, <2>5 DEF Agrees, Edits
  <2>6. CASE /\ rec.phase = csPtr.obj.phase /\ rec.spec = csPtr.obj.spec /\ rec.pod = None
             /\ GivenBack(n, csPtr.obj)
      BY <1>5, <2>2, <2>3, <2>4, <2>6 DEF Agrees, GivenBack
  <2> QED
      BY <2>5, <2>6
<1>6. VersionsAgree'
  <2>1. ASSUME NEW s \in csCur' PROVE Agrees(s, csCache[s])'
    <3>1. s \in csCur /\ s \in Shells /\ Agrees(s, csCache[s])
        BY <1>1, <1>2, <2>1 DEF VersionsAgree
    <3>2. CASE csPtr.alias /\ s = n
        BY <1>1, <1>2, <1>5, <3>1, <3>2 DEF VersionsAgree
    <3>3. CASE ~(csPtr.alias /\ s = n)
      <4>1. csCache'[s] = csCache[s]
          BY <1>1, <1>2, <3>3
      <4> QED
          BY <1>4, <3>1, <4>1
    <3> QED
        BY <3>2, <3>3
  <2>2. csPtr'.cur => csPtr'.name \in Shells /\ Agrees(csPtr.name, csPtr.obj)'
      BY <1>2, <1>5 DEF VersionsAgree
  <2> QED
      BY <1>1, <1>2, <2>1, <2>2 DEF VersionsAgree
<1>7. CacheUntouched'
    BY <1>1, <1>2 DEF CacheUntouched, VersionsAgree, Edits
<1>8. DeletingGuarded' /\ GuardStep
    BY <1>2 DEF DeletingGuarded, GuardStep
<1> QED
    BY <1>2, <1>3, <1>6, <1>7, <1>8

\* The server accepts an Update of the object, whether or not its answer arrives:
\* the object was the server's of that moment.
LEMMA UpdateInv ==
    ASSUME StoreInv, NEW n \in Shells, csPtr.name = n, NEW rec \in ShellRec, NEW sent \in ShellRec,
           API!UpdateOK(sent, Final(sent)) \/ API!UpdateLost(rec, Final(sent)), LooseKept
    PROVE  /\ StoreInv' /\ csPtr'.name = n
           /\ csPtr'.obj = sent \/ csPtr'.obj = rec
           /\ cs' = [cs EXCEPT ![n] = Final(sent)] /\ cs[n].phase # "absent" /\ Agrees(n, csPtr.obj)
<1> USE DEF StoreInv
<1>1. cs \in [Shells -> ShellRec] /\ csCache \in [Shells -> ShellRec] /\ csCur \subseteq Shells
      /\ csPtr \in API!PtrRec /\ csWatch \in [Shells -> Seq(ShellRec)]
    BY DEF API!StoreTypeOK
<1>2. Final(sent) \in ShellRec /\ (Final(sent).phase = "deleting" => Final(sent).fin)
      /\ (Final(sent).phase # "absent" => Final(sent) = sent)
    BY DEF Final, NoShell, ShellRec
<1>3. PICK o \in ShellRec :
      /\ csPtr' \in API!PtrRec /\ csPtr'.name = n /\ csPtr'.obj = o
      /\ csPtr'.alias = csPtr.alias /\ (csPtr'.cur => csPtr'.obj = sent)
      /\ csCache' = IF csPtr.alias THEN [csCache EXCEPT ![n] = o] ELSE csCache
      /\ csCur' \subseteq csCur \cup {n} /\ (n \in csCur' => csPtr.alias /\ o = sent)
      /\ o = sent \/ o = rec
  <2>1. CASE API!UpdateOK(sent, Final(sent))
      BY <1>1, <2>1 DEF API!UpdateOK, API!InPlace, API!PtrRec
  <2>2. CASE API!UpdateLost(rec, Final(sent))
      BY <1>1, <2>2 DEF API!UpdateLost, API!InPlace, API!PtrRec
  <2> QED
      BY <2>1, <2>2
<1>4. /\ cs' = [cs EXCEPT ![n] = Final(sent)]
      /\ csWatch' = [csWatch EXCEPT ![n] = Append(@, Final(sent))]
      /\ csPtr.cur /\ cs[n].phase # "absent"
    BY DEF API!UpdateOK, API!UpdateLost, API!Accepts
<1>5. API!StoreTypeOK'
    BY <1>1, <1>2, <1>3, <1>4 DEF API!StoreTypeOK
<1>6. Agrees(n, sent)'
    BY <1>1, <1>2, <1>4 DEF Agrees
<1>7. VersionsAgree'
  <2>1. ASSUME NEW s \in csCur' PROVE Agrees(s, csCache[s])'
    <3>1. CASE s = n
        BY <1>1, <1>3, <1>6, <2>1, <3>1
    <3>2. CASE s # n
      <4>1. s \in csCur /\ s \in Shells /\ csCache'[s] = csCache[s] /\ cs'[s] = cs[s]
          BY <1>1, <1>3, <1>4, <2>1, <3>2
      <4>2. Agrees(s, csCache[s])
          BY <4>1 DEF VersionsAgree
      <4> QED
          BY <1>1, <4>1, <4>2, AgreesKept
    <3> QED
        BY <3>1, <3>2
  <2>2. csPtr'.cur => csPtr'.name \in Shells /\ Agrees(csPtr.name, csPtr.obj)'
      BY <1>3, <1>6
  <2>3. \A s \in Shells : csWatch'[s] # <<>> => csWatch'[s][Len(csWatch'[s])] = cs'[s]
      BY <1>1, <1>2, <1>4, GrowsAtEnd DEF VersionsAgree
  <2>4. csPtr'.alias => csPtr'.name \in Shells /\ csPtr'.obj = csCache'[csPtr'.name]
      BY <1>1, <1>3
  <2> QED
      BY <2>1, <2>2, <2>3, <2>4 DEF VersionsAgree
<1>8. CacheUntouched'
    BY <1>1, <1>3 DEF CacheUntouched
<1>9. DeletingGuarded'
    BY <1>1, <1>2, <1>4 DEF DeletingGuarded
<1>10. Agrees(n, csPtr.obj)
    BY <1>4 DEF VersionsAgree
<1> QED
    BY <1>3, <1>4, <1>5, <1>7, <1>8, <1>9, <1>10

\* The lister hands out the cached object.
LEMMA HoldInv ==
    ASSUME StoreInv, NEW n \in Shells, API!Hold(n), LooseKept
    PROVE  StoreInv' /\ GuardStep /\ csPtr'.name = n /\ csPtr'.obj = csCache[n]
<1> USE DEF StoreInv
<1>1. cs \in [Shells -> ShellRec] /\ csCache \in [Shells -> ShellRec] /\ csCur \subseteq Shells
    BY DEF API!StoreTypeOK
<1>2. /\ UNCHANGED <<cs, csWatch, csCache, csCur>>
      /\ csPtr'.name = n /\ csPtr'.obj = csCache[n] /\ csPtr'.cur = (n \in csCur)
    BY DEF API!Hold
<1>3. csPtr' \in API!PtrRec
  <2>1. (n \in csCur) \in BOOLEAN
      OBVIOUS
  <2> QED
      BY <1>1, <2>1 DEF API!Hold, API!PtrRec
<1>4. API!StoreTypeOK'
    BY <1>2, <1>3 DEF API!StoreTypeOK
<1>5. \A s \in csCur : Agrees(s, csCache[s])'
    BY <1>1, <1>2, AgreesKept DEF VersionsAgree
<1>6. VersionsAgree'
    BY <1>1, <1>2, <1>5 DEF VersionsAgree
<1>7. CacheUntouched' /\ DeletingGuarded' /\ GuardStep
    BY <1>1, <1>2 DEF CacheUntouched, DeletingGuarded, GuardStep
<1> QED
    BY <1>2, <1>4, <1>6, <1>7

\* The informer catches up by one version.
LEMMA DeliverInv ==
    ASSUME StoreInv, NEW n \in Shells, API!Deliver(n), LooseKept
    PROVE  StoreInv' /\ GuardStep /\ csPtr'.name = csPtr.name /\ csPtr'.obj = csPtr.obj
<1> USE DEF StoreInv
<1>1. /\ cs \in [Shells -> ShellRec] /\ csCache \in [Shells -> ShellRec] /\ csCur \subseteq Shells
      /\ csPtr \in API!PtrRec /\ csWatch \in [Shells -> Seq(ShellRec)] /\ csWatch[n] # <<>>
    BY DEF API!StoreTypeOK, API!Deliver
<1>2. /\ Head(csWatch[n]) \in ShellRec /\ Tail(csWatch[n]) \in Seq(ShellRec)
      /\ Len(csWatch[n]) = 1 => csWatch[n][Len(csWatch[n])] = Head(csWatch[n])
      /\ Tail(csWatch[n]) # <<>> => Tail(csWatch[n])[Len(Tail(csWatch[n]))] = csWatch[n][Len(csWatch[n])]
    BY <1>1, ShrinksAtFront
<1>3. /\ csPtr' \in API!PtrRec /\ csPtr'.name = csPtr.name /\ csPtr'.obj = csPtr.obj
      /\ csPtr'.cur = csPtr.cur /\ (csPtr'.alias => csPtr.alias /\ csPtr.name # n)
      /\ cs' = cs /\ csCache' = [csCache EXCEPT ![n] = Head(csWatch[n])]
      /\ csWatch' = [csWatch EXCEPT ![n] = Tail(csWatch[n])]
      /\ csCur' \subseteq csCur \cup {n} /\ (n \in csCur' => Len(csWatch[n]) = 1)
    BY <1>1 DEF API!Deliver, API!PtrRec
<1>4. API!StoreTypeOK'
    BY <1>1, <1>2, <1>3 DEF API!StoreTypeOK
<1>5. n \in csCur' => csCache'[n] = cs[n]
    BY <1>1, <1>2, <1>3 DEF VersionsAgree
<1>6. \A s \in Shells : \A o : Agrees(s, o) => Agrees(s, o)'
    BY <1>1, <1>3, AgreesKept
<1>7. VersionsAgree'
  <2>1. ASSUME NEW s \in csCur' PROVE Agrees(s, csCache[s])'
    <3>1. CASE s = n
        BY <1>1, <1>3, <1>5, <2>1, <3>1 DEF Agrees
    <3>2. CASE s # n
      <4>1. s \in Shells /\ csCache'[s] = csCache[s] /\ Agrees(s, csCache[s])
          BY <1>1, <1>3, <2>1, <3>2 DEF VersionsAgree
      <4> QED
          BY <1>6, <4>1
    <3> QED
        BY <3>1, <3>2
  <2>2. csPtr'.cur => csPtr'.name \in Shells /\ Agrees(csPtr.name, csPtr.obj)'
    <3>1. csPtr.cur => csPtr.name \in Shells /\ Agrees(csPtr.name, csPtr.obj)
        BY DEF VersionsAgree
    <3> QED
        BY <1>3, <1>6, <3>1
  <2>3. \A s \in Shells : csWatch'[s] # <<>> => csWatch'[s][Len(csWatch'[s])] = cs'[s]
      BY <1>1, <1>2, <1>3 DEF VersionsAgree
  <2>4. csPtr'.alias => csPtr'.name \in Shells /\ csPtr'.obj = csCache'[csPtr'.name]
      BY <1>1, <1>3 DEF VersionsAgree
  <2> QED
      BY <2>1, <2>2, <2>3, <2>4 DEF VersionsAgree
<1>8. CacheUntouched'
    BY <1>1, <1>3, <1>5 DEF CacheUntouched
<1>9. DeletingGuarded' /\ GuardStep
    BY <1>3 DEF DeletingGuarded, GuardStep
<1> QED
    BY <1>3, <1>4, <1>7, <1>8, <1>9

\* The goroutine lets go of the object.
LEMMA DropInv ==
    ASSUME StoreInv, csPtr' = API!NoPtr, UNCHANGED <<cs, csWatch, csCache, csCur>>, LooseKept
    PROVE  StoreInv' /\ GuardStep
<1> USE DEF StoreInv
<1>1. cs \in [Shells -> ShellRec] /\ csCur \subseteq Shells
    BY DEF API!StoreTypeOK
<1>2. csPtr' \in API!PtrRec /\ ~csPtr'.cur /\ ~csPtr'.alias /\ csPtr'.obj.phase = "absent"
    BY DEF API!NoPtr, API!PtrRec, NoShell, ShellRec
<1>3. API!StoreTypeOK' /\ CacheUntouched' /\ DeletingGuarded' /\ GuardStep
    BY <1>2 DEF API!StoreTypeOK, CacheUntouched, DeletingGuarded, GuardStep
<1>4. \A s \in csCur : Agrees(s, csCache[s])'
    BY <1>1, AgreesKept DEF VersionsAgree
<1> QED
    BY <1>2, <1>3, <1>4 DEF VersionsAgree

\* A new process starts from what the server has.
LEMMA RelistInv ==
    ASSUME StoreInv, API!Relist
    PROVE  StoreInv' /\ GuardStep
<1> USE DEF StoreInv, API!Relist
<1>1. csPtr' \in API!PtrRec /\ ~csPtr'.cur /\ ~csPtr'.alias /\ csPtr'.obj.phase = "absent"
    BY DEF API!NoPtr, API!PtrRec, NoShell, ShellRec
<1>2. API!StoreTypeOK' /\ CacheUntouched' /\ DeletingGuarded' /\ GuardStep
    BY <1>1 DEF API!StoreTypeOK, CacheUntouched, DeletingGuarded, GuardStep
<1>3. VersionsAgree'
    BY <1>1 DEF VersionsAgree, Agrees
<1> QED
    BY <1>2, <1>3

(***************************************************************************)
(* The worker pool, and the bounds.                                        *)
(***************************************************************************)
LEMMA BudgetKept ==
    ASSUME TypeOK, NoFault \/ \E kind \in Kinds : Disturb(kind)
    PROVE  created' \in 0 .. MaxShells /\ trouble' \in 0 .. MaxTrouble
BY ControllerAssumption DEF TypeOK, NoFault, Disturb, budget, ControllerAssumption

LEMMA FaultKept ==
    ASSUME TypeOK, Fault
    PROVE  created' \in 0 .. MaxShells /\ trouble' \in 0 .. MaxTrouble
BY BudgetKept DEF Fault, Disturb

\* What a write to a worker leaves true.
SeenSame(v) == view'[v].phase = view[v].phase /\ view'[v].ready = view[v].ready

LEMMA PodWriteKept ==
    ASSUME TypeOK, OwnedKnown, NEW w \in Workers, NEW rec \in WorkerRec, PodWrite(w, rec),
           rec.owner # None /\ rec.phase # "absent" => view[w].phase # "absent",
           \A v \in Workers : SeenSame(v)
    PROVE  /\ pods' \in [Workers -> WorkerRec] /\ podNews' \subseteq Workers /\ OwnedKnown'
           /\ pods'[w] = rec /\ \A v \in Workers \ {w} : pods'[v] = pods[v]
<1>1. pods \in [Workers -> WorkerRec] /\ podNews \subseteq Workers
    BY DEF TypeOK
<1>2. /\ pods' \in [Workers -> WorkerRec] /\ podNews' \subseteq Workers /\ podNews \subseteq podNews'
      /\ pods'[w] = rec /\ \A v \in Workers \ {w} : pods'[v] = pods[v]
      /\ w \notin podNews' => pods'[w] = pods[w]
    BY <1>1 DEF PodWrite
<1> QED
    BY <1>2 DEF OwnedKnown, SeenSame

\* Back takes a worker from everybody, or fails; nobody gets one by it.
LEMMA PoolBackKept ==
    ASSUME TypeOK, OwnedKnown, NEW w \in Workers, NEW result \in {"ok", "error"}, PoolBack(w, result)
    PROVE  /\ pods' \in [Workers -> WorkerRec] /\ view' \in [Workers -> WorkerRec] /\ podNews' \subseteq Workers
           /\ OwnedKnown' /\ LooseKept
           /\ created' \in 0 .. MaxShells /\ trouble' \in 0 .. MaxTrouble
           /\ result = "ok" => \A s \in Shells : Loose(s, w)'
<1>1. pods \in [Workers -> WorkerRec] /\ view \in [Workers -> WorkerRec] /\ None \notin Shells
    BY ControllerAssumption DEF TypeOK, ControllerAssumption
<1>2. created' \in 0 .. MaxShells /\ trouble' \in 0 .. MaxTrouble
    BY BudgetKept, FaultKept DEF PoolBack, Answered, Refused, Lost
<1>3. view' \in [Workers -> WorkerRec] /\ \A v \in Workers : SeenSame(v)
  <2>1. view' = view \/ view' = [view EXCEPT ![w].owner = None]
      BY DEF PoolBack
  <2>2. CASE view' = view
      BY <1>1, <2>2 DEF SeenSame
  <2>3. CASE view' = [view EXCEPT ![w].owner = None]
    <3>1. view[w] \in WorkerRec /\ [view[w] EXCEPT !.owner = None] \in WorkerRec
        BY <1>1 DEF WorkerRec
    <3>2. /\ [view[w] EXCEPT !.owner = None].phase = view[w].phase
          /\ [view[w] EXCEPT !.owner = None].ready = view[w].ready
        BY <3>1 DEF WorkerRec
    <3> QED
        BY <1>1, <2>3, <3>1, <3>2 DEF SeenSame
  <2> QED
      BY <2>1, <2>2, <2>3
<1>4. CASE PodKept /\ (view[w].phase = "absent" \/ result = "error")
  <2>1. \A s \in Shells : result = "ok" => Loose(s, w)
      BY <1>1, <1>4 DEF OwnedKnown, Loose
  <2> QED
      BY <1>1, <1>2, <1>3, <1>4, <2>1 DEF OwnedKnown, SeenSame, LooseKept, Loose, PodKept, TypeOK
<1>5. ASSUME NEW rec \in WorkerRec, PodWrite(w, rec), view[w].phase # "absent" \/ rec.owner = None,
             rec.phase = "deleting" \/ rec.owner = None
      PROVE  /\ pods' \in [Workers -> WorkerRec] /\ podNews' \subseteq Workers
             /\ OwnedKnown' /\ LooseKept /\ \A s \in Shells : Loose(s, w)'
  <2>1. /\ pods' \in [Workers -> WorkerRec] /\ podNews' \subseteq Workers /\ OwnedKnown'
        /\ pods'[w] = rec /\ \A v \in Workers \ {w} : pods'[v] = pods[v]
      BY <1>3, <1>5, PodWriteKept
  <2> QED
      BY <1>1, <1>5, <2>1 DEF LooseKept, Loose
<1> DEFINE gone == [pods[w] EXCEPT !.phase = "deleting"]
           free == [pods[w] EXCEPT !.owner = None]
<1>6. gone \in WorkerRec /\ gone.phase = "deleting" /\ free \in WorkerRec /\ free.owner = None
    BY <1>1 DEF WorkerRec
<1>7. \/ PodKept /\ (view[w].phase = "absent" \/ result = "error")
      \/ view[w].phase # "absent" /\ (PodWrite(w, gone) \/ PodWrite(w, free))
    BY DEF PoolBack, Refused, Lost
<1> HIDE DEF gone, free
<1> QED
    BY <1>2, <1>3, <1>4, <1>5, <1>6, <1>7

(***************************************************************************)
(* The steps of everybody but the goroutine.                               *)
(***************************************************************************)
\* They leave the goroutine where it is.
LEMMA OthersStay ==
    ASSUME IInv, UNCHANGED job, csPtr'.name = csPtr.name, csPtr'.obj = csPtr.obj,
           routes' \subseteq routes, LooseKept
    PROVE  PcInv'
<1>1. csPtr.obj \in ShellRec
    BY DEF IInv, StoreInv, API!StoreTypeOK, API!PtrRec
<1>2. PICK v : v = csPtr.obj.pod
    OBVIOUS
<1>3. job.pc \in {"unroute", "unfin"} /\ v # None => Loose(me, v)'
  <2>1. ASSUME job.pc \in {"unroute", "unfin"}, v # None PROVE Loose(me, v)'
    <3>1. me \in Shells /\ v \in Workers /\ Loose(me, v)
        BY <1>1, <1>2, <2>1 DEF IInv, PcInv, me, obj, ShellRec
    <3> QED
        BY <3>1 DEF LooseKept, me
  <2> QED
      BY <2>1
<1>4. job.pc \in {"unroute", "unfin"} /\ obj'.pod # None => Loose(me, obj.pod)'
    BY <1>2, <1>3 DEF obj
<1> QED
    BY <1>4 DEF IInv, PcInv, me, obj, At

\* Nothing happens to workers.
LEMMA PodsSame ==
    ASSUME UNCHANGED pods
    PROVE  LooseKept
BY DEF LooseKept, Loose

\* The steps that write to a cloudshell: users create, delete and edit it.
LEMMA UserSteps ==
    ASSUME IInv, NEW s \in Shells,
           DeleteShell(s) \/ \E sp \in Specs : CreateShell(s, sp) \/ EditShell(s, sp)
    PROVE  IInv' /\ GuardStep
<1> USE DEF IInv
<1>0. cs[s] \in ShellRec /\ (cs[s].phase = "deleting" => cs[s].fin)
    BY DEF StoreInv, API!StoreTypeOK, DeletingGuarded
<1>1. PICK r \in ShellRec : /\ API!Write(s, r) /\ (r.phase = "deleting" => r.fin)
                            /\ cs[s].phase # "deleting"
  <2>1. CASE DeleteShell(s)
    <3>1. Marked(s) \in ShellRec /\ (Marked(s).phase = "deleting" => Marked(s).fin)
        BY <1>0 DEF Marked, Final, NoShell, ShellRec
    <3> QED
        BY <2>1, <3>1 DEF DeleteShell
  <2>2. ASSUME NEW sp \in Specs, CreateShell(s, sp) \/ EditShell(s, sp)
        PROVE  \E r \in ShellRec : /\ API!Write(s, r) /\ (r.phase = "deleting" => r.fin)
                                   /\ cs[s].phase # "deleting"
    <3> DEFINE r1 == [NoShell EXCEPT !.phase = "live", !.spec = sp]
               r2 == [cs[s] EXCEPT !.spec = sp]
    <3>1. r1 \in ShellRec /\ r1.phase = "live" /\ r2 \in ShellRec /\ r2.phase = cs[s].phase
        BY <1>0 DEF NoShell, ShellRec
    <3> QED
        BY <2>2, <3>1 DEF CreateShell, EditShell
  <2> QED
      BY <2>1, <2>2
<1>2. UNCHANGED <<csQ, backoff, timers, workers, routes, job>> /\ elapsed' \subseteq elapsed
    BY DEF DeleteShell, CreateShell, EditShell, clock
<1>3. created' \in 0 .. MaxShells /\ trouble' \in 0 .. MaxTrouble
  <2>1. CASE DeleteShell(s)
      BY <2>1, BudgetKept DEF DeleteShell, NoFault
  <2>2. ASSUME NEW sp \in Specs, EditShell(s, sp)
        PROVE  created' \in 0 .. MaxShells /\ trouble' \in 0 .. MaxTrouble
      BY <2>2, BudgetKept DEF EditShell, Disturb
  <2>3. ASSUME NEW sp \in Specs, CreateShell(s, sp)
        PROVE  created' \in 0 .. MaxShells /\ trouble' \in 0 .. MaxTrouble
    <3>1. created \in 0 .. MaxShells /\ trouble \in 0 .. MaxTrouble /\ MaxShells \in Nat
        BY ControllerAssumption DEF TypeOK, ControllerAssumption
    <3>2. created' = created + 1 /\ created < MaxShells /\ trouble' = trouble
        BY <2>3 DEF CreateShell
    <3> QED
        BY ONLY <3>1, <3>2
  <2> QED
      BY <2>1, <2>2, <2>3
<1>4. LooseKept
    BY <1>2, PodsSame DEF workers
<1>5. StoreInv' /\ GuardStep /\ csPtr'.name = csPtr.name /\ csPtr'.obj = csPtr.obj
    BY <1>1, <1>4, WriteInv
<1>6. TypeOK'
    BY <1>2, <1>3, <1>5 DEF TypeOK, StoreInv, workers
<1>7. OwnedKnown' /\ PcInv'
    BY <1>2, <1>4, <1>5, OthersStay DEF OwnedKnown, workers
<1> QED
    BY <1>5, <1>6, <1>7

\* The informer of the cloudshells.
LEMMA ShellEventInv ==
    ASSUME IInv, NEW s \in Shells, ShellEvent(s)
    PROVE  IInv' /\ GuardStep
<1> USE DEF IInv, ShellEvent
<1>1. LooseKept
    BY PodsSame DEF workers
<1>2. StoreInv' /\ GuardStep /\ csPtr'.name = csPtr.name /\ csPtr'.obj = csPtr.obj
    BY <1>1, DeliverInv
<1>3. TypeOK'
    BY <1>2 DEF TypeOK, StoreInv, clock, workers, budget
<1>4. OwnedKnown' /\ PcInv'
    BY <1>1, <1>2, OthersStay DEF OwnedKnown, workers
<1> QED
    BY <1>2, <1>3, <1>4

\* The pool's wake-up calls, timers and the garbage collector.
LEMMA TimeSteps ==
    ASSUME IInv, NEW s \in Shells,
           PoolWakes(s) \/ Elapse(s) \/ Retry(s) \/ TimerFires(s) \/ Collect(s)
    PROVE  IInv' /\ GuardStep
<1> USE DEF IInv
<1>1. UNCHANGED <<csStore, pods, podNews, view, session, job>> /\ routes' \subseteq routes
    BY DEF PoolWakes, Elapse, Retry, TimerFires, Collect, workers
<1>2. LooseKept
    BY <1>1, PodsSame
<1>3. StoreInv' /\ GuardStep
    BY <1>1, <1>2, StoreSame
<1>4. created' \in 0 .. MaxShells /\ trouble' \in 0 .. MaxTrouble
  <2>1. NoFault \/ \E kind \in Kinds : Disturb(kind)
      BY DEF PoolWakes, Elapse, Retry, TimerFires, Collect, CaughtUp, NoFault, budget, Disturb
  <2> QED
      BY <2>1, BudgetKept
<1>5. csQ' \subseteq Shells /\ backoff' \subseteq Shells /\ timers' \subseteq Shells
      /\ elapsed' \subseteq Shells /\ waiting' \subseteq Shells
    BY DEF TypeOK, PoolWakes, Elapse, Retry, TimerFires, Collect, clock, workers
<1>6. TypeOK'
    BY <1>1, <1>3, <1>4, <1>5 DEF TypeOK, StoreInv
<1>7. OwnedKnown' /\ PcInv'
    BY <1>1, <1>2, OthersStay DEF OwnedKnown, csStore
<1> QED
    BY <1>3, <1>6, <1>7

\* Workers come up, break, are evicted and go; the informer of the workers.
LEMMA WorkerSteps ==
    ASSUME IInv, NEW w \in Workers,
           \/ PodEvent(w) \/ PoolCreates(w) \/ WorkerReady(w) \/ WorkerUnready(w)
           \/ WorkerEvicted(w) \/ WorkerGone(w)
    PROVE  IInv' /\ GuardStep
<1> USE DEF IInv
<1>0. pods \in [Workers -> WorkerRec] /\ view \in [Workers -> WorkerRec]
      /\ session \in [Workers -> Shells \cup {None}] /\ None \notin Shells
    BY ControllerAssumption DEF TypeOK, ControllerAssumption
<1>1. UNCHANGED <<csStore, backoff, timers, elapsed, waiting, routes, job>>
    BY DEF PodEvent, PoolCreates, WorkerReady, WorkerUnready, WorkerEvicted, WorkerGone, clock
<1>2. /\ pods' \in [Workers -> WorkerRec] /\ view' \in [Workers -> WorkerRec] /\ podNews' \subseteq Workers
      /\ LooseKept /\ OwnedKnown'
  <2>1. CASE PodEvent(w)
      BY <1>0, <2>1 DEF PodEvent, LooseKept, Loose, OwnedKnown, TypeOK
  <2>2. CASE ~PodEvent(w)
    <3> DEFINE Next1(rec) ==
            /\ PodWrite(w, rec) /\ UNCHANGED view
            /\ \/ rec.phase = "absent" \/ rec.owner = None
               \/ rec.owner = pods[w].owner /\ pods[w].phase # "absent"
            /\ rec.phase = "live" => rec.owner = None \/ (pods[w].phase = "live" /\ rec.owner = pods[w].owner)
    <3>1. PICK rec \in WorkerRec : Next1(rec)
      <4>1. CASE PoolCreates(w)
        <5> DEFINE rec == [phase |-> "live", owner |-> None, ready |-> FALSE]
        <5>1. rec \in WorkerRec /\ Next1(rec)
            BY <4>1 DEF PoolCreates, WorkerRec
        <5> QED
            BY <5>1
      <4>2. ASSUME NEW b \in BOOLEAN, pods[w].phase = "live", UNCHANGED view,
                   PodWrite(w, [pods[w] EXCEPT !.ready = b])
            PROVE  \E rec \in WorkerRec : Next1(rec)
        <5> DEFINE rec == [pods[w] EXCEPT !.ready = b]
        <5>1. rec \in WorkerRec /\ Next1(rec)
            BY <1>0, <4>2 DEF WorkerRec
        <5> QED
            BY <5>1
      <4>3. CASE WorkerReady(w) \/ WorkerUnready(w)
          BY <4>2, <4>3 DEF WorkerReady, WorkerUnready
      <4>4. CASE WorkerEvicted(w)
        <5> DEFINE rec == [pods[w] EXCEPT !.phase = "deleting"]
        <5>1. rec \in WorkerRec /\ Next1(rec)
            BY <1>0, <4>4 DEF WorkerEvicted, WorkerRec
        <5> QED
            BY <5>1
      <4>5. CASE WorkerGone(w)
        <5> DEFINE rec == [NoWorker EXCEPT !.owner = pods[w].owner]
        <5>1. rec \in WorkerRec /\ Next1(rec)
            BY <1>0, <4>5 DEF WorkerGone, NoWorker, WorkerRec
        <5> QED
            BY <5>1
      <4> QED
          BY <2>2, <4>1, <4>3, <4>4, <4>5
    <3>2. Next1(rec)
        BY <3>1
    <3>3. rec.owner # None /\ rec.phase # "absent" => view[w].phase # "absent"
        BY <3>2 DEF OwnedKnown
    <3>4. /\ pods' \in [Workers -> WorkerRec] /\ podNews' \subseteq Workers /\ OwnedKnown'
          /\ pods'[w] = rec /\ \A v \in Workers \ {w} : pods'[v] = pods[v]
        BY <3>1, <3>2, <3>3, PodWriteKept DEF SeenSame
    <3>5. LooseKept
        BY <1>0, <3>2, <3>4 DEF LooseKept, Loose
    <3> QED
        BY <1>0, <3>1, <3>4, <3>5
  <2> QED
      BY <2>1, <2>2
<1>3. StoreInv' /\ GuardStep
    BY <1>1, <1>2, StoreSame
<1>4. created' \in 0 .. MaxShells /\ trouble' \in 0 .. MaxTrouble
  <2>1. NoFault \/ \E kind \in Kinds : Disturb(kind)
    <3>1. Disturb("unready") \/ Disturb("evict") \/ NoFault
        BY DEF PodEvent, PoolCreates, WorkerReady, WorkerUnready, WorkerEvicted, WorkerGone, NoFault
    <3> QED
        BY <3>1 DEF Disturb
  <2> QED
      BY <2>1, BudgetKept
<1>5. session' \in [Workers -> Shells \cup {None}]
    BY <1>0 DEF PodEvent, PoolCreates, WorkerReady, WorkerUnready, WorkerEvicted, WorkerGone
<1>6. csQ' \subseteq Shells
    BY <1>0 DEF PodEvent, PoolCreates, WorkerReady, WorkerUnready, WorkerEvicted, WorkerGone, TypeOK,
                WorkerRec
<1>7. TypeOK'
    BY <1>1, <1>2, <1>3, <1>4, <1>5, <1>6 DEF TypeOK, StoreInv
<1>8. PcInv'
    BY <1>1, <1>2, OthersStay DEF csStore
<1> QED
    BY <1>2, <1>3, <1>7, <1>8

\* The process restarts.
LEMMA CrashInv ==
    ASSUME IInv, Crash
    PROVE  IInv' /\ GuardStep
<1> USE DEF IInv, Crash
<1>1. StoreInv' /\ GuardStep
    BY RelistInv
<1>2. pods \in [Workers -> WorkerRec]
    BY DEF TypeOK
<1>3. created' \in 0 .. MaxShells /\ trouble' \in 0 .. MaxTrouble
    BY BudgetKept DEF Disturb
<1>4. csQ' \subseteq Shells
    BY <1>2 DEF WorkerRec
<1>5. TypeOK'
    BY <1>1, <1>2, <1>3, <1>4 DEF TypeOK, StoreInv, JobIdle, JobPCs
<1>6. OwnedKnown' /\ PcInv'
    BY DEF OwnedKnown, PcInv, JobIdle, SyncPCs
<1> QED
    BY <1>1, <1>5, <1>6

(***************************************************************************)
(* The goroutine.                                                          *)
(***************************************************************************)
JobType == [pc : JobPCs, shell : Shells \cup {None}, worker : Workers \cup {None},
            why : {"none", "deleted", "ttl", "later"}]

\* At work, the goroutine holds the object of its cloudshell.
LEMMA AtWork ==
    ASSUME IInv, job.pc # "idle"
    PROVE  /\ me \in Shells /\ csPtr.name = me /\ obj \in ShellRec /\ csPtr.obj = obj
           /\ cs[me] \in ShellRec /\ csCache[me] \in ShellRec /\ job \in JobType /\ None \notin Workers
           /\ \A pc \in JobPCs : [job EXCEPT !.pc = pc] \in JobType
BY ControllerAssumption
   DEF IInv, PcInv, StoreInv, API!StoreTypeOK, API!PtrRec, TypeOK, JobType, me, obj, ControllerAssumption

\* c.Update, accepted, refused, failed or unanswered.  An accepted one makes a
\* cloudshell disappear only when that was asked for and the object agreed with
\* the server.
LEMMA SaveInv ==
    ASSUME IInv, NEW n \in Shells, me = n, job.pc # "idle", NEW rec \in ShellRec, NEW next \in JobPCs,
           Save(rec, next), Edits(obj, rec), LooseKept
    PROVE  /\ StoreInv' /\ csPtr'.name = n
           /\ csPtr'.obj.phase = rec.phase /\ csPtr'.obj.spec = rec.spec /\ csPtr'.obj.pod = rec.pod
           /\ job' = [job EXCEPT !.pc = next] \/ job' = [job EXCEPT !.pc = "error"]
           /\ created' \in 0 .. MaxShells /\ trouble' \in 0 .. MaxTrouble
           /\ GuardStep \/ (/\ Agrees(n, obj) /\ cs[n].phase = "deleting"
                            /\ rec.phase = "deleting" /\ ~rec.fin
                            /\ \A s \in Shells : s # n => cs'[s] = cs[s])
<1> DEFINE sent == [rec EXCEPT !.status = cs[me].status, !.started = cs[me].started]
<1>1. csPtr.name = n /\ csPtr.obj = obj /\ cs[me] \in ShellRec /\ cs \in [Shells -> ShellRec]
    BY AtWork DEF IInv, StoreInv, API!StoreTypeOK
<1>2. /\ sent \in ShellRec /\ sent.phase = rec.phase /\ sent.spec = rec.spec
      /\ sent.pod = rec.pod /\ sent.fin = rec.fin
    BY <1>1 DEF ShellRec
<1> HIDE DEF sent
<1>3. \/ API!UpdateOK(sent, Final(sent)) \/ API!UpdateLost(rec, Final(sent))
      \/ API!Mutate(rec)
    BY DEF Save, sent
<1>4. job' = [job EXCEPT !.pc = next] \/ job' = [job EXCEPT !.pc = "error"]
    BY DEF Save, Goto, Fail
<1>5. created' \in 0 .. MaxShells /\ trouble' \in 0 .. MaxTrouble
    BY BudgetKept, FaultKept DEF Save, IInv
<1>6. CASE API!Mutate(rec)
  <2>1. StoreInv' /\ GuardStep /\ csPtr'.name = n /\ csPtr'.obj = rec
      BY <1>1, <1>6, MutateInv DEF IInv
  <2> QED
      BY <1>4, <1>5, <2>1
<1>7. CASE API!UpdateOK(sent, Final(sent)) \/ API!UpdateLost(rec, Final(sent))
  <2>1. /\ StoreInv' /\ csPtr'.name = n
        /\ csPtr'.obj = sent \/ csPtr'.obj = rec
        /\ cs' = [cs EXCEPT ![n] = Final(sent)] /\ cs[n].phase # "absent" /\ Agrees(n, obj)
      BY <1>1, <1>2, <1>7, UpdateInv DEF IInv
  <2>2. GuardStep \/ (/\ cs[n].phase = "deleting" /\ rec.phase = "deleting" /\ ~rec.fin)
    <3>1. Final(sent).phase = "absent" => rec.phase = "absent" \/ (rec.phase = "deleting" /\ ~rec.fin)
        BY <1>2 DEF Final
    <3>2. rec.phase = cs[n].phase
        BY <2>1 DEF Agrees, Edits
    <3> QED
        BY <1>1, <2>1, <3>1, <3>2 DEF GuardStep
  <2>3. \A s \in Shells : s # n => cs'[s] = cs[s]
      BY <1>1, <2>1
  <2> QED
      BY <1>2, <1>4, <1>5, <2>1, <2>2, <2>3
<1> QED
    BY <1>3, <1>6, <1>7

\* The Updates of a synchronisation send a live object.
LEMMA LiveSave ==
    ASSUME IInv, job.pc \in SyncPCs, NEW rec \in ShellRec, NEW next \in {"check", "borrow", "route", "exec"},
           Save(rec, next), rec.phase = obj.phase, rec.spec = obj.spec,
           next = "route" => job.worker \in Workers,
           UNCHANGED <<csQ, clock, workers, routes>>
    PROVE  IInv' /\ GuardStep
<1>1. PICK n \in Shells : n = me
    BY AtWork DEF SyncPCs
<1>2. job.pc # "idle" /\ obj.phase = "live" /\ job \in JobType /\ next \in JobPCs /\ "error" \in JobPCs
    BY AtWork DEF IInv, PcInv, SyncPCs, JobPCs
<1>3. LooseKept
    BY PodsSame DEF workers
<1>4. /\ StoreInv' /\ csPtr'.name = n /\ csPtr'.obj.phase = "live" /\ GuardStep
      /\ job' = [job EXCEPT !.pc = next] \/ job' = [job EXCEPT !.pc = "error"]
      /\ created' \in 0 .. MaxShells /\ trouble' \in 0 .. MaxTrouble
    BY <1>1, <1>2, <1>3, SaveInv DEF Edits
<1>5. /\ job' \in JobType /\ job'.shell = n /\ job'.worker = job.worker
      /\ job'.pc = next \/ job'.pc = "error"
    BY <1>1, <1>2, <1>4 DEF JobType, me
<1>6. TypeOK'
    BY <1>4, <1>5 DEF IInv, TypeOK, StoreInv, JobType, clock, workers
<1>7. PcInv'
    BY <1>4, <1>5 DEF PcInv, SyncPCs, me, obj
<1>8. OwnedKnown'
    BY DEF IInv, OwnedKnown, workers
<1> QED
    BY <1>4, <1>6, <1>7, <1>8 DEF IInv

LEMMA LiveSaves ==
    ASSUME IInv, \/ (Ensure /\ ~obj.fin) \/ Unlabel \/ Label
                 \/ (Secret /\ Save([obj EXCEPT !.secret = TRUE], "exec"))
    PROVE  IInv' /\ GuardStep
<1>1. job.pc \in SyncPCs /\ job.pc # "idle"
    BY DEF Ensure, Unlabel, Label, Secret, SyncPCs
<1>2. obj \in ShellRec /\ job \in JobType
    BY <1>1, AtWork
<1>3. CASE Ensure /\ ~obj.fin
  <2> DEFINE rec == [obj EXCEPT !.fin = TRUE]
  <2>1. rec \in ShellRec /\ rec.phase = obj.phase /\ rec.spec = obj.spec
      BY <1>2 DEF ShellRec
  <2> QED
      BY <1>1, <1>3, <2>1, LiveSave DEF Ensure
<1>4. CASE Unlabel
    BY <1>1, <1>2, <1>4, LiveSave DEF Unlabel
<1>5. CASE Label
  <2> DEFINE rec == [obj EXCEPT !.pod = job.worker]
  <2>1. job.worker \in Workers
      BY <1>5 DEF Label, IInv, PcInv
  <2>2. rec \in ShellRec /\ rec.phase = obj.phase /\ rec.spec = obj.spec
      BY <1>2, <2>1 DEF ShellRec
  <2> QED
      BY <1>1, <1>5, <2>1, <2>2, LiveSave DEF Label
<1>6. CASE Secret /\ Save([obj EXCEPT !.secret = TRUE], "exec")
  <2> DEFINE rec == [obj EXCEPT !.secret = TRUE]
  <2>1. rec \in ShellRec /\ rec.phase = obj.phase /\ rec.spec = obj.spec
      BY <1>2 DEF ShellRec
  <2> QED
      BY <1>1, <1>6, <2>1, LiveSave DEF Secret
<1> QED
    BY <1>3, <1>4, <1>5, <1>6

\* The goroutine moves and leaves cloudshells and workers alone.
LEMMA QuietMove ==
    ASSUME IInv, UNCHANGED <<csStore, pods, podNews, view, csQ, clock, waiting>>, job' \in JobType,
           session' \in [Workers -> Shells \cup {None}],
           \A r \in routes' : r.at.shell \in Shells /\ r.to \in Workers,
           created' \in 0 .. MaxShells, trouble' \in 0 .. MaxTrouble, PcInv'
    PROVE  IInv' /\ GuardStep
<1>1. LooseKept
    BY PodsSame
<1>2. StoreInv' /\ GuardStep
    BY <1>1, StoreSame DEF IInv
<1>3. TypeOK'
    BY <1>2 DEF IInv, TypeOK, StoreInv, JobType, clock
<1>4. OwnedKnown'
    BY DEF IInv, OwnedKnown
<1> QED
    BY <1>2, <1>3, <1>4 DEF IInv

\* GetBindingWorkerFor returns the worker of the label or none; when it returns
\* none, no worker of the label is in use for the cloudshell.
LEMMA BindingKnown ==
    ASSUME IInv, job.pc # "idle"
    PROVE  /\ BindingWorker \in Workers \cup {None}
           /\ BindingWorker # None => BindingWorker = obj.pod /\ BindingWorker \in Workers
           /\ BindingWorker = None /\ obj.pod # None => Loose(me, obj.pod)
<1>1. obj \in ShellRec /\ me \in Shells /\ None \notin Workers /\ None \notin Shells
    BY AtWork, ControllerAssumption DEF ControllerAssumption
<1>2. obj.pod \in Workers \cup {None}
    BY <1>1 DEF ShellRec
<1>3. ASSUME obj.pod # None, view[obj.pod].phase = "absent" PROVE Loose(me, obj.pod)
    BY <1>1, <1>2, <1>3 DEF IInv, OwnedKnown, Loose
<1> QED
    BY <1>1, <1>2, <1>3 DEF BindingWorker

\* The decisions of a synchronisation: ensureCloudShell that has nothing to do,
\* syncCloudShell up to its first call and removeCloudshell up to its first.
LEMMA DecideInv ==
    ASSUME IInv, (Ensure /\ obj.fin) \/ Check \/ Release
    PROVE  IInv' /\ GuardStep
<1>0. job.pc # "idle"
    BY DEF Ensure, Check, Release
<1>1. /\ me \in Shells /\ csPtr.name = me /\ obj \in ShellRec /\ job \in JobType
      /\ BindingWorker \in Workers \cup {None}
      /\ BindingWorker # None => BindingWorker = obj.pod /\ BindingWorker \in Workers
      /\ BindingWorker = None /\ obj.pod # None => Loose(me, obj.pod)
    BY <1>0, AtWork, BindingKnown
<1>2. UNCHANGED <<csStore, pods, podNews, view, session, csQ, clock, waiting, routes>>
    BY DEF Ensure, Check, Release, workers
<1>3. created' \in 0 .. MaxShells /\ trouble' \in 0 .. MaxTrouble
    BY BudgetKept DEF Ensure, Check, Release, IInv, NoFault
<1>4. csPtr' = csPtr /\ pods' = pods
    BY <1>2 DEF csStore
<1>5. job' \in JobType /\ PcInv'
  <2>1. CASE Ensure /\ obj.fin
    <3>1. job' = [job EXCEPT !.pc = "check"] /\ obj.phase = "live"
        BY <2>1 DEF Ensure, Goto, IInv, PcInv, SyncPCs
    <3> QED
        BY <1>1, <1>4, <3>1 DEF JobType, JobPCs, PcInv, SyncPCs, me, obj
  <2>2. CASE Check
    <3>1. obj.phase = "live"
        BY <2>2 DEF Check, IInv, PcInv, SyncPCs
    <3>2. CASE job' = [job EXCEPT !.pc = "release", !.why = "ttl"]
        BY <1>1, <1>4, <3>2 DEF JobType, JobPCs, PcInv, SyncPCs, me, obj
    <3>3. ASSUME NEW pc \in {"borrow", "route", "reassign"}, NEW why \in {"none", "later"},
                 pc = "borrow" <=> BindingWorker = None,
                 job' = [job EXCEPT !.worker = BindingWorker, !.why = why, !.pc = pc]
          PROVE  job' \in JobType /\ PcInv'
      <4>1. /\ job' \in JobType /\ job'.pc = pc /\ job'.shell = me /\ job'.worker = BindingWorker
          BY <1>1, <3>3 DEF JobType, JobPCs, me
      <4> QED
          BY <1>1, <1>4, <3>1, <3>3, <4>1 DEF PcInv, SyncPCs, me, obj
    <3> QED
        BY <1>1, <2>2, <3>2, <3>3 DEF Check
  <2>3. CASE Release
    <3> DEFINE pc == IF BindingWorker = None THEN "unroute" ELSE "reset"
    <3>1. job' = [job EXCEPT !.worker = BindingWorker, !.pc = pc]
        BY <2>3 DEF Release
    <3>2. job' \in JobType /\ job'.pc = pc /\ job'.shell = me /\ job'.worker = BindingWorker
        BY <1>1, <3>1 DEF JobType, JobPCs, me
    <3>3. pc = "unroute" /\ obj.pod # None => Loose(me, obj.pod)'
        BY <1>1, <1>4, <3>2 DEF Loose, me, obj
    <3> QED
        BY <1>1, <1>4, <3>2, <3>3 DEF PcInv, SyncPCs, me, obj
  <2> QED
      BY <2>1, <2>2, <2>3
<1>6. /\ session' \in [Workers -> Shells \cup {None}]
      /\ \A r \in routes' : r.at.shell \in Shells /\ r.to \in Workers
    BY <1>2 DEF IInv, TypeOK
<1> QED
    BY <1>2, <1>3, <1>5, <1>6, QuietMove

\* What is left to do at the end of a synchronisation asks nothing of the object.
EndPCs == {"status", "complete", "delete", "ok", "later", "error"}
LEMMA Winds ==
    ASSUME job'.pc \in EndPCs, job'.shell \in Shells, csPtr'.name = job'.shell
    PROVE  PcInv'
BY DEF PcInv, EndPCs, SyncPCs

\* The route, the secret and the commands in the worker: the steps of the
\* goroutine outside the stores, and every failure that leaves them alone.
LEMMA OutsideInv ==
    ASSUME IInv, UNCHANGED <<csStore, pods, podNews, view, waiting>>,
           \/ Route \/ Secret \/ Exec \/ Status \/ Reset \/ Unroute \/ DeleteSelf
           \/ (Unfin /\ ~obj.fin)
    PROVE  IInv' /\ GuardStep
<1>0. job.pc # "idle"
    BY DEF Route, Secret, Exec, Status, Reset, Unroute, DeleteSelf, Unfin
<1>1. me \in Shells /\ csPtr.name = me /\ obj \in ShellRec /\ job \in JobType /\ None \notin Workers
      /\ obj.pod \in Workers \cup {None}
    BY <1>0, AtWork DEF ShellRec
<1>2. UNCHANGED <<csQ, clock>>
    BY DEF Route, Secret, Exec, Status, Reset, Unroute, DeleteSelf, Unfin
<1>3. created' \in 0 .. MaxShells /\ trouble' \in 0 .. MaxTrouble
  <2>1. NoFault \/ Fault
      BY DEF Route, Secret, Exec, ExecFails, Status, Reset, Unroute, DeleteSelf, Unfin, Save, Done
  <2> QED
      BY <2>1, BudgetKept, FaultKept DEF IInv
<1>4. csPtr' = csPtr
    BY DEF csStore
<1>5. session' \in [Workers -> Shells \cup {None}]
    BY <1>1 DEF Route, Secret, Exec, Status, Reset, Unroute, DeleteSelf, Unfin, ExecOK, workers,
                IInv, TypeOK
<1>6. \A r \in routes' : r.at.shell \in Shells /\ r.to \in Workers
  <2>1. CASE job.pc = "route"
    <3>1. job.worker \in Workers /\ At(me, obj.spec).shell = me
        BY <2>1 DEF IInv, PcInv, At
    <3>2. routes' = routes \/ routes' = Without(At(me, obj.spec)) \cup {[at |-> At(me, obj.spec), to |-> job.worker]}
        BY <2>1 DEF Route, Secret, Exec, Status, Reset, Unroute, DeleteSelf, Unfin, Pointed
    <3> QED
        BY <1>1, <3>1, <3>2 DEF IInv, TypeOK, Without
  <2>2. CASE job.pc # "route"
    <3>1. routes' \subseteq routes
        BY <2>2 DEF Route, Secret, Exec, Status, Reset, Unroute, DeleteSelf, Unfin, Without
    <3> QED
        BY <3>1 DEF IInv, TypeOK
  <2> QED
      BY <2>1, <2>2
<1>7. job' \in JobType /\ PcInv'
  <2>1. ASSUME NEW pc \in EndPCs, Goto(pc) PROVE job' \in JobType /\ PcInv'
    <3>1. job' \in JobType /\ job'.pc = pc /\ job'.shell = me
        BY <1>1, <2>1 DEF Goto, JobType, JobPCs, EndPCs, me
    <3> QED
        BY <1>1, <1>4, <3>1, Winds
  <2>2. ASSUME NEW pc \in {"secret", "exec"}, Goto(pc), job.pc \in {"route", "secret"}
        PROVE  job' \in JobType /\ PcInv'
    <3>1. job' \in JobType /\ job'.pc = pc /\ job'.shell = me /\ obj.phase = "live"
        BY <1>1, <2>2 DEF Goto, JobType, JobPCs, me, IInv, PcInv, SyncPCs
    <3> QED
        BY <1>1, <1>4, <3>1 DEF PcInv, SyncPCs, me, obj
  <2>3. CASE Reset
    <3>1. job' \in JobType /\ job'.pc = "back" /\ job'.shell = me /\ job'.worker = job.worker
          /\ job.worker \in Workers /\ job.worker = obj.pod
        BY <1>1, <2>3 DEF Reset, Goto, JobType, JobPCs, me, IInv, PcInv
    <3> QED
        BY <1>1, <1>4, <3>1 DEF PcInv, SyncPCs, me, obj
  <2>4. CASE Unroute /\ Goto("unfin")
    <3>1. job' \in JobType /\ job'.pc = "unfin" /\ job'.shell = me
        BY <1>1, <2>4 DEF Goto, JobType, JobPCs, me
    <3>2. obj.pod # None => Loose(me, obj.pod)'
        BY <1>4, <2>4, <3>1 DEF Unroute, IInv, PcInv, Loose, me, obj
    <3>3. routes' = IF obj.spec.mode = "NodePort" THEN routes ELSE Without(At(me, obj.spec))
      <4>1. ~Fail
          BY <1>1, <3>1 DEF Fail, Goto, JobType
      <4> QED
          BY <2>4, <4>1 DEF Unroute
    <3>4. ASSUME NEW r \in routes', r.at = At(me, obj.spec) PROVE r.at.mode = "NodePort"
      <4>1. obj.spec.mode = "NodePort"
          BY <3>3, <3>4 DEF Without
      <4> QED
          BY <3>4, <4>1 DEF At
    <3>5. At(me, obj.spec)' = At(me, obj.spec)
        BY <1>4, <3>1 DEF At, me, obj
    <3> QED
        BY <1>1, <1>4, <3>1, <3>2, <3>4, <3>5 DEF PcInv, SyncPCs, me, obj
  <2>5. CASE Unroute
      BY <2>1, <2>4, <2>5 DEF Unroute, Fail, EndPCs, Done
  <2>6. CASE Route
      BY <2>1, <2>2, <2>6 DEF Route, Fail, EndPCs, Done
  <2>7. CASE Secret /\ ~Save([obj EXCEPT !.secret = TRUE], "exec")
      BY <2>1, <2>2, <2>7 DEF Secret, Fail, EndPCs
  <2>8. CASE Secret /\ Save([obj EXCEPT !.secret = TRUE], "exec")
    <3>1. Goto("exec") \/ Goto("error")
        BY <2>8 DEF Save, Fail
    <3> QED
        BY <2>1, <2>2, <2>8, <3>1 DEF Secret, EndPCs
  <2>9. CASE Exec
    <3>1. Goto("status") \/ Goto("error")
        BY <2>9 DEF Exec, Fail
    <3> QED
        BY <2>1, <3>1 DEF EndPCs
  <2>10. CASE Status
    <3>1. Goto("later") \/ Goto("ok") \/ Goto("error") \/ job' = job
        BY <2>10 DEF Status, Fail, Done
    <3>2. CASE job' = job
        BY <1>1, <1>4, <2>10, <3>2, Winds DEF Status, EndPCs, me
    <3> QED
        BY <2>1, <3>1, <3>2 DEF EndPCs
  <2>11. CASE Unfin /\ ~obj.fin
      BY <2>1, <2>11 DEF Unfin, EndPCs
  <2>12. CASE DeleteSelf
      BY <2>1, <2>12 DEF DeleteSelf, Fail, EndPCs, Done
  <2> QED
      BY <2>3, <2>5, <2>6, <2>7, <2>8, <2>9, <2>10, <2>11, <2>12
<1> QED
    BY <1>2, <1>3, <1>5, <1>6, <1>7, QuietMove

\* A cloudshell is taken from the queue.
LEMMA TakeInv ==
    ASSUME IInv, NEW s \in Shells, Take(s)
    PROVE  IInv' /\ GuardStep
<1> USE DEF IInv
<1>1. LooseKept /\ OwnedKnown' /\ csQ' \subseteq Shells
    BY PodsSame DEF Take, workers, OwnedKnown, TypeOK
<1>2. created' \in 0 .. MaxShells /\ trouble' \in 0 .. MaxTrouble
    BY BudgetKept DEF Take, NoFault
<1>3. CASE UNCHANGED <<csStore, job>>
  <2>1. StoreInv' /\ GuardStep
      BY <1>1, <1>3, StoreSame
  <2>2. TypeOK'
      BY <1>1, <1>2, <1>3, <2>1 DEF Take, TypeOK, StoreInv, clock, workers
  <2>3. PcInv'
      BY <1>1, <1>3, OthersStay DEF Take, csStore
  <2> QED
      BY <1>1, <2>1, <2>2, <2>3
<1>4. ASSUME NEW pc \in {"release", "ensure"}, NEW why \in {"deleted", "none"},
             API!Hold(s), pc = "ensure" => csCache[s].phase = "live",
             job' = [JobIdle EXCEPT !.shell = s, !.pc = pc, !.why = why]
      PROVE  IInv' /\ GuardStep
  <2>1. StoreInv' /\ GuardStep /\ csPtr'.name = s /\ csPtr'.obj = csCache[s]
      BY <1>1, <1>4, HoldInv
  <2>2. job' \in JobType /\ job'.pc = pc /\ job'.shell = s
      BY <1>4 DEF JobIdle, JobType, JobPCs
  <2>3. TypeOK'
      BY <1>1, <1>2, <2>1, <2>2 DEF Take, TypeOK, StoreInv, JobType, clock, workers
  <2>4. PcInv'
      BY <1>4, <2>1, <2>2 DEF PcInv, SyncPCs, obj
  <2> QED
      BY <1>1, <2>1, <2>3, <2>4
<1>5. csCache[s].phase \in {"absent", "live", "deleting"}
    BY DEF StoreInv, API!StoreTypeOK, ShellRec
<1> QED
    BY <1>3, <1>4, <1>5 DEF Take

\* The synchronisation is over.
LEMMA EndInv ==
    ASSUME IInv, End
    PROVE  IInv' /\ GuardStep
<1> USE DEF IInv
<1>1. me \in Shells
    BY AtWork DEF End
<1>2. LooseKept /\ OwnedKnown'
    BY PodsSame DEF End, workers, OwnedKnown
<1>3. StoreInv' /\ GuardStep
    BY <1>2, DropInv DEF End
<1>4. created' \in 0 .. MaxShells /\ trouble' \in 0 .. MaxTrouble
    BY BudgetKept DEF End, NoFault
<1>5. JobIdle \in JobType
    BY DEF JobIdle, JobType, JobPCs
<1>6. TypeOK'
    BY <1>1, <1>3, <1>4, <1>5 DEF End, TypeOK, StoreInv, JobType, workers
<1>7. PcInv'
    BY DEF End, PcInv, JobIdle, SyncPCs
<1> QED
    BY <1>2, <1>3, <1>6, <1>7

\* A worker comes into use for the cloudshell the goroutine works for; the object
\* it holds is not being deleted, and the cached one, if it is, names the worker
\* the server's names.
LEMMA BorrowStore ==
    ASSUME IInv, job.pc = "borrow", UNCHANGED csStore, NEW w \in Workers,
           pods' = [pods EXCEPT ![w].owner = me]
    PROVE  StoreInv' /\ GuardStep
<1> USE DEF IInv, StoreInv
<1>1. PICK n \in Shells : n = me
    BY AtWork
<1>2. csPtr.name = n /\ csPtr.obj.phase = "live"
    BY <1>1, AtWork DEF PcInv, SyncPCs, obj
<1>3. cs \in [Shells -> ShellRec] /\ csCur \subseteq Shells /\ pods \in [Workers -> WorkerRec]
    BY DEF API!StoreTypeOK, TypeOK
<1>4. ASSUME NEW s \in Shells, s # n, NEW v \in Workers, Loose(s, v) PROVE Loose(s, v)'
  <2>1. pods'[v].phase = pods[v].phase /\ (pods'[v].owner = pods[v].owner \/ pods'[v].owner = n)
      BY <1>1, <1>3 DEF WorkerRec
  <2> QED
      BY <1>4, <2>1 DEF Loose
<1>5. API!StoreTypeOK' /\ CacheUntouched' /\ DeletingGuarded' /\ GuardStep
    BY DEF API!StoreTypeOK, CacheUntouched, DeletingGuarded, GuardStep, csStore
<1>6. ASSUME NEW s \in csCur PROVE Agrees(s, csCache[s])'
  <2>1. s \in Shells /\ Agrees(s, csCache[s]) /\ UNCHANGED <<cs, csCache>>
      BY <1>3 DEF VersionsAgree, csStore
  <2>2. CASE s # n
      BY <1>3, <1>4, <2>1, <2>2, AgreesFor
  <2>3. CASE s = n
    <3>1. csCache[s].phase = "deleting" => csCache[s].pod = cs[s].pod
        BY <1>2, <2>3 DEF CacheUntouched
    <3> QED
        BY <2>1, <3>1 DEF Agrees
  <2> QED
      BY <2>2, <2>3
<1>7. csPtr.cur => Agrees(csPtr.name, csPtr.obj)'
    BY <1>2 DEF VersionsAgree, Agrees, csStore
<1>8. VersionsAgree'
    BY <1>6, <1>7 DEF VersionsAgree, csStore
<1> QED
    BY <1>5, <1>8

LEMMA BorrowInv ==
    ASSUME IInv, Borrow
    PROVE  IInv' /\ GuardStep
<1> USE DEF IInv
<1>1. me \in Shells /\ csPtr.name = me /\ job \in JobType /\ obj.phase = "live" /\ job.pc = "borrow"
    BY AtWork DEF Borrow, PcInv, SyncPCs
<1>2. UNCHANGED <<csStore, csQ, clock, session, routes>> /\ csPtr' = csPtr
    BY DEF Borrow, csStore
<1>3. created' \in 0 .. MaxShells /\ trouble' \in 0 .. MaxTrouble
    BY BudgetKept, FaultKept DEF Borrow, PoolBorrow, Answered, Refused, Lost
<1>4. pods \in [Workers -> WorkerRec] /\ view \in [Workers -> WorkerRec]
    BY DEF TypeOK
<1>5. job' \in JobType /\ PcInv'
  <2>1. CASE Goto("error") \/ Goto("ok")
    <3>1. job' \in JobType /\ job'.pc \in EndPCs /\ job'.shell = me
        BY <1>1, <2>1 DEF Goto, JobType, JobPCs, EndPCs, me
    <3> QED
        BY <1>1, <1>2, <3>1, Winds
  <2>2. ASSUME NEW w \in Workers, job' = [job EXCEPT !.pc = "label", !.worker = w]
        PROVE  job' \in JobType /\ PcInv'
    <3>1. job' \in JobType /\ job'.pc = "label" /\ job'.shell = me /\ job'.worker = w
        BY <1>1, <2>2 DEF JobType, JobPCs, me
    <3> QED
        BY <1>1, <1>2, <3>1 DEF PcInv, SyncPCs, me, obj
  <2> QED
      BY <2>1, <2>2 DEF Borrow, Fail
<1>6. /\ StoreInv' /\ GuardStep /\ OwnedKnown' /\ waiting' \subseteq Shells
      /\ pods' \in [Workers -> WorkerRec] /\ view' \in [Workers -> WorkerRec] /\ podNews' \subseteq Workers
  <2>1. waiting' \subseteq Shells
      BY <1>1 DEF Borrow, TypeOK
  <2>2. CASE UNCHANGED <<pods, podNews, view>>
      BY <1>2, <1>4, <2>1, <2>2, PodsSame, StoreSame DEF OwnedKnown, TypeOK
  <2>3. ASSUME NEW w \in Workers, NEW result \in {"ok", "error"}, PoolBorrow(w, result)
        PROVE  /\ StoreInv' /\ GuardStep /\ OwnedKnown'
               /\ pods' \in [Workers -> WorkerRec] /\ view' \in [Workers -> WorkerRec] /\ podNews' \subseteq Workers
    <3>1. view' \in [Workers -> WorkerRec] /\ \A v \in Workers : SeenSame(v)
      <4>1. view' = view \/ view' = [view EXCEPT ![w].owner = me]
          BY <2>3 DEF PoolBorrow
      <4> QED
          BY <1>1, <1>4, <4>1 DEF WorkerRec, SeenSame
    <3>2. CASE PodKept
        BY <1>2, <1>4, <3>1, <3>2, PodsSame, StoreSame DEF OwnedKnown, SeenSame, PodKept, TypeOK
    <3> DEFINE lent == [pods[w] EXCEPT !.owner = me]
    <3>3. CASE Available(w) /\ PodWrite(w, lent)
      <4>0. pods[w].phase = "live" /\ w \notin podNews /\ pods[w] \in WorkerRec
        <5> HIDE DEF lent
        <5>1. Available(w)
            BY ONLY <3>3
        <5>2. pods[w].phase = "live" /\ w \notin podNews
            BY ONLY <5>1 DEF Available
        <5>3. pods[w] \in WorkerRec
            BY ONLY <1>4, w \in Workers
        <5> QED
            BY ONLY <5>2, <5>3
      <4>1. lent \in WorkerRec /\ view[w].phase # "absent"
        <5>1. view[w].phase = pods[w].phase
            BY <4>0 DEF OwnedKnown
        <5> QED
            BY <1>1, <4>0, <5>1 DEF WorkerRec
      <4>2. pods' \in [Workers -> WorkerRec] /\ podNews' \subseteq Workers /\ OwnedKnown'
          BY <3>1, <3>3, <4>1, PodWriteKept
      <4>3. pods' = [pods EXCEPT ![w].owner = me]
          BY <3>3 DEF PodWrite
      <4> QED
          BY <1>1, <1>2, <3>1, <4>2, <4>3, BorrowStore
    <3> QED
        BY <2>3, <3>2, <3>3 DEF PoolBorrow
  <2> QED
      BY <2>1, <2>2, <2>3 DEF Borrow
<1>7. TypeOK'
    BY <1>2, <1>3, <1>5, <1>6 DEF TypeOK, StoreInv, JobType, clock
<1> QED
    BY <1>5, <1>6, <1>7

\* The worker is given back: because it is not ready, or because the cloudshell
\* goes.  Then it is in use for nobody, or the goroutine stops here.
LEMMA BackInv ==
    ASSUME IInv, Reassign \/ Back
    PROVE  IInv' /\ GuardStep
<1> USE DEF IInv
<1>0. job.pc \in {"reassign", "back"}
    BY DEF Reassign, Back
<1>1. PICK n \in Shells : n = me
    BY <1>0, AtWork
<1>2. csPtr.name = n /\ obj = csPtr.obj /\ obj \in ShellRec /\ job \in JobType /\ job.worker \in Workers
    BY <1>0, <1>1, AtWork DEF PcInv
<1>3. PICK result \in {"ok", "error"} : PoolBack(job.worker, result) /\ (result = "error" => Reassign \/ Fail)
    BY DEF Reassign, Back
<1>4. /\ pods' \in [Workers -> WorkerRec] /\ view' \in [Workers -> WorkerRec] /\ podNews' \subseteq Workers
      /\ OwnedKnown' /\ LooseKept
      /\ created' \in 0 .. MaxShells /\ trouble' \in 0 .. MaxTrouble
    BY <1>2, <1>3, PoolBackKept
<1>5. UNCHANGED <<csQ, clock, session, waiting, routes>>
    BY DEF Reassign, Back
<1> DEFINE rec == [obj EXCEPT !.pod = None]
<1>6. rec \in ShellRec /\ rec.phase = obj.phase /\ rec.spec = obj.spec /\ rec.pod = None
    BY <1>2 DEF ShellRec
<1> HIDE DEF rec
<1>7. StoreInv' /\ GuardStep /\ job' \in JobType /\ PcInv'
  <2>1. CASE Reassign
    <3>1. Edits(csPtr.obj, rec) /\ obj.phase = "live"
        BY <1>2, <1>6, <2>1 DEF Reassign, PcInv, SyncPCs, Edits
    <3>2. StoreInv' /\ GuardStep /\ csPtr'.name = n /\ csPtr'.obj = rec
        BY <1>2, <1>4, <1>6, <2>1, <3>1, MutateInv DEF Reassign, rec
    <3>3. job' \in JobType /\ job'.pc = "unlabel" /\ job'.shell = n
        BY <1>1, <1>2, <2>1 DEF Reassign, Goto, JobType, JobPCs, me
    <3> QED
        BY <1>6, <3>1, <3>2, <3>3 DEF PcInv, SyncPCs, me, obj
  <2>2. CASE Back /\ PoolBack(job.worker, "ok") /\ API!Mutate(rec) /\ Goto("unroute")
    <3>1. obj.pod = job.worker
        BY <2>2 DEF Back, PcInv
    <3>2. \A s \in Shells : \A w \in Workers : w = job.worker => Loose(s, w)'
      <4>1. PICK w \in Workers : w = job.worker
          BY <1>2
      <4>2. \A s \in Shells : Loose(s, w)'
          BY <2>2, <4>1, PoolBackKept
      <4> QED
          BY <4>1, <4>2
    <3>3. GivenBack(n, csPtr.obj)
        BY <1>2, <3>1, <3>2 DEF GivenBack
    <3>4. StoreInv' /\ GuardStep /\ csPtr'.name = n /\ csPtr'.obj = rec
        BY <1>2, <1>4, <1>6, <2>2, <3>3, MutateInv
    <3>5. job' \in JobType /\ job'.pc = "unroute" /\ job'.shell = n
        BY <1>1, <1>2, <2>2 DEF Goto, JobType, JobPCs, me
    <3> QED
        BY <1>6, <3>4, <3>5 DEF PcInv, SyncPCs, me, obj
  <2>3. CASE Back /\ Fail /\ UNCHANGED csStore
    <3>1. StoreInv' /\ GuardStep
        BY <1>4, <2>3, StoreSame
    <3>2. job' \in JobType /\ job'.pc = "error" /\ job'.shell = n
        BY <1>1, <1>2, <2>3 DEF Fail, Goto, JobType, JobPCs, me
    <3>3. PcInv'
        BY <1>2, <2>3, <3>2, Winds DEF EndPCs, csStore
    <3> QED
        BY <3>1, <3>2, <3>3
  <2> QED
      BY <2>1, <2>2, <2>3 DEF Reassign, Back, rec
<1>8. TypeOK'
    BY <1>4, <1>5, <1>7 DEF TypeOK, StoreInv, JobType, clock
<1> QED
    BY <1>4, <1>7, <1>8

\* The steps that end a synchronisation and leave workers alone.
LEMMA EndMove ==
    ASSUME IInv, StoreInv', GuardStep, job.pc # "idle", NEW pc \in EndPCs, Goto(pc) \/ (pc = job.pc /\ job' = job),
           csPtr'.name = me, UNCHANGED <<csQ, clock, pods, podNews, view, waiting, routes>>,
           session' \in [Workers -> Shells \cup {None}], NoFault \/ Fault
    PROVE  IInv' /\ GuardStep
<1> USE DEF IInv
<1>1. job' \in JobType /\ job'.pc = pc /\ job'.shell = me /\ me \in Shells
    BY AtWork DEF Goto, JobType, JobPCs, EndPCs, me
<1>2. PcInv'
    BY <1>1, Winds
<1>3. created' \in 0 .. MaxShells /\ trouble' \in 0 .. MaxTrouble
    BY BudgetKept, FaultKept
<1>4. TypeOK'
    BY <1>1, <1>3 DEF TypeOK, StoreInv, JobType, clock
<1>5. OwnedKnown'
    BY DEF OwnedKnown
<1> QED
    BY <1>2, <1>4, <1>5

\* The status is set in the object, after the worker was started or the TTL is over.
LEMMA StatusSetInv ==
    ASSUME IInv, (Exec /\ Goto("status") /\ ~Fail) \/ Complete
    PROVE  IInv' /\ GuardStep
<1> USE DEF IInv
<1>0. job.pc # "idle"
    BY DEF Exec, Complete
<1>1. PICK n \in Shells : n = me
    BY <1>0, AtWork
<1>2. csPtr.name = n /\ obj = csPtr.obj /\ obj \in ShellRec /\ me \in Shells
      /\ obj.pod \in Workers \cup {None} /\ None \notin Workers
    BY <1>0, <1>1, AtWork DEF ShellRec
<1>3. UNCHANGED <<csQ, clock, pods, podNews, view, waiting, routes>> /\ NoFault /\ Goto("status")
    BY DEF Exec, Complete, workers, NoFault
<1>4. LooseKept
    BY <1>3, PodsSame
<1>5. PICK rec \in ShellRec : API!Mutate(rec) /\ Edits(csPtr.obj, rec)
  <2>1. CASE Exec
    <3> DEFINE rec == [obj EXCEPT !.status = "Ready", !.started = TRUE]
    <3>1. rec \in ShellRec /\ Edits(obj, rec)
        BY <1>2 DEF ShellRec, Edits
    <3>2. API!Mutate(rec) \/ Fail
        BY <2>1 DEF Exec
    <3> QED
        BY <1>2, <2>1, <3>1, <3>2 DEF Complete, Exec
  <2>2. CASE Complete
    <3> DEFINE rec == [obj EXCEPT !.status = "Complete"]
    <3>1. rec \in ShellRec /\ Edits(obj, rec)
        BY <1>2 DEF ShellRec, Edits
    <3> QED
        BY <1>2, <2>2, <3>1 DEF Complete
  <2> QED
      BY <2>1, <2>2
<1>6. StoreInv' /\ GuardStep /\ csPtr'.name = n
    BY <1>2, <1>4, <1>5, MutateInv
<1>7. session' \in [Workers -> Shells \cup {None}]
    BY <1>2 DEF Exec, Complete, ExecOK, workers, TypeOK
<1> QED
    BY <1>0, <1>1, <1>3, <1>6, <1>7, EndMove DEF EndPCs

\* UpdateCloudshellStatus finds its object outdated and takes the lister's of now.
LEMMA RereadInv ==
    ASSUME IInv, NEW n \in Shells, csPtr.name = n, NEW kept \in ShellRec,
           kept.phase = csCache[n].phase, kept.spec = csCache[n].spec, kept.pod = csCache[n].pod,
           csCache' = [csCache EXCEPT ![n] = kept],
           csPtr' = [name |-> n, obj |-> kept, alias |-> TRUE, cur |-> n \in csCur],
           UNCHANGED <<cs, csWatch, csCur, pods>>
    PROVE  StoreInv' /\ GuardStep
<1> USE DEF IInv, StoreInv
<1>1. cs \in [Shells -> ShellRec] /\ csCache \in [Shells -> ShellRec] /\ csCur \subseteq Shells
    BY DEF API!StoreTypeOK
<1>2. csPtr' \in API!PtrRec /\ csPtr'.obj = kept /\ csPtr'.name = n /\ csPtr'.cur = (n \in csCur)
  <2>1. (n \in csCur) \in BOOLEAN
      OBVIOUS
  <2> QED
      BY <2>1 DEF API!PtrRec
<1>3. API!StoreTypeOK'
    BY <1>1, <1>2 DEF API!StoreTypeOK
<1>4. ASSUME NEW s \in csCur PROVE Agrees(s, csCache[s])'
  <2>1. /\ s \in Shells /\ Agrees(s, csCache[s]) /\ csCache'[s].phase = csCache[s].phase
        /\ csCache'[s].spec = csCache[s].spec /\ csCache'[s].pod = csCache[s].pod
      BY <1>1 DEF VersionsAgree
  <2> QED
      BY <2>1 DEF Agrees, Loose
<1>5. n \in csCur => Agrees(csPtr.name, csPtr.obj)'
    BY <1>1, <1>2, <1>4
<1>6. VersionsAgree'
    BY <1>1, <1>2, <1>4, <1>5 DEF VersionsAgree
<1>7. CacheUntouched' /\ DeletingGuarded' /\ GuardStep
    BY <1>1, <1>2 DEF CacheUntouched, DeletingGuarded, GuardStep
<1> QED
    BY <1>3, <1>6, <1>7

LEMMA StatusInv ==
    ASSUME IInv, Status
    PROVE  IInv' /\ GuardStep
<1> USE DEF IInv
<1>0. job.pc = "status" /\ UNCHANGED <<csQ, clock, workers, routes>>
    BY DEF Status
<1>1. PICK n \in Shells : n = me
    BY <1>0, AtWork
<1>2. csPtr.name = n /\ obj = csPtr.obj /\ obj \in ShellRec /\ cs[n] \in ShellRec /\ csCache[n] \in ShellRec
      /\ (cs[n].phase = "deleting" => cs[n].fin)
    BY <1>0, <1>1, AtWork DEF StoreInv, DeletingGuarded
<1>3. LooseKept /\ session' \in [Workers -> Shells \cup {None}] /\ UNCHANGED <<pods, podNews, view, waiting>>
    BY <1>0, PodsSame DEF workers, TypeOK
<1> DEFINE r == [cs[me] EXCEPT !.status = obj.status, !.started = obj.started]
           kept == [csCache[me] EXCEPT !.status = obj.status, !.started = obj.started]
<1>4. /\ r \in ShellRec /\ r.phase = cs[n].phase /\ r.fin = cs[n].fin
      /\ kept \in ShellRec /\ kept.phase = csCache[n].phase /\ kept.spec = csCache[n].spec
      /\ kept.pod = csCache[n].pod
    BY <1>1, <1>2 DEF ShellRec
<1> HIDE DEF r, kept
<1>5. CASE /\ cs[me].phase # "absent" /\ API!Write(me, r)
           /\ Done(IF job.why = "later" THEN "later" ELSE "ok")
  <2>1. r.phase = "deleting" => r.fin
      BY <1>2, <1>4
  <2>2. StoreInv' /\ GuardStep /\ csPtr'.name = n
      BY <1>1, <1>2, <1>3, <1>4, <1>5, <2>1, WriteInv
  <2>3. (Goto("later") \/ Goto("ok") \/ Goto("error")) /\ (NoFault \/ Fault)
      BY <1>5 DEF Done, Fail
  <2> QED
      BY <1>0, <1>1, <1>3, <1>5, <2>2, <2>3, EndMove DEF EndPCs
<1>6. CASE /\ csCache' = [csCache EXCEPT ![me] = kept]
           /\ csPtr' = [name |-> me, obj |-> kept, alias |-> TRUE, cur |-> me \in csCur]
           /\ NoFault
           /\ UNCHANGED <<cs, csWatch, csCur, job>>
  <2>1. StoreInv' /\ GuardStep
      BY <1>1, <1>2, <1>3, <1>4, <1>6, RereadInv
  <2>2. csPtr'.name = me
      BY <1>6
  <2> QED
      BY <1>0, <1>3, <1>6, <2>1, <2>2, EndMove DEF EndPCs
<1>7. CASE UNCHANGED csStore
    BY <1>3, <1>7, OutsideInv
<1> QED
    BY <1>5, <1>6, <1>7 DEF Status, r, kept

\* c.Delete: a cloudshell without finalizer goes at once, but that was not being
\* deleted.
LEMMA DeleteSelfInv ==
    ASSUME IInv, DeleteSelf
    PROVE  IInv' /\ GuardStep
<1> USE DEF IInv
<1>0. job.pc = "delete" /\ UNCHANGED <<csQ, clock, workers, routes>>
    BY DEF DeleteSelf
<1>1. PICK n \in Shells : n = me
    BY <1>0, AtWork
<1>2. csPtr.name = n /\ cs[n] \in ShellRec /\ (cs[n].phase = "deleting" => cs[n].fin)
    BY <1>0, <1>1, AtWork DEF StoreInv, DeletingGuarded
<1>3. LooseKept /\ session' \in [Workers -> Shells \cup {None}] /\ UNCHANGED <<pods, podNews, view, waiting>>
    BY <1>0, PodsSame DEF workers, TypeOK
<1>4. CASE API!Write(me, Marked(me)) /\ Done("ok")
  <2>1. /\ Marked(n) \in ShellRec /\ (Marked(n).phase = "deleting" => Marked(n).fin)
        /\ cs[n].phase = "deleting" => Marked(n).phase # "absent"
      BY <1>2 DEF Marked, Final, NoShell, ShellRec
  <2>2. StoreInv' /\ GuardStep /\ csPtr'.name = n
      BY <1>1, <1>2, <1>3, <1>4, <2>1, WriteInv
  <2>3. (Goto("ok") \/ Goto("error")) /\ (NoFault \/ Fault)
      BY <1>4 DEF Done, Fail
  <2> QED
      BY <1>0, <1>1, <1>3, <2>2, <2>3, EndMove DEF EndPCs
<1>5. CASE UNCHANGED csStore
    BY <1>3, <1>5, OutsideInv
<1> QED
    BY <1>4, <1>5 DEF DeleteSelf

\* removeFinalizer.  This is the step that makes a deleted cloudshell disappear.
LEMMA UnfinInv ==
    ASSUME IInv, Unfin
    PROVE  IInv' /\ GuardStep
<1> USE DEF IInv
<1>0. job.pc = "unfin" /\ UNCHANGED <<csQ, clock, workers, routes>>
    BY DEF Unfin
<1>1. PICK n \in Shells : n = me
    BY <1>0, AtWork
<1>2. obj \in ShellRec /\ cs[n] \in ShellRec /\ cs \in [Shells -> ShellRec]
    BY <1>0, <1>1, AtWork DEF StoreInv, API!StoreTypeOK
<1>3. LooseKept /\ session' \in [Workers -> Shells \cup {None}] /\ UNCHANGED <<pods, podNews, view, session, waiting>>
    BY <1>0, PodsSame DEF workers, TypeOK
<1>4. CASE ~obj.fin
  <2>1. UNCHANGED csStore
      BY <1>4 DEF Unfin
  <2> QED
      BY <1>3, <1>4, <2>1, OutsideInv
<1>5. CASE obj.fin
  <2> DEFINE rec == [obj EXCEPT !.fin = FALSE]
             next == IF job.why = "deleted" THEN "ok" ELSE IF obj.spec.cleanup THEN "delete" ELSE "complete"
  <2>1. rec \in ShellRec /\ Edits(obj, rec)
      BY <1>2 DEF ShellRec, Edits
  <2>2. next \in EndPCs /\ next \in JobPCs /\ Save(rec, next)
      BY <1>5 DEF Unfin, EndPCs, JobPCs
  <2> HIDE DEF rec, next
  <2>3. /\ StoreInv' /\ csPtr'.name = n
        /\ job' = [job EXCEPT !.pc = next] \/ job' = [job EXCEPT !.pc = "error"]
        /\ GuardStep \/ (/\ Agrees(n, obj) /\ cs[n].phase = "deleting"
                         /\ \A s \in Shells : s # n => cs'[s] = cs[s])
      BY <1>0, <1>1, <1>3, <2>1, <2>2, SaveInv
  <2>4. GuardStep
    <3>1. ASSUME Agrees(n, obj), cs[n].phase = "deleting", \A s \in Shells : s # n => cs'[s] = cs[s]
          PROVE  GuardStep
      <4>1. obj.phase = "deleting" /\ obj.spec = cs[n].spec
            /\ (obj.pod = cs[n].pod \/ (cs[n].pod # None => Loose(n, cs[n].pod)))
          BY <3>1 DEF Agrees
      <4>2. cs[n].pod # None => Loose(n, cs[n].pod)
          BY <1>0, <1>1, <4>1 DEF PcInv
      <4>3. \A r \in routes : r.at = At(n, cs[n].spec) => r.at.mode = "NodePort"
          BY <1>0, <1>1, <4>1 DEF PcInv
      <4> QED
          BY <3>1, <4>2, <4>3 DEF GuardStep, Loose
    <3> QED
        BY <2>3, <3>1
  <2>5. NoFault \/ Fault
      BY <2>2 DEF Save
  <2>6. Goto(next) \/ Goto("error")
      BY <2>3 DEF Goto
  <2> QED
      BY <1>0, <1>1, <1>3, <2>2, <2>3, <2>4, <2>5, <2>6, EndMove DEF EndPCs
<1> QED
    BY <1>4, <1>5

(***************************************************************************)
(* All steps together.                                                     *)
(***************************************************************************)
LEMMA SyncInv ==
    ASSUME IInv, Sync
    PROVE  IInv' /\ GuardStep
<1>1. CASE Ensure
    BY <1>1, LiveSaves, DecideInv
<1>2. CASE Check \/ Release
    BY <1>2, DecideInv
<1>3. CASE Reassign \/ Back
    BY <1>3, BackInv
<1>4. CASE Unlabel \/ Label
    BY <1>4, LiveSaves
<1>5. CASE Borrow
    BY <1>5, BorrowInv
<1>6. CASE Route \/ Reset \/ Unroute
  <2>1. UNCHANGED <<csStore, pods, podNews, view, waiting>>
      BY <1>6 DEF Route, Reset, Unroute, workers
  <2> QED
      BY <1>6, <2>1, OutsideInv
<1>7. CASE Secret
  <2>1. CASE Save([obj EXCEPT !.secret = TRUE], "exec")
      BY <1>7, <2>1, LiveSaves
  <2>2. CASE UNCHANGED csStore
    <3>1. UNCHANGED <<csStore, pods, podNews, view, waiting>>
        BY <1>7, <2>2 DEF Secret, workers
    <3> QED
        BY <1>7, <3>1, OutsideInv
  <2> QED
      BY <1>7, <2>1, <2>2 DEF Secret
<1>8. CASE Exec
  <2>1. CASE Goto("status")
    <3>1. job \in JobType
        BY <1>8, AtWork DEF Exec
    <3>2. ~Fail
        BY <2>1, <3>1 DEF Goto, Fail, JobType
    <3> QED
        BY <1>8, <2>1, <3>2, StatusSetInv
  <2>2. CASE UNCHANGED csStore
    <3>1. UNCHANGED <<csStore, pods, podNews, view, waiting>>
        BY <1>8, <2>2 DEF Exec
    <3> QED
        BY <1>8, <3>1, OutsideInv
  <2> QED
      BY <1>8, <2>1, <2>2 DEF Exec
<1>9. CASE Status
    BY <1>9, StatusInv
<1>10. CASE Unfin
    BY <1>10, UnfinInv
<1>11. CASE Complete
    BY <1>11, StatusSetInv
<1>12. CASE DeleteSelf
    BY <1>12, DeleteSelfInv
<1>13. CASE End
    BY <1>13, EndInv
<1> QED
    BY <1>1, <1>2, <1>3, <1>4, <1>5, <1>6, <1>7, <1>8, <1>9, <1>10, <1>11, <1>12, <1>13 DEF Sync

LEMMA StutterInv ==
    ASSUME IInv, UNCHANGED vars
    PROVE  IInv' /\ GuardStep
<1>1. UNCHANGED <<csStore, csQ, backoff, timers, elapsed, pods, podNews, view, session, waiting, routes, job, created, trouble>>
    BY DEF vars, clock, workers, budget
<1>2. LooseKept
    BY <1>1, PodsSame
<1>3. StoreInv' /\ GuardStep
    BY <1>1, <1>2, StoreSame DEF IInv
<1>4. PcInv'
    BY <1>1, <1>2, OthersStay DEF csStore
<1>5. TypeOK' /\ OwnedKnown'
    BY <1>1, <1>3 DEF IInv, TypeOK, OwnedKnown, StoreInv
<1> QED
    BY <1>3, <1>4, <1>5 DEF IInv

\* Every step keeps the invariant and does what FinalizerGuards says.
LEMMA NextInv ==
    ASSUME IInv, [Next]_vars
    PROVE  IInv' /\ GuardStep
<1>1. CASE Sync
    BY <1>1, SyncInv
<1>2. CASE Crash
    BY <1>2, CrashInv
<1>3. ASSUME NEW s \in Shells,
             \/ ShellEvent(s) \/ Take(s) \/ PoolWakes(s) \/ DeleteShell(s) \/ Elapse(s) \/ Retry(s)
             \/ TimerFires(s) \/ Collect(s)
             \/ \E sp \in Specs : CreateShell(s, sp) \/ EditShell(s, sp)
      PROVE  IInv' /\ GuardStep
    BY <1>3, ShellEventInv, TakeInv, TimeSteps, UserSteps
<1>4. ASSUME NEW w \in Workers,
             \/ PodEvent(w) \/ PoolCreates(w) \/ WorkerReady(w) \/ WorkerUnready(w)
             \/ WorkerEvicted(w) \/ WorkerGone(w)
      PROVE  IInv' /\ GuardStep
    BY <1>4, WorkerSteps
<1>5. CASE UNCHANGED vars
    BY <1>5, StutterInv
<1> QED
    BY <1>1, <1>2, <1>3, <1>4, <1>5 DEF Next

LEMMA InitInv ==
    ASSUME Init
    PROVE  IInv
<1> USE DEF Init, API!StoreInit
<1>1. NoShell \in ShellRec /\ NoWorker \in WorkerRec /\ API!NoPtr \in API!PtrRec
    BY DEF NoShell, ShellRec, NoWorker, WorkerRec, API!NoPtr, API!PtrRec
<1>2. API!StoreTypeOK
    BY <1>1 DEF API!StoreTypeOK
<1>3. \A s \in Shells : cs[s] = NoShell /\ csCache[s] = NoShell /\ csWatch[s] = <<>>
    OBVIOUS
<1>4. StoreInv
    BY <1>2, <1>3 DEF StoreInv, VersionsAgree, Agrees, CacheUntouched, DeletingGuarded, NoShell, API!NoPtr
<1>5. TypeOK
  <2>1. created \in 0 .. MaxShells /\ trouble \in 0 .. MaxTrouble
      BY ControllerAssumption DEF ControllerAssumption
  <2>2. job \in [pc : JobPCs, shell : Shells \cup {None}, worker : Workers \cup {None},
                 why : {"none", "deleted", "ttl", "later"}]
      BY DEF JobIdle, JobPCs
  <2> QED
      BY <1>1, <1>2, <2>1, <2>2 DEF TypeOK
<1>6. OwnedKnown /\ PcInv
    BY DEF OwnedKnown, NoWorker, PcInv, SyncPCs, JobIdle
<1> QED
    BY <1>4, <1>5, <1>6 DEF IInv

(***************************************************************************)
(* What users write stands.                                                *)
(***************************************************************************)
\* What UserWritesStand says of one step.
StandStep ==
    \A s \in Shells :
        /\ cs[s].phase = "deleting" => cs'[s].phase # "live"
        /\ cs'[s].phase # "absent" /\ (cs[s].phase = "absent" \/ cs'[s].spec # cs[s].spec)
             => UNCHANGED job

\* A write that keeps spec and phase, or goes from live to deleting, or to absent.
LEMMA WriteStands ==
    ASSUME cs \in [Shells -> ShellRec], NEW n \in Shells, NEW r \in ShellRec,
           cs' = [cs EXCEPT ![n] = r], cs[n].phase # "absent",
           r.phase # "absent" => r.spec = cs[n].spec,
           r.phase = "live" => cs[n].phase # "deleting"
    PROVE  StandStep
BY DEF StandStep, ShellRec

\* An accepted Update sends the server's own spec and phase back.
LEMMA SaveStands ==
    ASSUME IInv, job.pc # "idle", NEW rec \in ShellRec, NEW next, Save(rec, next),
           rec.phase = obj.phase, rec.spec = obj.spec
    PROVE  StandStep
<1>1. PICK n \in Shells : n = me
    BY AtWork
<1>2. csPtr.name = n /\ csPtr.obj = obj /\ cs[n] \in ShellRec /\ cs \in [Shells -> ShellRec]
    BY <1>1, AtWork DEF IInv, StoreInv, API!StoreTypeOK
<1>3. PICK sent : sent = [rec EXCEPT !.status = cs[me].status, !.started = cs[me].started]
    OBVIOUS
<1>4. sent \in ShellRec /\ sent.phase = rec.phase /\ sent.spec = rec.spec
    BY <1>1, <1>2, <1>3 DEF ShellRec
<1>5. CASE UNCHANGED cs
    BY <1>5 DEF StandStep
<1>6. CASE API!UpdateOK(sent, Final(sent)) \/ API!UpdateLost(rec, Final(sent))
  <2>1. csPtr.cur /\ cs[n].phase # "absent" /\ cs' = [cs EXCEPT ![n] = Final(sent)]
      BY <1>2, <1>6 DEF API!UpdateOK, API!UpdateLost, API!Accepts
  <2>2. sent.phase = cs[n].phase /\ sent.spec = cs[n].spec
      BY <1>2, <1>4, <2>1 DEF IInv, StoreInv, VersionsAgree, Agrees
  <2>3. Final(sent) \in ShellRec /\ Final(sent) \in {sent, NoShell}
      BY <1>4 DEF Final, NoShell, ShellRec
  <2>4. /\ Final(sent).phase # "absent" => Final(sent).spec = cs[n].spec
        /\ Final(sent).phase = "live" => cs[n].phase # "deleting"
      BY <2>2, <2>3 DEF NoShell
  <2> QED
      BY <1>2, <2>1, <2>3, <2>4, WriteStands
<1> QED
    BY <1>3, <1>5, <1>6 DEF Save, API!Mutate

LEMMA SyncStands ==
    ASSUME IInv, Sync
    PROVE  StandStep
<1>1. CASE UNCHANGED cs
    BY <1>1 DEF StandStep
<1>2. ASSUME NEW rec \in ShellRec, NEW next, Save(rec, next), job.pc # "idle",
             rec.phase = obj.phase, rec.spec = obj.spec
      PROVE  StandStep
    BY <1>2, SaveStands
<1>3. CASE Ensure \/ Unlabel \/ Label \/ Secret \/ Unfin
  <2>1. job.pc # "idle"
      BY <1>3 DEF Ensure, Unlabel, Label, Secret, Unfin
  <2>2. obj \in ShellRec /\ job.worker \in Workers \cup {None}
      BY <2>1, AtWork DEF JobType
  <2>3. \A b \in BOOLEAN, w \in Workers \cup {None} :
          \A rec \in {[obj EXCEPT !.fin = b], [obj EXCEPT !.secret = b], [obj EXCEPT !.pod = w], obj} :
             rec \in ShellRec /\ rec.phase = obj.phase /\ rec.spec = obj.spec
      BY <2>2 DEF ShellRec
  <2>4. CASE Ensure \/ Unfin
      BY <1>1, <1>2, <2>1, <2>3, <2>4 DEF Ensure, Unfin, csStore
  <2>5. CASE Unlabel \/ Label \/ Secret
      BY <1>1, <1>2, <2>1, <2>2, <2>3, <2>5 DEF Unlabel, Label, Secret, csStore
  <2> QED
      BY <1>3, <2>4, <2>5
<1>4. CASE Status \/ DeleteSelf
  <2>1. PICK n \in Shells : n = me
      BY <1>4, AtWork DEF Status, DeleteSelf
  <2>2. cs \in [Shells -> ShellRec] /\ cs[n] \in ShellRec /\ obj \in ShellRec
      BY <1>4, <2>1, AtWork DEF IInv, StoreInv, API!StoreTypeOK, Status, DeleteSelf
  <2> DEFINE set == [cs[n] EXCEPT !.status = obj.status, !.started = obj.started]
  <2>3. set \in ShellRec /\ set.phase = cs[n].phase /\ set.spec = cs[n].spec
      BY <2>2 DEF ShellRec
  <2>4. /\ Marked(n) \in ShellRec /\ Marked(n).phase # "live"
        /\ Marked(n).phase # "absent" => Marked(n).spec = cs[n].spec
      BY <2>2 DEF Marked, Final, NoShell, ShellRec
  <2>5. \/ UNCHANGED cs
        \/ cs[n].phase # "absent" /\ (API!Write(n, set) \/ API!Write(n, Marked(n)))
      BY <1>4, <2>1 DEF Status, DeleteSelf, csStore
  <2> HIDE DEF set
  <2> QED
      BY <1>1, <2>2, <2>3, <2>4, <2>5, WriteStands DEF API!Write
<1>5. CASE Check \/ Reassign \/ Borrow \/ Route \/ Exec \/ Release \/ Reset \/ Back \/ Unroute \/ Complete \/ End
  <2>1. UNCHANGED cs
      BY <1>5 DEF Check, Reassign, Borrow, Route, Exec, Release, Reset, Back, Unroute, Complete, End,
                  csStore, API!Mutate
  <2> QED
      BY <1>1, <2>1
<1> QED
    BY <1>3, <1>4, <1>5 DEF Sync

LEMMA NextStands ==
    ASSUME IInv, [Next]_vars
    PROVE  StandStep
<1>0. cs \in [Shells -> ShellRec]
    BY DEF IInv, StoreInv, API!StoreTypeOK
<1>1. CASE UNCHANGED cs
    BY <1>1 DEF StandStep
<1>2. CASE Sync
    BY <1>2, SyncStands
<1>3. ASSUME NEW s \in Shells, DeleteShell(s) \/ \E sp \in Specs : CreateShell(s, sp) \/ EditShell(s, sp)
      PROVE  StandStep
  <2>1. UNCHANGED job /\ cs[s].phase # "deleting" /\ \E r : cs' = [cs EXCEPT ![s] = r]
      BY <1>3 DEF DeleteShell, CreateShell, EditShell, API!Write
  <2> QED
      BY <1>0, <2>1 DEF StandStep
<1>4. CASE Crash
    BY <1>1, <1>4 DEF Crash, API!Relist
<1>5. ASSUME NEW s \in Shells,
             \/ ShellEvent(s) \/ Take(s) \/ PoolWakes(s) \/ Elapse(s) \/ Retry(s)
             \/ TimerFires(s) \/ Collect(s)
      PROVE  UNCHANGED cs
    BY <1>5 DEF ShellEvent, Take, PoolWakes, Elapse, Retry, TimerFires, Collect, API!Deliver, API!Hold, csStore
<1>6. ASSUME NEW w \in Workers,
             \/ PodEvent(w) \/ PoolCreates(w) \/ WorkerReady(w) \/ WorkerUnready(w)
             \/ WorkerEvicted(w) \/ WorkerGone(w)
      PROVE  UNCHANGED cs
    BY <1>6 DEF PodEvent, PoolCreates, WorkerReady, WorkerUnready, WorkerEvicted, WorkerGone, csStore
<1>7. CASE UNCHANGED vars
    BY <1>1, <1>7 DEF vars, csStore
<1> QED
    BY <1>1, <1>2, <1>3, <1>4, <1>5, <1>6, <1>7 DEF Next

(***************************************************************************)
(* The theorems.                                                           *)
(***************************************************************************)
\* The strengthening holds in every state of the controller: whatever copy of a
\* cloudshell the goroutine works with, an Update of it that the server accepts
\* (cloudshell_controller.go, ensureCloudShell, removeFinalizer) starts from what
\* the server has, up to the worker it has given back itself.
THEOREM ControllerInvariant == Spec => []IInv
<1>1. Init => IInv
    BY InitInv
<1>2. IInv /\ [Next]_vars => IInv'
    BY NextInv
<1> QED
    BY <1>1, <1>2, PTL DEF Spec

\* Every variable of the controller keeps its type: syncHandler, removeCloudshell
\* and the informers' handlers never put a name or a state into the queues, the
\* stores or the routes that does not belong there.
THEOREM ControllerTyped == Spec => []TypeOK
<1>1. IInv => TypeOK
    BY DEF IInv
<1> QED
    BY <1>1, ControllerInvariant, PTL

\* The finalizer guards what its comment says (cloudshell_controller.go:52-53): no
\* step of any actor, with any fault, restart, edit or late event before it, makes
\* a deleted cloudshell disappear whose labelled worker is still in use for it or
\* whose ingress path or virtual service route still stands.
THEOREM ControllerFinalizerGuards == Spec => FinalizerGuards
<1>1. IInv /\ [Next]_vars =>
        [\A s \in Shells :
            cs[s].phase = "deleting" /\ cs'[s].phase = "absent" =>
              /\ cs[s].pod # None => pods[cs[s].pod].phase # "live" \/ pods[cs[s].pod].owner # s
              /\ \A r \in routes : r.at = At(s, cs[s].spec) => r.at.mode = "NodePort"]_vars
    BY NextInv DEF GuardStep
<1> QED
    BY <1>1, ControllerInvariant, PTL DEF Spec, FinalizerGuards

\* No step of the goroutine undoes what a user did: an Update of a cloudshell read
\* before other calls (cloudshell_controller.go:319, 353, 432, 513, 531) never takes
\* back a deletion, a new spec or the disappearance of the cloudshell.
THEOREM ControllerUserWritesStand == Spec => UserWritesStand
<1>1. IInv /\ [Next]_vars =>
        [\A s \in Shells :
            /\ cs[s].phase = "deleting" => cs'[s].phase # "live"
            /\ cs'[s].phase # "absent" /\ (cs[s].phase = "absent" \/ cs'[s].spec # cs[s].spec)
                 => UNCHANGED job]_vars
    BY NextStands DEF StandStep
<1> QED
    BY <1>1, ControllerInvariant, PTL DEF Spec, UserWritesStand
=============================================================================
