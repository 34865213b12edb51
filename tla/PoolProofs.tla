----------------------------- MODULE PoolProofs -----------------------------
(***************************************************************************)
(* Theorems about the worker pool and its caller (PoolClient.tla) for any  *)
(* number of pods, cloudshells, images and disturbances.                   *)
(***************************************************************************)
EXTENDS PoolClient, StreamFacts, FiniteSetTheorems, WellFoundedInduction, TLAPS

(***************************************************************************)
(* The strengthening.  WorkersCoherent needs to know that reconcile takes  *)
(* the finalizer only from pods that are being deleted; that a pod once    *)
(* seen as deleted stays deleted; and, since Borrow and Back write the     *)
(* whole object back, that an accepted Update cannot revive a pod.         *)
(***************************************************************************)
\* What is known of a pod's deletion is true at the server.
DeletionKnown ==
    /\ \A w \in Pods : cache[w].phase = "deleting" => server[w].phase # "live"
    /\ \A w \in Pods : \A i \in DOMAIN watch[w] :
          watch[w][i].phase = "deleting" => server[w].phase # "live"
    /\ ptr.obj.phase = "deleting" => server[ptr.name].phase # "live"

\* An object with the server's resource version has the server's phase.
VersionsAgree ==
    /\ \A w \in cur : cache[w].phase = server[w].phase
    /\ \A w \in Pods : watch[w] # <<>> => watch[w][Len(watch[w])].phase = server[w].phase
    /\ ptr.cur => ptr.name \in Pods /\ ptr.obj.phase = server[ptr.name].phase
    /\ ptr.alias => ptr.name \in Pods /\ ptr.obj.phase = cache[ptr.name].phase

StoreInv == StoreTypeOK /\ DeletionKnown /\ VersionsAgree

\* Where each goroutine is says what it holds.
PcInv ==
    /\ rec.pc # "idle" => rec.pod \in Pods
    /\ rec.pc \in {"deleting", "finalizer"} => server[rec.pod].phase # "live"
    /\ hnd.pc # "select" => hnd.todo # <<>>
    /\ clt.pc # "idle" => clt.shell \in Shells
    /\ clt.pc \in {"b_update", "b_remove", "k_read", "k_delete", "k_update", "k_add", "k_signal"}
          => clt.pod \in Pods
    /\ clt.pc \in {"b_update", "k_update"} => ptr.name = clt.pod
    /\ clt.pc = "ret" /\ clt.op = "borrow" /\ clt.ok = "ok" => clt.pod \in Pods

IInv == TypeOK /\ StoreInv /\ PcInv /\ WorkersCoherent
(***************************************************************************)
(* Facts about sequences.                                                  *)
(***************************************************************************)
\* Taking an entry out of a queue, or adding one, leaves a queue.
LEMMA QueueOps ==
    ASSUME NEW S, NEW q \in Seq(S), NEW x
    PROVE  /\ Removed(q, x) \in Seq(S)
           /\ x \in S => Added(q, x) \in Seq(S)
<1>1. ASSUME x \in ToSet(q) PROVE Removed(q, x) \in Seq(S)
  <2> DEFINE i == CHOOSE j \in DOMAIN q : q[j] = x
  <2>1. \E j \in DOMAIN q : q[j] = x
      BY <1>1 DEF ToSet
  <2>2. i \in DOMAIN q
      BY <2>1, Zenon
  <2>3. Removed(q, x) = SubSeq(q, 1, i - 1) \o SubSeq(q, i + 1, Len(q))
      BY <1>1 DEF Removed, RemoveAt
  <2> HIDE DEF i
  <2>4. SubSeq(q, 1, i - 1) \in Seq(S) /\ SubSeq(q, i + 1, Len(q)) \in Seq(S)
      BY <2>2
  <2> QED
      BY <2>3, <2>4
<1>2. x \notin ToSet(q) => Removed(q, x) \in Seq(S)
    BY DEF Removed
<1> QED
    BY <1>1, <1>2 DEF Added

\* What is left of a list of things to do.
LEMMA RestOf ==
    ASSUME NEW S, NEW s \in Seq(S), s # <<>>
    PROVE  Head(s) \in S /\ Tail(s) \in Seq(S) /\ (Len(s) # 1 => Tail(s) # <<>>)
<1>1. Tail(s) \in Seq(S) /\ Len(Tail(s)) = Len(s) - 1 /\ Head(s) = s[1] /\ Len(s) \in Nat \ {0}
    OBVIOUS
<1>2. ASSUME Tail(s) = <<>> PROVE Len(s) = 1
  <2>0. Len(<<>>) = 0
      OBVIOUS
  <2>1. Len(Tail(s)) = Len(<<>>)
      BY <1>2, Zenon
  <2>2. Len(s) - 1 = 0 /\ Len(s) \in Nat
      BY <1>1, <2>0, <2>1
  <2> QED
      BY <2>2
<1>3. s[1] \in S
    BY <1>1
<1> QED
    BY <1>1, <1>2, <1>3

(***************************************************************************)
(* The operations of the store.                                            *)
(***************************************************************************)
\* A pod whose name nothing refers to.
New(w) == cache[w].phase = "absent" /\ watch[w] = <<>> /\ ptr.name # w

\* A write keeps the invariant unless it revives a pod somebody knows of.
LEMMA WriteInv ==
    ASSUME StoreInv, NEW n \in Pods, NEW r \in PodRec, Write(n, r),
           r.phase = "live" => server[n].phase = "live" \/ New(n)
    PROVE  StoreInv' /\ server' = [server EXCEPT ![n] = r]
<1> USE DEF StoreInv
<1>0. ptr' \in PtrRec /\ ptr'.name = ptr.name /\ ptr'.obj = ptr.obj /\ ptr'.alias = ptr.alias
      /\ (ptr'.cur => ptr.cur /\ ptr.name # n)
    BY DEF StoreTypeOK, Write, PtrRec
<1>1. StoreTypeOK'
    BY <1>0 DEF StoreTypeOK, Write
<1>2. DeletionKnown'
  <2>1. \A w \in Pods : \A i \in DOMAIN watch'[w] :
          watch'[w][i].phase = "deleting" => server'[w].phase # "live"
    <3>1. ASSUME NEW i \in DOMAIN watch'[n], watch'[n][i].phase = "deleting" PROVE server'[n].phase # "live"
        BY <3>1, GrowsAtEnd DEF StoreTypeOK, Write, DeletionKnown, New, PodRec
    <3> QED
        BY <3>1 DEF StoreTypeOK, Write, DeletionKnown
  <2> QED
      BY <1>0, <2>1 DEF DeletionKnown, StoreTypeOK, Write, New, PodRec
<1>3. VersionsAgree'
  <2>1. \A w \in Pods : watch'[w] # <<>> => watch'[w][Len(watch'[w])].phase = server'[w].phase
      BY GrowsAtEnd DEF VersionsAgree, StoreTypeOK, Write
  <2> QED
      BY <1>0, <2>1 DEF VersionsAgree, StoreTypeOK, Write
<1> QED
    BY <1>1, <1>2, <1>3 DEF Write

\* So does an Update through the pointer that leaves the phase alone, accepted
\* with or without its answer.
LEMMA UpdateInv ==
    ASSUME StoreInv, NEW r \in PodRec, r.phase = ptr.obj.phase,
           UpdateOK(r, r) \/ UpdateLost(r, r)
    PROVE  /\ StoreInv' /\ ptr.name \in Pods /\ ptr'.name = ptr.name
           /\ server' = [server EXCEPT ![ptr.name] = r]
           /\ server[ptr.name].phase = r.phase
<1> DEFINE n == ptr.name
<1> USE DEF StoreInv
<1>0. ptr.cur /\ n \in Pods /\ server[n].phase = r.phase
    BY DEF UpdateOK, UpdateLost, Accepts, VersionsAgree
<1>1. /\ server' = [server EXCEPT ![n] = r]
      /\ watch' = [watch EXCEPT ![n] = Append(@, r)]
      /\ cache' = IF ptr.alias THEN [cache EXCEPT ![n] = r] ELSE cache
      /\ cur' \subseteq cur \cup (IF ptr.alias THEN {n} ELSE {})
      /\ n \in cur' => ptr.alias
      /\ ptr' \in PtrRec /\ ptr'.name = n /\ ptr'.obj = r /\ ptr'.alias = ptr.alias
    BY <1>0 DEF UpdateOK, UpdateLost, InPlace, StoreTypeOK, PtrRec
<1>2. StoreTypeOK'
    BY <1>0, <1>1 DEF StoreTypeOK
<1>3. DeletionKnown'
  <2>1. \A w \in Pods : \A i \in DOMAIN watch'[w] :
          watch'[w][i].phase = "deleting" => server'[w].phase # "live"
    <3>1. ASSUME NEW i \in DOMAIN watch'[n], watch'[n][i].phase = "deleting" PROVE server'[n].phase # "live"
        BY <1>0, <1>1, <3>1, GrowsAtEnd DEF StoreTypeOK, DeletionKnown, PodRec
    <3> QED
        BY <1>0, <1>1, <3>1 DEF StoreTypeOK, DeletionKnown
  <2> QED
      BY <1>0, <1>1, <2>1 DEF DeletionKnown, StoreTypeOK
<1>4. VersionsAgree'
  <2>1. \A w \in Pods : watch'[w] # <<>> => watch'[w][Len(watch'[w])].phase = server'[w].phase
      BY <1>0, <1>1, GrowsAtEnd DEF VersionsAgree, StoreTypeOK
  <2> QED
      BY <1>0, <1>1, <2>1 DEF VersionsAgree, StoreTypeOK
<1> QED
    BY <1>0, <1>1, <1>2, <1>3, <1>4

\* An object changed in place and not sent.
LEMMA MutateInv ==
    ASSUME StoreInv, NEW r \in PodRec, r.phase = ptr.obj.phase, Mutate(r)
    PROVE  StoreInv' /\ ptr'.name = ptr.name /\ server' = server
BY DEF StoreInv, StoreTypeOK, DeletionKnown, VersionsAgree, Mutate, InPlace, PtrRec

\* The lister hands out the cached object.
LEMMA HoldInv ==
    ASSUME StoreInv, NEW n \in Pods, Hold(n)
    PROVE  StoreInv' /\ ptr'.name = n /\ server' = server
<1> USE DEF StoreInv, Hold
<1>0. (n \in cur) \in BOOLEAN
    OBVIOUS
<1>1. ptr' \in PtrRec /\ ptr'.name = n /\ ptr'.obj = cache[n] /\ ptr'.cur = (n \in cur)
    BY <1>0 DEF StoreTypeOK, PtrRec
<1>2. StoreTypeOK'
    BY <1>1 DEF StoreTypeOK
<1>3. DeletionKnown' /\ VersionsAgree'
    BY <1>1 DEF DeletionKnown, VersionsAgree, StoreTypeOK
<1> QED
    BY <1>1, <1>2, <1>3

\* The goroutine lets go of the object.
LEMMA DropInv ==
    ASSUME StoreInv, ptr' = NoPtr, UNCHANGED <<server, watch, cache, cur>>
    PROVE  StoreInv'
BY DEF StoreInv, StoreTypeOK, DeletionKnown, VersionsAgree, NoPtr, PtrRec, NoPod, PodRec

\* The informer catches up by one version of a pod.
LEMMA DeliverInv ==
    ASSUME StoreInv, NEW n \in Pods, Deliver(n)
    PROVE  StoreInv' /\ ptr'.name = ptr.name /\ server' = server
<1> USE DEF StoreInv, Deliver
<1>1. watch[n] \in Seq(PodRec) /\ watch[n] # <<>>
    BY DEF StoreTypeOK
<1>2. /\ Head(watch[n]) \in PodRec /\ Tail(watch[n]) \in Seq(PodRec)
      /\ Head(watch[n]) = watch[n][1] /\ 1 \in DOMAIN watch[n]
      /\ Len(watch[n]) = 1 => watch[n][Len(watch[n])] = Head(watch[n])
      /\ Tail(watch[n]) # <<>> => Tail(watch[n])[Len(Tail(watch[n]))] = watch[n][Len(watch[n])]
      /\ \A i \in DOMAIN Tail(watch[n]) : i + 1 \in DOMAIN watch[n] /\ Tail(watch[n])[i] = watch[n][i + 1]
    BY <1>1, ShrinksAtFront
<1>3. StoreTypeOK' /\ ptr'.name = ptr.name /\ ptr'.obj = ptr.obj /\ ptr'.cur = ptr.cur
      /\ (ptr'.alias => ptr.alias /\ ptr.name # n)
    BY <1>2 DEF StoreTypeOK, PtrRec
<1>4. DeletionKnown'
    BY <1>2, <1>3 DEF DeletionKnown, StoreTypeOK
<1>5. VersionsAgree'
    BY <1>2, <1>3 DEF VersionsAgree, StoreTypeOK
<1> QED
    BY <1>3, <1>4, <1>5

\* A new process starts from what the server has.
LEMMA RelistInv ==
    ASSUME StoreInv, Relist
    PROVE  StoreInv' /\ server' = server
BY DEF StoreInv, StoreTypeOK, DeletionKnown, VersionsAgree, Relist, NoPtr, PtrRec, NoPod, PodRec

\* Nothing happens to the store.
LEMMA StoreSame ==
    ASSUME StoreInv, UNCHANGED store
    PROVE  StoreInv' /\ server' = server /\ ptr' = ptr
BY DEF StoreInv, StoreTypeOK, DeletionKnown, VersionsAgree, store

(***************************************************************************)
(* The steps of the goroutines that leave the store alone.                 *)
(***************************************************************************)
\* The request handler goes on to the next entry of its snapshot.
LEMMA HndContinues ==
    ASSUME Tail(hnd.todo) \in Seq(Requests), Len(hnd.todo) # 1 => Tail(hnd.todo) # <<>>, Continue
    PROVE  hnd' \in [pc : HndPCs, todo : Seq(Requests)] /\ (hnd'.pc # "select" => hnd'.todo # <<>>)
<1>1. <<>> \in Seq(Requests)
    OBVIOUS
<1>2. CASE hnd' = HndIdle
    BY <1>1, <1>2 DEF HndIdle, HndPCs
<1>3. CASE Len(hnd.todo) # 1 /\ hnd' = [pc |-> "match", todo |-> Tail(hnd.todo)]
    BY <1>3 DEF HndPCs
<1> QED
    BY <1>2, <1>3 DEF Continue

\* They keep the invariant: what a goroutine holds is what its place says.
LEMMA QuietSteps ==
    ASSUME IInv, UNCHANGED store,
           \/ \E w \in Pods : ProcessNext(w)
           \/ Reconcile \/ Tick \/ SignalFromReconcile \/ SignalFromClient
           \/ HandleHit \/ HandleRemove
           \/ ScaleInList \/ ScaleInRemove \/ BorrowRemove \/ BackAdd
           \/ \E s \in Shells : CreateShell(s) \/ DeleteShell(s) \/ SyncBack(s) \/ SyncDone(s)
    PROVE  IInv'
<1> USE DEF IInv
<1>0. StoreInv' /\ server' = server /\ ptr' = ptr /\ WorkersCoherent' /\ StoreTypeOK'
    BY StoreSame DEF StoreInv, WorkersCoherent
<1> SUFFICES TypeOK' /\ PcInv'
    BY <1>0
<1>1. ASSUME NEW w \in Pods, ProcessNext(w) PROVE TypeOK' /\ PcInv'
  <2> USE <1>1, <1>0 DEF ProcessNext, RecIdle, world
  <2>1. rec' \in [pc : RecPCs, pod : Pods \cup {None}]
      BY DEF RecPCs
  <2>2. TypeOK'
      BY <2>1 DEF TypeOK, PoolTypeOK
  <2>3. PcInv'
      BY DEF PcInv, StoreInv, DeletionKnown
  <2> QED
      BY <2>2, <2>3
<1>2. CASE Reconcile
  <2>0. rec.pod \in Pods /\ workerQueue \in Seq(Pods)
      BY <1>2 DEF Reconcile, PcInv, TypeOK, PoolTypeOK
  <2>1. Removed(workerQueue, rec.pod) \in Seq(Pods) /\ Added(workerQueue, rec.pod) \in Seq(Pods)
      BY <2>0, QueueOps
  <2> USE <1>2, <1>0 DEF Reconcile, RecIdle, world
  <2>2. workerQueue' \in Seq(Pods)
      BY <2>1
  <2>3. rec' \in [pc : RecPCs, pod : Pods \cup {None}]
      BY DEF TypeOK, PoolTypeOK, RecPCs
  <2>4. TypeOK'
      BY <2>2, <2>3 DEF TypeOK, PoolTypeOK
  <2>5. PcInv'
      BY DEF PcInv, TypeOK, PoolTypeOK
  <2> QED
      BY <2>4, <2>5
<1>3. CASE Tick \/ SignalFromReconcile \/ SignalFromClient
  <2> USE <1>3, <1>0 DEF Tick, SignalFromReconcile, SignalFromClient, Snapshot, HndIdle, RecIdle
  <2>1. hnd' \in [pc : HndPCs, todo : Seq(Requests)] /\ (hnd'.pc # "select" => hnd'.todo # <<>>)
      BY DEF TypeOK, PoolTypeOK, HndPCs
  <2>2. rec' \in [pc : RecPCs, pod : Pods \cup {None}] /\ (rec' = rec \/ rec'.pc = "idle")
      BY DEF TypeOK, PoolTypeOK, RecPCs
  <2>3. TypeOK'
      BY <2>1, <2>2 DEF TypeOK, PoolTypeOK, CltPCs, queues, world
  <2>4. CASE Tick \/ SignalFromReconcile
    <3>1. PcInv'
        BY <2>1, <2>2, <2>4 DEF PcInv
    <3> QED
        BY <2>3, <3>1
  <2>5. CASE SignalFromClient
    <3>1. clt.shell \in Shells /\ (clt.pc = "k_signal" => clt.pod \in Pods)
        BY <2>5 DEF PcInv
    <3>2. /\ clt'.pc = "ret" /\ clt'.shell \in Shells
          /\ clt'.ok = "ok" => clt'.pod \in Pods
        BY <2>5, <3>1 DEF TypeOK, PoolTypeOK
    <3>3. PcInv'
        BY <2>1, <2>5, <3>2 DEF PcInv
    <3> QED
        BY <2>3, <3>3
  <2> QED
      BY <1>3, <2>3, <2>4, <2>5
<1>4. CASE HandleHit \/ HandleRemove
  <2>1. hnd.todo \in Seq(Requests) /\ hnd.todo # <<>> /\ requestQueue \in Seq(Requests)
      BY <1>4 DEF TypeOK, PoolTypeOK, PcInv, HandleHit, HandleRemove
  <2>2. Head(hnd.todo) \in Requests /\ Tail(hnd.todo) \in Seq(Requests)
        /\ (Len(hnd.todo) # 1 => Tail(hnd.todo) # <<>>)
      BY <2>1, RestOf
  <2>0. Removed(requestQueue, Head(hnd.todo)) \in Seq(Requests)
      BY <2>1, <2>2, QueueOps
  <2> USE <1>4, <1>0 DEF HandleHit, HandleRemove, Fault, NoFault, Disturb
  <2>3. requestQueue' \in Seq(Requests)
      BY <2>0, <2>1
  <2>4. hnd' \in [pc : HndPCs, todo : Seq(Requests)] /\ (hnd'.pc # "select" => hnd'.todo # <<>>)
    <3>1. CASE Continue
        BY <2>2, <3>1, HndContinues
    <3>2. CASE hnd' = [hnd EXCEPT !.pc = "remove"]
      <4>1. hnd \in [pc : HndPCs, todo : Seq(Requests)]
          BY DEF TypeOK, PoolTypeOK
      <4> QED
          BY ONLY <2>1, <3>2, <4>1 DEF HndPCs
    <3>3. Continue \/ hnd' = [hnd EXCEPT !.pc = "remove"]
        BY ONLY <1>4 DEF HandleHit, HandleRemove
    <3> QED
        BY ONLY <3>1, <3>2, <3>3
  <2>5. shellQ' \subseteq Shells /\ trouble' \in 0 .. MaxTrouble
      BY <2>2, PoolAssumption DEF TypeOK, PoolTypeOK, Requests, PoolAssumption
  <2>6. TypeOK'
      BY <2>3, <2>4, <2>5 DEF TypeOK, PoolTypeOK, world
  <2>7. PcInv'
      BY <2>4 DEF PcInv
  <2> QED
      BY <2>6, <2>7
<1>5. CASE ScaleInList \/ ScaleInRemove
  <2>0. workerQueue \in Seq(Pods) /\ \A x : Removed(workerQueue, x) \in Seq(Pods)
      BY QueueOps DEF TypeOK, PoolTypeOK
  <2>1. scl' \in [bad : SUBSET Pods, idle : SUBSET Pods, gone : SUBSET Pods]
    <3>1. CASE ScaleInList
      <4>1. PICK bad \in SUBSET {w \in Listed : ~cache[w].ready}, v \in SUBSET IdleListed :
               scl' = [bad |-> bad, idle |-> v, gone |-> {}]
          BY <3>1 DEF ScaleInList
      <4>2. bad \subseteq Pods /\ v \subseteq Pods
          BY DEF Listed, IdleListed
      <4> QED
          BY <4>1, <4>2
    <3>2. CASE ScaleInRemove
        BY <3>2 DEF ScaleInRemove, TypeOK, PoolTypeOK
    <3> QED
        BY <1>5, <3>1, <3>2
  <2> USE <1>5, <1>0 DEF ScaleInList, ScaleInRemove, Disturb
  <2>2. workerQueue' \in Seq(Pods)
      BY <2>0 DEF queues
  <2>3. trouble' \in 0 .. MaxTrouble
      BY PoolAssumption DEF TypeOK, PoolTypeOK, PoolAssumption
  <2>4. TypeOK'
      BY <2>1, <2>2, <2>3 DEF TypeOK, PoolTypeOK, world, queues
  <2>5. PcInv'
      BY DEF PcInv
  <2> QED
      BY <2>4, <2>5
<1>6. CASE BorrowRemove \/ BackAdd
  <2>1. clt.pod \in Pods /\ workerQueue \in Seq(Pods)
      BY <1>6 DEF PcInv, TypeOK, PoolTypeOK, BorrowRemove, BackAdd
  <2>0. Removed(workerQueue, clt.pod) \in Seq(Pods) /\ Added(workerQueue, clt.pod) \in Seq(Pods)
      BY <2>1, QueueOps
  <2> USE <1>6, <1>0 DEF BorrowRemove, BackAdd, Return
  <2>2. workerQueue' \in Seq(Pods)
      BY <2>0
  <2>6. clt.shell \in Shells
      BY DEF PcInv
  <2>7. clt' = [clt EXCEPT !.pc = "k_signal"] \/ clt' = [clt EXCEPT !.pc = "ret", !.ok = "ok"]
      OBVIOUS
  <2>8. clt \in [pc : CltPCs, op : {"none", "borrow", "back"}, shell : Shells \cup {None},
                pod : Pods \cup {None}, req : BOOLEAN, ok : {"none", "ok", "error", "notworker"}]
      BY DEF TypeOK, PoolTypeOK
  <2>5. /\ clt' \in [pc : CltPCs, op : {"none", "borrow", "back"}, shell : Shells \cup {None},
                      pod : Pods \cup {None}, req : BOOLEAN, ok : {"none", "ok", "error", "notworker"}]
        /\ clt'.pc \in {"ret", "k_signal"} /\ clt'.pod \in Pods /\ clt'.shell \in Shells
      BY ONLY <2>1, <2>6, <2>7, <2>8 DEF CltPCs
  <2>3. TypeOK'
      BY <2>2, <2>5 DEF TypeOK, PoolTypeOK, world
  <2>4. PcInv'
      BY <2>5 DEF PcInv
  <2> QED
      BY <2>3, <2>4
<1>7. ASSUME NEW s \in Shells, CreateShell(s) \/ DeleteShell(s) \/ SyncDone(s) PROVE TypeOK' /\ PcInv'
  <2> USE <1>7, <1>0 DEF CreateShell, DeleteShell, SyncDone
  <2>1. caller' \in CallerType
      BY ClientAssumption DEF TypeOK, CallerType, ClientAssumption
  <2>2. TypeOK'
      BY <2>1 DEF TypeOK, PoolTypeOK
  <2>3. PcInv'
      BY DEF PcInv
  <2> QED
      BY <2>2, <2>3
<1>8. ASSUME NEW s \in Shells, SyncBack(s) PROVE TypeOK' /\ PcInv'
  <2> USE <1>8, <1>0 DEF SyncBack, Back, MustBack, CltIdle, bound
  <2>1. caller' \in CallerType /\ caller.bound[s] \in Pods
      BY DEF TypeOK, CallerType
  <2>2. TypeOK'
      BY <2>1 DEF TypeOK, PoolTypeOK, CltPCs
  <2>3. PcInv'
      BY <2>1 DEF PcInv
  <2> QED
      BY <2>2, <2>3
<1> QED
    BY <1>1, <1>2, <1>3, <1>4, <1>5, <1>6, <1>7, <1>8

(***************************************************************************)
(* The steps that change the store.                                        *)
(***************************************************************************)
\* What a step of the store owes to the others: its invariant, coherent pods, the
\* pointer where it was, and no revival of the pod reconcile is working on.
StoreKept ==
    /\ StoreInv' /\ WorkersCoherent' /\ ptr'.name = ptr.name
    /\ rec.pc # "idle" /\ server'[rec.pod].phase = "live" => server[rec.pod].phase = "live"

\* A coherent write owes nothing unless it revives a pod reconcile is deleting.
LEMMA WriteKept ==
    ASSUME IInv, NEW n \in Pods, NEW r \in PodRec, Write(n, r), Coherent(r),
           r.phase = "live" => server[n].phase = "live" \/ (New(n) /\ rec.pod # n)
    PROVE  StoreKept
<1>1. StoreInv' /\ server' = [server EXCEPT ![n] = r]
    BY WriteInv DEF IInv
<1>2. server \in [Pods -> PodRec] /\ ptr \in PtrRec
    BY DEF IInv, StoreInv, StoreTypeOK
<1>3. WorkersCoherent'
    BY <1>1, <1>2 DEF IInv, WorkersCoherent
<1>4. ptr'.name = ptr.name
    BY <1>2 DEF Write, PtrRec
<1>5. rec.pc # "idle" /\ server'[rec.pod].phase = "live" => server[rec.pod].phase = "live"
    BY <1>1, <1>2 DEF IInv, PcInv
<1> QED
    BY <1>1, <1>3, <1>4, <1>5 DEF StoreKept

\* Nor does a step that leaves the store alone.
LEMMA SameKept ==
    ASSUME IInv, UNCHANGED store
    PROVE  StoreKept
BY StoreSame DEF IInv, StoreKept, WorkersCoherent

\* Nor does a deletion.
LEMMA DeleteKept ==
    ASSUME IInv, NEW w \in Pods, Delete(w)
    PROVE  StoreKept
<1>1. CASE UNCHANGED store
    BY <1>1, SameKept
<1>2. CASE server[w].phase = "live" /\ Write(w, [server[w] EXCEPT !.phase = "deleting"])
  <2>1. server[w] \in PodRec /\ Coherent(server[w])
      BY DEF IInv, StoreInv, StoreTypeOK, WorkersCoherent
  <2> DEFINE r == [server[w] EXCEPT !.phase = "deleting"]
  <2>2. r \in PodRec /\ Coherent(r) /\ r.phase # "live"
      BY <2>1 DEF PodRec, Coherent, Idle
  <2> QED
      BY <1>2, <2>2, WriteKept
<1> QED
    BY <1>1, <1>2 DEF Delete

\* The other goroutines keep their places.
LEMMA OthersStay ==
    ASSUME IInv, StoreKept, UNCHANGED clt, rec' \in {rec, RecIdle},
           hnd'.pc # "select" => hnd'.todo # <<>>
    PROVE  PcInv'
<1> USE DEF IInv, PcInv, StoreKept
<1>1. rec'.pc # "idle" => rec' = rec
    BY DEF RecIdle
<1>2. /\ rec'.pc # "idle" => rec'.pod \in Pods
      /\ rec'.pc \in {"deleting", "finalizer"} => server'[rec'.pod].phase # "live"
    BY <1>1
<1> QED
    BY <1>2

\* The kubelet's and the users' steps, and the informer's.
LEMMA PodSteps ==
    ASSUME IInv, NEW w \in Pods,
           PodEvent(w) \/ BecomeReady(w) \/ StatusUpdate(w) \/ PodDeleted(w) \/ PodReaped(w)
    PROVE  IInv'
<1> USE DEF IInv
<1>1. server[w] \in PodRec /\ Coherent(server[w]) /\ NoPod \in PodRec /\ Coherent(NoPod)
    BY DEF StoreInv, StoreTypeOK, WorkersCoherent, NoPod, PodRec, Coherent, Idle
<1>2. ASSUME NEW r \in BOOLEAN, Write(w, [server[w] EXCEPT !.ready = r]), server[w].phase = "live"
      PROVE  StoreKept
  <2> DEFINE q == [server[w] EXCEPT !.ready = r]
  <2>1. q \in PodRec /\ Coherent(q)
      BY <1>1 DEF PodRec, Coherent, Idle
  <2> QED
      BY <1>2, <2>1, WriteKept
<1>3. StoreKept
  <2>1. CASE PodEvent(w)
      BY <2>1, DeliverInv DEF PodEvent, StoreKept, WorkersCoherent
  <2>2. CASE BecomeReady(w)
      BY <2>2, <1>2 DEF BecomeReady
  <2>3. CASE StatusUpdate(w)
      BY <2>3, <1>2 DEF StatusUpdate
  <2>4. CASE PodDeleted(w)
      BY <2>4, DeleteKept DEF PodDeleted
  <2>5. CASE PodReaped(w)
    <3>1. NoPod.phase # "live"
        BY DEF NoPod
    <3> QED
        BY <2>5, <1>1, <3>1, WriteKept DEF PodReaped, Reap
  <2> QED
      BY <2>1, <2>2, <2>3, <2>4, <2>5
<1>4. trouble' \in 0 .. MaxTrouble /\ wq' \subseteq Pods /\ shellQ' \subseteq Shells
  <2>1. trouble' \in 0 .. MaxTrouble
      BY PoolAssumption
         DEF PoolAssumption, TypeOK, PoolTypeOK, PodEvent, BecomeReady, StatusUpdate, PodDeleted,
             PodReaped, Disturb
  <2>2. CASE PodEvent(w)
    <3>1. watch[w] \in Seq(PodRec) /\ watch[w] # <<>>
        BY <2>2 DEF StoreInv, StoreTypeOK, PodEvent, Deliver
    <3>2. Event(w) \in PodRec
        BY <3>1, ShrinksAtFront DEF StoreInv, StoreTypeOK, Event
    <3>3. Idle(Event(w)) \/ Event(w).owner \in Shells
        BY <3>2 DEF PodRec, Idle
    <3> QED
        BY <2>1, <2>2, <3>3 DEF PodEvent, Enqueue, EnqueueShell, TypeOK, PoolTypeOK
  <2>3. CASE ~PodEvent(w)
      BY <2>1, <2>3 DEF BecomeReady, StatusUpdate, PodDeleted, PodReaped, queues, TypeOK, PoolTypeOK
  <2> QED
      BY <2>2, <2>3
<1>5. UNCHANGED <<workerQueue, requestQueue, world, rec, hnd, scl, clt>>
    BY DEF PodEvent, BecomeReady, StatusUpdate, PodDeleted, PodReaped, queues
<1>6. TypeOK'
    BY <1>3, <1>4, <1>5 DEF StoreKept, StoreInv, TypeOK, PoolTypeOK, world
<1>7. PcInv'
    BY <1>3, <1>5, OthersStay DEF PcInv
<1> QED
    BY <1>3, <1>6, <1>7 DEF StoreKept

\* The writes of reconcile, of the request handler and of scale-in.
LEMMA PoolWrites ==
    ASSUME IInv, RemoveFinalizer \/ HandleMiss \/ \E w \in Pods : ScaleInDelete(w)
    PROVE  IInv'
<1> USE DEF IInv
<1>1. CASE RemoveFinalizer
  <2>1. rec.pod \in Pods /\ server[rec.pod].phase # "live"
      BY <1>1 DEF RemoveFinalizer, PcInv
  <2>2. server[rec.pod] \in PodRec /\ Coherent(server[rec.pod])
      BY <2>1 DEF StoreInv, StoreTypeOK, WorkersCoherent
  <2> DEFINE r == [server[rec.pod] EXCEPT !.fin = FALSE]
  <2>3. r \in PodRec /\ Coherent(r) /\ r.phase # "live"
      BY <2>1, <2>2 DEF PodRec, Coherent, Idle
  <2>4. StoreKept
    <3>1. CASE Write(rec.pod, r)
        BY <2>1, <2>3, <3>1, WriteKept
    <3>2. CASE UNCHANGED store
        BY <3>2, SameKept
    <3> QED
        BY <1>1, <3>1, <3>2 DEF RemoveFinalizer
  <2>5. rec' = RecIdle /\ UNCHANGED <<workerQueue, requestQueue, shellQ, world, hnd, scl, clt>>
      BY <1>1 DEF RemoveFinalizer
  <2>6. wq' \subseteq Pods /\ trouble' \in 0 .. MaxTrouble
      BY <1>1, <2>1, PoolAssumption
         DEF RemoveFinalizer, PoolAssumption, TypeOK, PoolTypeOK, Fault, NoFault, Disturb
  <2>7. RecIdle \in [pc : RecPCs, pod : Pods \cup {None}]
      BY DEF RecIdle, RecPCs
  <2>8. TypeOK'
      BY <2>4, <2>5, <2>6, <2>7 DEF StoreKept, StoreInv, TypeOK, PoolTypeOK, world
  <2>9. PcInv'
      BY <2>4, <2>5, OthersStay DEF PcInv
  <2> QED
      BY <2>4, <2>8, <2>9 DEF StoreKept
<1>2. CASE HandleMiss
  <2>1. hnd.todo \in Seq(Requests) /\ hnd.todo # <<>>
      BY <1>2 DEF HandleMiss, PcInv, TypeOK, PoolTypeOK
  <2>2. Head(hnd.todo) \in Requests /\ Tail(hnd.todo) \in Seq(Requests)
        /\ (Len(hnd.todo) # 1 => Tail(hnd.todo) # <<>>)
      BY <2>1, RestOf
  <2>3. hnd' \in [pc : HndPCs, todo : Seq(Requests)] /\ (hnd'.pc # "select" => hnd'.todo # <<>>)
      BY <1>2, <2>2, HndContinues DEF HandleMiss
  <2> DEFINE r == NewWorker(Head(hnd.todo))
  <2>4. r \in PodRec /\ Coherent(r)
      BY <2>2 DEF NewWorker, Requests, PodRec, Coherent, Idle
  <2>5. StoreKept
    <3>1. ASSUME NEW w \in Pods, Unused(w), Write(w, r) PROVE StoreKept
        BY <2>4, <3>1, WriteKept DEF Unused, New
    <3>2. CASE UNCHANGED store
        BY <3>2, SameKept
    <3> QED
        BY <1>2, <3>1, <3>2 DEF HandleMiss
  <2>6. UNCHANGED <<queues, world, rec, scl, clt>> /\ trouble' \in 0 .. MaxTrouble
      BY <1>2, PoolAssumption
         DEF HandleMiss, PoolAssumption, TypeOK, PoolTypeOK, Fault, NoFault, Disturb
  <2>7. TypeOK'
      BY <2>3, <2>5, <2>6 DEF StoreKept, StoreInv, TypeOK, PoolTypeOK, world, queues
  <2>8. PcInv'
      BY <2>3, <2>5, <2>6, OthersStay
  <2> QED
      BY <2>5, <2>7, <2>8 DEF StoreKept
<1>3. ASSUME NEW w \in Pods, ScaleInDelete(w) PROVE IInv'
  <2>1. StoreKept
      BY <1>3, DeleteKept, SameKept DEF ScaleInDelete
  <2>2. scl' \in [bad : SUBSET Pods, idle : SUBSET Pods, gone : SUBSET Pods]
      BY <1>3 DEF ScaleInDelete, TypeOK, PoolTypeOK
  <2>3. UNCHANGED <<queues, world, rec, hnd, clt>> /\ trouble' \in 0 .. MaxTrouble
      BY <1>3, PoolAssumption
         DEF ScaleInDelete, PoolAssumption, TypeOK, PoolTypeOK, Fault, NoFault, Disturb
  <2>4. TypeOK'
      BY <2>1, <2>2, <2>3 DEF StoreKept, StoreInv, TypeOK, PoolTypeOK, world, queues
  <2>5. PcInv'
      BY <2>1, <2>3, OthersStay DEF PcInv
  <2> QED
      BY <2>1, <2>4, <2>5 DEF StoreKept
<1> QED
    BY <1>1, <1>2, <1>3

(***************************************************************************)
(* The steps of the controller goroutine that touch the store.             *)
(***************************************************************************)
CltType == [pc : CltPCs, op : {"none", "borrow", "back"}, shell : Shells \cup {None},
            pod : Pods \cup {None}, req : BOOLEAN, ok : {"none", "ok", "error", "notworker"}]

\* A call under way knows its cloudshell and its pod; it returns no worker that
\* it does not have.
InCall(c) ==
    /\ c \in CltType /\ c.shell \in Shells
    /\ c.pod \in Pods \/ (c.pc \in {"b_signal", "ret"} /\ c.ok # "ok")

\* Only the controller goroutine moves.
LEMMA ClientMoves ==
    ASSUME IInv, InCall(clt'), UNCHANGED <<rec, hnd, scl, exists, caller, wq, workerQueue>>,
           clt'.pc \in {"b_update", "k_update"} => ptr'.name = clt'.pod,
           StoreInv', WorkersCoherent',
           rec.pc # "idle" /\ server'[rec.pod].phase = "live" => server[rec.pod].phase = "live",
           requestQueue' \in Seq(Requests), shellQ' \subseteq Shells, trouble' \in 0 .. MaxTrouble
    PROVE  IInv'
<1> USE DEF IInv
<1>1. TypeOK'
    BY DEF StoreInv, TypeOK, PoolTypeOK, InCall, CltType
<1>2. PcInv'
  <2>1. /\ rec'.pc # "idle" => rec'.pod \in Pods
        /\ rec'.pc \in {"deleting", "finalizer"} => server'[rec'.pod].phase # "live"
        /\ hnd'.pc # "select" => hnd'.todo # <<>>
      BY DEF PcInv
  <2> QED
      BY <2>1 DEF PcInv, InCall
<1> QED
    BY <1>1, <1>2

\* The place of the controller goroutine inside Borrow and Back.
LEMMA CltPlaces ==
    ASSUME IInv, NEW pc \in {"b_update", "k_read", "k_delete", "k_update"}, clt.pc = pc
    PROVE  /\ clt \in CltType /\ clt.shell \in Shells /\ clt.pod \in Pods
           /\ pc \in {"b_update", "k_update"} => ptr.name = clt.pod
           /\ \A c \in CltPCs : InCall([clt EXCEPT !.pc = c])
           /\ \A o \in {"ok", "error"} : InCall([clt EXCEPT !.pc = "ret", !.ok = o])
<1>1. clt \in CltType /\ clt.shell \in Shells /\ clt.pod \in Pods
    BY DEF IInv, PcInv, TypeOK, PoolTypeOK, CltType
<1>2. pc \in {"b_update", "k_update"} => ptr.name = clt.pod
    BY DEF IInv, PcInv
<1>3. ASSUME NEW c \in CltPCs PROVE InCall([clt EXCEPT !.pc = c])
    BY <1>1 DEF InCall, CltType
<1>4. ASSUME NEW o \in {"ok", "error"} PROVE InCall([clt EXCEPT !.pc = "ret", !.ok = o])
    BY <1>1 DEF InCall, CltType, CltPCs
<1> QED
    BY <1>1, <1>2, <1>3, <1>4

\* Back deletes a surplus or broken worker.
LEMMA BackDeleteInv ==
    ASSUME IInv, BackDelete
    PROVE  IInv'
<1>1. clt.pc = "k_delete"
    BY DEF BackDelete
<1>2. clt.pod \in Pods /\ \A o \in {"ok", "error"} : InCall([clt EXCEPT !.pc = "ret", !.ok = o])
    BY <1>1, CltPlaces
<1>3. StoreKept
    BY <1>2, DeleteKept, SameKept DEF BackDelete
<1>4. InCall(clt') /\ clt'.pc = "ret"
    BY <1>2 DEF BackDelete, Return, InCall, CltType
<1>5. trouble' \in 0 .. MaxTrouble
    BY PoolAssumption
       DEF IInv, BackDelete, PoolAssumption, TypeOK, PoolTypeOK, Fault, NoFault, Disturb
<1>6. UNCHANGED <<queues, world, rec, hnd, scl>>
    BY DEF BackDelete
<1>7. requestQueue' \in Seq(Requests) /\ shellQ' \subseteq Shells
    BY <1>6 DEF IInv, TypeOK, PoolTypeOK, queues
<1> QED
    BY <1>3, <1>4, <1>5, <1>6, <1>7, ClientMoves DEF StoreKept, queues, world

\* Back reads the worker from the lister.
LEMMA BackReadInv ==
    ASSUME IInv, BackRead
    PROVE  IInv'
<1>1. clt.pc = "k_read"
    BY DEF BackRead
<1>2. clt \in CltType /\ clt.pod \in Pods /\ clt.shell \in Shells
    BY <1>1, CltPlaces
<1>3. StoreInv' /\ server' = server
    BY <1>2, StoreSame, HoldInv DEF IInv, BackRead
<1>4. InCall(clt') /\ (clt'.pc \in {"b_update", "k_update"} => ptr'.name = clt'.pod)
  <2>1. CASE Return("ok")
      BY <1>2, <2>1 DEF Return, InCall, CltType, CltPCs
  <2>2. CASE clt' = [clt EXCEPT !.pc = "k_delete"]
      BY <1>2, <2>2 DEF InCall, CltType, CltPCs
  <2>3. CASE Hold(clt.pod) /\ clt' = [clt EXCEPT !.pc = "k_update", !.req = Wanted(clt.pod)]
    <3>1. Wanted(clt.pod) \in BOOLEAN
        BY DEF Wanted
    <3>2. InCall(clt') /\ clt'.pod = clt.pod
        BY <1>2, <2>3, <3>1 DEF InCall, CltType, CltPCs
    <3>3. ptr'.name = clt.pod
        BY <2>3 DEF Hold
    <3> QED
        BY <3>2, <3>3
  <2> QED
      BY <2>1, <2>2, <2>3 DEF BackRead
<1>5. UNCHANGED <<queues, world, rec, hnd, scl, trouble>>
    BY DEF BackRead
<1>6. requestQueue' \in Seq(Requests) /\ shellQ' \subseteq Shells /\ trouble' \in 0 .. MaxTrouble
    BY <1>5 DEF IInv, TypeOK, PoolTypeOK, queues
<1>7. WorkersCoherent'
    BY <1>3 DEF IInv, WorkersCoherent
<1> QED
    BY <1>3, <1>4, <1>5, <1>6, <1>7, ClientMoves DEF queues, world

\* Borrow and Back write back an object of the phase it was read with.
LEMMA UpdateKept ==
    ASSUME IInv, NEW p \in PodRec, p.phase = ptr.obj.phase, Coherent(p),
           UpdateOK(p, p) \/ UpdateLost(p, p) \/ Mutate(p)
    PROVE  StoreKept
<1> USE DEF IInv
<1>1. CASE Mutate(p)
    BY <1>1, MutateInv DEF StoreKept, WorkersCoherent
<1>2. CASE UpdateOK(p, p) \/ UpdateLost(p, p)
  <2>1. /\ StoreInv' /\ ptr.name \in Pods /\ ptr'.name = ptr.name
        /\ server' = [server EXCEPT ![ptr.name] = p]
        /\ server[ptr.name].phase = p.phase
      BY <1>2, UpdateInv
  <2>2. server \in [Pods -> PodRec]
      BY DEF StoreInv, StoreTypeOK
  <2>3. WorkersCoherent'
      BY <2>1, <2>2 DEF WorkersCoherent
  <2>4. rec.pc # "idle" /\ server'[rec.pod].phase = "live" => server[rec.pod].phase = "live"
      BY <2>1, <2>2 DEF PcInv
  <2> QED
      BY <2>1, <2>3, <2>4 DEF StoreKept
<1> QED
    BY <1>1, <1>2

\* The Updates of Borrow and Back, accepted, refused, failed or unanswered.
LEMMA UpdateSteps ==
    ASSUME IInv, BorrowUpdate \/ BackUpdate
    PROVE  IInv'
<1>1. clt.pc \in {"b_update", "k_update"}
    BY DEF BorrowUpdate, BackUpdate
<1>2. /\ clt.shell \in Shells /\ clt.pod \in Pods /\ ptr.name = clt.pod
      /\ \A c \in CltPCs : InCall([clt EXCEPT !.pc = c])
      /\ \A o \in {"ok", "error"} : InCall([clt EXCEPT !.pc = "ret", !.ok = o])
    BY <1>1, CltPlaces
<1>3. ptr.obj \in PodRec
    BY DEF IInv, StoreInv, StoreTypeOK, PtrRec
<1>4. StoreKept
  <2>1. CASE BorrowUpdate
    <3> DEFINE p == Borrowed(ptr.obj, clt.shell)
    <3>1. p \in PodRec /\ p.phase = ptr.obj.phase /\ Coherent(p)
        BY <1>2, <1>3, PoolAssumption DEF Borrowed, PodRec, Coherent, Idle, PoolAssumption
    <3>2. UpdateOK(p, p) \/ UpdateLost(p, p) \/ Mutate(p)
        BY <2>1 DEF BorrowUpdate
    <3> QED
        BY <3>1, <3>2, UpdateKept
  <2>2. CASE BackUpdate
    <3> DEFINE p == Returned(ptr.obj)
    <3>1. p \in PodRec /\ p.phase = ptr.obj.phase /\ Coherent(p)
        BY <1>3 DEF Returned, PodRec, Coherent, Idle
    <3>2. UpdateOK(p, p) \/ UpdateLost(p, p) \/ Mutate(p)
        BY <2>2 DEF BackUpdate
    <3> QED
        BY <3>1, <3>2, UpdateKept
  <2> QED
      BY <2>1, <2>2
<1>5. InCall(clt') /\ clt'.pc \notin {"b_update", "k_update"}
  <2>1. \/ \E c \in {"b_remove", "k_add", "k_read"} : clt' = [clt EXCEPT !.pc = c]
        \/ clt' = [clt EXCEPT !.pc = "ret", !.ok = "error"]
      BY DEF BorrowUpdate, BackUpdate, Return
  <2>2. clt \in CltType
      BY <1>1, CltPlaces
  <2>3. CASE \E c \in {"b_remove", "k_add", "k_read"} : clt' = [clt EXCEPT !.pc = c]
    <3>1. PICK c \in {"b_remove", "k_add", "k_read"} : clt' = [clt EXCEPT !.pc = c]
        BY <2>3
    <3>2. c \in CltPCs
        BY DEF CltPCs
    <3> QED
        BY <1>2, <2>2, <3>1, <3>2 DEF CltType
  <2>4. CASE clt' = [clt EXCEPT !.pc = "ret", !.ok = "error"]
      BY <1>2, <2>2, <2>4 DEF CltType
  <2> QED
      BY <2>1, <2>3, <2>4
<1>6. UNCHANGED <<queues, world, rec, hnd, scl>>
    BY DEF BorrowUpdate, BackUpdate
<1>7. trouble' \in 0 .. MaxTrouble
    BY PoolAssumption
       DEF IInv, BorrowUpdate, BackUpdate, PoolAssumption, TypeOK, PoolTypeOK, Fault, NoFault, Disturb
<1>8. requestQueue' \in Seq(Requests) /\ shellQ' \subseteq Shells
    BY <1>6 DEF IInv, TypeOK, PoolTypeOK, queues
<1> QED
    BY <1>4, <1>5, <1>6, <1>7, <1>8, ClientMoves DEF StoreKept, queues, world

\* matchWorkerFor returns an entry of the worker queue.
LEMMA FirstInQueue ==
    ASSUME TypeOK, NEW img, ~NoWorker(img)
    PROVE  First(img) \in Pods
<1> DEFINE C == Candidates(img)
<1>1. workerQueue \in Seq(Pods) /\ C # {} /\ C \subseteq DOMAIN workerQueue
    BY DEF TypeOK, PoolTypeOK, NoWorker, Candidates
<1>2. C \subseteq Nat
    BY <1>1
<1> HIDE DEF C
<1> DEFINE lt == {ss \in Nat \X Nat : ss[1] < ss[2]}
<1>0. IsWellFoundedOn(lt, Nat)
    BY NatLessThanWellFounded DEF OpToRel
<1>3. PICK i \in C : \A j \in C : ~(<<j, i>> \in lt)
  <2> HIDE DEF lt
  <2> QED
    BY <1>0, <1>1, <1>2, WFMin
<1>4. ASSUME NEW j \in C PROVE i <= j
  <2>1. i \in Nat /\ j \in Nat
      BY <1>2
  <2>2. j < i => <<j, i>> \in lt
      BY <2>1
  <2> QED
      BY <1>3, <2>1, <2>2
<1>5. \E k \in C : \A j \in C : k <= j
    BY <1>4
<1> DEFINE k == CHOOSE m \in C : \A j \in C : m <= j
<1>6. k \in C
    BY <1>5, Zenon
<1>7. First(img) = workerQueue[k]
    BY DEF First, C
<1> HIDE DEF k
<1> QED
    BY <1>1, <1>6, <1>7

\* The controller calls Borrow.
LEMMA SyncBorrowInv ==
    ASSUME IInv, NEW s \in Shells, SyncBorrow(s)
    PROVE  IInv'
<1> DEFINE img == ShellImage[s]
           call == [CltIdle EXCEPT !.op = "borrow", !.shell = s]
<1>1. Borrow(s, img) /\ shellQ' = shellQ \ {s} /\ UNCHANGED world
    BY DEF SyncBorrow
<1>2. [shell |-> s, img |-> img] \in Requests
    BY ClientAssumption DEF ClientAssumption, Requests
<1>3. requestQueue' \in Seq(Requests) /\ shellQ' \subseteq Shells /\ trouble' \in 0 .. MaxTrouble
  <2>1. requestQueue \in Seq(Requests) /\ shellQ \subseteq Shells /\ trouble \in 0 .. MaxTrouble
      BY DEF IInv, TypeOK, PoolTypeOK
  <2>2. Added(requestQueue, [shell |-> s, img |-> img]) \in Seq(Requests)
      BY <1>2, <2>1, QueueOps
  <2>3. requestQueue' \in {requestQueue, Added(requestQueue, [shell |-> s, img |-> img])} /\ trouble' = trouble
      BY <1>1 DEF Borrow
  <2> QED
      BY <1>1, <2>1, <2>2, <2>3
<1>4. UNCHANGED <<rec, hnd, scl, wq, workerQueue>>
    BY <1>1 DEF Borrow
<1>5. /\ StoreInv' /\ server' = server
      /\ InCall(clt') /\ (clt'.pc \in {"b_update", "k_update"} => ptr'.name = clt'.pod)
  <2>1. CASE UNCHANGED store /\ clt' = [call EXCEPT !.pc = "b_signal"]
    <3>1. InCall(clt') /\ clt'.pc = "b_signal"
        BY <2>1 DEF CltIdle, InCall, CltType, CltPCs
    <3> QED
        BY <2>1, <3>1, StoreSame DEF IInv
  <2>2. CASE UNCHANGED store /\ clt' = [call EXCEPT !.pc = "ret", !.ok = "error"]
    <3>1. InCall(clt') /\ clt'.pc = "ret"
        BY <2>2 DEF CltIdle, InCall, CltType, CltPCs
    <3> QED
        BY <2>2, <3>1, StoreSame DEF IInv
  <2>3. CASE Matched(img) /\ Hold(First(img)) /\ clt' = [call EXCEPT !.pc = "b_update", !.pod = First(img)]
    <3>1. First(img) \in Pods
        BY <2>3, FirstInQueue DEF IInv, Matched
    <3>2. InCall(clt') /\ clt'.pod = First(img)
        BY <2>3, <3>1 DEF CltIdle, InCall, CltType, CltPCs
    <3> QED
        BY <2>3, <3>1, <3>2, HoldInv DEF IInv
  <2> QED
      BY <1>1, <2>1, <2>2, <2>3 DEF Borrow
<1>6. WorkersCoherent'
    BY <1>5 DEF IInv, WorkersCoherent
<1> QED
    BY <1>1, <1>3, <1>4, <1>5, <1>6, ClientMoves DEF world

\* Borrow or Back returns and the controller records the outcome.
LEMMA FinishInv ==
    ASSUME IInv, Finish
    PROVE  IInv'
<1> USE DEF IInv
<1>1. StoreInv'
    BY DropInv DEF Finish
<1>2. clt.shell \in Shells /\ (clt.op = "borrow" /\ clt.ok = "ok" => clt.pod \in Pods)
    BY DEF Finish, PcInv
<1>3. caller \in CallerType /\ shellQ \subseteq Shells
      /\ clt.op \in {"none", "borrow", "back"} /\ clt.pod \in Pods \cup {None}
    BY DEF TypeOK, PoolTypeOK
<1>4. caller' \in CallerType /\ shellQ' \subseteq Shells
  <2> DEFINE v == IF clt.op = "borrow" THEN clt.pod ELSE None
  <2>1. v \in Pods \cup {None}
      BY <1>3
  <2>2. caller' = caller \/ caller' = [caller EXCEPT !.bound[clt.shell] = v, !.reassign = FALSE]
      BY DEF Finish
  <2> HIDE DEF v
  <2>3. caller' \in CallerType
      BY ONLY <1>2, <1>3, <2>1, <2>2 DEF CallerType
  <2> QED
      BY <1>2, <1>3, <2>3 DEF Finish
<1>5. CltIdle \in CltType
    BY DEF CltIdle, CltType, CltPCs
<1>6. trouble' \in 0 .. MaxTrouble
    BY PoolAssumption DEF Finish, NoFault, Fault, Disturb, TypeOK, PoolTypeOK
<1>7. TypeOK'
    BY <1>1, <1>4, <1>5, <1>6 DEF Finish, StoreInv, TypeOK, PoolTypeOK, CltType
<1>8. PcInv'
    BY DEF Finish, PcInv, CltIdle
<1>9. WorkersCoherent'
    BY DEF Finish, WorkersCoherent
<1> QED
    BY <1>1, <1>7, <1>8, <1>9

\* The process restarts.
LEMMA CrashInv ==
    ASSUME IInv, Crash
    PROVE  IInv'
<1> USE DEF IInv
<1>1. StoreInv' /\ server' = server
    BY RelistInv DEF Crash
<1>2. \A w \in Pods : server[w].owner \in Shells \cup {None}
    BY DEF StoreInv, StoreTypeOK, PodRec
<1>3. wq' \subseteq Pods /\ shellQ' \subseteq Shells /\ trouble' \in 0 .. MaxTrouble
    BY <1>2, PoolAssumption DEF Crash, PoolAssumption, TypeOK, PoolTypeOK, Disturb
<1>4. CltIdle \in CltType /\ RecIdle \in [pc : RecPCs, pod : Pods \cup {None}]
      /\ HndIdle \in [pc : HndPCs, todo : Seq(Requests)]
      /\ SclIdle \in [bad : SUBSET Pods, idle : SUBSET Pods, gone : SUBSET Pods]
    BY DEF CltIdle, CltType, CltPCs, RecIdle, RecPCs, HndIdle, HndPCs, SclIdle
<1>5. TypeOK'
    BY <1>1, <1>3, <1>4 DEF Crash, StoreInv, TypeOK, PoolTypeOK, CltType, world
<1>6. PcInv'
    BY DEF Crash, PcInv, CltIdle, RecIdle, HndIdle
<1>7. WorkersCoherent'
    BY <1>1 DEF WorkersCoherent
<1> QED
    BY <1>1, <1>5, <1>6, <1>7

(***************************************************************************)
(* The invariant, and the theorems.                                        *)
(***************************************************************************)
\* The invariant holds of a pool that has just started on an empty cluster.
LEMMA InitInv == CInit => IInv
<1> SUFFICES ASSUME CInit PROVE IInv
    OBVIOUS
<1> USE DEF CInit, Init, StoreInit
<1>1. NoPod \in PodRec /\ NoPod.phase = "absent" /\ Coherent(NoPod)
    BY DEF NoPod, PodRec, Coherent, Idle
<1>2. NoPtr \in PtrRec /\ NoPtr.cur = FALSE /\ NoPtr.alias = FALSE /\ NoPtr.obj = NoPod
    BY <1>1 DEF NoPtr, PtrRec
<1>3. StoreInv
    BY <1>1, <1>2 DEF StoreInv, StoreTypeOK, DeletionKnown, VersionsAgree
<1>4. CltIdle \in CltType /\ RecIdle \in [pc : RecPCs, pod : Pods \cup {None}]
      /\ HndIdle \in [pc : HndPCs, todo : Seq(Requests)]
      /\ SclIdle \in [bad : SUBSET Pods, idle : SUBSET Pods, gone : SUBSET Pods]
    BY DEF CltIdle, CltType, CltPCs, RecIdle, RecPCs, HndIdle, HndPCs, SclIdle
<1>5. caller \in CallerType
    BY ClientAssumption DEF CallerType, ClientAssumption
<1>6. TypeOK
    BY <1>3, <1>4, <1>5, PoolAssumption DEF StoreInv, TypeOK, PoolTypeOK, CltType, PoolAssumption
<1>7. PcInv
    BY DEF PcInv, CltIdle, RecIdle, HndIdle
<1>8. WorkersCoherent
    BY <1>1 DEF WorkersCoherent
<1> QED
    BY <1>3, <1>6, <1>7, <1>8 DEF IInv

\* Nothing at all happens.
LEMMA StutterInv ==
    ASSUME IInv, UNCHANGED vars
    PROVE  IInv'
<1>1. StoreInv' /\ server' = server /\ ptr' = ptr
    BY StoreSame DEF IInv, vars
<1>2. TypeOK'
    BY <1>1 DEF IInv, StoreInv, TypeOK, PoolTypeOK, vars, queues, world
<1>3. PcInv'
    BY <1>1 DEF IInv, PcInv, vars
<1> QED
    BY <1>1, <1>2, <1>3 DEF IInv, WorkersCoherent

\* Every step of the pool, its caller and their environment keeps the invariant.
LEMMA NextInv ==
    ASSUME IInv, [CNext]_vars
    PROVE  IInv'
<1>1. CASE UNCHANGED vars
    BY <1>1, StutterInv
<1>2. CASE Crash
    BY <1>2, CrashInv
<1>3. CASE Finish
    BY <1>3, FinishInv
<1>4. ASSUME NEW s \in Shells, CreateShell(s) \/ DeleteShell(s) \/ Sync(s) PROVE IInv'
  <2>1. CASE SyncBorrow(s)
      BY <2>1, SyncBorrowInv
  <2>2. CASE CreateShell(s) \/ DeleteShell(s) \/ SyncBack(s) \/ SyncDone(s)
    <3>1. UNCHANGED store
        BY <2>2 DEF CreateShell, DeleteShell, SyncBack, Back, SyncDone
    <3> QED
        BY <2>2, <3>1, QuietSteps
  <2> QED
      BY <1>4, <2>1, <2>2 DEF Sync
<1>5. ASSUME NEW w \in Pods,
             \/ PodEvent(w) \/ ProcessNext(w) \/ BecomeReady(w)
             \/ StatusUpdate(w) \/ PodDeleted(w) \/ PodReaped(w)
      PROVE  IInv'
  <2>1. CASE ProcessNext(w)
    <3>1. UNCHANGED store
        BY <2>1 DEF ProcessNext
    <3> QED
        BY <2>1, <3>1, QuietSteps
  <2> QED
      BY <1>5, <2>1, PodSteps
<1>6. CASE \/ Reconcile \/ HandleHit \/ HandleRemove \/ ScaleInRemove \/ BorrowRemove \/ BackAdd
           \/ Tick \/ SignalFromReconcile \/ SignalFromClient \/ ScaleInList
  <2>1. UNCHANGED store
      BY <1>6 DEF Reconcile, HandleHit, HandleRemove, ScaleInRemove, BorrowRemove, BackAdd, Tick,
                  SignalFromReconcile, SignalFromClient, ScaleInList
  <2> QED
      BY <1>6, <2>1, QuietSteps
<1>7. CASE RemoveFinalizer \/ HandleMiss \/ \E w \in Pods : ScaleInDelete(w)
    BY <1>7, PoolWrites
<1>8. CASE BorrowUpdate \/ BackRead \/ BackDelete \/ BackUpdate
    BY <1>8, UpdateSteps, BackReadInv, BackDeleteInv
<1> QED
    BY <1>1, <1>2, <1>3, <1>4, <1>5, <1>6, <1>7, <1>8
       DEF CNext, ClientNext, PoolNext, RecSteps, HndSteps, SclSteps, CltSteps

\* The strengthened invariant holds in every state of the pool and its caller.
THEOREM PoolInvariant == CSpec => []IInv
BY InitInv, NextInv, PTL DEF CSpec

\* Labels and finalizer of every worker agree, whatever the goroutines of the
\* pool, the kubelets, users and crashes do between a Borrow's or Back's read of
\* a pod and its Update (worker_pool.go:372-401, 405-480): a pod in the pool has
\* the finalizer and no owner, a borrowed one has an owner, no finalizer and no
\* request label; for any number of pods, cloudshells and disturbances.
THEOREM PoolWorkersCoherent == CSpec => []WorkersCoherent
<1>1. IInv => WorkersCoherent
    BY DEF IInv
<1> QED
    BY <1>1, PoolInvariant, PTL

\* The state of the pool and of its caller stays well-formed.
THEOREM PoolTyped == CSpec => []TypeOK
<1>1. IInv => TypeOK
    BY DEF IInv
<1> QED
    BY <1>1, PoolInvariant, PTL

\* A scale-in pass never takes the pool below its core workers, and never lists a
\* surplus without taking some of it away (worker_pool.go:322-352), for any
\* limit and any number of idle workers.
THEOREM PoolKeepsCore == CSpec => ScaleInKeepsCore
<1> DEFINE n == Cardinality(IdleListed)
           kept == Cardinality(IdleListed \ scl'.idle)
<1>1. ASSUME ScaleInList
      PROVE  kept >= (IF n < CoreLimit THEN n ELSE CoreLimit) /\ (n > CoreLimit => kept < n)
  <2>1. PICK v \in SUBSET IdleListed : Cardinality(v) = ScaleNumber(n) /\ scl'.idle = v
      BY <1>1 DEF ScaleInList
  <2>2. IsFiniteSet(IdleListed)
    <3>1. IdleListed \subseteq Pods
        BY DEF IdleListed, Listed
    <3> QED
        BY <3>1, PoolAssumption, FS_Subset DEF PoolAssumption
  <2>3. kept = n - Cardinality(v) /\ n \in Nat
    <3>1. IdleListed \cap v = v
        OBVIOUS
    <3>2. Cardinality(IdleListed \ v) = n - Cardinality(IdleListed \cap v)
        BY <2>2, FS_Difference
    <3> QED
        BY <2>1, <2>2, <3>1, <3>2, FS_CardinalityType
  <2>4. CoreLimit \in Nat
      BY PoolAssumption DEF PoolAssumption
  <2> HIDE DEF n, kept
  <2> QED
      BY <2>1, <2>3, <2>4 DEF ScaleNumber
<1>2. [ScaleInList => LET m == Cardinality(IdleListed)
                          left == Cardinality(IdleListed \ scl'.idle)
                      IN  /\ left >= (IF m < CoreLimit THEN m ELSE CoreLimit)
                          /\ m > CoreLimit => left < m]_vars
    BY <1>1
<1> QED
    BY <1>2, PTL DEF ScaleInKeepsCore

(***************************************************************************)
(* The worker pool implements WorkerLife for any number of pods,           *)
(* cloudshells, images and disturbances.  The refinement mapping looks at  *)
(* the API server's objects only, so the proof is about the writes: every  *)
(* step of the pool, its caller and their environment leaves the server    *)
(* alone or replaces one pod, and each replacement is a step of WorkerLife *)
(* or invisible to it.                                                     *)
(***************************************************************************)
\* A name without a pod is blank.
Vacant == \A w \in Pods : server[w].phase = "absent" => server[w] = NoPod

LifeInv == IInv /\ Vacant

\* What WorkerLife sees of the pods.
LifeOf(p) == [phase |-> p.phase, owner |-> p.owner, guarded |-> p.fin]
LifeMap == [w \in Pods |-> LifeOf(server[w])]

\* The replacements of pod p by q that WorkerLife allows.
Replaces(p, q) ==
    \/ LifeOf(q) = LifeOf(p) /\ p.phase # "absent"
    \/ p = NoPod /\ LifeOf(q) = [phase |-> "live", owner |-> None, guarded |-> TRUE]
    \/ p.phase # "absent" /\ \E s \in Shells : LifeOf(q) = [phase |-> p.phase, owner |-> s, guarded |-> FALSE]
    \/ p.phase = "live" /\ LifeOf(q) = [phase |-> "live", owner |-> None, guarded |-> TRUE]
    \/ p.phase = "live" /\ LifeOf(q) = [LifeOf(p) EXCEPT !.phase = "deleting"]
    \/ p.phase = "deleting" /\ p.fin /\ LifeOf(q) = [phase |-> "deleting", owner |-> p.owner, guarded |-> FALSE]
    \/ p.phase = "deleting" /\ ~p.fin /\ q = NoPod

\* What every step does: at most one pod is replaced.
LifeStep ==
    \/ server' = server
    \/ \E n \in Pods : \E q \in PodRec :
          server' = [server EXCEPT ![n] = q] /\ Replaces(server[n], q)

(***************************************************************************)
(* Such a step is a step of WorkerLife.                                    *)
(***************************************************************************)
\* It leaves no remains where a pod was.
LEMMA StepVacant ==
    ASSUME LifeInv, LifeStep
    PROVE  Vacant'
<1>1. server \in [Pods -> PodRec]
    BY DEF LifeInv, IInv, StoreInv, StoreTypeOK
<1>2. ASSUME NEW n \in Pods, NEW q \in PodRec, server' = [server EXCEPT ![n] = q], Replaces(server[n], q)
      PROVE  Vacant'
  <2>1. q.phase = "absent" => q = NoPod
      BY <1>2 DEF Replaces, LifeOf
  <2> QED
      BY <1>1, <1>2, <2>1 DEF LifeInv, Vacant
<1> QED
    BY <1>2 DEF LifeStep, LifeInv, Vacant

\* The mapped state changes at the pod that is replaced and nowhere else.
LEMMA MapReplaced ==
    ASSUME server \in [Pods -> PodRec], NEW n \in Pods, NEW q \in PodRec,
           server' = [server EXCEPT ![n] = q]
    PROVE  LifeMap' = [LifeMap EXCEPT ![n] = LifeOf(q)] /\ LifeMap[n] = LifeOf(server[n])
BY DEF LifeMap

LEMMA StepLives ==
    ASSUME LifeInv, LifeStep
    PROVE  [Life!LNext]_LifeMap
<1>1. server \in [Pods -> PodRec]
    BY DEF LifeInv, IInv, StoreInv, StoreTypeOK
<1>2. ASSUME NEW n \in Pods, NEW q \in PodRec, server' = [server EXCEPT ![n] = q], Replaces(server[n], q)
      PROVE  [Life!LNext]_LifeMap
  <2> DEFINE p == server[n]
  <2>1. LifeMap' = [LifeMap EXCEPT ![n] = LifeOf(q)] /\ LifeMap[n] = LifeOf(p)
      BY <1>1, <1>2, MapReplaced
  <2>2. p \in PodRec
      BY <1>1
  <2>3. LifeOf(NoPod) = Life!Absent
      BY DEF LifeOf, NoPod, Life!Absent
  <2>4. \A st : Life!Becomes(n, st) <=> LifeMap' = [LifeMap EXCEPT ![n] = st]
      BY DEF Life!Becomes, LifeMap, LifeOf
  <2> USE <2>1, <2>2 DEF LifeOf, PodRec
  <2>5. CASE LifeOf(q) = LifeOf(p)
      BY <2>5 DEF LifeMap
  <2>6. CASE p = NoPod /\ LifeOf(q) = [phase |-> "live", owner |-> None, guarded |-> TRUE]
    <3>1. Life!Create(n)
        BY <2>3, <2>4, <2>6 DEF Life!Create, LifeMap
    <3> QED
        BY <3>1 DEF Life!LNext
  <2>7. ASSUME NEW s \in Shells, p.phase # "absent",
               LifeOf(q) = [phase |-> p.phase, owner |-> s, guarded |-> FALSE]
        PROVE  Life!LNext
    <3>1. Life!Lend(n, s)
      <4>0. LifeMap[n].phase # "absent"
            /\ LifeOf(q) = [phase |-> LifeMap[n].phase, owner |-> s, guarded |-> FALSE]
          BY <2>7
      <4>1. LifeMap[n].phase # "absent"
            /\ LifeMap' = [LifeMap EXCEPT ![n] = [phase |-> LifeMap[n].phase, owner |-> s, guarded |-> FALSE]]
          BY ONLY <2>1, <4>0, Zenon
      <4> QED
          BY ONLY <4>1 DEF Life!Lend, Life!Becomes, LifeMap, LifeOf
    <3> QED
        BY <3>1 DEF Life!LNext
  <2>8. CASE p.phase = "live" /\ LifeOf(q) = [phase |-> "live", owner |-> None, guarded |-> TRUE]
    <3>1. Life!TakeBack(n)
        BY <2>4, <2>8 DEF Life!TakeBack, LifeMap
    <3> QED
        BY <3>1 DEF Life!LNext
  <2>9. CASE p.phase = "live" /\ LifeOf(q) = [LifeOf(p) EXCEPT !.phase = "deleting"]
    <3>1. Life!Condemn(n)
      <4>0. LifeMap[n].phase = "live" /\ LifeOf(q) = [LifeMap[n] EXCEPT !.phase = "deleting"]
          BY <2>9
      <4>1. LifeMap[n].phase = "live"
            /\ LifeMap' = [LifeMap EXCEPT ![n] = [LifeMap[n] EXCEPT !.phase = "deleting"]]
          BY ONLY <2>1, <4>0, Zenon
      <4> QED
          BY ONLY <4>1 DEF Life!Condemn, Life!Becomes, LifeMap, LifeOf
    <3> QED
        BY <3>1 DEF Life!LNext
  <2>10. CASE p.phase = "deleting" /\ p.fin /\ LifeOf(q) = [phase |-> "deleting", owner |-> p.owner, guarded |-> FALSE]
    <3>1. Life!LetGo(n)
      <4>0. LifeMap[n].phase = "deleting" /\ LifeMap[n].guarded
            /\ LifeOf(q) = [phase |-> "deleting", owner |-> LifeMap[n].owner, guarded |-> FALSE]
          BY <2>10
      <4>1. LifeMap[n].phase = "deleting" /\ LifeMap[n].guarded
            /\ LifeMap' = [LifeMap EXCEPT ![n] = [phase |-> "deleting", owner |-> LifeMap[n].owner,
                                                  guarded |-> FALSE]]
          BY ONLY <2>1, <4>0, Zenon
      <4> QED
          BY ONLY <4>1 DEF Life!LetGo, Life!Becomes, LifeMap, LifeOf
    <3> QED
        BY <3>1 DEF Life!LNext
  <2>11. CASE p.phase = "deleting" /\ ~p.fin /\ q = NoPod
    <3>1. Life!Vanish(n)
        BY <2>3, <2>4, <2>11 DEF Life!Vanish, LifeMap
    <3> QED
        BY <3>1 DEF Life!LNext
  <2> QED
      BY <1>2, <2>5, <2>6, <2>7, <2>8, <2>9, <2>10, <2>11 DEF Replaces
<1>3. CASE server' = server
    BY <1>3 DEF LifeMap
<1> QED
    BY <1>2, <1>3 DEF LifeStep

(***************************************************************************)
(* Every step is such a step.                                              *)
(***************************************************************************)
\* The steps that leave the server alone: the informer, the lister, the queues
\* and the restart.
LEMMA QuietLives ==
    ASSUME \/ UNCHANGED store \/ Relist
           \/ \E w \in Pods : Deliver(w) \/ Hold(w)
           \/ \E p \in PodRec : Mutate(p)
    PROVE  LifeStep
BY DEF LifeStep, store, Relist, Deliver, Hold, Mutate

\* The steps of kubelets, users and the informer.
LEMMA PodStepsLive ==
    ASSUME LifeInv, NEW w \in Pods,
           PodEvent(w) \/ BecomeReady(w) \/ StatusUpdate(w) \/ PodDeleted(w) \/ PodReaped(w)
    PROVE  LifeStep
<1>1. server[w] \in PodRec /\ NoPod \in PodRec
    BY DEF LifeInv, IInv, StoreInv, StoreTypeOK, NoPod, PodRec
<1>2. ASSUME NEW r \in BOOLEAN, Write(w, [server[w] EXCEPT !.ready = r]), server[w].phase = "live"
      PROVE  LifeStep
  <2> DEFINE q == [server[w] EXCEPT !.ready = r]
  <2>1. q \in PodRec /\ Replaces(server[w], q)
      BY <1>1, <1>2 DEF PodRec, Replaces, LifeOf
  <2> QED
      BY <1>2, <2>1 DEF Write, LifeStep
<1>3. CASE PodEvent(w)
    BY <1>3, QuietLives DEF PodEvent
<1>4. CASE BecomeReady(w) \/ StatusUpdate(w)
    BY <1>2, <1>4 DEF BecomeReady, StatusUpdate
<1>5. CASE PodDeleted(w)
  <2> DEFINE q == [server[w] EXCEPT !.phase = "deleting"]
  <2>1. server[w].phase = "live" /\ Write(w, q)
      BY <1>5 DEF PodDeleted, Delete
  <2>2. q \in PodRec /\ Replaces(server[w], q)
      BY <1>1, <2>1 DEF PodRec, Replaces, LifeOf
  <2> QED
      BY <2>1, <2>2 DEF Write, LifeStep
<1>6. CASE PodReaped(w)
    BY <1>1, <1>6 DEF PodReaped, Reap, Write, Replaces, LifeStep
<1> QED
    BY <1>3, <1>4, <1>5, <1>6

\* A deletion marks a pod, and leaves one that is marked already.
LEMMA DeleteLives ==
    ASSUME LifeInv, NEW w \in Pods, Delete(w)
    PROVE  LifeStep
<1>1. CASE UNCHANGED store
    BY <1>1, QuietLives
<1>2. CASE server[w].phase = "live" /\ Write(w, [server[w] EXCEPT !.phase = "deleting"])
  <2> DEFINE q == [server[w] EXCEPT !.phase = "deleting"]
  <2>0. server[w] \in PodRec
      BY DEF LifeInv, IInv, StoreInv, StoreTypeOK
  <2>1. q \in PodRec /\ Replaces(server[w], q)
      BY <1>2, <2>0 DEF PodRec, Replaces, LifeOf
  <2> QED
      BY <1>2, <2>1 DEF Write, LifeStep
<1> QED
    BY <1>1, <1>2 DEF Delete

\* Reconcile lets go of a deleted worker only: its copy of the pod may be old, but
\* what it says of the deletion is still true.
LEMMA RemoveFinalizerLives ==
    ASSUME LifeInv, RemoveFinalizer
    PROVE  LifeStep
<1>1. rec.pod \in Pods /\ server[rec.pod].phase # "live" /\ server[rec.pod] \in PodRec
    BY DEF RemoveFinalizer, LifeInv, IInv, PcInv, StoreInv, StoreTypeOK
<1> DEFINE p == server[rec.pod]
           q == [p EXCEPT !.fin = FALSE]
<1>2. CASE UNCHANGED store
    BY <1>2, QuietLives
<1>3. CASE p.fin /\ Write(rec.pod, q)
  <2>1. p.phase = "deleting"
      BY <1>1, <1>3 DEF LifeInv, Vacant, NoPod, PodRec
  <2>2. q \in PodRec /\ q.phase = "deleting" /\ q.owner = p.owner /\ q.fin = FALSE
      BY <1>1, <2>1 DEF PodRec
  <2>3. LifeOf(q) = [phase |-> "deleting", owner |-> p.owner, guarded |-> FALSE]
    <3> HIDE DEF q
    <3> QED
        BY <2>2 DEF LifeOf
  <2>4. Replaces(p, q)
      BY <1>3, <2>1, <2>3 DEF Replaces
  <2> QED
      BY <1>1, <1>3, <2>2, <2>4 DEF Write, LifeStep
<1> QED
    BY <1>2, <1>3 DEF RemoveFinalizer

\* The request handler creates a worker under a name that was free.
LEMMA CreateLives ==
    ASSUME LifeInv, HandleMiss
    PROVE  LifeStep
<1> DEFINE r == Head(hnd.todo)
           q == NewWorker(r)
<1>1. r \in Requests
    BY RestOf DEF HandleMiss, LifeInv, IInv, PcInv, TypeOK, PoolTypeOK
<1>2. ASSUME NEW w \in Pods, Unused(w), Write(w, q) PROVE LifeStep
  <2>1. server[w] = NoPod
      BY <1>2 DEF Unused, LifeInv, Vacant
  <2>2. q \in PodRec /\ Replaces(server[w], q)
      BY <1>1, <2>1 DEF NewWorker, Requests, PodRec, Replaces, LifeOf
  <2> QED
      BY <1>2, <2>2 DEF Write, LifeStep
<1>3. CASE UNCHANGED store
    BY <1>3, QuietLives
<1> QED
    BY <1>2, <1>3 DEF HandleMiss

\* Borrow lends the worker it holds, Back takes it back: an accepted Update was
\* made from the server's version of the pod.  Back puts the finalizer on a
\* deleted pod only where it is already, so that nothing changes.
LEMMA UpdateLives ==
    ASSUME LifeInv, BorrowUpdate \/ BackUpdate
    PROVE  LifeStep
<1>1. ptr.obj \in PodRec /\ server \in [Pods -> PodRec]
    BY DEF LifeInv, IInv, StoreInv, StoreTypeOK, PtrRec
<1>2. ASSUME NEW q \in PodRec, q.phase = ptr.obj.phase, UpdateOK(q, q) \/ UpdateLost(q, q)
      PROVE  /\ ptr.name \in Pods /\ server' = [server EXCEPT ![ptr.name] = q]
             /\ server[ptr.name] \in PodRec /\ Coherent(server[ptr.name])
             /\ server[ptr.name].phase = q.phase /\ q.phase # "absent"
             /\ q.phase = "deleting" /\ q.fin => server[ptr.name].fin
  <2>1. ptr.name \in Pods /\ server' = [server EXCEPT ![ptr.name] = q] /\ server[ptr.name].phase = q.phase
      BY <1>2, UpdateInv DEF LifeInv, IInv
  <2>2. q.phase # "absent" /\ (q.phase = "deleting" /\ q.fin => server[ptr.name].fin)
      BY <1>2, <2>1 DEF UpdateOK, UpdateLost, Accepts
  <2>3. server[ptr.name] \in PodRec /\ Coherent(server[ptr.name])
      BY <1>1, <2>1 DEF LifeInv, IInv, WorkersCoherent
  <2> QED
      BY <2>1, <2>2, <2>3
<1>3. CASE BorrowUpdate
  <2> DEFINE q == Borrowed(ptr.obj, clt.shell)
  <2>1. clt.shell \in Shells
      BY <1>3 DEF BorrowUpdate, LifeInv, IInv, PcInv
  <2>2. q \in PodRec /\ q.phase = ptr.obj.phase /\ q.owner = clt.shell /\ q.fin = FALSE
      BY <1>1, <2>1 DEF Borrowed, PodRec
  <2>3. CASE Mutate(q)
      BY <2>2, <2>3, QuietLives
  <2>4. CASE UpdateOK(q, q) \/ UpdateLost(q, q)
    <3>1. Replaces(server[ptr.name], q)
        BY <1>2, <2>1, <2>2, <2>4 DEF Replaces, LifeOf
    <3> QED
        BY <1>2, <2>2, <2>4, <3>1 DEF LifeStep
  <2> QED
      BY <1>3, <2>3, <2>4 DEF BorrowUpdate
<1>4. CASE BackUpdate
  <2> DEFINE q == Returned(ptr.obj)
  <2>2. q \in PodRec /\ q.phase = ptr.obj.phase /\ q.owner = None /\ q.fin = TRUE
      BY <1>1 DEF Returned, PodRec
  <2>3. CASE Mutate(q)
      BY <2>2, <2>3, QuietLives
  <2>4. CASE UpdateOK(q, q) \/ UpdateLost(q, q)
    <3> DEFINE p == server[ptr.name]
    <3>1. /\ ptr.name \in Pods /\ server' = [server EXCEPT ![ptr.name] = q]
          /\ p \in PodRec /\ Coherent(p) /\ p.phase = q.phase /\ q.phase # "absent"
          /\ q.phase = "deleting" => p.fin
        BY <1>2, <2>2, <2>4
    <3> HIDE DEF p, q
    <3>2. ASSUME q.phase = "live" PROVE Replaces(p, q)
      <4>1. LifeOf(q) = [phase |-> "live", owner |-> None, guarded |-> TRUE] /\ p.phase = "live"
          BY <2>2, <3>1, <3>2 DEF LifeOf
      <4> QED
          BY <4>1 DEF Replaces
    <3>3. ASSUME q.phase = "deleting" PROVE Replaces(p, q)
      <4>1. p.owner = None /\ p.fin = TRUE
          BY <3>1, <3>3 DEF Coherent, Idle, PodRec
      <4>2. LifeOf(q) = LifeOf(p)
          BY <2>2, <3>1, <4>1 DEF LifeOf
      <4> QED
          BY <3>1, <4>2 DEF Replaces
    <3>4. Replaces(p, q)
        BY <2>2, <3>1, <3>2, <3>3 DEF PodRec
    <3> QED
        BY <2>2, <3>1, <3>4 DEF LifeStep, p
  <2> QED
      BY <1>4, <2>3, <2>4 DEF BackUpdate
<1> QED
    BY <1>3, <1>4

\* Every step of the pool, its caller and their environment.
LEMMA NextLives ==
    ASSUME LifeInv, [CNext]_vars
    PROVE  LifeStep
<1>1. CASE UNCHANGED vars
    BY <1>1, QuietLives DEF vars
<1>2. CASE Crash
    BY <1>2, QuietLives DEF Crash
<1>3. CASE Finish
    BY <1>3 DEF Finish, LifeStep
<1>4. ASSUME NEW s \in Shells, CreateShell(s) \/ DeleteShell(s) \/ Sync(s) PROVE LifeStep
  <2>1. CASE SyncBorrow(s)
    <3>1. UNCHANGED store \/ \E img : Hold(First(img))
        BY <2>1 DEF SyncBorrow, Borrow
    <3> QED
        BY <3>1 DEF Hold, LifeStep, store
  <2>2. CASE CreateShell(s) \/ DeleteShell(s) \/ SyncBack(s) \/ SyncDone(s)
    <3>1. UNCHANGED store
        BY <2>2 DEF CreateShell, DeleteShell, SyncBack, Back, SyncDone
    <3> QED
        BY <3>1, QuietLives
  <2> QED
      BY <1>4, <2>1, <2>2 DEF Sync
<1>5. ASSUME NEW w \in Pods,
             \/ PodEvent(w) \/ ProcessNext(w) \/ BecomeReady(w)
             \/ StatusUpdate(w) \/ PodDeleted(w) \/ PodReaped(w)
      PROVE  LifeStep
    BY <1>5, PodStepsLive, QuietLives DEF ProcessNext
<1>6. CASE \/ Reconcile \/ HandleHit \/ HandleRemove \/ ScaleInRemove \/ BorrowRemove \/ BackAdd
           \/ Tick \/ SignalFromReconcile \/ SignalFromClient \/ ScaleInList
  <2>1. UNCHANGED store
      BY <1>6 DEF Reconcile, HandleHit, HandleRemove, ScaleInRemove, BorrowRemove, BackAdd, Tick,
                  SignalFromReconcile, SignalFromClient, ScaleInList
  <2> QED
      BY <2>1, QuietLives
<1>7. CASE RemoveFinalizer \/ HandleMiss
    BY <1>7, RemoveFinalizerLives, CreateLives
<1>8. ASSUME NEW w \in Pods, ScaleInDelete(w) PROVE LifeStep
    BY <1>8, DeleteLives, QuietLives DEF ScaleInDelete
<1>9. CASE BackRead \/ BackDelete
  <2>1. clt.pod \in Pods
      BY <1>9 DEF BackRead, BackDelete, LifeInv, IInv, PcInv
  <2> QED
      BY <1>9, <2>1, DeleteLives, QuietLives DEF BackRead, BackDelete
<1>10. CASE BorrowUpdate \/ BackUpdate
    BY <1>10, UpdateLives
<1> QED
    BY <1>1, <1>2, <1>3, <1>4, <1>5, <1>6, <1>7, <1>8, <1>9, <1>10
       DEF CNext, ClientNext, PoolNext, RecSteps, HndSteps, SclSteps, CltSteps

\* Seen from the API server a worker lives as WorkerLife says, whatever the
\* goroutines, the kubelets, users and crashes do to it through cached copies: a
\* deletion is never taken back by the Update of a Borrow or a Back, a worker is
\* guarded exactly while it is in the pool, and a guarded worker disappears only
\* after reconcile has let it go (worker_pool.go:186-213, 372-401, 405-480); for
\* any number of pods, cloudshells and disturbances.
THEOREM PoolRefinesLife == CSpec => PoolKeepsLife
<1>1. CInit => LifeInv /\ Life!LInit
  <2> SUFFICES ASSUME CInit PROVE LifeInv /\ Life!LInit
      OBVIOUS
  <2>1. server = [w \in Pods |-> NoPod]
      BY DEF CInit, Init, StoreInit
  <2>2. IInv /\ Vacant
      BY <2>1, InitInv DEF Vacant
  <2>3. Life!LInit
      BY <2>1 DEF Life!LInit, Life!Absent, NoPod
  <2> QED
      BY <2>2, <2>3 DEF LifeInv
<1>2. LifeInv /\ [CNext]_vars => LifeInv'
    BY NextInv, NextLives, StepVacant DEF LifeInv
<1>3. LifeInv /\ [CNext]_vars => [Life!LNext]_LifeMap
    BY NextLives, StepLives
<1>4. LifeInv /\ [CNext]_vars => [Life!LNext]_[w \in Pods |-> [phase |-> server[w].phase,
                                   owner |-> server[w].owner, guarded |-> server[w].fin]]
    BY <1>3 DEF LifeMap, LifeOf
<1> QED
    BY <1>1, <1>2, <1>4, PTL DEF CSpec, PoolKeepsLife, Life!LSpec
=============================================================================
