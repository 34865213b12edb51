--------------------------- MODULE ManagerProofs ----------------------------
(***************************************************************************)
(* For any number of replicas, any number of crashes and signals, and any  *)
(* durations that satisfy ManagerAssumption: at most one replica runs the  *)
(* controllers.                                                            *)
(***************************************************************************)
EXTENDS Manager, TLAPS

\* Whoever was elected and has not exited.
Bound(r) == Elected(r) \/ proc[r] = "lost"

\* It still holds the lease; nobody has known the present record for longer than
\* it has, and it is gone before anybody can think the lease expired.
LeaseInv ==
    \A r \in Replicas : Bound(r) =>
        /\ holder = r
        /\ \A q \in seen : age[q] <= age[r]
        /\ Elected(r) => age[r] <= Deadline
        /\ age[r] <= Deadline + ExitTime

IInv == TypeOK /\ LeaseInv

LEMMA DeadlineBound == Deadline \in Nat /\ Deadline <= Deadline + ExitTime /\ Deadline + ExitTime < LeaseDuration
BY ManagerAssumption DEF Deadline

\* OneActive follows: two that are active hold the same lease.
LEMMA LeaseGivesOne == IInv => OneActive
BY DEF IInv, TypeOK, LeaseInv, Bound, Elected, OneActive, Active

LEMMA ManagerInit == Init => IInv
BY ManagerAssumption DEF Init, IInv, TypeOK, Procs, LeaseInv, Bound, Elected

\* A candidate that finds no record, or sees it expired, is alone.
LEMMA TakenFromNobody ==
    ASSUME IInv, NEW r \in Replicas, holder = Nobody \/ Expired(r)
    PROVE  \A q \in Replicas : ~Bound(q)
<1> SUFFICES ASSUME NEW q \in Replicas, Bound(q) PROVE FALSE
  OBVIOUS
<1>1. holder = q /\ age[q] <= Deadline + ExitTime /\ (r \in seen => age[r] <= age[q])
  BY DEF IInv, LeaseInv
<1>2. CASE holder = Nobody
  BY <1>1, <1>2, ManagerAssumption
<1>3. CASE Expired(r)
  <2>1. age[r] \in Nat /\ age[q] \in Nat /\ LeaseDuration \in Nat
    BY ManagerAssumption DEF IInv, TypeOK
  <2> QED
    BY <1>1, <1>3, <2>1, DeadlineBound, ManagerAssumption DEF Expired
<1> QED
  BY <1>2, <1>3

\* The process of one replica ends, whatever it was doing.
LEMMA LeaveInv ==
    ASSUME IInv, NEW r \in Replicas, Leave(r), stops' \in 0 .. MaxStops
    PROVE  IInv'
<1>1. TypeOK'
  BY ManagerAssumption DEF IInv, TypeOK, Leave, Is, Procs
<1>2. LeaseInv'
  <2> SUFFICES ASSUME NEW q \in Replicas, Bound(q)'
               PROVE  /\ holder' = q
                      /\ \A p \in seen' : age'[p] <= age'[q]
                      /\ Elected(q)' => age'[q] <= Deadline
                      /\ age'[q] <= Deadline + ExitTime
    BY DEF LeaseInv, Deadline
  <2>1. q # r /\ Bound(q) /\ (Elected(q)' => Elected(q)) /\ age'[q] = age[q]
    BY DEF IInv, TypeOK, Leave, Is, Bound, Elected
  <2>2. \A p \in seen' : p \in seen /\ age'[p] = age[p]
    BY DEF IInv, TypeOK, Leave
  <2> QED
    BY <2>1, <2>2 DEF IInv, LeaseInv, Leave
<1> QED
  BY <1>1, <1>2 DEF IInv

\* r writes the record and is, or becomes, the only one elected.
LEMMA StampInv ==
    ASSUME IInv, NEW r \in Replicas, Stamp(r),
           proc' \in [Replicas -> Procs], proc'[r] # "lost",
           \A q \in Replicas : q # r => ~Bound(q)',
           stops' \in 0 .. MaxStops
    PROVE  IInv'
<1>1. TypeOK'
  BY ManagerAssumption DEF IInv, TypeOK, Stamp
<1>2. age'[r] = 0 /\ seen' = {r} /\ holder' = r
  BY DEF IInv, TypeOK, Stamp
<1>3. LeaseInv'
  BY <1>2, DeadlineBound, ManagerAssumption DEF LeaseInv, Deadline
<1> QED
  BY <1>1, <1>3 DEF IInv

LEMMA PollInv ==
    ASSUME IInv, NEW r \in Replicas, Poll(r)
    PROVE  IInv'
<1>1. CASE /\ holder = Nobody \/ Expired(r)
           /\ Stamp(r)
           /\ Is(r, IF proc[r] = "standby" THEN "leading" ELSE "draining")
  <2>1. \A q \in Replicas : ~Bound(q)
    BY <1>1, TakenFromNobody
  <2>2. /\ proc' \in [Replicas -> Procs] /\ proc'[r] \in {"leading", "draining"}
        /\ \A q \in Replicas : q # r => proc'[q] = proc[q]
        /\ stops' \in 0 .. MaxStops
    BY <1>1 DEF IInv, TypeOK, Is, Procs, Poll
  <2> QED
    BY <1>1, <2>1, <2>2, StampInv DEF Bound, Elected
<1>2. CASE /\ holder # Nobody /\ r \notin seen
           /\ seen' = seen \cup {r}
           /\ age' = [age EXCEPT ![r] = 0]
           /\ UNCHANGED <<proc, holder>>
  <2>1. TypeOK'
    BY <1>2, ManagerAssumption DEF IInv, TypeOK, Poll
  <2>2. ~Bound(r)
    BY DEF Poll, Bound, Elected
  <2>3. LeaseInv'
    <3> SUFFICES ASSUME NEW q \in Replicas, Bound(q)'
                 PROVE  /\ holder' = q
                        /\ \A p \in seen' : age'[p] <= age'[q]
                        /\ Elected(q)' => age'[q] <= Deadline
                        /\ age'[q] <= Deadline + ExitTime
      BY DEF LeaseInv, Deadline
    <3>1. q # r /\ Bound(q) /\ (Elected(q)' => Elected(q)) /\ age'[q] = age[q] /\ age[q] \in Nat
      BY <1>2, <2>2, ManagerAssumption DEF IInv, TypeOK, Bound, Elected
    <3>2. \A p \in seen' : (p = r /\ age'[p] = 0) \/ (p \in seen /\ age'[p] = age[p])
      BY <1>2 DEF IInv, TypeOK
    <3> QED
      BY <1>2, <3>1, <3>2 DEF IInv, LeaseInv
  <2> QED
    BY <2>1, <2>3 DEF IInv
<1> QED
  BY <1>1, <1>2 DEF Poll

LEMMA RenewInv ==
    ASSUME IInv, NEW r \in Replicas, Renew(r)
    PROVE  IInv'
<1>1. \A q \in Replicas : q # r => ~Bound(q)
  BY DEF IInv, LeaseInv, Renew, Bound
<1>2. /\ Stamp(r) /\ proc' = proc /\ proc[r] # "lost"
      /\ proc' \in [Replicas -> Procs] /\ stops' \in 0 .. MaxStops
  BY DEF Renew, IInv, TypeOK, Elected
<1>3. \A q \in Replicas : q # r => ~Bound(q)'
  BY <1>1, <1>2 DEF Bound, Elected
<1> QED
  BY <1>2, <1>3, StampInv

\* Steps that touch one process and neither lease nor clocks: what they make of
\* it has the same deadline to meet.
LEMMA ProcInv ==
    ASSUME IInv, NEW r \in Replicas, NEW p \in Procs, Is(r, p), UNCHANGED <<holder, seen, age>>,
           p \in {"leading", "draining"} => Elected(r),
           p = "lost" => Bound(r),
           stops' \in 0 .. MaxStops
    PROVE  IInv'
<1>1. TypeOK'
  BY DEF IInv, TypeOK, Is
<1>2. \A q \in Replicas : (Bound(q)' => Bound(q)) /\ (Elected(q)' => Elected(q))
  BY DEF IInv, TypeOK, Is, Bound, Elected
<1>3. LeaseInv'
  BY <1>2 DEF IInv, LeaseInv, Deadline
<1> QED
  BY <1>1, <1>3 DEF IInv

LEMMA TickInv ==
    ASSUME IInv, Tick
    PROVE  IInv'
<1>1. TypeOK'
  BY ManagerAssumption DEF IInv, TypeOK, Tick
<1>2. LeaseInv'
  <2> SUFFICES ASSUME NEW q \in Replicas, Bound(q)
               PROVE  /\ holder = q
                      /\ \A p \in seen : age'[p] <= age'[q]
                      /\ Elected(q) => age'[q] <= Deadline
                      /\ age'[q] <= Deadline + ExitTime
    BY DEF LeaseInv, Bound, Elected, Tick, Deadline
  <2>1. /\ holder = q /\ age[q] \in Nat
        /\ \A p \in seen : age[p] <= age[q] /\ age[p] \in Nat
    BY ManagerAssumption DEF IInv, TypeOK, LeaseInv
  <2>2. age[q] < Deadline + ExitTime /\ (Elected(q) => age[q] < Deadline)
    BY <2>1, DeadlineBound, ManagerAssumption DEF Tick, Bound
  <2>3. age'[q] = age[q] + 1
    BY <2>1, <2>2, DeadlineBound, ManagerAssumption DEF Tick, Bound, Timed
  <2>4. \A p \in seen : age'[p] <= age[p] + 1
    BY <2>1 DEF Tick, IInv, TypeOK
  <2>5. \A p \in seen : age'[p] \in Nat
    BY <1>1, ManagerAssumption DEF TypeOK, IInv, Tick
  <2> QED
    BY <2>1, <2>2, <2>3, <2>4, <2>5, DeadlineBound, ManagerAssumption
<1> QED
  BY <1>1, <1>2 DEF IInv

LEMMA ManagerStep ==
    ASSUME IInv, [Next]_vars
    PROVE  IInv'
<1>1. CASE Tick
  BY <1>1, TickInv
<1>2. ASSUME NEW r \in Replicas, Start(r) PROVE IInv'
  BY <1>2, ProcInv DEF Start, IInv, TypeOK, Procs
<1>3. ASSUME NEW r \in Replicas, Poll(r) PROVE IInv'
  BY <1>3, PollInv
<1>4. ASSUME NEW r \in Replicas, Renew(r) PROVE IInv'
  BY <1>4, RenewInv
<1>5. ASSUME NEW r \in Replicas, Lose(r) PROVE IInv'
  <2>1. CASE proc[r] = "leading" /\ Is(r, "lost") /\ UNCHANGED <<holder, seen, age>>
    BY <1>5, <2>1, ProcInv DEF Lose, IInv, TypeOK, Procs, Bound, Elected
  <2>2. CASE proc[r] = "draining" /\ Leave(r)
    BY <1>5, <2>2, LeaveInv DEF Lose, IInv, TypeOK
  <2> QED
    BY <1>5, <2>1, <2>2 DEF Lose
<1>6. ASSUME NEW r \in Replicas, Exit(r) \/ Kill(r) PROVE IInv'
  BY <1>6, LeaveInv DEF Exit, Kill, IInv, TypeOK
<1>7. ASSUME NEW r \in Replicas, Terminate(r) PROVE IInv'
  <2>1. stops' \in 0 .. MaxStops /\ UNCHANGED <<holder, seen, age>>
    BY <1>7, ManagerAssumption DEF Terminate, IInv, TypeOK
  <2>2. CASE proc[r] = "standby" /\ Is(r, "deaf")
    BY <2>1, <2>2, ProcInv DEF Procs
  <2>3. CASE proc[r] = "leading" /\ Is(r, "draining")
    BY <2>1, <2>3, ProcInv DEF Procs, Elected
  <2> QED
    BY <1>7, <2>2, <2>3 DEF Terminate
<1>8. ASSUME NEW r \in Replicas, Crash(r) PROVE IInv'
  <2>1. stops' \in 0 .. MaxStops
    BY <1>8, ManagerAssumption DEF Crash, IInv, TypeOK
  <2> QED
    BY <1>8, <2>1, LeaveInv DEF Crash
<1>9. CASE UNCHANGED vars
  BY <1>9 DEF vars, IInv, TypeOK, LeaseInv, Bound, Elected, Deadline
<1> QED
  BY <1>1, <1>2, <1>3, <1>4, <1>5, <1>6, <1>7, <1>8, <1>9 DEF Next

\* At most one process runs the controller and the worker pool, although a leader
\* that lost the lease stops them only by exiting (cloudshell-manager.go:122-142).
THEOREM ManagerOneActive == Spec => []OneActive
<1>1. Spec => []IInv
  BY ManagerInit, ManagerStep, PTL DEF Spec
<1> QED
  BY <1>1, LeaseGivesOne, PTL

\* The state of the replicas stays well-formed (cloudshell-manager.go:92-142).
THEOREM ManagerTyped == Spec => []TypeOK
<1>1. Spec => []IInv
  BY ManagerInit, ManagerStep, PTL DEF Spec
<1>2. IInv => TypeOK
  BY DEF IInv
<1> QED
  BY <1>1, <1>2, PTL
=============================================================================
