----------------------------- MODULE QueueProofs -----------------------------
(***************************************************************************)
(* Proofs about Queue, for any number of goroutines and items: dirty and   *)
(* queue agree whenever a caller can look, and every call is atomic.       *)
(***************************************************************************)
EXTENDS Queue, SequenceTheorems, TLAPS

(***************************************************************************)
(* Facts about sequences of distinct items.                                *)
(***************************************************************************)

\* Appending an item that is not queued keeps the items distinct (Add).
LEMMA AppendDistinct ==
    ASSUME NEW S, NEW s \in Seq(S), NEW x \in S, x \notin ToSet(s), NoDup(s)
    PROVE  /\ Append(s, x) \in Seq(S)
           /\ ToSet(Append(s, x)) = ToSet(s) \cup {x}
           /\ NoDup(Append(s, x))
<1> DEFINE t == Append(s, x)
<1>1. t \in Seq(S) /\ Len(t) = Len(s) + 1 /\ t[Len(s) + 1] = x
      /\ \A i \in 1 .. Len(s) : t[i] = s[i]
    OBVIOUS
<1>2. DOMAIN t = 1 .. Len(s) + 1 /\ DOMAIN s = 1 .. Len(s)
    BY <1>1
<1>3. ToSet(t) = ToSet(s) \cup {x}
    BY <1>1, <1>2 DEF ToSet
<1>4. NoDup(t)
    BY <1>1, <1>2 DEF NoDup, ToSet
<1> QED BY <1>1, <1>3, <1>4

\* Taking the head off keeps the items distinct and loses only the head (Get).
LEMMA TailDistinct ==
    ASSUME NEW S, NEW s \in Seq(S), s # <<>>, NoDup(s)
    PROVE  /\ Tail(s) \in Seq(S) /\ Head(s) \in S
           /\ Head(s) \notin ToSet(Tail(s))
           /\ ToSet(s) = ToSet(Tail(s)) \cup {Head(s)}
           /\ NoDup(Tail(s))
<1> DEFINE t == Tail(s)
<1>1. t \in Seq(S) /\ Len(t) = Len(s) - 1 /\ Head(s) = s[1] /\ Len(s) \in Nat \ {0}
      /\ \A i \in 1 .. Len(t) : t[i] = s[i + 1]
    OBVIOUS
<1>2. DOMAIN t = 1 .. Len(s) - 1 /\ DOMAIN s = 1 .. Len(s)
    BY <1>1
<1>3. Head(s) \in S
    BY <1>1, <1>2
<1>4. Head(s) \notin ToSet(t)
    BY <1>1, <1>2 DEF NoDup, ToSet
<1>5. ToSet(s) = ToSet(t) \cup {Head(s)}
  <2>1. ASSUME NEW y \in ToSet(s) PROVE y \in ToSet(t) \cup {Head(s)}
    <3>1. PICK i \in 1 .. Len(s) : y = s[i]
        BY <1>2, <2>1 DEF ToSet
    <3>2. CASE i = 1
        BY <3>1, <3>2, <1>1
    <3>3. CASE i # 1
      <4>1. i - 1 \in 1 .. Len(t) /\ t[i - 1] = s[i]
          BY <3>1, <3>3, <1>1
      <4> QED BY <4>1, <3>1, <1>1, <1>2 DEF ToSet
    <3> QED BY <3>2, <3>3
  <2>2. ToSet(t) \subseteq ToSet(s) /\ Head(s) \in ToSet(s)
      BY <1>1, <1>2 DEF ToSet
  <2> QED BY <2>1, <2>2
<1>6. NoDup(t)
    BY <1>1, <1>2 DEF NoDup
<1> QED BY <1>1, <1>3, <1>4, <1>5, <1>6

\* Cutting the only occurrence of an item out (Remove); the index found by the
\* loop of Remove is the item's only one.
LEMMA CutDistinct ==
    ASSUME NEW S, NEW s \in Seq(S), NEW x \in ToSet(s), NoDup(s)
    PROVE  LET i == FirstIndex(s, x)
               t == RemoveAt(s, i)
           IN  /\ i \in DOMAIN s /\ s[i] = x
               /\ i = CHOOSE j \in DOMAIN s : s[j] = x
               /\ t \in Seq(S)
               /\ x \notin ToSet(t)
               /\ ToSet(s) = ToSet(t) \cup {x}
               /\ NoDup(t)
<1> DEFINE i == FirstIndex(s, x)
           t == RemoveAt(s, i)
<1>1. PICK k \in DOMAIN s : s[k] = x
    BY DEF ToSet
<1>2. \A j \in DOMAIN s : s[j] = x => j = k
    BY <1>1 DEF NoDup
<1>3. DOMAIN s = 1 .. Len(s) /\ Len(s) \in Nat
    OBVIOUS
<1>4. i = k
  <2>1. \A j \in DOMAIN s : (s[j] = x /\ \A m \in 1 .. j - 1 : s[m] # x) <=> j = k
      BY <1>1, <1>2, <1>3
  <2> QED BY <2>1, <1>1 DEF FirstIndex
<1>5. k = CHOOSE j \in DOMAIN s : s[j] = x
    BY <1>1, <1>2
<1>6. t = SubSeq(s, 1, k - 1) \o SubSeq(s, k + 1, Len(s))
    BY <1>4 DEF RemoveAt
<1> DEFINE a == SubSeq(s, 1, k - 1)
           b == SubSeq(s, k + 1, Len(s))
<1>7. a \in Seq(S) /\ Len(a) = k - 1 /\ \A j \in 1 .. k - 1 : a[j] = s[j]
    BY <1>1, <1>3
<1>8. b \in Seq(S) /\ Len(b) = Len(s) - k /\ \A j \in 1 .. Len(s) - k : b[j] = s[j + k]
    BY <1>1, <1>3
<1> HIDE DEF a, b
<1>9a. t = a \o b
    BY <1>6 DEF a, b
<1>9b. /\ t \in Seq(S) /\ Len(t) = Len(a) + Len(b)
       /\ \A j \in 1 .. Len(a) + Len(b) : t[j] = IF j <= Len(a) THEN a[j] ELSE b[j - Len(a)]
    BY <1>7, <1>8, <1>9a, ConcatProperties
<1> HIDE DEF t
<1> DEFINE old(j) == IF j < k THEN j ELSE j + 1
<1>9. t \in Seq(S) /\ DOMAIN t = 1 .. Len(s) - 1
    BY <1>9b, <1>1, <1>3, <1>7, <1>8
<1>10. \A j \in DOMAIN t : t[j] = s[old(j)] /\ old(j) \in DOMAIN s /\ old(j) # k
  <2> SUFFICES ASSUME NEW j \in 1 .. Len(s) - 1
               PROVE  t[j] = s[old(j)] /\ old(j) \in 1 .. Len(s) /\ old(j) # k
      BY <1>3, <1>9
  <2>1. j < k => t[j] = a[j] /\ a[j] = s[j]
      BY <1>9b, <1>1, <1>3, <1>7, <1>8
  <2>2. ~(j < k) => t[j] = b[j - (k - 1)] /\ j - (k - 1) \in 1 .. Len(s) - k
      BY <1>9b, <1>1, <1>3, <1>7, <1>8
  <2>3. ~(j < k) => b[j - (k - 1)] = s[(j - (k - 1)) + k] /\ (j - (k - 1)) + k = j + 1
      BY <2>2, <1>8, <1>1, <1>3
  <2> QED BY <2>1, <2>2, <2>3, <1>1, <1>3
<1>11. x \notin ToSet(t)
    BY <1>2, <1>10 DEF ToSet
<1>12. ToSet(s) = ToSet(t) \cup {x}
  <2>1. ASSUME NEW y \in ToSet(s), y # x PROVE y \in ToSet(t)
    <3>1. PICK m \in 1 .. Len(s) : y = s[m]
        BY <1>3, <2>1 DEF ToSet
    <3>2. m # k
        BY <3>1, <1>1, <2>1
    <3>3. CASE m < k
      <4>1. m \in DOMAIN t /\ t[m] = s[m]
          BY <3>1, <3>3, <1>1, <1>3, <1>9, <1>10
      <4> QED BY <4>1, <3>1 DEF ToSet
    <3>4. CASE m > k
      <4>1. m - 1 \in DOMAIN t /\ t[m - 1] = s[m]
          BY <3>1, <3>4, <1>1, <1>3, <1>9, <1>10
      <4> QED BY <4>1, <3>1 DEF ToSet
    <3> QED BY <3>2, <3>3, <3>4, <1>1, <1>3, <3>1
  <2>2. ToSet(t) \subseteq ToSet(s)
      BY <1>10 DEF ToSet
  <2> QED BY <2>1, <2>2
<1>13. NoDup(t)
  <2> SUFFICES ASSUME NEW j \in 1 .. Len(s) - 1, NEW m \in 1 .. Len(s) - 1, t[j] = t[m]
               PROVE  j = m
      BY <1>9 DEF NoDup
  <2>1. old(j) = old(m)
      BY <1>9, <1>10 DEF NoDup
  <2> QED BY <2>1, <1>1, <1>3
<1> QED BY <1>1, <1>4, <1>5, <1>9, <1>11, <1>12, <1>13 DEF t

(***************************************************************************)
(* The inductive invariant.                                                *)
(***************************************************************************)
IInv == TypeOK /\ LockInv /\ OpInv /\ DataInv /\ ResultInv

\* A thread inside a method has a well-formed call.
LEMMA CallTyped ==
    ASSUME TypeOK, NEW p \in Threads, pc[p] # "idle"
    PROVE  /\ call[p] = <<call[p][1]>> /\ call[p][1] \in Calls
           /\ Op(p) \in {"Add", "Remove", "Has"} => Arg(p) \in Items
           /\ Op(p) \in {"Add", "Remove", "Has", "Get", "Len", "All"}
<1>1. PICK c \in Calls : call[p] = <<c>>
    BY DEF TypeOK
<1>2. call[p][1] = c
    BY <1>1
<1> QED BY <1>1, <1>2 DEF Calls, Op, Arg

\* Two threads are never both inside a writer's critical section.
LEMMA OneWriter ==
    ASSUME LockInv, NEW p \in Threads, NEW q \in Threads, pc[p] = "write2" \/ InWrite(p), InWrite(q)
    PROVE  p = q
BY DEF LockInv, InWrite

\* No slice is being changed while anybody reads it.
LEMMA ReaderSeesWhole ==
    ASSUME LockInv, DataInv, NEW p \in Threads, pc[p] = "read"
    PROVE  dirty = ToSet(queue)
BY DEF LockInv, DataInv, InWrite

\* The initial state is consistent.
LEMMA InitInv == Init => IInv
<1> SUFFICES ASSUME Init PROVE IInv
    OBVIOUS
<1> USE DEF Init
<1>1. TypeOK
    BY DEF TypeOK, PCs
<1>2. LockInv /\ OpInv
    BY DEF LockInv, OpInv, InWrite
<1>3. DataInv
    BY DEF DataInv, NoDup, ToSet
<1>4. ResultInv
    BY DEF ResultInv
<1> QED BY <1>1, <1>2, <1>3, <1>4 DEF IInv

(***************************************************************************)
(* Every step preserves the invariant.  The lock actions leave the data    *)
(* alone; the bodies leave the lock alone.                                 *)
(***************************************************************************)

\* Steps outside the critical sections, and those that enter or leave one.
LEMMA LockSteps ==
    ASSUME IInv, NEW p \in Threads,
           \/ \E c \in Calls : Enter(p, c)
           \/ Lock(p) \/ Locked(p) \/ RLock(p) \/ Unlock(p) \/ RUnlock(p)
    PROVE  IInv'
<1> USE DEF IInv
<1>1. ASSUME NEW c \in Calls, Enter(p, c) PROVE IInv'
  <2> USE <1>1 DEF Enter, Goto, data, lock
  <2>1. TypeOK'
      BY DEF TypeOK, PCs
  <2>2. LockInv'
      BY DEF LockInv, TypeOK, InWrite
  <2>3. OpInv'
    <3>1. call'[p][1] = c
        BY DEF TypeOK
    <3> QED BY <3>1 DEF OpInv, TypeOK, Op
  <2>4. DataInv'
      BY DEF DataInv, TypeOK, Half, Op, Arg
  <2>5. ResultInv'
    <3>1. result[p] = <<>>
        BY DEF ResultInv
    <3> QED BY <3>1 DEF ResultInv, TypeOK, Op
  <2> QED BY <2>1, <2>2, <2>3, <2>4, <2>5
<1>2. CASE Lock(p)
  <2> USE <1>2 DEF Lock, Goto, data
  <2>1. TypeOK'
      BY DEF TypeOK, PCs
  <2>2. LockInv'
      BY DEF LockInv, TypeOK, InWrite
  <2>3. OpInv' /\ DataInv' /\ ResultInv'
      BY DEF OpInv, DataInv, ResultInv, TypeOK, Op, Half, Arg
  <2> QED BY <2>1, <2>2, <2>3
<1>3. CASE Locked(p)
  <2> USE <1>3 DEF Locked, Goto, data, lock
  <2>1. TypeOK'
      BY DEF TypeOK, PCs
  <2>2. LockInv'
      BY DEF LockInv, TypeOK, InWrite
  <2>3. OpInv' /\ DataInv' /\ ResultInv'
      BY DEF OpInv, DataInv, ResultInv, TypeOK, Op, Half, Arg
  <2> QED BY <2>1, <2>2, <2>3
<1>4. CASE RLock(p)
  <2> USE <1>4 DEF RLock, Goto, data
  <2>1. TypeOK'
      BY DEF TypeOK, PCs
  <2>2. LockInv'
      BY DEF LockInv, TypeOK, InWrite
  <2>3. OpInv' /\ DataInv'
      BY DEF OpInv, DataInv, TypeOK, Op, Half, Arg
  <2>4. ResultInv'
      BY DEF OpInv, ResultInv, TypeOK, Op
  <2> QED BY <2>1, <2>2, <2>3, <2>4
<1>5. CASE Unlock(p)
  <2> USE <1>5 DEF Unlock, data
  <2>1. TypeOK'
      BY DEF TypeOK, PCs
  <2>2. LockInv'
    <3>1. \A q \in Threads : pc[q] \in {"announced", "write", "write2", "unlock"} => q = p
        BY DEF LockInv
    <3> QED BY <3>1 DEF LockInv, TypeOK, InWrite
  <2>3. OpInv' /\ DataInv'
      BY DEF OpInv, DataInv, TypeOK, Op, Half, Arg
  <2>4. ResultInv'
      BY DEF ResultInv, OpInv, TypeOK, Op
  <2> QED BY <2>1, <2>2, <2>3, <2>4
<1>6. CASE RUnlock(p)
  <2> USE <1>6 DEF RUnlock, Goto, data
  <2>1. TypeOK'
      BY DEF TypeOK, PCs
  <2>2. LockInv'
      BY DEF LockInv, TypeOK, InWrite
  <2>3. OpInv' /\ DataInv'
      BY DEF OpInv, DataInv, TypeOK, Op, Half, Arg
  <2>4. ResultInv'
      BY DEF ResultInv, TypeOK, Op
  <2> QED BY <2>1, <2>2, <2>3, <2>4
<1> QED BY <1>1, <1>2, <1>3, <1>4, <1>5, <1>6

\* The bodies of the writing methods.
LEMMA WriteSteps ==
    ASSUME IInv, NEW p \in Threads,
           \/ Add(p) \/ AddAppend(p) \/ Get(p) \/ GetClean(p)
           \/ RemoveItem(p) \/ RemoveClean(p)
    PROVE  IInv'
<1> USE DEF IInv, In, lock
<1>0. /\ \A q \in Threads : q # p => ~InWrite(q)
      /\ \A q \in Threads : pc[q] # "read"
      /\ Op(p) \in {"Add", "Remove"} => Arg(p) \in Items
      /\ pc[p] \in {"write", "write2"} /\ p \in writer
  <2>1. pc[p] \in {"write", "write2"}
      BY DEF Add, AddAppend, Get, GetClean, RemoveItem, RemoveClean
  <2>2. InWrite(p) /\ pc[p] # "idle" /\ p \in writer /\ readers = {}
      BY <2>1 DEF InWrite, LockInv
  <2> QED BY <2>1, <2>2, CallTyped DEF LockInv, InWrite
<1>1. CASE Add(p)
  <2> USE <1>1 DEF Add, Goto, Yield
  <2>1. TypeOK'
      BY <1>0 DEF TypeOK, PCs, Op
  <2>2. LockInv' /\ OpInv'
      BY DEF LockInv, OpInv, TypeOK, InWrite, Op
  <2>3. DataInv'
      BY <1>0 DEF DataInv, TypeOK, Half, Op, Arg, InWrite
  <2>4. ResultInv'
      BY <1>0 DEF ResultInv, TypeOK, Op
  <2> QED BY <2>1, <2>2, <2>3, <2>4
<1>2. CASE AddAppend(p)
  <2> USE <1>2 DEF AddAppend, Goto, Yield
  <2>1. Arg(p) \in Items /\ Arg(p) \notin ToSet(queue) /\ dirty = ToSet(queue) \cup {Arg(p)}
      BY <1>0 DEF DataInv, Half, Op
  <2>2. queue' \in Seq(Items) /\ NoDup(queue') /\ dirty' = ToSet(queue')
    <3>1. queue \in Seq(Items) /\ NoDup(queue)
        BY DEF TypeOK, DataInv
    <3> QED BY <2>1, <3>1, AppendDistinct
  <2>3. TypeOK'
      BY <2>2 DEF TypeOK, PCs
  <2>4. LockInv' /\ OpInv'
      BY DEF LockInv, OpInv, TypeOK, InWrite, Op
  <2>5. DataInv'
    <3>1. \A q \in Threads : pc'[q] # "write2"
        BY <1>0 DEF TypeOK, InWrite
    <3> QED BY <2>2, <3>1 DEF DataInv
  <2>6. ResultInv'
      BY <1>0 DEF ResultInv, TypeOK, Op
  <2> QED BY <2>3, <2>4, <2>5, <2>6
<1>3. CASE Get(p)
  <2> USE <1>3 DEF Get, Goto, Yield
  <2>1. LockInv' /\ OpInv'
      BY DEF LockInv, OpInv, TypeOK, InWrite, Op
  <2>2. ResultInv'
      BY <1>0 DEF ResultInv, TypeOK, Op
  <2>3. dirty = ToSet(queue) /\ NoDup(queue) /\ queue \in Seq(Items)
      BY <1>0 DEF DataInv, InWrite, TypeOK
  <2>4. CASE queue = <<>>
    <3>1. TypeOK'
        BY <2>4 DEF TypeOK, PCs
    <3>2. DataInv'
        BY <2>3, <2>4, <1>0 DEF DataInv, TypeOK, InWrite
    <3> QED BY <2>1, <2>2, <3>1, <3>2
  <2>5. CASE queue # <<>>
    <3>1. /\ queue' \in Seq(Items) /\ NoDup(queue') /\ Head(queue) \in Items
          /\ Head(queue) \notin ToSet(queue') /\ dirty' = ToSet(queue') \cup {Head(queue)}
      <4>1. queue' = Tail(queue) /\ dirty' = dirty
          BY <2>5
      <4> QED BY <4>1, <2>3, <2>5, TailDistinct
    <3>2. TypeOK'
        BY <2>5, <3>1 DEF TypeOK, PCs
    <3>3. result'[p][1] = Head(queue) /\ Op(p)' = "Get" /\ pc'[p] = "write2"
        BY <2>5 DEF ResultInv, Op, TypeOK
    <3>4. \A q \in Threads : pc'[q] = "write2" => q = p
        BY <1>0 DEF TypeOK, InWrite
    <3>5. DataInv'
        BY <3>1, <3>3, <3>4 DEF DataInv, Half
    <3> QED BY <2>1, <2>2, <3>2, <3>5
  <2> QED BY <2>4, <2>5
<1>4. CASE GetClean(p)
  <2> USE <1>4 DEF GetClean, Goto
  <2>1. TypeOK'
      BY DEF TypeOK, PCs
  <2>2. LockInv' /\ OpInv'
      BY DEF LockInv, OpInv, TypeOK, InWrite, Op
  <2>3. ResultInv'
      BY <1>0 DEF ResultInv, TypeOK, Op
  <2>4. dirty' = ToSet(queue)
      BY <1>0 DEF DataInv, Half, Op
  <2>5. DataInv'
      BY <1>0, <2>4 DEF DataInv, TypeOK, InWrite
  <2> QED BY <2>1, <2>2, <2>3, <2>5
<1>5. CASE RemoveItem(p)
  <2> USE <1>5 DEF RemoveItem, Goto, Yield
  <2>1. LockInv' /\ OpInv'
      BY DEF LockInv, OpInv, TypeOK, InWrite, Op
  <2>2. ResultInv'
      BY <1>0 DEF ResultInv, TypeOK, Op
  <2>3. dirty = ToSet(queue) /\ NoDup(queue) /\ queue \in Seq(Items)
      BY <1>0 DEF DataInv, InWrite, TypeOK
  <2>4. CASE queue = <<>> \/ Arg(p) \notin dirty
    <3>1. TypeOK'
        BY <2>4 DEF TypeOK, PCs
    <3>2. DataInv'
        BY <2>3, <2>4, <1>0 DEF DataInv, TypeOK, InWrite
    <3> QED BY <2>1, <2>2, <3>1, <3>2
  <2>5. CASE queue # <<>> /\ Arg(p) \in dirty
    <3>1. Arg(p) \in ToSet(queue) /\ queue' = RemoveAt(queue, FirstIndex(queue, Arg(p)))
        BY <2>3, <2>5
    <3>2. /\ queue' \in Seq(Items) /\ NoDup(queue')
          /\ Arg(p) \notin ToSet(queue') /\ dirty' = ToSet(queue') \cup {Arg(p)}
        BY <2>3, <3>1, CutDistinct
    <3>3. TypeOK'
        BY <2>5, <3>2 DEF TypeOK, PCs
    <3>4. Half(p)' = Arg(p) /\ Arg(p) \in Items
        BY <1>0 DEF Half, Op, Arg
    <3>5. \A q \in Threads : pc'[q] = "write2" => q = p
        BY <1>0 DEF TypeOK, InWrite
    <3>6. DataInv'
        BY <2>5, <3>2, <3>4, <3>5 DEF DataInv, TypeOK
    <3> QED BY <2>1, <2>2, <3>3, <3>6
  <2> QED BY <2>4, <2>5
<1>6. CASE RemoveClean(p)
  <2> USE <1>6 DEF RemoveClean, Goto
  <2>1. TypeOK'
      BY DEF TypeOK, PCs
  <2>2. LockInv' /\ OpInv'
      BY DEF LockInv, OpInv, TypeOK, InWrite, Op
  <2>3. ResultInv'
      BY <1>0 DEF ResultInv, TypeOK, Op
  <2>4. dirty' = ToSet(queue)
      BY <1>0 DEF DataInv, Half, Op
  <2>5. DataInv'
      BY <1>0, <2>4 DEF DataInv, TypeOK, InWrite
  <2> QED BY <2>1, <2>2, <2>3, <2>5
<1> QED BY <1>1, <1>2, <1>3, <1>4, <1>5, <1>6

\* The bodies of the reading methods.
LEMMA ReadSteps ==
    ASSUME IInv, NEW p \in Threads, Length(p) \/ Has(p) \/ All(p)
    PROVE  IInv'
<1> USE DEF IInv, In, lock, data, Goto, Yield
<1>1. CASE Length(p) \/ Has(p)
  <2> USE <1>1 DEF Length, Has
  <2>1. TypeOK'
      BY DEF TypeOK, PCs
  <2>2. LockInv' /\ OpInv'
      BY DEF LockInv, OpInv, TypeOK, InWrite, Op
  <2>3. DataInv'
    <3>1. \A q \in Threads : q # p => result'[q] = result[q]
        BY DEF ResultInv
    <3> QED BY <3>1 DEF DataInv, TypeOK, Half, Op, Arg
  <2>4. ResultInv'
      BY DEF ResultInv, TypeOK, Op
  <2> QED BY <2>1, <2>2, <2>3, <2>4
<1>2. CASE All(p)
  <2> USE <1>2 DEF All
  <2> DEFINE s == IF result[p] = <<>> THEN <<>> ELSE result[p][1]
  <2>1. s \in Seq(Items) /\ CopyOf(s, queue)
      BY DEF ResultInv, CopyOf, Op, TypeOK
  <2>2. \/ /\ Len(s) < Len(queue)
           /\ result' = [result EXCEPT ![p] = <<Append(s, queue[Len(s) + 1])>>]
           /\ pc' = pc
        \/ /\ result' = [result EXCEPT ![p] = <<s>>]
           /\ pc' = [pc EXCEPT ![p] = "runlock"]
      BY DEF CopyNext
  <2>3. TypeOK'
      BY <2>2 DEF TypeOK, PCs
  <2>4. LockInv' /\ OpInv'
      BY <2>2 DEF LockInv, OpInv, TypeOK, InWrite, Op
  <2>5. DataInv'
    <3>1. \A q \in Threads : q # p => result'[q] = result[q] /\ pc'[q] = pc[q]
        BY <2>2 DEF ResultInv, TypeOK
    <3>2. pc'[p] # "write2" /\ pc[p] # "write2"
        BY <2>2 DEF TypeOK
    <3> QED BY <3>1, <3>2 DEF DataInv, Half, Op, Arg
  <2>6. ResultInv'
    <3> HIDE DEF s
    <3>1. CASE pc' = pc /\ Len(s) < Len(queue)
               /\ result' = [result EXCEPT ![p] = <<Append(s, queue[Len(s) + 1])>>]
      <4> DEFINE t == Append(s, queue[Len(s) + 1])
      <4>1. t \in Seq(Items) /\ CopyOf(t, queue)
        <5>1. queue \in Seq(Items) /\ Len(s) + 1 \in 1 .. Len(queue)
            BY <2>1, <3>1 DEF TypeOK
        <5>2. queue[Len(s) + 1] \in Items
            BY <5>1
        <5>3. /\ t \in Seq(Items) /\ Len(t) = Len(s) + 1
              /\ \A i \in 1 .. Len(s) : t[i] = s[i]
              /\ t[Len(s) + 1] = queue[Len(s) + 1]
            BY <2>1, <5>2, AppendProperties
        <5> QED BY <2>1, <5>1, <5>3 DEF CopyOf
      <4> HIDE DEF t
      <4>2. result' = [result EXCEPT ![p] = <<t>>]
          BY <3>1 DEF t
      <4>3. result'[p] = <<t>> /\ result'[p][1] = t
          BY <4>2 DEF ResultInv
      <4> QED BY <3>1, <4>1, <4>2, <4>3 DEF ResultInv, TypeOK, Op
    <3>2. CASE pc' = [pc EXCEPT ![p] = "runlock"] /\ result' = [result EXCEPT ![p] = <<s>>]
        BY <3>2 DEF ResultInv, TypeOK, Op
    <3> QED BY <2>2, <3>1, <3>2
  <2> QED BY <2>3, <2>4, <2>5, <2>6
<1> QED BY <1>1, <1>2

\* Every step of the queue, and every stuttering step.
LEMMA NextInv == IInv /\ [Next]_vars => IInv'
<1> SUFFICES ASSUME IInv, [Next]_vars PROVE IInv'
    OBVIOUS
<1>1. ASSUME NEW p \in Threads, NEW c \in Calls, Enter(p, c) PROVE IInv'
    BY <1>1, LockSteps
<1>2. ASSUME NEW p \in Threads, Lock(p) \/ Progress(p) PROVE IInv'
    BY <1>2, LockSteps, WriteSteps, ReadSteps DEF Progress, Body
<1>3. CASE UNCHANGED vars
    BY <1>3 DEF vars, data, lock, IInv, TypeOK, LockInv, OpInv, DataInv, ResultInv,
                InWrite, Op, Half, Arg
<1> QED BY <1>1, <1>2, <1>3 DEF Next

\* queue and dirty agree and items are distinct whenever no writer is between
\* its two statements, in every execution of queue.go.
THEOREM QueueConsistent == Spec => [](TypeOK /\ DirtyMatchesQueue)
<1>1. IInv => TypeOK /\ DirtyMatchesQueue
    BY DEF IInv, DataInv, DirtyMatchesQueue
<1> QED BY <1>1, InitInv, NextInv, PTL DEF Spec

\* The slice never holds the nil that Get writes over the first element before it
\* reslices (queue.go:72-77).
THEOREM QueueTyped == Spec => []TypeOK
BY QueueConsistent, PTL

(***************************************************************************)
(* Refinement: each step of queue.go is a step of the ordered set, or no   *)
(* step of it at all.                                                      *)
(***************************************************************************)
AbsResult == [p \in Threads |-> IF TookEffect(p) THEN result[p] ELSE <<>>]

\* What the mapped result of one thread, and of all the others, becomes.
LEMMA MapEffect ==
    ASSUME IInv, NEW p \in Threads, NEW v, ~TookEffect(p), TookEffect(p)',
           result' = [result EXCEPT ![p] = <<v>>], call' = call,
           \A q \in Threads : q # p => pc'[q] = pc[q]
    PROVE  AbsResult' = [AbsResult EXCEPT ![p] = <<v>>] /\ AbsResult[p] = <<>>
<1>1. \A q \in Threads : q # p => (TookEffect(q)' <=> TookEffect(q)) /\ result'[q] = result[q]
    BY DEF TookEffect, IInv, ResultInv
<1>2. result'[p] = <<v>>
    BY DEF IInv, ResultInv
<1> QED BY <1>1, <1>2 DEF AbsResult

\* A step that touches neither the queue nor a computed result is invisible.
LEMMA MapStutter ==
    ASSUME IInv, call' = call, queue' = queue,
           \A q \in Threads : TookEffect(q)' <=> TookEffect(q),
           \A q \in Threads : TookEffect(q) => result'[q] = result[q]
    PROVE  UNCHANGED <<queue, call, AbsResult>>
BY DEF AbsResult

\* Returning from a method clears the call of the thread alone.
LEMMA MapReturn ==
    ASSUME IInv, NEW p \in Threads, TookEffect(p), pc'[p] = "idle",
           result' = [result EXCEPT ![p] = <<>>], call' = [call EXCEPT ![p] = <<>>],
           \A q \in Threads : q # p => pc'[q] = pc[q] \/ (pc[q] = "rwait" /\ pc'[q] = "read")
    PROVE  AbsResult' = [AbsResult EXCEPT ![p] = <<>>] /\ AbsResult[p] = result[p]
<1>1. \A q \in Threads : q # p => (TookEffect(q)' <=> TookEffect(q)) /\ result'[q] = result[q]
    BY DEF TookEffect, IInv, ResultInv, TypeOK
<1>2. ~TookEffect(p)'
    BY DEF TookEffect
<1> QED BY <1>1, <1>2 DEF AbsResult

\* One atomic effect, with the values the ordered set prescribes.
LEMMA EffectStep ==
    ASSUME IInv, NEW p \in Threads, NEW v, pc[p] # "idle", ~TookEffect(p), TookEffect(p)',
           result' = [result EXCEPT ![p] = <<v>>], call' = call,
           \A q \in Threads : q # p => pc'[q] = pc[q],
           queue' = Abs!After(call[p][1], queue), v = Abs!Answer(call[p][1], queue)
    PROVE  Abs!AbsNext
<1>1. AbsResult' = [AbsResult EXCEPT ![p] = <<v>>] /\ AbsResult[p] = <<>>
    BY MapEffect
<1>2. call[p] # <<>>
    BY DEF IInv, TypeOK
<1>3. Abs!Effect(p)
    BY <1>1, <1>2 DEF Abs!Effect, AbsResult
<1> QED BY <1>3 DEF Abs!AbsNext

\* The steps of the ordered set, by action of the queue.
LEMMA StepRefines ==
    ASSUME IInv, [Next]_vars
    PROVE  [Abs!AbsNext]_<<queue, call, AbsResult>>
<1> USE DEF IInv
<1>1. ASSUME NEW p \in Threads, NEW c \in Calls, Enter(p, c) PROVE Abs!AbsNext
  <2>1. call[p] = <<>> /\ call' = [call EXCEPT ![p] = <<c>>] /\ queue' = queue /\ result' = result
      BY <1>1 DEF Enter, OpInv, data
  <2>2. AbsResult' = AbsResult
    <3>1. ~TookEffect(p) /\ ~TookEffect(p)'
        BY <1>1 DEF Enter, Goto, TypeOK, TookEffect
    <3>2. \A q \in Threads : q # p => (TookEffect(q)' <=> TookEffect(q))
        BY <1>1 DEF Enter, Goto, TypeOK, TookEffect
    <3> QED BY <2>1, <3>1, <3>2 DEF AbsResult
  <2>3. c \in Abs!Calls
      BY <1>1 DEF Calls, Abs!Calls
  <2>4. Abs!Invoke(p, c)
      BY <2>1, <2>2 DEF Abs!Invoke, AbsResult
  <2> QED BY <2>3, <2>4 DEF Abs!AbsNext
<1>2. ASSUME NEW p \in Threads, Lock(p) \/ Locked(p) \/ RLock(p)
      PROVE  UNCHANGED <<queue, call, AbsResult>>
    BY <1>2, MapStutter DEF Lock, Locked, RLock, Goto, TypeOK, TookEffect, data
<1>3. ASSUME NEW p \in Threads, Unlock(p) \/ RUnlock(p) PROVE Abs!AbsNext
  <2>1. /\ TookEffect(p) /\ result[p] # <<>> /\ pc'[p] = "idle" /\ queue' = queue
        /\ result' = [result EXCEPT ![p] = <<>>] /\ call' = [call EXCEPT ![p] = <<>>]
        /\ \A q \in Threads : q # p => pc'[q] = pc[q] \/ (pc[q] = "rwait" /\ pc'[q] = "read")
      BY <1>3 DEF Unlock, RUnlock, Goto, TypeOK, TookEffect, ResultInv, data
  <2>2. AbsResult' = [AbsResult EXCEPT ![p] = <<>>] /\ AbsResult[p] # <<>>
      BY <2>1, MapReturn
  <2>3. Abs!Return(p)
      BY <2>1, <2>2 DEF Abs!Return, AbsResult
  <2> QED BY <2>3 DEF Abs!AbsNext
<1>4. ASSUME NEW p \in Threads, GetClean(p) \/ RemoveClean(p)
      PROVE  UNCHANGED <<queue, call, AbsResult>>
    BY <1>4, MapStutter DEF GetClean, RemoveClean, In, Goto, TypeOK, TookEffect
<1>5. ASSUME NEW p \in Threads, pc[p] = "write"
      PROVE  dirty = ToSet(queue) /\ NoDup(queue) /\ queue \in Seq(Items)
    BY <1>5, OneWriter DEF DataInv, TypeOK, LockInv, InWrite
<1>6. ASSUME NEW p \in Threads, Add(p)
      PROVE  [Abs!AbsNext]_<<queue, call, AbsResult>>
  <2> USE <1>6 DEF Add, In, Goto, Yield
  <2>1. CASE Arg(p) \in dirty
    <3>1. Abs!After(call[p][1], queue) = queue /\ Abs!Answer(call[p][1], queue) = Nil
        BY <1>5, <2>1 DEF Abs!After, Abs!Answer, Arg, ToSet, Abs!ToSet
    <3>2. ~TookEffect(p) /\ TookEffect(p)' /\ \A q \in Threads : q # p => pc'[q] = pc[q]
        BY <2>1 DEF TookEffect, TypeOK
    <3> QED BY <2>1, <3>1, <3>2, EffectStep
  <2>2. CASE Arg(p) \notin dirty
      BY <2>2, MapStutter DEF TypeOK, TookEffect
  <2> QED BY <2>1, <2>2
<1>7. ASSUME NEW p \in Threads, AddAppend(p) PROVE Abs!AbsNext
  <2> USE <1>7 DEF AddAppend, In, Goto, Yield
  <2>1. Arg(p) \notin ToSet(queue)
      BY DEF DataInv, Half, Op
  <2>2. queue' = Abs!After(call[p][1], queue) /\ Abs!Answer(call[p][1], queue) = Nil
      BY <2>1 DEF Abs!After, Abs!Answer, Arg, ToSet, Abs!ToSet
  <2>3. ~TookEffect(p) /\ TookEffect(p)' /\ \A q \in Threads : q # p => pc'[q] = pc[q]
      BY DEF TookEffect, TypeOK
  <2> QED BY <2>2, <2>3, EffectStep
<1>8. ASSUME NEW p \in Threads, Get(p) PROVE Abs!AbsNext
  <2> USE <1>8 DEF Get, In, Goto, Yield
  <2> DEFINE v == IF queue = <<>> THEN Nil ELSE Head(queue)
  <2>1. queue' = Abs!After(call[p][1], queue) /\ Abs!Answer(call[p][1], queue) = v
      BY DEF Abs!After, Abs!Answer
  <2>2. result' = [result EXCEPT ![p] = <<v>>]
      OBVIOUS
  <2>3. ~TookEffect(p) /\ TookEffect(p)' /\ \A q \in Threads : q # p => pc'[q] = pc[q]
      BY DEF TookEffect, TypeOK
  <2> HIDE DEF v
  <2> QED BY <2>1, <2>2, <2>3, EffectStep
<1>9. ASSUME NEW p \in Threads, RemoveItem(p) PROVE Abs!AbsNext
  <2> USE <1>9 DEF RemoveItem, In, Goto, Yield
  <2>1. dirty = ToSet(queue) /\ NoDup(queue) /\ queue \in Seq(Items)
      BY <1>5
  <2>2. queue' = Abs!Without(queue, Arg(p))
    <3>1. CASE Arg(p) \in ToSet(queue)
      <4>1. queue # <<>>
          BY <3>1 DEF ToSet
      <4>2. queue' = RemoveAt(queue, FirstIndex(queue, Arg(p)))
          BY <2>1, <3>1, <4>1
      <4>3. FirstIndex(queue, Arg(p)) = CHOOSE i \in DOMAIN queue : queue[i] = Arg(p)
          BY <2>1, <3>1, CutDistinct
      <4> QED BY <3>1, <4>2, <4>3
              DEF Abs!Without, ToSet, Abs!ToSet, RemoveAt, Abs!RemoveAt
    <3>2. CASE Arg(p) \notin ToSet(queue)
        BY <2>1, <3>2 DEF Abs!Without, ToSet, Abs!ToSet
    <3> QED BY <3>1, <3>2
  <2>3. queue' = Abs!After(call[p][1], queue) /\ Abs!Answer(call[p][1], queue) = Nil
      BY <2>2 DEF Abs!After, Abs!Answer, Arg
  <2>4. ~TookEffect(p) /\ TookEffect(p)' /\ \A q \in Threads : q # p => pc'[q] = pc[q]
      BY DEF TookEffect, TypeOK
  <2> QED BY <2>3, <2>4, EffectStep
<1>10. ASSUME NEW p \in Threads, Length(p) \/ Has(p) PROVE Abs!AbsNext
  <2> USE <1>10 DEF Length, Has, In, Goto, Yield, data
  <2>1. dirty = ToSet(queue)
      BY ReaderSeesWhole
  <2>2. PICK v : result' = [result EXCEPT ![p] = <<v>>] /\ v = Abs!Answer(call[p][1], queue)
    <3>1. CASE Length(p)
        BY <3>1 DEF Abs!Answer
    <3>2. CASE Has(p)
        BY <2>1, <3>2 DEF Abs!Answer, Arg, ToSet, Abs!ToSet
    <3> QED BY <3>1, <3>2
  <2>3. queue' = Abs!After(call[p][1], queue)
      BY DEF Abs!After
  <2>4. ~TookEffect(p) /\ TookEffect(p)' /\ \A q \in Threads : q # p => pc'[q] = pc[q]
      BY DEF TookEffect, TypeOK
  <2> QED BY <2>2, <2>3, <2>4, EffectStep
<1>11. ASSUME NEW p \in Threads, All(p)
       PROVE  [Abs!AbsNext]_<<queue, call, AbsResult>>
  <2> USE <1>11 DEF All, In, Goto, Yield, data
  <2> DEFINE s == IF result[p] = <<>> THEN <<>> ELSE result[p][1]
  <2>1. s \in Seq(Items) /\ CopyOf(s, queue) /\ queue \in Seq(Items)
      BY DEF ResultInv, CopyOf, Op, TypeOK
  <2>2. CASE Len(s) < Len(queue)
      BY <2>1, <2>2, MapStutter DEF CopyNext, TookEffect, ResultInv
  <2>3. CASE Len(s) >= Len(queue)
    <3> HIDE DEF s
    <3>1. s = queue
        BY <2>1, <2>3 DEF CopyOf
    <3>2. result' = [result EXCEPT ![p] = <<s>>] /\ pc' = [pc EXCEPT ![p] = "runlock"]
        BY <2>1, <2>3 DEF CopyNext, s
    <3>3. queue' = Abs!After(call[p][1], queue) /\ Abs!Answer(call[p][1], queue) = s
        BY <3>1 DEF Abs!After, Abs!Answer
    <3>4. ~TookEffect(p) /\ TookEffect(p)' /\ \A q \in Threads : q # p => pc'[q] = pc[q]
        BY <3>2 DEF TookEffect, TypeOK
    <3> QED BY <3>2, <3>3, <3>4, EffectStep
  <2> QED BY <2>1, <2>2, <2>3
<1>12. CASE UNCHANGED vars
    BY <1>12 DEF vars, data, lock, AbsResult, TookEffect
<1> QED BY <1>1, <1>2, <1>3, <1>4, <1>6, <1>7, <1>8, <1>9, <1>10, <1>11, <1>12
        DEF Next, Progress, Body

\* queue.go implements the atomic ordered set its callers assume.
THEOREM QueueRefines == Spec => Refinement
<1>1. Init => Abs!AbsInit
    BY DEF Init, Abs!AbsInit, TookEffect
<1>2. IInv /\ [Next]_vars => [Abs!AbsNext]_(Abs!absvars)
    BY StepRefines DEF Abs!absvars, AbsResult
<1> QED BY <1>1, <1>2, InitInv, NextInv, PTL DEF Spec, Refinement, Abs!AbsSpec
=============================================================================
