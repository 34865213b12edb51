-------------------------------- MODULE Queue --------------------------------
(***************************************************************************)
(* pkg/workerpool/queue.go: the slice `queue`, the set `dirty` and the     *)
(* sync.RWMutex that guards them, at the granularity of lock operations    *)
(* and of the statements inside the critical sections.                     *)
(*                                                                         *)
(* The RWMutex (Go's runtime, external) is write-preferring: a writer      *)
(* first takes the inner mutex and announces itself, which turns every     *)
(* later RLock away, then waits for the readers already inside; Unlock     *)
(* admits all the readers it turned away before the next writer.           *)
(***************************************************************************)
EXTENDS Naturals, Sequences, SequencesExt

CONSTANTS Threads, Items, Nil

VARIABLES queue,    \* q.queue
          dirty,    \* q.dirty
          writer,   \* the holder of the RWMutex's inner mutex, {} or one thread
          readers,  \* the threads that hold the read lock
          pc,       \* where each thread is
          call,     \* the method and argument it was called with, <<>> when none
          result    \* the value to be returned, <<>> while not computed

data == <<queue, dirty>>
lock == <<writer, readers>>
vars == <<data, lock, pc, call, result>>

Writes == {"Add", "Get", "Remove"}
Calls == [op : {"Add", "Remove", "Has"}, item : Items]
         \cup [op : {"Get", "Len", "All"}, item : {Nil}]

\* idle      not in a method
\* lock      about to take, announced = waiting for readers to leave, write,
\*           write2 = first and second half of a writer's body, unlock = deferred Unlock
\* rlock     about to RLock, rwait = turned away by a writer, read = body of
\*           a reader, runlock = deferred RUnlock
PCs == {"idle", "lock", "announced", "write", "write2", "unlock",
        "rlock", "rwait", "read", "runlock"}

Init ==
    /\ queue = <<>>
    /\ dirty = {}
    /\ writer = {}
    /\ readers = {}
    /\ pc = [p \in Threads |-> "idle"]
    /\ call = [p \in Threads |-> <<>>]
    /\ result = [p \in Threads |-> <<>>]

Goto(p, l) == pc' = [pc EXCEPT ![p] = l]
Yield(p, v) == result' = [result EXCEPT ![p] = <<v>>]
In(p, l, op) == pc[p] = l /\ call[p][1].op = op
Arg(p) == call[p][1].item

(***************************************************************************)
(* Entering and leaving a method.                                          *)
(***************************************************************************)
Enter(p, c) ==
    /\ pc[p] = "idle"
    /\ call' = [call EXCEPT ![p] = <<c>>]
    /\ Goto(p, IF c.op \in Writes THEN "lock" ELSE "rlock")
    /\ UNCHANGED <<data, lock, result>>

\* Lock, first half: win the inner mutex and announce the writer.
Lock(p) ==
    /\ pc[p] = "lock"
    /\ writer = {}
    /\ writer' = {p}
    /\ Goto(p, "announced")
    /\ UNCHANGED <<data, readers, call, result>>

\* Lock, second half: the last reader has left.
Locked(p) ==
    /\ pc[p] = "announced"
    /\ readers = {}
    /\ Goto(p, "write")
    /\ UNCHANGED <<data, lock, call, result>>

RLock(p) ==
    /\ pc[p] = "rlock"
    /\ \/ /\ writer = {}
          /\ readers' = readers \cup {p}
          /\ Goto(p, "read")
       \/ /\ writer # {}
          /\ Goto(p, "rwait")
          /\ UNCHANGED readers
    /\ UNCHANGED <<data, writer, call, result>>

\* Unlock and return: every reader that was turned away is admitted first.
Unlock(p) ==
    LET admitted == {r \in Threads : pc[r] = "rwait"} IN
    /\ pc[p] = "unlock"
    /\ writer' = {}
    /\ readers' = readers \cup admitted
    /\ pc' = [r \in Threads |-> IF r = p THEN "idle"
                                ELSE IF r \in admitted THEN "read" ELSE pc[r]]
    /\ call' = [call EXCEPT ![p] = <<>>]
    /\ result' = [result EXCEPT ![p] = <<>>]
    /\ UNCHANGED data

RUnlock(p) ==
    /\ pc[p] = "runlock"
    /\ readers' = readers \ {p}
    /\ Goto(p, "idle")
    /\ call' = [call EXCEPT ![p] = <<>>]
    /\ result' = [result EXCEPT ![p] = <<>>]
    /\ UNCHANGED <<data, writer>>

(***************************************************************************)
(* The bodies.                                                             *)
(***************************************************************************)
\* Mutant: Add forgets to look at dirty.
AddAlways(p) ==
    /\ In(p, "write", "Add")
    /\ dirty' = dirty \cup {Arg(p)}
    /\ Goto(p, "write2")
    /\ UNCHANGED <<queue, lock, call, result>>

Add(p) ==
    /\ In(p, "write", "Add")
    /\ \/ /\ Arg(p) \in dirty
          /\ Goto(p, "unlock")
          /\ Yield(p, Nil)
          /\ UNCHANGED dirty
       \/ /\ Arg(p) \notin dirty
          /\ dirty' = dirty \cup {Arg(p)}
          /\ Goto(p, "write2")
          /\ UNCHANGED result
    /\ UNCHANGED <<queue, lock, call>>

AddAppend(p) ==
    /\ In(p, "write2", "Add")
    /\ queue' = Append(queue, Arg(p))
    /\ Goto(p, "unlock")
    /\ Yield(p, Nil)
    /\ UNCHANGED <<dirty, lock, call>>

\* Mutant: Get clears the head slot and does not reslice.
GetNotResliced(p) ==
    /\ In(p, "write", "Get")
    /\ \/ /\ queue = <<>>
          /\ Yield(p, Nil)
          /\ Goto(p, "unlock")
          /\ UNCHANGED queue
       \/ /\ queue # <<>>
          /\ Yield(p, Head(queue))
          /\ queue' = [queue EXCEPT ![1] = Nil]
          /\ Goto(p, "write2")
    /\ UNCHANGED <<dirty, lock, call>>

Get(p) ==
    /\ In(p, "write", "Get")
    /\ \/ /\ queue = <<>>
          /\ Yield(p, Nil)
          /\ Goto(p, "unlock")
          /\ UNCHANGED queue
       \/ /\ queue # <<>>
          /\ Yield(p, Head(queue))
          /\ queue' = Tail(queue)
          /\ Goto(p, "write2")
    /\ UNCHANGED <<dirty, lock, call>>

\* Mutant: Get leaves the item marked dirty, so it can never be added again.
GetKeepsDirty(p) ==
    /\ In(p, "write2", "Get")
    /\ Goto(p, "unlock")
    /\ UNCHANGED <<data, lock, call, result>>

GetClean(p) ==
    /\ In(p, "write2", "Get")
    /\ dirty' = dirty \ {result[p][1]}
    /\ Goto(p, "unlock")
    /\ UNCHANGED <<queue, lock, call, result>>

FirstIndex(s, x) == CHOOSE i \in DOMAIN s : s[i] = x /\ \A j \in 1 .. i - 1 : s[j] # x

RemoveItem(p) ==
    /\ In(p, "write", "Remove")
    /\ \/ /\ queue = <<>> \/ Arg(p) \notin dirty
          /\ Goto(p, "unlock")
          /\ UNCHANGED queue
       \/ /\ queue # <<>> /\ Arg(p) \in dirty
          /\ queue' = IF Arg(p) \in ToSet(queue)
                      THEN RemoveAt(queue, FirstIndex(queue, Arg(p))) ELSE queue
          /\ Goto(p, "write2")
    /\ Yield(p, Nil)
    /\ UNCHANGED <<dirty, lock, call>>

RemoveClean(p) ==
    /\ In(p, "write2", "Remove")
    /\ dirty' = dirty \ {Arg(p)}
    /\ Goto(p, "unlock")
    /\ UNCHANGED <<queue, lock, call, result>>

Length(p) ==
    /\ In(p, "read", "Len")
    /\ Yield(p, Len(queue))
    /\ Goto(p, "runlock")
    /\ UNCHANGED <<data, lock, call>>

Has(p) ==
    /\ In(p, "read", "Has")
    /\ Yield(p, Arg(p) \in dirty)
    /\ Goto(p, "runlock")
    /\ UNCHANGED <<data, lock, call>>

\* One iteration of the copying loop of All: result[p] holds the partial copy
\* while pc[p] = "read".
CopyNext(p) ==
    LET items == IF result[p] = <<>> THEN <<>> ELSE result[p][1] IN
    \/ /\ Len(items) < Len(queue)
       /\ Yield(p, Append(items, queue[Len(items) + 1]))
       /\ UNCHANGED pc
    \/ /\ Len(items) >= Len(queue)
       /\ Yield(p, items)
       /\ Goto(p, "runlock")

\* Mutant: the historical All, which called Len under its own read lock; the
\* nested RLock waits for any writer that has announced itself.
AllCallingLen(p) ==
    /\ In(p, "read", "All")
    /\ writer = {}
    /\ CopyNext(p)
    /\ UNCHANGED <<data, lock, call>>

All(p) ==
    /\ In(p, "read", "All")
    /\ CopyNext(p)
    /\ UNCHANGED <<data, lock, call>>

Body(p) ==
    \/ Add(p) \/ AddAppend(p) \/ Get(p) \/ GetClean(p) \/ RemoveItem(p) \/ RemoveClean(p)
    \/ Length(p) \/ Has(p) \/ All(p)

Progress(p) == Locked(p) \/ RLock(p) \/ Unlock(p) \/ RUnlock(p) \/ Body(p)

Next == \E p \in Threads :
    \/ \E c \in Calls : Enter(p, c)
    \/ Lock(p)
    \/ Progress(p)

\* A goroutine inside a method keeps running.  The inner mutex of the RWMutex
\* is handed to a waiter after one millisecond of starvation, hence SF.
Fairness == \A p \in Threads : WF_vars(Progress(p)) /\ SF_vars(Lock(p))

Spec == Init /\ [][Next]_vars /\ Fairness

-----------------------------------------------------------------------------
InWrite(p) == pc[p] \in {"write", "write2", "unlock"}

\* The types of the variables; only items are ever in the slice, and a thread
\* inside a method has a call to return from.
TypeOK ==
    /\ queue \in Seq(Items)
    /\ dirty \subseteq Items
    /\ writer \subseteq Threads
    /\ readers \subseteq Threads
    /\ pc \in [Threads -> PCs]
    /\ call \in [Threads -> {<<>>} \cup {<<c>> : c \in Calls}]
    /\ \A p \in Threads : pc[p] # "idle" => call[p] # <<>>

NoDup(s) == \A i, j \in DOMAIN s : s[i] = s[j] => i = j

\* The invariant queue.go relies on when it answers Has and rejects a second
\* Add from dirty alone (queue.go:51, 108): outside a writer's critical section
\* dirty is exactly the set of queued items and no item is queued twice.
DirtyMatchesQueue ==
    (\A p \in Threads : pc[p] # "write2") => dirty = ToSet(queue) /\ NoDup(queue)

\* The strengthening under which DirtyMatchesQueue is inductive.
Op(p) == call[p][1].op

LockInv ==
    /\ \A p \in Threads : p \in writer <=> pc[p] \in {"announced", "write", "write2", "unlock"}
    /\ \A p, q \in writer : p = q
    /\ \A p \in Threads : p \in readers <=> pc[p] \in {"read", "runlock"}
    /\ \A p \in Threads : InWrite(p) => readers = {}

OpInv ==
    /\ \A p \in Threads : pc[p] \in {"lock", "announced", "write", "write2"} => Op(p) \in Writes
    /\ \A p \in Threads : pc[p] \in {"rlock", "rwait", "read"} => Op(p) \notin Writes
    /\ \A p \in Threads : pc[p] = "idle" => call[p] = <<>>

\* The item a writer has handled in one of dirty and queue and not in the other.
Half(p) == IF Op(p) = "Get" THEN result[p][1] ELSE Arg(p)

DataInv ==
    /\ NoDup(queue)
    /\ (\A p \in Threads : pc[p] # "write2") => dirty = ToSet(queue)
    /\ \A p \in Threads : pc[p] = "write2" =>
          Half(p) \in Items /\ Half(p) \notin ToSet(queue) /\ dirty = ToSet(queue) \cup {Half(p)}

\* What the loop of All has copied so far.
CopyOf(s, t) == Len(s) <= Len(t) /\ \A j \in 1 .. Len(s) : s[j] = t[j]

ResultInv ==
    /\ result = [p \in Threads |-> result[p]]
    /\ \A p \in Threads :
          CASE pc[p] \in {"unlock", "runlock"} -> result[p] # <<>>
            [] pc[p] = "write2" /\ Op(p) # "Add" -> result[p] # <<>>
            [] pc[p] = "read" /\ Op(p) = "All" /\ result[p] # <<>> ->
                  LET s == result[p][1] IN
                  s \in Seq(Items) /\ result[p] = <<s>> /\ CopyOf(s, queue)
            [] OTHER -> result[p] = <<>>

\* Every method returns: in particular All (queue.go:115) cannot block itself
\* against a pending Add.
EveryCallReturns == \A p \in Threads : (pc[p] # "idle") ~> (pc[p] = "idle")

\* The concrete queue implements the atomic ordered set: a call has taken
\* effect once its last statement that touches queue has run.
TookEffect(p) ==
    \/ pc[p] \in {"unlock", "runlock"}
    \/ pc[p] = "write2" /\ call[p][1].op \in {"Get", "Remove"}

Abs == INSTANCE OrderedSet WITH
    items <- queue,
    result <- [p \in Threads |-> IF TookEffect(p) THEN result[p] ELSE <<>>]

\* Every call of queue.go behaves as one atomic step on one ordered set of
\* distinct items, in particular two Gets never return the same entry and All
\* returns a snapshot that existed.
Refinement == Abs!AbsSpec
=============================================================================
