----------------------------- MODULE OrderedSet -----------------------------
(***************************************************************************)
(* What pkg/workerpool/queue.go promises its callers: one ordered set of   *)
(* items on which every call takes effect at a single instant between its  *)
(* invocation and its return.  workerQueue and requestQueue of the worker  *)
(* pool are such sets, and WorkerPool.tla uses them as atomic objects on   *)
(* the strength of Queue!Refinement.                                       *)
(***************************************************************************)
EXTENDS Naturals, Sequences, SequencesExt

CONSTANTS Threads,   \* the goroutines that call the queue
          Items,     \* the values stored in it
          Nil        \* what Get returns when there is nothing to get

VARIABLES items,     \* the stored values, oldest first
          call,      \* call[p]: the operation p is executing, <<>> when none
          result     \* result[p]: what that operation returned, <<>> before it took effect

absvars == <<items, call, result>>

Calls == [op : {"Add", "Remove", "Has"}, item : Items]
         \cup [op : {"Get", "Len", "All"}, item : {Nil}]
Without(s, x) ==
    IF x \in ToSet(s) THEN RemoveAt(s, CHOOSE i \in DOMAIN s : s[i] = x) ELSE s

AbsInit ==
    /\ items = <<>>
    /\ call = [p \in Threads |-> <<>>]
    /\ result = [p \in Threads |-> <<>>]

Invoke(p, c) ==
    /\ call[p] = <<>>
    /\ call' = [call EXCEPT ![p] = <<c>>]
    /\ UNCHANGED <<items, result>>

\* The value an operation yields on the set s, and the set it leaves behind.
Answer(c, s) ==
    CASE c.op = "Len" -> Len(s)
      [] c.op = "Get" -> IF s = <<>> THEN Nil ELSE Head(s)
      [] c.op = "Has" -> c.item \in ToSet(s)
      [] c.op = "All" -> s
      [] OTHER -> Nil

After(c, s) ==
    CASE c.op = "Add" -> IF c.item \in ToSet(s) THEN s ELSE Append(s, c.item)
      [] c.op = "Get" -> IF s = <<>> THEN s ELSE Tail(s)
      [] c.op = "Remove" -> Without(s, c.item)
      [] OTHER -> s

Effect(p) ==
    /\ call[p] # <<>>
    /\ result[p] = <<>>
    /\ items' = After(call[p][1], items)
    /\ result' = [result EXCEPT ![p] = <<Answer(call[p][1], items)>>]
    /\ UNCHANGED call

Return(p) ==
    /\ result[p] # <<>>
    /\ call' = [call EXCEPT ![p] = <<>>]
    /\ result' = [result EXCEPT ![p] = <<>>]
    /\ UNCHANGED items

AbsNext == \E p \in Threads :
    \/ \E c \in Calls : Invoke(p, c)
    \/ Effect(p)
    \/ Return(p)

AbsSpec == AbsInit /\ [][AbsNext]_absvars
=============================================================================
