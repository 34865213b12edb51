----------------------------- MODULE WorkerLife -----------------------------
(***************************************************************************)
(* What pkg/workerpool promises about a worker, seen from the API server:  *)
(* it is idle or lent to a cloudshell; the pool's finalizer guards it as   *)
(* long as it is idle; a deletion is never undone, and a guarded worker    *)
(* disappears only after the pool has let go of it.                        *)
(***************************************************************************)
CONSTANTS Workers, Shells, None

VARIABLE life    \* life[w] = [phase, owner, guarded]

Absent == [phase |-> "absent", owner |-> None, guarded |-> FALSE]

Becomes(w, state) == life' = [life EXCEPT ![w] = state]

Create(w) ==
    /\ life[w] = Absent
    /\ Becomes(w, [phase |-> "live", owner |-> None, guarded |-> TRUE])

\* A worker that is being deleted may still be lent; it is not guarded then.
Lend(w, s) ==
    /\ life[w].phase # "absent"
    /\ Becomes(w, [phase |-> life[w].phase, owner |-> s, guarded |-> FALSE])

TakeBack(w) ==
    /\ life[w].phase = "live"
    /\ Becomes(w, [phase |-> "live", owner |-> None, guarded |-> TRUE])

Condemn(w) ==
    /\ life[w].phase = "live"
    /\ Becomes(w, [life[w] EXCEPT !.phase = "deleting"])

LetGo(w) ==
    /\ life[w].phase = "deleting" /\ life[w].guarded
    /\ Becomes(w, [phase |-> "deleting", owner |-> life[w].owner, guarded |-> FALSE])

Vanish(w) ==
    /\ life[w].phase = "deleting" /\ ~life[w].guarded
    /\ Becomes(w, Absent)

LInit == life = [w \in Workers |-> Absent]

LNext == \E w \in Workers : \/ Create(w) \/ TakeBack(w) \/ Condemn(w) \/ LetGo(w) \/ Vanish(w)
                            \/ \E s \in Shells : Lend(w, s)

LSpec == LInit /\ [][LNext]_life
=============================================================================
