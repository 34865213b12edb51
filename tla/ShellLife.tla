------------------------------ MODULE ShellLife ------------------------------
(***************************************************************************)
(* What the controller promises about a cloudshell, seen from the API      *)
(* server: it records only what it may; a spec is the user's; a deletion   *)
(* is never undone and nothing is recorded after it; what it has let go of *)
(* serves nobody any more; a secret once referred to is never forgotten;   *)
(* Ready comes with the time from which the TTL is counted, which no later *)
(* status takes away.                                                      *)
(***************************************************************************)
CONSTANTS Shells, Workers, Specs, None

VARIABLES life,    \* life[s] = [phase, fin, pod, spec, secret, started, status]
          held     \* the cloudshells that something still serves, see LetGo

Absent == [phase |-> "absent", fin |-> FALSE, pod |-> None, spec |-> None,
           secret |-> FALSE, started |-> FALSE, status |-> "none"]

Becomes(s, state) == life' = [life EXCEPT ![s] = state]

\* By users.
Create(s, sp) ==
    /\ life[s].phase = "absent"
    /\ Becomes(s, [Absent EXCEPT !.phase = "live", !.spec = sp])

Edit(s, sp) ==
    /\ life[s].phase = "live"
    /\ Becomes(s, [life[s] EXCEPT !.spec = sp])

\* By users, or by the controller when the TTL is over.
Delete(s) ==
    /\ life[s].phase = "live"
    /\ Becomes(s, IF life[s].fin THEN [life[s] EXCEPT !.phase = "deleting"] ELSE Absent)

\* By the controller: the finalizer, the worker, the secret.
Record(s) ==
    /\ life[s].phase = "live"
    /\ \E w \in Workers \cup {None}, b \in BOOLEAN :
          /\ life[s].secret => b
          /\ Becomes(s, [life[s] EXCEPT !.fin = TRUE, !.pod = w, !.secret = b])

Report(s) ==
    /\ life[s].phase # "absent"
    /\ \/ Becomes(s, [life[s] EXCEPT !.status = "Ready", !.started = TRUE])
       \/ \E b \in BOOLEAN : /\ life[s].started => b
                             /\ Becomes(s, [life[s] EXCEPT !.status = "Complete", !.started = b])

\* The finalizer goes, and with it a cloudshell that is being deleted.
LetGo(s) ==
    /\ life[s].phase # "absent" /\ s \notin held
    /\ \/ life[s].phase = "deleting" /\ Becomes(s, Absent)
       \/ /\ life[s].phase = "live"
          /\ \E w \in Workers \cup {None}, b \in BOOLEAN :
                /\ life[s].secret => b
                /\ Becomes(s, [life[s] EXCEPT !.fin = FALSE, !.pod = w, !.secret = b])

LInit == life = [s \in Shells |-> Absent]

LNext == \E s \in Shells : \/ Delete(s) \/ Record(s) \/ Report(s) \/ LetGo(s)
                           \/ \E sp \in Specs : Create(s, sp) \/ Edit(s, sp)

LSpec == LInit /\ [][LNext]_life
=============================================================================
