------------------------------ MODULE Manager -------------------------------
(***************************************************************************)
(* cmd/main.go and cmd/app/cloudshell-manager.go: the replicas of the      *)
(* cloudshell-controller-manager, of which the one that holds the lease    *)
(* runs the controller and the worker pool.  The election itself is        *)
(* client-go's (external): a candidate takes the lease over when it has    *)
(* seen no change of the record for LeaseDuration, by its own clock, and a *)
(* leader that could not renew gives up after RenewDeadline.               *)
(*                                                                         *)
(* Time is counted in ticks; clocks may be set differently but run at the  *)
(* same rate.                                                              *)
(***************************************************************************)
EXTENDS Naturals

CONSTANTS Replicas,
          Nobody, Former,     \* the record does not exist, or names a process that is gone
          LeaseDuration, RenewDeadline, RetryPeriod,
          ExitTime,           \* how long an answer of the API server and the exit after a
                              \* loss may take together
          MaxStops            \* how many processes are stopped or die

ASSUME ManagerAssumption ==
    /\ Nobody \notin Replicas /\ Former \notin Replicas
    /\ LeaseDuration \in Nat /\ RenewDeadline \in Nat /\ RetryPeriod \in Nat /\ ExitTime \in Nat
    /\ RetryPeriod + RenewDeadline + ExitTime < LeaseDuration
    /\ MaxStops \in Nat

VARIABLES proc,     \* the process of each replica
          holder,   \* holderIdentity of the lease; every process has an identity of its own
          seen,     \* the replicas that know the present version of the record
          age,      \* ticks since a replica learnt, or wrote, that version
          stops     \* signals and crashes so far

vars == <<proc, holder, seen, age, stops>>

\* standby campaigns; deaf has received SIGTERM and campaigns all the same, since
\* the election runs under context.TODO(); leading runs the controllers; draining
\* has stopped them on SIGTERM and still renews; lost has left the election and
\* is about to exit, its controllers still running.
Procs == {"down", "standby", "deaf", "leading", "draining", "lost"}
Elected(r) == proc[r] \in {"leading", "draining"}
Active(r) == proc[r] \in {"leading", "lost"}
Timed(r) == Elected(r) \/ proc[r] = "lost" \/ r \in seen

Init ==
    /\ proc = [r \in Replicas |-> "down"]
    /\ holder = Nobody /\ seen = {} /\ age = [r \in Replicas |-> 0]
    /\ stops = 0

Is(r, p) == proc' = [proc EXCEPT ![r] = p]
Leave(r) ==
    /\ Is(r, "down")
    /\ holder' = IF holder = r THEN Former ELSE holder
    /\ seen' = seen \ {r}
    /\ age' = [age EXCEPT ![r] = 0]

\* A record written by r: everybody else has to see it first.
Stamp(r) ==
    /\ holder' = r
    /\ seen' = {r}
    /\ age' = [q \in Replicas |-> IF q # r /\ (Elected(q) \/ proc[q] = "lost") THEN age[q] ELSE 0]

\* main and Run, up to the election.
Start(r) ==
    /\ proc[r] = "down"
    /\ Is(r, "standby")
    /\ UNCHANGED <<holder, seen, age, stops>>

\* The observed record has not changed for LeaseDuration.
Expired(r) == r \in seen /\ age[r] >= LeaseDuration

\* Mutant: StartControllers is given a context that is already done.
PollStopped(r) ==
    /\ proc[r] \in {"standby", "deaf"}
    /\ \/ (holder = Nobody \/ Expired(r)) /\ Stamp(r) /\ Is(r, "draining")
       \/ /\ holder # Nobody /\ r \notin seen
          /\ seen' = seen \cup {r}
          /\ age' = [age EXCEPT ![r] = 0]
          /\ UNCHANGED <<proc, holder>>
    /\ UNCHANGED stops

\* tryAcquireOrRenew of a candidate, and OnStartedLeading when it succeeds:
\* StartControllers runs until ctx is done, which for a deaf process it is.
Poll(r) ==
    /\ proc[r] \in {"standby", "deaf"}
    /\ \/ /\ holder = Nobody \/ Expired(r)
          /\ Stamp(r)
          /\ Is(r, IF proc[r] = "standby" THEN "leading" ELSE "draining")
       \/ /\ holder # Nobody /\ r \notin seen
          /\ seen' = seen \cup {r}
          /\ age' = [age EXCEPT ![r] = 0]
          /\ UNCHANGED <<proc, holder>>
    /\ UNCHANGED stops

Renew(r) ==
    /\ Elected(r) /\ holder = r
    /\ Stamp(r)
    /\ UNCHANGED <<proc, stops>>

\* Mutant: LeaseDuration and RenewDeadline are handed over in the wrong order.
DeadlineSwapped == RetryPeriod + LeaseDuration

\* The attempts to renew begin a RetryPeriod after the last success at the latest,
\* and last RenewDeadline.
Deadline == RetryPeriod + RenewDeadline

\* OnStoppedLeading only logs; RunOrDie returns.
Lose(r) ==
    /\ age[r] >= RenewDeadline
    /\ \/ proc[r] = "leading" /\ Is(r, "lost") /\ UNCHANGED <<holder, seen, age>>
       \/ proc[r] = "draining" /\ Leave(r)
    /\ UNCHANGED stops

\* Mutant: after the election Run waits for a signal that stops the controllers
\* and not the process.
ExitHangs(r) ==
    /\ proc[r] = "lost"
    /\ Is(r, "hung")
    /\ UNCHANGED <<holder, seen, age, stops>>

\* Run returns, and main calls os.Exit.
Exit(r) ==
    /\ proc[r] = "lost"
    /\ Leave(r)
    /\ UNCHANGED stops

\* SIGTERM: SetupSignalContext cancels ctx, and with it StartControllers, not the
\* election.
Terminate(r) ==
    /\ stops < MaxStops /\ stops' = stops + 1
    /\ \/ proc[r] = "standby" /\ Is(r, "deaf")
       \/ proc[r] = "leading" /\ Is(r, "draining")
    /\ UNCHANGED <<holder, seen, age>>

\* A second signal, or SIGKILL at the end of the grace period.
Kill(r) ==
    /\ proc[r] \in {"deaf", "draining"}
    /\ Leave(r)
    /\ UNCHANGED stops

Crash(r) ==
    /\ stops < MaxStops /\ stops' = stops + 1
    /\ proc[r] # "down"
    /\ Leave(r)

\* Time passes, but not beyond a deadline somebody has yet to meet.
Tick ==
    /\ \A r \in Replicas : /\ Elected(r) => age[r] < Deadline
                           /\ proc[r] = "lost" => age[r] < Deadline + ExitTime
    /\ age' = [r \in Replicas |-> IF Timed(r) /\ age[r] < LeaseDuration THEN age[r] + 1 ELSE age[r]]
    /\ UNCHANGED <<proc, holder, seen, stops>>

Next == Tick \/ \E r \in Replicas :
            Start(r) \/ Poll(r) \/ Renew(r) \/ Lose(r) \/ Exit(r) \/ Terminate(r) \/ Kill(r) \/ Crash(r)

\* Time passes, candidates poll, processes that end are ended by the kubelet after
\* their grace period and started again.  Renewals may fail for ever.
Fairness == /\ WF_vars(Tick)
            /\ \A r \in Replicas : /\ WF_vars(Start(r)) /\ WF_vars(Poll(r))
                                   /\ WF_vars(Exit(r)) /\ WF_vars(Kill(r))

Spec == Init /\ [][Next]_vars
FairSpec == Spec /\ Fairness

-----------------------------------------------------------------------------
\* The shape of the state.
TypeOK ==
    /\ proc \in [Replicas -> Procs]
    /\ holder \in Replicas \cup {Nobody, Former}
    /\ seen \subseteq Replicas
    /\ age \in [Replicas -> 0 .. LeaseDuration]
    /\ stops \in 0 .. MaxStops

\* At most one process runs controller and worker pool, which both assume that
\* nobody else works on their objects.  A leader that lost the lease runs them
\* until it exits, and a candidate must not start before (cloudshell-manager.go:
\* 120-137).
OneActive == \A r, q \in Replicas : Active(r) /\ Active(q) => r = q

\* Somebody runs them again and again, whatever is stopped, killed or cut off from
\* the API server: in particular a terminated leader, which renews the lease and
\* does no work, holds the others up only until it is killed.
SomebodyActive == []<>(\E r \in Replicas : Active(r))
=============================================================================
