---------------------------- MODULE JobContract ----------------------------
(***************************************************************************)
(* What a certificate job promises an operator, without leases, claims,    *)
(* nonces, retries, messages or crashes.  A job is requested, starts at    *)
(* most once for good and ends once.  It is carried out by one agent at    *)
(* most: the one that holds the started job.  When that can no longer be   *)
(* told from the job, the job is flagged, and stays so, for a person to    *)
(* reconcile; only then may its agent still be at work on it.              *)
(* (apps/api/services/certops/jobs.js, agentDispatch.js and the reaper of  *)
(* apps/worker/src/certops-worker.js)                                      *)
(***************************************************************************)
CONSTANTS Jobs, Agents, NoAgent

VARIABLES
  phase,    \* absent, open, started or ended
  holder,   \* the agent the job names
  flagged,  \* a person has to reconcile it
  doers     \* the agents that have carried it out

vars == <<phase, holder, flagged, doers>>

Init ==
  /\ phase = [j \in Jobs |-> "absent"]
  /\ holder = [j \in Jobs |-> NoAgent]
  /\ flagged = [j \in Jobs |-> FALSE]
  /\ doers = [j \in Jobs |-> {}]

\* An open job may be offered, taken back and offered to somebody else.
Reoffer(j) == phase[j] = "open" /\ phase'[j] = "open"

Request(j) == phase[j] = "absent" /\ phase'[j] = "open"

Start(j) == phase[j] = "open" /\ phase'[j] = "started"

End(j) == phase[j] \in {"open", "started"} /\ phase'[j] = "ended"

Stay(j) == phase[j] # "open" /\ phase'[j] = phase[j]

\* A job that has started names its agent as before, or is flagged.
Attributed(j) ==
  phase[j] = "started" \/ doers[j] # {} => holder'[j] = holder[j] \/ flagged'[j]

\* One transaction over some of the jobs.
Manage ==
  /\ \A j \in Jobs :
       /\ Reoffer(j) \/ Request(j) \/ Start(j) \/ End(j) \/ Stay(j)
       /\ Attributed(j)
       /\ flagged[j] => flagged'[j]
  /\ UNCHANGED doers

\* Agent a changes the world on behalf of job j.
CarryOut(j, a) ==
  /\ \/ phase[j] = "started" /\ holder[j] = a
     \/ phase[j] \in {"started", "ended"} /\ flagged[j]
  /\ doers[j] \subseteq {a}
  /\ doers' = [doers EXCEPT ![j] = {a}]
  /\ UNCHANGED <<phase, holder, flagged>>

Next == Manage \/ \E j \in Jobs, a \in Agents : CarryOut(j, a)

Spec == Init /\ [][Next]_vars

\* A job is carried out by one agent at most, only after it has started, and it
\* says by which, unless it is flagged.
Accountable ==
  \A j \in Jobs : doers[j] # {} =>
    /\ phase[j] \in {"started", "ended"}
    /\ \E a \in Agents : doers[j] = {a}
    /\ flagged[j] \/ doers[j] = {holder[j]}
=============================================================================
