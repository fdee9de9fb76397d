------------------------- MODULE JobContract_proof -------------------------
(***************************************************************************)
(* What the contract of a job gives an operator, for every set of jobs and *)
(* agents.  CertOpsJobs implements the contract (ContractImplemented), so  *)
(* the job table gives it too.                                             *)
(***************************************************************************)
EXTENDS JobContract, TLAPS

\* Who has carried out which job.
DoersKnown == doers \in [Jobs -> SUBSET Agents]

\* Whoever looks at a job that was carried out finds the one agent that did it, or
\* a flag that sends a person to find out: no step takes the answer away.
THEOREM ContractAccountable == Spec => []Accountable
<1>1. Init => DoersKnown /\ Accountable
  BY DEF Init, DoersKnown, Accountable
<1>2. DoersKnown /\ [Next]_vars => DoersKnown'
  BY DEF DoersKnown, Next, Manage, CarryOut, vars
<1>3. DoersKnown /\ Accountable /\ [Next]_vars => Accountable'
  <2> SUFFICES ASSUME DoersKnown, Accountable, [Next]_vars, NEW j \in Jobs, doers'[j] # {}
               PROVE  /\ phase'[j] \in {"started", "ended"}
                      /\ \E a \in Agents : doers'[j] = {a}
                      /\ flagged'[j] \/ doers'[j] = {holder'[j]}
    BY DEF Accountable
  <2>1. CASE Manage
    <3>1. /\ doers' = doers /\ Attributed(j) /\ (flagged[j] => flagged'[j])
          /\ Reoffer(j) \/ Request(j) \/ Start(j) \/ End(j) \/ Stay(j)
      BY <2>1 DEF Manage
    <3>2. /\ phase[j] \in {"started", "ended"} /\ (\E a \in Agents : doers[j] = {a})
          /\ flagged[j] \/ doers[j] = {holder[j]}
      BY <3>1 DEF Accountable
    <3>3. phase'[j] \in {"started", "ended"}
      BY <3>1, <3>2 DEF Reoffer, Request, Start, End, Stay
    <3> QED BY <3>1, <3>2, <3>3 DEF Attributed
  <2>2. ASSUME NEW i \in Jobs, NEW a \in Agents, CarryOut(i, a)
        PROVE  /\ phase'[j] \in {"started", "ended"}
               /\ \E b \in Agents : doers'[j] = {b}
               /\ flagged'[j] \/ doers'[j] = {holder'[j]}
    <3>1. /\ phase' = phase /\ holder' = holder /\ flagged' = flagged
          /\ doers' = [doers EXCEPT ![i] = {a}]
      BY <2>2 DEF CarryOut
    <3>2. CASE j # i
      BY <3>1, <3>2 DEF Accountable, DoersKnown
    <3>3. CASE j = i
      BY <2>2, <3>1, <3>3 DEF CarryOut, DoersKnown
    <3> QED BY <3>2, <3>3
  <2>3. CASE UNCHANGED vars
    BY <2>3 DEF vars, Accountable
  <2> QED BY <2>1, <2>2, <2>3 DEF Next
<1> QED BY <1>1, <1>2, <1>3, PTL DEF Spec
=============================================================================
