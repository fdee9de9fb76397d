------------------------ MODULE CertOpsOutbox_proof ------------------------
(***************************************************************************)
(* Proofs about CertOpsOutbox, for every set of intents, certificates and  *)
(* drains, every retry budget, and drains that may outlive their leases.   *)
(*                                                                         *)
(* IInv carries them.  RowStep says what any step may make of a row; what  *)
(* drains, detached certificates and profiles know of a row survives such  *)
(* a step, and only the steps that take rows up, derive a profile or       *)
(* detach one need an argument of their own.                               *)
(***************************************************************************)
EXTENDS CertOpsOutbox, TLAPS

\* What a step may make of row r: an intent stays what it is, and so does its
\* decision.
Evolves(r, s) ==
  /\ r.event # "none" => s.event = r.event /\ s.cert = r.cert
  /\ r.status \in {"succeeded", "skipped"} => s.status = r.status

\* A row that may be written over row i.
Good(i, new) ==
  /\ new \in OutboxRow
  /\ RowOK(new, failures'[i] + lost'[i])
  /\ Evolves(outbox[i], new)

RowsGood == outbox' \in [Intents -> OutboxRow] /\ \A i \in Intents : Good(i, outbox'[i])

\* The events and the certificates of intents, spelled out for the provers.
LEMMA RowFacts ==
  ASSUME TypeOK, RowInv, NEW i \in Intents
  PROVE  /\ outbox[i] \in OutboxRow
         /\ RowOK(outbox[i], failures[i] + lost[i])
         /\ failures[i] \in 0..AttemptCap /\ lost[i] \in 0..AttemptCap
BY DEF TypeOK, RowInv

\* A row that is not written stays good.
LEMMA SameGood ==
  ASSUME TypeOK, RowInv, NEW i \in Intents,
         failures'[i] = failures[i], lost'[i] = lost[i]
  PROVE  Good(i, outbox[i])
BY RowFacts DEF Good, Evolves

\* A step that writes at most one row, with a good one.
LEMMA WriteGood ==
  ASSUME TypeOK, RowInv, NEW i \in Intents, NEW new, Good(i, new),
         outbox' = [outbox EXCEPT ![i] = new],
         \A k \in Intents \ {i} : failures'[k] = failures[k] /\ lost'[k] = lost[k]
  PROVE  RowsGood
<1>1. new \in OutboxRow
  BY DEF Good
<1>2. outbox' \in [Intents -> OutboxRow]
  BY <1>1 DEF TypeOK
<1>3. ASSUME NEW k \in Intents PROVE Good(k, outbox'[k])
  <2>1. CASE k = i
    BY <2>1 DEF TypeOK
  <2>2. CASE k # i
    BY <2>2, SameGood DEF TypeOK
  <2> QED BY <2>1, <2>2
<1> QED BY <1>2, <1>3 DEF RowsGood

\* A step that writes no row.
LEMMA NoWriteGood ==
  ASSUME TypeOK, RowInv, UNCHANGED <<outbox, failures, lost>>
  PROVE  RowsGood
BY SameGood DEF RowsGood, TypeOK

\* What the loop of a drain writes over its own row is good.
LEMMA LoopGood ==
  ASSUME TypeOK, RowInv, NEW d \in Drains, NEW i \in Intents, outbox[i].claim = d,
         lost' = lost
  PROVE  /\ failures' = failures => Good(i, completed(outbox[i], "skipped"))
         /\ failures' = failures => Good(i, completed(outbox[i], "succeeded"))
         /\ failures' = failures => Good(i, deferred(outbox[i]))
         /\ failures' = [failures EXCEPT ![i] = plusOne(@)] => Good(i, failed(outbox[i]))
<1>1. outbox[i] \in OutboxRow /\ outbox[i].status = "pending" /\ outbox[i].event # "none"
  BY RowFacts, DrainsAssumption DEF RowOK
<1>2. failures' = failures => Good(i, completed(outbox[i], "skipped"))
  BY <1>1, RowFacts DEF Good, completed, RowOK, Evolves, OutboxRow
<1>3. failures' = failures => Good(i, completed(outbox[i], "succeeded"))
  BY <1>1, RowFacts DEF Good, completed, RowOK, Evolves, OutboxRow
<1>4. ASSUME failures' = failures PROVE Good(i, deferred(outbox[i]))
  <2> DEFINE n == outbox[i].attempts
  <2>0. (IF n > 0 THEN n - 1 ELSE 0) \in 0..AttemptCap
    BY <1>1, AttemptsAssumption DEF OutboxRow, AttemptCap
  <2>1. deferred(outbox[i]) \in OutboxRow
    BY <1>1, <2>0 DEF deferred, OutboxRow
  <2>2. RowOK(deferred(outbox[i]), failures[i] + lost[i])
    BY <1>1, RowFacts, AttemptsAssumption, DrainsAssumption DEF deferred, OutboxRow, RowOK, AttemptCap
  <2> QED BY <1>1, <1>4, <2>1, <2>2 DEF Good, deferred, Evolves, OutboxRow
<1>5. ASSUME failures' = [failures EXCEPT ![i] = plusOne(@)] PROVE Good(i, failed(outbox[i]))
  <2>1. failed(outbox[i]) \in OutboxRow
    BY <1>1 DEF failed, OutboxRow
  <2>2. failures'[i] = plusOne(failures[i])
    BY <1>5 DEF TypeOK
  <2>3. RowOK(failed(outbox[i]), plusOne(failures[i]) + lost[i])
    BY <1>1, RowFacts, AttemptsAssumption, DrainsAssumption
       DEF failed, OutboxRow, RowOK, AttemptCap, plusOne
  <2> QED BY <1>1, <1>5, <2>1, <2>2, <2>3 DEF Good, failed, Evolves, OutboxRow
<1> QED BY <1>2, <1>3, <1>4, <1>5

\* Every step leaves good rows.
LEMMA RowStep ==
  ASSUME IInv, Next
  PROVE  RowsGood
<1>0. TypeOK /\ RowInv /\ DrainInv
  BY DEF IInv
<1>1. ASSUME NEW i \in Intents, IntentNext(i)
      PROVE  RowsGood
  <2>0. outbox[i] \in OutboxRow /\ RowOK(outbox[i], failures[i] + lost[i])
    BY <1>0, RowFacts
  <2>1. ASSUME NEW c \in Certificates, renewalSetupJobCreator(i, c) PROVE RowsGood
    <3> DEFINE new == [Absent EXCEPT !.event = DERIVATION, !.status = "pending",
                                     !.cert = c, !.due = TRUE]
    <3>0. outbox[i].event = "none" /\ outbox[i].status = "absent"
      BY <2>0, <2>1 DEF RowOK, renewalSetupJobCreator, enqueueOutboxEvent
    <3>a. 0 \in 0..AttemptCap
      BY AttemptsAssumption DEF AttemptCap
    <3>b. new \in OutboxRow
      BY <3>a DEF Absent, OutboxRow
    <3>c. failures' = failures /\ lost' = lost
      BY <2>1 DEF renewalSetupJobCreator
    <3>d. RowOK(new, failures'[i] + lost'[i])
      BY <3>c, <1>0, RowFacts, CertificatesAssumption, AttemptsAssumption
         DEF Absent, RowOK, DERIVATION, ALERT, AttemptCap
    <3>1. Good(i, new)
      BY <3>0, <3>b, <3>d DEF Good, Evolves, Absent
    <3> QED BY <2>1, <3>1, <1>0, WriteGood DEF renewalSetupJobCreator, enqueueOutboxEvent
  <2>2. CASE requestRenewalAlert(i)
    <3> DEFINE new == [Absent EXCEPT !.event = ALERT, !.status = "pending",
                                     !.cert = NoCertificate, !.due = TRUE]
    <3>0. outbox[i].event = "none" /\ outbox[i].status = "absent"
      BY <2>0, <2>2 DEF RowOK, requestRenewalAlert, enqueueOutboxEvent
    <3>a. 0 \in 0..AttemptCap
      BY AttemptsAssumption DEF AttemptCap
    <3>b. new \in OutboxRow
      BY <3>a DEF Absent, OutboxRow
    <3>c. failures' = failures /\ lost' = lost
      BY <2>2 DEF requestRenewalAlert
    <3>d. RowOK(new, failures'[i] + lost'[i])
      BY <3>c, <1>0, RowFacts, CertificatesAssumption, AttemptsAssumption
         DEF Absent, RowOK, DERIVATION, ALERT, AttemptCap
    <3>1. Good(i, new)
      BY <3>0, <3>b, <3>d DEF Good, Evolves, Absent
    <3> QED BY <2>2, <3>1, <1>0, WriteGood DEF requestRenewalAlert, enqueueOutboxEvent
  <2>3. CASE retryRenewalSetupIntent(i)
    <3> DEFINE new == [outbox[i] EXCEPT !.status = "pending", !.attempts = 0, !.due = TRUE,
                                        !.claim = NoDrain, !.leased = FALSE]
    <3>1. /\ outbox' = [outbox EXCEPT ![i] = new]
          /\ failures'[i] = 0 /\ lost'[i] = 0
          /\ \A k \in Intents \ {i} : failures'[k] = failures[k] /\ lost'[k] = lost[k]
      BY <2>3, <1>0 DEF retryRenewalSetupIntent, TypeOK, OutboxRow
    <3>a. 0 \in 0..AttemptCap
      BY AttemptsAssumption DEF AttemptCap
    <3>b. new \in OutboxRow
      BY <2>0, <3>a DEF OutboxRow
    <3>c. outbox[i].event = DERIVATION /\ outbox[i].status = "failed"
      BY <2>3 DEF retryRenewalSetupIntent
    <3>d. RowOK(new, 0)
      BY <2>0, <3>c DEF RowOK, OutboxRow, DERIVATION
    <3>e. Evolves(outbox[i], new)
      BY <2>0, <3>c DEF Evolves, OutboxRow
    <3>2. Good(i, new)
      BY <3>1, <3>b, <3>d, <3>e DEF Good
    <3> QED BY <3>1, <3>2, <1>0, WriteGood
  <2>4. CASE leaseRunsOut(i)
    <3> DEFINE new == [outbox[i] EXCEPT !.leased = FALSE]
    <3>1. Good(i, new)
      BY <2>0, <2>4 DEF Good, OutboxRow, RowOK, Evolves, leaseRunsOut
    <3>2. outbox' = [outbox EXCEPT ![i] = new]
      BY <2>4, <1>0 DEF leaseRunsOut, TypeOK
    <3> QED BY <2>4, <3>1, <3>2, <1>0, WriteGood DEF leaseRunsOut
  <2>5. CASE retryFallsDue(i)
    <3> DEFINE new == [outbox[i] EXCEPT !.due = TRUE]
    <3>1. Good(i, new)
      BY <2>0, <2>5 DEF Good, OutboxRow, RowOK, Evolves, retryFallsDue
    <3>2. outbox' = [outbox EXCEPT ![i] = new]
      BY <2>5, <1>0 DEF retryFallsDue, TypeOK
    <3> QED BY <2>5, <3>1, <3>2, <1>0, WriteGood DEF retryFallsDue
  <2>6. CASE \/ \E status \in {"succeeded", "failed"} : jobEnds(i, status)
             \/ deadlinePasses(i)
    BY <2>6, <1>0, NoWriteGood DEF jobEnds, deadlinePasses
  <2> QED BY <1>1, <2>1, <2>2, <2>3, <2>4, <2>5, <2>6 DEF IntentNext
<1>2. ASSUME NEW c \in Certificates, CertificateNext(c)
      PROVE  RowsGood
  <2>1. CASE detachRenewalProfile(c)
    <3>1. ASSUME NEW i \in Intents PROVE Good(i, invalidated(outbox[i], c))
      <4>1. outbox[i] \in OutboxRow /\ RowOK(outbox[i], failures[i] + lost[i])
        BY <1>0, RowFacts
      <4>2. failures' = failures /\ lost' = lost
        BY <2>1 DEF detachRenewalProfile
      <4>3. invalidated(outbox[i], c) \in OutboxRow
        BY <4>1 DEF invalidated, OutboxRow
      <4> QED BY <4>1, <4>2, <4>3
              DEF Good, OutboxRow, RowOK, Evolves, invalidated, REVIVABLE_OUTBOX_STATUSES, DERIVATION
    <3>2. outbox' = [i \in Intents |-> invalidated(outbox[i], c)]
      BY <2>1 DEF detachRenewalProfile
    <3> QED BY <3>1, <3>2 DEF RowsGood, Good
  <2>2. CASE \E p \in {NoProfile, OtherProfile} : linkProfile(c, p)
    BY <2>2, <1>0, NoWriteGood DEF linkProfile
  <2> QED BY <1>2, <2>1, <2>2 DEF CertificateNext
<1>3. ASSUME NEW d \in Drains, DrainNext(d)
      PROVE  RowsGood
  <2>1. ASSUME NEW S \in SUBSET Intents, drainCertOpsOutbox(d, S) PROVE RowsGood
    <3> DEFINE taken(i) == [outbox[i] EXCEPT !.claim = d, !.leased = TRUE, !.attempts = plusOne(@)]
    <3>1. ASSUME NEW i \in Intents PROVE Good(i, outbox'[i])
      <4>0. outbox[i] \in OutboxRow /\ RowOK(outbox[i], failures[i] + lost[i])
            /\ failures[i] \in 0..AttemptCap /\ lost[i] \in 0..AttemptCap
        BY <1>0, RowFacts
      <4>1. CASE i \in S
        <5> DEFINE n == outbox[i].attempts
        <5>1. /\ outbox'[i] = taken(i) /\ failures'[i] = failures[i]
              /\ lost'[i] = IF outbox[i].claim # NoDrain THEN plusOne(lost[i]) ELSE lost[i]
              /\ outbox[i].status = "pending" /\ ~outbox[i].leased
          BY <2>1, <4>0, <4>1 DEF drainCertOpsOutbox, claimable, RowOK
        <5>2. plusOne(n) \in 0..AttemptCap /\ plusOne(n) <= n + 1
          BY <4>0, AttemptsAssumption DEF OutboxRow, AttemptCap, plusOne
        <5>3. taken(i) \in OutboxRow
          BY <4>0, <5>2 DEF OutboxRow
        <5>4. plusOne(n) <= failures'[i] + lost'[i] + 1
          BY <4>0, <5>1, <5>2, AttemptsAssumption DEF OutboxRow, RowOK, AttemptCap, plusOne
        <5>5. taken(i).attempts = plusOne(n) /\ taken(i).claim = d /\ taken(i).status = "pending"
              /\ taken(i).event = outbox[i].event /\ taken(i).cert = outbox[i].cert
          BY <4>0, <5>1 DEF OutboxRow
        <5> QED BY <4>0, <5>1, <5>3, <5>4, <5>5, DrainsAssumption DEF Good, RowOK, Evolves
      <4>2. CASE i \notin S
        BY <2>1, <4>2, <1>0, SameGood DEF drainCertOpsOutbox
      <4> QED BY <4>1, <4>2
    <3>2. outbox' = [i \in Intents |-> outbox'[i]]
      BY <2>1 DEF drainCertOpsOutbox
    <3> QED BY <3>1, <3>2 DEF RowsGood, Good
  <2>2. CASE takeUpRow(d) \/ handlerThrows(d) \/ insertAlert(d) \/ crash(d)
    BY <2>2, <1>0, NoWriteGood
       DEF takeUpRow, handleProfileDerivationIntent, queueCertRenewalFailedAlert,
           handlerThrows, insertAlert, crash
  <2>3. CASE deriveProfile(d)
    <3> DEFINE i == drain[d].row
    <3>1. i \in Intents
      BY <2>3, <1>0 DEF deriveProfile, DrainInv
    <3>2. CASE ~ownsRow(d)
      BY <2>3, <3>2, <1>0, NoWriteGood DEF deriveProfile
    <3>3. CASE ownsRow(d)
      <4>1. outbox[i].claim = d
        BY <3>3 DEF ownsRow
      <4>2. Good(i, completed(outbox[i], "skipped")) /\ Good(i, completed(outbox[i], "succeeded"))
        BY <2>3, <3>1, <4>1, <1>0, LoopGood DEF deriveProfile
      <4>3. \/ outbox' = [outbox EXCEPT ![i] = completed(outbox[i], "skipped")]
            \/ outbox' = [outbox EXCEPT ![i] = completed(outbox[i], "succeeded")]
        BY <2>3, <3>1, <3>3, <1>0 DEF deriveProfile, TypeOK
      <4> QED BY <2>3, <3>1, <4>2, <4>3, <1>0, WriteGood DEF deriveProfile
    <3> QED BY <3>2, <3>3
  <2>4. CASE completeRow(d) \/ deferOutboxRow(d) \/ recordFailure(d)
    <3> DEFINE i == drain[d].row
    <3>1. i \in Intents
      BY <2>4, <1>0 DEF completeRow, deferOutboxRow, recordFailure, DrainInv
    <3>2. CASE outbox[i].claim # d
      BY <2>4, <3>2, <1>0, NoWriteGood
         DEF completeRow, deferOutboxRow, recordFailure, writeIfClaimed
    <3>3. CASE outbox[i].claim = d
      <4>1. lost' = lost
        BY <2>4 DEF completeRow, deferOutboxRow, recordFailure
      <4>2. CASE completeRow(d)
        <5>1. Good(i, completed(outbox[i], drain[d].step)) /\ failures' = failures
          BY <4>1, <4>2, <3>1, <3>3, <1>0, LoopGood DEF completeRow
        <5> QED BY <5>1, <4>1, <4>2, <3>1, <3>3, <1>0, WriteGood DEF completeRow, writeIfClaimed
      <4>3. CASE deferOutboxRow(d)
        <5>1. Good(i, deferred(outbox[i])) /\ failures' = failures
          BY <4>1, <4>3, <3>1, <3>3, <1>0, LoopGood DEF deferOutboxRow
        <5> QED BY <5>1, <4>1, <4>3, <3>1, <3>3, <1>0, WriteGood DEF deferOutboxRow, writeIfClaimed
      <4>4. CASE recordFailure(d)
        <5>1. failures' = [failures EXCEPT ![i] = plusOne(@)]
          BY <4>4, <3>3 DEF recordFailure
        <5>2. Good(i, failed(outbox[i]))
          BY <5>1, <4>1, <3>1, <3>3, <1>0, LoopGood
        <5>3. \A k \in Intents \ {i} : failures'[k] = failures[k] /\ lost'[k] = lost[k]
          BY <5>1, <4>1, <3>1, <1>0 DEF TypeOK
        <5> QED BY <5>2, <5>3, <4>4, <3>1, <3>3, <1>0, WriteGood DEF recordFailure, writeIfClaimed
      <4> QED BY <2>4, <4>2, <4>3, <4>4
    <3> QED BY <3>2, <3>3
  <2> QED BY <1>3, <2>1, <2>2, <2>3, <2>4 DEF DrainNext, finishRow
<1> QED BY <1>1, <1>2, <1>3 DEF Next

\* A drain as it is after taking up row i.
LEMMA TakenUp ==
  ASSUME TypeOK, NEW d \in Drains, NEW i \in Intents,
         NEW step \in {"derive", "insert", "defer", "skipped", "throw"}, takeUp(d, i, step)
  PROVE  /\ drain' \in [Drains -> DrainRun]
         /\ \A e \in Drains : e # d => drain'[e] = drain[e]
         /\ drain'[d].batch \subseteq drain[d].batch /\ i \in drain[d].batch
         /\ drain'[d].row = i /\ drain'[d].step = step
<1> DEFINE new == [batch |-> drain[d].batch \ {i}, row |-> i, step |-> step]
<1>1. drain[d] \in DrainRun
  BY DEF TypeOK
<1>2. new \in DrainRun
  BY <1>1 DEF DrainRun
<1>3. drain' = [drain EXCEPT ![d] = new] /\ i \in drain[d].batch
  BY DEF takeUp
<1> QED BY <1>2, <1>3 DEF TypeOK

\* The loop of a drain, between two rows.
LEMMA RowDone ==
  ASSUME TypeOK, NEW d \in Drains, rowDone(d)
  PROVE  /\ drain' \in [Drains -> DrainRun]
         /\ \A e \in Drains : e # d => drain'[e] = drain[e]
         /\ drain'[d].batch = drain[d].batch /\ drain'[d].step = "none"
<1>1. drain[d] \in DrainRun
  BY DEF TypeOK
<1>2. [drain[d] EXCEPT !.row = NoIntent, !.step = "none"] \in DrainRun
  BY <1>1 DEF DrainRun
<1> QED BY <1>1, <1>2 DEF rowDone, TypeOK, DrainRun

\* What a step may make of the drains: each goes on with rows of its batch, and
\* handles a row as its event demands.
DrainsGood ==
  /\ drain' \in [Drains -> DrainRun]
  /\ \A d \in Drains :
       /\ \A i \in drain'[d].batch : outbox'[i].event # "none"
       /\ drain'[d].step # "none" =>
            drain'[d].row \in Intents /\ outbox'[drain'[d].row].event # "none"
       /\ drain'[d].step = "derive" => outbox'[drain'[d].row].event = DERIVATION
       /\ drain'[d].step \in {"insert", "succeeded"} => outbox'[drain'[d].row].event = ALERT

\* Every step leaves the drains with rows that exist, and with their own handlers.
LEMMA DrainStep ==
  ASSUME IInv, Next
  PROVE  DrainsGood
<1>0. TypeOK /\ RowInv /\ DrainInv /\ RowsGood
  BY RowStep DEF IInv
<1>a. \A i \in Intents : outbox[i].event # "none" => outbox'[i].event = outbox[i].event
  BY <1>0 DEF RowsGood, Good, Evolves
<1>b. \A d \in Drains : drain[d] \in DrainRun
  BY <1>0 DEF TypeOK
<1>c. \A d \in Drains : \A i \in drain[d].batch : i \in Intents /\ outbox[i].event # "none"
  BY <1>0, <1>b DEF DrainInv, DrainRun
<1>d. ASSUME drain' \in [Drains -> DrainRun],
             \A e \in Drains : \/ drain'[e] = drain[e]
                               \/ /\ \A i \in drain'[e].batch : i \in Intents /\ outbox[i].event # "none"
                                  /\ drain'[e].step = "none"
                               \/ /\ drain'[e].batch \subseteq drain[e].batch
                                  /\ drain'[e].step = "none"
                               \/ /\ drain'[e].batch \subseteq drain[e].batch
                                  /\ drain'[e].row \in drain[e].batch \/ drain'[e].row = drain[e].row
                                  /\ drain'[e].row \in Intents
                                  /\ outbox[drain'[e].row].event # "none"
                                  /\ drain'[e].step = "derive" =>
                                       outbox[drain'[e].row].event = DERIVATION
                                  /\ drain'[e].step \in {"insert", "succeeded"} =>
                                       outbox[drain'[e].row].event = ALERT
      PROVE  DrainsGood
  BY <1>0, <1>a, <1>b, <1>c, <1>d DEF DrainsGood, DrainInv, DERIVATION, ALERT
<1>1. CASE UNCHANGED drain
  BY <1>1, <1>0, <1>d DEF TypeOK
<1>2. ASSUME NEW d \in Drains, DrainNext(d)
      PROVE  DrainsGood
  <2>1. ASSUME NEW S \in SUBSET Intents, drainCertOpsOutbox(d, S) PROVE DrainsGood
    <3> DEFINE new == [IdleDrain EXCEPT !.batch = S]
    <3>1. new \in DrainRun /\ new.batch = S /\ new.step = "none"
      BY DEF IdleDrain, DrainRun
    <3>2. drain' = [drain EXCEPT ![d] = new]
      BY <2>1 DEF drainCertOpsOutbox
    <3>3. drain' \in [Drains -> DrainRun] /\ drain'[d] = new
          /\ \A e \in Drains : e # d => drain'[e] = drain[e]
      BY <3>1, <3>2, <1>0 DEF TypeOK
    <3>4. \A i \in S : i \in Intents /\ outbox[i].event # "none"
      BY <2>1, <1>0, RowFacts DEF drainCertOpsOutbox, claimable, RowOK
    <3> QED BY <3>1, <3>3, <3>4, <1>d
  <2>2. ASSUME NEW i \in Intents, handleProfileDerivationIntent(d, i) PROVE DrainsGood
    <3>1. jobVerdict(i) \in {"derive", "skipped", "defer"}
      BY DEF jobVerdict
    <3>2. takeUp(d, i, jobVerdict(i)) /\ outbox[i].event = DERIVATION
      BY <2>2 DEF handleProfileDerivationIntent
    <3>3. /\ drain' \in [Drains -> DrainRun]
          /\ \A e \in Drains : e # d => drain'[e] = drain[e]
          /\ drain'[d].batch \subseteq drain[d].batch /\ i \in drain[d].batch
          /\ drain'[d].row = i /\ drain'[d].step = jobVerdict(i)
      BY <3>1, <3>2, <1>0, TakenUp
    <3> QED BY <3>1, <3>2, <3>3, <1>c, <1>d
  <2>3. ASSUME NEW i \in Intents, NEW step \in {"skipped", "insert"},
               queueCertRenewalFailedAlert(d, i, step)
        PROVE  DrainsGood
    <3>2. takeUp(d, i, step) /\ outbox[i].event = ALERT
      BY <2>3 DEF queueCertRenewalFailedAlert
    <3>3. /\ drain' \in [Drains -> DrainRun]
          /\ \A e \in Drains : e # d => drain'[e] = drain[e]
          /\ drain'[d].batch \subseteq drain[d].batch /\ i \in drain[d].batch
          /\ drain'[d].row = i /\ drain'[d].step = step
      BY <3>2, <1>0, TakenUp
    <3> QED BY <3>2, <3>3, <1>c, <1>d
  <2>4. CASE handlerThrows(d)
    <3>1. CASE drain[d].step \notin {"none", "throw"}
               /\ drain' = [drain EXCEPT ![d].step = "throw"]
      <4>1. [drain[d] EXCEPT !.step = "throw"] \in DrainRun
        BY <1>b DEF DrainRun
      <4>2. /\ drain' \in [Drains -> DrainRun]
            /\ \A e \in Drains : e # d => drain'[e] = drain[e]
            /\ drain'[d].batch = drain[d].batch /\ drain'[d].row = drain[d].row
            /\ drain'[d].step = "throw"
        BY <4>1, <3>1, <1>0, <1>b DEF TypeOK, DrainRun
      <4>3. drain[d].row \in Intents /\ outbox[drain[d].row].event # "none"
        BY <3>1, <1>0 DEF DrainInv
      <4> QED BY <4>2, <4>3, <1>d
    <3>2. ASSUME NEW i \in drain[d].batch, takeUp(d, i, "throw") PROVE DrainsGood
      <4>1. i \in Intents /\ outbox[i].event # "none"
        BY <1>c
      <4>3. /\ drain' \in [Drains -> DrainRun]
            /\ \A e \in Drains : e # d => drain'[e] = drain[e]
            /\ drain'[d].batch \subseteq drain[d].batch /\ i \in drain[d].batch
            /\ drain'[d].row = i /\ drain'[d].step = "throw"
        BY <3>2, <4>1, <1>0, TakenUp
      <4> QED BY <4>1, <4>3, <1>d
    <3> QED BY <2>4, <3>1, <3>2 DEF handlerThrows
  <2>5. CASE insertAlert(d)
    <3> DEFINE step == IF drain[d].row \in alerts THEN "throw" ELSE "succeeded"
    <3>0. step \in {"throw", "succeeded"}
      OBVIOUS
    <3>1. [drain[d] EXCEPT !.step = step] \in DrainRun
      BY <1>b DEF DrainRun
    <3>2. /\ drain' \in [Drains -> DrainRun]
          /\ \A e \in Drains : e # d => drain'[e] = drain[e]
          /\ drain'[d].batch = drain[d].batch /\ drain'[d].row = drain[d].row
          /\ drain'[d].step = step
      BY <3>1, <2>5, <1>0, <1>b DEF insertAlert, TypeOK, DrainRun
    <3>3. drain[d].row \in Intents /\ outbox[drain[d].row].event = ALERT
      BY <2>5, <1>0 DEF insertAlert, DrainInv
    <3> QED BY <3>0, <3>2, <3>3, <1>d DEF ALERT
  <2>6. CASE deriveProfile(d) \/ completeRow(d) \/ deferOutboxRow(d) \/ recordFailure(d)
    <3>1. rowDone(d)
      BY <2>6 DEF deriveProfile, completeRow, deferOutboxRow, recordFailure
    <3> QED BY <3>1, <1>0, <1>d, RowDone
  <2>7. CASE crash(d)
    <3>1. IdleDrain \in DrainRun /\ IdleDrain.batch = {} /\ IdleDrain.step = "none"
      BY DEF IdleDrain, DrainRun
    <3>2. /\ drain' \in [Drains -> DrainRun] /\ drain'[d] = IdleDrain
          /\ \A e \in Drains : e # d => drain'[e] = drain[e]
      BY <3>1, <2>7, <1>0 DEF crash, TypeOK
    <3> QED BY <3>1, <3>2, <1>d
  <2> QED BY <1>2, <2>1, <2>2, <2>3, <2>4, <2>5, <2>6, <2>7 DEF DrainNext, takeUpRow, finishRow
<1>3. CASE \/ \E i \in Intents : IntentNext(i)
           \/ \E c \in Certificates : CertificateNext(c)
  BY <1>1, <1>3 DEF IntentNext, CertificateNext, renewalSetupJobCreator, jobEnds,
     requestRenewalAlert, retryRenewalSetupIntent, leaseRunsOut, retryFallsDue,
     deadlinePasses, detachRenewalProfile, linkProfile
<1> QED BY <1>2, <1>3 DEF Next

\* Every step keeps the types.
LEMMA TypeStep ==
  ASSUME IInv, Next
  PROVE  TypeOK'
<1>0. TypeOK /\ RowInv /\ DrainInv /\ RowsGood /\ DrainsGood
  BY RowStep, DrainStep DEF IInv
<1>1. outbox' \in [Intents -> OutboxRow] /\ drain' \in [Drains -> DrainRun]
  BY <1>0 DEF RowsGood, DrainsGood
<1>p. \A n \in 0..AttemptCap : plusOne(n) \in 0..AttemptCap
  BY AttemptsAssumption DEF plusOne, AttemptCap
<1>z. 0 \in 0..AttemptCap
  BY AttemptsAssumption DEF AttemptCap
<1>2. ASSUME NEW i \in Intents, IntentNext(i)
      PROVE  TypeOK'
  <2>1. job' \in [Intents -> {"none", "active", "succeeded", "failed"}]
    BY <1>0, <1>2 DEF TypeOK, IntentNext, renewalSetupJobCreator, jobEnds, requestRenewalAlert,
       retryRenewalSetupIntent, leaseRunsOut, retryFallsDue, deadlinePasses
  <2>2. /\ overdue' \in [Intents -> BOOLEAN]
        /\ UNCHANGED <<profile, alerts, stale>>
    BY <1>0, <1>2 DEF TypeOK, IntentNext, renewalSetupJobCreator, jobEnds, requestRenewalAlert,
       retryRenewalSetupIntent, leaseRunsOut, retryFallsDue, deadlinePasses
  <2>3. failures' \in [Intents -> 0..AttemptCap] /\ lost' \in [Intents -> 0..AttemptCap]
    BY <1>0, <1>2, <1>z DEF TypeOK, IntentNext, renewalSetupJobCreator, jobEnds,
       requestRenewalAlert, retryRenewalSetupIntent, leaseRunsOut, retryFallsDue, deadlinePasses
  <2> QED BY <1>0, <1>1, <2>1, <2>2, <2>3 DEF TypeOK
<1>3. ASSUME NEW c \in Certificates, CertificateNext(c)
      PROVE  TypeOK'
  BY <1>0, <1>1, <1>3 DEF TypeOK, CertificateNext, detachRenewalProfile, linkProfile
<1>4. ASSUME NEW d \in Drains, DrainNext(d)
      PROVE  TypeOK'
  <2>1. ASSUME NEW S \in SUBSET Intents, drainCertOpsOutbox(d, S) PROVE TypeOK'
    <3>1. lost' \in [Intents -> 0..AttemptCap]
      BY <2>1, <1>0, <1>p DEF drainCertOpsOutbox, TypeOK
    <3> QED BY <2>1, <3>1, <1>0, <1>1 DEF drainCertOpsOutbox, TypeOK
  <2>2. CASE takeUpRow(d) \/ handlerThrows(d) \/ crash(d) \/ completeRow(d) \/ deferOutboxRow(d)
    BY <2>2, <1>0, <1>1 DEF takeUpRow, handleProfileDerivationIntent, queueCertRenewalFailedAlert,
       handlerThrows, crash, completeRow, deferOutboxRow, TypeOK
  <2>3. CASE insertAlert(d)
    <3>1. drain[d].row \in Intents
      BY <2>3, <1>0 DEF insertAlert, DrainInv
    <3> QED BY <2>3, <3>1, <1>0, <1>1 DEF insertAlert, TypeOK
  <2>4. CASE deriveProfile(d)
    <3>1. drain[d].row \in Intents
      BY <2>4, <1>0 DEF deriveProfile, DrainInv
    <3>2. profile' \in [Certificates -> Intents \cup {NoProfile, OtherProfile}]
      BY <2>4, <3>1, <1>0 DEF deriveProfile, TypeOK
    <3> QED BY <2>4, <3>2, <1>0, <1>1 DEF deriveProfile, TypeOK
  <2>5. CASE recordFailure(d)
    <3>1. drain[d].row \in Intents
      BY <2>5, <1>0 DEF recordFailure, DrainInv
    <3>2. failures' \in [Intents -> 0..AttemptCap]
      BY <2>5, <3>1, <1>0, <1>p DEF recordFailure, TypeOK
    <3> QED BY <2>5, <3>2, <1>0, <1>1 DEF recordFailure, TypeOK
  <2> QED BY <1>4, <2>1, <2>2, <2>3, <2>4, <2>5 DEF DrainNext, finishRow
<1> QED BY <1>2, <1>3, <1>4 DEF Next

\* What was decided before a detach stays so, and no step but deriveProfile links a
\* certificate to an intent.
LEMMA ProfileStep ==
  ASSUME IInv, Next
  PROVE  StaleInv' /\ ProfileInv'
<1>0. TypeOK /\ RowInv /\ StaleInv /\ DrainInv /\ ProfileInv /\ RowsGood
  BY RowStep DEF IInv
<1>a. \A i \in Intents : /\ outbox[i].event # "none" => outbox'[i].event = outbox[i].event
                                                     /\ outbox'[i].cert = outbox[i].cert
                         /\ outbox[i].status \in {"succeeded", "skipped"} =>
                              outbox'[i].status = outbox[i].status
  BY <1>0 DEF RowsGood, Good, Evolves
<1>b. \A i \in Intents : outbox[i].status = "succeeded" => outbox[i].event # "none"
  BY <1>0, RowFacts DEF RowOK
<1>s. stale \subseteq Intents
  BY <1>0 DEF TypeOK
<1>1. ASSUME UNCHANGED stale PROVE StaleInv'
  BY <1>1, <1>0, <1>a, <1>s DEF StaleInv, DERIVATION
<1>2. CASE UNCHANGED <<stale, profile>>
  <2>1. StaleInv'
    BY <1>1, <1>2
  <2>2. ProfileInv'
    BY <1>0, <1>a, <1>b, <1>2 DEF ProfileInv
  <2> QED BY <2>1, <2>2
<1>3. ASSUME NEW c \in Certificates, detachRenewalProfile(c)
      PROVE  StaleInv' /\ ProfileInv'
  <2>0. /\ stale' = stale \cup {i \in Intents : outbox[i].cert = c}
        /\ profile' = [profile EXCEPT ![c] = NoProfile]
        /\ outbox' = [i \in Intents |-> invalidated(outbox[i], c)]
    BY <1>3 DEF detachRenewalProfile
  <2>1. ASSUME NEW i \in Intents, outbox[i].cert = c
        PROVE  outbox'[i].event = DERIVATION /\ outbox'[i].status \in {"succeeded", "skipped"}
    <3>1. outbox[i] \in OutboxRow /\ outbox[i].event = DERIVATION /\ outbox[i].status # "absent"
      BY <2>1, <1>0, RowFacts, CertificatesAssumption DEF RowOK, DERIVATION
    <3>2. outbox'[i] = invalidated(outbox[i], c)
      BY <2>0
    <3> QED BY <2>1, <3>1, <3>2 DEF invalidated, OutboxRow, REVIVABLE_OUTBOX_STATUSES
  <2>2. StaleInv'
    BY <2>0, <2>1, <1>0, <1>a, <1>s DEF StaleInv, DERIVATION
  <2>3. ASSUME NEW e \in Certificates, profile'[e] \in Intents
        PROVE  /\ outbox'[profile'[e]].status = "succeeded" /\ outbox'[profile'[e]].cert = e
               /\ profile'[e] \notin stale'
    <3>1. e # c /\ profile'[e] = profile[e]
      BY <2>0, <2>3, <1>0, ProfilesAssumption DEF TypeOK
    <3> QED BY <2>0, <2>3, <3>1, <1>0, <1>a, <1>b DEF ProfileInv
  <2> QED BY <2>2, <2>3 DEF ProfileInv
<1>4. ASSUME NEW c \in Certificates, NEW p \in {NoProfile, OtherProfile}, linkProfile(c, p)
      PROVE  StaleInv' /\ ProfileInv'
  <2>1. p \notin Intents
    BY ProfilesAssumption, IntentsAssumption
  <2>2. profile' = [profile EXCEPT ![c] = p] /\ UNCHANGED <<stale, outbox>>
    BY <1>4 DEF linkProfile
  <2>3. ProfileInv'
    BY <2>1, <2>2, <1>0 DEF ProfileInv, TypeOK
  <2> QED BY <2>2, <2>3, <1>1
<1>5. ASSUME NEW d \in Drains, deriveProfile(d)
      PROVE  StaleInv' /\ ProfileInv'
  <2> DEFINE i == drain[d].row
  <2>1. i \in Intents /\ outbox[i].event = DERIVATION /\ UNCHANGED stale
    BY <1>5, <1>0 DEF deriveProfile, DrainInv
  <2>2. CASE UNCHANGED profile
    BY <2>1, <2>2, <1>2
  <2>3. CASE /\ ownsRow(d)
             /\ outbox' = [outbox EXCEPT ![i] = completed(@, "succeeded")]
             /\ profile' = [profile EXCEPT ![outbox[i].cert] = i]
    <3>1. outbox[i] \in OutboxRow /\ outbox[i].status = "pending" /\ i \notin stale
      BY <2>1, <2>3, <1>0, RowFacts DEF ownsRow, StaleInv
    <3>2. outbox'[i] = completed(outbox[i], "succeeded")
      BY <2>1, <2>3, <1>0 DEF TypeOK
    <3>3. outbox'[i].status = "succeeded" /\ outbox'[i].cert = outbox[i].cert
      BY <3>1, <3>2 DEF completed, OutboxRow
    <3>4. ASSUME NEW e \in Certificates, profile'[e] \in Intents
          PROVE  /\ outbox'[profile'[e]].status = "succeeded" /\ outbox'[profile'[e]].cert = e
                 /\ profile'[e] \notin stale'
      <4>1. CASE e = outbox[i].cert
        BY <2>1, <2>3, <3>1, <3>3, <4>1, <1>0 DEF TypeOK
      <4>2. CASE e # outbox[i].cert
        <5>1. profile'[e] = profile[e]
          BY <2>3, <4>2, <1>0 DEF TypeOK
        <5> QED BY <2>1, <3>4, <5>1, <1>0, <1>a, <1>b DEF ProfileInv
      <4> QED BY <4>1, <4>2
    <3>5. ProfileInv'
      BY <3>4 DEF ProfileInv
    <3> QED BY <2>1, <3>5, <1>1
  <2> QED BY <1>5, <2>2, <2>3 DEF deriveProfile
<1>6. CASE \E i \in Intents : IntentNext(i)
  BY <1>2, <1>6 DEF IntentNext, renewalSetupJobCreator, jobEnds, requestRenewalAlert,
     retryRenewalSetupIntent, leaseRunsOut, retryFallsDue, deadlinePasses
<1>7. ASSUME NEW d \in Drains, DrainNext(d), ~deriveProfile(d)
      PROVE  UNCHANGED <<stale, profile>>
  BY <1>7 DEF DrainNext, drainCertOpsOutbox, takeUpRow, handleProfileDerivationIntent,
     queueCertRenewalFailedAlert, handlerThrows, finishRow, insertAlert, completeRow,
     deferOutboxRow, recordFailure, crash
<1> QED BY <1>2, <1>3, <1>4, <1>5, <1>6, <1>7 DEF Next, CertificateNext

\* The empty tables satisfy the inductive invariant.
LEMMA InitInv == Init => IInv
<1> SUFFICES ASSUME Init PROVE IInv
  OBVIOUS
<1>z. 0 \in 0..AttemptCap
  BY AttemptsAssumption DEF AttemptCap
<1>1. Absent \in OutboxRow /\ IdleDrain \in DrainRun
  BY <1>z DEF Absent, OutboxRow, IdleDrain, DrainRun
<1>2. TypeOK
  BY <1>1, <1>z DEF Init, TypeOK
<1>3. RowInv
  BY DEF Init, RowInv, RowOK, Absent, DERIVATION
<1>4. StaleInv /\ ProfileInv
  BY ProfilesAssumption DEF Init, StaleInv, ProfileInv
<1>5. DrainInv
  BY DEF Init, DrainInv, IdleDrain
<1> QED BY <1>2, <1>3, <1>4, <1>5 DEF IInv

\* Every step of the API and of the drains preserves the invariant.
LEMMA StepInv == IInv /\ [Next]_vars => IInv'
<1> SUFFICES ASSUME IInv, [Next]_vars PROVE IInv'
  OBVIOUS
<1>1. CASE Next
  <2>1. RowInv'
    BY <1>1, RowStep DEF RowsGood, Good, RowInv
  <2>2. DrainInv'
    BY <1>1, DrainStep DEF DrainsGood, DrainInv
  <2> QED BY <1>1, <2>1, <2>2, TypeStep, ProfileStep DEF IInv
<1>2. CASE UNCHANGED vars
  BY <1>2 DEF vars, IInv, TypeOK, RowInv, StaleInv, DrainInv, ProfileInv
<1> QED BY <1>1, <1>2

\* The inductive invariant holds of every behaviour of the outbox and its drains.
THEOREM Invariant == Spec => []IInv
BY InitInv, StepInv, PTL DEF Spec

\* A detached certificate is never linked again by an intent from before the
\* detach, however many drains hold such an intent and whenever they run.
THEOREM DetachHolds == Spec => []DetachedStaysDetached
<1>1. IInv => DetachedStaysDetached
  BY DEF IInv, TypeOK, ProfileInv, DetachedStaysDetached
<1> QED BY <1>1, Invariant, PTL

\* Deferring a row costs none of its attempts: a parked row has failed, or lost its
\* drain, max_attempts times.
THEOREM ParkedWhenSpent == Spec => []ParkedOnlyWhenSpent
<1>1. IInv => ParkedOnlyWhenSpent
  BY DEF IInv, RowInv, RowOK, ParkedOnlyWhenSpent
<1> QED BY <1>1, Invariant, PTL

\* What a drain or a detach decided about an intent is never undone.
THEOREM DecisionsStand == Spec => DecisionIsFinal
<1> DEFINE Final == \A i \in Intents : outbox[i].status \in {"succeeded", "skipped"}
                                         => outbox'[i].status = outbox[i].status
<1>1. IInv /\ [Next]_vars => [Final]_vars
  <2>1. ASSUME IInv, Next PROVE Final
    BY <2>1, RowStep DEF RowsGood, Good, Evolves
  <2> QED BY <2>1
<1> QED BY <1>1, Invariant, PTL DEF Spec, DecisionIsFinal

(***************************************************************************)
(* The outbox implements RenewalAdoption                                   *)
(***************************************************************************)
Decisions == [i \in Intents |-> decisionOf(outbox[i])]

Targets == [i \in Intents |-> outbox[i].cert]

\* A step that writes one row of an intent: what its operator sees of it.
LEMMA WriteShows ==
  ASSUME TypeOK, NEW i \in Intents, NEW new, outbox' = [outbox EXCEPT ![i] = new]
  PROVE  /\ Decisions' = [Decisions EXCEPT ![i] = decisionOf(new)]
         /\ Targets' = [Targets EXCEPT ![i] = new.cert]
BY DEF TypeOK, Decisions, Targets

\* The write does not show.
LEMMA WriteHidden ==
  ASSUME TypeOK, NEW i \in Intents, NEW new, outbox' = [outbox EXCEPT ![i] = new],
         decisionOf(new) = decisionOf(outbox[i]), new.cert = outbox[i].cert,
         UNCHANGED profile
  PROVE  UNCHANGED Adoption!vars
<1>1. Decisions' = Decisions /\ Targets' = Targets
  BY WriteShows DEF Decisions, Targets
<1> QED BY <1>1 DEF Adoption!vars, Decisions, Targets

\* A drain's outcome for its row: declined, parked or, for an alert, invisible.
LEMMA OutcomeShows ==
  ASSUME IInv, NEW d \in Drains, NEW i \in Intents, NEW new,
         outbox[i].claim = d, outbox' = [outbox EXCEPT ![i] = new],
         new.event = outbox[i].event, new.cert = outbox[i].cert,
         new.status \in {"skipped", "failed", "pending"} \/ outbox[i].event = ALERT,
         UNCHANGED profile
  PROVE  Adoption!Next \/ UNCHANGED Adoption!vars
<1>0. TypeOK /\ outbox[i].status = "pending"
  BY RowFacts, DrainsAssumption DEF IInv, RowOK
<1>1. CASE outbox[i].event # DERIVATION
  <2>1. decisionOf(new) = decisionOf(outbox[i])
    BY <1>1 DEF decisionOf
  <2> QED BY <1>0, <2>1, WriteHidden
<1>2. CASE outbox[i].event = DERIVATION
  <2>1. new.status \in {"skipped", "failed", "pending"}
    BY <1>2 DEF DERIVATION, ALERT
  <2>2. Decisions[i] = "open"
    BY <1>0, <1>2 DEF Decisions, decisionOf
  <2>3. /\ Decisions' = [Decisions EXCEPT ![i] = decisionOf(new)]
        /\ Targets' = [Targets EXCEPT ![i] = new.cert]
    BY <1>0, WriteShows
  <2>4. Targets' = Targets
    BY <2>3 DEF Targets
  <2>5. CASE new.status = "skipped"
    <3>1. decisionOf(new) = "void"
      BY <1>2, <2>5 DEF decisionOf
    <3>2. Adoption!Decline(i)
      BY <2>2, <2>3, <2>4, <3>1 DEF Adoption!Decline, Decisions, Targets
    <3> QED BY <3>2 DEF Adoption!Next
  <2>6. CASE new.status = "failed"
    <3>1. decisionOf(new) = "parked"
      BY <1>2, <2>6 DEF decisionOf
    <3>2. Adoption!Park(i)
      BY <2>2, <2>3, <2>4, <3>1 DEF Adoption!Park, Decisions, Targets
    <3> QED BY <3>2 DEF Adoption!Next
  <2>7. CASE new.status = "pending"
    <3>1. decisionOf(new) = decisionOf(outbox[i])
      BY <1>0, <1>2, <2>7 DEF decisionOf
    <3> QED BY <1>0, <3>1, WriteHidden
  <2> QED BY <2>1, <2>5, <2>6, <2>7
<1> QED BY <1>1, <1>2

\* Every step of the API and of the drains is a step of the adoption flow, or does
\* not show.
LEMMA AdoptionStep ==
  ASSUME IInv, Next
  PROVE  Adoption!Next \/ UNCHANGED Adoption!vars
<1>0. TypeOK /\ RowInv /\ DrainInv
  BY DEF IInv
<1>1. CASE UNCHANGED <<outbox, profile>>
  BY <1>1 DEF Adoption!vars
<1>2. ASSUME NEW i \in Intents, IntentNext(i)
      PROVE  Adoption!Next \/ UNCHANGED Adoption!vars
  <2>0. outbox[i] \in OutboxRow /\ RowOK(outbox[i], failures[i] + lost[i])
    BY <1>0, RowFacts
  <2>1. ASSUME NEW c \in Certificates, renewalSetupJobCreator(i, c)
        PROVE  Adoption!Next
    <3> DEFINE new == [Absent EXCEPT !.event = DERIVATION, !.status = "pending",
                                     !.cert = c, !.due = TRUE]
    <3>1. outbox' = [outbox EXCEPT ![i] = new] /\ profile[c] = NoProfile /\ UNCHANGED profile
      BY <2>1 DEF renewalSetupJobCreator, enqueueOutboxEvent
    <3>2. outbox[i].event = "none"
      BY <2>0, <2>1 DEF renewalSetupJobCreator, enqueueOutboxEvent, RowOK
    <3>3. Decisions[i] = "none" /\ decisionOf(new) = "open" /\ new.cert = c
      BY <3>2 DEF Decisions, decisionOf, DERIVATION, Absent
    <3>4. /\ Decisions' = [Decisions EXCEPT ![i] = "open"]
          /\ Targets' = [Targets EXCEPT ![i] = c]
      BY <3>1, <3>3, <1>0, WriteShows
    <3>5. Adoption!Request(i, c)
      BY <3>1, <3>3, <3>4 DEF Adoption!Request, Decisions, Targets
    <3> QED BY <3>5 DEF Adoption!Next
  <2>2. CASE requestRenewalAlert(i)
    <3> DEFINE new == [Absent EXCEPT !.event = ALERT, !.status = "pending",
                                     !.cert = NoCertificate, !.due = TRUE]
    <3>1. outbox' = [outbox EXCEPT ![i] = new] /\ UNCHANGED profile
      BY <2>2 DEF requestRenewalAlert, enqueueOutboxEvent
    <3>2. outbox[i].event = "none" /\ outbox[i].cert = NoCertificate
      BY <2>0, <2>2 DEF requestRenewalAlert, enqueueOutboxEvent, RowOK, DERIVATION
    <3>3. decisionOf(new) = decisionOf(outbox[i]) /\ new.cert = outbox[i].cert
      BY <3>2 DEF decisionOf, DERIVATION, ALERT, Absent
    <3> QED BY <3>1, <3>3, <1>0, WriteHidden
  <2>3. CASE retryRenewalSetupIntent(i)
    <3> DEFINE new == [outbox[i] EXCEPT !.status = "pending", !.attempts = 0, !.due = TRUE,
                                        !.claim = NoDrain, !.leased = FALSE]
    <3>1. outbox' = [outbox EXCEPT ![i] = new] /\ UNCHANGED profile
      BY <2>3, <1>0 DEF retryRenewalSetupIntent, TypeOK, OutboxRow
    <3>2. Decisions[i] = "parked" /\ decisionOf(new) = "open" /\ new.cert = outbox[i].cert
      BY <2>0, <2>3 DEF retryRenewalSetupIntent, Decisions, decisionOf, OutboxRow
    <3>a. /\ Decisions' = [Decisions EXCEPT ![i] = "open"]
          /\ Targets' = [Targets EXCEPT ![i] = outbox[i].cert]
      <4> HIDE DEF new
      <4>1. /\ Decisions' = [Decisions EXCEPT ![i] = decisionOf(new)]
            /\ Targets' = [Targets EXCEPT ![i] = new.cert]
        BY <3>1, <1>0, WriteShows
      <4> QED BY <3>2, <4>1
    <3>3. Targets' = Targets
      BY <3>a DEF Targets
    <3>4. Adoption!Retry(i)
      BY <3>1, <3>2, <3>a, <3>3 DEF Adoption!Retry, Decisions, Targets
    <3> QED BY <3>4 DEF Adoption!Next
  <2>4. CASE leaseRunsOut(i)
    <3> DEFINE new == [outbox[i] EXCEPT !.leased = FALSE]
    <3>1. outbox' = [outbox EXCEPT ![i] = new] /\ UNCHANGED profile
      BY <2>4, <1>0 DEF leaseRunsOut, TypeOK
    <3>2. decisionOf(new) = decisionOf(outbox[i]) /\ new.cert = outbox[i].cert
      BY <2>0 DEF decisionOf, OutboxRow
    <3> QED BY <3>1, <3>2, <1>0, WriteHidden
  <2>5. CASE retryFallsDue(i)
    <3> DEFINE new == [outbox[i] EXCEPT !.due = TRUE]
    <3>1. outbox' = [outbox EXCEPT ![i] = new] /\ UNCHANGED profile
      BY <2>5, <1>0 DEF retryFallsDue, TypeOK
    <3>2. decisionOf(new) = decisionOf(outbox[i]) /\ new.cert = outbox[i].cert
      BY <2>0 DEF decisionOf, OutboxRow
    <3> QED BY <3>1, <3>2, <1>0, WriteHidden
  <2>6. CASE (\E status \in {"succeeded", "failed"} : jobEnds(i, status)) \/ deadlinePasses(i)
    BY <2>6, <1>1 DEF jobEnds, deadlinePasses
  <2> QED BY <1>2, <2>1, <2>2, <2>3, <2>4, <2>5, <2>6 DEF IntentNext
<1>3. ASSUME NEW c \in Certificates, CertificateNext(c)
      PROVE  Adoption!Next
  <2>1. CASE detachRenewalProfile(c)
    <3>0. /\ profile[c] # NoProfile
          /\ profile' = [profile EXCEPT ![c] = NoProfile]
          /\ outbox' = [i \in Intents |-> invalidated(outbox[i], c)]
      BY <2>1 DEF detachRenewalProfile
    <3>1. ASSUME NEW i \in Intents
          PROVE  /\ outbox'[i].cert = outbox[i].cert
                 /\ decisionOf(outbox'[i]) =
                      IF outbox[i].cert = c /\ decisionOf(outbox[i]) \in {"open", "parked"}
                        THEN "void" ELSE decisionOf(outbox[i])
      <4>1. outbox'[i] = invalidated(outbox[i], c) /\ outbox[i] \in OutboxRow
        BY <3>0, <1>0, RowFacts
      <4>2. CASE outbox[i].event = DERIVATION /\ outbox[i].cert = c
                 /\ outbox[i].status \in REVIVABLE_OUTBOX_STATUSES
        BY <4>1, <4>2 DEF invalidated, decisionOf, OutboxRow, REVIVABLE_OUTBOX_STATUSES
      <4>3. CASE ~(outbox[i].event = DERIVATION /\ outbox[i].cert = c
                   /\ outbox[i].status \in REVIVABLE_OUTBOX_STATUSES)
        BY <4>1, <4>3 DEF invalidated, decisionOf, OutboxRow, REVIVABLE_OUTBOX_STATUSES
      <4> QED BY <4>2, <4>3
    <3>2. Targets' = Targets
      BY <3>1 DEF Targets
    <3>3. Decisions' = [i \in Intents |->
                          IF Targets[i] = c /\ Decisions[i] \in {"open", "parked"}
                            THEN "void" ELSE Decisions[i]]
      BY <3>1 DEF Targets, Decisions
    <3>4. Adoption!Detach(c)
      BY <3>0, <3>2, <3>3 DEF Adoption!Detach, Adoption!Undecided, Targets, Decisions
    <3> QED BY <3>4 DEF Adoption!Next
  <2>2. ASSUME NEW p \in {NoProfile, OtherProfile}, linkProfile(c, p)
        PROVE  Adoption!Next
    <3>1. Adoption!Manage(c, p)
      BY <2>2 DEF linkProfile, Adoption!Manage
    <3> QED BY <3>1 DEF Adoption!Next
  <2> QED BY <1>3, <2>1, <2>2 DEF CertificateNext
<1>4. ASSUME NEW d \in Drains, DrainNext(d)
      PROVE  Adoption!Next \/ UNCHANGED Adoption!vars
  <2> DEFINE i == drain[d].row
  <2>1. ASSUME NEW S \in SUBSET Intents, drainCertOpsOutbox(d, S)
        PROVE  UNCHANGED Adoption!vars
    <3>1. ASSUME NEW k \in Intents
          PROVE  decisionOf(outbox'[k]) = decisionOf(outbox[k]) /\ outbox'[k].cert = outbox[k].cert
      <4>1. outbox[k] \in OutboxRow
        BY <1>0, RowFacts
      <4>2. \/ outbox'[k] = outbox[k]
            \/ outbox'[k] = [outbox[k] EXCEPT !.claim = d, !.leased = TRUE, !.attempts = plusOne(@)]
        BY <2>1 DEF drainCertOpsOutbox
      <4> QED BY <4>1, <4>2 DEF decisionOf, OutboxRow
    <3>2. Decisions' = Decisions /\ Targets' = Targets
      BY <3>1 DEF Decisions, Targets
    <3> QED BY <2>1, <3>2 DEF drainCertOpsOutbox, Adoption!vars, Decisions, Targets
  <2>2. CASE takeUpRow(d) \/ handlerThrows(d) \/ insertAlert(d) \/ crash(d)
    BY <2>2, <1>1 DEF takeUpRow, handleProfileDerivationIntent, queueCertRenewalFailedAlert,
       handlerThrows, insertAlert, crash
  <2>3. CASE deriveProfile(d)
    <3>0. i \in Intents /\ outbox[i].event = DERIVATION /\ outbox[i] \in OutboxRow
      BY <2>3, <1>0, RowFacts DEF deriveProfile, DrainInv
    <3>1. CASE ~ownsRow(d)
      BY <2>3, <3>1, <1>1 DEF deriveProfile
    <3>2. CASE /\ ownsRow(d)
               /\ outbox' = [outbox EXCEPT ![i] = completed(@, "skipped")]
               /\ UNCHANGED profile
      <4> DEFINE new == completed(outbox[i], "skipped")
      <4>1. new.event = outbox[i].event /\ new.cert = outbox[i].cert /\ new.status = "skipped"
        BY <3>0 DEF completed, OutboxRow
      <4>2. outbox' = [outbox EXCEPT ![i] = new] /\ outbox[i].claim = d
        BY <3>0, <3>2, <1>0 DEF TypeOK, ownsRow
      <4>3. UNCHANGED profile
        BY <3>2
      <4>4. new.status \in {"skipped", "failed", "pending"} \/ outbox[i].event = ALERT
        BY <4>1
      <4> HIDE DEF new
      <4> QED BY <3>0, <4>1, <4>2, <4>3, <4>4, OutcomeShows
    <3>3. CASE /\ ownsRow(d) /\ profile[outbox[i].cert] = NoProfile
               /\ outbox' = [outbox EXCEPT ![i] = completed(@, "succeeded")]
               /\ profile' = [profile EXCEPT ![outbox[i].cert] = i]
      <4> DEFINE new == completed(outbox[i], "succeeded")
      <4>1. new.event = DERIVATION /\ new.cert = outbox[i].cert /\ new.status = "succeeded"
        BY <3>0 DEF completed, OutboxRow
      <4>2. outbox' = [outbox EXCEPT ![i] = new]
        BY <3>0, <3>3, <1>0 DEF TypeOK
      <4> HIDE DEF new
      <4>3. Decisions[i] = "open" /\ decisionOf(new) = "derived"
        BY <3>0, <3>3, <4>1 DEF ownsRow, Decisions, decisionOf
      <4>a. /\ Decisions' = [Decisions EXCEPT ![i] = "derived"]
            /\ Targets' = [Targets EXCEPT ![i] = outbox[i].cert]
        <5>1. /\ Decisions' = [Decisions EXCEPT ![i] = decisionOf(new)]
              /\ Targets' = [Targets EXCEPT ![i] = new.cert]
          BY <3>0, <4>2, <1>0, WriteShows
        <5> QED BY <4>1, <4>3, <5>1
      <4>4. Targets' = Targets
        BY <4>a DEF Targets
      <4>5. Targets[i] = outbox[i].cert
        BY <3>0 DEF Targets
      <4>6. Adoption!Derive(i)
        BY <3>3, <4>3, <4>a, <4>4, <4>5 DEF Adoption!Derive, Decisions, Targets
      <4> QED BY <3>0, <4>6 DEF Adoption!Next
    <3> QED BY <2>3, <3>1, <3>2, <3>3 DEF deriveProfile
  <2>4. CASE completeRow(d) \/ deferOutboxRow(d) \/ recordFailure(d)
    <3>0. i \in Intents /\ outbox[i] \in OutboxRow /\ UNCHANGED profile
      BY <2>4, <1>0, RowFacts DEF completeRow, deferOutboxRow, recordFailure, DrainInv
    <3>1. CASE outbox[i].claim # d
      BY <2>4, <3>0, <3>1, <1>1 DEF completeRow, deferOutboxRow, recordFailure, writeIfClaimed
    <3>2. CASE outbox[i].claim = d
      <4>0. outbox[i].status = "pending"
        BY <3>0, <3>2, <1>0, RowFacts, DrainsAssumption DEF RowOK
      <4>1. PICK new : /\ outbox' = [outbox EXCEPT ![i] = new]
                       /\ new.event = outbox[i].event /\ new.cert = outbox[i].cert
                       /\ \/ new.status \in {"skipped", "failed", "pending"}
                          \/ outbox[i].event = ALERT
        <5>1. CASE completeRow(d)
          <6> DEFINE new == completed(outbox[i], drain[d].step)
          <6>1. outbox' = [outbox EXCEPT ![i] = new]
            BY <5>1, <3>2 DEF completeRow, writeIfClaimed
          <6>2. /\ new.event = outbox[i].event /\ new.cert = outbox[i].cert
                /\ new.status = drain[d].step
            BY <3>0 DEF completed, OutboxRow
          <6>3. drain[d].step = "skipped" \/ outbox[i].event = ALERT
            BY <5>1, <1>0 DEF completeRow, DrainInv
          <6> QED BY <6>1, <6>2, <6>3
        <5>2. CASE deferOutboxRow(d)
          <6> DEFINE new == deferred(outbox[i])
          <6>1. outbox' = [outbox EXCEPT ![i] = new]
            BY <5>2, <3>2 DEF deferOutboxRow, writeIfClaimed
          <6>2. /\ new.event = outbox[i].event /\ new.cert = outbox[i].cert
                /\ new.status = "pending"
            BY <3>0, <4>0 DEF deferred, OutboxRow
          <6> QED BY <6>1, <6>2
        <5>3. CASE recordFailure(d)
          <6> DEFINE new == failed(outbox[i])
          <6>1. outbox' = [outbox EXCEPT ![i] = new]
            BY <5>3, <3>2 DEF recordFailure, writeIfClaimed
          <6>2. /\ new.event = outbox[i].event /\ new.cert = outbox[i].cert
                /\ new.status \in {"failed", "pending"}
            BY <3>0 DEF failed, OutboxRow
          <6> QED BY <6>1, <6>2
        <5> QED BY <2>4, <5>1, <5>2, <5>3
      <4> QED BY <3>0, <3>2, <4>1, OutcomeShows
    <3> QED BY <3>1, <3>2
  <2> QED BY <1>4, <2>1, <2>2, <2>3, <2>4 DEF DrainNext, finishRow
<1> QED BY <1>2, <1>3, <1>4 DEF Next

\* The outbox and its drains, with their leases, takeovers, crashes, deferrals and
\* retries, implement the adoption flow as its operator is promised it.
THEOREM AdoptionImplemented == Spec => ImplementsAdoption
<1>1. Init => Adoption!Init
  BY DEF Init, Adoption!Init, Absent, decisionOf, DERIVATION
<1>2. IInv /\ [Next]_vars => [Adoption!Next]_(Adoption!vars)
  <2>1. ASSUME IInv, Next PROVE [Adoption!Next]_(Adoption!vars)
    BY <2>1, AdoptionStep
  <2>2. ASSUME UNCHANGED vars PROVE UNCHANGED Adoption!vars
    BY <2>2 DEF vars, Adoption!vars
  <2> QED BY <2>1, <2>2
<1> QED BY <1>1, <1>2, Invariant, PTL DEF Spec, ImplementsAdoption, Adoption!Spec
=============================================================================
