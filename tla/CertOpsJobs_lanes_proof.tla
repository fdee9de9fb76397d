---------------------- MODULE CertOpsJobs_lanes_proof ----------------------
(***************************************************************************)
(* More about CertOpsJobs, for every set of jobs and agents: what all the  *)
(* lanes that write a job keep between them.  Retired work does not start  *)
(* and its overlaps are flagged, live leases are exclusive, bad ends have  *)
(* their alert, dry runs stay harmless, and results are taken in time.     *)
(*                                                                         *)
(* Lane says what a handler may write over a row; StoredLane shows that    *)
(* the triggers keep it, and add what retirement promises.  LaneStep has   *)
(* one lemma for each kind of write.                                       *)
(***************************************************************************)
EXTENDS CertOpsJobs_proof

BadEnds == {"failed", "blocked", "orphaned_unknown_effect"}

\* The operation and the flag stay, a new job waits, and a live lease does not
\* change hands.
Keeps(r, n) ==
  /\ r.status # "absent" => n.operation = r.operation /\ (r.recon => n.recon)
  /\ r.status = "absent" => n.status \in Undispatched \cup {"absent"}
  /\ n.status = "absent" => n.recon = r.recon
  /\ r.status \in InFlight /\ leaseLive(r) /\ r.owner # NoAgent =>
       n.owner \in {r.owner, NoAgent} /\ n.claim \in {r.claim, 0}

\* Who ends a renewal badly asks for its alert, and a dry run does not succeed.
Ends(j, n) ==
  n.status # row[j].status =>
    /\ n.status \in BadEnds /\ n.operation = "renew" => intents'[j]
    /\ n.status = "succeeded" => n.mode # "dry_run"

\* A running job of an agent ends with that claim's result, or flagged.
Quits(j, n) ==
  row[j].status = "running" /\ row[j].owner # NoAgent /\ n.status # "running" =>
    \/ n.recon
    \/ \E r \in outbox[row[j].owner] : r.job = j /\ r.claim = row[j].claim

\* The lease goes on with its nonce, or both are new.
Times(j, n) ==
  HoldsLease(n) /\ nonce'[j].state = "live" =>
    \/ HoldsLease(row[j]) /\ n.lease = row[j].lease /\ nonce'[j] = nonce[j]
    \/ n.lease = Lease /\ nonce'[j].ttl = NonceTtl

\* What a handler may write over row j.
Lane(j, n) ==
  n \in RowType /\ Keeps(row[j], n) /\ Ends(j, n) /\ Quits(j, n) /\ Times(j, n)

\* What retirement promises of row j.
Retires(j, n) ==
  /\ ended[j] /\ row[j].status \in Undispatched => n.status \notin InFlight
  /\ ended[j] /\ row[j].status \in InFlight /\ row[j].mode = "real"
       /\ n.status # row[j].status => n.recon

\* The triggers keep what the handlers do, and do what retirement promises.
LEMMA StoredLane ==
  ASSUME TypeOK, EndedInv, NEW j \in Jobs, NEW new, Lane(j, new),
         new.status # "absent"
  PROVE  Lane(j, Stored(j, new)) /\ Retires(j, Stored(j, new))
<1>1. row[j] \in RowType
  BY DEF TypeOK
<1>f. ASSUME NEW n, Lane(j, n), n.status # "absent"
      PROVE  LET m == [n EXCEPT !.recon = TRUE] IN
               Lane(j, m) /\ m.status = n.status /\ m.recon
  <2> DEFINE m == [n EXCEPT !.recon = TRUE]
  <2>1. n \in RowType
    BY <1>f DEF Lane
  <2>2. /\ m \in RowType /\ m.status = n.status /\ m.recon = TRUE /\ m.operation = n.operation
        /\ m.owner = n.owner /\ m.claim = n.claim /\ m.lease = n.lease /\ m.mode = n.mode
    BY <2>1 DEF RowType
  <2> HIDE DEF m
  <2>3. Keeps(row[j], m) /\ Ends(j, m) /\ Quits(j, m) /\ Times(j, m)
    BY <2>2, <1>f DEF Lane, Keeps, Ends, Quits, Times, HoldsLease
  <2>4. Lane(j, m) /\ m.status = n.status /\ m.recon
    BY <2>2, <2>3 DEF Lane
  <2> QED BY <2>4 DEF m
<1>c. ASSUME NEW n, Lane(j, n), row[j].status # "absent",
             ~(row[j].status \in InFlight /\ n.status \in InFlight), NEW k,
             k = [n EXCEPT !.status = "cancelled", !.owner = NoAgent, !.claim = 0,
                           !.lease = NoLease, !.renewed = FALSE,
                           !.attempts = row[j].attempts]
      PROVE  Lane(j, k) /\ k.status = "cancelled" /\ k.recon = n.recon
  <2>1. n \in RowType
    BY <1>c DEF Lane
  <2>a. PICK t \in 0..MaxAttempts : t = row[j].attempts
    BY <1>1 DEF RowType
  <2> DEFINE m == [n EXCEPT !.status = "cancelled", !.owner = NoAgent, !.claim = 0,
                            !.lease = NoLease, !.renewed = FALSE, !.attempts = t]
  <2>0. m \in RowType
    BY <2>1, Columns DEF RowType
  <2>2. /\ m.status = "cancelled" /\ m.operation = n.operation
        /\ m.owner = NoAgent /\ m.claim = 0 /\ m.recon = n.recon
    BY <2>1 DEF RowType
  <2> HIDE DEF m
  <2>3. Keeps(row[j], m) /\ Ends(j, m) /\ Quits(j, m) /\ Times(j, m)
    BY <2>2, <1>c DEF Lane, Keeps, Ends, Quits, Times, HoldsLease, BadEnds, Undispatched, InFlight
  <2>4. Lane(j, m) /\ m.status = "cancelled" /\ m.recon = n.recon
    BY <2>0, <2>2, <2>3 DEF Lane
  <2>5. k = m
    BY <1>c, <2>a DEF m
  <2> QED BY <2>4, <2>5
<1>2. CASE ~ended[j]
  BY <1>2 DEF Stored, Retires
<1>3. CASE ended[j]
  <2>1. Installs(row[j]) /\ row[j].status # "absent"
    BY <1>3 DEF EndedInv
  <2> DEFINE n == certops_guard_job_identity_start(row[j], new)
             m == certops_guard_management_job_claim(row[j], n)
  <2>2. /\ Lane(j, n) /\ n.status = new.status
        /\ row[j].status \in InFlight /\ row[j].mode = "real" => n.recon
    BY <1>f, <2>1 DEF certops_guard_job_identity_start
  <2>3. Stored(j, new) = m
    BY <1>3 DEF Stored
  <2> HIDE DEF n
  <2> DEFINE passed == \/ n.status \notin Undispatched \cup InFlight
                       \/ row[j].status \in InFlight /\ row[j].mode = "dry_run"
             goesOn == row[j].status \in InFlight /\ n.status \in InFlight
  <2>4. CASE passed
    <3>1. m = n
      BY <2>4 DEF certops_guard_management_job_claim
    <3> QED BY <3>1, <2>2, <2>3, <2>4 DEF Retires, Undispatched, InFlight
  <2>5. CASE ~passed /\ goesOn
    <3>1. m = [n EXCEPT !.recon = TRUE]
      BY <2>1, <2>5 DEF certops_guard_management_job_claim
    <3>2. Lane(j, m) /\ m.recon
      BY <3>1, <2>2, <1>f
    <3> HIDE DEF m
    <3> QED BY <3>2, <2>3, <2>5 DEF Retires, Undispatched, InFlight
  <2>6. CASE ~passed /\ ~goesOn
    <3>1. m = [n EXCEPT !.status = "cancelled", !.owner = NoAgent, !.claim = 0,
                        !.lease = NoLease, !.renewed = FALSE,
                        !.attempts = row[j].attempts]
      BY <2>1, <2>6 DEF certops_guard_management_job_claim
    <3>2. Lane(j, m) /\ m.status = "cancelled" /\ m.recon = n.recon
      BY <3>1, <2>1, <2>2, <2>6, <1>c
    <3> HIDE DEF m
    <3> QED BY <3>2, <2>2, <2>3 DEF Retires, InFlight
  <2> QED BY <2>4, <2>5, <2>6
<1> QED BY <1>2, <1>3
(***************************************************************************)
(* The lanes                                                               *)
(***************************************************************************)
\* What every step makes of the rows, their alerts and their periods.
Lanes ==
  \A j \in Jobs :
    /\ Keeps(row[j], row'[j]) /\ Ends(j, row'[j]) /\ Quits(j, row'[j])
    /\ Retires(j, row'[j])
    /\ intents[j] => intents'[j]
    /\ ended'[j] => ended[j] \/ (row[j].status # "absent" /\ Installs(row[j]))

Timed == \A j \in Jobs : Times(j, row'[j])

\* A row that is not written.
LEMMA SameLane ==
  ASSUME TypeOK, NEW j \in Jobs, nonce'[j] = nonce[j] \/ nonce'[j].state # "live"
  PROVE  Lane(j, row[j]) /\ Retires(j, row[j])
BY DEF TypeOK, Lane, Keeps, Ends, Quits, Times, Retires, Undispatched, InFlight

\* A handler that writes one row.
LEMMA WriteLanes ==
  ASSUME TypeOK, EndedInv, NEW j \in Jobs, NEW new, Lane(j, new), Write(j, new),
         new.status # "absent", ended' = ended,
         \A i \in Jobs : intents[i] => intents'[i],
         \A i \in Jobs \ {j} : nonce'[i] = nonce[i]
  PROVE  Lanes /\ Timed
<1>1. row \in [Jobs -> RowType]
  BY DEF TypeOK
<1>2. row'[j] = Stored(j, new) /\ \A i \in Jobs \ {j} : row'[i] = row[i]
  BY <1>1 DEF Write
<1>3. Lane(j, row'[j]) /\ Retires(j, row'[j])
  BY <1>2, StoredLane
<1>4. \A i \in Jobs \ {j} : Lane(i, row'[i]) /\ Retires(i, row'[i])
  BY <1>2, SameLane
<1>5. \A i \in Jobs : Lane(i, row'[i]) /\ Retires(i, row'[i])
  BY <1>3, <1>4
<1> QED BY <1>5 DEF Lanes, Timed, Lane

\* A step that leaves rows, alerts and periods alone.
LEMMA UntouchedLanes ==
  ASSUME TypeOK, UNCHANGED <<row, intents, ended>>,
         \A j \in Jobs : nonce'[j] = nonce[j] \/ nonce'[j].state # "live"
  PROVE  Lanes /\ Timed
<1>1. \A j \in Jobs : Lane(j, row[j]) /\ Retires(j, row[j])
  BY SameLane
<1> QED BY <1>1 DEF Lanes, Timed, Lane

\* A write that leaves a job's operation, owner, claim and flag as they are.
LEMMA EditLane ==
  ASSUME TypeOK, NEW j \in Jobs, NEW new \in RowType, nonce'[j] = nonce[j],
         row[j].status \in Undispatched \cup InFlight,
         new.operation = row[j].operation, new.owner = row[j].owner,
         new.claim = row[j].claim, new.recon = row[j].recon,
         new.lease = row[j].lease, new.status # "absent",
         row[j].status = "running" => new.status = "running" \/ row[j].owner = NoAgent,
         Ends(j, new)
  PROVE  Lane(j, new)
<1>1. Times(j, new)
  BY DEF Times, HoldsLease, Undispatched, InFlight
<1> QED BY <1>1 DEF Lane, Keeps, Quits, Undispatched, InFlight

\* A new job is held by nobody.
LEMMA CreateLanes ==
  ASSUME TypeOK, EndedInv, NEW j \in Jobs, NEW op \in Operations, NEW mode \in Modes,
         NEW v \in Versions, NEW g \in BOOLEAN, createCertificateJob(j, op, mode, v, g)
  PROVE  Lanes /\ Timed
<1> DEFINE new == [Absent EXCEPT
                     !.status = IF g THEN "pending_approval" ELSE "pending",
                     !.operation = op, !.mode = mode, !.payload = v]
<1>1. /\ row[j].status = "absent" /\ Write(j, new)
      /\ UNCHANGED <<ended, intents, nonce>>
  BY DEF createCertificateJob
<1>2. new \in RowType
  BY Columns DEF RowType, Absent
<1>3. new.status \in Undispatched /\ new.owner = NoAgent
  BY DEF Absent, Undispatched
<1> HIDE DEF new
<1>4. Lane(j, new)
  BY <1>1, <1>2, <1>3 DEF Lane, Keeps, Ends, Quits, Times, HoldsLease, Undispatched, InFlight,
                          BadEnds
<1> QED BY <1>1, <1>3, <1>4, WriteLanes DEF Undispatched

\* Approval, rejection, drift and cancellation of a job that is not in flight.
LEMMA PeopleLanes ==
  ASSUME TypeOK, EndedInv, NEW j \in Jobs,
         \/ approveJob(j) \/ rejectJob(j) \/ cancelUndispatchedJobs(j)
         \/ \E v \in Versions : driftPayload(j, v)
  PROVE  Lanes /\ Timed
<1>1. row[j] \in RowType /\ UNCHANGED <<ended, intents, nonce>>
  BY DEF TypeOK, approveJob, rejectJob, cancelUndispatchedJobs, driftPayload
<1>2. CASE approveJob(j)
  <2> DEFINE new == [row[j] EXCEPT !.status = "pending", !.approved = row[j].payload]
  <2>1. Write(j, new) /\ row[j].status = "pending_approval"
    BY <1>2 DEF approveJob
  <2>2. new \in RowType
    BY <1>1, Columns DEF RowType
  <2>3. /\ new.operation = row[j].operation /\ new.owner = row[j].owner
        /\ new.claim = row[j].claim /\ new.lease = row[j].lease /\ new.status = "pending"
        /\ new.recon = row[j].recon
    BY <1>1 DEF RowType
  <2> HIDE DEF new
  <2>4. Ends(j, new)
    BY <2>3 DEF Ends, BadEnds
  <2>5. Lane(j, new)
    BY <1>1, <2>1, <2>2, <2>3, <2>4, EditLane DEF Undispatched
  <2> QED BY <1>1, <2>1, <2>3, <2>5, WriteLanes
<1>3. ASSUME NEW s \in {"rejected", "cancelled"}, Write(j, [row[j] EXCEPT !.status = s]),
             row[j].status \in Undispatched
      PROVE  Lanes /\ Timed
  <2> DEFINE new == [row[j] EXCEPT !.status = s]
  <2>1. new \in RowType
    BY <1>1, Columns DEF RowType
  <2>2. /\ new.operation = row[j].operation /\ new.owner = row[j].owner
        /\ new.claim = row[j].claim /\ new.lease = row[j].lease /\ new.status = s
        /\ new.recon = row[j].recon
    BY <1>1 DEF RowType
  <2> HIDE DEF new
  <2>3. Ends(j, new)
    BY <2>2 DEF Ends, BadEnds
  <2>4. Lane(j, new)
    BY <1>1, <1>3, <2>1, <2>2, <2>3, EditLane DEF Undispatched
  <2>5. Write(j, new)
    BY <1>3 DEF new
  <2> QED BY <1>1, <2>2, <2>4, <2>5, WriteLanes
<1>4. ASSUME NEW v \in Versions, driftPayload(j, v)
      PROVE  Lanes /\ Timed
  <2> DEFINE new == [row[j] EXCEPT !.payload = v]
  <2>1. new \in RowType
    BY <1>1 DEF RowType
  <2>2. /\ new.operation = row[j].operation /\ new.owner = row[j].owner
        /\ new.claim = row[j].claim /\ new.lease = row[j].lease /\ new.status = row[j].status
        /\ new.recon = row[j].recon
    BY <1>1 DEF RowType
  <2>3. Write(j, new) /\ row[j].status \in Undispatched \cup InFlight
    BY <1>4 DEF driftPayload, InFlight
  <2> HIDE DEF new
  <2>4. Ends(j, new)
    BY <2>2 DEF Ends
  <2>5. Lane(j, new)
    BY <1>1, <2>1, <2>2, <2>3, <2>4, EditLane DEF Undispatched, InFlight
  <2> QED BY <1>1, <2>2, <2>3, <2>5, WriteLanes DEF Undispatched, InFlight
<1> QED BY <1>2, <1>3, <1>4 DEF rejectJob, cancelUndispatchedJobs, Undispatched
\* The end of a management period, and the replay of its guards at startup.
LEMMA RetireLanes ==
  ASSUME TypeOK, EndedInv, NEW j \in Jobs, NEW skipped \in BOOLEAN,
         certops_close_management_work(j, skipped) \/ replayLifecycleGuards(j)
  PROVE  Lanes /\ Timed
<1> DEFINE m == [row[j] EXCEPT !.status = "cancelled"]
           n == [m EXCEPT !.owner = NoAgent, !.claim = 0, !.lease = NoLease, !.renewed = FALSE]
           f == [row[j] EXCEPT !.recon = TRUE]
<1>1. /\ row \in [Jobs -> RowType] /\ row[j] \in RowType /\ UNCHANGED <<intents, nonce>>
      /\ \A i \in Jobs : ended'[i] => ended[i] \/ (row[i].status # "absent" /\ Installs(row[i]))
  BY DEF TypeOK, certops_close_management_work, replayLifecycleGuards
<1>2. /\ m \in RowType /\ m.status = "cancelled" /\ m.operation = row[j].operation
      /\ m.owner = row[j].owner /\ m.claim = row[j].claim /\ m.recon = row[j].recon
  BY <1>1, Columns DEF RowType
<1>3. /\ n \in RowType /\ n.status = "cancelled" /\ n.operation = m.operation
      /\ n.recon = m.recon
  <2> HIDE DEF m
  <2> QED BY <1>2, Columns DEF RowType
<1>4. /\ f \in RowType /\ f.status = row[j].status /\ f.operation = row[j].operation
      /\ f.owner = row[j].owner /\ f.claim = row[j].claim /\ f.lease = row[j].lease
      /\ f.recon = TRUE
  BY <1>1 DEF RowType
<1>5. PICK new : /\ row' = [row EXCEPT ![j] = new]
                 /\ \/ new = row[j]
                    \/ row[j].status \in Undispatched /\ new \in {m, n}
                    \/ row[j].status \in InFlight /\ new = f
  <2>1. CASE certops_close_management_work(j, skipped)
    <3>1. row = [row EXCEPT ![j] = row[j]]
      BY <1>1
    <3>2. row' = row \/ row' = [row EXCEPT ![j] = retired(row[j])]
      BY <2>1 DEF certops_close_management_work
    <3> QED BY <3>1, <3>2 DEF retired
  <2>2. CASE replayLifecycleGuards(j)
    <3>1. row' = [row EXCEPT ![j] =
                    IF row[j].status \in Undispatched
                      THEN [retired(row[j]) EXCEPT !.owner = NoAgent, !.claim = 0,
                                                   !.lease = NoLease, !.renewed = FALSE]
                      ELSE retired(row[j])]
      BY <2>2 DEF replayLifecycleGuards
    <3> QED BY <3>1 DEF retired
  <2> QED BY <2>1, <2>2
<1> HIDE DEF m, n, f
<1>6. Lane(j, new) /\ Retires(j, new)
  <2>1. CASE new = row[j]
    BY <1>1, <2>1, SameLane
  <2>2. CASE row[j].status \in Undispatched /\ new \in {m, n}
    BY <1>2, <1>3, <2>2 DEF Lane, Keeps, Ends, Quits, Times, HoldsLease, Retires, BadEnds,
                            Undispatched, InFlight
  <2>3. CASE row[j].status \in InFlight /\ new = f
    BY <1>1, <1>4, <2>3 DEF Lane, Keeps, Ends, Quits, Times, HoldsLease, Retires,
                            Undispatched, InFlight
  <2> QED BY <1>5, <2>1, <2>2, <2>3
<1>7. row'[j] = new /\ \A i \in Jobs \ {j} : row'[i] = row[i]
  BY <1>1, <1>5
<1>8. \A i \in Jobs : Lane(i, row'[i]) /\ Retires(i, row'[i])
  BY <1>1, <1>6, <1>7, SameLane
<1> QED BY <1>1, <1>8 DEF Lanes, Timed, Lane

\* What the alert policy asks for is not lost.
LEMMA AlertsKept ==
  ASSUME NEW S, NEW s, enqueueOutboxEvent(S, s)
  PROVE  /\ \A i \in Jobs : intents[i] => intents'[i]
         /\ \A i \in Jobs : i \in S /\ row[i].operation = "renew" /\ s \in BadEnds => intents'[i]
BY DEF enqueueOutboxEvent, alertWorthy, BadEnds

\* Progress from the executor lane.
LEMMA ExecutorLanes ==
  ASSUME TypeOK, EndedInv, NEW j \in Jobs, NEW s \in JOB_STATUS_BY_EVENT_TYPE,
         ingestExecutorEvent(j, s)
  PROVE  Lanes /\ Timed
<1> DEFINE new == [row[j] EXCEPT !.status = s]
<1>1. /\ row[j] \in RowType /\ Write(j, new) /\ UNCHANGED <<ended, nonce>>
      /\ row[j].status # "absent" /\ s \in JOB_STATUS_TRANSITIONS[row[j].status]
      /\ ~(s = "succeeded" /\ row[j].mode = "dry_run")
      /\ ~(s \in TERMINAL_JOB_STATUSES /\ row[j].owner # NoAgent)
      /\ enqueueOutboxEvent({j}, Stored(j, new).status)
  BY DEF TypeOK, ingestExecutorEvent
<1>2. /\ row[j].status \in Undispatched \cup InFlight
      /\ row[j].status = "running" => s \in TERMINAL_JOB_STATUSES
  <2>1. row[j].status \in JOB_STATUSES
    BY <1>1 DEF RowType
  <2> QED BY <1>1, <2>1 DEF JOB_STATUS_TRANSITIONS, JOB_STATUSES, Undispatched, InFlight,
             TERMINAL_JOB_STATUSES
<1>3. new \in RowType
  BY <1>1, Columns DEF RowType, JOB_STATUS_BY_EVENT_TYPE
<1>4. /\ new.operation = row[j].operation /\ new.owner = row[j].owner /\ new.mode = row[j].mode
      /\ new.claim = row[j].claim /\ new.lease = row[j].lease /\ new.status = s
      /\ new.recon = row[j].recon
  BY <1>1 DEF RowType
<1> HIDE DEF new
<1>5. ASSUME s \in BadEnds PROVE Stored(j, new).status = s
  <2>1. ASSUME NEW n, n.status = s
        PROVE  certops_guard_management_job_claim(row[j], n) = n
    BY <1>5, <2>1 DEF certops_guard_management_job_claim, BadEnds, Undispatched, InFlight
  <2>2. certops_guard_job_identity_start(row[j], new).status = s
    BY <1>3, <1>4 DEF certops_guard_job_identity_start, RowType
  <2> QED BY <1>4, <2>1, <2>2 DEF Stored
<1>6. /\ \A i \in Jobs : intents[i] => intents'[i]
      /\ s \in BadEnds /\ row[j].operation = "renew" => intents'[j]
  BY <1>1, <1>5, AlertsKept
<1>7. Ends(j, new)
  BY <1>1, <1>4, <1>6 DEF Ends
<1>8. Lane(j, new) /\ new.status # "absent"
  BY <1>1, <1>2, <1>3, <1>4, <1>7, EditLane DEF JOB_STATUS_BY_EVENT_TYPE
<1> QED BY <1>1, <1>6, <1>8, WriteLanes
\* A poll that ends the job, or voids its approval, instead of granting it.
LEMMA RefusedClaimLanes ==
  ASSUME TypeOK, RowInv, EndedInv, NEW a \in Agents, NEW j \in Jobs,
         \/ claimRejectsTrustJob(a, j)
         \/ invalidateApprovalForClaim(a, j)
         \/ claimBlocksDeployJob(a, j)
  PROVE  Lanes /\ Timed
<1>1. /\ row[j] \in RowType /\ claimable(a, j) /\ UNCHANGED <<ended, intents, nonce>>
  BY DEF TypeOK, claimRejectsTrustJob, invalidateApprovalForClaim, claimBlocksDeployJob
<1>2. row[j].status \in Undispatched \cup InFlight /\ row[j].status # "running"
  BY <1>1, Claimable DEF Undispatched, InFlight
<1>3. ASSUME NEW new \in RowType, Write(j, new),
             new.operation = row[j].operation, new.owner = row[j].owner,
             new.claim = row[j].claim, new.lease = row[j].lease, new.recon = row[j].recon,
             \/ new.status \in {"rejected", "pending_approval"}
             \/ new.status = "blocked" /\ row[j].operation = "deploy"
      PROVE  Lanes /\ Timed
  <2>1. Ends(j, new)
    BY <1>3 DEF Ends, BadEnds
  <2>2. Lane(j, new)
    BY <1>1, <1>2, <1>3, <2>1, EditLane
  <2> QED BY <1>1, <1>3, <2>2, WriteLanes
<1>4. CASE claimRejectsTrustJob(a, j) \/ claimBlocksDeployJob(a, j)
  <2>1. PICK s \in {"rejected", "blocked"} :
          /\ Write(j, [row[j] EXCEPT !.status = s])
          /\ s = "blocked" => row[j].operation = "deploy"
    BY <1>4 DEF claimRejectsTrustJob, claimBlocksDeployJob
  <2> DEFINE new == [row[j] EXCEPT !.status = s]
  <2>2. new \in RowType
    BY <1>1, Columns DEF RowType
  <2>3. /\ new.operation = row[j].operation /\ new.owner = row[j].owner
        /\ new.claim = row[j].claim /\ new.lease = row[j].lease /\ new.status = s
        /\ new.recon = row[j].recon
    BY <1>1 DEF RowType
  <2>4. Write(j, new)
    BY <2>1
  <2> HIDE DEF new
  <2> QED BY <1>3, <2>1, <2>2, <2>3, <2>4
<1>5. CASE invalidateApprovalForClaim(a, j)
  <2> DEFINE new == [row[j] EXCEPT !.status = "pending_approval", !.approved = 0]
  <2>1. Write(j, new)
    BY <1>5 DEF invalidateApprovalForClaim
  <2>2. new \in RowType
    BY <1>1, Columns DEF RowType
  <2>3. /\ new.operation = row[j].operation /\ new.owner = row[j].owner
        /\ new.claim = row[j].claim /\ new.lease = row[j].lease
        /\ new.status = "pending_approval" /\ new.recon = row[j].recon
    BY <1>1 DEF RowType
  <2> HIDE DEF new
  <2> QED BY <1>3, <2>1, <2>2, <2>3
<1> QED BY <1>4, <1>5

\* A granted claim: nobody held a live lease, and lease and nonce start together.
LEMMA ClaimLanes ==
  ASSUME TypeOK, RowInv, EndedInv, NEW a \in Agents, NEW j \in Jobs,
         NEW delivered \in BOOLEAN, claimJobs(a, j, delivered)
  PROVE  Lanes /\ Timed
<1> DEFINE new == [row[j] EXCEPT !.status = "claimed", !.owner = a,
                                 !.claim = row[j].attempts + 1, !.lease = Lease,
                                 !.renewed = FALSE, !.attempts = @ + 1]
<1>1. /\ row[j] \in RowType /\ claimable(a, j) /\ UNCHANGED <<ended, intents>>
      /\ Write(j, new)
      /\ nonce' = [nonce EXCEPT ![j] = [state |-> "live", ttl |-> NonceTtl]]
  BY DEF TypeOK, claimJobs
<1>2. row[j].attempts + 1 \in 0..MaxAttempts
  BY <1>1, Claimable, BoundsAssumption DEF RowType
<1>3. new \in RowType
  BY <1>1, <1>2, Columns DEF RowType
<1>4. /\ new.operation = row[j].operation /\ new.lease = Lease /\ new.status = "claimed"
      /\ new.recon = row[j].recon
  BY <1>1 DEF RowType
<1>5. /\ ~(row[j].status \in InFlight /\ leaseLive(row[j]))
      /\ row[j].status \in {"pending", "claimed"}
  BY <1>1 DEF claimable, reclaimable, leaseExpired, leaseLive, InFlight, RowType
<1>6. nonce'[j].ttl = NonceTtl /\ \A i \in Jobs \ {j} : nonce'[i] = nonce[i]
  BY <1>1 DEF TypeOK
<1> HIDE DEF new
<1>7. Lane(j, new)
  BY <1>3, <1>4, <1>5, <1>6 DEF Lane, Keeps, Ends, Quits, Times, BadEnds
<1> QED BY <1>1, <1>4, <1>6, <1>7, WriteLanes

\* A renewal, in time or late, renews the nonce with the lease.
LEMMA RenewLanes ==
  ASSUME TypeOK, EndedInv, NEW a \in Agents, NEW j \in Jobs, NEW c,
         renewJobLease(a, j, c), UNCHANGED <<ended, intents>>
  PROVE  Lanes /\ Timed
<1> DEFINE new == [row[j] EXCEPT !.status = "running", !.lease = Lease, !.renewed = TRUE]
<1>1. /\ row[j] \in RowType /\ Write(j, new) /\ row[j].status \in InFlight
      /\ nonce' = [nonce EXCEPT ![j] =
                     IF nonce[j].state = "live" THEN [nonce[j] EXCEPT !.ttl = NonceTtl]
                                                ELSE nonce[j]]
  BY DEF TypeOK, renewJobLease, renewable
<1>2. new \in RowType
  BY <1>1, Columns DEF RowType
<1>3. /\ new.operation = row[j].operation /\ new.lease = Lease /\ new.status = "running"
      /\ new.owner = row[j].owner /\ new.claim = row[j].claim /\ new.recon = row[j].recon
  BY <1>1 DEF RowType
<1>4. /\ nonce'[j].state = "live" => nonce'[j].ttl = NonceTtl
      /\ \A i \in Jobs \ {j} : nonce'[i] = nonce[i]
  BY <1>1 DEF TypeOK
<1> HIDE DEF new
<1>5. Lane(j, new)
  BY <1>1, <1>2, <1>3, <1>4 DEF Lane, Keeps, Ends, Quits, Times, BadEnds, InFlight
<1> QED BY <1>1, <1>3, <1>4, <1>5, WriteLanes

\* A reported result ends the job, and only a real job succeeds.
LEMMA ResultLanes ==
  ASSUME TypeOK, EndedInv, OutboxInv, NEW a \in Agents, NEW r \in outbox[a],
         NEW acked \in BOOLEAN, ingestResult(a, r, acked)
  PROVE  Lanes /\ Timed
<1> DEFINE j == r.job
           flag == row[j].recon \/ r.status = "orphaned_unknown_effect"
           new == [row[j] EXCEPT !.status = r.status, !.lease = NoLease, !.recon = flag]
<1>1. /\ j \in Jobs /\ r.status \in RESULT_STATUSES
      /\ r.status = "succeeded" => row[j].mode = "real"
  BY DEF TypeOK, OutboxInv
<1>2. /\ row[j] \in RowType /\ Write(j, new) /\ ended' = ended
      /\ nonce' = [nonce EXCEPT ![j].state = "used"]
      /\ enqueueOutboxEvent({j}, r.status)
      /\ row[j].owner = a /\ row[j].claim = r.claim /\ row[j].status \in InFlight
  BY <1>1 DEF ingestResult, TypeOK, holdsClaim
<1>3. r.status \in JOB_STATUSES \cup {"absent"} /\ r.status \in TERMINAL_JOB_STATUSES
  BY <1>1 DEF JOB_STATUSES, RESULT_STATUSES
<1>f. flag \in BOOLEAN /\ (row[j].recon => flag)
  OBVIOUS
<1> HIDE DEF flag
<1>4. new \in RowType
  BY <1>2, <1>3, <1>f, Columns DEF RowType
<1>5. /\ new.operation = row[j].operation /\ new.status = r.status /\ new.mode = row[j].mode
      /\ new.owner = row[j].owner /\ new.claim = row[j].claim /\ new.recon = flag
  BY <1>2 DEF RowType
<1> HIDE DEF new
<1>6. /\ \A i \in Jobs : intents[i] => intents'[i]
      /\ r.status \in BadEnds /\ row[j].operation = "renew" => intents'[j]
  BY <1>1, <1>2, AlertsKept
<1>7. \A i \in Jobs \ {j} : nonce'[i] = nonce[i]
  BY <1>1, <1>2 DEF TypeOK
<1>8. ~HoldsLease(new)
  BY <1>3, <1>5 DEF HoldsLease, Undispatched, InFlight, TERMINAL_JOB_STATUSES
<1>9. new.status # "absent"
  BY <1>3, <1>5 DEF TERMINAL_JOB_STATUSES
<1>10. Keeps(row[j], new) /\ Ends(j, new) /\ Times(j, new)
  BY <1>1, <1>2, <1>4, <1>5, <1>6, <1>8, <1>9, <1>f DEF Keeps, Ends, Times, InFlight
<1>11. Quits(j, new)
  BY <1>2 DEF Quits
<1>12. Lane(j, new)
  BY <1>4, <1>10, <1>11 DEF Lane
<1> QED BY <1>1, <1>2, <1>6, <1>7, <1>9, <1>12, WriteLanes
\* What the reaper and a retired agent's fence write over a job in flight.
LEMMA SweptLane ==
  ASSUME TypeOK, NEW j \in Jobs, row[j].status \in InFlight, nonce'[j] = nonce[j],
         NEW new \in {reaped(row[j]), fenceAgentInFlightWork(row[j])},
         new.status \in BadEnds /\ row[j].operation = "renew" => intents'[j]
  PROVE  Lane(j, new) /\ new.status # "absent"
<1>1. row[j] \in RowType
  BY DEF TypeOK
<1>2. PICK n : /\ n = new
               /\ \/ n = orphaned(row[j])
                  \/ n = requeued(row[j]) /\ row[j].status # "running"
                  \/ n = expired(row[j]) /\ row[j].status # "running"
                  \/ /\ n = [row[j] EXCEPT !.status = "cancelled", !.lease = 0]
                     /\ row[j].status # "running"
                  \/ n = [row[j] EXCEPT !.status = "orphaned_unknown_effect",
                                        !.recon = TRUE, !.lease = 0]
  BY DEF reaped, sideEffectsPossible, fenceAgentInFlightWork
<1>3. /\ n \in RowType /\ n.operation = row[j].operation
      /\ n.status \in {"orphaned_unknown_effect", "pending", "failed", "cancelled"}
      /\ \/ n.owner = NoAgent /\ n.claim = 0
         \/ n.owner = row[j].owner /\ n.claim = row[j].claim /\ n.status # "pending"
      /\ row[j].recon => n.recon
      /\ row[j].status = "running" => n.recon
  <2>1. CASE n = orphaned(row[j])
    <3>1. n \in RowType
      BY <1>1, <2>1, Columns DEF RowType, orphaned
    <3>2. /\ n.operation = row[j].operation /\ n.owner = NoAgent /\ n.claim = 0
          /\ n.status \in {"orphaned_unknown_effect", "pending", "failed"}
          /\ row[j].recon => n.recon
          /\ n.recon
      BY <1>1, <2>1 DEF RowType, orphaned
    <3> QED BY <3>1, <3>2, <2>1
  <2>2. CASE n = requeued(row[j]) /\ row[j].status # "running"
    <3>1. n \in RowType
      BY <1>1, <2>2, Columns DEF RowType, requeued
    <3>2. /\ n.operation = row[j].operation /\ n.owner = NoAgent /\ n.claim = 0
          /\ n.status \in {"orphaned_unknown_effect", "pending", "failed"}
          /\ row[j].recon => n.recon
          /\ n.recon = row[j].recon
      BY <1>1, <2>2 DEF RowType, requeued
    <3> QED BY <3>1, <3>2, <2>2
  <2>3. CASE n = expired(row[j]) /\ row[j].status # "running"
    <3>1. n \in RowType
      BY <1>1, <2>3, Columns DEF RowType, expired
    <3>2. /\ n.operation = row[j].operation /\ n.owner = NoAgent /\ n.claim = 0
          /\ n.status \in {"orphaned_unknown_effect", "pending", "failed"}
          /\ row[j].recon => n.recon
          /\ n.recon = row[j].recon
      BY <1>1, <2>3 DEF RowType, expired
    <3> QED BY <3>1, <3>2, <2>3
  <2>4. CASE /\ n = [row[j] EXCEPT !.status = "cancelled", !.lease = 0]
             /\ row[j].status # "running"
    BY <1>1, <2>4, Columns DEF RowType
  <2>5. CASE n = [row[j] EXCEPT !.status = "orphaned_unknown_effect",
                                !.recon = TRUE, !.lease = 0]
    BY <1>1, <2>5, Columns DEF RowType
  <2> QED BY <1>2, <2>1, <2>2, <2>3, <2>4, <2>5
<1>4. ~HoldsLease(n)
  BY <1>3 DEF HoldsLease, Undispatched, InFlight
<1>5. Lane(j, n)
  BY <1>2, <1>3, <1>4 DEF Lane, Keeps, Ends, Quits, Times, InFlight
<1> QED BY <1>2, <1>3, <1>5

\* The reaper's batch and the fence of a retired agent.
LEMMA SweepLanes ==
  ASSUME TypeOK, EndedInv,
         \/ \E S \in SUBSET Jobs : reapExpiredLeases(S)
         \/ \E a \in Agents, force \in BOOLEAN : retireAgent(a, force)
  PROVE  Lanes /\ Timed
<1>1. row \in [Jobs -> RowType] /\ UNCHANGED <<ended, nonce>>
  BY DEF TypeOK, reapExpiredLeases, retireAgent
<1>2. \A j \in Jobs : intents[j] => intents'[j]
  BY DEF reapExpiredLeases, retireAgent, enqueueOutboxEvent
<1>3. ASSUME NEW S \in SUBSET Jobs, reapExpiredLeases(S), NEW j \in Jobs
      PROVE  Lane(j, row'[j]) /\ Retires(j, row'[j])
  <2>1. CASE j \in S
    <3>1. row[j].status \in InFlight /\ row'[j] = Stored(j, reaped(row[j]))
      BY <1>3, <2>1 DEF reapExpiredLeases, reapable
    <3>2. reaped(row[j]).status \in BadEnds /\ row[j].operation = "renew" => intents'[j]
      BY <1>3, <2>1 DEF reapExpiredLeases, alertWorthy, BadEnds
    <3>3. Lane(j, reaped(row[j])) /\ reaped(row[j]).status # "absent"
      BY <1>1, <3>1, <3>2, SweptLane
    <3> QED BY <3>1, <3>3, StoredLane
  <2>2. CASE j \notin S
    <3>1. row'[j] = row[j]
      BY <1>3, <2>2 DEF reapExpiredLeases
    <3> QED BY <1>1, <3>1, SameLane
  <2> QED BY <2>1, <2>2
<1>4. ASSUME NEW a \in Agents, NEW force \in BOOLEAN, retireAgent(a, force), NEW j \in Jobs
      PROVE  Lane(j, row'[j]) /\ Retires(j, row'[j])
  <2>1. CASE j \in activelyLeased(a)
    <3>1. row[j].status \in InFlight /\ row'[j] = Stored(j, fenceAgentInFlightWork(row[j]))
      BY <1>4, <2>1 DEF retireAgent, activelyLeased
    <3>2. row[j].operation = "renew" => intents'[j]
      <4>1. enqueueOutboxEvent(activelyLeased(a), "orphaned_unknown_effect")
        BY <1>4 DEF retireAgent
      <4> QED BY <2>1, <4>1, AlertsKept DEF BadEnds
    <3>3. /\ Lane(j, fenceAgentInFlightWork(row[j]))
          /\ fenceAgentInFlightWork(row[j]).status # "absent"
      BY <1>1, <3>1, <3>2, SweptLane
    <3> QED BY <3>1, <3>3, StoredLane
  <2>2. CASE j \notin activelyLeased(a)
    <3>1. row'[j] = row[j]
      BY <1>4, <2>2 DEF retireAgent
    <3> QED BY <1>1, <3>1, SameLane
  <2> QED BY <2>1, <2>2
<1>5. \A j \in Jobs : Lane(j, row'[j]) /\ Retires(j, row'[j])
  BY <1>3, <1>4
<1> QED BY <1>1, <1>2, <1>5 DEF Lanes, Timed, Lane

\* The clock takes from lease and nonce alike.
LEMMA TickLanes ==
  ASSUME TypeOK, NonceInv, tick
  PROVE  Lanes /\ NonceInv'
<1>0. UNCHANGED <<ended, intents>>
  BY DEF tick
<1>1. ASSUME NEW j \in Jobs
      PROVE  /\ row[j] \in RowType
             /\ row'[j].status = row[j].status /\ row'[j].operation = row[j].operation
             /\ row'[j].owner = row[j].owner /\ row'[j].claim = row[j].claim
             /\ row'[j].recon = row[j].recon
             /\ row'[j].lease = IF row[j].lease = NoLease THEN NoLease
                                ELSE countdown(row[j].lease, -HardGrace - 1)
  <2>1. row[j] \in RowType
    BY DEF TypeOK
  <2>2. row'[j] = IF row[j].lease = NoLease THEN row[j]
                  ELSE [row[j] EXCEPT !.lease = countdown(row[j].lease, -HardGrace - 1)]
    BY DEF tick
  <2> QED BY <2>1, <2>2 DEF RowType
<1>2. ASSUME NEW j \in Jobs, nonce'[j].state = "live"
      PROVE  /\ nonce[j].state = "live" /\ nonce[j].ttl \in Int
             /\ nonce'[j].ttl = countdown(nonce[j].ttl, -SweepGrace - 1)
  <2>1. /\ nonce[j] \in [state : {"none", "live", "used"}, ttl : (-SweepGrace - 1)..NonceTtl]
        /\ nonce'[j] = IF nonce[j].state = "none" THEN nonce[j]
                       ELSE [nonce[j] EXCEPT !.ttl = countdown(nonce[j].ttl, -SweepGrace - 1)]
    BY DEF tick, TypeOK
  <2>2. nonce[j].ttl \in Int
    BY <2>1, BoundsAssumption DEF NonceTtl
  <2> QED BY <1>2, <2>1, <2>2
<1>3. Lanes
  BY <1>0, <1>1 DEF Lanes, Keeps, Ends, Quits, Retires, Undispatched, InFlight
<1>4. NonceInv'
  <2> SUFFICES ASSUME NEW j \in Jobs, HoldsLease(row'[j]), nonce'[j].state = "live"
               PROVE  /\ row'[j].lease # NoLease
                      /\ ~pastHardGrace(row'[j]) =>
                           nonce'[j].ttl >= row'[j].lease + HardGrace + NonceSlack
    BY DEF NonceInv
  <2>1. /\ row[j].lease # NoLease
        /\ ~pastHardGrace(row[j]) => nonce[j].ttl >= row[j].lease + HardGrace + NonceSlack
    BY <1>1, <1>2 DEF NonceInv, HoldsLease
  <2>2. PICK l \in Int : l = row[j].lease /\ l <= Lease
    BY <1>1, <2>1, BoundsAssumption DEF RowType, NoLease
  <2>3. PICK t \in Int : t = nonce[j].ttl
    BY <1>2
  <2>4. /\ row'[j].lease = IF l > -HardGrace - 1 THEN l - 1 ELSE l
        /\ nonce'[j].ttl = IF t > -SweepGrace - 1 THEN t - 1 ELSE t
    BY <1>1, <1>2, <2>1, <2>2, <2>3 DEF countdown
  <2>5. ~(l < -HardGrace) => t >= l + HardGrace + NonceSlack
    BY <2>1, <2>2, <2>3 DEF pastHardGrace
  <2> QED BY <2>2, <2>4, <2>5, BoundsAssumption DEF pastHardGrace, NoLease
<1> QED BY <1>3, <1>4

\* Every step but the clock's, lane by lane.
LEMMA LaneStep ==
  ASSUME IInv, EndedInv, OutboxInv, Next
  PROVE  (Lanes /\ Timed) \/ tick
<1> USE DEF IInv
<1>1. ASSUME NEW j \in Jobs, JobNext(j) PROVE Lanes /\ Timed
  <2>1. ASSUME sweepExpiredNonces(j) PROVE Lanes /\ Timed
    <3>1. /\ UNCHANGED <<row, intents, ended>>
          /\ nonce' = [nonce EXCEPT ![j] = [state |-> "none", ttl |-> 0]]
      BY <2>1 DEF sweepExpiredNonces
    <3>2. \A i \in Jobs : nonce'[i] = nonce[i] \/ nonce'[i].state # "live"
      BY <3>1 DEF TypeOK
    <3> QED BY <3>1, <3>2, UntouchedLanes
  <2>2. ASSUME NEW s \in JOB_STATUS_BY_EVENT_TYPE, ingestExecutorEvent(j, s)
        PROVE  Lanes /\ Timed
    BY <2>2, ExecutorLanes
  <2>3. CASE replayLifecycleGuards(j)
    BY <2>3, RetireLanes
  <2> QED
    BY <1>1, <2>1, <2>2, <2>3, CreateLanes, PeopleLanes, RetireLanes DEF JobNext
<1>2. ASSUME NEW a \in Agents, AgentNext(a) PROVE Lanes /\ Timed
  <2>1. CASE RowsUntouched(a)
    <3>1. UNCHANGED <<row, intents, ended, nonce>>
      BY <2>1 DEF RowsUntouched, recordHeartbeat, dropUnverifiedJob, reportJobRejection,
         abortBeforeExecution, abortWhileExecuting, markMutation, mutate, persistOutcome,
         clearJournalOnTerminal, crash, acknowledgeDuplicate, quarantine, giveUpOnResult,
         sweepStaleAgents, goSilent
    <3> QED BY <3>1, UntouchedLanes
  <2>2. CASE confirmLease(a) \/ renewWhileExecuting(a)
    <3>1. agent[a].phase # "idle" /\ UNCHANGED <<ended, intents>>
          /\ renewJobLease(a, agent[a].job, agent[a].claim)
      BY <2>2 DEF confirmLease, renewWhileExecuting
    <3> QED BY <3>1, Holder, RenewLanes
  <2>3. ASSUME NEW j \in Jobs, ClaimNext(a, j) PROVE Lanes /\ Timed
    <3>1. ASSUME NEW c \in Claims, deliverLateRenewal(a, j, c) PROVE Lanes /\ Timed
      BY <3>1, RenewLanes DEF deliverLateRenewal
    <3> QED BY <2>3, <3>1, RefusedClaimLanes, ClaimLanes DEF ClaimNext
  <2>4. ASSUME NEW r \in outbox[a], NEW acked \in BOOLEAN, ingestResult(a, r, acked)
        PROVE  Lanes /\ Timed
    BY <2>4, ResultLanes
  <2>5. ASSUME NEW force \in BOOLEAN, retireAgent(a, force) PROVE Lanes /\ Timed
    BY <2>5, SweepLanes
  <2> QED BY <1>2, <2>1, <2>2, <2>3, <2>4, <2>5 DEF AgentNext, ResultNext, RowsUntouched
<1>3. ASSUME NEW p \in BOOLEAN, setWorkspacePaused(p) PROVE Lanes /\ Timed
  BY <1>3, UntouchedLanes DEF setWorkspacePaused
<1> QED BY <1>1, <1>2, <1>3, SweepLanes DEF Next
(***************************************************************************)
(* The invariant                                                           *)
(***************************************************************************)
\* A result that agent a writes is about the job it handles; success is reported
\* only after a side effect, and only real jobs have those.
LEMMA NewResult ==
  ASSUME IInv, NEW a \in Agents, agent[a].phase # "idle", NEW s, s \in RESULT_STATUSES,
         s = "succeeded" => effect(a) \in effects
  PROVE  LET r == result(a, s) IN
           /\ row[r.job].status # "absent" /\ r.claim <= row[r.job].attempts
           /\ r.status = "succeeded" => row[r.job].mode = "real"
<1>1. /\ agent[a].job \in Jobs /\ row[agent[a].job].status # "absent"
      /\ agent[a].claim \in 1..row[agent[a].job].attempts
  BY DEF IInv, HolderInv
<1>2. /\ result(a, s).job = agent[a].job /\ result(a, s).status = s
      /\ result(a, s).claim = agent[a].claim
  BY DEF result
<1>4. agent[a].claim <= row[agent[a].job].attempts
  <2>1. row[agent[a].job].attempts \in 0..MaxAttempts
    BY <1>1 DEF IInv, TypeOK, RowType
  <2> QED BY <1>1, <2>1, BoundsAssumption
<1>3. ASSUME s = "succeeded" PROVE row[agent[a].job].mode = "real"
  <2>1. PICK e \in effects : e = effect(a)
    BY <1>3
  <2>2. e.job = agent[a].job
    BY <2>1 DEF effect
  <2> QED BY <2>2 DEF IInv, EffectInv
<1> QED BY <1>1, <1>2, <1>3, <1>4

\* The result outboxes only lose entries, but for such results.
LEMMA OutboxStep ==
  ASSUME IInv, Next, NEW b \in Agents, NEW r \in outbox'[b]
  PROVE  \/ r \in outbox[b]
         \/ /\ row[r.job].status # "absent" /\ r.claim <= row[r.job].attempts
            /\ r.status = "succeeded" => row[r.job].mode = "real"
<1>0. outbox \in [Agents -> SUBSET [job : Jobs, claim : Claims, status : RESULT_STATUSES]]
  BY DEF IInv, TypeOK
<1>1. CASE outbox' = outbox
  BY <1>1
<1>2. ASSUME NEW a \in Agents, NEW q, outbox' = [outbox EXCEPT ![a] = outbox[a] \ {q}]
      PROVE  r \in outbox[b]
  BY <1>0, <1>2
<1>3. ASSUME NEW a \in Agents, NEW s \in RESULT_STATUSES, agent[a].phase # "idle",
             s = "succeeded" => effect(a) \in effects,
             outbox' = [outbox EXCEPT ![a] = outbox[a] \cup {result(a, s)}]
      PROVE  \/ r \in outbox[b]
             \/ /\ row[r.job].status # "absent" /\ r.claim <= row[r.job].attempts
                /\ r.status = "succeeded" => row[r.job].mode = "real"
  <2>1. r \in outbox[b] \/ r = result(a, s)
    BY <1>0, <1>3
  <2> QED BY <1>3, <2>1, NewResult
<1>4. ASSUME NEW a \in Agents, AgentNext(a)
      PROVE  \/ outbox' = outbox
             \/ \E q : outbox' = [outbox EXCEPT ![a] = outbox[a] \ {q}]
             \/ \E s \in RESULT_STATUSES :
                  /\ agent[a].phase # "idle" /\ (s = "succeeded" => effect(a) \in effects)
                  /\ outbox' = [outbox EXCEPT ![a] = outbox[a] \cup {result(a, s)}]
  <2>1. CASE reportJobRejection(a) \/ abortBeforeExecution(a)
    <3>1. PICK s \in {"rejected", "blocked"} :
            /\ agent[a].phase = "got"
            /\ outbox' = [outbox EXCEPT ![a] = outbox[a] \cup {result(a, s)}]
      BY <2>1 DEF reportJobRejection, abortBeforeExecution, reportWithoutExecuting
    <3>2. s \in RESULT_STATUSES
      BY DEF RESULT_STATUSES, TERMINAL_JOB_STATUSES
    <3> QED BY <3>1, <3>2
  <2>2. ASSUME NEW outcome \in RESULT_STATUSES, persistOutcome(a, outcome)
        PROVE  \E s \in RESULT_STATUSES :
                 /\ agent[a].phase # "idle" /\ (s = "succeeded" => effect(a) \in effects)
                 /\ outbox' = [outbox EXCEPT ![a] = outbox[a] \cup {result(a, s)}]
    <3>1. /\ agent[a].phase # "idle" /\ outcome \in outcomes(a)
          /\ outbox' = [outbox EXCEPT ![a] = outbox[a] \cup {result(a, withAbort(a, outcome))}]
      BY <2>2 DEF persistOutcome
    <3>2. withAbort(a, outcome) \in RESULT_STATUSES
          /\ (withAbort(a, outcome) = "succeeded" => outcome = "succeeded")
      BY DEF withAbort, RESULT_STATUSES, TERMINAL_JOB_STATUSES
    <3>3. outcome = "succeeded" => effect(a) \in effects
      BY <3>1 DEF outcomes
    <3> QED BY <3>1, <3>2, <3>3
  <2>3. ASSUME NEW q \in outbox[a], ResultNext(a, q)
        PROVE  outbox' = outbox \/ outbox' = [outbox EXCEPT ![a] = outbox[a] \ {q}]
    BY <2>3 DEF ResultNext, ingestResult, acknowledgeDuplicate, quarantine, giveUpOnResult,
                acknowledge
  <2>4. ASSUME NEW j \in Jobs, ClaimNext(a, j) PROVE outbox' = outbox
    BY <2>4 DEF ClaimNext, claimRejectsTrustJob, invalidateApprovalForClaim,
                claimBlocksDeployJob, claimJobs, deliverLateRenewal
  <2>5. CASE \/ recordHeartbeat(a) \/ dropUnverifiedJob(a) \/ confirmLease(a)
             \/ renewWhileExecuting(a) \/ abortWhileExecuting(a) \/ markMutation(a) \/ mutate(a)
             \/ clearJournalOnTerminal(a) \/ crash(a) \/ sweepStaleAgents(a) \/ goSilent(a)
             \/ \E force \in BOOLEAN : retireAgent(a, force)
    BY <2>5 DEF recordHeartbeat, dropUnverifiedJob, confirmLease, renewWhileExecuting,
       abortWhileExecuting, markMutation, mutate, clearJournalOnTerminal, crash,
       sweepStaleAgents, goSilent, retireAgent
  <2> QED BY <1>4, <2>1, <2>2, <2>3, <2>4, <2>5 DEF AgentNext
<1>5. ASSUME NEW j \in Jobs, JobNext(j) PROVE outbox' = outbox
  BY <1>5 DEF JobNext, createCertificateJob, approveJob, rejectJob, driftPayload,
     cancelUndispatchedJobs, certops_close_management_work, replayLifecycleGuards,
     ingestExecutorEvent, sweepExpiredNonces
<1>6. ASSUME \/ \E S \in SUBSET Jobs : reapExpiredLeases(S)
             \/ \E p \in BOOLEAN : setWorkspacePaused(p)
             \/ tick
      PROVE  outbox' = outbox
  BY <1>6 DEF reapExpiredLeases, setWorkspacePaused, tick
<1> QED BY <1>1, <1>2, <1>3, <1>4, <1>5, <1>6 DEF Next

\* An agent that has not reported its job yet has the job from an earlier step, or
\* under a new claim; when it begins to execute, the job is running.
LEMMA AgentStep ==
  ASSUME IInv, Next, NEW b \in Agents, agent'[b].phase \in {"got", "executing"}
  PROVE  /\ outbox'[b] \subseteq outbox[b]
         /\ \/ /\ agent[b].phase \in {"got", "executing"}
               /\ agent'[b].job = agent[b].job /\ agent'[b].claim = agent[b].claim
               /\ agent'[b].phase = "executing" =>
                    agent[b].phase = "executing" \/ row'[agent[b].job].status = "running"
            \/ /\ agent'[b].phase = "got" /\ agent'[b].job \in Jobs
               /\ agent'[b].claim = row[agent'[b].job].attempts + 1
<1> DEFINE Holds == /\ agent[b].phase \in {"got", "executing"}
                    /\ agent'[b].job = agent[b].job /\ agent'[b].claim = agent[b].claim
                    /\ agent'[b].phase = "executing" =>
                         agent[b].phase = "executing" \/ row'[agent[b].job].status = "running"
           Gets == /\ agent'[b].phase = "got" /\ agent'[b].job \in Jobs
                   /\ agent'[b].claim = row[agent'[b].job].attempts + 1
           Goal == outbox'[b] \subseteq outbox[b] /\ (Holds \/ Gets)
<1>0. /\ outbox \in [Agents -> SUBSET [job : Jobs, claim : Claims, status : RESULT_STATUSES]]
      /\ agent \in [Agents -> AgentType]
  BY DEF IInv, TypeOK, AgentType
<1>1. CASE agent' = agent /\ \A a \in Agents : outbox'[a] \subseteq outbox[a]
  BY <1>1
<1>2. ASSUME NEW a \in Agents, AgentNext(a) PROVE Goal
  <2>1. CASE a # b
    <3>1. agent'[b] = agent[b] /\ outbox'[b] = outbox[b]
      BY <1>0, <1>2, <2>1 DEF AgentNext, ResultNext, ClaimNext, recordHeartbeat, dropUnverifiedJob,
         reportJobRejection, confirmLease, abortBeforeExecution, renewWhileExecuting,
         abortWhileExecuting, markMutation, mutate, persistOutcome, clearJournalOnTerminal, crash,
         ingestResult, acknowledgeDuplicate, quarantine, giveUpOnResult, acknowledge,
         claimRejectsTrustJob, invalidateApprovalForClaim, claimBlocksDeployJob, claimJobs,
         deliverLateRenewal, sweepStaleAgents, goSilent, retireAgent, reportWithoutExecuting
    <3> QED BY <3>1
  <2>2. CASE a = b
    <3>1. CASE \/ dropUnverifiedJob(b) \/ reportJobRejection(b) \/ abortBeforeExecution(b)
               \/ (\E outcome \in RESULT_STATUSES : persistOutcome(b, outcome))
               \/ clearJournalOnTerminal(b) \/ crash(b)
      <4>1. agent' = [agent EXCEPT ![b] = IdleAgent]
            \/ agent' = [agent EXCEPT ![b].phase = "reporting"]
        BY <3>1 DEF dropUnverifiedJob, reportJobRejection, abortBeforeExecution, persistOutcome,
           clearJournalOnTerminal, crash, reportWithoutExecuting
      <4>2. agent'[b].phase \in {"idle", "reporting"}
        BY <1>0, <4>1 DEF IdleAgent, AgentType
      <4> QED BY <4>2
    <3>2. CASE confirmLease(b)
      <4>1. /\ agent[b].phase = "got" /\ agent' = [agent EXCEPT ![b].phase = "executing"]
            /\ renewJobLease(b, agent[b].job, agent[b].claim)
            /\ UNCHANGED <<gated, ledger, outbox>>
        BY <3>2 DEF confirmLease
      <4>2. agent[b].job \in Jobs /\ agent[b].claim \in Claims
        BY <4>1, Holder DEF IInv
      <4>3. row'[agent[b].job].status = "running"
        BY <4>1, <4>2, RenewRows DEF IInv
      <4>4. agent'[b].job = agent[b].job /\ agent'[b].claim = agent[b].claim
        BY <1>0, <4>1 DEF AgentType
      <4> QED BY <4>1, <4>3, <4>4
    <3>3. CASE renewWhileExecuting(b) \/ abortWhileExecuting(b)
      <4>1. /\ agent[b].phase = "executing" /\ outbox' = outbox
            /\ \/ agent' = [agent EXCEPT ![b].abort = FALSE]
               \/ agent' = [agent EXCEPT ![b].abort = TRUE]
        BY <3>3 DEF renewWhileExecuting, abortWhileExecuting
      <4>2. agent'[b].job = agent[b].job /\ agent'[b].claim = agent[b].claim
        BY <1>0, <4>1 DEF AgentType
      <4> QED BY <4>1, <4>2
    <3>4. CASE \/ recordHeartbeat(b) \/ markMutation(b) \/ mutate(b)
               \/ sweepStaleAgents(b) \/ goSilent(b)
               \/ (\E force \in BOOLEAN : retireAgent(b, force))
      <4>1. agent' = agent /\ outbox' = outbox
        BY <3>4 DEF recordHeartbeat, markMutation, mutate, sweepStaleAgents, goSilent, retireAgent
      <4> QED BY <4>1
    <3>5. ASSUME NEW q \in outbox[b], ResultNext(b, q) PROVE Goal
      <4>1. /\ agent' = agent
            /\ outbox' = outbox \/ outbox' = [outbox EXCEPT ![b] = outbox[b] \ {q}]
        BY <3>5 DEF ResultNext, ingestResult, acknowledgeDuplicate, quarantine, giveUpOnResult,
                    acknowledge
      <4>2. outbox'[b] \subseteq outbox[b]
        BY <1>0, <4>1
      <4> QED BY <4>1, <4>2
    <3>6. ASSUME NEW j \in Jobs, ClaimNext(b, j) PROVE Goal
      <4>1. /\ outbox' = outbox
            /\ \/ agent' = agent
               \/ agent' = [agent EXCEPT ![b] =
                               [phase |-> "got", job |-> j, claim |-> row[j].attempts + 1,
                                version |-> row[j].payload, abort |-> FALSE]]
        BY <3>6 DEF ClaimNext, claimRejectsTrustJob, invalidateApprovalForClaim,
                    claimBlocksDeployJob, claimJobs, deliverLateRenewal
      <4> QED BY <1>0, <4>1
    <3> QED BY <1>2, <2>2, <3>1, <3>2, <3>3, <3>4, <3>5, <3>6 DEF AgentNext
  <2> QED BY <2>1, <2>2
<1>3. ASSUME NEW j \in Jobs, JobNext(j) PROVE agent' = agent /\ outbox' = outbox
  BY <1>3 DEF JobNext, createCertificateJob, approveJob, rejectJob, driftPayload,
     cancelUndispatchedJobs, certops_close_management_work, replayLifecycleGuards,
     ingestExecutorEvent, sweepExpiredNonces
<1>4. ASSUME \/ \E S \in SUBSET Jobs : reapExpiredLeases(S)
             \/ \E p \in BOOLEAN : setWorkspacePaused(p)
             \/ tick
      PROVE  agent' = agent /\ outbox' = outbox
  BY <1>4 DEF reapExpiredLeases, setWorkspacePaused, tick
<1>5. Goal
  BY <1>1, <1>2, <1>3, <1>4 DEF Next
<1> QED BY <1>5

\* Retirement, results, supervision, alerts, dry runs and nonces, after any step.
LEMMA LaneStepInv == IInv /\ LaneInv /\ [Next]_vars => LaneInv'
<1> SUFFICES ASSUME IInv, LaneInv, [Next]_vars PROVE LaneInv'
  OBVIOUS
<1>1. CASE UNCHANGED vars
  BY <1>1 DEF vars, LaneInv, EndedInv, OutboxInv, SupervisedInv, NonceInv, AlertComplete,
     DryRunIsHarmless
<1>2. CASE Next
  <2>1. IInv'
    BY <1>2, StepInv
  <2>2. RowsGood
    BY <1>2, RowStep DEF IInv
  <2>3. Lanes
    BY <1>2, LaneStep, TickLanes DEF LaneInv, IInv
  <2>4. ASSUME NEW j \in Jobs, row[j].status # "absent"
        PROVE  /\ row'[j].status # "absent" /\ row'[j].mode = row[j].mode
               /\ row'[j].operation = row[j].operation
               /\ row'[j].attempts >= row[j].attempts
               /\ row[j].recon => row'[j].recon
    BY <2>2, <2>3, <2>4 DEF RowsGood, Good, Evolves, Lanes, Keeps
  <2>5. EndedInv'
    <3>1. ASSUME NEW j \in Jobs, ended'[j]
          PROVE  row'[j].status # "absent" /\ Installs(row'[j])
      BY <2>3, <2>4, <3>1 DEF LaneInv, EndedInv, Lanes, Installs
    <3>2. ASSUME NEW j \in Jobs, row'[j].recon PROVE row'[j].status # "absent"
      BY <2>3, <2>4, <3>2 DEF LaneInv, EndedInv, Lanes, Keeps
    <3> QED BY <3>1, <3>2 DEF EndedInv
  <2>6. OutboxInv'
    <3> SUFFICES ASSUME NEW a \in Agents, NEW r \in outbox'[a]
                 PROVE  /\ row'[r.job].status # "absent"
                        /\ r.claim <= row'[r.job].attempts
                        /\ agent'[a].phase \in {"got", "executing"} =>
                             ~(r.job = agent'[a].job /\ r.claim = agent'[a].claim)
                        /\ r.status = "succeeded" => row'[r.job].mode = "real"
      BY DEF OutboxInv
    <3>1. r.job \in Jobs /\ r.claim \in Nat
      BY <2>1 DEF IInv, TypeOK, Claims
    <3>2. /\ row[r.job].status # "absent" /\ r.claim <= row[r.job].attempts
          /\ r.status = "succeeded" => row[r.job].mode = "real"
      BY <1>2, OutboxStep DEF LaneInv, OutboxInv
    <3>3. row[r.job].attempts \in Nat /\ row'[r.job].attempts \in Nat
      BY <2>1, <3>1 DEF IInv, TypeOK, RowType
    <3>4. ASSUME agent'[a].phase \in {"got", "executing"},
                 r.job = agent'[a].job, r.claim = agent'[a].claim
          PROVE  FALSE
      <4>1. r \in outbox[a]
        BY <1>2, <3>4, AgentStep
      <4>2. CASE /\ agent[a].phase \in {"got", "executing"}
                 /\ agent'[a].job = agent[a].job /\ agent'[a].claim = agent[a].claim
        BY <3>4, <4>1, <4>2 DEF LaneInv, OutboxInv
      <4>3. CASE agent'[a].claim = row[agent'[a].job].attempts + 1
        BY <3>1, <3>2, <3>3, <3>4, <4>3
      <4> QED BY <1>2, <3>4, <4>2, <4>3, AgentStep
    <3>5. r.claim <= row'[r.job].attempts
      BY <2>4, <3>1, <3>2, <3>3
    <3> QED BY <2>4, <3>1, <3>2, <3>4, <3>5
  <2>10. SupervisedInv'
    <3> SUFFICES ASSUME NEW a \in Agents, agent'[a].phase = "executing"
                 PROVE  row'[agent'[a].job].status = "running" \/ row'[agent'[a].job].recon
      BY DEF SupervisedInv
    <3> DEFINE j == agent[a].job
    <3>1. /\ agent[a].phase \in {"got", "executing"} /\ agent'[a].job = j
          /\ agent[a].phase = "executing" \/ row'[j].status = "running"
      BY <1>2, AgentStep
    <3>2. CASE agent[a].phase = "executing"
      <4>1. j \in Jobs /\ row[j].status # "absent" /\ Started(a, j, agent[a].claim)
        BY <3>2 DEF IInv, HolderInv
      <4>2. CASE row[j].recon
        BY <2>4, <3>1, <4>1, <4>2
      <4>3. CASE ~row[j].recon
        <5>1. row[j].status = "running" /\ row[j].owner = a /\ row[j].claim = agent[a].claim
          BY <3>2, <4>1, <4>3 DEF LaneInv, SupervisedInv, Started
        <5>2. a # NoAgent
          BY AgentsAssumption
        <5>3. ~\E r \in outbox[a] : r.job = j /\ r.claim = agent[a].claim
          BY <3>2 DEF LaneInv, OutboxInv
        <5>4. Quits(j, row'[j])
          BY <2>3, <4>1 DEF Lanes
        <5> QED BY <3>1, <5>1, <5>2, <5>3, <5>4 DEF Quits
      <4> QED BY <4>2, <4>3
    <3> QED BY <3>1, <3>2
  <2>7. NonceInv'
    <3>1. CASE tick
      BY <3>1, TickLanes DEF LaneInv, IInv
    <3>2. CASE Timed
      <4> SUFFICES ASSUME NEW j \in Jobs, HoldsLease(row'[j]), nonce'[j].state = "live"
                   PROVE  /\ row'[j].lease # NoLease
                          /\ ~pastHardGrace(row'[j]) =>
                               nonce'[j].ttl >= row'[j].lease + HardGrace + NonceSlack
        BY DEF NonceInv
      <4>1. CASE HoldsLease(row[j]) /\ row'[j].lease = row[j].lease /\ nonce'[j] = nonce[j]
        BY <4>1 DEF LaneInv, NonceInv, pastHardGrace
      <4>2. CASE row'[j].lease = Lease /\ nonce'[j].ttl = NonceTtl
        BY <4>2, BoundsAssumption DEF NonceTtl, NoLease
      <4> QED BY <3>2, <4>1, <4>2 DEF Timed, Times
    <3> QED BY <1>2, <3>1, <3>2, LaneStep DEF LaneInv
  <2>8. AlertComplete'
    <3> SUFFICES ASSUME NEW j \in Jobs, row'[j].operation = "renew", row'[j].status \in BadEnds
                 PROVE  intents'[j]
      BY DEF AlertComplete, BadEnds
    <3>1. CASE row'[j].status = row[j].status
      BY <3>1, <2>3, <2>4 DEF LaneInv, AlertComplete, BadEnds, Lanes
    <3>2. CASE row'[j].status # row[j].status
      BY <3>2, <2>3 DEF Lanes, Ends
    <3> QED BY <3>1, <3>2
  <2>9. DryRunIsHarmless'
    <3> SUFFICES ASSUME NEW j \in Jobs, row'[j].mode = "dry_run"
                 PROVE  (\A e \in effects' : e.job # j) /\ row'[j].status # "succeeded"
      BY DEF DryRunIsHarmless
    <3>1. \A e \in effects' : e.job # j
      BY <2>1 DEF IInv, EffectInv
    <3>2. CASE row'[j].status = row[j].status
      BY <3>1, <3>2, <2>4 DEF LaneInv, DryRunIsHarmless
    <3>3. CASE row'[j].status # row[j].status
      BY <3>1, <3>3, <2>3 DEF Lanes, Ends
    <3> QED BY <3>1, <3>2, <3>3
  <2> QED BY <2>5, <2>6, <2>7, <2>8, <2>9, <2>10 DEF LaneInv
<1> QED BY <1>1, <1>2

(***************************************************************************)
(* Theorems                                                                *)
(***************************************************************************)
\* The second inductive invariant holds of every behaviour of the job lifecycle:
\* it rests on the first.
THEOREM LaneInvariant == Spec => []LaneInv
<1>1. Init => LaneInv
  BY DEF Init, LaneInv, EndedInv, OutboxInv, SupervisedInv, NonceInv, AlertComplete,
         DryRunIsHarmless, IdleAgent, HoldsLease, Absent, Undispatched, InFlight
<1> QED BY <1>1, LaneStepInv, Invariant, PTL DEF Spec

\* A renewal that ended badly has its alert intent, whichever lane ended it: the
\* agent's report, the executor, the lease reaper or the fence of its agent.
THEOREM AlertsComplete == Spec => []AlertComplete
<1>1. LaneInv => AlertComplete
  BY DEF LaneInv
<1> QED BY <1>1, LaneInvariant, PTL

\* A dry run has no side effects and is never recorded as succeeded.
THEOREM DryRunsHarmless == Spec => []DryRunIsHarmless
<1>1. LaneInv => DryRunIsHarmless
  BY DEF LaneInv
<1> QED BY <1>1, LaneInvariant, PTL

\* The nonce of a claim lasts while the claim's result is still in time, for every
\* choice of lease, hard grace and margin.
THEOREM ResultsInTime == Spec => []ResultWindowOpen
<1>1. IInv /\ LaneInv => ResultWindowOpen
  <2> SUFFICES ASSUME IInv, LaneInv, NEW j \in Jobs, row[j].status \in InFlight,
                      row[j].owner # NoAgent, ~pastHardGrace(row[j]), nonce[j].state = "live"
               PROVE  nonce[j].ttl > 0
    BY DEF ResultWindowOpen
  <2>1. row[j].lease \in Int
    BY BoundsAssumption DEF IInv, TypeOK, RowType, NoLease
  <2>2. nonce[j].ttl \in Int
    <3>1. nonce[j] \in [state : {"none", "live", "used"}, ttl : (-SweepGrace - 1)..NonceTtl]
      BY DEF IInv, TypeOK
    <3> QED BY <3>1, BoundsAssumption DEF NonceTtl
  <2>3. nonce[j].ttl >= row[j].lease + HardGrace + NonceSlack
    BY DEF LaneInv, NonceInv, HoldsLease
  <2> QED BY <2>1, <2>2, <2>3, BoundsAssumption DEF pastHardGrace
<1> QED BY <1>1, Invariant, LaneInvariant, PTL

\* What any step does to the rows, for the action properties.
LEMMA LanesHold == IInv /\ LaneInv /\ Next => Lanes
BY LaneStep, TickLanes DEF LaneInv, IInv

\* Work of a retired certificate that has not started never starts, not even where
\* retirement skipped its locked row.
THEOREM RetiredStaysUnstarted == Spec => RetiredWorkNeverStarts
<1> DEFINE Stays == \A j \in Jobs : ended[j] /\ row[j].status \in Undispatched =>
                                      row'[j].status \notin InFlight
<1>1. IInv /\ LaneInv /\ [Next]_vars => [Stays]_vars
  <2>1. ASSUME IInv, LaneInv, Next PROVE Stays
    BY <2>1, LanesHold DEF Lanes, Retires
  <2> QED BY <2>1
<1> QED BY <1>1, Invariant, LaneInvariant, PTL DEF Spec, RetiredWorkNeverStarts

\* A started real job of a retired certificate does not change its status without
\* being flagged for a person.
THEOREM OverlapFlagged == Spec => RetirementOverlapFlagged
<1> DEFINE Flagged == \A j \in Jobs :
                        /\ ended[j] /\ row[j].status \in InFlight /\ row[j].mode = "real"
                        /\ row'[j].status # row[j].status
                        => row'[j].recon
<1>1. IInv /\ LaneInv /\ [Next]_vars => [Flagged]_vars
  <2>1. ASSUME IInv, LaneInv, Next PROVE Flagged
    BY <2>1, LanesHold DEF Lanes, Retires
  <2> QED BY <2>1
<1> QED BY <1>1, Invariant, LaneInvariant, PTL DEF Spec, RetirementOverlapFlagged

\* A claim with a live lease is neither granted again nor given to another agent.
THEOREM LeasesExclusive == Spec => LiveLeaseIsExclusive
<1> DEFINE Exclusive ==
             \A j \in Jobs :
               row[j].status \in InFlight /\ leaseLive(row[j]) /\ row[j].owner # NoAgent
                 => row'[j].owner \in {row[j].owner, NoAgent} /\ row'[j].claim \in {row[j].claim, 0}
<1>1. IInv /\ LaneInv /\ [Next]_vars => [Exclusive]_vars
  <2>1. ASSUME IInv, LaneInv, Next PROVE Exclusive
    BY <2>1, LanesHold DEF Lanes, Keeps
  <2> QED BY <2>1
<1> QED BY <1>1, Invariant, LaneInvariant, PTL DEF Spec, LiveLeaseIsExclusive
(***************************************************************************)
(* The contract of a job                                                   *)
(***************************************************************************)
\* The contract's state, as JobContract is given it.
Phases == [j \in Jobs |-> phaseOf(row[j])]
Holders == [j \in Jobs |-> row[j].owner]
Flags == [j \in Jobs |-> row[j].recon]
DoersOf(j) == {e.agent : e \in {f \in effects : f.job = j}}
Doers == [j \in Jobs |-> DoersOf(j)]

\* No step but mutate changes the world.
LEMMA EffectsStay ==
  ASSUME Next, \A a \in Agents : ~mutate(a)
  PROVE  effects' = effects
<1>1. ASSUME NEW j \in Jobs, JobNext(j) PROVE effects' = effects
  BY <1>1 DEF JobNext, createCertificateJob, approveJob, rejectJob, driftPayload,
     cancelUndispatchedJobs, certops_close_management_work, replayLifecycleGuards,
     ingestExecutorEvent, sweepExpiredNonces
<1>2. ASSUME NEW a \in Agents, AgentNext(a) PROVE effects' = effects
  <2>1. ASSUME NEW j \in Jobs, ClaimNext(a, j) PROVE effects' = effects
    BY <2>1 DEF ClaimNext, claimRejectsTrustJob, invalidateApprovalForClaim,
       claimBlocksDeployJob, claimJobs, deliverLateRenewal
  <2>2. ASSUME NEW r \in outbox[a], ResultNext(a, r) PROVE effects' = effects
    BY <2>2 DEF ResultNext, ingestResult, acknowledgeDuplicate, quarantine, giveUpOnResult
  <2>3. ASSUME NEW outcome \in RESULT_STATUSES, persistOutcome(a, outcome)
        PROVE  effects' = effects
    BY <2>3 DEF persistOutcome
  <2>4. ASSUME NEW force \in BOOLEAN, retireAgent(a, force) PROVE effects' = effects
    BY <2>4 DEF retireAgent
  <2>5. CASE \/ recordHeartbeat(a) \/ dropUnverifiedJob(a) \/ reportJobRejection(a)
             \/ confirmLease(a) \/ abortBeforeExecution(a) \/ renewWhileExecuting(a)
             \/ abortWhileExecuting(a) \/ markMutation(a) \/ clearJournalOnTerminal(a)
             \/ crash(a) \/ sweepStaleAgents(a) \/ goSilent(a)
    BY <2>5 DEF recordHeartbeat, dropUnverifiedJob, reportJobRejection, confirmLease,
       abortBeforeExecution, renewWhileExecuting, abortWhileExecuting, markMutation,
       clearJournalOnTerminal, crash, sweepStaleAgents, goSilent, reportWithoutExecuting
  <2> QED BY <1>2, <2>1, <2>2, <2>3, <2>4, <2>5 DEF AgentNext
<1>3. ASSUME \/ \E S \in SUBSET Jobs : reapExpiredLeases(S)
             \/ \E p \in BOOLEAN : setWorkspacePaused(p)
             \/ tick
      PROVE  effects' = effects
  BY <1>3 DEF reapExpiredLeases, setWorkspacePaused, tick
<1> QED BY <1>1, <1>2, <1>3 DEF Next

\* The phases of a row, by its status.
LEMMA PhaseOf ==
  ASSUME NEW r \in RowType
  PROVE  /\ phaseOf(r) = "absent" <=> r.status = "absent"
         /\ phaseOf(r) = "open" <=> r.status \in {"pending_approval", "pending", "claimed"}
         /\ phaseOf(r) = "started" <=> r.status = "running"
         /\ phaseOf(r) = "ended" <=> r.status \in TERMINAL_JOB_STATUSES
         /\ phaseOf(r) \in {"absent", "open", "started", "ended"}
BY Statuses DEF phaseOf, RowType, Undispatched, TERMINAL_JOB_STATUSES

\* A step that is not a side effect, for one job.
LEMMA ManagedJob ==
  ASSUME IInv, LaneInv, RowsGood, Lanes, NEW j \in Jobs
  PROVE  LET p == phaseOf(row[j])
             q == phaseOf(row'[j])
         IN /\ \/ p = "open" /\ q = "open"
               \/ p = "absent" /\ q = "open"
               \/ p = "open" /\ q = "started"
               \/ p \in {"open", "started"} /\ q = "ended"
               \/ p # "open" /\ q = p
            /\ p = "started" \/ DoersOf(j) # {} => row'[j].owner = row[j].owner \/ row'[j].recon
            /\ row[j].recon => row'[j].recon
<1>1. /\ row[j] \in RowType /\ row'[j] \in RowType
      /\ Evolves(row[j], row'[j]) /\ Keeps(row[j], row'[j])
  BY DEF IInv, TypeOK, RowsGood, Good, Lanes
<1>2. row[j].recon => row[j].status # "absent"
  BY DEF LaneInv, EndedInv
<1>3. DoersOf(j) # {} => row[j].status \in EffectStatuses
  BY DEF DoersOf, IInv, EffectInv, Started
<1>4. row[j].status \in EffectStatuses => row'[j].owner = row[j].owner \/ row'[j].recon
  BY <1>1 DEF Evolves
<1>5. row[j].status = "running" => row[j].status \in EffectStatuses
  BY Statuses
<1>6. row[j].recon => row'[j].recon
  BY <1>1, <1>2 DEF Keeps
<1>7. /\ row[j].status = "absent" => row'[j].status \in {"absent", "pending_approval", "pending"}
      /\ row[j].status \in {"pending_approval", "pending", "claimed"} => row'[j].status # "absent"
      /\ row[j].status = "running" => row'[j].status = "running"
                                        \/ row'[j].status \in TERMINAL_JOB_STATUSES
      /\ row[j].status \in TERMINAL_JOB_STATUSES => row'[j].status = row[j].status
  BY <1>1, Statuses DEF Evolves, Keeps, Undispatched, EffectStatuses, RESULT_STATUSES
<1> QED BY <1>1, <1>3, <1>4, <1>5, <1>6, <1>7, PhaseOf

\* Every step of the code is one of the contract's: a side effect is CarryOut, and
\* everything else is Manage.
LEMMA ContractStep ==
  ASSUME IInv, LaneInv, Next
  PROVE  Contract!Next
<1>1. ASSUME \A a \in Agents : ~mutate(a)
      PROVE  Contract!Manage
  <2>1. RowsGood /\ Lanes /\ effects' = effects
    BY <1>1, RowStep, LanesHold, EffectsStay DEF IInv
  <2>2. Doers' = Doers
    BY <2>1 DEF Doers, DoersOf
  <2>3. \A j \in Jobs : /\ Phases[j] = phaseOf(row[j]) /\ Phases'[j] = phaseOf(row'[j])
                        /\ Holders[j] = row[j].owner /\ Holders'[j] = row'[j].owner
                        /\ Flags[j] = row[j].recon /\ Flags'[j] = row'[j].recon
                        /\ Doers[j] = DoersOf(j)
    BY DEF Phases, Holders, Flags, Doers
  <2>4. \A j \in Jobs :
          /\ \/ Phases[j] = "open" /\ Phases'[j] = "open"
             \/ Phases[j] = "absent" /\ Phases'[j] = "open"
             \/ Phases[j] = "open" /\ Phases'[j] = "started"
             \/ Phases[j] \in {"open", "started"} /\ Phases'[j] = "ended"
             \/ Phases[j] # "open" /\ Phases'[j] = Phases[j]
          /\ Phases[j] = "started" \/ Doers[j] # {} => Holders'[j] = Holders[j] \/ Flags'[j]
          /\ Flags[j] => Flags'[j]
    BY <2>1, <2>3, ManagedJob
  <2> QED
    BY <2>2, <2>4 DEF Contract!Manage, Contract!Reoffer, Contract!Request, Contract!Start,
       Contract!End, Contract!Stay, Contract!Attributed, Phases, Holders, Flags, Doers, DoersOf
<1>2. ASSUME NEW a \in Agents, mutate(a)
      PROVE  \E j \in Jobs : Contract!CarryOut(j, a)
  <2>1. PICK j : j = agent[a].job
    OBVIOUS
  <2>2. /\ agent[a].phase = "executing" /\ row' = row
        /\ effects' = effects \cup {effect(a)} /\ effect(a).agent = a /\ effect(a).job = j
    BY <1>2, <2>1 DEF mutate, effect
  <2>3. /\ j \in Jobs /\ Started(a, j, agent[a].claim)
        /\ row[j].status = "running" \/ row[j].recon
        /\ \A f \in effects : f.job = j => f.agent = a
    <3>1. j \in Jobs /\ Started(a, j, agent[a].claim)
      BY <2>1, <2>2 DEF IInv, HolderInv
    <3>2. row[j].status = "running" \/ row[j].recon
      BY <2>1, <2>2 DEF LaneInv, SupervisedInv
    <3>3. ASSUME NEW f \in effects, f.job = j PROVE f.agent = a
      <4>1. Started(f.agent, f.job, f.claim)
        BY DEF IInv, EffectInv
      <4>2. f.claim = agent[a].claim
        BY <3>1, <3>3, <4>1 DEF Started
      <4> QED BY <1>2, <2>1, <2>2, <3>3, <4>2 DEF IInv, EffectInv
    <3> QED BY <3>1, <3>2, <3>3
  <2>4. /\ \/ phaseOf(row[j]) = "started" /\ row[j].owner = a
           \/ phaseOf(row[j]) \in {"started", "ended"} /\ row[j].recon
    <3>1. row[j] \in RowType
      BY <2>3 DEF IInv, TypeOK
    <3>2. row[j].status \in EffectStatuses /\ (row[j].recon \/ row[j].owner = a)
      BY <2>3 DEF Started
    <3>3. phaseOf(row[j]) \in {"started", "ended"}
      BY <3>1, <3>2, Statuses, PhaseOf DEF TERMINAL_JOB_STATUSES
    <3> QED BY <3>1, <3>2, <3>3, <2>3, PhaseOf
  <2>5. DoersOf(j) \subseteq {a} /\ DoersOf(j)' = {a}
    BY <2>2, <2>3 DEF DoersOf
  <2>6. \A i \in Jobs : i # j => DoersOf(i)' = DoersOf(i)
    BY <2>2 DEF DoersOf
  <2>7. Doers' = [Doers EXCEPT ![j] = {a}]
    BY <2>3, <2>5, <2>6 DEF Doers
  <2>8. UNCHANGED <<Phases, Holders, Flags>>
    BY <2>2 DEF Phases, Holders, Flags
  <2>9. /\ \/ Phases[j] = "started" /\ Holders[j] = a
           \/ Phases[j] \in {"started", "ended"} /\ Flags[j]
        /\ Doers[j] \subseteq {a}
    BY <2>3, <2>4, <2>5 DEF Phases, Holders, Flags, Doers
  <2>10. Contract!CarryOut(j, a)
    BY <2>7, <2>8, <2>9 DEF Contract!CarryOut, Phases, Holders, Flags, Doers, DoersOf
  <2> QED BY <2>3, <2>10
<1> QED BY <1>1, <1>2 DEF Contract!Next

\* The job table, the claims and leases, the agents with their journals and results,
\* their crashes and late messages implement the contract of a job.
THEOREM ContractImplemented == Spec => ImplementsContract
<1>1. Init => Contract!Init
  BY DEF Init, Contract!Init, Absent, phaseOf
<1>2. IInv /\ LaneInv /\ [Next]_vars => [Contract!Next]_(Contract!vars)
  <2>1. ASSUME IInv, LaneInv, Next PROVE [Contract!Next]_(Contract!vars)
    BY <2>1, ContractStep
  <2>2. ASSUME UNCHANGED vars PROVE UNCHANGED Contract!vars
    BY <2>2 DEF vars, Contract!vars
  <2> QED BY <2>1, <2>2
<1> QED BY <1>1, <1>2, Invariant, LaneInvariant, PTL DEF Spec, ImplementsContract, Contract!Spec
=============================================================================
