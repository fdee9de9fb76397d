------------------------- MODULE CertOpsJobs_proof -------------------------
(***************************************************************************)
(* Proofs about CertOpsJobs, for every set of jobs and agents, every       *)
(* retry budget, and all lease, grace and nonce times.                     *)
(*                                                                         *)
(* The invariant that carries them is IInv.  Most actions only write rows, *)
(* and Evolves says what such a write may do to a row that an agent, a     *)
(* journal entry or a side effect refers to; the step lemma QuietStep then *)
(* needs nothing but Evolves.  The steps that create such references       *)
(* (claimJobs, markMutation, mutate) have lemmas of their own.             *)
(***************************************************************************)
EXTENDS CertOpsJobs, TLAPS

\* What a step may make of a stored row r.
Evolves(r, s) ==
  /\ r.status # "absent" =>
       s.status # "absent" /\ s.mode = r.mode /\ s.attempts >= r.attempts
  /\ r.status \in TERMINAL_JOB_STATUSES => s.status = r.status
  /\ r.status \in EffectStatuses =>
       /\ s.status \in EffectStatuses
       /\ s.attempts = r.attempts
       /\ r.recon => s.recon
       /\ s.recon \/ (s.owner = r.owner /\ s.claim = r.claim)

\* A row that may be written over row j.
Good(j, new) ==
  new \in RowType /\ RowOK(new, gated'[j], ledger'[j]) /\ Evolves(row[j], new)

\* The statuses, spelled out for the provers.
LEMMA Statuses ==
  /\ JOB_STATUSES = {"pending_approval", "pending", "claimed", "running",
                     "succeeded", "failed", "rejected", "blocked", "cancelled",
                     "dry_run_complete", "orphaned_unknown_effect"}
  /\ EffectStatuses = {"running", "succeeded", "failed", "rejected", "blocked",
                       "dry_run_complete", "orphaned_unknown_effect"}
BY DEF JOB_STATUSES, EffectStatuses, RESULT_STATUSES, TERMINAL_JOB_STATUSES,
       Undispatched, InFlight

\* The values the handlers write into a row's columns have the columns' types.
LEMMA Columns ==
  /\ \A s \in {"pending_approval", "pending", "claimed", "running", "succeeded",
               "failed", "rejected", "blocked", "cancelled", "dry_run_complete",
               "orphaned_unknown_effect"} : s \in JOB_STATUSES \cup {"absent"}
  /\ NoLease \in (-HardGrace - 1)..NoLease
  /\ Lease \in (-HardGrace - 1)..NoLease
  /\ 0 \in (-HardGrace - 1)..NoLease
  /\ 0 \in 0..MaxAttempts
BY Statuses, BoundsAssumption DEF NoLease

\* Whatever the lifecycle triggers make of a good row is a good row.
LEMMA StoredGood ==
  ASSUME TypeOK, NEW j \in Jobs, NEW new, Good(j, new), new.status # "absent"
  PROVE  Good(j, Stored(j, new))
<1>1. row[j] \in RowType
  BY DEF TypeOK
<1>f. ASSUME NEW n, Good(j, n)
      PROVE  Good(j, [n EXCEPT !.recon = TRUE])
  <2> DEFINE m == [n EXCEPT !.recon = TRUE]
  <2>1. n \in RowType
    BY <1>f DEF Good
  <2>2. m \in RowType
    BY <2>1 DEF RowType
  <2>4. Evolves(row[j], m)
    BY <1>1, <2>1, <1>f DEF Good, Evolves, RowType
  <2>5. RowOK(n, gated'[j], ledger'[j])
    BY <1>f DEF Good
  <2>3. RowOK(m, gated'[j], ledger'[j])
    BY <2>1, <2>5 DEF RowOK, RowType
  <2> QED BY <2>2, <2>3, <2>4 DEF Good
<1>2. Good(j, certops_guard_job_identity_start(row[j], new))
  BY <1>f DEF certops_guard_job_identity_start
<1>3. ASSUME NEW n, Good(j, n), n.status # "absent"
      PROVE  Good(j, certops_guard_management_job_claim(row[j], n))
  <2>1. CASE certops_guard_management_job_claim(row[j], n) = n
    BY <2>1, <1>3
  <2>2. CASE certops_guard_management_job_claim(row[j], n) = [n EXCEPT !.recon = TRUE]
    BY <2>2, <1>f, <1>3
  <2>3. CASE /\ n.status \in Undispatched \cup InFlight
             /\ ~(row[j].status \in InFlight /\ n.status \in InFlight)
             /\ certops_guard_management_job_claim(row[j], n) =
                  [n EXCEPT !.status = "cancelled", !.owner = NoAgent, !.claim = 0,
                            !.lease = NoLease, !.renewed = FALSE,
                            !.attempts = row[j].attempts]
    <3> DEFINE m == [n EXCEPT !.status = "cancelled", !.owner = NoAgent, !.claim = 0,
                              !.lease = NoLease, !.renewed = FALSE,
                              !.attempts = row[j].attempts]
    <3>0. n \in RowType /\ RowOK(n, gated'[j], ledger'[j])
      BY <1>3 DEF Good
    <3>1. row[j].status \notin EffectStatuses /\ row[j].status \notin TERMINAL_JOB_STATUSES
      BY <2>3, <1>1, <1>3, Statuses DEF Good, Evolves, Undispatched, InFlight, TERMINAL_JOB_STATUSES, RowType
    <3>2. m \in RowType
      BY <3>0, <1>1, Columns DEF RowType
    <3>3. RowOK(m, gated'[j], ledger'[j])
      BY <3>0, <1>1, <1>3, BoundsAssumption
         DEF RowOK, RowType, Undispatched, InFlight, TERMINAL_JOB_STATUSES
    <3>4. Evolves(row[j], m)
      BY <3>1, <1>1, <1>3 DEF Good, Evolves, RowType
    <3> QED BY <3>2, <3>3, <3>4, <2>3 DEF Good
  <2> QED
    BY <2>1, <2>2, <2>3 DEF certops_guard_management_job_claim
<1>4. certops_guard_job_identity_start(row[j], new).status = new.status
  BY DEF certops_guard_job_identity_start, Good, RowType
<1> QED
  BY <1>2, <1>3, <1>4 DEF Stored

(***************************************************************************)
(* Rows                                                                    *)
(***************************************************************************)
\* Every row evolves into a good row, and what was approved stays approved.
RowsGood ==
  /\ row' \in [Jobs -> RowType]
  /\ \A j \in Jobs : /\ Good(j, row'[j])
                     /\ row[j].status # "absent" => gated'[j] = gated[j]
                     /\ ledger[j] \subseteq ledger'[j]

\* What RowStep knows of row j before the step.
LEMMA RowFacts ==
  ASSUME TypeOK, RowInv, NEW j \in Jobs
  PROVE  row[j] \in RowType /\ RowOK(row[j], gated[j], ledger[j])
BY DEF TypeOK, RowInv

\* A row that is not written is still good.
LEMMA SameGood ==
  ASSUME TypeOK, RowInv, NEW j \in Jobs,
         gated'[j] = gated[j], ledger'[j] = ledger[j]
  PROVE  Good(j, row[j])
<1>1. row[j] \in RowType /\ RowOK(row[j], gated[j], ledger[j])
  BY RowFacts
<1>2. Evolves(row[j], row[j])
  BY <1>1 DEF Evolves, RowType
<1> QED BY <1>1, <1>2 DEF Good

\* A handler that writes one row, and leaves the approvals alone.
LEMMA WriteGood ==
  ASSUME TypeOK, RowInv, NEW j \in Jobs, NEW new,
         Good(j, new), new.status # "absent", Write(j, new),
         UNCHANGED <<gated, ledger>>
  PROVE  RowsGood
<1>1. Good(j, Stored(j, new))
  BY StoredGood
<1>2. row \in [Jobs -> RowType]
  BY DEF TypeOK
<1>3. Stored(j, new) \in RowType
  BY <1>1 DEF Good
<1>4. row' \in [Jobs -> RowType] /\ row'[j] = Stored(j, new)
  BY <1>2, <1>3 DEF Write
<1>5. \A i \in Jobs : i # j => row'[i] = row[i]
  BY <1>2 DEF Write
<1>6. \A i \in Jobs : Good(i, row'[i])
  BY <1>1, <1>4, <1>5, SameGood
<1> QED BY <1>4, <1>6 DEF RowsGood

\* Rows and approvals are not touched.
LEMMA UntouchedGood ==
  ASSUME TypeOK, RowInv, UNCHANGED <<row, gated, ledger>>
  PROVE  RowsGood
<1>1. \A i \in Jobs : Good(i, row[i])
  BY SameGood
<1> QED BY <1>1 DEF RowsGood, TypeOK

\* A write of the status alone.
LEMMA StatusGood ==
  ASSUME TypeOK, RowInv, NEW j \in Jobs, NEW s,
         s \in JOB_STATUSES \ Undispatched,
         row[j].status \notin TERMINAL_JOB_STATUSES,
         row[j].status = "running" => s \in EffectStatuses,
         row[j].renewed => s \in {"running"} \cup TERMINAL_JOB_STATUSES,
         row[j].status \in Undispatched \cup InFlight,
         s \in InFlight => row[j].status # "pending_approval",
         UNCHANGED <<gated, ledger>>
  PROVE  Good(j, [row[j] EXCEPT !.status = s])
<1> DEFINE new == [row[j] EXCEPT !.status = s]
<1>1. row[j] \in RowType /\ RowOK(row[j], gated[j], ledger[j])
  BY RowFacts
<1>2. new \in RowType
  BY <1>1 DEF RowType
<1>3. RowOK(new, gated'[j], ledger'[j])
  BY <1>1, Statuses DEF RowOK, RowType, Undispatched, InFlight, TERMINAL_JOB_STATUSES
<1>4. Evolves(row[j], new)
  BY <1>1, Statuses DEF Evolves, RowType, Undispatched, InFlight, TERMINAL_JOB_STATUSES
<1> QED BY <1>2, <1>3, <1>4 DEF Good

\* A new job: its approval flag is set with it.
LEMMA CreateRows ==
  ASSUME TypeOK, RowInv, NEW j \in Jobs, NEW op \in Operations, NEW mode \in Modes,
         NEW v \in Versions, NEW g \in BOOLEAN, createCertificateJob(j, op, mode, v, g)
  PROVE  RowsGood
<1> DEFINE new == [Absent EXCEPT
                     !.status = IF g THEN "pending_approval" ELSE "pending",
                     !.operation = op, !.mode = mode, !.payload = v]
<1>1. row[j].status = "absent" /\ row \in [Jobs -> RowType]
  BY DEF createCertificateJob, TypeOK
<1>2. new \in RowType /\ new.status # "absent"
  BY Columns DEF RowType, Absent
<1>3. gated'[j] = g /\ ledger'[j] = ledger[j]
  BY DEF createCertificateJob, TypeOK
<1>4. RowOK(new, gated'[j], ledger'[j])
  BY <1>3, BoundsAssumption DEF RowOK, Absent, Undispatched, InFlight, TERMINAL_JOB_STATUSES
<1>5. Evolves(row[j], new)
  BY <1>1, Statuses DEF Evolves, TERMINAL_JOB_STATUSES
<1>6. Good(j, Stored(j, new))
  BY <1>2, <1>4, <1>5, StoredGood DEF Good
<1>7. row' = [row EXCEPT ![j] = Stored(j, new)]
  BY DEF createCertificateJob, Write
<1>8. \A i \in Jobs : i # j => row'[i] = row[i] /\ gated'[i] = gated[i]
  BY <1>1, <1>7 DEF createCertificateJob, TypeOK
<1>9. ledger' = ledger
  BY DEF createCertificateJob
<1>10. \A i \in Jobs : Good(i, row'[i])
  BY <1>1, <1>6, <1>7, <1>8, <1>9, SameGood
<1>11. row' \in [Jobs -> RowType]
  BY <1>1, <1>6, <1>7 DEF Good
<1> QED BY <1>1, <1>8, <1>9, <1>10, <1>11 DEF RowsGood

\* An approval adds the version it approves to the ledger.
LEMMA ApproveRows ==
  ASSUME TypeOK, RowInv, NEW j \in Jobs, approveJob(j)
  PROVE  RowsGood
<1> DEFINE new == [row[j] EXCEPT !.status = "pending", !.approved = row[j].payload]
<1>1. row[j] \in RowType /\ RowOK(row[j], gated[j], ledger[j])
  BY RowFacts
<1>2. row[j].status = "pending_approval" /\ row \in [Jobs -> RowType]
  BY DEF approveJob, TypeOK
<1>3. new \in RowType
  BY <1>1, Columns DEF RowType
<1>4. gated' = gated /\ ledger'[j] = ledger[j] \cup {row[j].payload}
  BY DEF approveJob, TypeOK
<1>5. RowOK(new, gated'[j], ledger'[j])
  BY <1>1, <1>2, <1>4 DEF RowOK, RowType, Undispatched, InFlight, TERMINAL_JOB_STATUSES
<1>6. Evolves(row[j], new)
  BY <1>1, <1>2, Statuses DEF Evolves, RowType, TERMINAL_JOB_STATUSES
<1>7. new.status # "absent"
  BY <1>1 DEF RowType
<1>8. Good(j, Stored(j, new))
  BY <1>3, <1>5, <1>6, <1>7, StoredGood DEF Good
<1>9. row' = [row EXCEPT ![j] = Stored(j, new)]
  BY DEF approveJob, Write
<1>10. \A i \in Jobs : i # j => row'[i] = row[i] /\ ledger'[i] = ledger[i]
  BY <1>2, <1>9 DEF approveJob, TypeOK
<1>11. \A i \in Jobs : Good(i, row'[i])
  BY <1>2, <1>4, <1>8, <1>9, <1>10, SameGood
<1>12. row' \in [Jobs -> RowType]
  BY <1>2, <1>8, <1>9 DEF Good
<1>13. \A i \in Jobs : ledger[i] \subseteq ledger'[i]
  BY <1>4, <1>10
<1> QED BY <1>4, <1>11, <1>12, <1>13 DEF RowsGood

\* A drifted payload leaves the approved version where it was.
LEMMA DriftRows ==
  ASSUME TypeOK, RowInv, NEW j \in Jobs, NEW v \in Versions, driftPayload(j, v)
  PROVE  RowsGood
<1> DEFINE new == [row[j] EXCEPT !.payload = v]
<1>1. row[j] \in RowType /\ RowOK(row[j], gated[j], ledger[j])
  BY RowFacts
<1>2. row[j].status \in Undispatched \cup {"claimed"} /\ UNCHANGED <<gated, ledger>>
  BY DEF driftPayload
<1>3. new \in RowType /\ new.status # "absent"
  BY <1>1, <1>2 DEF RowType, Undispatched
<1>4. RowOK(new, gated'[j], ledger'[j])
  BY <1>1, <1>2 DEF RowOK, RowType
<1>5. Evolves(row[j], new)
  BY <1>1, <1>2 DEF Evolves, RowType
<1>6. Good(j, new)
  BY <1>3, <1>4, <1>5 DEF Good
<1>7. Write(j, new)
  BY DEF driftPayload
<1> QED BY <1>2, <1>3, <1>6, <1>7, WriteGood

\* Retirement of a certificate and the replay of its guards.
LEMMA RetiredGood ==
  ASSUME TypeOK, RowInv, NEW j \in Jobs, UNCHANGED <<gated, ledger>>
  PROVE  /\ Good(j, retired(row[j]))
         /\ row[j].status \in Undispatched =>
              Good(j, [retired(row[j]) EXCEPT !.owner = NoAgent, !.claim = 0,
                                              !.lease = NoLease, !.renewed = FALSE])
<1>1. row[j] \in RowType /\ RowOK(row[j], gated[j], ledger[j])
  BY RowFacts
<1>2. CASE row[j].status \in Undispatched
  <2> DEFINE m == [row[j] EXCEPT !.status = "cancelled"]
             n == [m EXCEPT !.owner = NoAgent, !.claim = 0,
                            !.lease = NoLease, !.renewed = FALSE]
  <2>1. retired(row[j]) = m
    BY <1>2 DEF retired
  <2>2. m \in RowType
    BY <1>1, Columns DEF RowType
  <2>3. n \in RowType
    BY <1>1, Columns DEF RowType
  <2>4. RowOK(m, gated'[j], ledger'[j])
    BY <1>1, <1>2 DEF RowOK, RowType, Undispatched, InFlight, TERMINAL_JOB_STATUSES
  <2>5. RowOK(n, gated'[j], ledger'[j])
    BY <1>1, <1>2 DEF RowOK, RowType, Undispatched, InFlight, TERMINAL_JOB_STATUSES
  <2>6. Evolves(row[j], m)
    BY <1>1, <1>2, Statuses DEF Evolves, RowType, Undispatched, TERMINAL_JOB_STATUSES
  <2>7. Evolves(row[j], n)
    BY <1>1, <1>2, Statuses DEF Evolves, RowType, Undispatched, TERMINAL_JOB_STATUSES
  <2> QED BY <2>1, <2>2, <2>3, <2>4, <2>5, <2>6, <2>7 DEF Good
<1>3. CASE row[j].status \notin Undispatched /\ retired(row[j]) = [row[j] EXCEPT !.recon = TRUE]
  <2> DEFINE m == [row[j] EXCEPT !.recon = TRUE]
  <2>1. m \in RowType
    BY <1>1 DEF RowType
  <2>2. RowOK(m, gated'[j], ledger'[j])
    BY <1>1 DEF RowOK, RowType
  <2>3. Evolves(row[j], m)
    BY <1>1 DEF Evolves, RowType
  <2> QED BY <1>3, <2>1, <2>2, <2>3 DEF Good
<1>4. CASE row[j].status \notin Undispatched /\ retired(row[j]) = row[j]
  BY <1>4, SameGood
<1> QED BY <1>2, <1>3, <1>4 DEF retired

\* Closing a management period, and the replay at startup, keep every row good.
LEMMA RetireRows ==
  ASSUME TypeOK, RowInv, NEW j \in Jobs, NEW skipped \in BOOLEAN,
         certops_close_management_work(j, skipped) \/ replayLifecycleGuards(j)
  PROVE  RowsGood
<1> DEFINE released == [retired(row[j]) EXCEPT !.owner = NoAgent, !.claim = 0,
                                               !.lease = NoLease, !.renewed = FALSE]
<1>1. row \in [Jobs -> RowType] /\ UNCHANGED <<gated, ledger>>
  BY DEF TypeOK, certops_close_management_work, replayLifecycleGuards
<1>2. PICK new : /\ row' = [row EXCEPT ![j] = new]
                 /\ \/ new = row[j]
                    \/ new = retired(row[j])
                    \/ row[j].status \in Undispatched /\ new = released
  <2>1. CASE certops_close_management_work(j, skipped)
    <3>1. row = [row EXCEPT ![j] = row[j]]
      BY <1>1
    <3> QED BY <2>1, <3>1 DEF certops_close_management_work
  <2>2. CASE replayLifecycleGuards(j)
    BY <2>2 DEF replayLifecycleGuards
  <2> QED BY <2>1, <2>2
<1>3. Good(j, new)
  BY <1>1, <1>2, RetiredGood, SameGood
<1>4. row' \in [Jobs -> RowType]
  BY <1>1, <1>2, <1>3 DEF Good
<1>5. \A i \in Jobs : Good(i, row'[i])
  BY <1>1, <1>2, <1>3, SameGood
<1> QED BY <1>1, <1>4, <1>5 DEF RowsGood

\* Rejection and cancellation by people, and progress from the executor lane.
LEMMA StatusRows ==
  ASSUME TypeOK, RowInv, NEW j \in Jobs, NEW s \in JOB_STATUS_BY_EVENT_TYPE,
         rejectJob(j) \/ cancelUndispatchedJobs(j) \/ ingestExecutorEvent(j, s)
  PROVE  RowsGood
<1>1. row[j] \in RowType /\ RowOK(row[j], gated[j], ledger[j])
  BY RowFacts
<1>2. UNCHANGED <<gated, ledger>>
  BY DEF rejectJob, cancelUndispatchedJobs, ingestExecutorEvent
<1>3. PICK t \in JOB_STATUSES \ Undispatched :
        /\ Write(j, [row[j] EXCEPT !.status = t])
        /\ row[j].status \in Undispatched \cup InFlight
        /\ row[j].status = "running" => t \in EffectStatuses
        /\ row[j].renewed => t \in {"running"} \cup TERMINAL_JOB_STATUSES
        /\ t \in InFlight => row[j].status # "pending_approval"
  <2>1. CASE rejectJob(j)
    BY <2>1, <1>1, Statuses DEF rejectJob, RowOK, RowType, Undispatched, InFlight,
       TERMINAL_JOB_STATUSES
  <2>2. CASE cancelUndispatchedJobs(j)
    BY <2>2, <1>1, Statuses DEF cancelUndispatchedJobs, RowOK, RowType,
       Undispatched, InFlight, TERMINAL_JOB_STATUSES
  <2>3. CASE ingestExecutorEvent(j, s)
    <3>1. row[j].status \in JOB_STATUSES /\ s \in JOB_STATUS_TRANSITIONS[row[j].status]
      BY <2>3, <1>1 DEF ingestExecutorEvent, RowType
    <3>2. CASE row[j].status = "pending_approval"
      BY <3>1, <3>2, <2>3, <1>1, Statuses DEF JOB_STATUS_TRANSITIONS, ingestExecutorEvent,
         JOB_STATUS_BY_EVENT_TYPE, RowOK, RowType, Undispatched, InFlight, TERMINAL_JOB_STATUSES
    <3>3. CASE row[j].status = "pending"
      BY <3>1, <3>3, <2>3, <1>1, Statuses DEF JOB_STATUS_TRANSITIONS, ingestExecutorEvent,
         JOB_STATUS_BY_EVENT_TYPE, RowOK, RowType, Undispatched, InFlight, TERMINAL_JOB_STATUSES
    <3>4. CASE row[j].status = "claimed"
      BY <3>1, <3>4, <2>3, <1>1, Statuses DEF JOB_STATUS_TRANSITIONS, ingestExecutorEvent,
         JOB_STATUS_BY_EVENT_TYPE, RowOK, RowType, Undispatched, InFlight, TERMINAL_JOB_STATUSES
    <3>5. CASE row[j].status = "running"
      BY <3>1, <3>5, <2>3, <1>1, Statuses DEF JOB_STATUS_TRANSITIONS, ingestExecutorEvent,
         JOB_STATUS_BY_EVENT_TYPE, RowOK, RowType, Undispatched, InFlight, TERMINAL_JOB_STATUSES
    <3>6. CASE row[j].status \in TERMINAL_JOB_STATUSES
      BY <3>1, <3>6 DEF JOB_STATUS_TRANSITIONS, TERMINAL_JOB_STATUSES
    <3> QED BY <3>1, <3>2, <3>3, <3>4, <3>5, <3>6 DEF JOB_STATUSES, Undispatched, InFlight
  <2> QED BY <2>1, <2>2, <2>3
<1> DEFINE new == [row[j] EXCEPT !.status = t]
<1>4. row[j].status \notin TERMINAL_JOB_STATUSES
  BY <1>3 DEF Undispatched, InFlight, TERMINAL_JOB_STATUSES
<1>5. Good(j, new)
  BY <1>2, <1>3, <1>4, StatusGood
<1>6. new.status # "absent"
  BY <1>1, <1>3, Statuses DEF RowType
<1> QED BY <1>2, <1>3, <1>5, <1>6, WriteGood

\* A claimable job has not started, may be claimed once more, and its certificate
\* is not retired.
LEMMA Claimable ==
  ASSUME TypeOK, RowInv, NEW a \in Agents, NEW j \in Jobs, claimable(a, j)
  PROVE  /\ row[j].status \in {"pending", "claimed"}
         /\ row[j].attempts < MaxAttempts
         /\ ~row[j].renewed
         /\ \A new : Stored(j, new) = new
<1>1. row[j] \in RowType /\ RowOK(row[j], gated[j], ledger[j])
  BY RowFacts
<1> QED
  BY <1>1 DEF claimable, reclaimable, RowOK, RowType, Stored, Undispatched,
              InFlight, TERMINAL_JOB_STATUSES

\* A poll that ends the job, or voids its approval, instead of granting it.
LEMMA RefusedClaimRows ==
  ASSUME TypeOK, RowInv, NEW a \in Agents, NEW j \in Jobs,
         \/ claimRejectsTrustJob(a, j)
         \/ invalidateApprovalForClaim(a, j)
         \/ claimBlocksDeployJob(a, j)
  PROVE  RowsGood
<1>1. row[j] \in RowType /\ RowOK(row[j], gated[j], ledger[j])
  BY RowFacts
<1>2. claimable(a, j) /\ UNCHANGED <<gated, ledger>>
  BY DEF claimRejectsTrustJob, invalidateApprovalForClaim, claimBlocksDeployJob
<1>3. row[j].status \in {"pending", "claimed"} /\ row[j].attempts < MaxAttempts /\ ~row[j].renewed
  BY <1>2, Claimable
<1>4. ASSUME NEW s \in {"rejected", "blocked"}, Write(j, [row[j] EXCEPT !.status = s])
      PROVE  RowsGood
  <2>1. Good(j, [row[j] EXCEPT !.status = s])
    BY <1>2, <1>3, StatusGood, Statuses
       DEF Undispatched, InFlight, TERMINAL_JOB_STATUSES
  <2>2. [row[j] EXCEPT !.status = s].status # "absent"
    BY <1>1 DEF RowType
  <2> QED BY <1>2, <1>4, <2>1, <2>2, WriteGood
<1>5. CASE invalidateApprovalForClaim(a, j)
  <2> DEFINE new == [row[j] EXCEPT !.status = "pending_approval", !.approved = 0]
  <2>1. new \in RowType
    BY <1>1, Columns DEF RowType
  <2>2. RowOK(new, gated'[j], ledger'[j])
    BY <1>1, <1>2, <1>3 DEF RowOK, RowType, Undispatched, InFlight
  <2>3. Evolves(row[j], new)
    BY <1>1, <1>3, Statuses DEF Evolves, RowType, TERMINAL_JOB_STATUSES
  <2>4. Good(j, new) /\ new.status # "absent"
    BY <1>1, <2>1, <2>2, <2>3 DEF Good, RowType
  <2>5. Write(j, new)
    BY <1>5 DEF invalidateApprovalForClaim
  <2> QED BY <1>2, <2>4, <2>5, WriteGood
<1> QED BY <1>4, <1>5 DEF claimRejectsTrustJob, claimBlocksDeployJob

\* The row of a granted claim.
LEMMA ClaimRows ==
  ASSUME TypeOK, RowInv, NEW a \in Agents, NEW j \in Jobs, NEW delivered \in BOOLEAN,
         claimJobs(a, j, delivered)
  PROVE  RowsGood /\ row'[j].attempts = row[j].attempts + 1 /\ row'[j].status = "claimed"
<1> DEFINE new == [row[j] EXCEPT !.status = "claimed", !.owner = a,
                                 !.claim = row[j].attempts + 1, !.lease = Lease,
                                 !.renewed = FALSE, !.attempts = @ + 1]
<1>1. row[j] \in RowType /\ RowOK(row[j], gated[j], ledger[j])
  BY RowFacts
<1>2. claimable(a, j) /\ UNCHANGED <<gated, ledger>> /\ Write(j, new)
  BY DEF claimJobs
<1>3. row[j].status \in {"pending", "claimed"} /\ row[j].attempts < MaxAttempts
  BY <1>2, Claimable
<1>4. row[j].attempts + 1 \in 0..MaxAttempts
  BY <1>1, <1>3, BoundsAssumption DEF RowType
<1>5. new \in RowType
  BY <1>1, <1>4, Columns DEF RowType
<1>6. RowOK(new, gated'[j], ledger'[j])
  BY <1>1, <1>2, <1>3 DEF RowOK, RowType, Undispatched, InFlight
<1>7. Evolves(row[j], new)
  BY <1>1, <1>3, Statuses, BoundsAssumption DEF Evolves, RowType, TERMINAL_JOB_STATUSES
<1>8. Good(j, new) /\ new.status # "absent"
  BY <1>1, <1>5, <1>6, <1>7 DEF Good, RowType
<1>9. RowsGood
  BY <1>2, <1>8, WriteGood
<1>10. row'[j] = new
  BY <1>2, Claimable DEF Write, TypeOK
<1> QED BY <1>1, <1>9, <1>10 DEF RowType

\* A renewal, in time or late: the job runs under the renewed claim.
LEMMA RenewRows ==
  ASSUME TypeOK, RowInv, NEW a \in Agents, NEW j \in Jobs, NEW c \in Claims,
         renewJobLease(a, j, c), UNCHANGED <<gated, ledger>>
  PROVE  RowsGood /\ Started(a, j, c)' /\ row'[j].status = "running"
<1> DEFINE new == [row[j] EXCEPT !.status = "running", !.lease = Lease, !.renewed = TRUE]
<1>1. row[j] \in RowType /\ RowOK(row[j], gated[j], ledger[j])
  BY RowFacts
<1>2. /\ Write(j, new)
      /\ row[j].owner = a /\ row[j].claim = c /\ row[j].status \in InFlight
  BY DEF renewJobLease, renewable
<1>3. new \in RowType
  BY <1>1, Columns DEF RowType
<1>4. RowOK(new, gated'[j], ledger'[j])
  BY <1>1, <1>2 DEF RowOK, RowType, Undispatched, InFlight, TERMINAL_JOB_STATUSES
<1>5. Evolves(row[j], new)
  BY <1>1, <1>2, Statuses DEF Evolves, RowType, InFlight, TERMINAL_JOB_STATUSES
<1>6. Good(j, new) /\ new.status # "absent"
  BY <1>1, <1>3, <1>4, <1>5 DEF Good, RowType
<1>7. RowsGood
  BY <1>2, <1>6, WriteGood
<1>8. row[j].attempts = c
  BY <1>1, <1>2 DEF RowOK, Claims
<1>9. row'[j] = Stored(j, new)
  BY <1>2 DEF Write, TypeOK
<1>10. new.status = "running" /\ new.owner = a /\ new.claim = c /\ new.attempts = c
  BY <1>1, <1>2, <1>8 DEF RowType
<1>11. Stored(j, new) \in {new, [new EXCEPT !.recon = TRUE],
                           [[new EXCEPT !.recon = TRUE] EXCEPT !.recon = TRUE]}
  <2>1. certops_guard_job_identity_start(row[j], new) \in {new, [new EXCEPT !.recon = TRUE]}
    BY DEF certops_guard_job_identity_start
  <2>2. \A n : n.status = "running" =>
          certops_guard_management_job_claim(row[j], n) \in {n, [n EXCEPT !.recon = TRUE]}
    BY <1>2 DEF certops_guard_management_job_claim, InFlight
  <2>3. [new EXCEPT !.recon = TRUE].status = "running"
    BY <1>3, <1>10 DEF RowType
  <2> QED BY <1>10, <2>1, <2>2, <2>3 DEF Stored
<1>12. /\ row'[j].status = "running" /\ row'[j].owner = a
       /\ row'[j].claim = c /\ row'[j].attempts = c
  <2>1. ASSUME NEW n \in RowType
        PROVE  /\ [n EXCEPT !.recon = TRUE] \in RowType
               /\ [n EXCEPT !.recon = TRUE].status = n.status
               /\ [n EXCEPT !.recon = TRUE].owner = n.owner
               /\ [n EXCEPT !.recon = TRUE].claim = n.claim
               /\ [n EXCEPT !.recon = TRUE].attempts = n.attempts
    BY DEF RowType
  <2> DEFINE once == [new EXCEPT !.recon = TRUE]
             twice == [once EXCEPT !.recon = TRUE]
  <2>2. /\ once \in RowType
        /\ once.status = new.status /\ once.owner = new.owner
        /\ once.claim = new.claim /\ once.attempts = new.attempts
    BY <1>3, <2>1
  <2>3. /\ twice.status = once.status /\ twice.owner = once.owner
        /\ twice.claim = once.claim /\ twice.attempts = once.attempts
    BY <2>1, <2>2
  <2>4. Stored(j, new) \in {new, once, twice}
    BY <1>11
  <2> HIDE DEF new, once, twice
  <2> QED BY <1>9, <1>10, <2>2, <2>3, <2>4
<1> QED BY <1>7, <1>12, Statuses DEF Started

\* A reported result.
LEMMA ResultRows ==
  ASSUME TypeOK, RowInv, NEW a \in Agents, NEW r \in outbox[a], NEW acked \in BOOLEAN,
         ingestResult(a, r, acked)
  PROVE  RowsGood
<1> DEFINE j == r.job
           flag == row[j].recon \/ r.status = "orphaned_unknown_effect"
           new == [row[j] EXCEPT !.status = r.status, !.lease = NoLease, !.recon = flag]
<1>1. j \in Jobs /\ r.status \in RESULT_STATUSES
  BY DEF TypeOK
<1>2. row[j] \in RowType /\ RowOK(row[j], gated[j], ledger[j])
  BY <1>1, RowFacts
<1>3. Write(j, new) /\ row[j].status \in InFlight /\ UNCHANGED <<gated, ledger>>
  BY DEF ingestResult
<1>4. r.status \in JOB_STATUSES \cup {"absent"} /\ r.status \in EffectStatuses
  BY <1>1 DEF JOB_STATUSES, EffectStatuses, RESULT_STATUSES
<1>f. flag \in BOOLEAN /\ (row[j].recon => flag)
  OBVIOUS
<1> HIDE DEF flag
<1>5. new \in RowType
  BY <1>2, <1>4, <1>f, Columns DEF RowType
<1>6. RowOK(new, gated'[j], ledger'[j])
  BY <1>1, <1>2, <1>3 DEF RowOK, RowType, RESULT_STATUSES, Undispatched, InFlight,
                          TERMINAL_JOB_STATUSES
<1>7. Evolves(row[j], new)
  BY <1>1, <1>2, <1>3, <1>4, <1>f
     DEF Evolves, RowType, InFlight, RESULT_STATUSES, TERMINAL_JOB_STATUSES
<1>8. Good(j, new) /\ new.status # "absent"
  BY <1>1, <1>2, <1>5, <1>6, <1>7 DEF Good, RowType, RESULT_STATUSES, TERMINAL_JOB_STATUSES
<1> QED BY <1>1, <1>3, <1>8, WriteGood

\* What the lease reaper writes for an expired claim.
LEMMA ReapedGood ==
  ASSUME TypeOK, RowInv, NEW j \in Jobs, row[j].status \in InFlight,
         UNCHANGED <<gated, ledger>>
  PROVE  Good(j, Stored(j, reaped(row[j])))
<1>1. row[j] \in RowType /\ RowOK(row[j], gated[j], ledger[j])
  BY RowFacts
<1>2. CASE sideEffectsPossible(row[j])
  <2> DEFINE new == orphaned(row[j])
  <2>1. new \in RowType /\ new.status # "absent"
    BY <1>1, Columns DEF RowType, orphaned
  <2>2. RowOK(new, gated'[j], ledger'[j])
    BY <1>1 DEF RowOK, RowType, orphaned, Undispatched, InFlight, TERMINAL_JOB_STATUSES
  <2>3. Evolves(row[j], new)
    BY <1>1, Statuses DEF Evolves, RowType, orphaned, InFlight, TERMINAL_JOB_STATUSES
  <2> QED BY <1>2, <2>1, <2>2, <2>3, StoredGood DEF Good, reaped
<1>3. CASE ~sideEffectsPossible(row[j]) /\ row[j].attempts < MaxAttempts
  <2> DEFINE new == requeued(row[j])
  <2>1. new \in RowType /\ new.status # "absent"
    BY <1>1, Columns DEF RowType, requeued
  <2>2. RowOK(new, gated'[j], ledger'[j])
    BY <1>1, <1>3 DEF RowOK, RowType, requeued, Undispatched, InFlight, TERMINAL_JOB_STATUSES
  <2>3. Evolves(row[j], new)
    BY <1>1, <1>3, Statuses
       DEF Evolves, RowType, requeued, sideEffectsPossible, InFlight, TERMINAL_JOB_STATUSES
  <2> QED BY <1>3, <2>1, <2>2, <2>3, StoredGood DEF Good, reaped
<1>4. CASE ~sideEffectsPossible(row[j]) /\ ~(row[j].attempts < MaxAttempts)
  <2> DEFINE new == expired(row[j])
  <2>1. new \in RowType /\ new.status # "absent"
    BY <1>1, Columns DEF RowType, expired
  <2>2. RowOK(new, gated'[j], ledger'[j])
    BY <1>1 DEF RowOK, RowType, expired, Undispatched, InFlight, TERMINAL_JOB_STATUSES
  <2>3. Evolves(row[j], new)
    BY <1>1, <1>4, Statuses
       DEF Evolves, RowType, expired, sideEffectsPossible, InFlight, TERMINAL_JOB_STATUSES
  <2> QED BY <1>4, <2>1, <2>2, <2>3, StoredGood DEF Good, reaped
<1> QED BY <1>2, <1>3, <1>4

\* What a forced retirement of the agent writes for a job it holds.
LEMMA FencedGood ==
  ASSUME TypeOK, RowInv, NEW j \in Jobs, row[j].status \in InFlight,
         UNCHANGED <<gated, ledger>>
  PROVE  Good(j, Stored(j, fenceAgentInFlightWork(row[j])))
<1>1. row[j] \in RowType /\ RowOK(row[j], gated[j], ledger[j])
  BY RowFacts
<1>2. CASE row[j].status = "claimed"
  <2> DEFINE new == [row[j] EXCEPT !.status = "cancelled", !.lease = 0]
  <2>1. new \in RowType /\ new.status # "absent"
    BY <1>1, Columns DEF RowType
  <2>2. RowOK(new, gated'[j], ledger'[j])
    BY <1>1, <1>2 DEF RowOK, RowType, Undispatched, InFlight, TERMINAL_JOB_STATUSES
  <2>3. Evolves(row[j], new)
    BY <1>1, <1>2, Statuses DEF Evolves, RowType, TERMINAL_JOB_STATUSES
  <2> QED BY <1>2, <2>1, <2>2, <2>3, StoredGood DEF Good, fenceAgentInFlightWork
<1>3. CASE row[j].status = "running"
  <2> DEFINE new == [row[j] EXCEPT !.status = "orphaned_unknown_effect", !.recon = TRUE,
                                   !.lease = 0]
  <2>1. new \in RowType /\ new.status # "absent"
    BY <1>1, Columns DEF RowType
  <2>2. RowOK(new, gated'[j], ledger'[j])
    BY <1>1, <1>3 DEF RowOK, RowType, Undispatched, InFlight, TERMINAL_JOB_STATUSES
  <2>3. Evolves(row[j], new)
    BY <1>1, <1>3, Statuses DEF Evolves, RowType, TERMINAL_JOB_STATUSES
  <2> QED BY <1>3, <2>1, <2>2, <2>3, StoredGood DEF Good, fenceAgentInFlightWork
<1> QED BY <1>2, <1>3 DEF InFlight

\* The reaper's batch, a retired agent's fence, and the clock.
LEMMA SweepRows ==
  ASSUME TypeOK, RowInv,
         \/ \E S \in SUBSET Jobs : reapExpiredLeases(S)
         \/ \E a \in Agents, force \in BOOLEAN : retireAgent(a, force)
         \/ tick
  PROVE  RowsGood
<1>1. UNCHANGED <<gated, ledger>> /\ row \in [Jobs -> RowType]
  BY DEF reapExpiredLeases, retireAgent, tick, TypeOK
<1>2. ASSUME NEW S \in SUBSET Jobs, reapExpiredLeases(S)
      PROVE  row' = [j \in Jobs |-> row'[j]] /\ \A j \in Jobs : Good(j, row'[j])
  BY <1>1, <1>2, ReapedGood, SameGood DEF reapExpiredLeases, reapable
<1>3. ASSUME NEW a \in Agents, NEW force \in BOOLEAN, retireAgent(a, force)
      PROVE  row' = [j \in Jobs |-> row'[j]] /\ \A j \in Jobs : Good(j, row'[j])
  BY <1>1, <1>3, FencedGood, SameGood DEF retireAgent, activelyLeased
<1>4. ASSUME tick
      PROVE  row' = [j \in Jobs |-> row'[j]] /\ \A j \in Jobs : Good(j, row'[j])
  <2>1. SUFFICES ASSUME NEW j \in Jobs PROVE Good(j, row'[j])
    BY <1>4 DEF tick
  <2>2. row[j] \in RowType /\ RowOK(row[j], gated[j], ledger[j])
    BY RowFacts
  <2>3. CASE row[j].lease = NoLease
    BY <2>3, <1>1, <1>4, SameGood DEF tick
  <2>4. CASE row[j].lease # NoLease
    <3> DEFINE t == countdown(row[j].lease, -HardGrace - 1)
               new == [row[j] EXCEPT !.lease = t]
    <3>1. row'[j] = new
      BY <1>4, <2>4 DEF tick
    <3>2. t \in (-HardGrace - 1)..NoLease
      BY <2>2, BoundsAssumption DEF countdown, RowType, NoLease
    <3> HIDE DEF t
    <3>3. new \in RowType
      BY <2>2, <3>2 DEF RowType
    <3>4. RowOK(new, gated'[j], ledger'[j])
      BY <1>1, <2>2 DEF RowOK, RowType
    <3>5. Evolves(row[j], new)
      BY <2>2 DEF Evolves, RowType
    <3> QED BY <3>1, <3>3, <3>4, <3>5 DEF Good
  <2> QED BY <2>3, <2>4
<1>5. row' = [j \in Jobs |-> row'[j]] /\ \A j \in Jobs : Good(j, row'[j])
  BY <1>2, <1>3, <1>4
<1>6. row' \in [Jobs -> RowType]
  BY <1>5 DEF Good
<1> QED BY <1>1, <1>5, <1>6 DEF RowsGood

\* A busy agent's claim.
LEMMA Holder ==
  ASSUME TypeOK, HolderInv, NEW a \in Agents, agent[a].phase # "idle"
  PROVE  agent[a].job \in Jobs /\ agent[a].claim \in Claims
<1>1. agent[a].job \in Jobs /\ agent[a].claim \in 1..row[agent[a].job].attempts
  BY DEF HolderInv
<1>2. row[agent[a].job].attempts \in 0..MaxAttempts
  BY <1>1 DEF TypeOK, RowType
<1> QED BY <1>1, <1>2, BoundsAssumption DEF Claims

\* Steps that leave the rows and the approvals alone.
RowsUntouched(a) ==
  \/ recordHeartbeat(a) \/ dropUnverifiedJob(a) \/ reportJobRejection(a)
  \/ abortBeforeExecution(a) \/ abortWhileExecuting(a) \/ markMutation(a)
  \/ mutate(a) \/ (\E outcome \in RESULT_STATUSES : persistOutcome(a, outcome))
  \/ clearJournalOnTerminal(a) \/ crash(a)
  \/ (\E r \in outbox[a] : acknowledgeDuplicate(a, r) \/ quarantine(a, r) \/ giveUpOnResult(a, r))
  \/ sweepStaleAgents(a) \/ goSilent(a)

\* Every step turns good rows into good rows.
LEMMA RowStep ==
  ASSUME TypeOK, RowInv, HolderInv, Next
  PROVE  RowsGood
<1>1. ASSUME NEW j \in Jobs, JobNext(j) PROVE RowsGood
  <2>1. ASSUME sweepExpiredNonces(j) PROVE RowsGood
    BY <2>1, UntouchedGood DEF sweepExpiredNonces
  <2>2. ASSUME NEW s \in JOB_STATUS_BY_EVENT_TYPE, ingestExecutorEvent(j, s) PROVE RowsGood
    BY <2>2, StatusRows
  <2>3. CASE rejectJob(j) \/ cancelUndispatchedJobs(j)
    <3>1. PICK s \in JOB_STATUS_BY_EVENT_TYPE : TRUE
      BY DEF JOB_STATUS_BY_EVENT_TYPE
    <3> QED BY <2>3, StatusRows
  <2>4. CASE replayLifecycleGuards(j)
    BY <2>4, RetireRows
  <2> QED
    BY <1>1, <2>1, <2>2, <2>3, <2>4, CreateRows, ApproveRows, DriftRows, RetireRows DEF JobNext
<1>2. ASSUME NEW a \in Agents, AgentNext(a) PROVE RowsGood
  <2>1. CASE RowsUntouched(a)
    <3>1. UNCHANGED <<row, gated, ledger>>
      BY <2>1 DEF RowsUntouched, recordHeartbeat, dropUnverifiedJob, reportJobRejection,
         abortBeforeExecution, abortWhileExecuting, markMutation, mutate, persistOutcome,
         clearJournalOnTerminal, crash, acknowledgeDuplicate, quarantine, giveUpOnResult,
         sweepStaleAgents, goSilent
    <3> QED BY <3>1, UntouchedGood
  <2>2. CASE confirmLease(a) \/ renewWhileExecuting(a)
    <3>1. agent[a].phase # "idle" /\ UNCHANGED <<gated, ledger>>
          /\ renewJobLease(a, agent[a].job, agent[a].claim)
      BY <2>2 DEF confirmLease, renewWhileExecuting
    <3> QED BY <3>1, Holder, RenewRows
  <2>3. ASSUME NEW j \in Jobs, ClaimNext(a, j) PROVE RowsGood
    <3>1. ASSUME NEW c \in Claims, deliverLateRenewal(a, j, c) PROVE RowsGood
      BY <3>1, RenewRows DEF deliverLateRenewal
    <3> QED BY <2>3, <3>1, RefusedClaimRows, ClaimRows DEF ClaimNext
  <2>4. ASSUME NEW r \in outbox[a], NEW acked \in BOOLEAN, ingestResult(a, r, acked)
        PROVE  RowsGood
    BY <2>4, ResultRows
  <2>5. ASSUME NEW force \in BOOLEAN, retireAgent(a, force) PROVE RowsGood
    BY <2>5, SweepRows
  <2> QED BY <1>2, <2>1, <2>2, <2>3, <2>4, <2>5 DEF AgentNext, ResultNext, RowsUntouched
<1>3. ASSUME NEW p \in BOOLEAN, setWorkspacePaused(p) PROVE RowsGood
  BY <1>3, UntouchedGood DEF setWorkspacePaused
<1> QED BY <1>1, <1>2, <1>3, SweepRows DEF Next

(***************************************************************************)
(* Agents, journals and effects                                            *)
(***************************************************************************)
\* A confirmed claim stays confirmed.
LEMMA StartedStays ==
  ASSUME RowsGood, NEW a \in Agents, NEW j \in Jobs, NEW c, Started(a, j, c)
  PROVE  Started(a, j, c)'
<1>1. Evolves(row[j], row'[j])
  BY DEF RowsGood, Good
<1> QED BY <1>1 DEF Started, Evolves

\* The agents only go on with what they hold, or drop it.
AgentsGoOn ==
  \A b \in Agents :
    \/ agent'[b].phase = "idle"
    \/ /\ agent[b].phase # "idle"
       /\ agent'[b].job = agent[b].job /\ agent'[b].claim = agent[b].claim
       /\ agent'[b].version = agent[b].version
       /\ agent'[b].phase = "got" => agent[b].phase = "got"
       /\ agent'[b].phase = "executing" =>
            \/ agent[b].phase = "executing"
            \/ Started(b, agent[b].job, agent[b].claim)'

\* A step after which agents go on, and no journal or effect is new.
LEMMA QuietStep ==
  ASSUME TypeOK, HolderInv, JournalInv, EffectInv, RowsGood, AgentsGoOn,
         \A b \in Agents : journal'[b] \subseteq journal[b],
         effects' = effects
  PROVE  HolderInv' /\ JournalInv' /\ EffectInv'
<1>1. ASSUME NEW j \in Jobs, row[j].status # "absent"
      PROVE  /\ row'[j].status # "absent" /\ row'[j].mode = row[j].mode
             /\ row'[j].attempts >= row[j].attempts
             /\ row'[j] \in RowType /\ row[j] \in RowType
             /\ gated'[j] = gated[j] /\ ledger[j] \subseteq ledger'[j]
  BY <1>1 DEF RowsGood, Good, Evolves, TypeOK
<1>2. HolderInv'
  <2> SUFFICES ASSUME NEW a \in Agents, agent'[a].phase # "idle"
               PROVE  /\ agent'[a].job \in Jobs
                      /\ agent'[a].claim \in 1..row'[agent'[a].job].attempts
                      /\ agent'[a].version \in Versions
                      /\ gated'[agent'[a].job] => agent'[a].version \in ledger'[agent'[a].job]
                      /\ row'[agent'[a].job].status # "absent"
                      /\ agent'[a].phase = "executing" =>
                           Started(a, agent[a].job, agent[a].claim)'
                      /\ agent'[a].phase = "got" => ~journaled(a, agent[a].job)'
                      /\ \A b \in Agents :
                           agent'[b].phase # "idle" /\ agent'[b].job = agent'[a].job
                             /\ agent'[b].claim = agent'[a].claim => b = a
    BY DEF HolderInv
  <2> DEFINE j == agent[a].job
  <2>1. /\ agent[a].phase # "idle"
        /\ agent'[a].job = j /\ agent'[a].claim = agent[a].claim
        /\ agent'[a].version = agent[a].version
    BY DEF AgentsGoOn
  <2>2. /\ j \in Jobs /\ agent[a].claim \in 1..row[j].attempts
        /\ agent[a].version \in Versions /\ row[j].status # "absent"
        /\ gated[j] => agent[a].version \in ledger[j]
    BY <2>1 DEF HolderInv
  <2>3. agent[a].claim \in 1..row'[j].attempts
    BY <1>1, <2>2, BoundsAssumption DEF RowType
  <2>4. row'[j].status # "absent" /\ (gated'[j] => agent[a].version \in ledger'[j])
    BY <1>1, <2>2
  <2>5. ASSUME agent'[a].phase = "executing"
        PROVE  Started(a, agent[a].job, agent[a].claim)'
    BY <2>1, <2>2, <2>5, StartedStays DEF AgentsGoOn, HolderInv
  <2>6. ASSUME agent'[a].phase = "got"
        PROVE  ~journaled(a, agent[a].job)'
    BY <2>1, <2>6 DEF AgentsGoOn, HolderInv, journaled
  <2>7. ASSUME NEW b \in Agents, agent'[b].phase # "idle", agent'[b].job = agent'[a].job,
               agent'[b].claim = agent'[a].claim
        PROVE  b = a
    BY <2>1, <2>7 DEF AgentsGoOn, HolderInv
  <2> QED BY <2>1, <2>2, <2>3, <2>4, <2>5, <2>6, <2>7
<1>3. JournalInv'
  <2> SUFFICES ASSUME NEW a \in Agents, NEW m \in journal'[a]
               PROVE  row'[m[1]].status \in EffectStatuses /\ row'[m[1]].mode = "real"
    BY DEF JournalInv
  <2>1. m \in journal[a] /\ m[1] \in Jobs
    BY DEF TypeOK
  <2>2. row[m[1]].status \in EffectStatuses /\ row[m[1]].mode = "real"
    BY <2>1 DEF JournalInv
  <2>3. Evolves(row[m[1]], row'[m[1]])
    BY <2>1 DEF RowsGood, Good
  <2> QED BY <2>2, <2>3, Statuses DEF Evolves
<1>4. EffectInv'
  <2> SUFFICES ASSUME NEW e \in effects
               PROVE  /\ Started(e.agent, e.job, e.claim)'
                      /\ row'[e.job].mode = "real"
                      /\ gated'[e.job] => e.version \in ledger'[e.job]
                      /\ \A a \in Agents :
                           agent'[a].phase # "idle" /\ agent'[a].job = e.job
                             /\ agent'[a].claim = e.claim => a = e.agent
                      /\ \A f \in effects : e.job = f.job => e.agent = f.agent
    BY DEF EffectInv
  <2>1. e.agent \in Agents /\ e.job \in Jobs
    BY DEF TypeOK
  <2>2. /\ Started(e.agent, e.job, e.claim) /\ row[e.job].mode = "real"
        /\ gated[e.job] => e.version \in ledger[e.job]
    BY DEF EffectInv
  <2>3. row[e.job].status # "absent"
    BY <2>2, Statuses DEF Started
  <2>4. Started(e.agent, e.job, e.claim)'
    BY <2>1, <2>2, StartedStays
  <2>5. \A a \in Agents : agent'[a].phase # "idle" /\ agent'[a].job = e.job
                            /\ agent'[a].claim = e.claim => a = e.agent
    BY DEF AgentsGoOn, EffectInv
  <2>6. \A f \in effects : e.job = f.job => e.agent = f.agent
    BY DEF EffectInv
  <2> QED BY <1>1, <2>1, <2>2, <2>3, <2>4, <2>5, <2>6
<1> QED BY <1>2, <1>3, <1>4

\* A new claim: its number is new, and nothing has happened under an older one.
LEMMA ClaimStep ==
  ASSUME IInv, NEW a \in Agents, NEW j \in Jobs, claimJobs(a, j, TRUE)
  PROVE  HolderInv' /\ JournalInv' /\ EffectInv'
<1> DEFINE c == row[j].attempts + 1
<1> USE DEF IInv
<1>1. /\ RowsGood /\ row'[j].attempts = c /\ row'[j].status = "claimed"
  BY ClaimRows
<1>2. /\ claimable(a, j) /\ ~approvalDrifted(row[j])
      /\ agent' = [agent EXCEPT ![a] = [phase |-> "got", job |-> j, claim |-> c,
                                        version |-> row[j].payload, abort |-> FALSE]]
      /\ UNCHANGED <<gated, ledger, journal, effects>>
  BY DEF claimJobs
<1>3. row[j].status \in {"pending", "claimed"}
  BY <1>2, Claimable
<1>4. row[j] \in RowType /\ RowOK(row[j], gated[j], ledger[j])
  BY RowFacts
<1>5. row[j].payload \in Versions /\ (gated[j] => row[j].payload \in ledger[j])
  <2>1. row[j].payload \in Versions
    BY <1>3, <1>4 DEF RowOK
  <2>2. ASSUME gated[j] PROVE row[j].payload \in ledger[j]
    <3>1. row[j].approved \in ledger[j]
      BY <1>3, <1>4, <2>2 DEF RowOK, InFlight
    <3>2. row[j].approved # 0
      BY <3>1, VersionsAssumption DEF TypeOK
    <3> QED BY <1>2, <3>1, <3>2 DEF approvalDrifted
  <2> QED BY <2>1, <2>2
<1>6. c \in Nat /\ c >= 1 /\ \A b \in Agents : agent[b].phase # "idle" /\ agent[b].job = j =>
                                 agent[b].claim # c
  BY <1>4, BoundsAssumption DEF HolderInv, RowType
<1>7. \A b \in Agents, x \in Claims : <<j, x>> \notin journal[b]
  <2> SUFFICES ASSUME NEW b \in Agents, NEW x \in Claims, <<j, x>> \in journal[b]
               PROVE  FALSE
    OBVIOUS
  <2>1. row[<<j, x>>[1]].status \in EffectStatuses
    BY DEF JournalInv
  <2> QED BY <2>1, <1>3, Statuses
<1>8. \A e \in effects : e.job # j
  BY <1>3, Statuses DEF EffectInv, Started
<1>9. /\ agent'[a].phase = "got" /\ agent'[a].job = j /\ agent'[a].claim = c
      /\ agent'[a].version = row[j].payload
      /\ \A b \in Agents : b # a => agent'[b] = agent[b]
  BY <1>2 DEF TypeOK
<1>10. ASSUME NEW i \in Jobs, row[i].status # "absent"
       PROVE  /\ row'[i].status # "absent"
              /\ row'[i].attempts >= row[i].attempts
              /\ row'[i].attempts \in Int /\ row[i].attempts \in Int
  BY <1>10, <1>1, BoundsAssumption DEF RowsGood, Good, Evolves, TypeOK, RowType
<1>11. HolderInv'
  <2> SUFFICES ASSUME NEW b \in Agents, agent'[b].phase # "idle"
               PROVE  /\ agent'[b].job \in Jobs
                      /\ agent'[b].claim \in 1..row'[agent'[b].job].attempts
                      /\ agent'[b].version \in Versions
                      /\ gated'[agent'[b].job] => agent'[b].version \in ledger'[agent'[b].job]
                      /\ row'[agent'[b].job].status # "absent"
                      /\ agent'[b].phase = "executing" =>
                           Started(b, agent[b].job, agent[b].claim)'
                      /\ agent'[b].phase = "got" => ~journaled(b, agent[b].job)'
                      /\ \A d \in Agents :
                           agent'[d].phase # "idle" /\ agent'[d].job = agent'[b].job
                             /\ agent'[d].claim = agent'[b].claim => d = b
    BY DEF HolderInv
  <2>1. CASE b = a
    <3>1. \A d \in Agents : agent'[d].phase # "idle" /\ agent'[d].job = j
                              /\ agent'[d].claim = c => d = a
      BY <1>6, <1>9
    <3>2. ~journaled(a, agent[a].job)'
      BY <1>2, <1>7, <1>9 DEF journaled
    <3>3. c \in 1..row'[j].attempts
      BY <1>1, <1>6
    <3> HIDE DEF c
    <3> QED BY <2>1, <1>1, <1>2, <1>5, <1>9, <3>1, <3>2, <3>3
  <2>2. CASE b # a
    <3> DEFINE i == agent[b].job
    <3>1. agent'[b] = agent[b] /\ agent[b].phase # "idle"
      BY <2>2, <1>9
    <3>2. /\ i \in Jobs /\ agent[b].claim \in 1..row[i].attempts
          /\ agent[b].version \in Versions /\ row[i].status # "absent"
          /\ gated[i] => agent[b].version \in ledger[i]
      BY <3>1 DEF HolderInv
    <3>3. agent[b].claim \in 1..row'[i].attempts /\ row'[i].status # "absent"
      BY <3>2, <1>10
    <3>4. ASSUME agent'[b].phase = "executing"
          PROVE  Started(b, agent[b].job, agent[b].claim)'
      BY <1>1, <3>1, <3>2, <3>4, StartedStays DEF HolderInv
    <3>5. ASSUME agent'[b].phase = "got"
          PROVE  ~journaled(b, agent[b].job)'
      BY <1>2, <3>1, <3>5 DEF HolderInv, journaled
    <3>6. ASSUME NEW d \in Agents, agent'[d].phase # "idle", agent'[d].job = agent'[b].job,
                 agent'[d].claim = agent'[b].claim
          PROVE  d = b
      <4>1. CASE d = a
        BY <4>1, <3>1, <3>6, <1>6, <1>9
      <4>2. CASE d # a
        BY <4>2, <3>1, <3>6, <1>9 DEF HolderInv
      <4> QED BY <4>1, <4>2
    <3> QED BY <1>2, <3>1, <3>2, <3>3, <3>4, <3>5, <3>6
  <2> QED BY <2>1, <2>2
<1>12. JournalInv'
  <2> SUFFICES ASSUME NEW b \in Agents, NEW m \in journal[b]
               PROVE  row'[m[1]].status \in EffectStatuses /\ row'[m[1]].mode = "real"
    BY <1>2 DEF JournalInv
  <2>1. m[1] \in Jobs /\ row[m[1]].status \in EffectStatuses /\ row[m[1]].mode = "real"
    BY DEF TypeOK, JournalInv
  <2>2. Evolves(row[m[1]], row'[m[1]])
    BY <1>1, <2>1 DEF RowsGood, Good
  <2> QED BY <2>1, <2>2, Statuses DEF Evolves
<1>13. EffectInv'
  <2> SUFFICES ASSUME NEW e \in effects
               PROVE  /\ Started(e.agent, e.job, e.claim)'
                      /\ row'[e.job].mode = "real"
                      /\ gated[e.job] => e.version \in ledger[e.job]
                      /\ \A b \in Agents :
                           agent'[b].phase # "idle" /\ agent'[b].job = e.job
                             /\ agent'[b].claim = e.claim => b = e.agent
                      /\ \A f \in effects : e.job = f.job => e.agent = f.agent
    BY <1>2 DEF EffectInv
  <2>1. e.agent \in Agents /\ e.job \in Jobs
    BY DEF TypeOK
  <2>2. Started(e.agent, e.job, e.claim) /\ row[e.job].mode = "real"
    BY DEF EffectInv
  <2>3. Started(e.agent, e.job, e.claim)'
    BY <1>1, <2>1, <2>2, StartedStays
  <2>4. Evolves(row[e.job], row'[e.job])
    BY <1>1, <2>1 DEF RowsGood, Good
  <2>5. row'[e.job].mode = "real"
    BY <2>2, <2>4, Statuses DEF Evolves, Started
  <2>6. \A b \in Agents : agent'[b].phase # "idle" /\ agent'[b].job = e.job
                            /\ agent'[b].claim = e.claim => b = e.agent
    BY <1>8, <1>9 DEF EffectInv
  <2> QED BY <2>3, <2>5, <2>6 DEF EffectInv
<1> QED BY <1>11, <1>12, <1>13

\* An announced mutation belongs to a confirmed claim of a real job.
LEMMA MarkStep ==
  ASSUME IInv, NEW a \in Agents, markMutation(a)
  PROVE  HolderInv' /\ JournalInv' /\ EffectInv'
<1> USE DEF IInv
<1>1. /\ agent[a].phase = "executing" /\ row[agent[a].job].mode = "real"
      /\ journal' = [journal EXCEPT ![a] = @ \cup {<<agent[a].job, agent[a].claim>>}]
      /\ UNCHANGED <<row, gated, ledger, agent, effects>>
  BY DEF markMutation
<1>2. Started(a, agent[a].job, agent[a].claim) /\ agent[a].job \in Jobs
  BY <1>1 DEF HolderInv
<1>3. HolderInv'
  <2>1. \A b \in Agents : b # a => journal'[b] = journal[b]
    BY <1>1 DEF TypeOK
  <2>2. \A b \in Agents : agent[b].phase = "got" /\ ~journaled(b, agent[b].job)
                            => ~journaled(b, agent[b].job)'
    BY <1>1, <2>1 DEF journaled
  <2> QED BY <1>1, <2>2 DEF HolderInv, Started
<1>4. JournalInv'
  <2>1. \A b \in Agents : \A m \in journal'[b] :
          m \in journal[b] \/ m = <<agent[a].job, agent[a].claim>>
    BY <1>1 DEF TypeOK
  <2> QED BY <1>1, <1>2, <2>1 DEF JournalInv, Started
<1>5. EffectInv'
  BY <1>1 DEF EffectInv, Started
<1> QED BY <1>3, <1>4, <1>5

\* A side effect belongs to a confirmed claim, and so does every other one of
\* the job: there is one confirmed claim, and one agent that holds it.
LEMMA MutateStep ==
  ASSUME IInv, NEW a \in Agents, mutate(a)
  PROVE  HolderInv' /\ JournalInv' /\ EffectInv'
<1> USE DEF IInv
<1> DEFINE j == agent[a].job
           c == agent[a].claim
<1>1. /\ agent[a].phase = "executing" /\ <<j, c>> \in journal[a]
      /\ effects' = effects \cup {effect(a)}
      /\ UNCHANGED <<row, gated, ledger, agent, journal>>
  BY DEF mutate
<1>2. /\ Started(a, j, c) /\ j \in Jobs
      /\ gated[j] => agent[a].version \in ledger[j]
      /\ \A b \in Agents : agent[b].phase # "idle" /\ agent[b].job = j
                             /\ agent[b].claim = c => b = a
  BY <1>1 DEF HolderInv
<1>3. row[j].mode = "real"
  BY <1>1 DEF JournalInv
<1>4. HolderInv' /\ JournalInv'
  BY <1>1 DEF HolderInv, JournalInv, journaled, Started
<1>5. /\ effect(a).agent = a /\ effect(a).job = j
      /\ effect(a).claim = c /\ effect(a).version = agent[a].version
  BY DEF effect
<1>6. \A f \in effects : f.job = j => f.agent = a
  <2> SUFFICES ASSUME NEW f \in effects, f.job = j PROVE f.agent = a
    OBVIOUS
  <2>1. Started(f.agent, f.job, f.claim)
    BY DEF EffectInv
  <2>2. f.claim = c
    BY <1>2, <2>1 DEF Started
  <2> QED BY <1>1, <2>2 DEF EffectInv
<1>7. EffectInv'
  <2> SUFFICES ASSUME NEW e \in effects'
               PROVE  /\ Started(e.agent, e.job, e.claim)
                      /\ row[e.job].mode = "real"
                      /\ gated[e.job] => e.version \in ledger[e.job]
                      /\ \A b \in Agents :
                           agent[b].phase # "idle" /\ agent[b].job = e.job
                             /\ agent[b].claim = e.claim => b = e.agent
                      /\ \A f \in effects' : e.job = f.job => e.agent = f.agent
    BY <1>1 DEF EffectInv, Started
  <2>1. CASE e = effect(a)
    BY <2>1, <1>1, <1>2, <1>3, <1>5, <1>6
  <2>2. CASE e \in effects
    BY <2>2, <1>1, <1>5, <1>6 DEF EffectInv
  <2> QED BY <1>1, <2>1, <2>2
<1> QED BY <1>4, <1>7

(***************************************************************************)
(* Types of everything but the rows                                        *)
(***************************************************************************)
NonceType == [state : {"none", "live", "used"}, ttl : (-SweepGrace - 1)..NonceTtl]
ServerType == [status : {"active", "offline", "retired"}, recent : BOOLEAN]
AgentType == [phase : {"idle", "got", "executing", "reporting"}, job : Jobs \cup {NoJob},
              claim : 0..MaxAttempts, version : Versions \cup {0}, abort : BOOLEAN]
ResultType == [job : Jobs, claim : Claims, status : RESULT_STATUSES]
EffectType == [agent : Agents, job : Jobs, claim : Claims, version : Versions]

\* The requests of an agent refresh its last_seen_at and close its late requests.
LEMMA PollTypes ==
  ASSUME TypeOK, NEW a \in Agents
  PROVE  /\ Seen(a) => server' \in [Agents -> ServerType]
         /\ Accepted(a) => late' \in [Agents -> SUBSET (Jobs \X Claims)]
<1>1. server \in [Agents -> ServerType] /\ late \in [Agents -> SUBSET (Jobs \X Claims)]
  BY DEF TypeOK, ServerType
<1>2. [status |-> "active", recent |-> TRUE] \in ServerType
  BY DEF ServerType
<1>3. Seen(a) => server' \in [Agents -> ServerType]
  BY <1>1, <1>2 DEF Seen
<1>4. Accepted(a) => late' \in [Agents -> SUBSET (Jobs \X Claims)]
  BY <1>1 DEF Accepted
<1> QED BY <1>3, <1>4

\* The steps of people and services type what they write.
LEMMA JobTypes ==
  ASSUME TypeOK, RowInv, row' \in [Jobs -> RowType], NEW j \in Jobs, JobNext(j)
  PROVE  TypeOK'
<1>1. ASSUME NEW op \in Operations, NEW mode \in Modes, NEW v \in Versions, NEW g \in BOOLEAN,
             createCertificateJob(j, op, mode, v, g)
      PROVE  TypeOK'
  BY <1>1 DEF createCertificateJob, TypeOK
<1>2. ASSUME approveJob(j) PROVE TypeOK'
  <2>1. row[j].payload \in Versions
    BY <1>2 DEF approveJob, RowInv, RowOK
  <2> QED BY <1>2, <2>1 DEF approveJob, TypeOK
<1>3. ASSUME NEW v \in Versions, driftPayload(j, v) PROVE TypeOK'
  BY <1>3 DEF driftPayload, TypeOK
<1>4. ASSUME NEW s \in JOB_STATUS_BY_EVENT_TYPE, ingestExecutorEvent(j, s) PROVE TypeOK'
  BY <1>4 DEF ingestExecutorEvent, enqueueOutboxEvent, TypeOK
<1>5. ASSUME NEW skipped \in BOOLEAN, certops_close_management_work(j, skipped) PROVE TypeOK'
  BY <1>5 DEF certops_close_management_work, TypeOK
<1>6. ASSUME rejectJob(j) \/ cancelUndispatchedJobs(j) \/ replayLifecycleGuards(j) PROVE TypeOK'
  BY <1>6 DEF rejectJob, cancelUndispatchedJobs, replayLifecycleGuards, TypeOK
<1>7. ASSUME sweepExpiredNonces(j) PROVE TypeOK'
  <2>1. 0 \in (-SweepGrace - 1)..NonceTtl
    BY BoundsAssumption DEF NonceTtl
  <2> QED BY <1>7, <2>1 DEF sweepExpiredNonces, TypeOK
<1> QED BY <1>1, <1>2, <1>3, <1>4, <1>5, <1>6, <1>7 DEF JobNext

\* A renewal types the nonce, and the claims it names.
LEMMA RenewTypes ==
  ASSUME TypeOK, NEW a \in Agents, NEW j \in Jobs, NEW c, renewJobLease(a, j, c)
  PROVE  nonce' \in [Jobs -> NonceType] /\ late' \in [Agents -> SUBSET (Jobs \X Claims)]
<1>1. nonce \in [Jobs -> NonceType]
  BY DEF TypeOK, NonceType
<1>2. NonceTtl \in (-SweepGrace - 1)..NonceTtl
  BY BoundsAssumption DEF NonceTtl
<1>3. [nonce[j] EXCEPT !.ttl = NonceTtl] \in NonceType
  BY <1>1, <1>2 DEF NonceType
<1>4. nonce' \in [Jobs -> NonceType]
  BY <1>1, <1>3 DEF renewJobLease
<1> QED BY <1>4, PollTypes DEF renewJobLease

\* A poll or a late renewal types the agent, the nonce and what it closes.
LEMMA ClaimTypes ==
  ASSUME TypeOK, RowInv, row' \in [Jobs -> RowType], NEW a \in Agents, NEW j \in Jobs,
         ClaimNext(a, j)
  PROVE  TypeOK'
<1>1. CASE claimRejectsTrustJob(a, j) \/ invalidateApprovalForClaim(a, j) \/ claimBlocksDeployJob(a, j)
  <2>1. server' \in [Agents -> ServerType] /\ late' \in [Agents -> SUBSET (Jobs \X Claims)]
    BY <1>1, PollTypes
       DEF claimRejectsTrustJob, invalidateApprovalForClaim, claimBlocksDeployJob, claimPoll
  <2> QED BY <1>1, <2>1 DEF claimRejectsTrustJob, invalidateApprovalForClaim,
             claimBlocksDeployJob, TypeOK, ServerType
<1>2. ASSUME NEW delivered \in BOOLEAN, claimJobs(a, j, delivered) PROVE TypeOK'
  <2>1. server' \in [Agents -> ServerType] /\ late' \in [Agents -> SUBSET (Jobs \X Claims)]
    BY <1>2, PollTypes DEF claimJobs, claimPoll
  <2>2. NonceTtl \in (-SweepGrace - 1)..NonceTtl
    BY BoundsAssumption DEF NonceTtl
  <2>3. nonce' \in [Jobs -> NonceType]
    BY <1>2, <2>2 DEF claimJobs, TypeOK, NonceType
  <2>4. row[j] \in RowType /\ row[j].attempts < MaxAttempts
    BY <1>2, RowFacts, Claimable DEF claimJobs
  <2>5. row[j].attempts + 1 \in 0..MaxAttempts
    BY <2>4, BoundsAssumption DEF RowType
  <2>6. [phase |-> "got", job |-> j, claim |-> row[j].attempts + 1,
         version |-> row[j].payload, abort |-> FALSE] \in AgentType
    BY <2>4, <2>5 DEF AgentType, RowType
  <2>7. agent' \in [Agents -> AgentType]
    BY <1>2, <2>6 DEF claimJobs, TypeOK, AgentType
  <2> QED BY <1>2, <2>1, <2>3, <2>7 DEF claimJobs, TypeOK, ServerType, NonceType, AgentType
<1>3. ASSUME NEW c \in Claims, deliverLateRenewal(a, j, c) PROVE TypeOK'
  <2>1. nonce' \in [Jobs -> NonceType] /\ late' \in [Agents -> SUBSET (Jobs \X Claims)]
    BY <1>3, RenewTypes DEF deliverLateRenewal
  <2> QED BY <1>3, <2>1 DEF deliverLateRenewal, TypeOK, NonceType
<1> QED BY <1>1, <1>2, <1>3 DEF ClaimNext

\* A transmitted result types the nonce and leaves a smaller outbox.
LEMMA ResultTypes ==
  ASSUME TypeOK, row' \in [Jobs -> RowType], NEW a \in Agents, NEW r \in outbox[a],
         ResultNext(a, r)
  PROVE  TypeOK'
<1>1. outbox \in [Agents -> SUBSET ResultType]
  BY DEF TypeOK, ResultType
<1>2. acknowledge(a, r) => outbox' \in [Agents -> SUBSET ResultType]
  BY <1>1 DEF acknowledge
<1>3. ASSUME NEW acked \in BOOLEAN, ingestResult(a, r, acked) PROVE TypeOK'
  <2>1. late' \in [Agents -> SUBSET (Jobs \X Claims)]
    BY <1>3, PollTypes DEF ingestResult
  <2>2. outbox' \in [Agents -> SUBSET ResultType]
    BY <1>1, <1>2, <1>3 DEF ingestResult
  <2>3. r.job \in Jobs /\ nonce \in [Jobs -> NonceType]
    BY <1>1 DEF ResultType, TypeOK, NonceType
  <2>4. [nonce[r.job] EXCEPT !.state = "used"] \in NonceType
    BY <2>3 DEF NonceType
  <2>5. nonce' \in [Jobs -> NonceType]
    BY <1>3, <2>3, <2>4 DEF ingestResult
  <2>6. intents' \in [Jobs -> BOOLEAN]
    BY <1>3 DEF ingestResult, enqueueOutboxEvent
  <2> QED BY <1>3, <2>1, <2>2, <2>5, <2>6 DEF ingestResult, TypeOK, NonceType, ResultType
<1>4. CASE acknowledgeDuplicate(a, r) \/ quarantine(a, r) \/ giveUpOnResult(a, r)
  BY <1>2, <1>4 DEF acknowledgeDuplicate, quarantine, giveUpOnResult, TypeOK, ResultType
<1> QED BY <1>3, <1>4 DEF ResultNext

\* What a busy agent writes: results, journal entries and effects of its claim.
LEMMA HolderTypes ==
  ASSUME TypeOK, HolderInv, NEW a \in Agents, agent[a].phase # "idle"
  PROVE  /\ <<agent[a].job, agent[a].claim>> \in Jobs \X Claims
         /\ effect(a) \in EffectType
         /\ \A s \in RESULT_STATUSES : result(a, s) \in ResultType
<1>1. agent[a].job \in Jobs /\ agent[a].claim \in Claims
  BY Holder
<1>2. agent[a].version \in Versions
  BY DEF HolderInv
<1> QED BY <1>1, <1>2 DEF effect, result, EffectType, ResultType

\* The steps of an agent type what they write.
LEMMA AgentTypes ==
  ASSUME TypeOK, RowInv, HolderInv, row' \in [Jobs -> RowType], NEW a \in Agents, AgentNext(a)
  PROVE  TypeOK'
<1>1. /\ agent \in [Agents -> AgentType] /\ server \in [Agents -> ServerType]
      /\ outbox \in [Agents -> SUBSET ResultType]
      /\ journal \in [Agents -> SUBSET (Jobs \X Claims)]
      /\ late \in [Agents -> SUBSET (Jobs \X Claims)]
  BY DEF TypeOK, AgentType, ServerType, ResultType
<1>2. IdleAgent \in AgentType
  BY BoundsAssumption DEF IdleAgent, AgentType
<1>3. /\ \A p \in {"executing", "reporting"} : [agent[a] EXCEPT !.phase = p] \in AgentType
      /\ \A b \in BOOLEAN : [agent[a] EXCEPT !.abort = b] \in AgentType
  BY <1>1 DEF AgentType
<1>4. [agent EXCEPT ![a] = IdleAgent] \in [Agents -> AgentType]
  BY <1>1, <1>2
<1>5. CASE recordHeartbeat(a)
  <2>1. server' \in [Agents -> ServerType] /\ late' \in [Agents -> SUBSET (Jobs \X Claims)]
    BY <1>5, PollTypes DEF recordHeartbeat
  <2> QED BY <1>5, <2>1 DEF recordHeartbeat, TypeOK, ServerType
<1>6. CASE dropUnverifiedJob(a) \/ crash(a)
  BY <1>4, <1>6 DEF dropUnverifiedJob, crash, TypeOK, AgentType
<1>7. ASSUME agent[a].phase # "idle", NEW s \in RESULT_STATUSES
      PROVE  [outbox EXCEPT ![a] = @ \cup {result(a, s)}] \in [Agents -> SUBSET ResultType]
  BY <1>1, <1>7, HolderTypes
<1>8. ASSUME agent[a].phase # "idle"
      PROVE  [late EXCEPT ![a] = @ \cup {<<agent[a].job, agent[a].claim>>}]
               \in [Agents -> SUBSET (Jobs \X Claims)]
  BY <1>1, <1>8, HolderTypes
<1>9. CASE reportJobRejection(a) \/ abortBeforeExecution(a)
  <2>1. agent[a].phase # "idle"
    BY <1>9 DEF reportJobRejection, abortBeforeExecution
  <2>2. outbox' \in [Agents -> SUBSET ResultType] /\ agent' \in [Agents -> AgentType]
    BY <1>4, <1>7, <1>9, <2>1 DEF reportJobRejection, abortBeforeExecution,
       reportWithoutExecuting, RESULT_STATUSES, TERMINAL_JOB_STATUSES
  <2>3. late' \in [Agents -> SUBSET (Jobs \X Claims)]
    BY <1>1, <1>8, <1>9, <2>1 DEF reportJobRejection, abortBeforeExecution
  <2> QED BY <1>9, <2>2, <2>3 DEF reportJobRejection, abortBeforeExecution, TypeOK,
             AgentType, ResultType
<1>10. CASE confirmLease(a) \/ renewWhileExecuting(a)
  <2>1. agent[a].phase # "idle" /\ renewJobLease(a, agent[a].job, agent[a].claim)
    BY <1>10 DEF confirmLease, renewWhileExecuting
  <2>2. nonce' \in [Jobs -> NonceType] /\ late' \in [Agents -> SUBSET (Jobs \X Claims)]
    BY <2>1, Holder, RenewTypes
  <2>3. agent' \in [Agents -> AgentType]
    BY <1>1, <1>3, <1>10 DEF confirmLease, renewWhileExecuting
  <2> QED BY <1>10, <2>2, <2>3 DEF confirmLease, renewWhileExecuting, TypeOK, NonceType, AgentType
<1>11. CASE abortWhileExecuting(a)
  <2>1. late' \in [Agents -> SUBSET (Jobs \X Claims)]
    BY <1>1, <1>8, <1>11 DEF abortWhileExecuting
  <2>2. agent' \in [Agents -> AgentType]
    BY <1>1, <1>3, <1>11 DEF abortWhileExecuting
  <2> QED BY <1>11, <2>1, <2>2 DEF abortWhileExecuting, TypeOK, AgentType
<1>12. CASE markMutation(a)
  <2>1. journal' \in [Agents -> SUBSET (Jobs \X Claims)]
    BY <1>1, <1>12, HolderTypes DEF markMutation
  <2> QED BY <1>12, <2>1 DEF markMutation, TypeOK
<1>13. CASE mutate(a)
  <2>1. effect(a) \in EffectType
    BY <1>13, HolderTypes DEF mutate
  <2> QED BY <1>13, <2>1 DEF mutate, TypeOK, EffectType
<1>14. ASSUME NEW outcome \in RESULT_STATUSES, persistOutcome(a, outcome) PROVE TypeOK'
  <2>1. withAbort(a, outcome) \in RESULT_STATUSES
    BY DEF withAbort, RESULT_STATUSES, TERMINAL_JOB_STATUSES
  <2>2. outbox' \in [Agents -> SUBSET ResultType] /\ agent' \in [Agents -> AgentType]
    BY <1>1, <1>3, <1>7, <1>14, <2>1 DEF persistOutcome
  <2> QED BY <1>14, <2>2 DEF persistOutcome, TypeOK, ResultType, AgentType
<1>15. CASE clearJournalOnTerminal(a)
  <2>1. journal' \in [Agents -> SUBSET (Jobs \X Claims)]
    BY <1>1, <1>15 DEF clearJournalOnTerminal
  <2> QED BY <1>4, <1>15, <2>1 DEF clearJournalOnTerminal, TypeOK, AgentType
<1>16. CASE sweepStaleAgents(a) \/ goSilent(a)
  <2>1. /\ [server[a] EXCEPT !.status = "offline"] \in ServerType
        /\ [server[a] EXCEPT !.recent = FALSE] \in ServerType
    BY <1>1 DEF ServerType
  <2>2. server' \in [Agents -> ServerType]
    BY <1>1, <1>16, <2>1 DEF sweepStaleAgents, goSilent
  <2> QED BY <1>16, <2>2 DEF sweepStaleAgents, goSilent, TypeOK, ServerType
<1>17. ASSUME NEW force \in BOOLEAN, retireAgent(a, force) PROVE TypeOK'
  <2>1. [server[a] EXCEPT !.status = "retired"] \in ServerType
    BY <1>1 DEF ServerType
  <2>2. server' \in [Agents -> ServerType]
    BY <1>1, <1>17, <2>1 DEF retireAgent
  <2>3. intents' \in [Jobs -> BOOLEAN]
    BY <1>17 DEF retireAgent, enqueueOutboxEvent
  <2> QED BY <1>17, <2>2, <2>3 DEF retireAgent, TypeOK, ServerType
<1> QED
  BY <1>5, <1>6, <1>9, <1>10, <1>11, <1>12, <1>13, <1>14, <1>15, <1>16, <1>17,
     ClaimTypes, ResultTypes DEF AgentNext

\* Every step keeps the types of all variables.
LEMMA TypeStep ==
  ASSUME TypeOK, RowInv, HolderInv, Next
  PROVE  TypeOK'
<1>1. row' \in [Jobs -> RowType]
  BY RowStep DEF RowsGood
<1>2. ASSUME NEW S \in SUBSET Jobs, reapExpiredLeases(S) PROVE TypeOK'
  <2>1. intents' \in [Jobs -> BOOLEAN]
    BY <1>2 DEF reapExpiredLeases
  <2> QED BY <1>1, <1>2, <2>1 DEF reapExpiredLeases, TypeOK
<1>3. ASSUME NEW p \in BOOLEAN, setWorkspacePaused(p) PROVE TypeOK'
  BY <1>1, <1>3 DEF setWorkspacePaused, TypeOK
<1>4. CASE tick
  <2>1. nonce \in [Jobs -> NonceType]
    BY DEF TypeOK, NonceType
  <2>2. ASSUME NEW j \in Jobs
        PROVE  [nonce[j] EXCEPT !.ttl = countdown(@, -SweepGrace - 1)] \in NonceType
    <3>1. countdown(nonce[j].ttl, -SweepGrace - 1) \in (-SweepGrace - 1)..NonceTtl
      BY <2>1, BoundsAssumption DEF NonceType, countdown, NonceTtl
    <3> QED BY <2>1, <3>1 DEF NonceType
  <2>3. nonce' \in [Jobs -> NonceType]
    BY <1>4, <2>1, <2>2 DEF tick
  <2> QED BY <1>1, <1>4, <2>3 DEF tick, TypeOK, NonceType
<1> QED BY <1>1, <1>2, <1>3, <1>4, JobTypes, AgentTypes DEF Next

(***************************************************************************)
(* The invariant                                                           *)
(***************************************************************************)
\* Every step but the three that create new references is quiet.
LEMMA ReferenceStep ==
  ASSUME IInv, RowsGood, Next
  PROVE  HolderInv' /\ JournalInv' /\ EffectInv'
<1> USE DEF IInv
<1>0. agent \in [Agents -> AgentType] /\ journal \in [Agents -> SUBSET (Jobs \X Claims)]
  BY DEF TypeOK, AgentType
<1>1. ASSUME UNCHANGED <<agent, journal, effects>>
      PROVE  HolderInv' /\ JournalInv' /\ EffectInv'
  <2>1. AgentsGoOn
    BY <1>1 DEF AgentsGoOn
  <2> QED BY <1>1, <2>1, QuietStep
<1>2. ASSUME NEW j \in Jobs, JobNext(j) PROVE UNCHANGED <<agent, journal, effects>>
  BY <1>2 DEF JobNext, createCertificateJob, approveJob, rejectJob, driftPayload,
     cancelUndispatchedJobs, certops_close_management_work, replayLifecycleGuards,
     ingestExecutorEvent, sweepExpiredNonces
<1>3. ASSUME NEW a \in Agents, AgentNext(a)
      PROVE  HolderInv' /\ JournalInv' /\ EffectInv'
  <2>1. CASE \/ recordHeartbeat(a) \/ sweepStaleAgents(a) \/ goSilent(a)
             \/ (\E force \in BOOLEAN : retireAgent(a, force))
             \/ (\E r \in outbox[a] : ResultNext(a, r))
    <3>1. UNCHANGED <<agent, journal, effects>>
      BY <2>1 DEF recordHeartbeat, sweepStaleAgents, goSilent, retireAgent, ResultNext,
         ingestResult, acknowledgeDuplicate, quarantine, giveUpOnResult
    <3> QED BY <1>1, <3>1
  <2>2. CASE \/ dropUnverifiedJob(a) \/ reportJobRejection(a) \/ abortBeforeExecution(a)
             \/ crash(a) \/ clearJournalOnTerminal(a)
    <3>1. /\ agent' = [agent EXCEPT ![a] = IdleAgent] /\ effects' = effects
          /\ \A b \in Agents : journal'[b] \subseteq journal[b]
      BY <1>0, <2>2 DEF dropUnverifiedJob, reportJobRejection, abortBeforeExecution,
         crash, clearJournalOnTerminal, reportWithoutExecuting
    <3>2. AgentsGoOn
      BY <1>0, <3>1 DEF AgentsGoOn, IdleAgent
    <3> QED BY <3>1, <3>2, QuietStep
  <2>3. CASE confirmLease(a)
    <3>1. /\ agent[a].phase = "got" /\ agent' = [agent EXCEPT ![a].phase = "executing"]
          /\ renewJobLease(a, agent[a].job, agent[a].claim)
          /\ UNCHANGED <<gated, ledger, journal, effects>>
      BY <2>3 DEF confirmLease
    <3>2. /\ agent'[a].phase = "executing" /\ agent'[a].job = agent[a].job
          /\ agent'[a].claim = agent[a].claim /\ agent'[a].version = agent[a].version
          /\ \A b \in Agents : b # a => agent'[b] = agent[b]
      BY <1>0, <3>1 DEF AgentType
    <3>3. agent[a].job \in Jobs /\ agent[a].claim \in Claims
      BY <3>1, Holder
    <3>4. ASSUME NEW j \in Jobs, NEW c \in Claims, renewJobLease(a, j, c)
          PROVE  Started(a, j, c)'
      BY <3>1, <3>4, RenewRows
    <3>5. Started(a, agent[a].job, agent[a].claim)'
      BY <3>1, <3>2, <3>3, <3>4 DEF Started
    <3>6. AgentsGoOn
      BY <3>1, <3>2, <3>5 DEF AgentsGoOn
    <3> QED BY <3>1, <3>6, QuietStep
  <2>4. CASE \/ renewWhileExecuting(a) \/ abortWhileExecuting(a)
             \/ (\E outcome \in RESULT_STATUSES : persistOutcome(a, outcome))
    <3>1. /\ agent[a].phase = "executing" /\ UNCHANGED <<journal, effects>>
          /\ \/ agent' = [agent EXCEPT ![a].abort = FALSE]
             \/ agent' = [agent EXCEPT ![a].abort = TRUE]
             \/ agent' = [agent EXCEPT ![a].phase = "reporting"]
      BY <2>4 DEF renewWhileExecuting, abortWhileExecuting, persistOutcome
    <3>2. /\ agent'[a].phase \in {"executing", "reporting"} /\ agent'[a].job = agent[a].job
          /\ agent'[a].claim = agent[a].claim /\ agent'[a].version = agent[a].version
          /\ \A b \in Agents : b # a => agent'[b] = agent[b]
      BY <1>0, <3>1 DEF AgentType
    <3>3. AgentsGoOn
      BY <3>1, <3>2 DEF AgentsGoOn
    <3> QED BY <3>1, <3>3, QuietStep
  <2>5. ASSUME NEW j \in Jobs, ClaimNext(a, j)
        PROVE  HolderInv' /\ JournalInv' /\ EffectInv'
    <3>1. CASE claimJobs(a, j, TRUE)
      BY <3>1, ClaimStep
    <3>2. CASE ~claimJobs(a, j, TRUE)
      <4>1. UNCHANGED <<agent, journal, effects>>
        BY <2>5, <3>2 DEF ClaimNext, claimRejectsTrustJob, invalidateApprovalForClaim,
           claimBlocksDeployJob, claimJobs, deliverLateRenewal
      <4> QED BY <1>1, <4>1
    <3> QED BY <3>1, <3>2
  <2>6. CASE markMutation(a)
    BY <2>6, MarkStep
  <2>7. CASE mutate(a)
    BY <2>7, MutateStep
  <2> QED BY <1>3, <2>1, <2>2, <2>3, <2>4, <2>5, <2>6, <2>7 DEF AgentNext
<1>4. ASSUME \/ \E S \in SUBSET Jobs : reapExpiredLeases(S)
             \/ \E p \in BOOLEAN : setWorkspacePaused(p)
             \/ tick
      PROVE  UNCHANGED <<agent, journal, effects>>
  BY <1>4 DEF reapExpiredLeases, setWorkspacePaused, tick
<1> QED BY <1>1, <1>2, <1>3, <1>4 DEF Next

\* The empty tables satisfy the inductive invariant.
LEMMA InitInv == Init => IInv
<1> SUFFICES ASSUME Init PROVE IInv
  OBVIOUS
<1>1. Absent \in RowType
  BY Columns, BoundsAssumption DEF Absent, RowType
<1>2. TypeOK
  <2>1. row \in [Jobs -> RowType]
    BY <1>1 DEF Init
  <2>2. nonce \in [Jobs -> NonceType]
    <3>1. 0 \in (-SweepGrace - 1)..NonceTtl
      BY BoundsAssumption DEF NonceTtl
    <3> QED BY <3>1 DEF Init, NonceType
  <2>3. agent \in [Agents -> AgentType]
    BY BoundsAssumption DEF Init, IdleAgent, AgentType
  <2> QED BY <2>1, <2>2, <2>3 DEF Init, TypeOK, NonceType, AgentType
<1>3. RowInv
  BY DEF Init, RowInv, RowOK, Absent, Undispatched, InFlight
<1>4. HolderInv /\ JournalInv /\ EffectInv
  BY DEF Init, HolderInv, JournalInv, EffectInv, IdleAgent
<1> QED BY <1>2, <1>3, <1>4 DEF IInv

\* Every step of the API, the worker and the agents preserves the invariant.
LEMMA StepInv == IInv /\ [Next]_vars => IInv'
<1> SUFFICES ASSUME IInv, [Next]_vars PROVE IInv'
  OBVIOUS
<1>1. CASE Next
  <2>1. RowsGood
    BY <1>1, RowStep DEF IInv
  <2>2. TypeOK'
    BY <1>1, TypeStep DEF IInv
  <2>3. RowInv'
    BY <2>1 DEF RowsGood, Good, RowInv
  <2> QED BY <1>1, <2>1, <2>2, <2>3, ReferenceStep DEF IInv
<1>2. CASE UNCHANGED vars
  BY <1>2 DEF vars, IInv, TypeOK, RowInv, HolderInv, JournalInv, EffectInv, Started, journaled
<1> QED BY <1>1, <1>2

\* The inductive invariant holds of every behaviour of the job lifecycle.
THEOREM Invariant == Spec => []IInv
BY InitInv, StepInv, PTL DEF Spec

\* Every variable keeps its type; in particular no job is ever claimed more often
\* than max_attempts allows, although claimJobs does not check it for a pending job.
THEOREM TypeCorrect == Spec => []TypeOK
<1>1. IInv => TypeOK
  BY DEF IInv
<1> QED BY <1>1, Invariant, PTL

\* All side effects of a job belong to one claim of one agent: a job is never
\* carried out twice.
THEOREM EffectsOnce == Spec => []AtMostOneEffectfulClaim
<1>1. IInv => AtMostOneEffectfulClaim
  BY DEF IInv, EffectInv, Started, AtMostOneEffectfulClaim
<1> QED BY <1>1, Invariant, PTL

\* Every side effect is named by its job's row or flagged for reconciliation.
THEOREM EffectsAccountedFor == Spec => []EffectsAccounted
<1>1. IInv => EffectsAccounted
  BY DEF IInv, EffectInv, Started, EffectsAccounted, EffectStatuses
<1> QED BY <1>1, Invariant, PTL

\* A job that needs approval causes the effects of approved payloads only.
THEOREM ApprovalRespected == Spec => []EffectsWereApproved
<1>1. IInv => EffectsWereApproved
  BY DEF IInv, EffectInv, EffectsWereApproved
<1> QED BY <1>1, Invariant, PTL

\* A job whose journal entry survived a crash is not dispatched to that agent again.
THEOREM JournalSafe == Spec => []JournalNeverNeeded
<1>1. IInv => JournalNeverNeeded
  BY DEF IInv, HolderInv, JournalNeverNeeded
<1> QED BY <1>1, Invariant, PTL

\* No handler, sweep or late message moves a job out of a terminal status.
THEOREM TerminalStays == Spec => TerminalIsFinal
<1> DEFINE Final == \A j \in Jobs : row[j].status \in TERMINAL_JOB_STATUSES =>
                                      row'[j].status = row[j].status
<1>1. IInv /\ [Next]_vars => [Final]_vars
  <2>1. ASSUME IInv, Next PROVE Final
    BY <2>1, RowStep DEF IInv, RowsGood, Good, Evolves
  <2> QED BY <2>1
<1> QED BY <1>1, Invariant, PTL DEF Spec, TerminalIsFinal
=============================================================================
