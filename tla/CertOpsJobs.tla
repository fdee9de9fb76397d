----------------------------- MODULE CertOpsJobs -----------------------------
(***************************************************************************)
(* The life of CertOps certificate jobs: the certificate_jobs table and    *)
(* the API handlers that write it (apps/api/services/certops), the worker  *)
(* sweeps that recover it (apps/worker/src/certops-worker.js), and the     *)
(* part of the remote agent (packages/agent) that decides whether a job's  *)
(* real-world side effects happen and what is reported about them.         *)
(*                                                                         *)
(* A handler that runs in one database transaction under the job's row     *)
(* lock is one action.  The agent is a serial process whose steps          *)
(* interleave with every handler, that may crash between any two steps,    *)
(* and whose requests may be lost, answered late, or delivered late.       *)
(*                                                                         *)
(* Time is kept as countdowns that saturate once no guard can tell their   *)
(* values apart: lease counts down from Lease at a grant or a renewal, and *)
(* the dispatch nonce from NonceTtl.  lease_expires_at < NOW() is          *)
(* lease < 0, lease_expires_at > NOW() is lease > 0.                       *)
(***************************************************************************)
EXTENDS Integers

CONSTANTS
  Jobs,         \* certificate_jobs ids
  Agents,       \* certops_agents ids
  NoAgent,      \* claimed_by_agent_id IS NULL
  NoJob,        \* an agent that handles no job
  Operations,   \* the operations jobs are created with
  Modes,        \* the modes jobs are created with
  Versions,     \* what the payload and intent hashes of a job can be
  MaxAttempts,  \* certificate_jobs.max_attempts
  Lease,        \* jobLeaseSeconds, in ticks
  HardGrace,    \* leaseHardGraceMs, in ticks
  NonceSlack,   \* the clock margin of dispatchNonceTtlSeconds, in ticks
  SweepGrace    \* SWEEP_GRACE_SECONDS of the nonce sweep, in ticks

ASSUME AgentsAssumption == NoAgent \notin Agents
ASSUME JobsAssumption == NoJob \notin Jobs
ASSUME OperationsAssumption ==
  Operations \subseteq {"renew", "deploy", "distribute-trust"}
ASSUME ModesAssumption == Modes \subseteq {"real", "dry_run"}
ASSUME VersionsAssumption == Versions \subseteq Nat \ {0}
ASSUME BoundsAssumption ==
  /\ MaxAttempts \in Nat \ {0}
  /\ Lease \in Nat \ {0}
  /\ HardGrace \in Nat
  /\ NonceSlack \in Nat \ {0}
  /\ SweepGrace \in Nat

VARIABLES
  row,      \* certificate_jobs: one record per job
  gated,    \* history: the job was created awaiting approval
  ledger,   \* certificate_job_approvals: the versions a person approved
  ended,    \* the certificate identity was retired and its period closed
  intents,  \* certops_outbox holds a renewal_alert_requested for the job
  nonce,    \* certops_consumed_nonces: the row of the job's latest claim
  paused,   \* the workspace kill switch
  server,   \* certops_agents: status, and whether last_seen_at is recent
  late,     \* renewals that timed out and may still reach the API
  agent,    \* the agent process: what it is doing for which claim
  journal,  \* the agent's durable side-effect journal
  outbox,   \* the agent's durable result outbox
  effects   \* history: the real-world side effects that happened

vars == <<row, gated, ledger, ended, intents, nonce, paused, server, late,
          agent, journal, outbox, effects>>

(***************************************************************************)
(* Statuses                                                                *)
(***************************************************************************)
TERMINAL_JOB_STATUSES ==
  {"succeeded", "failed", "rejected", "blocked", "cancelled",
   "dry_run_complete", "orphaned_unknown_effect"}

\* Nothing has picked the job up yet.
Undispatched == {"pending_approval", "pending"}

InFlight == {"claimed", "running"}

JOB_STATUSES == Undispatched \cup InFlight \cup TERMINAL_JOB_STATUSES

\* Slip: a failed job may be started again by a late event.
TransitionsWithRetry ==
  [s \in JOB_STATUSES |->
     CASE s = "pending_approval" -> {"rejected", "cancelled"}
       [] s = "pending" -> InFlight \cup (TERMINAL_JOB_STATUSES
                                          \ {"orphaned_unknown_effect"})
       [] s \in {"claimed", "failed"} -> {"running"} \cup TERMINAL_JOB_STATUSES
       [] s = "running" -> TERMINAL_JOB_STATUSES
       [] OTHER -> {}]

JOB_STATUS_TRANSITIONS ==
  [s \in JOB_STATUSES |->
     CASE s = "pending_approval" -> {"rejected", "cancelled"}
       [] s = "pending" -> InFlight \cup (TERMINAL_JOB_STATUSES
                                          \ {"orphaned_unknown_effect"})
       [] s = "claimed" -> {"running"} \cup TERMINAL_JOB_STATUSES
       [] s = "running" -> TERMINAL_JOB_STATUSES
       [] OTHER -> {}]

RESULT_STATUSES == TERMINAL_JOB_STATUSES \ {"cancelled"}

\* Slip: the nonce is given no room for the hard grace.
NonceTtlWithoutGrace == Lease + NonceSlack

NonceTtl == Lease + HardGrace + NonceSlack

\* lease_expires_at IS NULL: no comparison with NOW() holds of it.
NoLease == Lease + 1

Claims == 1..MaxAttempts

\* An UPDATE of a row that is not there yet is an INSERT.
Absent ==
  [status |-> "absent", operation |-> "none", mode |-> "none",
   owner |-> NoAgent, claim |-> 0, lease |-> NoLease, renewed |-> FALSE,
   attempts |-> 0, recon |-> FALSE, payload |-> 0, approved |-> 0]

IdleAgent == [phase |-> "idle", job |-> NoJob, claim |-> 0, version |-> 0,
              abort |-> FALSE]

leaseExpired(r) == r.lease < 0
leaseLive(r) == r.lease > 0 /\ r.lease # NoLease
pastHardGrace(r) == r.lease < -HardGrace

(***************************************************************************)
(* The triggers on certificate_jobs.  They rewrite a row being written     *)
(* after its certificate was retired: work that has started is flagged for *)
(* reconciliation, anything that would go back to waiting is cancelled.    *)
(* Only installing operations have a management period, and a started dry  *)
(* run is let through as it is.                                            *)
(***************************************************************************)
Installs(r) == r.operation \in {"renew", "deploy"}

\* Slip: a started job that ends after retirement is not flagged.
startGuardDropped(old, new) == new

certops_guard_job_identity_start(old, new) ==
  IF Installs(old) /\ old.status \in InFlight /\ old.mode = "real"
    THEN [new EXCEPT !.recon = TRUE]
    ELSE new

\* Slip: the claim guard checks only what is already in flight.
claimGuardForStartedWork(old, new) ==
  IF old.status \in InFlight /\ new.status \in InFlight /\ old.mode = "real"
    THEN [new EXCEPT !.recon = TRUE]
    ELSE new

certops_guard_management_job_claim(old, new) ==
  IF \/ new.status \notin Undispatched \cup InFlight
     \/ ~Installs(old)
     \/ old.status \in InFlight /\ old.mode = "dry_run"
    THEN new
  ELSE IF old.status \in InFlight /\ new.status \in InFlight
    THEN [new EXCEPT !.recon = TRUE]
    ELSE [new EXCEPT !.status = "cancelled", !.owner = NoAgent, !.claim = 0,
                     !.lease = NoLease, !.renewed = FALSE,
                     !.attempts = old.attempts]

\* What is stored when a handler writes new over row j.
Stored(j, new) ==
  IF ended[j]
    THEN certops_guard_management_job_claim(row[j],
           certops_guard_job_identity_start(row[j], new))
    ELSE new

Write(j, new) == row' = [row EXCEPT ![j] = Stored(j, new)]

\* Slip: the orphaning lanes are forgotten.
alertWorthyReported(r, status) ==
  r.operation = "renew" /\ status \in {"failed", "blocked", "rejected", "cancelled"}

\* classifyTerminalTransition for a transition no person decided.
alertWorthy(r, status) ==
  /\ r.operation = "renew"
  /\ status \in {"failed", "blocked", "rejected", "cancelled",
                 "orphaned_unknown_effect"}

enqueueOutboxEvent(S, status) ==
  intents' = [j \in Jobs |-> intents[j] \/ (j \in S /\ alertWorthy(row[j], status))]

(***************************************************************************)
(* Creation, approval and cancellation                                     *)
(***************************************************************************)
createCertificateJob(j, op, mode, version, needsApproval) ==
  /\ row[j].status = "absent"
  /\ Write(j, [Absent EXCEPT
                 !.status = IF needsApproval THEN "pending_approval" ELSE "pending",
                 !.operation = op, !.mode = mode, !.payload = version])
  /\ gated' = [gated EXCEPT ![j] = needsApproval]
  /\ UNCHANGED <<ledger, ended, intents, nonce, paused, server, late, agent,
                 journal, outbox, effects>>

\* The hash is bound to the payload the approver saw, and the ledger keeps it.
approveJob(j) ==
  /\ row[j].status = "pending_approval"
  /\ Write(j, [row[j] EXCEPT !.status = "pending", !.approved = row[j].payload])
  /\ ledger' = [ledger EXCEPT ![j] = @ \cup {row[j].payload}]
  /\ UNCHANGED <<gated, ended, intents, nonce, paused, server, late, agent,
                 journal, outbox, effects>>

rejectJob(j) ==
  /\ row[j].status = "pending_approval"
  /\ Write(j, [row[j] EXCEPT !.status = "rejected"])
  /\ UNCHANGED <<gated, ledger, ended, intents, nonce, paused, server, late,
                 agent, journal, outbox, effects>>

\* Something outside the service rewrites the row of a job that is not
\* finished, so that its payload or intent hash is no longer the approved one.
driftPayload(j, version) ==
  /\ row[j].status \in Undispatched \cup {"claimed"}
  /\ row[j].payload # version
  /\ Write(j, [row[j] EXCEPT !.payload = version])
  /\ UNCHANGED <<gated, ledger, ended, intents, nonce, paused, server, late,
                 agent, journal, outbox, effects>>

\* A revoked connection, a lapsed approval window or a requester who lost
\* access ends the jobs nothing has picked up.
cancelUndispatchedJobs(j) ==
  /\ row[j].status \in Undispatched
  /\ Write(j, [row[j] EXCEPT !.status = "cancelled"])
  /\ UNCHANGED <<gated, ledger, ended, intents, nonce, paused, server, late,
                 agent, journal, outbox, effects>>

\* What retirement makes of a job: unstarted work is cancelled, started real
\* work is left to a person.
retired(r) ==
  IF r.status \in Undispatched THEN [r EXCEPT !.status = "cancelled"]
  ELSE IF r.status \in InFlight /\ r.mode = "real" THEN [r EXCEPT !.recon = TRUE]
  ELSE r

\* The certificate is revoked and its management period ends.  A row some other
\* transaction holds is skipped (FOR UPDATE SKIP LOCKED); it is left to the
\* triggers, if that transaction or a later one writes it.
certops_close_management_work(j, skipped) ==
  /\ row[j].status # "absent" /\ Installs(row[j]) /\ ~ended[j]
  /\ ended' = [ended EXCEPT ![j] = TRUE]
  /\ row' = IF skipped THEN row ELSE [row EXCEPT ![j] = retired(@)]
  /\ UNCHANGED <<gated, ledger, intents, nonce, paused, server, late, agent,
                 journal, outbox, effects>>

\* The API starts and replays the lifecycle guards over retired certificates.
replayLifecycleGuards(j) ==
  /\ ended[j]
  /\ row' = [row EXCEPT ![j] =
               IF @.status \in Undispatched
                 THEN [retired(@) EXCEPT !.owner = NoAgent, !.claim = 0,
                                         !.lease = NoLease, !.renewed = FALSE]
                 ELSE retired(@)]
  /\ UNCHANGED <<gated, ledger, ended, intents, nonce, paused, server, late,
                 agent, journal, outbox, effects>>

setWorkspacePaused(p) ==
  /\ paused # p
  /\ paused' = p
  /\ UNCHANGED <<row, gated, ledger, ended, intents, nonce, server, late, agent,
                 journal, outbox, effects>>

(***************************************************************************)
(* Agent polling                                                           *)
(***************************************************************************)
\* A sequenced message of agent a was accepted: whatever a sent before it and
\* has not arrived yet is now refused by enforceAgentSequence.
Accepted(a) == late' = [late EXCEPT ![a] = {}]

\* last_seen_at = NOW(), and an offline agent is active again.
Seen(a) == server' = [server EXCEPT ![a] = [status |-> "active", recent |-> TRUE]]

recordHeartbeat(a) ==
  /\ server[a].status # "retired"
  /\ Seen(a)
  /\ Accepted(a)
  /\ UNCHANGED <<row, gated, ledger, ended, intents, nonce, paused, agent,
                 journal, outbox, effects>>

\* Slip: an agent gets its own claim again although it has not expired.
reclaimableUnexpired(a, r) ==
  /\ r.status = "claimed" /\ r.owner = a /\ r.lease # NoLease
  /\ ~r.renewed
  /\ r.attempts < MaxAttempts

\* A never-renewed claim of a itself that expired while a was away.
reclaimable(a, r) ==
  /\ r.status = "claimed" /\ r.owner = a
  /\ r.lease # NoLease /\ leaseExpired(r)
  /\ ~r.renewed
  /\ r.attempts < MaxAttempts

\* The candidate query of claimJobs.  scheduled_for, next_attempt_at and the
\* capability filters only delay or redirect a claim.
claimable(a, j) ==
  /\ row[j].status = "pending" \/ reclaimable(a, row[j])
  /\ ~ended[j]

\* Slip: a reclaim is granted on the approval its first claim was checked for.
approvalDriftedOnFirstClaim(r) ==
  r.status = "pending" /\ r.approved # 0 /\ r.approved # r.payload

approvalDrifted(r) == r.approved # 0 /\ r.approved # r.payload

\* The poll loop is serial: it asks for one job, and only while it handles none.
claimPoll(a) ==
  /\ agent[a].phase = "idle"
  /\ server[a].status # "retired"
  /\ ~paused
  /\ Seen(a)
  /\ Accepted(a)

\* The trust anchor was retired between approval and dispatch.
claimRejectsTrustJob(a, j) ==
  /\ claimPoll(a)
  /\ claimable(a, j) /\ row[j].operation = "distribute-trust"
  /\ Write(j, [row[j] EXCEPT !.status = "rejected"])
  /\ UNCHANGED <<gated, ledger, ended, intents, nonce, paused, agent, journal,
                 outbox, effects>>

\* The approval no longer covers the row: it is void and has to be given again.
\* The columns of an earlier claim stay as they are.
invalidateApprovalForClaim(a, j) ==
  /\ claimPoll(a)
  /\ claimable(a, j) /\ approvalDrifted(row[j])
  /\ Write(j, [row[j] EXCEPT !.status = "pending_approval", !.approved = 0])
  /\ UNCHANGED <<gated, ledger, ended, intents, nonce, paused, agent, journal,
                 outbox, effects>>

\* The public certificate of a deploy job is missing.
claimBlocksDeployJob(a, j) ==
  /\ claimPoll(a)
  /\ claimable(a, j) /\ ~approvalDrifted(row[j]) /\ row[j].operation = "deploy"
  /\ Write(j, [row[j] EXCEPT !.status = "blocked"])
  /\ UNCHANGED <<gated, ledger, ended, intents, nonce, paused, agent, journal,
                 outbox, effects>>

\* The claim is granted and signed.  The response may be lost: then the row is
\* claimed for an agent that does not know it.
claimJobs(a, j, delivered) ==
  /\ claimPoll(a)
  /\ claimable(a, j) /\ ~approvalDrifted(row[j])
  /\ Write(j, [row[j] EXCEPT !.status = "claimed", !.owner = a,
                             !.claim = row[j].attempts + 1, !.lease = Lease,
                             !.renewed = FALSE, !.attempts = @ + 1])
  /\ nonce' = [nonce EXCEPT ![j] = [state |-> "live", ttl |-> NonceTtl]]
  /\ agent' = IF delivered
                THEN [agent EXCEPT ![a] =
                        [phase |-> "got", job |-> j, claim |-> row[j].attempts + 1,
                         version |-> row[j].payload, abort |-> FALSE]]
                ELSE agent
  /\ UNCHANGED <<gated, ledger, ended, intents, paused, journal, outbox, effects>>

(***************************************************************************)
(* Lease renewal                                                           *)
(***************************************************************************)
renewable(a, j, c) ==
  /\ server[a].status # "retired"
  /\ row[j].owner = a /\ row[j].claim = c
  /\ row[j].status \in InFlight

\* What renewJobLease writes: the row, and the expiry of an unconsumed nonce.
renewJobLease(a, j, c) ==
  /\ renewable(a, j, c)
  /\ Write(j, [row[j] EXCEPT !.status = "running", !.lease = Lease,
                             !.renewed = TRUE])
  /\ nonce' = [nonce EXCEPT ![j] =
                 IF @.state = "live" THEN [@ EXCEPT !.ttl = NonceTtl] ELSE @]
  /\ Accepted(a)

\* A renewal the agent gave up on reaches the API after all.
deliverLateRenewal(a, j, c) ==
  /\ <<j, c>> \in late[a]
  /\ renewJobLease(a, j, c)
  /\ UNCHANGED <<gated, ledger, ended, intents, paused, server, agent, journal,
                 outbox, effects>>

(***************************************************************************)
(* The agent handles one dispatched job                                    *)
(***************************************************************************)
result(a, status) ==
  [job |-> agent[a].job, claim |-> agent[a].claim, status |-> status]

journaled(a, j) == \E c \in Claims : <<j, c>> \in journal[a]

\* persistAndTransmitOutcome without execution: the result is durable before
\* anything is sent, and the loop goes on whether or not the send succeeds.
reportWithoutExecuting(a, status) ==
  /\ outbox' = [outbox EXCEPT ![a] = @ \cup {result(a, status)}]
  /\ agent' = [agent EXCEPT ![a] = IdleAgent]

\* An envelope whose signature cannot be trusted is dropped without a result.
dropUnverifiedJob(a) ==
  /\ agent[a].phase = "got"
  /\ agent' = [agent EXCEPT ![a] = IdleAgent]
  /\ UNCHANGED <<row, gated, ledger, ended, intents, nonce, paused, server, late,
                 journal, outbox, effects>>

\* The replay cache, the clock window or the local policy refuses the job.
reportJobRejection(a) ==
  /\ agent[a].phase = "got"
  /\ reportWithoutExecuting(a, "rejected")
  /\ UNCHANGED <<row, gated, ledger, ended, intents, nonce, paused, server, late,
                 journal, effects>>

\* The mandatory renewal is confirmed, and execution starts.
confirmLease(a) ==
  /\ agent[a].phase = "got"
  /\ ~journaled(a, agent[a].job)
  /\ renewJobLease(a, agent[a].job, agent[a].claim)
  /\ agent' = [agent EXCEPT ![a].phase = "executing"]
  /\ UNCHANGED <<gated, ledger, ended, intents, paused, server, journal, outbox,
                 effects>>

\* The mandatory renewal is refused, or its answer does not come in time; in
\* that case the request may still arrive.
abortBeforeExecution(a) ==
  /\ agent[a].phase = "got"
  /\ ~journaled(a, agent[a].job)
  /\ late' = IF renewable(a, agent[a].job, agent[a].claim)
               THEN [late EXCEPT ![a] = @ \cup {<<agent[a].job, agent[a].claim>>}]
               ELSE late
  /\ reportWithoutExecuting(a, "blocked")
  /\ UNCHANGED <<row, gated, ledger, ended, intents, nonce, paused, server,
                 journal, effects>>

\* A periodic or stage-boundary renewal succeeds: an earlier abort is forgotten.
renewWhileExecuting(a) ==
  /\ agent[a].phase = "executing"
  /\ renewJobLease(a, agent[a].job, agent[a].claim)
  /\ agent' = [agent EXCEPT ![a].abort = FALSE]
  /\ UNCHANGED <<gated, ledger, ended, intents, paused, server, journal, outbox,
                 effects>>

\* It is refused, or fails too often or too late; the stage that is under way
\* runs on, and a request without an answer may still arrive.
abortWhileExecuting(a) ==
  /\ agent[a].phase = "executing"
  /\ agent' = [agent EXCEPT ![a].abort = TRUE]
  /\ late' = IF renewable(a, agent[a].job, agent[a].claim)
               THEN [late EXCEPT ![a] = @ \cup {<<agent[a].job, agent[a].claim>>}]
               ELSE late
  /\ UNCHANGED <<row, gated, ledger, ended, intents, nonce, paused, server,
                 journal, outbox, effects>>

\* Slip: a dry run reaches the mutating stage.
markMutationAnyMode(a) ==
  /\ agent[a].phase = "executing"
  /\ journal' = [journal EXCEPT ![a] = @ \cup {<<agent[a].job, agent[a].claim>>}]
  /\ UNCHANGED <<row, gated, ledger, ended, intents, nonce, paused, server, late,
                 agent, outbox, effects>>

\* The journal entry is on disk before the mutation it announces.  A dry run
\* plans and never gets here.
markMutation(a) ==
  /\ agent[a].phase = "executing"
  /\ row[agent[a].job].mode = "real"
  /\ journal' = [journal EXCEPT ![a] = @ \cup {<<agent[a].job, agent[a].claim>>}]
  /\ UNCHANGED <<row, gated, ledger, ended, intents, nonce, paused, server, late,
                 agent, outbox, effects>>

effect(a) == [agent |-> a, job |-> agent[a].job, claim |-> agent[a].claim,
              version |-> agent[a].version]

\* A key, an order at the CA, an installed file, a reloaded service.
mutate(a) ==
  /\ agent[a].phase = "executing"
  /\ <<agent[a].job, agent[a].claim>> \in journal[a]
  /\ effects' = effects \cup {effect(a)}
  /\ UNCHANGED <<row, gated, ledger, ended, intents, nonce, paused, server, late,
                 agent, journal, outbox>>

\* Slip: a dry run that completed is reported as a success.
outcomesOfPlan(a) ==
  {"failed", "blocked", "rejected"} \cup
  (IF row[agent[a].job].mode = "dry_run" \/ effect(a) \in effects
     THEN {"succeeded"} ELSE {}) \cup
  (IF <<agent[a].job, agent[a].claim>> \in journal[a]
     THEN {"orphaned_unknown_effect"} ELSE {})

\* What executeJob can return.
outcomes(a) ==
  {"failed", "blocked", "rejected"} \cup
  (IF row[agent[a].job].mode = "dry_run" THEN {"dry_run_complete"} ELSE {}) \cup
  (IF effect(a) \in effects THEN {"succeeded"} ELSE {}) \cup
  (IF <<agent[a].job, agent[a].claim>> \in journal[a]
     THEN {"orphaned_unknown_effect"} ELSE {})

\* A lost lease turns a clean outcome into blocked.
withAbort(a, outcome) ==
  IF agent[a].abort /\ outcome \in {"succeeded", "dry_run_complete"}
    THEN "blocked" ELSE outcome

persistOutcome(a, outcome) ==
  /\ agent[a].phase = "executing"
  /\ outcome \in outcomes(a)
  /\ outbox' = [outbox EXCEPT ![a] = @ \cup {result(a, withAbort(a, outcome))}]
  /\ agent' = [agent EXCEPT ![a].phase = "reporting"]
  /\ UNCHANGED <<row, gated, ledger, ended, intents, nonce, paused, server, late,
                 journal, effects>>

\* After the first attempt to send the result, delivered or not.
clearJournalOnTerminal(a) ==
  /\ agent[a].phase = "reporting"
  /\ journal' = [journal EXCEPT ![a] = @ \ {<<agent[a].job, agent[a].claim>>}]
  /\ agent' = [agent EXCEPT ![a] = IdleAgent]
  /\ UNCHANGED <<row, gated, ledger, ended, intents, nonce, paused, server, late,
                 outbox, effects>>

\* The process dies and restarts; the journal and the outbox are on disk.
crash(a) ==
  /\ agent[a].phase # "idle"
  /\ agent' = [agent EXCEPT ![a] = IdleAgent]
  /\ UNCHANGED <<row, gated, ledger, ended, intents, nonce, paused, server, late,
                 journal, outbox, effects>>

(***************************************************************************)
(* Result ingestion and the agent's durable outbox                         *)
(***************************************************************************)
\* The outbox is sent from by the poll loop, or right after a job's outcome.
transmitting(a, r) == r \in outbox[a] /\ agent[a].phase \in {"idle", "reporting"}

\* The reporting agent must still hold this claim.
holdsClaim(a, r) ==
  /\ server[a].status # "retired"
  /\ row[r.job].owner = a /\ row[r.job].claim = r.claim

acknowledge(a, r) == outbox' = [outbox EXCEPT ![a] = @ \ {r}]

nonceConsumable(j) == nonce[j].state = "live" /\ nonce[j].ttl > 0

\* The result is applied.  The claim columns stay, so the same report can be
\* recognised again; the acknowledgement may be lost.
ingestResult(a, r, acked) ==
  /\ transmitting(a, r) /\ holdsClaim(a, r)
  /\ nonceConsumable(r.job)
  /\ row[r.job].status \in InFlight
  /\ Write(r.job, [row[r.job] EXCEPT !.status = r.status, !.lease = NoLease,
                     !.recon = @ \/ r.status = "orphaned_unknown_effect"])
  /\ nonce' = [nonce EXCEPT ![r.job].state = "used"]
  /\ enqueueOutboxEvent({r.job}, r.status)
  /\ Accepted(a)
  /\ IF acked THEN acknowledge(a, r) ELSE UNCHANGED outbox
  /\ UNCHANGED <<gated, ledger, ended, paused, server, agent, journal, effects>>

\* The same terminal outcome again is acknowledged, and nothing is written.
isDuplicateResult(a, r) ==
  /\ holdsClaim(a, r)
  /\ nonce[r.job].state = "used"
  /\ row[r.job].status = r.status

acknowledgeDuplicate(a, r) ==
  /\ transmitting(a, r) /\ isDuplicateResult(a, r)
  /\ acknowledge(a, r)
  /\ UNCHANGED <<row, gated, ledger, ended, intents, nonce, paused, server, late,
                 agent, journal, effects>>

\* Ownership mismatch, rejected nonce, a job that is not in flight, or a retired
\* agent: a permanent failure, and the entry is moved to the dead letters.
quarantine(a, r) ==
  /\ transmitting(a, r)
  /\ ~isDuplicateResult(a, r)
  /\ ~( /\ holdsClaim(a, r) /\ nonceConsumable(r.job)
        /\ row[r.job].status \in InFlight)
  /\ acknowledge(a, r)
  /\ UNCHANGED <<row, gated, ledger, ended, intents, nonce, paused, server, late,
                 agent, journal, effects>>

\* The transient retry window closes, or the prune drops an old entry.
giveUpOnResult(a, r) ==
  /\ transmitting(a, r)
  /\ acknowledge(a, r)
  /\ UNCHANGED <<row, gated, ledger, ended, intents, nonce, paused, server, late,
                 agent, journal, effects>>

(***************************************************************************)
(* The executor lane: a machine token reports progress of a job            *)
(***************************************************************************)
JOB_STATUS_BY_EVENT_TYPE == {"claimed", "running", "succeeded", "failed", "rejected"}

ingestExecutorEvent(j, s) ==
  /\ row[j].status # "absent"
  /\ s \in JOB_STATUS_TRANSITIONS[row[j].status]
  /\ ~(s \in TERMINAL_JOB_STATUSES /\ row[j].owner # NoAgent)
  /\ ~(s = "succeeded" /\ row[j].mode = "dry_run")
  /\ Write(j, [row[j] EXCEPT !.status = s])
  /\ enqueueOutboxEvent({j}, Stored(j, [row[j] EXCEPT !.status = s]).status)
  /\ UNCHANGED <<gated, ledger, ended, nonce, paused, server, late, agent,
                 journal, outbox, effects>>

(***************************************************************************)
(* Maintenance sweeps                                                      *)
(***************************************************************************)
agentAlive(r) == r.owner \in Agents /\ server[r.owner] = [status |-> "active", recent |-> TRUE]

\* Slip: a renewal is taken to leave the job claimed.
sideEffectsOfRenewedClaim(r) == r.status = "claimed" /\ r.renewed

sideEffectsPossible(r) == r.status = "running" \/ r.renewed

\* Slip: a heartbeating agent keeps its expired lease for ever.
reapableWhenSilent(r) ==
  r.status \in InFlight /\ r.lease # NoLease /\ leaseExpired(r) /\ ~agentAlive(r)

reapable(r) ==
  /\ r.status \in InFlight /\ r.lease # NoLease /\ leaseExpired(r)
  /\ ~agentAlive(r) \/ pastHardGrace(r)

\* No side effect is proven: the job waits for another claim.
requeued(r) ==
  [r EXCEPT !.status = "pending", !.owner = NoAgent, !.claim = 0,
            !.lease = NoLease, !.renewed = FALSE]

\* Slip: the orphaned job is not flagged for reconciliation.
orphanedUnflagged(r) ==
  [r EXCEPT !.status = "orphaned_unknown_effect", !.owner = NoAgent,
            !.claim = 0, !.lease = NoLease]

\* Side effects are unknown: a person has to reconcile them.
orphaned(r) ==
  [r EXCEPT !.status = "orphaned_unknown_effect", !.recon = TRUE,
            !.owner = NoAgent, !.claim = 0, !.lease = NoLease]

\* The retry budget is exhausted.
expired(r) ==
  [r EXCEPT !.status = "failed", !.owner = NoAgent, !.claim = 0,
            !.lease = NoLease, !.renewed = FALSE]

\* Slip: a claim that never started is requeued whatever its attempts.
reapedWithoutBudget(r) == IF sideEffectsPossible(r) THEN orphaned(r) ELSE requeued(r)

reaped(r) ==
  IF sideEffectsPossible(r) THEN orphaned(r)
  ELSE IF r.attempts < MaxAttempts THEN requeued(r)
  ELSE expired(r)

\* One transaction over a batch of expired leases (rows locked elsewhere are
\* skipped); rows of live agents inside the hard grace are left alone.
reapExpiredLeases(S) ==
  /\ S # {}
  /\ \A j \in S : reapable(row[j])
  /\ row' = [j \in Jobs |-> IF j \in S THEN Stored(j, reaped(row[j])) ELSE row[j]]
  /\ intents' = [j \in Jobs |-> \/ intents[j]
                                \/ j \in S /\ alertWorthy(row[j], reaped(row[j]).status)]
  /\ UNCHANGED <<gated, ledger, ended, nonce, paused, server, late, agent,
                 journal, outbox, effects>>

sweepStaleAgents(a) ==
  /\ server[a] = [status |-> "active", recent |-> FALSE]
  /\ server' = [server EXCEPT ![a].status = "offline"]
  /\ UNCHANGED <<row, gated, ledger, ended, intents, nonce, paused, late, agent,
                 journal, outbox, effects>>

sweepExpiredNonces(j) ==
  /\ nonce[j].state # "none" /\ nonce[j].ttl < -SweepGrace
  /\ nonce' = [nonce EXCEPT ![j] = [state |-> "none", ttl |-> 0]]
  /\ UNCHANGED <<row, gated, ledger, ended, intents, paused, server, late, agent,
                 journal, outbox, effects>>

(***************************************************************************)
(* Agent retirement                                                        *)
(***************************************************************************)
activelyLeased(a) == {j \in Jobs : /\ row[j].owner = a /\ row[j].status \in InFlight
                                   /\ leaseLive(row[j])}

\* A claim that never started is cancelled, a running one is orphaned.
fenceAgentInFlightWork(r) ==
  IF r.status = "claimed"
    THEN [r EXCEPT !.status = "cancelled", !.lease = 0]
    ELSE [r EXCEPT !.status = "orphaned_unknown_effect", !.recon = TRUE, !.lease = 0]

\* Without force, an agent that holds live leases is not retired.
retireAgent(a, force) ==
  /\ server[a].status # "retired"
  /\ force \/ activelyLeased(a) = {}
  /\ server' = [server EXCEPT ![a].status = "retired"]
  /\ row' = [j \in Jobs |-> IF j \in activelyLeased(a)
                              THEN Stored(j, fenceAgentInFlightWork(row[j]))
                              ELSE row[j]]
  /\ enqueueOutboxEvent(activelyLeased(a), "orphaned_unknown_effect")
  /\ UNCHANGED <<gated, ledger, ended, nonce, paused, late, agent, journal,
                 outbox, effects>>

(***************************************************************************)
(* Time                                                                    *)
(***************************************************************************)
\* No contact for DEFAULT_AGENT_OFFLINE_AFTER_MS.
goSilent(a) ==
  /\ server[a].recent
  /\ server' = [server EXCEPT ![a].recent = FALSE]
  /\ UNCHANGED <<row, gated, ledger, ended, intents, nonce, paused, late, agent,
                 journal, outbox, effects>>

countdown(t, least) == IF t > least THEN t - 1 ELSE t

tick ==
  /\ row' = [j \in Jobs |->
               IF row[j].lease = NoLease THEN row[j]
               ELSE [row[j] EXCEPT !.lease = countdown(@, -HardGrace - 1)]]
  /\ nonce' = [j \in Jobs |->
                 IF nonce[j].state = "none" THEN nonce[j]
                 ELSE [nonce[j] EXCEPT !.ttl = countdown(@, -SweepGrace - 1)]]
  /\ UNCHANGED <<gated, ledger, ended, intents, paused, server, late, agent,
                 journal, outbox, effects>>

(***************************************************************************)
(* Specification                                                           *)
(***************************************************************************)
Init ==
  /\ row = [j \in Jobs |-> Absent]
  /\ gated = [j \in Jobs |-> FALSE]
  /\ ledger = [j \in Jobs |-> {}]
  /\ ended = [j \in Jobs |-> FALSE]
  /\ intents = [j \in Jobs |-> FALSE]
  /\ nonce = [j \in Jobs |-> [state |-> "none", ttl |-> 0]]
  /\ paused = FALSE
  /\ server = [a \in Agents |-> [status |-> "active", recent |-> TRUE]]
  /\ late = [a \in Agents |-> {}]
  /\ agent = [a \in Agents |-> IdleAgent]
  /\ journal = [a \in Agents |-> {}]
  /\ outbox = [a \in Agents |-> {}]
  /\ effects = {}

\* People and other services acting on jobs.
JobNext(j) ==
  \/ \E op \in Operations, mode \in Modes, v \in Versions, g \in BOOLEAN :
       createCertificateJob(j, op, mode, v, g)
  \/ approveJob(j)
  \/ rejectJob(j)
  \/ \E v \in Versions : driftPayload(j, v)
  \/ cancelUndispatchedJobs(j)
  \/ \E skipped \in BOOLEAN : certops_close_management_work(j, skipped)
  \/ replayLifecycleGuards(j)
  \/ \E s \in JOB_STATUS_BY_EVENT_TYPE : ingestExecutorEvent(j, s)
  \/ sweepExpiredNonces(j)

\* Agent a's requests about job j.
ClaimNext(a, j) ==
  \/ claimRejectsTrustJob(a, j)
  \/ invalidateApprovalForClaim(a, j)
  \/ claimBlocksDeployJob(a, j)
  \/ \E delivered \in BOOLEAN : claimJobs(a, j, delivered)
  \/ \E c \in Claims : deliverLateRenewal(a, j, c)

ResultNext(a, r) ==
  \/ \E acked \in BOOLEAN : ingestResult(a, r, acked)
  \/ acknowledgeDuplicate(a, r)
  \/ quarantine(a, r)
  \/ giveUpOnResult(a, r)

AgentNext(a) ==
  \/ recordHeartbeat(a)
  \/ dropUnverifiedJob(a)
  \/ reportJobRejection(a)
  \/ confirmLease(a)
  \/ abortBeforeExecution(a)
  \/ renewWhileExecuting(a)
  \/ abortWhileExecuting(a)
  \/ markMutation(a)
  \/ mutate(a)
  \/ \E outcome \in RESULT_STATUSES : persistOutcome(a, outcome)
  \/ clearJournalOnTerminal(a)
  \/ crash(a)
  \/ \E r \in outbox[a] : ResultNext(a, r)
  \/ \E j \in Jobs : ClaimNext(a, j)
  \/ sweepStaleAgents(a)
  \/ goSilent(a)
  \/ \E force \in BOOLEAN : retireAgent(a, force)

Next ==
  \/ \E j \in Jobs : JobNext(j)
  \/ \E a \in Agents : AgentNext(a)
  \/ \E S \in SUBSET Jobs : reapExpiredLeases(S)
  \/ \E p \in BOOLEAN : setWorkspacePaused(p)
  \/ tick

Spec == Init /\ [][Next]_vars

\* The clock runs, the maintenance worker's cron runs the lease reaper again and
\* again, and an execution ends (its commands have timeouts).  Nothing is assumed
\* of the network, of a crashed agent, of other agents or of people.
Fairness ==
  /\ WF_vars(tick)
  /\ \A j \in Jobs : WF_vars(reapExpiredLeases({j}))
  /\ \A a \in Agents : WF_vars(\E outcome \in RESULT_STATUSES : persistOutcome(a, outcome))

FairSpec == Spec /\ Fairness

(***************************************************************************)
(* Properties                                                              *)
(***************************************************************************)
RowType ==
  [status : JOB_STATUSES \cup {"absent"}, operation : Operations \cup {"none"},
   mode : Modes \cup {"none"}, owner : Agents \cup {NoAgent},
   claim : 0..MaxAttempts, lease : (-HardGrace - 1)..NoLease,
   renewed : BOOLEAN, attempts : 0..MaxAttempts, recon : BOOLEAN,
   payload : Versions \cup {0}, approved : Versions \cup {0}]

\* Types.  attempts \in 0..MaxAttempts is more than a type: the claim of a
\* pending job does not look at max_attempts, and it is only the lease reaper
\* and the reclaim filter that keep an exhausted job from becoming pending.
TypeOK ==
  /\ row \in [Jobs -> RowType]
  /\ gated \in [Jobs -> BOOLEAN]
  /\ ledger \in [Jobs -> SUBSET Versions]
  /\ ended \in [Jobs -> BOOLEAN]
  /\ intents \in [Jobs -> BOOLEAN]
  /\ nonce \in [Jobs -> [state : {"none", "live", "used"},
                         ttl : (-SweepGrace - 1)..NonceTtl]]
  /\ paused \in BOOLEAN
  /\ server \in [Agents -> [status : {"active", "offline", "retired"}, recent : BOOLEAN]]
  /\ late \in [Agents -> SUBSET (Jobs \X Claims)]
  /\ agent \in [Agents -> [phase : {"idle", "got", "executing", "reporting"},
                           job : Jobs \cup {NoJob}, claim : 0..MaxAttempts,
                           version : Versions \cup {0}, abort : BOOLEAN]]
  /\ journal \in [Agents -> SUBSET (Jobs \X Claims)]
  /\ outbox \in [Agents -> SUBSET [job : Jobs, claim : Claims, status : RESULT_STATUSES]]
  /\ effects \in SUBSET [agent : Agents, job : Jobs, claim : Claims, version : Versions]

\* No job is carried out twice: all side effects of a job belong to one claim,
\* whatever leases expire, agents crash and reclaim, or messages arrive late.
\* (The reaper's "Never silently requeue", certops-worker.js.)
AtMostOneEffectfulClaim ==
  \A e, f \in effects : e.job = f.job => e.claim = f.claim /\ e.agent = f.agent

\* Every side effect is accounted for: the job says so itself (it runs under
\* that very claim, or ended with that claim's report), or a person is asked to
\* reconcile it.
EffectsAccounted ==
  \A e \in effects :
    LET r == row[e.job] IN
      \/ r.recon
      \/ /\ r.owner = e.agent /\ r.claim = e.claim
         /\ r.status \in {"running"} \cup RESULT_STATUSES

\* A job created awaiting approval only ever causes the effects of a payload a
\* person approved, however often the row drifts and is approved again.
EffectsWereApproved ==
  \A e \in effects : gated[e.job] => e.version \in ledger[e.job]

\* A dry run changes nothing, not even through a journal left by a crash.
DryRunIsHarmless ==
  \A j \in Jobs : row[j].mode = "dry_run" =>
    /\ \A e \in effects : e.job # j
    /\ row[j].status # "succeeded"

\* The control plane never dispatches a job again to the machine whose journal
\* says that an earlier attempt reached its side effects: what handleSignedJob
\* would refuse ("refusing automatic re-execution") is not even offered to it.
JournalNeverNeeded ==
  \A a \in Agents : agent[a].phase = "got" => ~journaled(a, agent[a].job)

\* While a claim can still be reported in time (its lease is at most the hard
\* grace past expiry), its nonce has not expired: a result is never turned away
\* for having waited.
ResultWindowOpen ==
  \A j \in Jobs :
    /\ row[j].status \in InFlight /\ row[j].owner # NoAgent
    /\ ~pastHardGrace(row[j])
    /\ nonce[j].state = "live"
    => nonce[j].ttl > 0

\* A renewal that ended badly without a person deciding so always has its alert
\* intent, from whichever of the lanes it ended.
AlertComplete ==
  \A j \in Jobs :
    /\ row[j].operation = "renew"
    /\ row[j].status \in {"failed", "blocked", "orphaned_unknown_effect"}
    => intents[j]

\* Work of a retired certificate that has not started never starts, on either
\* lane, even when retirement had to skip its locked row.
RetiredWorkNeverStarts ==
  [][\A j \in Jobs :
       ended[j] /\ row[j].status \in Undispatched => row'[j].status \notin InFlight]_vars

\* Retirement that overlaps an execution is always left to a person: a started
\* real job of a retired certificate does not change its status unflagged, even
\* when retirement had to skip its locked row.
RetirementOverlapFlagged ==
  [][\A j \in Jobs :
       /\ ended[j] /\ row[j].status \in InFlight /\ row[j].mode = "real"
       /\ row'[j].status # row[j].status
       => row'[j].recon]_vars

\* A terminal status is final: no late result, late renewal, executor event or
\* sweep moves a job that has ended.
TerminalIsFinal ==
  [][\A j \in Jobs :
       row[j].status \in TERMINAL_JOB_STATUSES => row'[j].status = row[j].status]_vars

\* A claim does not change hands, and is not granted again, while its lease is
\* live; it can only be given up.
LiveLeaseIsExclusive ==
  [][\A j \in Jobs :
       row[j].status \in InFlight /\ leaseLive(row[j]) /\ row[j].owner # NoAgent
         => row'[j].owner \in {row[j].owner, NoAgent} /\ row'[j].claim \in {row[j].claim, 0}]_vars

held(j) == row[j].status \in InFlight /\ row[j].owner # NoAgent

\* No job stays in the hands of an agent for ever: it is reported, requeued,
\* failed or orphaned, whatever becomes of the agent and of its messages.
HeldJobIsReleased == \A j \in Jobs : held(j) ~> ~held(j)

(***************************************************************************)
(* The contract of a job                                                   *)
(***************************************************************************)
phaseOf(r) ==
  IF r.status = "absent" THEN "absent"
  ELSE IF r.status \in Undispatched \cup {"claimed"} THEN "open"
  ELSE IF r.status = "running" THEN "started" ELSE "ended"

Contract == INSTANCE JobContract WITH
  phase <- [j \in Jobs |-> phaseOf(row[j])],
  holder <- [j \in Jobs |-> row[j].owner],
  flagged <- [j \in Jobs |-> row[j].recon],
  doers <- [j \in Jobs |-> {e.agent : e \in {f \in effects : f.job = j}}]

\* Claims, leases, requeues, late messages and crashes do not show: a job is
\* carried out by one agent, while it runs under that agent's claim or a person
\* has been asked to reconcile it.
ImplementsContract == Contract!Spec

(***************************************************************************)
(* The inductive invariant behind the safety properties                    *)
(***************************************************************************)
\* A claim that was confirmed leaves the job in one of these for good.
EffectStatuses == {"running"} \cup RESULT_STATUSES

\* What every stored row satisfies; g and l are its gated flag and ledger.
RowOK(r, g, l) ==
  /\ r.claim \in {0, r.attempts}
  /\ r.renewed => r.status \in {"running"} \cup TERMINAL_JOB_STATUSES
  /\ r.status \in Undispatched => r.attempts < MaxAttempts
  /\ r.status # "absent" => r.payload \in Versions
  /\ g /\ r.status \in {"pending"} \cup InFlight => r.approved \in l

RowInv == \A j \in Jobs : RowOK(row[j], gated[j], ledger[j])

\* Agent a confirmed claim c of job j: no other claim of j can follow, and the
\* job names the claim or is flagged.
Started(a, j, c) ==
  /\ row[j].attempts = c
  /\ row[j].status \in EffectStatuses
  /\ row[j].recon \/ (row[j].owner = a /\ row[j].claim = c)

\* A busy agent holds a claim of its own that was granted, for a version that
\* was approved if the job needs it, and executes only a confirmed one.
HolderInv ==
  \A a \in Agents : agent[a].phase # "idle" =>
    /\ agent[a].job \in Jobs
    /\ agent[a].claim \in 1..row[agent[a].job].attempts
    /\ agent[a].version \in Versions
    /\ gated[agent[a].job] => agent[a].version \in ledger[agent[a].job]
    /\ row[agent[a].job].status # "absent"
    /\ agent[a].phase = "executing" => Started(a, agent[a].job, agent[a].claim)
    /\ agent[a].phase = "got" => ~journaled(a, agent[a].job)
    /\ \A b \in Agents :
         agent[b].phase # "idle" /\ agent[b].job = agent[a].job
           /\ agent[b].claim = agent[a].claim => b = a

JournalInv ==
  \A a \in Agents : \A m \in journal[a] :
    row[m[1]].status \in EffectStatuses /\ row[m[1]].mode = "real"

EffectInv ==
  \A e \in effects :
    /\ Started(e.agent, e.job, e.claim)
    /\ row[e.job].mode = "real"
    /\ gated[e.job] => e.version \in ledger[e.job]
    /\ \A a \in Agents :
         agent[a].phase # "idle" /\ agent[a].job = e.job /\ agent[a].claim = e.claim
           => a = e.agent
    /\ \A f \in effects : e.job = f.job => e.agent = f.agent

\* The inductive invariant: every step of the code preserves it, and it implies
\* the properties about side effects above.
IInv == TypeOK /\ RowInv /\ HolderInv /\ JournalInv /\ EffectInv

(***************************************************************************)
(* The inductive invariant behind the contract, alerts, dry runs and       *)
(* result windows                                                          *)
(***************************************************************************)
\* Only jobs with a management period have theirs closed, and a job that is not
\* there is not flagged.
EndedInv ==
  \A j \in Jobs : /\ ended[j] => row[j].status # "absent" /\ Installs(row[j])
                  /\ row[j].recon => row[j].status # "absent"

\* A result waiting on an agent's disk is about a claim that was granted and
\* that the agent is done with, and reports success only of a real job.
OutboxInv ==
  \A a \in Agents : \A r \in outbox[a] :
    /\ row[r.job].status # "absent"
    /\ r.claim <= row[r.job].attempts
    /\ agent[a].phase \in {"got", "executing"} =>
         ~(r.job = agent[a].job /\ r.claim = agent[a].claim)
    /\ r.status = "succeeded" => row[r.job].mode = "real"

\* An agent executes a job that still runs, or that a person will reconcile.
SupervisedInv ==
  \A a \in Agents : agent[a].phase = "executing" =>
    row[agent[a].job].status = "running" \/ row[agent[a].job].recon

\* The job has not ended and names an agent; the columns of a void claim stay
\* when its approval is invalidated, so it may be waiting again.
HoldsLease(r) == r.status \in Undispatched \cup InFlight /\ r.owner # NoAgent

\* Lease and nonce run down together, and the nonce started with the hard grace
\* and the slack on top.
NonceInv ==
  \A j \in Jobs : HoldsLease(row[j]) /\ nonce[j].state = "live" =>
    /\ row[j].lease # NoLease
    /\ ~pastHardGrace(row[j]) => nonce[j].ttl >= row[j].lease + HardGrace + NonceSlack

\* With IInv, every step of the code preserves it.
LaneInv ==
  /\ EndedInv /\ OutboxInv /\ SupervisedInv /\ NonceInv
  /\ AlertComplete /\ DryRunIsHarmless
==============================================================================
