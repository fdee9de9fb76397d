---------------------------- MODULE CertOpsOutbox ----------------------------
(***************************************************************************)
(* The CertOps transactional outbox: intents recorded with the transaction *)
(* that decided them (apps/api/services/certops/outbox.js), and the drain  *)
(* of the maintenance worker that carries them out                         *)
(* (drainCertOpsOutbox in apps/worker/src/certops-worker.js).  Two kinds   *)
(* of intent are modelled: a renewal profile to be derived once a job has  *)
(* succeeded, and an alert to be queued for a renewal that failed.         *)
(*                                                                         *)
(* Several drains may run at once: other worker processes, and a drain     *)
(* that outlived its timeout and goes on in the background.  A drain is    *)
(* its claim id; the id is fresh, which here means that no row bears it.   *)
(* Time is not measured: a lease may run out, a retry become due and a     *)
(* deadline pass at any moment.                                            *)
(***************************************************************************)
EXTENDS Integers

CONSTANTS
  Intents,        \* certops_outbox ids; each has a job of its own
  Certificates,   \* managed_certificates ids
  NoCertificate,  \* the intent is not about a certificate
  NoProfile,      \* profile_id IS NULL
  OtherProfile,   \* a profile that no intent of ours derived
  Drains,         \* claim ids of drains
  NoDrain,        \* claim_id IS NULL
  NoIntent,       \* a drain between two rows
  MaxAttempts,    \* certops_outbox.max_attempts
  LateDrains      \* may a lease run out under a drain that is still working?

ASSUME ProfilesAssumption == NoProfile \notin Intents \cup {OtherProfile}
ASSUME CertificatesAssumption == NoCertificate \notin Certificates
ASSUME DrainsAssumption == NoDrain \notin Drains
ASSUME IntentsAssumption == NoIntent \notin Intents /\ OtherProfile \notin Intents
ASSUME AttemptsAssumption == MaxAttempts \in Nat \ {0}
ASSUME LateDrainsAssumption == LateDrains \in BOOLEAN

VARIABLES
  outbox,   \* certops_outbox: one record per row
  job,      \* the job an intent waits for
  overdue,  \* the intent is older than the adoption wait deadline
  profile,  \* managed_certificates.profile_id, by the intent it was derived for
  alerts,   \* alert_queue: the intents whose alert is queued
  drain,    \* a run of drainCertOpsOutbox: rows to go, current row, next step
  stale,    \* history: intents that existed when their certificate was detached
  failures, \* history: attempts at the row that failed, since it was last retried
  lost      \* history: claims of the row that were taken over, since then

vars == <<outbox, job, overdue, profile, alerts, drain, stale, failures, lost>>

DERIVATION == "profile_derivation_requested"
ALERT == "renewal_alert_requested"

Absent == [event |-> "none", status |-> "absent", cert |-> NoCertificate,
           claim |-> NoDrain, leased |-> FALSE, due |-> FALSE, attempts |-> 0]

IdleDrain == [batch |-> {}, row |-> NoIntent, step |-> "none"]

\* Bound: attempt_count is only compared with max_attempts, so it and the
\* history are counted up to one more than that.
AttemptCap == MaxAttempts + 1

plusOne(n) == IF n < AttemptCap THEN n + 1 ELSE n

(***************************************************************************)
(* Recording intents, and the decisions of people                          *)
(***************************************************************************)
enqueueOutboxEvent(i, event, c) ==
  /\ outbox[i].status = "absent"
  /\ outbox' = [outbox EXCEPT ![i] = [Absent EXCEPT
                  !.event = event, !.status = "pending", !.cert = c, !.due = TRUE]]

\* "Set up automatic renewal": the job and its intent are created together, for
\* a certificate that has no profile.
renewalSetupJobCreator(i, c) ==
  /\ profile[c] = NoProfile
  /\ enqueueOutboxEvent(i, DERIVATION, c)
  /\ job' = [job EXCEPT ![i] = "active"]
  /\ UNCHANGED <<overdue, profile, alerts, drain, stale, failures, lost>>

\* The job reaches a terminal status, of which only succeeded leads to a profile.
jobEnds(i, status) ==
  /\ job[i] = "active"
  /\ job' = [job EXCEPT ![i] = status]
  /\ UNCHANGED <<outbox, overdue, profile, alerts, drain, stale, failures, lost>>

\* A renewal ends badly, and its alert is decided with it.
requestRenewalAlert(i) ==
  /\ enqueueOutboxEvent(i, ALERT, NoCertificate)
  /\ job' = [job EXCEPT ![i] = "failed"]
  /\ UNCHANGED <<overdue, profile, alerts, drain, stale, failures, lost>>

\* Slip: a parked intent is not invalidated.
pendingOnly == {"pending"}

REVIVABLE_OUTBOX_STATUSES == {"pending", "failed"}

invalidated(r, c) ==
  IF r.event = DERIVATION /\ r.cert = c /\ r.status \in REVIVABLE_OUTBOX_STATUSES
    THEN [r EXCEPT !.status = "skipped", !.claim = NoDrain, !.leased = FALSE]
    ELSE r

\* One transaction: the certificate loses its profile, and every intent that
\* could give it one again is void.
detachRenewalProfile(c) ==
  /\ profile[c] # NoProfile
  /\ profile' = [profile EXCEPT ![c] = NoProfile]
  /\ outbox' = [i \in Intents |-> invalidated(outbox[i], c)]
  /\ stale' = stale \cup {i \in Intents : outbox[i].cert = c}
  /\ UNCHANGED <<job, overdue, alerts, drain, failures, lost>>

\* A parked intent is put back by its operator; alerts have no such route.
retryRenewalSetupIntent(i) ==
  /\ outbox[i].event = DERIVATION /\ outbox[i].status = "failed"
  /\ outbox' = [outbox EXCEPT ![i].status = "pending", ![i].attempts = 0,
                              ![i].due = TRUE, ![i].claim = NoDrain,
                              ![i].leased = FALSE]
  /\ failures' = [failures EXCEPT ![i] = 0]
  /\ lost' = [lost EXCEPT ![i] = 0]
  /\ UNCHANGED <<job, overdue, profile, alerts, drain, stale>>

\* Management starts again with a chosen profile or without one; issuance and
\* publication link one of their own.  No intent is touched.
linkProfile(c, p) ==
  /\ p \in {NoProfile, OtherProfile} /\ profile[c] # p
  /\ profile' = [profile EXCEPT ![c] = p]
  /\ UNCHANGED <<outbox, job, overdue, alerts, drain, stale, failures, lost>>

(***************************************************************************)
(* The drain                                                               *)
(***************************************************************************)
claimable(r) == r.status = "pending" /\ r.due /\ (r.claim = NoDrain \/ ~r.leased)

\* The claim of a batch commits before any work is done for it.  A row another
\* transaction holds is skipped, and a batch has its limit: any rows may be left.
drainCertOpsOutbox(d, S) ==
  /\ drain[d] = IdleDrain
  /\ \A i \in Intents : outbox[i].claim # d
  /\ S # {}
  /\ \A i \in S : claimable(outbox[i])
  /\ outbox' = [i \in Intents |->
                  IF i \in S THEN [outbox[i] EXCEPT !.claim = d, !.leased = TRUE,
                                                    !.attempts = plusOne(@)]
                  ELSE outbox[i]]
  /\ lost' = [i \in Intents |->
                IF i \in S /\ outbox[i].claim # NoDrain THEN plusOne(lost[i]) ELSE lost[i]]
  /\ drain' = [drain EXCEPT ![d] = [IdleDrain EXCEPT !.batch = S]]
  /\ UNCHANGED <<job, overdue, profile, alerts, stale, failures>>

\* Row i is taken up, and step is what its handler does next.
takeUp(d, i, step) ==
  /\ i \in drain[d].batch /\ drain[d].row = NoIntent
  /\ drain' = [drain EXCEPT ![d] = [batch |-> drain[d].batch \ {i}, row |-> i, step |-> step]]

\* The loop goes on with the next row.
rowDone(d) == drain' = [drain EXCEPT ![d].row = NoIntent, ![d].step = "none"]

\* Slip: an intent waits for its job, however long that takes.
jobVerdictWithoutDeadline(i) ==
  CASE job[i] = "succeeded" -> "derive"
    [] job[i] = "failed" -> "skipped"
    [] OTHER -> "defer"

\* The handler of an adoption intent reads the job, outside any transaction.
jobVerdict(i) ==
  CASE job[i] = "succeeded" -> "derive"
    [] job[i] = "failed" -> "skipped"
    [] OTHER -> IF overdue[i] THEN "skipped" ELSE "defer"

handleProfileDerivationIntent(d, i) ==
  /\ outbox[i].event = DERIVATION
  /\ takeUp(d, i, jobVerdict(i))
  /\ UNCHANGED <<outbox, job, overdue, profile, alerts, stale, failures, lost>>

\* The alert handler finds the alert already queued, or nobody to send it to, or
\* goes on to queue it.
queueCertRenewalFailedAlert(d, i, step) ==
  /\ outbox[i].event = ALERT
  /\ step \in IF i \in alerts THEN {"skipped"} ELSE {"skipped", "insert"}
  /\ takeUp(d, i, step)
  /\ UNCHANGED <<outbox, job, overdue, profile, alerts, stale, failures, lost>>

\* A query of the handler or of the loop fails, or the handler's transaction is
\* rolled back: no profile could be derived, or it was chosen as a deadlock victim.
handlerThrows(d) ==
  /\ \/ /\ drain[d].step \notin {"none", "throw"}
        /\ drain' = [drain EXCEPT ![d].step = "throw"]
     \/ \E i \in drain[d].batch : takeUp(d, i, "throw")
  /\ UNCHANGED <<outbox, job, overdue, profile, alerts, stale, failures, lost>>

\* The alert is inserted, unless another drain was faster: its key is unique.
insertAlert(d) ==
  /\ drain[d].step = "insert"
  /\ alerts' = alerts \cup {drain[d].row}
  /\ drain' = [drain EXCEPT ![d].step =
                 IF drain[d].row \in alerts THEN "throw" ELSE "succeeded"]
  /\ UNCHANGED <<outbox, job, overdue, profile, stale, failures, lost>>

\* Slip: the handler does not look at its own row again.
ownsRowWithoutLook(d) == TRUE

ownsRow(d) ==
  outbox[drain[d].row].claim = d /\ outbox[drain[d].row].status = "pending"

\* What every terminal write leaves of the row.
completed(r, status) ==
  [r EXCEPT !.status = status, !.claim = NoDrain, !.leased = FALSE]

\* The transaction of the handler: it does nothing unless the row is still its
\* own and pending, ends the row without a profile (the certificate has one, or
\* there is no evidence that the run worked), or derives the profile.
deriveProfile(d) ==
  LET i == drain[d].row
      c == outbox[i].cert
  IN
  /\ drain[d].step = "derive"
  /\ \/ ~ownsRow(d) /\ UNCHANGED <<outbox, profile>>
     \/ /\ ownsRow(d)
        /\ outbox' = [outbox EXCEPT ![i] = completed(@, "skipped")]
        /\ UNCHANGED profile
     \/ /\ ownsRow(d) /\ profile[c] = NoProfile
        /\ outbox' = [outbox EXCEPT ![i] = completed(@, "succeeded")]
        /\ profile' = [profile EXCEPT ![c] = i]
  /\ rowDone(d)
  /\ UNCHANGED <<job, overdue, alerts, stale, failures, lost>>

\* Slip: an UPDATE of the loop finds its row by id alone.
writeById(d, new) == outbox' = [outbox EXCEPT ![drain[d].row] = new]

\* Every UPDATE of the loop is WHERE id = ... AND claim_id = the drain's own.
writeIfClaimed(d, new) ==
  outbox' = IF outbox[drain[d].row].claim = d
              THEN [outbox EXCEPT ![drain[d].row] = new] ELSE outbox

\* The outcome of a handler that left the row to the loop.
completeRow(d) ==
  /\ drain[d].step \in {"succeeded", "skipped"}
  /\ writeIfClaimed(d, completed(outbox[drain[d].row], drain[d].step))
  /\ rowDone(d)
  /\ UNCHANGED <<job, overdue, profile, alerts, stale, failures, lost>>

\* Slip: the attempt is not given back.
deferredWithoutRefund(r) ==
  [r EXCEPT !.claim = NoDrain, !.leased = FALSE, !.due = FALSE]

deferred(r) ==
  [r EXCEPT !.claim = NoDrain, !.leased = FALSE, !.due = FALSE,
            !.attempts = IF @ > 0 THEN @ - 1 ELSE 0]

deferOutboxRow(d) ==
  /\ drain[d].step = "defer"
  /\ writeIfClaimed(d, deferred(outbox[drain[d].row]))
  /\ rowDone(d)
  /\ UNCHANGED <<job, overdue, profile, alerts, stale, failures, lost>>

\* attempt_count was read when the row was claimed; as long as the claim is the
\* drain's own nobody has changed it.
failed(r) ==
  [r EXCEPT !.status = IF r.attempts >= MaxAttempts THEN "failed" ELSE "pending",
            !.due = FALSE, !.claim = NoDrain, !.leased = FALSE]

recordFailure(d) ==
  /\ drain[d].step = "throw"
  /\ writeIfClaimed(d, failed(outbox[drain[d].row]))
  /\ failures' = IF outbox[drain[d].row].claim = d
                   THEN [failures EXCEPT ![drain[d].row] = plusOne(@)] ELSE failures
  /\ rowDone(d)
  /\ UNCHANGED <<job, overdue, profile, alerts, stale, lost>>

\* The worker process dies, or the loop cannot even record a failure: the rows
\* it had claimed stay claimed.
crash(d) ==
  /\ drain[d] # IdleDrain
  /\ drain' = [drain EXCEPT ![d] = IdleDrain]
  /\ UNCHANGED <<outbox, job, overdue, profile, alerts, stale, failures, lost>>

(***************************************************************************)
(* Time                                                                    *)
(***************************************************************************)
working(d, i) == i \in drain[d].batch \cup {drain[d].row}

leaseRunsOut(i) ==
  /\ outbox[i].leased
  /\ LateDrains \/ ~working(outbox[i].claim, i)
  /\ outbox' = [outbox EXCEPT ![i].leased = FALSE]
  /\ UNCHANGED <<job, overdue, profile, alerts, drain, stale, failures, lost>>

retryFallsDue(i) ==
  /\ outbox[i].status = "pending" /\ ~outbox[i].due
  /\ outbox' = [outbox EXCEPT ![i].due = TRUE]
  /\ UNCHANGED <<job, overdue, profile, alerts, drain, stale, failures, lost>>

deadlinePasses(i) ==
  /\ outbox[i].event = DERIVATION /\ ~overdue[i]
  /\ overdue' = [overdue EXCEPT ![i] = TRUE]
  /\ UNCHANGED <<outbox, job, profile, alerts, drain, stale, failures, lost>>

(***************************************************************************)
(* Specification                                                           *)
(***************************************************************************)
Init ==
  /\ outbox = [i \in Intents |-> Absent]
  /\ job = [i \in Intents |-> "none"]
  /\ overdue = [i \in Intents |-> FALSE]
  /\ profile = [c \in Certificates |-> NoProfile]
  /\ alerts = {}
  /\ drain = [d \in Drains |-> IdleDrain]
  /\ stale = {}
  /\ failures = [i \in Intents |-> 0]
  /\ lost = [i \in Intents |-> 0]

IntentNext(i) ==
  \/ \E c \in Certificates : renewalSetupJobCreator(i, c)
  \/ \E status \in {"succeeded", "failed"} : jobEnds(i, status)
  \/ requestRenewalAlert(i)
  \/ retryRenewalSetupIntent(i)
  \/ leaseRunsOut(i)
  \/ retryFallsDue(i)
  \/ deadlinePasses(i)

CertificateNext(c) ==
  \/ detachRenewalProfile(c)
  \/ \E p \in {NoProfile, OtherProfile} : linkProfile(c, p)

takeUpRow(d) ==
  \E i \in Intents : \/ handleProfileDerivationIntent(d, i)
                     \/ \E step \in {"skipped", "insert"} : queueCertRenewalFailedAlert(d, i, step)

finishRow(d) ==
  \/ insertAlert(d) \/ deriveProfile(d)
  \/ completeRow(d) \/ deferOutboxRow(d) \/ recordFailure(d)

DrainNext(d) ==
  \/ \E S \in SUBSET Intents : drainCertOpsOutbox(d, S)
  \/ takeUpRow(d)
  \/ handlerThrows(d)
  \/ finishRow(d)
  \/ crash(d)

Next ==
  \/ \E i \in Intents : IntentNext(i)
  \/ \E c \in Certificates : CertificateNext(c)
  \/ \E d \in Drains : DrainNext(d)

Spec == Init /\ [][Next]_vars

\* Time passes; maintenance runs start drains again and again, oldest rows first;
\* a drain that is not killed goes on, and not every drain is killed.  Nothing is
\* assumed of people, or of the job an intent waits for.
Fairness ==
  /\ \A i \in Intents :
       /\ WF_vars(leaseRunsOut(i)) /\ WF_vars(retryFallsDue(i)) /\ WF_vars(deadlinePasses(i))
       /\ SF_vars(\E d \in Drains : \E S \in SUBSET Intents : i \in S /\ drainCertOpsOutbox(d, S))
  /\ \A d \in Drains : SF_vars(takeUpRow(d)) /\ SF_vars(finishRow(d))

FairSpec == Spec /\ Fairness

(***************************************************************************)
(* Properties                                                              *)
(***************************************************************************)
OutboxRow ==
  [event : {"none", DERIVATION, ALERT},
   status : {"absent", "pending", "succeeded", "skipped", "failed"},
   cert : Certificates \cup {NoCertificate}, claim : Drains \cup {NoDrain},
   leased : BOOLEAN, due : BOOLEAN, attempts : 0..AttemptCap]

DrainRun ==
  [batch : SUBSET Intents, row : Intents \cup {NoIntent},
   step : {"none", "derive", "insert", "defer", "skipped", "succeeded", "throw"}]

TypeOK ==
  /\ outbox \in [Intents -> OutboxRow]
  /\ job \in [Intents -> {"none", "active", "succeeded", "failed"}]
  /\ overdue \in [Intents -> BOOLEAN]
  /\ profile \in [Certificates -> Intents \cup {NoProfile, OtherProfile}]
  /\ alerts \in SUBSET Intents
  /\ drain \in [Drains -> DrainRun]
  /\ stale \in SUBSET Intents
  /\ failures \in [Intents -> 0..AttemptCap]
  /\ lost \in [Intents -> 0..AttemptCap]

\* "No ordering leaves a certificate both detached and profiled"
\* (handleProfileDerivationIntent): an intent from before a detach never links its
\* certificate again, however its drain, a takeover and an operator's retry race
\* with the detach.
DetachedStaysDetached == \A c \in Certificates : profile[c] \notin stale

\* A decision is final: no drain that lost its claim, and no retry, undoes what
\* another drain or a detach recorded.
DecisionIsFinal ==
  [][\A i \in Intents : outbox[i].status \in {"succeeded", "skipped"}
       => outbox'[i].status = outbox[i].status]_vars

\* Waiting is free: a row is parked as failed only after max_attempts attempts
\* that failed or were lost with their drain, however often it was deferred.
ParkedOnlyWhenSpent ==
  \A i \in Intents : outbox[i].status = "failed" => failures[i] + lost[i] >= MaxAttempts

\* Every intent is decided or parked in the end, though the job it waits for
\* never ends and drains are killed.
IntentIsDecided ==
  \A i \in Intents : outbox[i].status = "pending" ~> outbox[i].status # "pending"

\* The adoption flow as its operator sees it: RenewalAdoption.
decisionOf(r) ==
  IF r.event # DERIVATION THEN "none"
  ELSE CASE r.status = "pending" -> "open"
         [] r.status = "failed" -> "parked"
         [] r.status = "succeeded" -> "derived"
         [] OTHER -> "void"

Adoption == INSTANCE RenewalAdoption WITH
  decision <- [i \in Intents |-> decisionOf(outbox[i])],
  target <- [i \in Intents |-> outbox[i].cert]

\* Leases, retries, takeovers and crashes of drains do not show: the outbox
\* implements what the adoption flow promises.
ImplementsAdoption == Adoption!Spec

(***************************************************************************)
(* The inductive invariant behind the safety properties                    *)
(***************************************************************************)
\* A row of whose attempts `spent' failed or were lost: a claimed row is pending, a
\* leased one is claimed, what was spent and the claim account for the attempts of
\* a pending row, and a parked row has spent them all.
RowOK(r, spent) ==
  /\ r.claim # NoDrain => r.status = "pending"
  /\ r.leased => r.claim # NoDrain
  /\ r.status = "pending" => r.attempts <= spent + (IF r.claim = NoDrain THEN 0 ELSE 1)
  /\ r.status = "failed" => spent >= MaxAttempts
  /\ r.status = "absent" <=> r.event = "none"
  /\ r.event = DERIVATION <=> r.cert # NoCertificate

RowInv == \A i \in Intents : RowOK(outbox[i], failures[i] + lost[i])

\* An intent from before a detach is decided.
StaleInv ==
  \A i \in stale : outbox[i].event = DERIVATION /\ outbox[i].status \in {"succeeded", "skipped"}

\* A drain only handles rows that exist, and each kind of row by its own handler.
DrainInv ==
  \A d \in Drains :
    /\ \A i \in drain[d].batch : outbox[i].event # "none"
    /\ drain[d].step # "none" => drain[d].row \in Intents /\ outbox[drain[d].row].event # "none"
    /\ drain[d].step = "derive" => outbox[drain[d].row].event = DERIVATION
    /\ drain[d].step \in {"insert", "succeeded"} => outbox[drain[d].row].event = ALERT

\* A certificate's derived profile is that of an intent which succeeded after the
\* last detach.
ProfileInv ==
  \A c \in Certificates : profile[c] \in Intents =>
    /\ outbox[profile[c]].status = "succeeded" /\ outbox[profile[c]].cert = c
    /\ profile[c] \notin stale

\* The inductive invariant: every step of the API and of the drains preserves it.
IInv == TypeOK /\ RowInv /\ StaleInv /\ DrainInv /\ ProfileInv
=============================================================================
