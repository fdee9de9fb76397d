# A verification project for TokenTimer

TokenTimer (tokentimer-core) watches expiring credentials and, with CertOps, renews and deploys
certificates through agents on customers' hosts. This directory holds TLA+ models of its core,
TLC configurations that check them on small instances, and TLAPS proofs for every size.
`PROJECT.json` lists the runs, their properties, the mutants that show that each property can
fail, the source lines behind every definition, the hazards and the theorems.

    tlc -workers 2 -config CertOpsJobs_leases.cfg MCCertOpsJobs
    tlapm CertOpsJobs_proof.tla

## 1. Inventory

| part | state | operations | interacts with | hard behaviour | must hold |
|---|---|---|---|---|---|
| Job table, status machine (`jobs.js`) | `certificate_jobs` | create, update status, cancel | every lane writes it | several lanes end one job | terminal statuses are final |
| Agent dispatch (`agentDispatch.js`, `leaseTiming.js`) | claim id, owner, lease, attempts; message sequence | heartbeat, claim, renew, result | agents over HTTP, reaper through the row | leases expire under working agents; late and duplicated messages | a job is carried out under one claim |
| Nonces, signing (`jobSigning.js`) | `certops_consumed_nonces`, signing keys | issue, extend, consume, sweep; rotate keys | dispatch | sweep against renewal, result after expiry | a result of the holder is accepted in time |
| Approvals (`jobApprovals.js`) | approved hash, decisions | approve, reject, invalidate | dispatch checks the hash at claim | payload changes after approval | effects were approved |
| Agent registry (`agentRegistry.js`) | `certops_agents` | register, retire, fence | jobs in flight | retirement of a working agent | no effect is lost from the books |
| Kill switch (`workspaceKillSwitch.js`) | paused flag | pause, resume | claim and renew | pause with work in flight | nothing new starts |
| Retirement (`certificateIdentity.js`, lifecycle-guard triggers) | identities, periods | retire, startup replay | triggers on every job write | `SKIP LOCKED` misses locked jobs | retired work never starts, overlaps are flagged |
| Executor lane (`certops-executor.js`) | none of its own | events | same job table, without leases | two lanes, one job | it never drives an agent's job |
| Maintenance (`certops-worker.js`) | none of its own | reaper, stale agents, nonce sweep, drain | all tables | sweeps fail, time out, overlap | held jobs are released |
| Agent (`packages/agent`) | journal, result outbox, replay ledger on disk | poll, verify, execute, renew, report | API | crash between any two steps | no re-execution after a crash |
| CertOps outbox (`outbox.js`, drain) | `certops_outbox` | enqueue, invalidate, retry, drain | adoption, alerts, distribution | takeover of leased rows, late writes | decisions are final, intents are decided |
| Renewal adoption (`renewalAdoption.js`) | `managed_certificates.profile_id` | set up, detach, retry | outbox | detach against a running derivation | a detached certificate stays detached |
| Alert delivery (`queue-manager.js`, `delivery-worker.js`, `alertQueue.js`, `recipient-verification`) | `alert_queue` with its ledger, `alert_delivery_log`, operational notifications | queue, reconcile channels, claim, send, log, settle, report; retry and requeue by people | mail, webhooks, WhatsApp, PagerDuty, consent of recipients | sends without a transaction, runs that die or outlive their marker, groups that change | sent means delivered, no repetition without a reason, alerts are settled |
| PagerDuty (`pagerduty-incidents.js`, `incidentActions.js`) | `pagerduty_incidents`, a ledger and outbox in one | enqueue, claim, decide, trigger, resolve, acknowledge, repair the alert | PagerDuty, alert delivery, operators, the token's expiry trigger | answers that are lost, facts that change between decision and request | the ledger and PagerDuty agree, decisions are current, episodes end |
| Auto-sync (`auto-sync-worker.js`, `autoSyncRuns.js`, `autoSyncProvenance.js`, `integrationScans.js`, `importCleanup.js`) | `auto_sync_configs`, `auto_sync_runs`, `integration_scans`, links of tokens | claim, scan, import, reconcile, finish; edit, request, delete; scan, import and cleanup by users | providers, the API as the worker's server | overlapping scans, runs that go on without their lease | cleanup spares what a later scan found, requests are served |
| Endpoint and domain checks | asset status | probe, record, alert | endpoints | overlapping probes | one alert for each outage |
| Distribution, AD CS enrolment, trust anchors | generations, enrolments, anchors | roll out, continue, retry | jobs, outbox | retries of finished jobs, external issuer | one generation is active |
| Operator connections (`services/operator`) | connections, action requests | grant, revoke, act | cancels jobs | revocation against claims | revoked access starts nothing |
| Kubernetes controller, dashboard, MCP, other packages | – | observation, UI, validation | API | – | – |

## 2. Modules

**`CertOpsJobs`** is the life of certificate jobs in all the places that write them. A handler that
runs in one transaction under the row lock is one action with the handler's name.

| variable | code |
|---|---|
| `row` | `certificate_jobs`: status, operation, mode, owner, claim, lease, `lease_renewed_at`, attempts, reconciliation flag, payload and approved hash |
| `ledger`, `nonce`, `intents` | approval decisions, dispatch nonces, alert intents in the outbox |
| `ended`, `paused`, `server` | closed management period, kill switch, `certops_agents` (status, recently seen) |
| `late` | renewals that timed out at the agent and may still arrive |
| `agent`, `journal`, `outbox` | the agent process, its side-effect journal and result outbox (both survive a crash) |
| `gated`, `effects` | history: created awaiting approval; the side effects that happened, with agent, claim and version |

The agent's steps (claim, mandatory renewal, journal entry, side effect, durable outcome, delivery,
giving up) are separate actions because the process can die, or its lease be lost, between any two.
Every write of a row passes through `Stored`, which models the triggers of
`certops-distribution-lifecycle-guards.sql`. Abstractions:

* Leases and nonces are countdowns that saturate where no guard tells values apart; `tick` is
  the database clock.
* A claim id is the attempt number of its claim: it is fresh because attempts only grow.
* Message sequence numbers appear as what they achieve: a late renewal is accepted only if the
  agent has sent nothing since (`Accepted`, `deliverLateRenewal`).
* Payloads and intents are version numbers, issuance and deployment one side effect.
* Retirement is retirement by revocation. The status `approved` is never stored; `awaiting_issuer`
  belongs to enrolment, and `retryDistributionJob` to distribution, neither modelled yet.
* The agent's refusal to re-execute a journalled job is not an action: `JournalNeverNeeded` shows
  that no such job is offered to it.

**`JobContract`** is the abstract specification of a job: what an operator is promised, without
leases, claims, nonces, messages or crashes. A job is requested, starts at most once for good and
ends; one agent at most carries it out, the one that the started job names; when the job can no
longer tell, it is flagged for a person and stays so. `CertOpsJobs!ImplementsContract` maps `pending`,
`pending_approval` and `claimed` to open, `running` to started, and the agents in `effects` to the
doers of the job.

**`CertOpsOutbox`** is the outbox and its drain. A drain is its claim id; the claim of a batch, the
read of the job, the handler's transaction, the loop's write and a crash are separate actions, so
that drains overtake each other. With `LateDrains` a lease may run out under a drain that still
works, which is what a slow batch and a timed-out sweep do. Alert intents and adoption intents are
modelled; distribution events are not. `stale`, `failures` and `lost` are history.

**`RenewalAdoption`** is the abstract specification: what "Set up automatic renewal" promises an
operator, without workers. `CertOpsOutbox!ImplementsAdoption` maps the row's status to a decision.

**`AlertDelivery`** is the life of one row of `alert_queue`; rows do not touch one another.

| variable | code |
|---|---|
| `row` | the row: status, claim id, `next_attempt_at` as "in the future" (`wait`), attempts; `channels` as an array of names or, from the first settlement on, a ledger with retry, required, state per channel, outcome per destination, webhook generation |
| `log` | `alert_delivery_log`: success seen, last row, generation of a final refusal |
| `run` | the runs of the worker: the snapshot of their claim, the log as they read it, what is left to do, the results |
| `live`, `retired`, `window` | contact groups now, retired certificate, what the alert is about (a threshold of the expiry, or a failed renewal) |
| `incident`, `clearing` | the notification `delivery_blocked:<id>`; retries by people whose second statement is still to come |
| `accepted`, `blind`, `late`, `discarded`, `died` | history: acceptances by providers; sends by a run that had missed an earlier one; a resolution that closed the incident of a later block; rows closed undelivered; deaths |

A run claims in one transaction and then sends without one, so the claim, the read of the log, the
last assertion before a send, the request, the row of the log, the terminal write and the
notification are separate actions. The provider may accept a request and the answer be lost. A mail
that failed on one SMTP account goes to the next one within the same send, after another
assertion (`nextSmtpAccount`; `SmtpAccounts` counts the transports, the database's included). A
delivery log that cannot be read counts as empty (`priorDeliveryRows`). A retry by a person is two
statements, the update of the row and the resolution of its notification
(`resolveRequeuedNotifications`). A retirement closes the row in its own transaction; the alert of a
failed renewal may still be inserted after it, because its certificate was looked at before.
Discovery brings only the row of the current threshold in line with the groups, so nothing says
that this ever happens to a row. `mergeDeliveryAttempt`, `deliveryDisposition` and `channelOutcome`
are the functions of `packages/recipient-verification`. Abstractions:

* Consent is asked for and answered as it pleases; thresholds, plan limits and texts are left out.
* `planManualRetry` plans and writes in one step because the write compares status, channels and
  claim with what was read.
* The log row of a channel as a whole, without a recipient (`delivery-worker.js:2144`, `2816`), is left
  out. `foldDeliveryLog` uses it only for a channel of which it knows no recipient, and then calls
  the channel excluded, which the settlement of the same run has already entered in the ledger.
* WhatsApp has one request per send. Its second try (`whatsapp.js:233`) only follows a refusal for
  the credentials, so the first one was not accepted.

**`PagerDuty`** is the incident ledger for one asset at one destination: episodes, each with its
`dedup_key`, and what PagerDuty holds under it (`page`). A run takes the session lock of the episode,
claims it for a lease, reads asset and settings, decides, records the attempt, sends, records the
outcome; each of these is an action, and the last statements compare again what was read
(`snapshotCondition`) or name the claim. Expirations and windows are small numbers of days. The
evidence for a new expiration (`Evidence`) is none, as old as the page, or newer: a page that was
accepted needs a newer observation to be resolved, a trigger that was not is cancelled on any. An
answer is accepted, rejected, throttled, unknown (a timeout, a 5xx), or odd (1xx, 3xx: not retried, and
yet it does not say that nothing was accepted).
Abstractions: quiet hours and delays asked for by PagerDuty are a choice (a run may always `wait`
before a trigger); a 4xx answer means that the request was not accepted; the alert of
`AlertDelivery` is reduced to pending, blocked, sent and who holds it. A run whose connection is lost is
taken for dead. The code does not look at the connection again between the record of the attempt and
the request (`pagerduty-incidents.js:951-976`), so a run that loses it just there still sends, without
its lock; that window is assumed away. `AcceptedAlertSettles` is about the alert that opened an
episode: alerts of later thresholds that join it are settled by their own deliveries.

**`AutoSync`** is the set of configurations that scan one account of one provider, and the users who
scan it by hand. A run (`worker`) is named by configuration and generation, a scan by the order of
`started_at`, a token by its source object. The worker and the API are separate: a request goes
on when the worker has given up on it, and the fence (`isCurrentRun`) decides at each write. A link is
the generation that last saw the token (`seen`). What a configuration or a user scans is a `scope`: the
objects that match kinds, dimensions, instance and owner. A run keeps the scope it was claimed with, a
scan the part of it that it read to the end, and cleanup looks at nothing else (`obsolete`), as
`docs/AUTO_SYNC.md:83` says: "Complete scans reconcile only the scope actually covered". A `PUT` changes
the scope, the cleanup flag, or switches the configuration off; each of them makes a new version.
Abstractions: the listing of a provider is one step; incomplete listings, items in error, timeouts
and failing requests are budgeted as `fault`s; credentials, metrics and notifications are left out.

In these three modules everything that is not the program's own doing (crashes, stalls, edits, retries,
changes at the provider) is a *disturbance*: a run of TLC says which kinds happen and how many
in all (`Disturbances`, `MaxDisturbances`), at any point of a behaviour.

**`MC...`** modules give symmetry sets, the channels of destinations and the constraints of single
runs.
**`CertOpsJobs_proof`, `CertOpsJobs_lanes_proof`, `JobContract_proof`, `CertOpsOutbox_proof`,
`PagerDuty_proof`, `AutoSync_proof`, `AlertDelivery_proof`** hold the theorems.

Definitions under a comment that starts with `Slip:` are not part of a model. Each is a plausible
mistake in the definition that follows it; `PROJECT.json` pairs it with the property that it breaks.

## 3. Runs

| run | instance | shows |
|---|---|---|
| `leases` | 1 job, 2 agents, 2 attempts; no approvals, pause or retirement | one effectful claim per job, effects accounted for, nonce outlives the window for results, every bad end has its alert, live leases are exclusive, `IInv`; refinement of `JobContract` |
| `approval` | 1 job, 1 agent, 2 payload versions; no pause | only approved versions take effect; journalled jobs are not dispatched again; terminal is final |
| `operations` | deploy and trust jobs, real and dry, everything enabled, fairness | dry runs change nothing; retired work never starts and overlaps are flagged; a held job is released; `LaneInv` |
| `adoption` | 2 intents, 1 certificate, 2 drains, late drains | refinement of `RenewalAdoption`; detached stays detached; decisions final; `IInv` |
| `rows` | 1 intent (adoption or alert), 2 drains, 2 attempts, fairness | attempts are accounted for; every intent is decided or parked |
| `delivery` | 2 runs, a mail recipient, 2 SMTP transports, 2 attempts, 2 disturbances (no deferral) | duplicates have a reason; sent means delivered; a blocked row is reported; `IInv` |
| `settled` | 1 run, an endpoint and a WhatsApp number, 2 attempts, 1 disturbance of any kind, fairness | alerts that can be delivered are settled; excluded rows owe nothing; `IInv` |
| `pages` | 2 runs, 2 episodes, 3 expirations, 2 windows, 2 attempts, 2 disturbances | ledger and PagerDuty agree; decisions are current; `IInv` |
| `episodes` | 1 run, otherwise as `pages`, fairness | episodes of a renewed asset end; an alert is settled when its page got through late |
| `inventory` | 2 configurations, 1 object, 2 disturbances (schedule, edits, provider, users) | cleanup yields to later scans and keeps to its scope; success means that the scope is reconciled; managed means tracked |
| `requests` | 1 configuration, 1 object, 2 disturbances of all kinds, fairness | one run holds the row; requests are served; `IInv` |
| `endless` | 1 run, a mail and a WhatsApp recipient, 3 attempts, no disturbance, fairness | a comment the code does not keep (below) |

**Why the bounds are enough.** The lease races need a holder, a rival and a second attempt: two
agents and two attempts. Every countdown guard compares with zero or one grace period, so a lease
of one tick and a grace of one tick (none in `operations`) distinguish before, at and after.
A drift needs two versions. Takeovers need two drains; a detach that meets another intent's
derivation needs two intents. One job suffices for TLC because jobs only meet in an agent, which
handles one at a time; the proofs have no bounds (section 4). `AttemptCap` bounds the outbox's counters one above
`MaxAttempts`, the only value they are compared with.

A duplicate needs two runs and one disturbance that separates a send from its log row, or one run, two
SMTP transports and a lost answer; a late resolution needs a retry and a run that blocks the row before
its second statement. One mail recipient and two disturbances have all of this (`delivery`); two
destinations of different channels give the ledger its mixed states (`settled`). With two attempts a channel
is degraded and then blocked. Two episodes let one resolve while the next is at risk; an expiration
is below, in, or beyond a window, or beyond the other window. The fence between scans needs an old
run, a newer scan and a link: a configuration whose run is slow and a second one, or a user, that
scans; an object is in a scope or outside it, and an edit moves it out while its link stays.
Runs that go on without their lease are in `requests`. Because disturbances may come anywhere, two of them already give a crash after a
settings change, or a renewal during a retirement. What three would add is not explored by TLC; the
safety properties of these modules are proved for any number (section 4), so this concerns the
liveness properties.

The constraints of a run cut behaviour that another run explores; between them the passing runs fire
every action. Deadlock is checked in the runs of `CertOpsJobs` and `CertOpsOutbox`. The other systems
may stop: an alert is settled, the episodes are over, nothing is due and the disturbances are
used up.

**Fairness.** `CertOpsJobs!FairSpec`: the clock runs, the worker's cron runs the reaper again and
again, and executions end because their commands have timeouts. Nothing is assumed of agents that
crash, of the network or of people. `CertOpsOutbox!FairSpec`: time passes, maintenance starts
drains again and again (oldest row first, so each due row is claimed in the end), a drain goes on
unless it is killed and not every drain is killed. Liveness runs with `LateDrains = FALSE`, because
a drain that is always slower than its lease is always superseded. Nothing is assumed of the job an
intent waits for. `AlertDelivery!FairSpec`: markers and cooldowns pass, the delivery worker is
started by cron again and again, a run that does not die goes on; providers and consent may answer
badly for ever. Nothing is asked of discovery: it looks up the row of the current threshold only
(`queue-manager.js:331-350`), so rows of a past threshold and alerts of failed renewals are never
reconciled. `AlertIsSettled` is therefore stated of alerts whose owed channels have contacts from some
time on (`Reachable`); disagreement 10 is what happens to the others. `PagerDuty!FairSpec`: the same, and the sweep takes the
incidents that are longest due first, which is why it is strongly fair for each episode.
`AutoSync!FairSpec`: the worker is started again and again, its requests end by their timeouts, the
lease of a dead process runs out; neither the schedule nor people are relied on.

### Disagreements

Shown by a run:

1. `endless` (`RetriesEnd`): `mergeDeliveryAttempt` lays the last log row of a channel that was not
   attempted over its ledger. A recipient who was skipped as delivered, or withheld by the filter over
   all recipients, leaves no newer row, so an old failure reopens the channel. Two channels take turns
   for ever and the counters never reach `MAX_ATTEMPTS_PER_CHANNEL`, the "Maximum number of retry
   attempts per channel before permanently blocking" (`delivery-worker.js:1234`). `AlertIsSettled`
   is checked in an instance with one recipient channel, where this cannot happen.

Met while modelling, reachable in the models, without a run of their own:

2. An executor's progress event moves an agent's claimed job to `running` (`certops-executor.js:1660`);
   line 264 calls such events "merely redundant". The reaper then orphans what it would requeue.
3. The reaper orphans dry runs (`certops-worker.js:717`); the result handler calls the status "only
   valid for real jobs" (`agentDispatch.js:2445`).
4. With the reaper off or failing, a lease is renewed whose nonce has been swept; the nonce is said to
   stay consumable "for as long as the renewable lease is alive" (`jobSigning.js:749`).
5. The fence of a forced retirement skips jobs whose lease has just expired (`agentRegistry.js:743`);
   the operations guide says that it "does **not** wait for the lease reaper".
6. Claims lost with their drain count against `max_attempts`, which is said to "count failed attempts
   at real work" (`certops-worker.js:227`).
7. The bulk requeue (`alertQueue.js:71`) looks neither at the claim nor at the marker: a run that
   holds the row writes back the counters of its snapshot, although "Requeuing resets attempts to 0"
   (`alertQueue.js:92`). No second delivery follows from it (`DuplicatesExplained`).
8. Joining an episode raises `risk_threshold_days` without the episode's lock
   (`pagerduty-incidents.js:350`), while a claimed run decides recovery from its copy of the row: it may
   resolve inside the window just recorded. The current window is compared, the recorded one is not;
   `DecisionsAreCurrent` is stated for the current one.
9. `importCleanup.js:29` says that the observation fence "stops a stale/slow scan's cleanup from
   deleting something a newer, faster, concurrent scan just (re)discovered". When the newer scan
   recorded an object that had no token row yet, there was nothing to mark: the import of an older
   scan then creates the row with the older time, and the cleanup of a scan between the two deletes it.
   It takes three scans by users and a change at the provider, more than the runs' bounds.
   `CleanupYieldsToLaterScan` is stated of the cleanup of auto-sync runs, for which it is proved.
10. A partial row whose owed channel has lost its contacts is claimed, given back unchanged
   (`DELIVERY_LEDGER_NO_RETRY`, `delivery-worker.js:1945-1950`) and claimed again by every run, with no
   counter and no notification, once discovery no longer looks up its threshold. The claim excludes
   only rows whose list of channels to retry is empty.
11. A retry resolves the notification in a second statement that does not look at the row
   (`alertQueue.js:101-127`). A run that blocks the row and raises its incident between the two has the
   incident closed, although "the delivery worker will raise a fresh notification if the retry fails
   again" (`alertQueue.js:93-95`). `BlockedIsReported` names this case (`late`).
12. A failing read of the delivery log is logged as "Non-critical operation failed"
   (`delivery-worker.js:1941-1943`): the run goes on with an empty history and repeats what was
   delivered. `DuplicatesExplained` counts it, like the second SMTP account after one that took the
   mail and timed out (`email.js:815-821`).

## 4. Proofs

Assumptions: the named `ASSUME`s of the modules, which only say that bounds are natural numbers
(budgets, leases and the nonce margin not zero), that null values are not ids, that workers,
configurations and source objects are finitely many, that each destination has a channel, that the
initial PagerDuty window is one of the windows, and which operations and modes exist. TLC evaluates
them in every run.

**`CertOpsJobs_proof`.** `AtMostOneEffectfulClaim` is not inductive: nothing in it stops a requeue of
a job whose agent is about to act. `IInv` adds what the code relies on:

* `RowInv`: a claim is the last attempt; a row whose lease was renewed is running or ended; an
  undispatched job has attempts left; an approved job names an approved version.
* `HolderInv`: a busy agent holds a granted claim, and executes only one that was *confirmed*
  (`Started`): the renewal made the job `running`, a state from which no handler leads back to
  `pending`, so no later claim exists.
* `JournalInv`, `EffectInv`: journal entries and effects belong to confirmed claims of real jobs.

`RowStep` shows that every write makes a row `Evolve`: confirmed jobs stay confirmed or flagged,
attempts grow, terminal statuses stay. `QuietStep` lifts this to agents, journals and effects for
all actions but `claimJobs`, `markMutation` and `mutate`, which have lemmas of their own. From
`Invariant` follow `TypeCorrect`, `EffectsOnce`, `EffectsAccountedFor`, `ApprovalRespected`,
`JournalSafe` and `TerminalStays`.

**`CertOpsOutbox_proof`.** `IInv` ties claims to pending rows, attempts to what was spent, drains to
existing rows with their own handlers, and profiles to intents that succeeded after the last detach.
`RowStep` and `DrainStep` say what any step makes of rows and drains. From `Invariant` follow
`DetachHolds`, `ParkedWhenSpent`, `DecisionsStand`, and, action by action,
`AdoptionImplemented`: the refinement of `RenewalAdoption`.

**`CertOpsJobs_lanes_proof`.** Several lanes (people, agents, executor, reaper, fence, triggers) write
one row, and each keeps something the others rely on. `Lane` says what a handler may write over a row,
`StoredLane` that the triggers keep it and add what retirement promises (`Retires`); `LaneStep` shows
it lane by lane. The clock is the exception and has `TickLanes`. The second inductive invariant,
`LaneInv`, rests on `IInv`:

* `EndedInv`: a closed period belongs to a job that installs something, and only stored jobs are
  flagged.
* `OutboxInv`: a result on an agent's disk is about a granted claim that the agent is done with, and
  success is reported of real jobs only. Without it `DryRunIsHarmless` is not inductive.
* `SupervisedInv`: an agent executes a job that is still running, or flagged. It needs `OutboxInv`:
  an unflagged running job of an agent is ended only by a result of that claim, and the agent at work
  has not written one.
* `NonceInv`: lease and nonce of a held job run down together, the nonce ahead by hard grace and
  margin. Held includes jobs that wait for a new approval with the columns of their void claim.

From it follow `AlertsComplete`, `DryRunsHarmless` and `ResultsInTime`; from `Lanes`, what a step makes
of a row, the action properties `RetiredStaysUnstarted`, `OverlapFlagged` and `LeasesExclusive`.
`ContractImplemented` is the refinement of `JobContract`: a side effect is `CarryOut`
(`SupervisedInv` and `HolderInv` give its guard, `EffectInv` the single doer) and every other step is
`Manage`. `ContractAccountable` (in `JobContract_proof`) says what that is worth to an operator: who
carried a job out can be read from the job, or the job is flagged.

**`PagerDuty_proof`.** `LedgerMatchesProvider` is about the row and PagerDuty only; that it survives a
lost answer depends on what runs know. `IInv` adds for each run that it holds the lock of its episode
(`LockOK`), that its copy still says what the row says except for the columns others write without the
lock (`CopyOK`), and that from the record of an attempt to the record of its outcome the row says
"uncertain" (`AttemptOK`). A step without the lock is `Soft`: it changes nothing that decisions rest
on. `Frame` then confines a step of a run to its own run and episode. `PagesKnown` and
`DecisionsCurrent` follow.

**`AutoSync_proof`.** Runs and scans grow (`WorkersGrow`, `ScansGrow`) and almost every step leaves a
link alone or removes it (`LinkKept`), which cannot disturb what `IInv` says of links (`SeenInv`), the
fence (`FenceInv`) and cleaned inventory (`CleanInv`). Importing an item and reconciling a run can,
and have proofs of their own. `FenceInv` is the heart: if a later stored scan found the object and
the token row shows an earlier observation, the row was made again after that scan was stored, so
the runs of the configuration that come after the link scan later still. `CleanInv` is stated within
the scope of the scan that was cleaned up for; what lies outside it keeps its link. From these follow
`CleanupYields` and `SuccessReconciled`; `HistoryAgrees` and `ManagementTracked` follow from `RunInv` and
`TokenInv`.

**`AlertDelivery_proof`.** `accepted` counts what providers took. Logs, ledgers, the copies and results of
runs are `Backed` by it: success is recorded nowhere that was not accepted (`SentIsDelivered`).
`DuplicatesExplained` becomes inductive as a count: a run that may still send to a destination and has
missed nothing holds a *ticket*, and acceptances and tickets together are at most one more than the
sends counted as blind (`SendsCovered`). At most one run holds the claim, so a claim hands out at most
one ticket. A run between two SMTP accounts holds one if the account before did not take the mail;
if it did, the next one is blind. `BlockedReported` rests on `sent` being terminal and free of claims: a
run that comes late with the resolution of the notification finds a row that is still sent. The
resolution by a person has no such footing and is counted in `late`. `NothingOwed` follows from
what `mergeDeliveryAttempt` and the settlement make of excluded recipients.

The proof of the settlement showed that the arms of three `CASE`s of the model (`endpointOutcome`,
`deliveryDisposition`, the notification a run owes) were not exclusive, so that they left open what the
code decides by the order of its tests. They are chains of `IF` now, in the code's order, and the
settlement is an operator of its own.

**Only model-checked.** The liveness properties `HeldJobIsReleased`, `IntentIsDecided`,
`AlertIsSettled`, `EpisodesEnd`, `AcceptedAlertSettles` and `RequestIsServed`: liveness under fairness is
out of the prover's reach. Every invariant, action property and refinement of the passing runs is
proved.

## 5. Not modelled

Authentication and role checks, request validation, audit records, logs and metrics, cryptography,
the contents of certificates and payloads, provider and network I/O, formatting, the dashboard (a
user interface without state of its own that other parts depend on, the larger half of the source).
Of the modelled parts: plan limits and the thresholds that select alerts; PagerDuty destinations
configured before the ledger existed; credentials of auto-sync. Components that are
planned but not modelled are listed with their reasons in `PROJECT.json`.

## 6. Plan

In order of what a failure costs the operator:

1. done: `CertOpsJobs`, `CertOpsOutbox`, `AlertDelivery`, `PagerDuty` and `AutoSync` with inductive
   invariants and proofs of all their safety properties; the refinements of `JobContract` and
   `RenewalAdoption`.
2. `AgentStore`: the agent's result outbox, replay ledger and journal as files: crash between
   write and rename, dead letters, retry windows.
3. `Distribution`: generations, rollout, approval and retry of distribution jobs, which reopens
   terminal jobs; the outbox's distribution events. `Enrollments`: AD CS requests, continuations
   and expiry, with `awaiting_issuer`. `SigningKeys`: rotation against jobs in flight.
4. `RenewalScheduler`, `EndpointChecks`, `OperatorConnections`: one claim or state machine each.
5. An abstract specification of an alert (owed, delivered or reported as undeliverable) and its
   refinements from `AlertDelivery` and `PagerDuty`.
