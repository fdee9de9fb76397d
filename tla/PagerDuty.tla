------------------------------ MODULE PagerDuty ------------------------------
(***************************************************************************)
(* The PagerDuty incidents of one asset at one destination                 *)
(* (apps/worker/src/pagerduty-incidents.js): the ledger pagerduty_incidents *)
(* that doubles as an outbox, the runs of the delivery worker that drain   *)
(* it, the actions of operators (apps/api/routes/incidentActions.js,       *)
(* apps/api/services/alertQueue.js), the alert that asks for the page, and  *)
(* what PagerDuty itself holds under each episode's dedup_key.             *)
(*                                                                         *)
(* A run takes a session lock on the episode, claims the row for a lease,  *)
(* reads the asset and the settings, and compares them again in the        *)
(* statement that acts on them.  An attempt is recorded before the request *)
(* and its outcome after it, so a run that dies in between leaves          *)
(* trigger_delivery_uncertain behind.                                      *)
(***************************************************************************)
EXTENDS Integers, FiniteSets

CONSTANTS
  Workers,        \* runs of the delivery worker, by claim_id
  NoWorker,       \* claim_id IS NULL
  MaxEpisodes,    \* episodes the model has room for
  MaxExpiration,  \* expirations of the asset, in days from now
  Windows,        \* alert thresholds the settings may name, 0: no contact group
  MaxAttempts,    \* MAX_PAGERDUTY_ATTEMPTS
  Disturbances,   \* what the environment may do
  MaxDisturbances \* how often, all together

Kinds == {"crash", "pause", "operator", "asset", "settings"}

ASSUME WorkersAssumption == IsFiniteSet(Workers) /\ NoWorker \notin Workers
ASSUME BoundsAssumption == /\ MaxEpisodes \in Nat \ {0}
                           /\ MaxExpiration \in Nat \ {0}
                           /\ MaxAttempts \in Nat \ {0}
                           /\ Windows \subseteq Nat
                           /\ 1 \in Windows
ASSUME DisturbancesAssumption == Disturbances \subseteq Kinds /\ MaxDisturbances \in Nat

VARIABLES
  asset,    \* the token: expiration, its cycle, retired, expiry verified
  settings, \* alert threshold of the contact groups, destination configured
  inc,      \* pagerduty_incidents, by episode
  page,     \* what PagerDuty holds under the episode's dedup_key
  lock,     \* the advisory lock 'pagerduty:<id>', by episode
  alert,    \* the expiry alert of the asset's current cycle
  run,      \* the runs of the delivery worker
  left      \* what is left of MaxDisturbances

vars == <<asset, settings, inc, page, lock, alert, run, left>>

Episodes == 1 .. MaxEpisodes
Active == {"trigger_pending", "open"}
Live == Active \cup {"resolve_pending"}

\* What verifies the expiration: nothing, what was known when a page was accepted,
\* an observation made since.
Evidence == {"none", "old", "new"}

NoIncident == [state |-> "none", orig |-> 0, risk |-> 0, cycle |-> 0,
               accepted |-> FALSE, uncertain |-> FALSE, tries |-> 0,
               exhausted |-> FALSE, due |-> FALSE, claim |-> NoWorker,
               leased |-> FALSE, manual |-> FALSE, ack |-> "none", ackTries |-> 0]

NoAlert == [status |-> "none", held |-> NoWorker]

IdleRun == [pc |-> "idle", e |-> 0, fg |-> FALSE, asset |-> [exp |-> 0, cycle |-> 0,
            retired |-> FALSE, proof |-> "none"], settings |-> [window |-> 0, dest |-> FALSE],
            inc |-> NoIncident, got |-> "none", ok |-> FALSE]

Spend(k) == k \in Disturbances /\ left > 0 /\ left' = left - 1

(***************************************************************************)
(* Facts and settings                                                      *)
(***************************************************************************)

\* The window of the destination, 0 when no group or no webhook names it.
destinationThreshold(s) == IF s.dest THEN s.window ELSE 0

AtRisk(a, s) == destinationThreshold(s) > 0 /\ a.exp <= destinationThreshold(s)

\* A later expiration, verified (after the page was accepted, by an observation of the
\* provider made since), beyond the recorded and the current window.
isPagerDutyRecovery(i, a, s) ==
  /\ a.proof # "none"
  /\ i.accepted => a.proof = "new"
  /\ a.exp > i.orig
  /\ a.exp > i.risk
  /\ a.exp > destinationThreshold(s)

\* Slip: the statement acts on what was read before.
snapshotUnchecked(r) == TRUE

\* What was read is still so, compared in the statement that acts on it.
snapshotCondition(r) ==
  /\ asset.exp = r.asset.exp
  /\ asset.retired = r.asset.retired
  /\ settings = r.settings

\* An expiration is written: the alert of the old one is archived, incidents at
\* risk are looked at again, manual closures no longer suppress.
changeExpiration(x) ==
  /\ x # asset.exp
  /\ Spend("asset")
  /\ asset' = [asset EXCEPT !.exp = x, !.cycle = @ + 1]
  /\ alert' = NoAlert
  /\ inc' = [e \in Episodes |-> [inc[e] EXCEPT !.manual = FALSE,
                                               !.due = @ \/ inc[e].state \in Active]]
  /\ UNCHANGED <<settings, page, lock, run>>

retireAsset ==
  /\ ~asset.retired
  /\ Spend("asset")
  /\ asset' = [asset EXCEPT !.retired = TRUE]
  /\ UNCHANGED <<settings, inc, page, lock, alert, run>>

\* The inventory that verifies the expiration comes and goes, and observes it anew.
verifyExpiry(proof) ==
  /\ proof # asset.proof
  /\ Spend("asset")
  /\ asset' = [asset EXCEPT !.proof = proof]
  /\ UNCHANGED <<settings, inc, page, lock, alert, run>>

changeSettings ==
  /\ Spend("settings")
  /\ settings' \in {[settings EXCEPT !.dest = ~@]}
                   \cup {[settings EXCEPT !.window = n] : n \in Windows}
  /\ UNCHANGED <<asset, inc, page, lock, alert, run>>

\* Discovery queues the alert of an asset at risk.
queueAlert ==
  /\ alert.status = "none"
  /\ ~asset.retired
  /\ AtRisk(asset, settings)
  /\ alert' = [NoAlert EXCEPT !.status = "pending"]
  /\ UNCHANGED <<asset, settings, inc, page, lock, run, left>>

(***************************************************************************)
(* Operators                                                               *)
(***************************************************************************)

\* The actions route takes the worker's lock for its transaction.
acknowledge(e) ==
  /\ lock[e] = NoWorker
  /\ inc[e].state = "open"
  /\ inc[e].accepted
  /\ inc[e].ack \in {"none", "exhausted"}
  /\ Spend("operator")
  /\ inc' = [inc EXCEPT ![e].ack = "asked", ![e].ackTries = 0]
  /\ UNCHANGED <<asset, settings, page, lock, alert, run>>

\* Closing the page by hand also withdraws an acknowledgement still asked for.
resolve(e) ==
  /\ lock[e] = NoWorker
  /\ inc[e].state = "open"
  /\ inc[e].accepted
  /\ Spend("operator")
  /\ inc' = [inc EXCEPT ![e].state = "resolve_pending", ![e].manual = TRUE, ![e].tries = 0,
                        ![e].exhausted = FALSE, ![e].due = TRUE,
                        ![e].ack = IF @ \in {"asked", "exhausted"} THEN "cancelled" ELSE @]
  /\ UNCHANGED <<asset, settings, page, lock, alert, run>>

\* The requeue takes no lock: it leaves rows under a lease alone.
requeueAlertsCore ==
  /\ Spend("operator")
  /\ inc' = [e \in Episodes |->
               IF /\ inc[e].state \in {"trigger_pending", "resolve_pending"}
                  /\ inc[e].exhausted
                  /\ ~inc[e].leased
               THEN [inc[e] EXCEPT !.exhausted = FALSE, !.tries = 0, !.due = TRUE]
               ELSE inc[e]]
  /\ alert' = IF alert.status = "blocked" THEN [alert EXCEPT !.status = "pending"] ELSE alert
  /\ UNCHANGED <<asset, settings, page, lock, run>>

(***************************************************************************)
(* Time                                                                    *)
(***************************************************************************)
nextAttemptDue(e) ==
  /\ inc[e].state \in Live
  /\ ~inc[e].due
  /\ inc' = [inc EXCEPT ![e].due = TRUE]
  /\ UNCHANGED <<asset, settings, page, lock, alert, run, left>>

\* Slip: the lease of a run that died stays.
leaseExpiresAtWork(e) ==
  /\ inc[e].leased
  /\ lock[e] = inc[e].claim
  /\ Spend("pause")
  /\ inc' = [inc EXCEPT ![e].leased = FALSE]
  /\ UNCHANGED <<asset, settings, page, lock, alert, run>>

\* A lease runs out.  It does so under a run at work only when that run pauses.
leaseExpires(e) ==
  /\ inc[e].leased
  /\ inc' = [inc EXCEPT ![e].leased = FALSE]
  /\ IF lock[e] = inc[e].claim THEN Spend("pause") ELSE UNCHANGED left
  /\ UNCHANGED <<asset, settings, page, lock, alert, run>>

(***************************************************************************)
(* A run of the delivery worker                                            *)
(***************************************************************************)

\* The delivery of the alert reads the context.  A claim whose run is gone is
\* taken over.
claimAlert(w) ==
  /\ run[w].pc = "idle"
  /\ alert.status = "pending"
  /\ alert.held \in {NoWorker} \cup {v \in Workers : run[v].pc = "idle"}
  /\ alert' = [alert EXCEPT !.held = w]
  /\ run' = [run EXCEPT ![w] = [IdleRun EXCEPT !.pc = "enqueue", !.fg = TRUE,
                                  !.asset = asset, !.settings = settings]]
  /\ UNCHANGED <<asset, settings, inc, page, lock, left>>

\* The intent, before any send.  The unique index lets it join the episode that
\* is at risk already.
enqueuePagerDutyIncident(w) ==
  LET r == run[w]
      active == {e \in Episodes : inc[e].state \in Active}
      free == {e \in Episodes : inc[e].state = "none"}
      suppressed == \E e \in Episodes : inc[e].manual /\ inc[e].state \in {"resolve_pending", "resolved"}
      threshold == destinationThreshold(r.settings)
      current == r.asset.cycle = asset.cycle /\ alert.status = "pending"
      skip == ~AtRisk(r.asset, r.settings) \/ suppressed \/ r.asset.cycle # asset.cycle
                                           \/ alert.status = "sent"
      raised(n) == IF threshold > n THEN threshold ELSE n
  IN /\ r.pc = "enqueue"
     /\ \/ /\ AtRisk(r.asset, r.settings) /\ current /\ ~suppressed
           /\ \/ \E e \in active :
                   /\ inc' = [inc EXCEPT ![e].risk = raised(@)]
                   /\ run' = [run EXCEPT ![w].pc = "lock", ![w].e = e]
              \/ /\ active = {}
                 /\ \E e \in free :
                      /\ \A f \in free : e <= f
                      /\ inc' = [inc EXCEPT ![e] = [NoIncident EXCEPT
                                   !.state = "trigger_pending", !.orig = asset.exp,
                                   !.risk = threshold, !.cycle = asset.cycle, !.due = TRUE]]
                      /\ run' = [run EXCEPT ![w].pc = "lock", ![w].e = e]
        \/ /\ ~(AtRisk(r.asset, r.settings) /\ current /\ ~suppressed)
           /\ run' = [run EXCEPT ![w].pc = "settle", ![w].ok = skip]
           /\ UNCHANGED inc
     /\ UNCHANGED <<asset, settings, page, lock, alert, left>>

\* The sweep over incidents that are due.
reconcilePagerDutyIncidents(w, e) ==
  /\ run[w].pc = "idle"
  /\ inc[e].state \in Live
  /\ inc[e].due
  /\ ~inc[e].leased
  /\ run' = [run EXCEPT ![w] = [IdleRun EXCEPT !.pc = "lock", !.e = e]]
  /\ UNCHANGED <<asset, settings, inc, page, lock, alert, left>>

\* The run ends, or goes back to the alert it is delivering.
Done(w, ok) ==
  run' = [run EXCEPT ![w] = IF @.fg
                            THEN [IdleRun EXCEPT !.pc = "settle", !.fg = TRUE, !.ok = ok]
                            ELSE IdleRun]

tryLock(w) ==
  LET e == run[w].e
  IN /\ run[w].pc = "lock"
     /\ IF lock[e] = NoWorker
        THEN /\ lock' = [lock EXCEPT ![e] = w]
             /\ run' = [run EXCEPT ![w].pc = "claim"]
        ELSE /\ Done(w, FALSE)
             /\ UNCHANGED lock
     /\ UNCHANGED <<asset, settings, inc, page, alert, left>>

\* The claim, and the context read after it.
claimIncident(w) ==
  LET e == run[w].e
      i == [inc[e] EXCEPT !.claim = w, !.leased = TRUE]
  IN /\ run[w].pc = "claim"
     /\ IF inc[e].state \in Live /\ inc[e].due /\ ~inc[e].leased
        THEN /\ inc' = [inc EXCEPT ![e] = i]
             /\ run' = [run EXCEPT ![w].pc = IF i.accepted THEN "repair" ELSE "decide",
                                   ![w].inc = i, ![w].asset = asset, ![w].settings = settings]
             /\ UNCHANGED lock
        ELSE /\ Done(w, inc[e].state = "open")
             /\ lock' = [lock EXCEPT ![e] = NoWorker]
             /\ UNCHANGED inc
     /\ UNCHANGED <<asset, settings, page, alert, left>>

\* Slip: an alert that ran out of attempts is left as it is.
repairableOpen(e) ==
  /\ alert.status = "pending"
  /\ alert.held = NoWorker
  /\ inc[e].cycle = asset.cycle
  /\ inc[e].accepted
  /\ destinationThreshold(settings) > 0

\* The alert asked for this episode, nobody is delivering it, and the delivery log
\* has the acceptance.
repairable(e) ==
  /\ alert.status \in {"pending", "blocked"}
  /\ alert.held = NoWorker
  /\ inc[e].cycle = asset.cycle
  /\ inc[e].accepted
  /\ destinationThreshold(settings) > 0

\* The alert that asked for an accepted page is settled, unless a delivery holds
\* it; before the decisions of a claim, and after an accepted request.
reconcilePagerDutyParentAlert(w) ==
  LET e == run[w].e
      last == run[w].pc = "repairEnd"
  IN /\ run[w].pc \in {"repair", "repairEnd"}
     /\ alert' = IF repairable(e) THEN [alert EXCEPT !.status = "sent"] ELSE alert
     /\ IF last
        THEN /\ Done(w, TRUE)
             /\ lock' = [lock EXCEPT ![e] = NoWorker]
        ELSE /\ run' = [run EXCEPT ![w].pc = "decide"]
             /\ UNCHANGED lock
     /\ UNCHANGED <<asset, settings, inc, page, left>>

\* The claim is given back, fenced by the claim id, and the lock released.
postpone(w, cancel, exhausted, ok) ==
  LET e == run[w].e
      i == [inc[e] EXCEPT !.state = IF cancel THEN "cancelled" ELSE @,
                          !.exhausted = @ \/ exhausted,
                          !.due = FALSE, !.claim = NoWorker, !.leased = FALSE]
      owned == inc[e].claim = w
  IN /\ inc' = IF owned THEN [inc EXCEPT ![e] = i] ELSE inc
     /\ Done(w, owned /\ (cancel \/ ok))
     /\ lock' = [lock EXCEPT ![e] = NoWorker]
     /\ UNCHANGED <<asset, settings, page, alert, left>>

Deciding(w) == run[w].pc = "decide"
\* Recovered, or retired with the inventory agreeing.
Over(r) == r.asset.retired \/ isPagerDutyRecovery(r.inc, r.asset, r.settings)
Unproven(r) == ~r.asset.retired /\ r.asset.proof = "none"

\* No page is asked for any more.  It is cancelled, unless it is unknown whether
\* PagerDuty accepted the trigger.
dropTrigger(w) ==
  LET r == run[w]
  IN /\ Deciding(w)
     /\ r.inc.state # "resolve_pending"
     /\ ~Unproven(r)
     /\ ~r.inc.accepted
     /\ Over(r) \/ ~AtRisk(r.asset, r.settings)
     /\ postpone(w, ~r.inc.uncertain, Over(r) /\ r.inc.uncertain, FALSE)

\* The intent to resolve a page that was accepted.
decideResolve(w) ==
  LET r == run[w]
      e == r.e
      i == [inc[e] EXCEPT !.state = "resolve_pending", !.exhausted = FALSE, !.tries = 0]
  IN /\ Deciding(w)
     /\ r.inc.state # "resolve_pending"
     /\ Over(r)
     /\ r.inc.accepted
     /\ IF inc[e].claim = w /\ snapshotCondition(r)
        THEN /\ inc' = [inc EXCEPT ![e] = i]
             /\ run' = [run EXCEPT ![w].inc = i]
             /\ UNCHANGED <<asset, settings, page, lock, alert, left>>
        ELSE postpone(w, FALSE, FALSE, FALSE)

\* Slip: one attempt more than the budget.
withinBudgetLoose(i) == i.tries <= MaxAttempts

withinBudget(i) == i.tries < MaxAttempts

\* Nothing is sent now: no evidence of the expiration, a page that is open, no
\* destination, an action that is parked or out of attempts, quiet hours.
wait(w) ==
  LET r == run[w]
      sending == \/ r.inc.state = "resolve_pending"
                 \/ r.inc.state = "trigger_pending" /\ ~Over(r) /\ AtRisk(r.asset, r.settings)
      spent == r.inc.exhausted \/ ~withinBudget(r.inc)
  IN /\ Deciding(w)
     /\ \/ /\ r.inc.state # "resolve_pending"
           /\ Unproven(r)
           /\ postpone(w, FALSE, FALSE, FALSE)
        \/ /\ r.inc.state = "open"
           /\ ~Unproven(r) /\ ~Over(r)
           /\ postpone(w, FALSE, FALSE, r.settings.dest)
        \/ /\ sending
           /\ r.inc.state = "resolve_pending" \/ ~Unproven(r)
           /\ ~r.settings.dest \/ spent \/ r.inc.state = "trigger_pending"
           /\ postpone(w, FALSE, r.settings.dest /\ spent, FALSE)

\* The attempt is recorded before the request.
recordAttempt(w) ==
  LET r == run[w]
      e == r.e
      resolving == r.inc.state = "resolve_pending"
  IN /\ Deciding(w)
     /\ resolving \/ (~Unproven(r) /\ ~Over(r) /\ AtRisk(r.asset, r.settings)
                                 /\ r.inc.state = "trigger_pending")
     /\ r.settings.dest
     /\ ~r.inc.exhausted
     /\ withinBudget(r.inc)
     /\ IF inc[e].claim = w /\ inc[e].leased /\ (resolving \/ snapshotCondition(r))
        THEN /\ inc' = [inc EXCEPT ![e].tries = @ + 1,
                                   ![e].uncertain = @ \/ ~resolving]
             /\ run' = [run EXCEPT ![w].pc = "send"]
             /\ UNCHANGED <<asset, settings, page, lock, alert, left>>
        ELSE postpone(w, FALSE, FALSE, FALSE)

\* PagerDuty answers, or the answer is lost.  A 4xx is no acceptance; any other
\* answer but the acceptance leaves it open, and one that is neither a 5xx nor a
\* timeout is not tried again ("odd").
send(w) ==
  LET e == run[w].e
      resolving == run[w].inc.state = "resolve_pending"
      after == IF ~resolving THEN "triggered"
               ELSE IF page[e] = "triggered" THEN "resolved" ELSE page[e]
  IN /\ run[w].pc = "send"
     /\ \E got \in {"accepted", "rejected", "throttled", "unknown", "odd"}, took \in BOOLEAN :
          /\ got = "accepted" => took
          /\ got \in {"rejected", "throttled"} => ~took
          /\ page' = IF took THEN [page EXCEPT ![e] = after] ELSE page
          /\ run' = [run EXCEPT ![w].pc = "record", ![w].got = got]
     /\ UNCHANGED <<asset, settings, inc, lock, alert, left>>

\* Slip: a rejection says that nothing was ever accepted.
triggerUncertainLast(r) == r.got \in {"unknown", "odd"}

\* A rejection of this attempt does not undo the uncertainty of an earlier one.
triggerUncertain(r) == r.got # "accepted" /\ (r.inc.uncertain \/ r.got \in {"unknown", "odd"})

\* The outcome and its row of the delivery log, fenced by the claim id.
recordOutcome(w) ==
  LET r == run[w]
      e == r.e
      success == r.got = "accepted"
      resolving == r.inc.state = "resolve_pending"
      i == [inc[e] EXCEPT
              !.state = IF ~success THEN @ ELSE IF resolving THEN "resolved" ELSE "open",
              !.accepted = @ \/ (success /\ ~resolving),
              !.uncertain = IF resolving THEN @ ELSE triggerUncertain(r),
              !.exhausted = ~success /\ (r.got \in {"rejected", "odd"} \/ inc[e].tries >= MaxAttempts),
              !.due = FALSE, !.claim = NoWorker, !.leased = FALSE]
  IN /\ r.pc = "record"
     /\ inc' = IF inc[e].claim = w THEN [inc EXCEPT ![e] = i] ELSE inc
     /\ IF inc[e].claim = w /\ success
        THEN /\ run' = [run EXCEPT ![w].pc = "repairEnd"]
             /\ UNCHANGED lock
        ELSE /\ Done(w, FALSE)
             /\ lock' = [lock EXCEPT ![e] = NoWorker]
     /\ UNCHANGED <<asset, settings, page, alert, left>>

\* The delivery of the alert is settled; a failure is retried until the attempts
\* of the alert are used up (AlertDelivery).
settleAlert(w) ==
  /\ run[w].pc = "settle"
  /\ IF alert.held = w
     THEN alert' \in {[status |-> s, held |-> NoWorker] :
                        s \in IF run[w].ok THEN {"sent"} ELSE {"pending", "blocked"}}
     ELSE UNCHANGED alert
  /\ run' = [run EXCEPT ![w] = IdleRun]
  /\ UNCHANGED <<asset, settings, inc, page, lock, left>>

\* The sweep over acknowledgements, under the same lock: the attempt, then the
\* request.
beginAcknowledge(w, e) ==
  /\ run[w].pc = "idle"
  /\ lock[e] = NoWorker
  /\ inc[e].ack = "asked"
  /\ \/ /\ inc[e].state # "open"
        /\ inc' = [inc EXCEPT ![e].ack = "cancelled"]
        /\ UNCHANGED <<run, lock>>
     \/ /\ inc[e].state = "open"
        /\ settings.dest
        /\ inc[e].ackTries < MaxAttempts
        /\ inc' = [inc EXCEPT ![e].ackTries = @ + 1,
                              ![e].ack = IF inc[e].ackTries + 1 >= MaxAttempts THEN "exhausted" ELSE @]
        /\ run' = [run EXCEPT ![w] = [IdleRun EXCEPT !.pc = "ack", !.e = e]]
        /\ lock' = [lock EXCEPT ![e] = w]
  /\ UNCHANGED <<asset, settings, page, alert, left>>

endAcknowledge(w) ==
  LET e == run[w].e
  IN /\ run[w].pc = "ack"
     /\ \E ack \in {"accepted", "exhausted"} \cup
                   (IF inc[e].ackTries < MaxAttempts THEN {"asked"} ELSE {}) :
          inc' = [inc EXCEPT ![e].ack = ack]
     /\ run' = [run EXCEPT ![w] = IdleRun]
     /\ lock' = [lock EXCEPT ![e] = NoWorker]
     /\ UNCHANGED <<asset, settings, page, alert, left>>

\* The process dies: its connection closes and the lock with it, the claim stays.
crash(w) ==
  /\ run[w].pc # "idle"
  /\ Spend("crash")
  /\ lock' = [e \in Episodes |-> IF lock[e] = w THEN NoWorker ELSE lock[e]]
  /\ run' = [run EXCEPT ![w] = IdleRun]
  /\ UNCHANGED <<asset, settings, inc, page, alert>>

Init ==
  /\ asset = [exp |-> 1, cycle |-> 1, retired |-> FALSE, proof |-> "new"]
  /\ settings = [window |-> 1, dest |-> TRUE]
  /\ inc = [e \in Episodes |-> NoIncident]
  /\ page = [e \in Episodes |-> "none"]
  /\ lock = [e \in Episodes |-> NoWorker]
  /\ alert = NoAlert
  /\ run = [w \in Workers |-> IdleRun]
  /\ left = MaxDisturbances

runStep(w) ==
  \/ enqueuePagerDutyIncident(w)
  \/ tryLock(w)
  \/ claimIncident(w)
  \/ reconcilePagerDutyParentAlert(w)
  \/ dropTrigger(w)
  \/ decideResolve(w)
  \/ wait(w)
  \/ recordAttempt(w)
  \/ send(w)
  \/ recordOutcome(w)
  \/ settleAlert(w)
  \/ endAcknowledge(w)

Next ==
  \/ \E x \in 1 .. MaxExpiration : changeExpiration(x)
  \/ retireAsset
  \/ \E proof \in Evidence : verifyExpiry(proof)
  \/ changeSettings
  \/ queueAlert
  \/ requeueAlertsCore
  \/ \E e \in Episodes : \/ acknowledge(e)
                         \/ resolve(e)
                         \/ nextAttemptDue(e)
                         \/ leaseExpires(e)
  \/ \E w \in Workers : \/ claimAlert(w)
                        \/ runStep(w)
                        \/ crash(w)
  \/ \E w \in Workers, e \in Episodes : \/ reconcilePagerDutyIncidents(w, e)
                                        \/ beginAcknowledge(w, e)

Spec == Init /\ [][Next]_vars

\* The delivery schedule starts runs again and again and each takes a batch of the
\* incidents that are due, the longest due first; a run that does not die goes on.
FairSpec ==
  /\ Spec
  /\ \A e \in Episodes : /\ WF_vars(nextAttemptDue(e))
                         /\ WF_vars(leaseExpires(e))
                         /\ SF_vars(\E w \in Workers : reconcilePagerDutyIncidents(w, e))
  /\ \A w \in Workers : WF_vars(runStep(w))

(***************************************************************************)
(* Properties                                                              *)
(***************************************************************************)
AssetType == [exp : 0 .. MaxExpiration, cycle : Nat, retired : BOOLEAN, proof : Evidence]
SettingsType == [window : Windows \cup {0}, dest : BOOLEAN]

IncidentType ==
  [state : Live \cup {"none", "resolved", "cancelled"}, orig : 0 .. MaxExpiration,
   risk : Windows \cup {0}, cycle : Nat, accepted : BOOLEAN, uncertain : BOOLEAN,
   tries : 0 .. MaxAttempts, exhausted : BOOLEAN, due : BOOLEAN,
   claim : Workers \cup {NoWorker}, leased : BOOLEAN, manual : BOOLEAN,
   ack : {"none", "asked", "accepted", "cancelled", "exhausted"}, ackTries : 0 .. MaxAttempts]

RunType ==
  [pc : {"idle", "enqueue", "lock", "claim", "repair", "decide", "send", "record",
         "repairEnd", "settle", "ack"},
   e : Episodes \cup {0}, fg : BOOLEAN, asset : AssetType, settings : SettingsType,
   inc : IncidentType, got : {"none", "accepted", "rejected", "throttled", "unknown", "odd"},
   ok : BOOLEAN]

\* The columns and their ranges; no action is tried more often than its budget.
TypeOK ==
  /\ asset \in AssetType
  /\ settings \in SettingsType
  /\ inc \in [Episodes -> IncidentType]
  /\ page \in [Episodes -> {"none", "triggered", "resolved"}]
  /\ lock \in [Episodes -> Workers \cup {NoWorker}]
  /\ alert \in [status : {"none", "pending", "blocked", "sent"}, held : Workers \cup {NoWorker}]
  /\ run \in [Workers -> RunType]
  /\ left \in 0 .. MaxDisturbances

PageKnown(e) ==
  /\ page[e] = "triggered" => \/ inc[e].state \in {"open", "resolve_pending"}
                              \/ inc[e].state = "trigger_pending" /\ inc[e].uncertain
  /\ inc[e].state = "open" => page[e] = "triggered"
  /\ inc[e].state = "resolved" => page[e] = "resolved"

\* The ledger never loses sight of a page: what PagerDuty still shows is open,
\* being resolved, or pending with its acceptance unknown, never cancelled or
\* resolved; and what the ledger calls open, or resolved, is so at PagerDuty.
\* Attempts are recorded before the request for this, and a rejection does not
\* undo an earlier timeout.
LedgerMatchesProvider == \A e \in Episodes : PageKnown(e)

\* A run decides on what it has read, and acts only while that holds: when an
\* attempt to trigger is recorded the asset is at risk, and when the worker
\* records the intent to resolve it is retired, or renewed beyond the window.
DecisionsAreCurrent ==
  [][\A e \in Episodes :
       /\ inc[e].state = "trigger_pending" /\ inc'[e].tries > inc[e].tries =>
            AtRisk(asset, settings) /\ ~asset.retired
       /\ inc[e].state = "open" /\ inc'[e].state = "resolve_pending" /\ ~inc'[e].manual =>
            \/ asset.retired
            \/ asset.exp > inc[e].orig /\ asset.exp > destinationThreshold(settings)]_vars

RenewedForGood ==
  /\ settings.dest
  /\ asset.proof = "new"
  /\ \A n \in Windows : asset.exp > n

\* When an asset is renewed beyond every window, and stays so, every episode ends:
\* resolved or cancelled, or parked for an operator.
EpisodesEnd ==
  <>[]RenewedForGood =>
    <>[](\A e \in Episodes : inc[e].state \in Live => inc[e].exhausted)

\* An alert that ran out of attempts while its page got through after all is
\* settled by the sweep over open incidents.
AcceptedAlertSettles ==
  LET stuck(e) == /\ alert.status = "blocked"
                  /\ inc[e].state = "open"
                  /\ inc[e].cycle = asset.cycle
  IN <>[](destinationThreshold(settings) > 0) => \A e \in Episodes : stuck(e) ~> ~stuck(e)

(***************************************************************************)
(* The inductive invariant                                                 *)
(***************************************************************************)

\* Steps of a run under the lock of its episode, and those under its claim.
Holding == {"claim", "repair", "decide", "send", "record", "repairEnd", "ack"}
Claimed == {"repair", "decide", "send", "record"}

\* A run at work on an episode has its lock.
LockOK(w) ==
  /\ run[w].pc \in Holding \cup {"lock"} => run[w].e \in Episodes
  /\ run[w].pc \in Holding => lock[run[w].e] = w

\* The copy a run works on is what the row says, but for what others write
\* without the lock (the requeue, a raised window, next_attempt_at) ...
CopyOK(w) ==
  LET r == run[w]
      i == inc[r.e]
  IN r.pc \in Claimed =>
       /\ i.claim = w
       /\ i.state \in Live
       /\ i.state = r.inc.state
       /\ i.accepted = r.inc.accepted
       /\ i.orig = r.inc.orig
       /\ r.pc \in {"repair", "decide"} => i.uncertain = r.inc.uncertain /\ i.tries <= r.inc.tries

\* ... and from the record of the attempt to the record of its outcome the row
\* says "uncertain", which the copy says only of earlier attempts.
AttemptOK(w) ==
  LET r == run[w]
      i == inc[r.e]
      trigger == i.state = "trigger_pending"
  IN r.pc \in {"send", "record"} =>
       /\ i.state \in {"trigger_pending", "resolve_pending"}
       /\ trigger => i.uncertain
       /\ trigger /\ page[r.e] = "triggered" =>
            r.inc.uncertain \/ (r.pc = "record" /\ r.got \in {"accepted", "unknown", "odd"})
       /\ r.pc = "record" /\ r.got = "accepted" =>
            page[r.e] = IF trigger THEN "triggered" ELSE "resolved"

RunOK(w) == LockOK(w) /\ CopyOK(w) /\ AttemptOK(w)

\* trigger_accepted_at, and what PagerDuty has seen of a page that was accepted.
AcceptanceOK(e) ==
  /\ inc[e].state = "open" => inc[e].accepted
  /\ inc[e].state = "trigger_pending" => ~inc[e].accepted
  /\ inc[e].state \in {"open", "resolve_pending"} => page[e] # "none"

\* The strengthening of LedgerMatchesProvider that every step preserves: the lock,
\* the claim, and what a run knows of the row between decision and outcome.
IInv ==
  /\ TypeOK
  /\ \A w \in Workers : RunOK(w)
  /\ \A e \in Episodes : AcceptanceOK(e)
  /\ LedgerMatchesProvider
=============================================================================
