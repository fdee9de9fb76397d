---------------------------- MODULE AlertDelivery ----------------------------
(***************************************************************************)
(* The life of one row of alert_queue: queued by discovery                 *)
(* (apps/worker/src/queue-manager.js), delivered by runs of the delivery   *)
(* worker (apps/worker/src/delivery-worker.js), settled by the ledger of   *)
(* packages/recipient-verification, and retried by people                  *)
(* (apps/api/index.js, apps/api/services/alertQueue.js).  Rows do not      *)
(* touch one another, so one row is the system.                            *)
(*                                                                         *)
(* A run claims the row by writing its claim id and a marker into          *)
(* next_attempt_at, commits, and sends without a transaction: it renews    *)
(* the marker before every send and its writes name the claim id.  The     *)
(* delivery log is the only memory of what was sent.  The providers, and   *)
(* the recipients' consent, answer as they please.                         *)
(***************************************************************************)
EXTENDS Integers, FiniteSets

CONSTANTS
  Workers,       \* runs of the delivery worker, by delivery_claim_id
  NoWorker,      \* delivery_claim_id IS NULL
  Dests,         \* email addresses, webhook endpoints, phone numbers
  Channel,       \* the channel of a destination
  MaxAttempts,   \* MAX_ATTEMPTS_PER_CHANNEL
  CooldownFrom,  \* failures of a channel from which computeCooldownMs is not 0
  DegradedFrom,  \* DEGRADED_ATTEMPTS_THRESHOLD
  SmtpAccounts,  \* transports a mail is tried on: SMTP accounts, then the database's
  Disturbances,  \* what the environment may do
  MaxDisturbances \* how often, all together

ALLCHANNELS == {"email", "webhooks", "whatsapp"}

\* A run dies or a query of it fails, a run stalls past its marker, the answer of a
\* provider is lost, a person retries, the contact groups or the certificate change,
\* a delivery is put off.
Kinds == {"crash", "stall", "lose", "retry", "move", "defer"}

ASSUME WorkersAssumption == IsFiniteSet(Workers) /\ NoWorker \notin Workers
ASSUME ChannelAssumption == Channel \in [Dests -> ALLCHANNELS]
ASSUME AttemptsAssumption == /\ MaxAttempts \in Nat \ {0}
                             /\ CooldownFrom \in Nat
                             /\ DegradedFrom \in Nat
                             /\ SmtpAccounts \in Nat \ {0}
ASSUME DisturbancesAssumption == Disturbances \subseteq Kinds /\ MaxDisturbances \in Nat

VARIABLES
  row,       \* the row of alert_queue
  log,       \* alert_delivery_log, per destination
  run,       \* the runs of the delivery worker
  live,      \* destinations of the contact groups the asset has now
  retired,   \* the certificate is revoked or decommissioned
  window,    \* what the alert is about, see Windows
  incident,  \* the open operational notification delivery_blocked:<id>
  clearing,  \* retries by people whose notification is still to be resolved
  left,      \* what is left of MaxDisturbances
  accepted,  \* history: how often a provider accepted the alert for a destination
  blind,     \* history: sends by runs that had missed one, see MissedSends
  late,      \* history: a resolution closed the incident of a later block
  discarded, \* history: the row was closed without being delivered
  died       \* history: a run died

vars == <<row, log, run, live, retired, window, incident, clearing, left, accepted,
          blind, late, discarded, died>>
outside == <<live, retired, window, clearing>>
environment == <<live, retired, window, clearing, left, died>>
notices == <<incident, late>>

Channels == {Channel[d] : d \in Dests}
Of(c, D) == {d \in D : Channel[d] = c}
ChannelsOf(D) == {Channel[d] : d \in D}

\* What is known of one destination, and of a channel.  A channel is "failed"
\* or "partly" (delivered) while it is to be tried again, the others are final.
DestStates == {"none", "sent", "failed", "deferred", "excluded", "permanent"}
ChannelStates == {"none", "sent", "failed", "partly", "mixed", "rejected", "excluded"}
Retryable == {"none", "failed", "partly"}
OpenStatuses == {"pending", "failed", "partial"}

\* No alert yet; a renewal failed and its certificate was found alive; the alert of
\* that failure; the alert of a threshold of the expiry date.
Windows == {"none", "checked", "renewal", "expiry"}

NoOutcomes == [d \in Dests |-> "none"]
NoLedger == [c \in ALLCHANNELS |-> "none"]

\* channels is an array of names until the first settlement, then a ledger.
AbsentRow == [status |-> "absent", ledger |-> FALSE, retry |-> {}, required |-> {},
              state |-> NoLedger, out |-> NoOutcomes, cur |-> {}, gen |-> 0,
              tried |-> FALSE, tries |-> [c \in ALLCHANNELS |-> 0],
              maxed |-> FALSE, claim |-> NoWorker, wait |-> FALSE]

EmptyLog == [d \in Dests |-> [ok |-> FALSE, last |-> "none", perm |-> -1]]

IdleRun == [pc |-> "idle", snap |-> AbsentRow, live |-> {}, retired |-> FALSE,
            prior |-> EmptyLog, missed |-> {}, todo |-> {}, res |-> NoOutcomes,
            at |-> {}, got |-> "none", failures |-> 0, say |-> "none"]

Spend(k) == k \in Disturbances /\ left > 0 /\ left' = left - 1

(***************************************************************************)
(* The delivery ledger (packages/recipient-verification/index.js)          *)
(***************************************************************************)

\* Slip: unknown consent counts as settled.
recipientChannelOutcomeDeferred(out, D) ==
  CASE \E d \in D : out[d] \in {"none", "failed"} -> "failed"
    [] \A d \in D : out[d] = "excluded"           -> "excluded"
    [] OTHER                                      -> "sent"

\* The state of channel c when its destinations D stand as `out` says.
\* Recipients (email, WhatsApp) may be excluded, endpoints (webhooks) may
\* refuse for good.
recipientChannelOutcome(out, D) ==
  CASE \E d \in D : out[d] \in {"none", "failed", "deferred"} -> "failed"
    [] \A d \in D : out[d] = "excluded"                       -> "excluded"
    [] OTHER                                                  -> "sent"

endpointOutcome(out, D) ==
  LET some(S) == \E d \in D : out[d] \in S
  IN IF some({"none", "failed", "deferred"}) THEN IF some({"sent"}) THEN "partly" ELSE "failed"
     ELSE IF some({"permanent"}) THEN IF some({"sent"}) THEN "mixed" ELSE "rejected"
     ELSE "sent"

channelOutcome(c, out, D) == IF c = "webhooks"
                             THEN endpointOutcome(out, Of(c, D))
                             ELSE recipientChannelOutcome(out, Of(c, D))

\* Endpoints of the log that wait for another try make the channel a failure.
loggedOutcome(c, out, D) ==
  LET o == channelOutcome(c, out, D)
  IN IF o = "partly" THEN "failed" ELSE o

\* What the log says of a destination goes before what the ledger said.
foldDeliveryLog(logged, out) ==
  [d \in Dests |-> IF logged[d].last # "none" THEN logged[d].last ELSE out[d]]

\* The ledger after an attempt at the channels A: the attempt `res` goes before
\* the log, which goes before the ledger of the claim.  An attempt at webhooks
\* replaces what was known of the channel, and so do its log rows.
mergeDeliveryAttempt(r, A) ==
  LET snap == r.snap
      logged == {d \in Dests : r.prior[d].last # "none"}
      out(d) == IF Channel[d] \in A /\ (r.res[d] # "none" \/ Channel[d] = "webhooks")
                THEN r.res[d]
                ELSE foldDeliveryLog(r.prior, snap.out)[d]
      cur(c) == CASE c \in A -> Of(c, r.live)
                  [] c \notin A /\ (snap.state[c] = "none" \/ c = "webhooks")
                                /\ Of(c, logged) # {} -> Of(c, logged)
                  [] OTHER -> Of(c, snap.cur)
      newOut == [d \in Dests |-> out(d)]
      newCur == UNION {cur(c) : c \in ALLCHANNELS}
  IN [out |-> newOut, cur |-> newCur,
      state |-> [c \in ALLCHANNELS |-> IF c \in A THEN channelOutcome(c, newOut, newCur)
                                       ELSE IF Of(c, logged) # {}
                                       THEN loggedOutcome(c, newOut, newCur)
                                       ELSE snap.state[c]]]

\* The status the row gets from the states of the channels it requires.
deliveryDisposition(state, required) ==
  LET states == {state[c] : c \in required}
      good == states \cap {"sent", "partly", "mixed"}
  IN IF states \subseteq {"sent"} THEN "sent"
     ELSE IF good # {} THEN "partial"
     ELSE IF states \cap Retryable = {} THEN "blocked" ELSE "failed"

\* Slip: a channel without an outcome is forgotten.
toRetryKnown(state, required) == {c \in required : state[c] \in {"failed", "partly"}}

toRetry(state, required) == {c \in required : state[c] \in Retryable}

(***************************************************************************)
(* Discovery, people, and the world                                        *)
(***************************************************************************)

\* Nobody is told of a failed renewal by WhatsApp.
audience(about, D) == IF about = "renewal" THEN {d \in D : Channel[d] # "whatsapp"} ELSE D

\* queueDiscoveryJob queues the alert of a threshold window once, for an asset
\* that is alive and has somebody to tell.
queueAlert ==
  /\ window = "none"
  /\ row.status = "absent"
  /\ ~retired
  /\ live # {}
  /\ window' = "expiry"
  /\ row' = [AbsentRow EXCEPT !.status = "pending", !.retry = ChannelsOf(live)]
  /\ UNCHANGED <<log, run, live, retired, clearing, left, died, notices, accepted, blind,
                 discarded>>

\* A renewal failed for good: the certificate is looked at, then the alert is
\* inserted.  The certificate may be retired between the two.
loadRenewalAlertCertificate ==
  /\ window = "none"
  /\ ~retired
  /\ window' = "checked"
  /\ UNCHANGED <<row, log, run, live, retired, clearing, left, died, notices, accepted,
                 blind, discarded>>

queueCertRenewalFailedAlert ==
  /\ window = "checked"
  /\ row.status = "absent"
  /\ audience("renewal", live) # {}
  /\ window' = "renewal"
  /\ row' = [AbsentRow EXCEPT !.status = "pending",
                              !.retry = ChannelsOf(audience("renewal", live))]
  /\ UNCHANGED <<log, run, live, retired, clearing, left, died, notices, accepted, blind,
                 discarded>>

\* The channels of an expiry alert, open and held by nobody, are brought in line
\* with the groups as long as its threshold is the one discovery looks up: nothing
\* says that this happens.  The outcome of a channel that is gone goes with it, the
\* generation of the webhooks too.
reconcileDeliveryChannels ==
  LET now == ChannelsOf(live)
      legacy == [row EXCEPT !.retry = IF @ = {} THEN now
                                      ELSE IF @ \cap now # {} THEN @ \cap now ELSE @]
      kept == [c \in ALLCHANNELS |-> IF c \in now THEN row.state[c] ELSE "none"]
      ledger == [row EXCEPT !.retry = toRetry(kept, now), !.required = now, !.state = kept,
                            !.out = [d \in Dests |-> IF Channel[d] \in now THEN @[d]
                                                     ELSE "none"],
                            !.cur = {d \in @ : Channel[d] \in now},
                            !.gen = IF "webhooks" \in now THEN @ ELSE 0]
      next == IF row.ledger THEN ledger ELSE legacy
  IN /\ window = "expiry"
     /\ ~retired
     /\ row.status \in OpenStatuses
     /\ row.claim = NoWorker
     /\ next # row
     /\ row' = next
     /\ UNCHANGED <<log, run, environment, notices, accepted, blind, discarded>>

\* A final failure of the webhooks is opened again, under a new generation: the
\* log rows of earlier generations no longer exclude their endpoints.
reopened(c, r) ==
  IF r.state[c] \in {"mixed", "rejected"}
  THEN [r EXCEPT !.state[c] = "failed", !.gen = IF c = "webhooks" THEN @ + 1 ELSE @]
  ELSE r

\* The channel is planned from a row read before, and the update compares
\* status, channels and claim with what was read: one step.
planManualRetry(c) ==
  LET known == IF row.required # {} THEN row.required
               ELSE {x \in ALLCHANNELS : row.state[x] # "none"}
      plan == IF row.state[c] = "excluded"
              THEN [row EXCEPT !.state[c] = "none", !.cur = @ \ Of(c, Dests),
                               !.out = [d \in Dests |-> IF Channel[d] = c THEN "none"
                                                        ELSE @[d]]]
              ELSE reopened(c, row)
  IN /\ row.status \in OpenStatuses \cup {"blocked"}
     /\ ~(row.status = "blocked" /\ row.maxed)
     /\ ~row.wait
     /\ IF row.ledger THEN c \in known \cup row.retry /\ row.state[c] # "sent"
                      ELSE c \in row.retry
     /\ Spend("retry")
     /\ row' = [plan EXCEPT !.status = "pending", !.retry = {c}, !.claim = NoWorker,
                            !.required = IF row.ledger THEN known \cup {c} ELSE {}]
     /\ clearing' = clearing + 1
     /\ UNCHANGED <<log, run, live, retired, window, notices, accepted, blind, discarded,
                    died>>

\* Requeue of all failed alerts.  It looks neither at the claim nor at the marker.
requeueAlertsCore ==
  LET open == row.state["webhooks"] \in {"mixed", "rejected", "partly"}
  IN /\ row.status \in {"failed", "partial", "blocked"}
     /\ Spend("retry")
     /\ row' = [row EXCEPT
          !.status = "pending", !.tried = FALSE, !.tries = [c \in ALLCHANNELS |-> 0],
          !.maxed = FALSE, !.wait = FALSE,
          !.retry = IF open THEN @ \cup {"webhooks"} ELSE @,
          !.state["webhooks"] = IF open THEN "failed" ELSE @,
          !.gen = IF open THEN @ + 1 ELSE @]
     /\ clearing' = clearing + 1
     /\ UNCHANGED <<log, run, live, retired, window, notices, accepted, blind, discarded,
                    died>>

\* After the update of either, a second statement resolves the notification the
\* row had.  It asks nothing of the row, and its failure is only logged.
resolveRequeuedNotifications ==
  /\ clearing > 0
  /\ clearing' = clearing - 1
  /\ \/ /\ incident' = "none"
        /\ late' = (late \/ (row.status = "blocked" /\ incident # "none"))
     \/ UNCHANGED notices
  /\ UNCHANGED <<row, log, run, live, retired, window, left, died, accepted, blind,
                 discarded>>

assignContactGroups(D) ==
  /\ D # live
  /\ Spend("move")
  /\ live' = D
  /\ UNCHANGED <<row, log, run, retired, window, clearing, notices, accepted, blind,
                 discarded, died>>

\* The retirement closes the unsent alerts of the certificate and resolves their
\* notifications in its own transaction.
retireCertificate ==
  /\ ~retired
  /\ Spend("move")
  /\ retired' = TRUE
  /\ IF row.status \in OpenStatuses \cup {"blocked"}
     THEN /\ row' = [row EXCEPT !.status = "sent", !.maxed = FALSE, !.wait = FALSE,
                                !.claim = NoWorker]
          /\ incident' = "none"
          /\ discarded' = TRUE
     ELSE UNCHANGED <<row, incident, discarded>>
  /\ UNCHANGED <<log, run, live, window, clearing, late, accepted, blind, died>>

\* Slip: the marker of a run that died stays.
nextAttemptDueUnclaimed ==
  /\ row.wait
  /\ row.claim = NoWorker
  /\ row' = [row EXCEPT !.wait = FALSE]
  /\ UNCHANGED <<log, run, environment, notices, accepted, blind, discarded>>

\* next_attempt_at passes: a cooldown, a deferral, or the marker of a claim.  It
\* passes under a run that is still at work only when that run stalls.
nextAttemptDue ==
  /\ row.wait
  /\ row' = [row EXCEPT !.wait = FALSE]
  /\ IF row.claim # NoWorker /\ run[row.claim].pc # "idle"
     THEN Spend("stall")
     ELSE UNCHANGED left
  /\ UNCHANGED <<log, run, outside, notices, accepted, blind, discarded, died>>

(***************************************************************************)
(* A run of the delivery worker                                            *)
(***************************************************************************)

\* The claim transaction takes a snapshot of the row and of the contact groups.
claimAlert(w) ==
  /\ run[w].pc = "idle"
  /\ row.status \in OpenStatuses
  /\ ~(row.status = "partial" /\ row.retry = {})
  /\ ~row.wait
  /\ row' = [row EXCEPT !.claim = w, !.wait = TRUE]
  /\ run' = [run EXCEPT ![w] = [IdleRun EXCEPT
               !.pc = "claimed", !.live = audience(window, live), !.retired = retired,
               !.snap = [row EXCEPT !.claim = NoWorker, !.wait = FALSE]]]
  /\ UNCHANGED <<log, environment, notices, accepted, blind, discarded>>

Owns(w) == row.claim = w /\ row.status \in OpenStatuses

\* Slip: the heartbeat does not ask whose claim it is.
assertStillOpen(w) == row.status \in OpenStatuses /\ row' = [row EXCEPT !.wait = TRUE]

\* assertStillOwnsDelivery renews the marker, or throws and the row is let go.
assertStillOwnsDelivery(w) == Owns(w) /\ row' = [row EXCEPT !.wait = TRUE]

DeliveryOwnershipLost(w) ==
  /\ \/ run[w].pc = "claimed"
     \/ run[w].pc = "loop" /\ run[w].todo # {}
     \/ run[w].pc = "again"
  /\ ~Owns(w)
  /\ run' = [run EXCEPT ![w] = IdleRun]
  /\ UNCHANGED <<row, log, environment, notices, accepted, blind, discarded>>

\* The channels a run tries: all of them at first, then those left to retry.
channelsForDeliveryAttempt(r) ==
  IF r.snap.tried THEN ChannelsOf(r.live) \cap r.snap.retry ELSE ChannelsOf(r.live)

\* The run closes the row, or gives it back, without sending.
Release(w, new) ==
  /\ run[w].pc = "claimed"
  /\ Owns(w)
  /\ row' = [new EXCEPT !.claim = NoWorker]
  /\ run' = [run EXCEPT ![w] = IdleRun]

discardRetired(w) ==
  /\ run[w].retired
  /\ Release(w, [row EXCEPT !.status = "sent", !.wait = FALSE])
  /\ discarded' = TRUE
  /\ UNCHANGED <<log, environment, notices, accepted, blind>>

\* The endpoint has not failed often enough yet, or the workspace's delivery
\* window is closed.
deferDelivery(w) ==
  /\ ~run[w].retired
  /\ Spend("defer")
  /\ \/ Release(w, [row EXCEPT !.wait = FALSE])
     \/ Release(w, [row EXCEPT !.status = "pending", !.wait = TRUE])
  /\ UNCHANGED <<log, outside, notices, accepted, blind, discarded, died>>

\* A ledger with nothing to try.
noRetryLeft(w) ==
  /\ ~run[w].retired
  /\ run[w].snap.ledger
  /\ channelsForDeliveryAttempt(run[w]) = {}
  /\ Release(w, [row EXCEPT !.status = IF @ = "partial" THEN @ ELSE "blocked", !.wait = FALSE])
  /\ UNCHANGED <<log, environment, notices, accepted, blind, discarded>>

\* The history a run goes by: a log that cannot be read counts as empty.
priorDeliveryRows(prior) ==
  \/ prior = log /\ UNCHANGED left
  \/ prior = EmptyLog /\ Spend("crash")

\* An array of channels with nothing to try: there are no contacts at all, or
\* the ones there are now are entered as the ledger's.
noContacts(w, prior) ==
  LET r == [run[w] EXCEPT !.prior = prior]
      ledger == mergeDeliveryAttempt(r, {})
      required == IF r.live # {} THEN ChannelsOf(r.live)
                  ELSE {c \in ALLCHANNELS : ledger.state[c] # "none"}
  IN /\ ~r.retired
     /\ ~r.snap.ledger
     /\ channelsForDeliveryAttempt(r) = {}
     /\ priorDeliveryRows(prior)
     /\ IF required = {}
        THEN /\ Release(w, [row EXCEPT !.status = "failed", !.tried = TRUE, !.wait = FALSE])
             /\ incident' = "warning"
        ELSE /\ Release(w, [row EXCEPT
                  !.status = deliveryDisposition(ledger.state, required), !.tried = TRUE,
                  !.ledger = TRUE, !.state = ledger.state, !.out = ledger.out,
                  !.cur = ledger.cur, !.required = required,
                  !.retry = toRetry(ledger.state, required), !.wait = FALSE])
             /\ UNCHANGED incident
     /\ UNCHANGED <<log, outside, died, late, accepted, blind, discarded>>

\* History: what the run goes by has no success for these although the alert was,
\* or is about to be, handed to the provider: by w's predecessors, or by a run
\* that is late.
MissedSends(w, prior, D) ==
  {d \in D : /\ ~prior[d].ok
             /\ \/ accepted[d] > 0
                \/ \E v \in Workers \ {w} : run[v].pc = "armed" /\ run[v].at = {d}}

\* The run reads the delivery log and starts on the destinations of its channels.
beginDelivery(w, prior) ==
  LET r == run[w]
      A == channelsForDeliveryAttempt(r)
      D == {d \in r.live : Channel[d] \in A}
  IN /\ r.pc = "claimed"
     /\ ~r.retired
     /\ A # {}
     /\ priorDeliveryRows(prior)
     /\ assertStillOwnsDelivery(w)
     /\ run' = [run EXCEPT ![w].pc = "loop", ![w].prior = prior, ![w].todo = D,
                           ![w].missed = MissedSends(w, prior, D)]
     /\ UNCHANGED <<log, outside, died, notices, accepted, blind, discarded>>

\* Channel by channel, and within a channel one destination after the other.
inTurn(D) ==
  LET c == CHOOSE c \in ChannelsOf(D) :
             \/ c = "email"
             \/ c = "webhooks" /\ Of("email", D) = {}
             \/ ChannelsOf(D) = {"whatsapp"}
  IN CHOOSE d \in Of(c, D) : TRUE

Working(w, d) ==
  /\ run[w].pc = "loop"
  /\ run[w].todo # {}
  /\ d = inTurn(run[w].todo)

\* An endpoint that refused for good under this generation, webhookPermanentHashes.
webhookPermanent(r, d) == Channel[d] = "webhooks" /\ r.prior[d].perm >= r.snap.gen

\* The log has a success, or a final refusal, of the destination: not sent again.
skipDestination(w, d) ==
  LET r == run[w]
  IN /\ Working(w, d)
     /\ r.prior[d].ok \/ webhookPermanent(r, d)
     /\ IF Channel[d] = "webhooks" THEN UNCHANGED row ELSE assertStillOwnsDelivery(w)
     /\ run' = [run EXCEPT ![w].todo = @ \ {d},
                           ![w].res[d] = IF r.prior[d].ok THEN "sent" ELSE "permanent"]
     /\ UNCHANGED <<log, environment, notices, accepted, blind, discarded>>

\* The recipient must not be written to, or it is unknown whether it may be, or
\* the organisation's WhatsApp rate is used up.  The log gets a row of it when the
\* recipient had passed the filter over all recipients and fails the check just
\* before its send (recheckDestination).
withholdRecipient(w, d) ==
  /\ Working(w, d)
  /\ Channel[d] # "webhooks"
  /\ assertStillOwnsDelivery(w)
  /\ \E s \in {"excluded", "deferred"}, recheck \in BOOLEAN :
       /\ recheck /\ s = "excluded" => Channel[d] = "email"
       /\ log' = IF recheck THEN [log EXCEPT ![d].last = s] ELSE log
       /\ run' = [run EXCEPT ![w].todo = @ \ {d}, ![w].res[d] = s]
  /\ UNCHANGED <<environment, notices, accepted, blind, discarded>>

\* The last assertion before a send.
armSend(w, d) ==
  /\ Working(w, d)
  /\ ~run[w].prior[d].ok
  /\ ~webhookPermanent(run[w], d)
  /\ assertStillOwnsDelivery(w)
  /\ run' = [run EXCEPT ![w].pc = "armed", ![w].at = {d}, ![w].todo = @ \ {d}]
  /\ blind' = IF d \in run[w].missed THEN [blind EXCEPT ![d] = @ + 1] ELSE blind
  /\ UNCHANGED <<log, environment, notices, accepted, discarded>>

\* The request.  The provider may accept it and the answer be lost.  A mail that
\* failed on one account goes to the next one, if there is one that can take it
\* (the database's is not asked after a rate limit).
send(w) ==
  /\ run[w].pc = "armed"
  /\ \E d \in run[w].at, took \in BOOLEAN, more \in BOOLEAN,
        got \in {"sent", "failed", "permanent"} :
       /\ got = "sent" => took
       /\ got = "permanent" => Channel[d] = "webhooks" /\ ~took
       /\ more => /\ got = "failed"
                  /\ Channel[d] = "email"
                  /\ run[w].failures + 1 < SmtpAccounts
       /\ IF took /\ got # "sent" THEN Spend("lose") ELSE UNCHANGED left
       /\ accepted' = IF took THEN [accepted EXCEPT ![d] = @ + 1] ELSE accepted
       /\ run' = [run EXCEPT ![w].pc = IF more THEN "again" ELSE "answered", ![w].got = got,
                             ![w].failures = IF more THEN @ + 1 ELSE 0,
                             ![w].missed = IF more /\ took THEN @ \cup {d} ELSE @]
  /\ UNCHANGED <<row, log, outside, died, notices, blind, discarded>>

\* The next SMTP account, after another assertion and another look at the
\* recipient's consent: without it the mail has failed.
nextSmtpAccount(w) ==
  /\ run[w].pc = "again"
  /\ assertStillOwnsDelivery(w)
  /\ \/ /\ run' = [run EXCEPT ![w].pc = "armed", ![w].got = "none"]
        /\ blind' = [d \in Dests |-> IF d \in run[w].at \cap run[w].missed
                                     THEN blind[d] + 1 ELSE blind[d]]
     \/ /\ run' = [run EXCEPT ![w].pc = "answered", ![w].got = "failed", ![w].failures = 0]
        /\ UNCHANGED blind
  /\ UNCHANGED <<log, environment, notices, accepted, discarded>>

\* The answer is written to the delivery log, whoever holds the row by now.
logDelivery(w) ==
  /\ run[w].pc = "answered"
  /\ \E d \in run[w].at :
       /\ log' = [log EXCEPT ![d].last = run[w].got,
                             ![d].ok = @ \/ run[w].got = "sent",
                             ![d].perm = IF run[w].got = "permanent" /\ run[w].snap.gen > @
                                         THEN run[w].snap.gen ELSE @]
       /\ run' = [run EXCEPT ![w].pc = "loop", ![w].at = {}, ![w].got = "none",
                             ![w].res[d] = run[w].got]
  /\ UNCHANGED <<row, environment, notices, accepted, blind, discarded>>

\* The insert throws: the rest of the channel is left untried, and what was
\* learnt of webhook endpoints is dropped.
channelThrows(w) ==
  LET c == Channel[CHOOSE d \in run[w].at : TRUE]
  IN /\ run[w].pc = "answered"
     /\ Spend("crash")
     /\ run' = [run EXCEPT ![w].pc = "loop", ![w].at = {}, ![w].got = "none",
                           ![w].todo = @ \ Of(c, Dests),
                           ![w].res = [d \in Dests |-> IF c = "webhooks" /\ Channel[d] = c
                                                       THEN "none" ELSE @[d]]]
     /\ UNCHANGED <<row, log, outside, notices, accepted, blind, discarded, died>>

\* Slip: a success takes one failure back instead of all of them.
newAttemptsLess(r, A) ==
  [c \in ALLCHANNELS |->
     LET o == channelOutcome(c, r.res, r.live)
     IN CASE c \notin A \/ o = "excluded" -> r.snap.tries[c]
          [] c \in A /\ o = "sent"        -> r.snap.tries[c] - 1
          [] OTHER                        -> r.snap.tries[c] + 1]

\* The counters of failures in a row: an attempt that only met recipients who
\* must not be written to does not count.
newAttempts(r, A) ==
  [c \in ALLCHANNELS |->
     LET o == channelOutcome(c, r.res, r.live)
     IN CASE c \notin A \/ o = "excluded" -> r.snap.tries[c]
          [] c \in A /\ o = "sent"        -> 0
          [] OTHER                        -> r.snap.tries[c] + 1]

\* A WhatsApp failure other than a throttle or unknown consent is final.
whatsappPermanentFailure(r, A) ==
  LET D == Of("whatsapp", r.live)
  IN /\ "whatsapp" \in A
     /\ channelOutcome("whatsapp", r.res, r.live) = "failed"
     /\ \A d \in D : r.res[d] # "deferred"

\* What a run makes of the row it took, and what it reports.
settlement(r) ==
  LET A == channelsForDeliveryAttempt(r)
      ledger == mergeDeliveryAttempt(r, A)
      held == r.snap.required \cup r.snap.retry
              \cup {c \in ALLCHANNELS : r.snap.state[c] # "none"}
      required == IF r.snap.ledger THEN held \cup ChannelsOf(r.live) ELSE ChannelsOf(r.live)
      tries == newAttempts(r, A)
      maxed == \E c \in ALLCHANNELS : tries[c] >= MaxAttempts
      barred == whatsappPermanentFailure(r, A)
      status == IF maxed \/ barred THEN "blocked"
                ELSE deliveryDisposition(ledger.state, required)
      retry == toRetry(ledger.state, required)
  IN [row |-> [r.snap EXCEPT
                !.status = status, !.ledger = TRUE, !.state = ledger.state,
                !.out = ledger.out, !.cur = ledger.cur, !.required = required,
                !.retry = IF barred THEN {} ELSE retry,
                !.tried = TRUE, !.tries = tries, !.maxed = maxed, !.claim = NoWorker,
                !.wait = /\ status \notin {"sent", "blocked"}
                         /\ retry # {}
                         /\ \E c \in A : tries[c] >= CooldownFrom /\ tries[c] > r.snap.tries[c]],
      say |-> IF status = "sent" THEN "resolve"
              ELSE IF maxed \/ barred THEN "blocked"
              ELSE IF \E c \in ALLCHANNELS : tries[c] >= DegradedFrom THEN "warning" ELSE "none"]

\* The terminal write.  It names the claim id, so a run that lost the row
\* changes nothing.
settleAlert(w) ==
  LET new == settlement(run[w])
  IN /\ run[w].pc = "loop"
     /\ run[w].todo = {}
     /\ IF row.claim = w
        THEN /\ row' = new.row
             /\ run' = [run EXCEPT ![w] = IF new.say = "none" THEN IdleRun
                                          ELSE [IdleRun EXCEPT !.pc = "report", !.say = new.say]]
        ELSE /\ run' = [run EXCEPT ![w] = IdleRun]
             /\ UNCHANGED row
     /\ UNCHANGED <<log, environment, notices, accepted, blind, discarded>>

\* Slip: only warnings are raised.
reportWarning(w) ==
  /\ run[w].pc = "report"
  /\ incident' = CASE run[w].say = "resolve" -> "none"
                   [] run[w].say = "warning" -> "warning"
                   [] OTHER -> incident
  /\ late' = (late /\ run[w].say = "resolve")
  /\ run' = [run EXCEPT ![w] = IdleRun]
  /\ UNCHANGED <<row, log, environment, accepted, blind, discarded>>

\* After the write, the operational notification is raised or resolved.
reportOutcome(w) ==
  /\ run[w].pc = "report"
  /\ incident' = IF run[w].say = "resolve" THEN "none" ELSE run[w].say
  /\ late' = (late /\ run[w].say = "resolve")
  /\ run' = [run EXCEPT ![w] = IdleRun]
  /\ UNCHANGED <<row, log, environment, accepted, blind, discarded>>

\* The process dies, or a query fails and the run ends.
crash(w) ==
  /\ run[w].pc # "idle"
  /\ Spend("crash")
  /\ died' = TRUE
  /\ run' = [run EXCEPT ![w] = IdleRun]
  /\ UNCHANGED <<row, log, outside, notices, accepted, blind, discarded>>

\* The sweep over incidents whose row is no longer a failure.
reconcileStaleDeliveryIncidents ==
  /\ incident # "none"
  /\ row.status \notin {"blocked", "failed", "partial"}
  /\ incident' = "none"
  /\ UNCHANGED <<row, log, run, environment, late, accepted, blind, discarded>>

Init ==
  /\ row = AbsentRow
  /\ log = EmptyLog
  /\ run = [w \in Workers |-> IdleRun]
  /\ live \in SUBSET Dests
  /\ retired = FALSE
  /\ window = "none"
  /\ incident = "none"
  /\ clearing = 0
  /\ left = MaxDisturbances
  /\ accepted = [d \in Dests |-> 0]
  /\ blind = [d \in Dests |-> 0]
  /\ late = FALSE
  /\ discarded = FALSE
  /\ died = FALSE

runStep(w) ==
  \/ DeliveryOwnershipLost(w)
  \/ discardRetired(w)
  \/ noRetryLeft(w)
  \/ \E prior \in {log, EmptyLog} : noContacts(w, prior)
  \/ \E prior \in {log, EmptyLog} : beginDelivery(w, prior)
  \/ \E d \in Dests : \/ skipDestination(w, d)
                      \/ withholdRecipient(w, d)
                      \/ armSend(w, d)
  \/ send(w)
  \/ nextSmtpAccount(w)
  \/ logDelivery(w)
  \/ settleAlert(w)
  \/ reportOutcome(w)

Next ==
  \/ queueAlert
  \/ loadRenewalAlertCertificate
  \/ queueCertRenewalFailedAlert
  \/ reconcileDeliveryChannels
  \/ \E c \in ALLCHANNELS : planManualRetry(c)
  \/ requeueAlertsCore
  \/ resolveRequeuedNotifications
  \/ \E D \in SUBSET Dests : assignContactGroups(D)
  \/ retireCertificate
  \/ nextAttemptDue
  \/ \E w \in Workers : \/ claimAlert(w)
                        \/ runStep(w)
                        \/ deferDelivery(w)
                        \/ channelThrows(w)
                        \/ crash(w)
  \/ reconcileStaleDeliveryIncidents

Spec == Init /\ [][Next]_vars

\* The scheduler starts runs of the worker again and again, and a run that does
\* not die goes on.  Nothing is asked of discovery or of people.
FairSpec ==
  /\ Spec
  /\ WF_vars(nextAttemptDue)
  /\ WF_vars(\E w \in Workers : claimAlert(w))
  /\ \A w \in Workers : WF_vars(runStep(w))

(***************************************************************************)
(* Properties                                                              *)
(***************************************************************************)
RowType ==
  [status : {"absent", "sent", "blocked"} \cup OpenStatuses, ledger : BOOLEAN,
   retry : SUBSET ALLCHANNELS, required : SUBSET ALLCHANNELS,
   state : [ALLCHANNELS -> ChannelStates], out : [Dests -> DestStates],
   cur : SUBSET Dests, gen : Nat, tried : BOOLEAN, tries : [ALLCHANNELS -> Nat],
   maxed : BOOLEAN, claim : Workers \cup {NoWorker}, wait : BOOLEAN]

LogType == [Dests -> [ok : BOOLEAN, last : DestStates, perm : Int]]

RunType ==
  [pc : {"idle", "claimed", "loop", "armed", "again", "answered", "report"}, snap : RowType,
   live : SUBSET Dests, retired : BOOLEAN, prior : LogType, missed : SUBSET Dests,
   todo : SUBSET Dests,
   res : [Dests -> DestStates], at : SUBSET Dests,
   got : {"none", "sent", "failed", "permanent"}, failures : Nat,
   say : {"none", "resolve", "blocked", "warning"}]

\* The states of the row, of the log and of the runs.
TypeOK ==
  /\ row \in RowType
  /\ log \in LogType
  /\ run \in [Workers -> RunType]
  /\ live \in SUBSET Dests
  /\ retired \in BOOLEAN
  /\ window \in Windows
  /\ clearing \in Nat
  /\ incident \in {"none", "warning", "blocked"}
  /\ left \in 0 .. MaxDisturbances
  /\ accepted \in [Dests -> Nat]
  /\ blind \in [Dests -> Nat]
  /\ late \in BOOLEAN
  /\ discarded \in BOOLEAN
  /\ died \in BOOLEAN

\* Sends are at least once, and no more often than something was missed: a
\* destination gets the alert again only from a run whose history lacks the earlier
\* send (it began while that send was under way or had not made it into the delivery
\* log, or it could not read the log), or from the next SMTP account after one that
\* took the mail and did not say so.  Losing the claim, a retry by a person or a
\* change of groups never is a reason by itself (the assertion before each send, and
\* the successes of the log).
DuplicatesExplained == \A d \in Dests : accepted[d] <= 1 + blind[d]

\* A row that says "sent" and was not discarded has reached every destination it
\* was settled for, except recipients who must not be written to, and has
\* reached somebody on every channel it requires.
SentMeansDelivered ==
  row.status = "sent" /\ ~discarded =>
    \A c \in row.required :
      /\ \A d \in Of(c, row.cur) : accepted[d] > 0 \/ row.out[d] = "excluded"
      /\ \E d \in Of(c, Dests) : accepted[d] > 0

\* An open row that no claim takes any more (partial, nothing to retry) owes no
\* channel a delivery: DELIVERY_CLAIM_EXCLUSION_SQL never strands one.
ExcludedRowOwesNothing ==
  row.status = "partial" /\ row.retry = {} =>
    \A c \in row.required : row.state[c] \notin Retryable

\* A row that ran out of attempts has its incident, or a run is about to raise
\* it, or a run died, or the second statement of a retry by a person closed it: the
\* write and the notification are two statements on both sides, and the
\* notifications of two runs may come in either order.
BlockedIsReported ==
  row.status = "blocked" /\ row.maxed =>
    \/ incident # "none"
    \/ \E w \in Workers : run[w].pc = "report" /\ run[w].say # "resolve"
    \/ died
    \/ late

\* What makes these inductive.  A recorded success was accepted (a counts what
\* was), only endpoints refuse for good and only recipients are excluded.
Backed(out, a) ==
  \A d \in Dests : /\ out[d] = "sent" => a[d] > 0
                   /\ out[d] = "permanent" => Channel[d] = "webhooks"
                   /\ out[d] = "excluded" => Channel[d] # "webhooks"

LogBacked(l, a) ==
  /\ Backed([d \in Dests |-> l[d].last], a)
  /\ \A d \in Dests : l[d].ok => a[d] > 0

\* A channel that counts as sent has a success, and nothing but successes and
\* excluded recipients: in the row, and in the copies the runs took of it.
Reached(out, D) == /\ \A d \in D : out[d] \in {"sent", "excluded"}
                   /\ \E d \in D : out[d] = "sent"

LedgerBacked(r, a) ==
  /\ Backed(r.out, a)
  /\ \A c \in ALLCHANNELS : r.state[c] = "sent" => Reached(r.out, Of(c, r.cur))

RowInv ==
  /\ LedgerBacked(row, accepted)
  /\ ~row.ledger => row.required = {}
  /\ row.maxed => row.status = "blocked"
  /\ row.status = "sent" =>
       /\ row.claim = NoWorker
       /\ ~discarded => \A c \in row.required : row.state[c] = "sent"

RunInv(w) ==
  /\ LedgerBacked(run[w].snap, accepted)
  /\ LogBacked(run[w].prior, accepted)
  /\ Backed(run[w].res, accepted)
  /\ run[w].pc \in {"armed", "again", "answered"} => \E d \in Dests \ run[w].todo : run[w].at = {d}
  /\ run[w].pc = "answered" => \A d \in run[w].at :
       /\ run[w].got = "sent" => accepted[d] > 0
       /\ run[w].got = "permanent" => Channel[d] = "webhooks"
  /\ run[w].pc = "report" =>
       /\ run[w].say # "none"
       /\ run[w].say = "resolve" => row.status = "sent"

\* The runs that may still hand the alert to d without being counted in `blind`:
\* the ones past the last assertion, and the holder of the claim if it knows of no
\* success and missed none, with d to come or about to go to the next SMTP account.
\* They have a send each at most.
Ticket(w, d) ==
  \/ run[w].pc = "armed" /\ run[w].at = {d}
  \/ /\ row.claim = w
     /\ run[w].pc \in {"loop", "armed", "again", "answered"}
     /\ d \in run[w].todo
     /\ d \notin run[w].missed
     /\ ~run[w].prior[d].ok
  \/ /\ row.claim = w
     /\ run[w].pc = "again"
     /\ run[w].at = {d}
     /\ d \notin run[w].missed

Tickets(d) == {w \in Workers : Ticket(w, d)}

SendsCovered(d) == accepted[d] + Cardinality(Tickets(d)) <= 1 + blind[d]

IInv ==
  /\ TypeOK
  /\ LogBacked(log, accepted)
  /\ RowInv
  /\ \A w \in Workers : RunInv(w)
  /\ \A d \in Dests : SendsCovered(d)
  /\ ExcludedRowOwesNothing
  /\ BlockedIsReported

Closed == \/ row.status \in {"sent", "blocked"}
          \/ row.status = "partial" /\ row.retry = {}

\* What a row still owes goes to channels that have contacts.
Reachable == LET D == audience(window, live) IN D # {} /\ row.retry \subseteq ChannelsOf(D)

\* An alert that is queued, and that there is somebody to tell of on the channels it
\* still owes, is settled: no dead run's marker, cooldown, deferral, retry or change
\* of groups keeps it open for ever.  This needs that of two channels the log of one
\* ends with a success or a refusal it will not take back: RetriesEnd says what
\* happens else.
AlertIsSettled == <>[]Reachable => (row.status \in OpenStatuses ~> Closed)

\* delivery-worker.js: "Maximum number of retry attempts per channel before
\* permanently blocking": an alert is not claimed and tried again for ever.
RetriesEnd == <>[]Reachable => <>[](row.status = "absent" \/ Closed)
=============================================================================
