---------------------------- MODULE PagerDuty_proof ----------------------------
(***************************************************************************)
(* Proofs about PagerDuty, for every number of runs, episodes, thresholds  *)
(* and attempts, and whatever the environment does how often.              *)
(*                                                                         *)
(* IInv carries them.  A run at work on an episode has its lock, and what  *)
(* others write without the lock (Soft) is nothing its decisions rest on;  *)
(* so the claim it writes under is always its own.  Frame says that a step *)
(* of one run leaves the others and the other episodes as they were;       *)
(* each action is then an argument about its own run and its own episode.  *)
(***************************************************************************)
EXTENDS PagerDuty, TLAPS

RowOK(e) == AcceptanceOK(e) /\ PageKnown(e)

\* What a step without the lock may make of row i.
Same(i, j) ==
  /\ j.state = i.state
  /\ j.accepted = i.accepted
  /\ j.uncertain = i.uncertain
  /\ j.orig = i.orig
  /\ j.claim = i.claim
  /\ j.tries <= i.tries

Soft(e) == page'[e] = page[e] /\ Same(inc[e], inc'[e])

\* The parts of TypeOK a step over run w and episode e rests on.
LEMMA Types ==
  ASSUME TypeOK
  PROVE  /\ \A w \in Workers : run[w] \in RunType
         /\ \A e \in Episodes : inc[e] \in IncidentType
         /\ \A e \in Episodes : lock[e] \in Workers \cup {NoWorker}
         /\ \A e \in Episodes : page[e] \in {"none", "triggered", "resolved"}
BY DEF TypeOK

\* A run and a row as they are at first.
LEMMA InitialTypes ==
  /\ NoIncident \in IncidentType
  /\ IdleRun \in RunType
<1>1. 0 \in 0..MaxExpiration /\ 0 \in 0..MaxAttempts /\ 0 \in Nat
  BY BoundsAssumption
<1>2. NoIncident \in IncidentType
  BY <1>1 DEF NoIncident, IncidentType, Live
<1> QED BY <1>1, <1>2 DEF IdleRun, RunType, AssetType, SettingsType, Evidence

\* A soft step keeps what is said of an episode.
LEMMA SoftRow ==
  ASSUME NEW e \in Episodes, RowOK(e), Soft(e)
  PROVE  RowOK(e)'
BY DEF RowOK, Soft, Same, AcceptanceOK, PageKnown

\* A run that does not step keeps its lock and what it knows, when the step of
\* another is soft on its episode.
LEMMA SoftRun ==
  ASSUME TypeOK, TypeOK', NEW v \in Workers, RunOK(v), run'[v] = run[v],
         run[v].pc \in Holding => lock'[run[v].e] = v,
         run[v].pc \in Claimed => Soft(run[v].e)
  PROVE  RunOK(v)'
<1>1. LockOK(v)'
  BY DEF RunOK, LockOK
<1>2. run[v].pc \in Claimed => run[v].e \in Episodes /\ Soft(run[v].e)
  BY DEF RunOK, LockOK, Claimed, Holding
<1>3. CopyOK(v)'
  <2> SUFFICES ASSUME run[v].pc \in Claimed PROVE CopyOK(v)'
    BY DEF CopyOK
  <2>1. inc[run[v].e].tries \in Int /\ inc'[run[v].e].tries \in Int /\ run[v].inc.tries \in Int
    BY <1>2, Types DEF TypeOK, IncidentType, RunType
  <2> QED BY <1>2, <2>1 DEF RunOK, CopyOK, Soft, Same
<1>4. AttemptOK(v)'
  BY <1>2 DEF RunOK, AttemptOK, Soft, Same, Claimed
<1> QED BY <1>1, <1>3, <1>4 DEF RunOK

\* A step of run w on episode e alone: the others are as they were, and a run
\* that holds e has it still.
LEMMA Frame ==
  ASSUME IInv, TypeOK', NEW w \in Workers, NEW e,
         \A v \in Workers \ {w} : run'[v] = run[v],
         \A f \in Episodes \ {e} : /\ inc'[f] = inc[f]
                                   /\ page'[f] = page[f]
                                   /\ lock'[f] = lock[f],
         e \in Episodes => \/ lock[e] \in {w, NoWorker}
                           \/ lock'[e] = lock[e] /\ (inc[e].state \in Live => Soft(e)),
         RunOK(w)', e \in Episodes => RowOK(e)'
  PROVE  IInv'
<1>0. TypeOK /\ (\A v \in Workers : RunOK(v)) /\ (\A f \in Episodes : RowOK(f))
  BY DEF IInv, LedgerMatchesProvider, RowOK
<1>1. ASSUME NEW f \in Episodes \ {e} PROVE Soft(f)
  BY <1>0, <1>1, Types DEF Soft, Same, IncidentType
<1>2. ASSUME NEW v \in Workers \ {w} PROVE RunOK(v)'
  <2>1. SUFFICES ASSUME run[v].pc \in Holding
                 PROVE  lock'[run[v].e] = v /\ (run[v].pc \in Claimed => Soft(run[v].e))
    <3>1. run[v].pc \in Claimed => run[v].pc \in Holding
      BY DEF Claimed, Holding
    <3> QED BY <1>0, <2>1, <3>1, SoftRun
  <2>2. run[v].e \in Episodes /\ lock[run[v].e] = v
    BY <1>0, <2>1 DEF RunOK, LockOK
  <2>3. run[v].pc \in Claimed => inc[run[v].e].state \in Live
    BY <1>0, <2>1 DEF RunOK, CopyOK, Holding, Claimed
  <2>4. CASE run[v].e # e
    BY <2>2, <2>4, <1>1
  <2>5. CASE run[v].e = e
    BY <2>2, <2>3, <2>5, WorkersAssumption
  <2> QED BY <2>4, <2>5
<1>3. ASSUME NEW f \in Episodes PROVE RowOK(f)'
  BY <1>0, <1>1, <1>3, SoftRow
<1> QED BY <1>2, <1>3 DEF IInv, LedgerMatchesProvider, RowOK

\* A step of the environment, on rows nobody holds or softly.
LEMMA Outside ==
  ASSUME IInv, TypeOK', run' = run, lock' = lock, page' = page,
         \A e \in Episodes : Soft(e) \/ (lock[e] = NoWorker /\ RowOK(e)')
  PROVE  IInv'
<1>0. TypeOK /\ (\A v \in Workers : RunOK(v)) /\ (\A f \in Episodes : RowOK(f))
  BY DEF IInv, LedgerMatchesProvider, RowOK
<1>1. ASSUME NEW v \in Workers PROVE RunOK(v)'
  <2>1. ASSUME run[v].pc \in Holding PROVE lock'[run[v].e] = v /\ Soft(run[v].e)
    BY <1>0, <2>1, WorkersAssumption DEF RunOK, LockOK
  <2>2. run[v].pc \in Claimed => run[v].pc \in Holding
    BY DEF Claimed, Holding
  <2> QED BY <1>0, <2>1, <2>2, SoftRun
<1>2. ASSUME NEW f \in Episodes PROVE RowOK(f)'
  BY <1>0, <1>2, SoftRow
<1> QED BY <1>1, <1>2 DEF IInv, LedgerMatchesProvider, RowOK

(***************************************************************************)
(* What the steps write                                                    *)
(***************************************************************************)
States == Live \cup {"none", "resolved", "cancelled"}
Acks == {"none", "asked", "accepted", "cancelled", "exhausted"}

\* Rows written without the lock.
LEMMA SoftWrites ==
  ASSUME NEW i \in IncidentType
  PROVE  /\ Same(i, i)
         /\ [i EXCEPT !.leased = FALSE] \in IncidentType
         /\ Same(i, [i EXCEPT !.leased = FALSE])
         /\ [i EXCEPT !.due = TRUE] \in IncidentType
         /\ Same(i, [i EXCEPT !.due = TRUE])
         /\ [i EXCEPT !.exhausted = FALSE, !.tries = 0, !.due = TRUE] \in IncidentType
         /\ Same(i, [i EXCEPT !.exhausted = FALSE, !.tries = 0, !.due = TRUE])
<1>0. 0 \in 0..MaxAttempts
  BY BoundsAssumption
<1>1. [i EXCEPT !.due = TRUE] \in IncidentType /\ [i EXCEPT !.leased = FALSE] \in IncidentType
  BY DEF IncidentType
<1>2. [i EXCEPT !.exhausted = FALSE, !.tries = 0, !.due = TRUE] \in IncidentType
  BY <1>0 DEF IncidentType
<1>3. /\ Same(i, i)
      /\ Same(i, [i EXCEPT !.due = TRUE])
      /\ Same(i, [i EXCEPT !.leased = FALSE])
      /\ Same(i, [i EXCEPT !.exhausted = FALSE, !.tries = 0, !.due = TRUE])
  BY DEF IncidentType, Same
<1> QED BY <1>1, <1>2, <1>3

LEMMA ExpirationWrite ==
  ASSUME NEW i \in IncidentType, NEW d \in BOOLEAN
  PROVE  LET j == [i EXCEPT !.manual = FALSE, !.due = d]
         IN j \in IncidentType /\ Same(i, j)
<1>1. [i EXCEPT !.manual = FALSE, !.due = d] \in IncidentType
  BY DEF IncidentType
<1>2. Same(i, [i EXCEPT !.manual = FALSE, !.due = d])
  BY DEF IncidentType, Same
<1> QED BY <1>1, <1>2

LEMMA RiskWrite ==
  ASSUME NEW i \in IncidentType, NEW n \in Windows \cup {0}
  PROVE  LET j == [i EXCEPT !.risk = n]
         IN j \in IncidentType /\ Same(i, j)
BY DEF IncidentType, Same

LEMMA AckWrite ==
  ASSUME NEW i \in IncidentType, NEW k \in Acks
  PROVE  LET j == [i EXCEPT !.ack = k]
         IN j \in IncidentType /\ Same(i, j)
BY DEF IncidentType, Same, Acks

LEMMA AckTriesWrite ==
  ASSUME NEW i \in IncidentType, NEW k \in Acks, NEW t \in 0..MaxAttempts
  PROVE  LET j == [i EXCEPT !.ack = k, !.ackTries = t]
         IN j \in IncidentType /\ Same(i, j)
<1>1. [i EXCEPT !.ack = k, !.ackTries = t] \in IncidentType
  BY DEF IncidentType, Acks
<1>2. Same(i, [i EXCEPT !.ack = k, !.ackTries = t])
  BY DEF IncidentType, Same
<1> QED BY <1>1, <1>2

\* A new episode.
LEMMA IntentWrite ==
  ASSUME NEW x \in 0..MaxExpiration, NEW n \in Windows \cup {0}, NEW c \in Nat
  PROVE  LET j == [NoIncident EXCEPT !.state = "trigger_pending", !.orig = x, !.risk = n,
                                     !.cycle = c, !.due = TRUE]
         IN j \in IncidentType /\ j.state = "trigger_pending" /\ ~j.accepted
<1>1. [NoIncident EXCEPT !.state = "trigger_pending", !.orig = x, !.risk = n,
                         !.cycle = c, !.due = TRUE] \in IncidentType
  BY InitialTypes, Zenon DEF IncidentType, Live, Active
<1> QED BY <1>1 DEF NoIncident

\* Rows written under the lock.
LEMMA ResolveWrite ==
  ASSUME NEW i \in IncidentType, NEW k \in Acks
  PROVE  LET j == [i EXCEPT !.state = "resolve_pending", !.manual = TRUE, !.tries = 0,
                            !.exhausted = FALSE, !.due = TRUE, !.ack = k]
         IN j \in IncidentType /\ j.state = "resolve_pending"
<1>1. 0 \in 0..MaxAttempts
  BY BoundsAssumption
<1> QED BY <1>1 DEF IncidentType, Acks, Live

LEMMA ClaimWrite ==
  ASSUME NEW i \in IncidentType, NEW w \in Workers
  PROVE  LET j == [i EXCEPT !.claim = w, !.leased = TRUE]
         IN /\ j \in IncidentType
            /\ j.state = i.state /\ j.accepted = i.accepted /\ j.uncertain = i.uncertain
            /\ j.claim = w
BY DEF IncidentType

LEMMA PostponeWrite ==
  ASSUME NEW i \in IncidentType, NEW s \in States, NEW x \in BOOLEAN
  PROVE  LET j == [i EXCEPT !.state = s, !.exhausted = x, !.due = FALSE, !.claim = NoWorker,
                            !.leased = FALSE]
         IN /\ j \in IncidentType
            /\ j.state = s /\ j.accepted = i.accepted /\ j.uncertain = i.uncertain
<1>1. [i EXCEPT !.state = s, !.exhausted = x, !.due = FALSE, !.claim = NoWorker,
                !.leased = FALSE] \in IncidentType
  BY Zenon DEF IncidentType, States
<1> QED BY <1>1 DEF IncidentType

LEMMA DecideWrite ==
  ASSUME NEW i \in IncidentType
  PROVE  LET j == [i EXCEPT !.state = "resolve_pending", !.exhausted = FALSE, !.tries = 0]
         IN /\ j \in IncidentType
            /\ j.state = "resolve_pending"
            /\ j.accepted = i.accepted /\ j.uncertain = i.uncertain /\ j.claim = i.claim
            /\ j.tries = 0 /\ j.orig = i.orig
<1>1. 0 \in 0..MaxAttempts
  BY BoundsAssumption
<1> QED BY <1>1 DEF IncidentType, Live

LEMMA AttemptWrite ==
  ASSUME NEW i \in IncidentType, NEW t \in 0..MaxAttempts, NEW u \in BOOLEAN
  PROVE  LET j == [i EXCEPT !.tries = t, !.uncertain = u]
         IN /\ j \in IncidentType
            /\ j.state = i.state /\ j.accepted = i.accepted /\ j.claim = i.claim /\ j.orig = i.orig
            /\ j.uncertain = u
BY DEF IncidentType

Outcome(i, s, a, u, x) ==
  [i EXCEPT !.state = s, !.accepted = a, !.uncertain = u, !.exhausted = x,
            !.due = FALSE, !.claim = NoWorker, !.leased = FALSE]

LEMMA OutcomeWrite ==
  ASSUME NEW i \in IncidentType, NEW s \in States, NEW a \in BOOLEAN, NEW u \in BOOLEAN,
         NEW x \in BOOLEAN
  PROVE  LET j == Outcome(i, s, a, u, x)
         IN j \in IncidentType /\ j.state = s /\ j.accepted = a /\ j.uncertain = u
<1>1. Outcome(i, s, a, u, x) \in IncidentType
  BY ZenonT(40) DEF Outcome, IncidentType, States
<1> QED BY <1>1 DEF IncidentType, Outcome

(***************************************************************************)
(* Steps of the environment                                                *)
(***************************************************************************)

\* Steps on the asset, the settings and the alert write no episode.
LEMMA NoRowStep ==
  ASSUME IInv, TypeOK', UNCHANGED <<inc, page, lock, run>>
  PROVE  IInv'
<1>1. TypeOK
  BY DEF IInv
<1>2. ASSUME NEW e \in Episodes PROVE Soft(e)
  BY <1>1, Types DEF Soft, Same, IncidentType
<1> QED BY <1>2, Outside

\* A budget that is spent stays in its range.
LEMMA SpendType ==
  ASSUME TypeOK, NEW k, Spend(k)
  PROVE  left' \in 0..MaxDisturbances
BY DisturbancesAssumption DEF TypeOK, Spend

\* A step that writes one row, softly or under the lock of nobody.
LEMMA OneRow ==
  ASSUME IInv, TypeOK', run' = run, lock' = lock, page' = page,
         NEW e \in Episodes, NEW i, inc' = [inc EXCEPT ![e] = i],
         Soft(e) \/ (lock[e] = NoWorker /\ RowOK(e)')
  PROVE  IInv'
<1>1. TypeOK
  BY DEF IInv
<1>2. ASSUME NEW f \in Episodes, f # e PROVE Soft(f)
  BY <1>1, <1>2, Types DEF Soft, Same, IncidentType, TypeOK
<1> QED BY <1>2, Outside

LEMMA AssetStep ==
  ASSUME IInv,
         \/ \E x \in 1 .. MaxExpiration : changeExpiration(x)
         \/ retireAsset
         \/ \E proof \in Evidence : verifyExpiry(proof)
         \/ changeSettings
         \/ queueAlert
  PROVE  IInv'
<1>0. TypeOK
  BY DEF IInv
<1>1. ASSUME NEW x \in 1 .. MaxExpiration, changeExpiration(x) PROVE IInv'
  <2>1. left' \in 0..MaxDisturbances
    BY <1>0, <1>1, SpendType DEF changeExpiration
  <2>2. asset' \in AssetType
    <3>1. asset.cycle + 1 \in Nat /\ x \in 0..MaxExpiration
      BY <1>0 DEF TypeOK, AssetType
    <3>2. asset' = [asset EXCEPT !.exp = x, !.cycle = asset.cycle + 1]
      BY <1>1 DEF changeExpiration
    <3>3. asset \in AssetType
      BY <1>0 DEF TypeOK
    <3> QED BY <3>1, <3>2, <3>3 DEF AssetType
  <2>a. ASSUME NEW e \in Episodes PROVE inc'[e] \in IncidentType /\ Same(inc[e], inc'[e])
    <3> DEFINE d == inc[e].due \/ inc[e].state \in Active
    <3>1. inc[e] \in IncidentType /\ d \in BOOLEAN
      BY <1>0, Types
    <3>2. inc'[e] = [inc[e] EXCEPT !.manual = FALSE, !.due = d]
      BY <1>1 DEF changeExpiration
    <3> HIDE DEF d
    <3> QED BY <3>1, <3>2, ExpirationWrite
  <2>3. inc' \in [Episodes -> IncidentType]
    BY <1>1, <2>a DEF changeExpiration
  <2>4. TypeOK'
    BY <1>0, <1>1, <2>1, <2>2, <2>3 DEF changeExpiration, TypeOK, NoAlert
  <2>5. ASSUME NEW e \in Episodes PROVE Soft(e)
    BY <1>1, <2>a DEF changeExpiration, Soft
  <2> QED BY <1>1, <2>4, <2>5, Outside DEF changeExpiration
<1>2. CASE retireAsset \/ \E proof \in Evidence : verifyExpiry(proof)
  <2>1. left' \in 0..MaxDisturbances
    BY <1>0, <1>2, SpendType DEF retireAsset, verifyExpiry
  <2>2. asset' \in AssetType
    BY <1>0, <1>2 DEF retireAsset, verifyExpiry, TypeOK, AssetType
  <2>3. TypeOK'
    BY <1>0, <1>2, <2>1, <2>2 DEF retireAsset, verifyExpiry, TypeOK
  <2> QED BY <1>2, <2>3, NoRowStep DEF retireAsset, verifyExpiry
<1>3. CASE changeSettings
  <2>1. left' \in 0..MaxDisturbances
    BY <1>0, <1>3, SpendType DEF changeSettings
  <2>2. settings' \in SettingsType
    <3>1. settings \in SettingsType
      BY <1>0 DEF TypeOK
    <3>2. \/ settings' = [settings EXCEPT !.dest = ~settings.dest]
          \/ \E n \in Windows : settings' = [settings EXCEPT !.window = n]
      BY <1>3 DEF changeSettings
    <3> QED BY <3>1, <3>2 DEF SettingsType
  <2>3. TypeOK'
    BY <1>0, <1>3, <2>1, <2>2 DEF changeSettings, TypeOK
  <2> QED BY <1>3, <2>3, NoRowStep DEF changeSettings
<1>4. CASE queueAlert
  <2>1. TypeOK'
    BY <1>0, <1>4 DEF queueAlert, TypeOK, NoAlert
  <2> QED BY <1>4, <2>1, NoRowStep DEF queueAlert
<1> QED BY <1>1, <1>2, <1>3, <1>4

\* An operator acts on rows nobody holds; the requeue only gives attempts back.
LEMMA OperatorStep ==
  ASSUME IInv,
         \/ requeueAlertsCore
         \/ \E e \in Episodes : acknowledge(e) \/ resolve(e)
  PROVE  IInv'
<1>0. TypeOK /\ \A e \in Episodes : RowOK(e)
  BY DEF IInv, LedgerMatchesProvider, RowOK
<1>a. 0 \in 0..MaxAttempts
  BY BoundsAssumption
<1>1. CASE requeueAlertsCore
  <2>1. left' \in 0..MaxDisturbances
    BY <1>0, <1>1, SpendType DEF requeueAlertsCore
  <2>2. ASSUME NEW e \in Episodes PROVE inc'[e] \in IncidentType /\ Soft(e)
    BY <1>0, <1>1, Types, SoftWrites DEF requeueAlertsCore, Soft
  <2>3. inc' \in [Episodes -> IncidentType]
    BY <1>1, <2>2 DEF requeueAlertsCore
  <2>4. TypeOK'
    BY <1>0, <1>1, <2>1, <2>3 DEF requeueAlertsCore, TypeOK
  <2> QED BY <1>1, <2>2, <2>4, Outside DEF requeueAlertsCore
<1>2. ASSUME NEW e \in Episodes, acknowledge(e) PROVE IInv'
  <2> DEFINE i == [inc[e] EXCEPT !.ack = "asked", !.ackTries = 0]
  <2>1. left' \in 0..MaxDisturbances
    BY <1>0, <1>2, SpendType DEF acknowledge
  <2>2. i \in IncidentType /\ Same(inc[e], i)
    BY <1>0, <1>a, Types, AckTriesWrite DEF Acks
  <2>3. inc' = [inc EXCEPT ![e] = i]
    BY <1>0, <1>2 DEF acknowledge, TypeOK
  <2> HIDE DEF i
  <2>4. TypeOK'
    BY <1>0, <1>2, <2>1, <2>2, <2>3 DEF acknowledge, TypeOK
  <2>5. Soft(e)
    BY <1>0, <1>2, <2>2, <2>3 DEF acknowledge, Soft, TypeOK
  <2> QED BY <1>2, <2>3, <2>4, <2>5, OneRow DEF acknowledge
<1>3. ASSUME NEW e \in Episodes, resolve(e) PROVE IInv'
  <2> DEFINE ack == IF inc[e].ack \in {"asked", "exhausted"} THEN "cancelled" ELSE inc[e].ack
             i == [inc[e] EXCEPT !.state = "resolve_pending", !.manual = TRUE, !.tries = 0,
                                 !.exhausted = FALSE, !.due = TRUE, !.ack = ack]
  <2>1. left' \in 0..MaxDisturbances
    BY <1>0, <1>3, SpendType DEF resolve
  <2>a. inc[e] \in IncidentType /\ ack \in Acks
    BY <1>0, Types DEF IncidentType, Acks
  <2>c. inc' = [inc EXCEPT ![e].state = "resolve_pending", ![e].manual = TRUE, ![e].tries = 0,
                           ![e].exhausted = FALSE, ![e].due = TRUE, ![e].ack = ack]
    BY <1>3 DEF resolve
  <2> HIDE DEF ack
  <2>3. inc' = [inc EXCEPT ![e] = i]
    BY <1>0, <2>c DEF TypeOK
  <2>2. i \in IncidentType /\ i.state = "resolve_pending"
    BY <2>a, ResolveWrite
  <2> HIDE DEF i
  <2>b. UNCHANGED <<asset, settings, page, lock, alert, run>>
    BY <1>3 DEF resolve
  <2>4. TypeOK'
    BY <1>0, <2>b, <2>1, <2>2, <2>3 DEF TypeOK
  <2>5. inc'[e].state = "resolve_pending" /\ page' = page
    BY <1>0, <1>3, <2>2, <2>3 DEF resolve, TypeOK
  <2>6. RowOK(e)'
    BY <1>0, <1>3, <2>5 DEF resolve, RowOK, AcceptanceOK, PageKnown
  <2>7. lock[e] = NoWorker
    BY <1>3 DEF resolve
  <2> QED BY <2>b, <2>3, <2>4, <2>6, <2>7, OneRow
<1> QED BY <1>1, <1>2, <1>3

LEMMA TimeStep ==
  ASSUME IInv, NEW e \in Episodes, nextAttemptDue(e) \/ leaseExpires(e)
  PROVE  IInv'
<1>0. TypeOK
  BY DEF IInv
<1> DEFINE i == [inc[e] EXCEPT !.due = TRUE]
           j == [inc[e] EXCEPT !.leased = FALSE]
<1>1. i \in IncidentType /\ Same(inc[e], i) /\ j \in IncidentType /\ Same(inc[e], j)
  BY <1>0, Types, SoftWrites
<1>2. inc' = [inc EXCEPT ![e] = i] \/ inc' = [inc EXCEPT ![e] = j]
  BY <1>0 DEF nextAttemptDue, leaseExpires, TypeOK
<1>3. left' \in 0..MaxDisturbances
  BY <1>0, SpendType DEF nextAttemptDue, leaseExpires, TypeOK
<1> HIDE DEF i, j
<1>4. Soft(e)
  BY <1>0, <1>1, <1>2 DEF nextAttemptDue, leaseExpires, Soft, TypeOK
<1>5. TypeOK'
  BY <1>0, <1>1, <1>2, <1>3 DEF nextAttemptDue, leaseExpires, TypeOK
<1> QED BY <1>2, <1>4, <1>5, OneRow DEF nextAttemptDue, leaseExpires

(***************************************************************************)
(* Steps of a run                                                          *)
(***************************************************************************)
Pcs == {"idle", "enqueue", "lock", "claim", "repair", "decide", "send", "record",
        "repairEnd", "settle", "ack"}
Answers == {"none", "accepted", "rejected", "throttled", "unknown", "odd"}

\* What the steps make of their run.
LEMMA RunTypes ==
  ASSUME NEW r \in RunType, NEW p \in Pcs
  PROVE  LET q == [r EXCEPT !.pc = p]
         IN /\ q \in RunType
            /\ q.pc = p /\ q.e = r.e /\ q.inc = r.inc
BY DEF RunType, Pcs

LEMMA TargetType ==
  ASSUME NEW r \in RunType, NEW p \in Pcs, NEW e \in Episodes
  PROVE  LET q == [r EXCEPT !.pc = p, !.e = e]
         IN q \in RunType /\ q.pc = p /\ q.e = e
BY DEF RunType, Pcs

LEMMA SettleType ==
  ASSUME NEW r \in RunType, NEW f \in BOOLEAN, NEW ok \in BOOLEAN
  PROVE  LET q == [r EXCEPT !.pc = "settle", !.ok = ok]
             s == [r EXCEPT !.pc = "settle", !.fg = f, !.ok = ok]
         IN q \in RunType /\ q.pc = "settle" /\ s \in RunType /\ s.pc = "settle"
BY DEF RunType

LEMMA ForegroundType ==
  ASSUME NEW r \in RunType, NEW a \in AssetType, NEW s \in SettingsType
  PROVE  LET q == [r EXCEPT !.pc = "enqueue", !.fg = TRUE, !.asset = a, !.settings = s]
         IN q \in RunType /\ q.pc = "enqueue"
BY DEF RunType

LEMMA CopyType ==
  ASSUME NEW r \in RunType, NEW i \in IncidentType
  PROVE  LET q == [r EXCEPT !.inc = i]
         IN q \in RunType /\ q.pc = r.pc /\ q.e = r.e /\ q.inc = i
BY DEF RunType

\* A step of run w alone.
LEMMA RunWrite ==
  ASSUME TypeOK, NEW w \in Workers, NEW r \in RunType, run' = [run EXCEPT ![w] = r]
  PROVE  /\ run' \in [Workers -> RunType]
         /\ run'[w] = r
         /\ \A v \in Workers \ {w} : run'[v] = run[v]
BY DEF TypeOK

LEMMA IncWrite ==
  ASSUME TypeOK, NEW e \in Episodes, NEW i \in IncidentType, inc' = [inc EXCEPT ![e] = i]
  PROVE  /\ inc' \in [Episodes -> IncidentType]
         /\ inc'[e] = i
         /\ \A f \in Episodes \ {e} : inc'[f] = inc[f]
BY DEF TypeOK

LEMMA LockWrite ==
  ASSUME TypeOK, NEW e \in Episodes, NEW l \in Workers \cup {NoWorker},
         lock' = [lock EXCEPT ![e] = l]
  PROVE  /\ lock' \in [Episodes -> Workers \cup {NoWorker}]
         /\ lock'[e] = l
         /\ \A f \in Episodes \ {e} : lock'[f] = lock[f]
BY DEF TypeOK

\* A run that has come to its end knows nothing of an episode.
LEMMA AtRest ==
  ASSUME NEW w \in Workers, run'[w].pc \in {"idle", "enqueue", "settle"}
  PROVE  RunOK(w)'
BY DEF RunOK, LockOK, CopyOK, AttemptOK, Holding, Claimed

LEMMA DoneStep ==
  ASSUME TypeOK, NEW w \in Workers, NEW ok \in BOOLEAN, Done(w, ok)
  PROVE  /\ run' \in [Workers -> RunType]
         /\ \A v \in Workers \ {w} : run'[v] = run[v]
         /\ RunOK(w)'
<1> DEFINE f == [IdleRun EXCEPT !.pc = "settle", !.fg = TRUE, !.ok = ok]
           r == IF run[w].fg THEN f ELSE IdleRun
<1>1. f \in RunType /\ f.pc = "settle" /\ IdleRun \in RunType
  BY InitialTypes, SettleType
<1>2. IdleRun.pc = "idle"
  BY DEF IdleRun
<1>3. run' = [run EXCEPT ![w] = r]
  BY DEF Done, TypeOK
<1> HIDE DEF f
<1>4. r \in RunType /\ r.pc \in {"idle", "settle"}
  BY <1>1, <1>2
<1> HIDE DEF r
<1>5. run' \in [Workers -> RunType] /\ run'[w] = r /\ \A v \in Workers \ {w} : run'[v] = run[v]
  BY <1>3, <1>4, RunWrite
<1> QED BY <1>4, <1>5, AtRest

\* Where a run at work stands.
LEMMA AtWork ==
  ASSUME IInv, NEW w \in Workers
  PROVE  /\ TypeOK /\ RunOK(w)
         /\ run[w] \in RunType
         /\ \A e \in Episodes : RowOK(e) /\ inc[e] \in IncidentType
         /\ run[w].pc \in Holding =>
              run[w].e \in Episodes /\ lock[run[w].e] = w
<1>1. TypeOK /\ RunOK(w) /\ (\A e \in Episodes : RowOK(e))
  BY DEF IInv, LedgerMatchesProvider, RowOK
<1> QED BY <1>1, Types DEF RunOK, LockOK

\* The steps of a run before it has the lock, and after it has given it back.
LEMMA UnlockedStep ==
  ASSUME IInv, NEW w \in Workers,
         \/ claimAlert(w)
         \/ settleAlert(w)
         \/ \E e \in Episodes : reconcilePagerDutyIncidents(w, e)
  PROVE  IInv'
<1>0. TypeOK /\ run[w] \in RunType
  BY AtWork
<1>1. ASSUME NEW r \in RunType, run' = [run EXCEPT ![w] = r],
             UNCHANGED <<inc, page, lock>>, TypeOK',
             r.pc \in {"idle", "enqueue"} \/ (r.pc = "lock" /\ r.e \in Episodes)
      PROVE  IInv'
  <2>1. run'[w] = r /\ \A v \in Workers \ {w} : run'[v] = run[v]
    BY <1>0, <1>1, RunWrite
  <2>2. RunOK(w)'
    BY <1>1, <2>1 DEF RunOK, LockOK, CopyOK, AttemptOK, Holding, Claimed
  <2>3. 0 \notin Episodes
    BY DEF Episodes
  <2> QED BY <1>1, <2>1, <2>2, <2>3, Frame
<1>2. CASE claimAlert(w)
  <2> DEFINE r == [IdleRun EXCEPT !.pc = "enqueue", !.fg = TRUE,
                                  !.asset = asset, !.settings = settings]
  <2>0. asset \in AssetType /\ settings \in SettingsType /\ IdleRun \in RunType
    BY <1>0, InitialTypes DEF TypeOK
  <2>1. r \in RunType /\ r.pc = "enqueue"
    BY <2>0, ForegroundType
  <2>2. run' = [run EXCEPT ![w] = r]
    BY <1>2 DEF claimAlert
  <2> HIDE DEF r
  <2>3. TypeOK'
    BY <1>0, <1>2, <2>1, <2>2, RunWrite DEF claimAlert, TypeOK
  <2> QED BY <1>1, <1>2, <2>1, <2>2, <2>3 DEF claimAlert
<1>3. CASE settleAlert(w)
  <2>1. IdleRun \in RunType /\ IdleRun.pc = "idle"
    BY InitialTypes DEF IdleRun
  <2>2. run' = [run EXCEPT ![w] = IdleRun]
    BY <1>3 DEF settleAlert
  <2>3. alert' \in [status : {"none", "pending", "blocked", "sent"}, held : Workers \cup {NoWorker}]
    BY <1>0, <1>3 DEF settleAlert, TypeOK
  <2>4. TypeOK'
    BY <1>0, <1>3, <2>1, <2>2, <2>3, RunWrite DEF settleAlert, TypeOK
  <2> QED BY <1>1, <1>3, <2>1, <2>2, <2>4 DEF settleAlert
<1>4. ASSUME NEW e \in Episodes, reconcilePagerDutyIncidents(w, e) PROVE IInv'
  <2> DEFINE r == [IdleRun EXCEPT !.pc = "lock", !.e = e]
  <2>1. r \in RunType /\ r.pc = "lock" /\ r.e = e
    BY InitialTypes, TargetType DEF Pcs
  <2>2. run' = [run EXCEPT ![w] = r]
    BY <1>4 DEF reconcilePagerDutyIncidents
  <2> HIDE DEF r
  <2>a. run' \in [Workers -> RunType]
    BY <1>0, <2>1, <2>2, RunWrite
  <2>3. TypeOK'
    BY <1>0, <1>4, <2>a DEF reconcilePagerDutyIncidents, TypeOK
  <2> QED BY <1>1, <1>4, <2>1, <2>2, <2>3 DEF reconcilePagerDutyIncidents
<1> QED BY <1>2, <1>3, <1>4

\* A run that dies leaves its claim, and no other run had its lock.
LEMMA CrashStep ==
  ASSUME IInv, NEW w \in Workers, crash(w)
  PROVE  IInv'
<1>0. TypeOK /\ (\A v \in Workers : RunOK(v)) /\ (\A e \in Episodes : RowOK(e))
  BY DEF IInv, LedgerMatchesProvider, RowOK
<1>1. IdleRun \in RunType /\ IdleRun.pc = "idle"
  BY InitialTypes DEF IdleRun
<1>2. run' = [run EXCEPT ![w] = IdleRun] /\ UNCHANGED <<asset, settings, inc, page, alert>>
  BY DEF crash
<1>3. /\ run' \in [Workers -> RunType]
      /\ run'[w] = IdleRun
      /\ \A v \in Workers \ {w} : run'[v] = run[v]
  BY <1>0, <1>1, <1>2, RunWrite
<1>4. lock' \in [Episodes -> Workers \cup {NoWorker}]
  BY <1>0, Types DEF crash
<1>5. left' \in 0..MaxDisturbances
  BY <1>0, SpendType DEF crash
<1>6. TypeOK'
  BY <1>0, <1>2, <1>3, <1>4, <1>5 DEF TypeOK
<1>7. ASSUME NEW e \in Episodes PROVE Soft(e)
  BY <1>0, <1>2, Types, SoftWrites DEF Soft
<1>8. ASSUME NEW v \in Workers PROVE RunOK(v)'
  <2>1. CASE v = w
    BY <1>1, <1>3, <2>1, AtRest
  <2>2. CASE v # w
    <3>1. run[v].pc \in Holding => run[v].e \in Episodes /\ lock[run[v].e] = v
      BY <1>0 DEF RunOK, LockOK
    <3>2. run[v].pc \in Holding => lock'[run[v].e] = v
      BY <2>2, <3>1 DEF crash
    <3>3. run[v].pc \in Claimed => run[v].pc \in Holding
      BY DEF Claimed, Holding
    <3> QED BY <1>0, <1>3, <1>6, <1>7, <2>2, <3>1, <3>2, <3>3, SoftRun
  <2> QED BY <2>1, <2>2
<1>9. ASSUME NEW e \in Episodes PROVE RowOK(e)'
  BY <1>0, <1>7, SoftRow
<1> QED BY <1>6, <1>8, <1>9 DEF IInv, LedgerMatchesProvider, RowOK

\* The intent joins an episode softly, or starts one PagerDuty knows nothing of.
LEMMA EnqueueStep ==
  ASSUME IInv, NEW w \in Workers, enqueuePagerDutyIncident(w)
  PROVE  IInv'
<1> DEFINE threshold == destinationThreshold(run[w].settings)
           raised(n) == IF threshold > n THEN threshold ELSE n
<1>0. TypeOK /\ run[w] \in RunType /\ \A e \in Episodes : RowOK(e) /\ inc[e] \in IncidentType
  BY AtWork
<1>1. UNCHANGED <<asset, settings, page, lock, alert, left>>
  BY DEF enqueuePagerDutyIncident
<1>2. threshold \in Windows \cup {0}
  BY <1>0 DEF destinationThreshold, RunType, SettingsType
<1>3. ASSUME NEW e \in Episodes, NEW i \in IncidentType, inc' = [inc EXCEPT ![e] = i],
             run' = [run EXCEPT ![w].pc = "lock", ![w].e = e],
             RowOK(e)', inc[e].state \in Live => Same(inc[e], i)
      PROVE  IInv'
  <2> DEFINE r == [run[w] EXCEPT !.pc = "lock", !.e = e]
  <2>1. r \in RunType /\ r.pc = "lock" /\ r.e = e
    BY <1>0, TargetType DEF Pcs
  <2>2. run' = [run EXCEPT ![w] = r]
    BY <1>0, <1>3 DEF TypeOK
  <2> HIDE DEF r
  <2>3. /\ run' \in [Workers -> RunType]
        /\ run'[w] = r
        /\ \A v \in Workers \ {w} : run'[v] = run[v]
    BY <1>0, <2>1, <2>2, RunWrite
  <2>4. /\ inc' \in [Episodes -> IncidentType]
        /\ inc'[e] = i
        /\ \A f \in Episodes \ {e} : inc'[f] = inc[f]
    BY <1>0, <1>3, IncWrite
  <2>5. TypeOK'
    BY <1>0, <1>1, <2>3, <2>4 DEF TypeOK
  <2>6. RunOK(w)'
    BY <2>1, <2>3 DEF RunOK, LockOK, CopyOK, AttemptOK, Holding, Claimed
  <2>7. inc[e].state \in Live => Soft(e)
    BY <1>1, <1>3, <2>4 DEF Soft
  <2> QED BY <1>1, <1>3, <2>3, <2>4, <2>5, <2>6, <2>7, Frame
<1>4. ASSUME NEW e \in Episodes, inc[e].state \in Active,
             inc' = [inc EXCEPT ![e].risk = raised(@)],
             run' = [run EXCEPT ![w].pc = "lock", ![w].e = e]
      PROVE  IInv'
  <2> DEFINE n == raised(inc[e].risk)
             i == [inc[e] EXCEPT !.risk = n]
  <2>1. inc[e].risk \in Windows \cup {0}
    BY <1>0 DEF IncidentType
  <2>2. n \in Windows \cup {0}
    BY <1>2, <2>1
  <2>3. inc' = [inc EXCEPT ![e] = i]
    BY <1>0, <1>4 DEF TypeOK
  <2> HIDE DEF n
  <2>4. i \in IncidentType /\ Same(inc[e], i)
    BY <1>0, <2>2, RiskWrite
  <2> HIDE DEF i
  <2>5. inc'[e] = i
    BY <1>0, <2>3, <2>4, IncWrite
  <2>6. RowOK(e)'
    BY <1>0, <1>1, <2>4, <2>5, SoftRow DEF Soft
  <2> QED BY <1>3, <1>4, <2>3, <2>4, <2>6
<1>5. ASSUME NEW e \in Episodes, inc[e].state = "none",
             inc' = [inc EXCEPT ![e] = [NoIncident EXCEPT
                       !.state = "trigger_pending", !.orig = asset.exp,
                       !.risk = threshold, !.cycle = asset.cycle, !.due = TRUE]],
             run' = [run EXCEPT ![w].pc = "lock", ![w].e = e]
      PROVE  IInv'
  <2> DEFINE i == [NoIncident EXCEPT !.state = "trigger_pending", !.orig = asset.exp,
                       !.risk = threshold, !.cycle = asset.cycle, !.due = TRUE]
  <2>1. asset.exp \in 0..MaxExpiration /\ asset.cycle \in Nat
    BY <1>0 DEF TypeOK, AssetType
  <2>3. inc' = [inc EXCEPT ![e] = i]
    BY <1>5
  <2> HIDE DEF threshold
  <2>2. i \in IncidentType /\ i.state = "trigger_pending" /\ ~i.accepted
    BY <1>2, <2>1, IntentWrite
  <2> HIDE DEF i
  <2>4. inc'[e] = i
    BY <1>0, <2>2, <2>3, IncWrite
  <2>5. RowOK(e)
    BY <1>0
  <2>6. RowOK(e)'
    BY <1>1, <1>5, <2>2, <2>4, <2>5 DEF RowOK, AcceptanceOK, PageKnown
  <2>7. inc[e].state \notin Live
    BY <1>5 DEF Live, Active
  <2> QED BY <1>3, <1>5, <2>2, <2>3, <2>6, <2>7
<1>6. ASSUME NEW ok \in BOOLEAN, run' = [run EXCEPT ![w].pc = "settle", ![w].ok = ok], inc' = inc
      PROVE  IInv'
  <2> DEFINE r == [run[w] EXCEPT !.pc = "settle", !.ok = ok]
  <2>1. r \in RunType /\ r.pc = "settle"
    BY <1>0, SettleType
  <2>2. run' = [run EXCEPT ![w] = r]
    BY <1>0, <1>6 DEF TypeOK
  <2> HIDE DEF r
  <2>3. /\ run' \in [Workers -> RunType]
        /\ run'[w] = r
        /\ \A v \in Workers \ {w} : run'[v] = run[v]
    BY <1>0, <2>1, <2>2, RunWrite
  <2>4. TypeOK'
    BY <1>0, <1>1, <1>6, <2>3 DEF TypeOK
  <2>5. RunOK(w)'
    BY <2>1, <2>3, AtRest
  <2>6. 0 \notin Episodes
    BY DEF Episodes
  <2> QED BY <1>1, <1>6, <2>3, <2>4, <2>5, <2>6, Frame
<1> QED BY <1>4, <1>5, <1>6 DEF enqueuePagerDutyIncident

\* The lock is taken when nobody has it; else the run comes to its end.
LEMMA TryLockStep ==
  ASSUME IInv, NEW w \in Workers, tryLock(w)
  PROVE  IInv'
<1>0. TypeOK /\ RunOK(w) /\ run[w] \in RunType /\ \A f \in Episodes : RowOK(f) /\ inc[f] \in IncidentType
  BY AtWork
<1>1. PICK e \in Episodes : e = run[w].e /\ run[w].pc = "lock"
  BY <1>0 DEF tryLock, RunOK, LockOK
<1>2. UNCHANGED <<asset, settings, inc, page, alert, left>>
  BY DEF tryLock
<1>3. RowOK(e)'
  BY <1>0, <1>1, <1>2, SoftRow, SoftWrites DEF Soft
<1>4. CASE lock[e] = NoWorker
  <2> DEFINE r == [run[w] EXCEPT !.pc = "claim"]
  <2>1. r \in RunType /\ r.pc = "claim" /\ r.e = e
    BY <1>0, <1>1, RunTypes DEF Pcs
  <2>2. run' = [run EXCEPT ![w] = r] /\ lock' = [lock EXCEPT ![e] = w]
    BY <1>0, <1>1, <1>4 DEF tryLock, TypeOK
  <2> HIDE DEF r
  <2>3. /\ run' \in [Workers -> RunType]
        /\ run'[w] = r
        /\ \A v \in Workers \ {w} : run'[v] = run[v]
    BY <1>0, <2>1, <2>2, RunWrite
  <2>4. /\ lock' \in [Episodes -> Workers \cup {NoWorker}]
        /\ lock'[e] = w
        /\ \A f \in Episodes \ {e} : lock'[f] = lock[f]
    BY <1>0, <1>1, <2>2, LockWrite
  <2>5. TypeOK'
    BY <1>0, <1>2, <2>3, <2>4 DEF TypeOK
  <2>6. RunOK(w)'
    BY <1>1, <2>1, <2>3, <2>4 DEF RunOK, LockOK, CopyOK, AttemptOK, Claimed
  <2> QED BY <1>2, <1>3, <1>4, <2>3, <2>4, <2>5, <2>6, Frame
<1>5. CASE lock[e] # NoWorker
  <2>1. Done(w, FALSE) /\ lock' = lock
    BY <1>1, <1>5 DEF tryLock
  <2>2. /\ run' \in [Workers -> RunType]
        /\ \A v \in Workers \ {w} : run'[v] = run[v]
        /\ RunOK(w)'
    BY <1>0, <2>1, DoneStep
  <2>3. TypeOK'
    BY <1>0, <1>2, <2>1, <2>2 DEF TypeOK
  <2>4. Soft(e)
    BY <1>0, <1>1, <1>2, SoftWrites DEF Soft
  <2> QED BY <1>2, <1>3, <2>1, <2>2, <2>3, <2>4, Frame
<1> QED BY <1>4, <1>5

\* A run gives its lock back and comes to its end.
LEMMA EndStep ==
  ASSUME IInv, NEW w \in Workers, NEW e \in Episodes, lock[e] = w, NEW ok \in BOOLEAN,
         Done(w, ok), lock' = [lock EXCEPT ![e] = NoWorker], NEW i \in IncidentType,
         inc' = [inc EXCEPT ![e] = i], UNCHANGED <<asset, settings, page, left>>,
         alert' \in [status : {"none", "pending", "blocked", "sent"}, held : Workers \cup {NoWorker}],
         RowOK(e)'
  PROVE  IInv'
<1>0. TypeOK
  BY DEF IInv
<1>1. /\ run' \in [Workers -> RunType]
      /\ \A v \in Workers \ {w} : run'[v] = run[v]
      /\ RunOK(w)'
  BY <1>0, DoneStep
<1>2. /\ lock' \in [Episodes -> Workers \cup {NoWorker}]
      /\ \A f \in Episodes \ {e} : lock'[f] = lock[f]
  BY <1>0, LockWrite
<1>3. /\ inc' \in [Episodes -> IncidentType]
      /\ \A f \in Episodes \ {e} : inc'[f] = inc[f]
  BY <1>0, IncWrite
<1>4. TypeOK'
  BY <1>0, <1>1, <1>2, <1>3 DEF TypeOK
<1> QED BY <1>1, <1>2, <1>3, <1>4, Frame

\* The claim of a row nobody has a lease on, and the copy of it.
LEMMA ClaimStep ==
  ASSUME IInv, NEW w \in Workers, claimIncident(w)
  PROVE  IInv'
<1>0. TypeOK /\ run[w] \in RunType /\ \A f \in Episodes : RowOK(f) /\ inc[f] \in IncidentType
  BY AtWork
<1>1. PICK e \in Episodes : e = run[w].e /\ run[w].pc = "claim" /\ lock[e] = w
  BY AtWork DEF claimIncident, Holding
<1> DEFINE i == [inc[e] EXCEPT !.claim = w, !.leased = TRUE]
           p == IF i.accepted THEN "repair" ELSE "decide"
           r == [run[w] EXCEPT !.pc = p, !.inc = i, !.asset = asset, !.settings = settings]
<1>2. UNCHANGED <<asset, settings, page, alert, left>>
  BY DEF claimIncident
<1>3. asset \in AssetType /\ settings \in SettingsType
  BY <1>0 DEF TypeOK
<1>4. CASE inc[e].state \in Live /\ inc[e].due /\ ~inc[e].leased
  <2>a. /\ inc' = [inc EXCEPT ![e] = i] /\ lock' = lock
        /\ run' = [run EXCEPT ![w].pc = p, ![w].inc = i, ![w].asset = asset, ![w].settings = settings]
    BY <1>1, <1>4 DEF claimIncident
  <2>1. inc' = [inc EXCEPT ![e] = i] /\ run' = [run EXCEPT ![w] = r] /\ lock' = lock
    <3> HIDE DEF i, p
    <3> QED BY <1>0, <2>a DEF TypeOK
  <2>2. /\ i \in IncidentType
        /\ i.state = inc[e].state /\ i.accepted = inc[e].accepted
        /\ i.uncertain = inc[e].uncertain /\ i.claim = w
    BY <1>0, <1>1, ClaimWrite
  <2> HIDE DEF i
  <2>3. p \in {"repair", "decide"}
    OBVIOUS
  <2> HIDE DEF p
  <2>4. r \in RunType /\ r.pc = p /\ r.e = e /\ r.inc = i
    <3>1. run[w] \in RunType /\ i \in IncidentType /\ run[w].e = e
      BY <1>0, <1>1, <2>2
    <3>2. LET q == [run[w] EXCEPT !.pc = p, !.inc = i, !.asset = asset, !.settings = settings]
          IN q \in RunType /\ q.pc = p /\ q.e = run[w].e /\ q.inc = i
      BY <1>3, <2>3, <3>1 DEF RunType
    <3> QED BY <3>1, <3>2
  <2> HIDE DEF r
  <2>5. /\ run' \in [Workers -> RunType]
        /\ run'[w] = r
        /\ \A v \in Workers \ {w} : run'[v] = run[v]
    BY <1>0, <2>1, <2>4, RunWrite
  <2>6. /\ inc' \in [Episodes -> IncidentType]
        /\ inc'[e] = i
        /\ \A f \in Episodes \ {e} : inc'[f] = inc[f]
    BY <1>0, <1>1, <2>1, <2>2, IncWrite
  <2>7. TypeOK'
    BY <1>0, <1>2, <2>1, <2>5, <2>6 DEF TypeOK
  <2>8. RunOK(w)'
    <3>1. LockOK(w)'
      BY <1>1, <2>1, <2>4, <2>5 DEF LockOK
    <3>2. CopyOK(w)'
      BY <1>4, <2>2, <2>4, <2>5, <2>6 DEF CopyOK, IncidentType
    <3>3. AttemptOK(w)'
      BY <2>3, <2>4, <2>5 DEF AttemptOK
    <3> QED BY <3>1, <3>2, <3>3 DEF RunOK
  <2>9. RowOK(e)'
    <3>1. RowOK(e)
      BY <1>0, <1>1
    <3> QED BY <1>2, <2>2, <2>6, <3>1 DEF RowOK, AcceptanceOK, PageKnown
  <2> QED BY <1>1, <1>2, <2>1, <2>5, <2>6, <2>7, <2>8, <2>9, Frame
<1>5. CASE ~(inc[e].state \in Live /\ inc[e].due /\ ~inc[e].leased)
  <2>1. Done(w, inc[e].state = "open") /\ lock' = [lock EXCEPT ![e] = NoWorker] /\ inc' = inc
    BY <1>1, <1>5 DEF claimIncident
  <2>2. inc' = [inc EXCEPT ![e] = inc[e]]
    BY <1>0, <2>1 DEF TypeOK
  <2>3. (inc[e].state = "open") \in BOOLEAN
    OBVIOUS
  <2>4. RowOK(e)'
    BY <1>0, <1>1, <1>2, <2>1, SoftRow, SoftWrites DEF Soft
  <2> QED BY <1>0, <1>1, <1>2, <2>1, <2>2, <2>3, <2>4, EndStep DEF TypeOK
<1> QED BY <1>4, <1>5

\* The repair of the alert writes no episode.
LEMMA RepairStep ==
  ASSUME IInv, NEW w \in Workers, reconcilePagerDutyParentAlert(w)
  PROVE  IInv'
<1>0. TypeOK /\ RunOK(w) /\ run[w] \in RunType /\ \A f \in Episodes : RowOK(f) /\ inc[f] \in IncidentType
  BY AtWork
<1>1. PICK e \in Episodes :
        e = run[w].e /\ run[w].pc \in {"repair", "repairEnd"} /\ lock[e] = w
  BY AtWork DEF reconcilePagerDutyParentAlert, Holding
<1>2. UNCHANGED <<asset, settings, inc, page, left>>
  BY DEF reconcilePagerDutyParentAlert
<1>3. alert' \in [status : {"none", "pending", "blocked", "sent"}, held : Workers \cup {NoWorker}]
  BY <1>0 DEF reconcilePagerDutyParentAlert, TypeOK
<1>4. RowOK(e)'
  BY <1>0, <1>1, <1>2, SoftRow, SoftWrites DEF Soft
<1>5. CASE run[w].pc = "repairEnd"
  <2>1. Done(w, TRUE) /\ lock' = [lock EXCEPT ![e] = NoWorker]
    BY <1>1, <1>5 DEF reconcilePagerDutyParentAlert
  <2>2. inc' = [inc EXCEPT ![e] = inc[e]]
    BY <1>0, <1>2 DEF TypeOK
  <2> QED BY <1>0, <1>1, <1>2, <1>3, <1>4, <2>1, <2>2, EndStep
<1>6. CASE run[w].pc = "repair"
  <2> DEFINE r == [run[w] EXCEPT !.pc = "decide"]
  <2>1. r \in RunType /\ r.pc = "decide" /\ r.e = e /\ r.inc = run[w].inc
    BY <1>0, <1>1, RunTypes DEF Pcs
  <2>2. run' = [run EXCEPT ![w] = r] /\ lock' = lock
    BY <1>0, <1>1, <1>6 DEF reconcilePagerDutyParentAlert, TypeOK
  <2> HIDE DEF r
  <2>3. /\ run' \in [Workers -> RunType]
        /\ run'[w] = r
        /\ \A v \in Workers \ {w} : run'[v] = run[v]
    BY <1>0, <2>1, <2>2, RunWrite
  <2>4. TypeOK'
    BY <1>0, <1>2, <1>3, <2>2, <2>3 DEF TypeOK
  <2>5. RunOK(w)'
    BY <1>0, <1>1, <1>2, <1>6, <2>1, <2>2, <2>3
       DEF RunOK, LockOK, CopyOK, AttemptOK, Holding, Claimed
  <2> QED BY <1>1, <1>2, <1>4, <2>2, <2>3, <2>4, <2>5, Frame
<1> QED BY <1>1, <1>5, <1>6

\* What a run that decides knows of its row.
LEMMA Decided ==
  ASSUME IInv, NEW w \in Workers, Deciding(w)
  PROVE  \E e \in Episodes :
           /\ e = run[w].e /\ run[w].pc = "decide" /\ lock[e] = w
           /\ inc[e].claim = w
           /\ inc[e].state \in Live
           /\ inc[e].state = run[w].inc.state
           /\ inc[e].accepted = run[w].inc.accepted
           /\ inc[e].uncertain = run[w].inc.uncertain
           /\ inc[e].orig = run[w].inc.orig
           /\ inc[e].tries <= run[w].inc.tries
BY AtWork DEF Deciding, Holding, Claimed, RunOK, CopyOK

\* The claim is given back.  A row is cancelled only when PagerDuty has no page.
LEMMA PostponeStep ==
  ASSUME IInv, NEW w \in Workers, Deciding(w), NEW cancel \in BOOLEAN, NEW x \in BOOLEAN,
         NEW ok \in BOOLEAN, postpone(w, cancel, x, ok),
         cancel => ~run[w].inc.uncertain /\ ~run[w].inc.accepted /\ run[w].inc.state # "resolve_pending"
  PROVE  IInv'
<1>0. TypeOK /\ \A f \in Episodes : RowOK(f) /\ inc[f] \in IncidentType
  BY AtWork
<1>1. PICK e \in Episodes :
        /\ e = run[w].e /\ lock[e] = w /\ inc[e].claim = w /\ inc[e].state \in Live
        /\ inc[e].state = run[w].inc.state
        /\ inc[e].accepted = run[w].inc.accepted
        /\ inc[e].uncertain = run[w].inc.uncertain
  BY Decided
<1>a. PICK y \in BOOLEAN : y = (inc[e].exhausted \/ x)
  OBVIOUS
<1> DEFINE s == IF cancel THEN "cancelled" ELSE inc[e].state
           i == [inc[e] EXCEPT !.state = s, !.exhausted = y, !.due = FALSE, !.claim = NoWorker,
                               !.leased = FALSE]
<1>2. inc' = [inc EXCEPT ![e] = i] /\ lock' = [lock EXCEPT ![e] = NoWorker]
  BY <1>1, <1>a DEF postpone
<1>3. UNCHANGED <<asset, settings, page, alert, left>>
  BY DEF postpone
<1>4. /\ Done(w, (inc[e].claim = w) /\ (cancel \/ ok))
      /\ ((inc[e].claim = w) /\ (cancel \/ ok)) \in BOOLEAN
  BY <1>1 DEF postpone
<1>5. inc[e] \in IncidentType /\ s \in States
  BY <1>0, <1>1 DEF IncidentType, States
<1>6. i \in IncidentType /\ i.state = s /\ i.accepted = inc[e].accepted /\ i.uncertain = inc[e].uncertain
  <2> HIDE DEF s
  <2>1. i \in IncidentType
    BY <1>5, PostponeWrite
  <2>2. i.state = s /\ i.accepted = inc[e].accepted /\ i.uncertain = inc[e].uncertain
    BY <1>5 DEF IncidentType
  <2> QED BY <2>1, <2>2
<1> HIDE DEF i
<1>7. inc'[e] = i
  BY <1>0, <1>2, <1>6, IncWrite
<1>8. RowOK(e)'
  <2>1. RowOK(e)
    BY <1>0
  <2> QED BY <1>1, <1>3, <1>6, <1>7, <2>1 DEF RowOK, AcceptanceOK, PageKnown, Live, Active
<1>9. alert' \in [status : {"none", "pending", "blocked", "sent"}, held : Workers \cup {NoWorker}]
  BY <1>0, <1>3 DEF TypeOK
<1> QED BY <1>1, <1>2, <1>3, <1>4, <1>6, <1>8, <1>9, EndStep

LEMMA DropStep ==
  ASSUME IInv, NEW w \in Workers, dropTrigger(w)
  PROVE  IInv'
<1> DEFINE r == run[w]
           x == Over(r) /\ r.inc.uncertain
           c == ~r.inc.uncertain
<1>1. Deciding(w) /\ postpone(w, c, x, FALSE) /\ r.inc.state # "resolve_pending" /\ ~r.inc.accepted
  BY DEF dropTrigger
<1>2. c \in BOOLEAN /\ x \in BOOLEAN /\ (c => ~r.inc.uncertain)
  OBVIOUS
<1> HIDE DEF x, c
<1> QED BY <1>1, <1>2, PostponeStep

LEMMA WaitStep ==
  ASSUME IInv, NEW w \in Workers, wait(w)
  PROVE  IInv'
<1> DEFINE r == run[w]
           x == r.settings.dest /\ (r.inc.exhausted \/ ~withinBudget(r.inc))
           d == r.settings.dest
<1>1. run[w] \in RunType
  BY AtWork
<1>2. d \in BOOLEAN /\ x \in BOOLEAN
  BY <1>1 DEF RunType, SettingsType
<1>3. /\ Deciding(w)
      /\ \/ postpone(w, FALSE, FALSE, FALSE)
         \/ postpone(w, FALSE, FALSE, d)
         \/ postpone(w, FALSE, x, FALSE)
  BY DEF wait
<1> HIDE DEF x, d
<1> QED BY <1>2, <1>3, PostponeStep

\* The intent to resolve, of a page that is open.
LEMMA ResolveStep ==
  ASSUME IInv, NEW w \in Workers, decideResolve(w)
  PROVE  IInv'
<1>0. TypeOK /\ RunOK(w) /\ run[w] \in RunType /\ \A f \in Episodes : RowOK(f) /\ inc[f] \in IncidentType
  BY AtWork
<1>1. PICK e \in Episodes :
        /\ e = run[w].e /\ run[w].pc = "decide" /\ lock[e] = w /\ inc[e].claim = w
        /\ inc[e].state \in Live
        /\ inc[e].state = run[w].inc.state
        /\ inc[e].accepted = run[w].inc.accepted
  BY Decided DEF decideResolve
<1>2. inc[e].state = "open" /\ page[e] = "triggered"
  <2>1. RowOK(e)
    BY <1>0
  <2> QED BY <1>1, <2>1 DEF decideResolve, RowOK, AcceptanceOK, PageKnown, Live, Active
<1>3. CASE postpone(w, FALSE, FALSE, FALSE)
  BY <1>3, PostponeStep DEF decideResolve
<1>4. CASE ~postpone(w, FALSE, FALSE, FALSE)
  <2> DEFINE i == [inc[e] EXCEPT !.state = "resolve_pending", !.exhausted = FALSE, !.tries = 0]
             r == [run[w] EXCEPT !.inc = i]
  <2>1. inc' = [inc EXCEPT ![e] = i] /\ UNCHANGED <<asset, settings, page, lock, alert, left>>
    BY <1>1, <1>4 DEF decideResolve
  <2>2. run' = [run EXCEPT ![w] = r]
    BY <1>0, <1>1, <1>4 DEF decideResolve, TypeOK
  <2>3. /\ i \in IncidentType
        /\ i.state = "resolve_pending"
        /\ i.claim = w
    BY <1>0, <1>1, DecideWrite
  <2> HIDE DEF i
  <2>4. r \in RunType /\ r.pc = "decide" /\ r.e = e /\ r.inc = i
    BY <1>0, <1>1, <2>3, CopyType
  <2> HIDE DEF r
  <2>5. /\ run' \in [Workers -> RunType]
        /\ run'[w] = r
        /\ \A v \in Workers \ {w} : run'[v] = run[v]
    BY <1>0, <2>2, <2>4, RunWrite
  <2>6. /\ inc' \in [Episodes -> IncidentType]
        /\ inc'[e] = i
        /\ \A f \in Episodes \ {e} : inc'[f] = inc[f]
    BY <1>0, <2>1, <2>3, IncWrite
  <2>7. TypeOK'
    BY <1>0, <2>1, <2>5, <2>6 DEF TypeOK
  <2>8. RunOK(w)'
    <3>1. LockOK(w)'
      BY <1>1, <2>1, <2>4, <2>5 DEF LockOK
    <3>2. CopyOK(w)'
      BY <2>3, <2>4, <2>5, <2>6 DEF CopyOK, IncidentType, Live
    <3>3. AttemptOK(w)'
      BY <2>4, <2>5 DEF AttemptOK
    <3> QED BY <3>1, <3>2, <3>3 DEF RunOK
  <2>9. RowOK(e)'
    BY <1>2, <2>1, <2>3, <2>6 DEF RowOK, AcceptanceOK, PageKnown
  <2> QED BY <1>1, <2>1, <2>5, <2>6, <2>7, <2>8, <2>9, Frame
<1> QED BY <1>3, <1>4

\* The record of an attempt: from here on the row says that the page may be there.
LEMMA AttemptStep ==
  ASSUME IInv, NEW w \in Workers, recordAttempt(w)
  PROVE  IInv'
<1>0. TypeOK /\ RunOK(w) /\ run[w] \in RunType /\ \A f \in Episodes : RowOK(f) /\ inc[f] \in IncidentType
  BY AtWork
<1>1. PICK e \in Episodes :
        /\ e = run[w].e /\ run[w].pc = "decide" /\ lock[e] = w /\ inc[e].claim = w
        /\ inc[e].state \in Live
        /\ inc[e].state = run[w].inc.state
        /\ inc[e].accepted = run[w].inc.accepted
        /\ inc[e].uncertain = run[w].inc.uncertain
        /\ inc[e].orig = run[w].inc.orig
        /\ inc[e].tries <= run[w].inc.tries
  BY Decided DEF recordAttempt
<1> DEFINE resolving == inc[e].state = "resolve_pending"
<1>2. resolving \/ inc[e].state = "trigger_pending"
  BY <1>1 DEF recordAttempt
<1>3. CASE postpone(w, FALSE, FALSE, FALSE)
  BY <1>3, PostponeStep DEF recordAttempt
<1>4. CASE ~postpone(w, FALSE, FALSE, FALSE)
  <2>u. PICK u \in BOOLEAN : u = (inc[e].uncertain \/ ~resolving)
    OBVIOUS
  <2> DEFINE t == inc[e].tries + 1
             i == [inc[e] EXCEPT !.tries = t, !.uncertain = u]
             r == [run[w] EXCEPT !.pc = "send"]
  <2>1. /\ inc' = [inc EXCEPT ![e].tries = @ + 1, ![e].uncertain = @ \/ ~resolving]
        /\ run' = [run EXCEPT ![w].pc = "send"]
        /\ UNCHANGED <<asset, settings, page, lock, alert, left>>
    BY <1>1, <1>4 DEF recordAttempt
  <2>2. inc' = [inc EXCEPT ![e] = i] /\ run' = [run EXCEPT ![w] = r]
    BY <1>0, <2>1, <2>u DEF TypeOK
  <2>3. t \in 0..MaxAttempts
    <3>1. inc[e].tries \in 0..MaxAttempts /\ run[w].inc.tries \in 0..MaxAttempts
      BY <1>0 DEF IncidentType, RunType
    <3>2. run[w].inc.tries < MaxAttempts
      BY DEF recordAttempt, withinBudget
    <3> QED BY <1>1, <3>1, <3>2, BoundsAssumption
  <2> HIDE DEF t
  <2>4. /\ i \in IncidentType
        /\ i.state = inc[e].state /\ i.accepted = inc[e].accepted
        /\ i.claim = w /\ i.orig = inc[e].orig
        /\ i.uncertain = u
    <3>1. inc[e] \in IncidentType
      BY <1>0
    <3>2. i \in IncidentType
      BY <2>3, <3>1, AttemptWrite
    <3>3. /\ i.state = inc[e].state /\ i.accepted = inc[e].accepted
          /\ i.claim = inc[e].claim /\ i.orig = inc[e].orig
          /\ i.uncertain = u
      BY <2>3, <3>1 DEF IncidentType
    <3> QED BY <1>1, <3>2, <3>3
  <2> HIDE DEF i
  <2>5. r \in RunType /\ r.pc = "send" /\ r.e = e /\ r.inc = run[w].inc
    BY <1>0, <1>1, RunTypes DEF Pcs
  <2> HIDE DEF r
  <2>6. /\ run' \in [Workers -> RunType]
        /\ run'[w] = r
        /\ \A v \in Workers \ {w} : run'[v] = run[v]
    BY <1>0, <2>2, <2>5, RunWrite
  <2>7. /\ inc' \in [Episodes -> IncidentType]
        /\ inc'[e] = i
        /\ \A f \in Episodes \ {e} : inc'[f] = inc[f]
    BY <1>0, <2>2, <2>4, IncWrite
  <2>8. TypeOK'
    BY <1>0, <2>1, <2>6, <2>7 DEF TypeOK
  <2>9. RowOK(e)
    BY <1>0
  <2>10. RunOK(w)'
    <3>1. LockOK(w)'
      BY <1>1, <2>1, <2>5, <2>6 DEF LockOK
    <3>2. CopyOK(w)'
      BY <1>1, <2>4, <2>5, <2>6, <2>7 DEF CopyOK
    <3>a. ~resolving /\ page[e] = "triggered" => run[w].inc.uncertain
      BY <1>1, <1>2, <2>9 DEF RowOK, PageKnown
    <3>b. /\ inc'[e].state = inc[e].state
          /\ ~resolving => inc'[e].uncertain
          /\ page' = page
          /\ run'[w].pc = "send" /\ run'[w].e = e /\ run'[w].inc = run[w].inc
      BY <2>1, <2>4, <2>5, <2>6, <2>7, <2>u
    <3>3. AttemptOK(w)'
      BY <1>2, <3>a, <3>b DEF AttemptOK
    <3> QED BY <3>1, <3>2, <3>3 DEF RunOK
  <2>11. RowOK(e)'
    BY <1>2, <2>1, <2>4, <2>7, <2>9, <2>u DEF RowOK, AcceptanceOK, PageKnown
  <2> QED BY <1>1, <2>1, <2>6, <2>7, <2>8, <2>10, <2>11, Frame
<1> QED BY <1>3, <1>4

\* PagerDuty answers, or not: whatever it holds now the row already allows for.
LEMMA SendStep ==
  ASSUME IInv, NEW w \in Workers, send(w)
  PROVE  IInv'
<1>0. TypeOK /\ RunOK(w) /\ run[w] \in RunType /\ \A f \in Episodes : RowOK(f) /\ inc[f] \in IncidentType
  BY AtWork
<1>1. PICK e \in Episodes : e = run[w].e /\ run[w].pc = "send" /\ lock[e] = w
  BY AtWork DEF send, Holding
<1> DEFINE resolving == inc[e].state = "resolve_pending"
           after == IF ~resolving THEN "triggered"
                    ELSE IF page[e] = "triggered" THEN "resolved" ELSE page[e]
<1>2. /\ inc[e].state = run[w].inc.state
      /\ inc[e].state \in {"trigger_pending", "resolve_pending"}
      /\ ~resolving => inc[e].uncertain
      /\ ~resolving /\ page[e] = "triggered" => run[w].inc.uncertain
  BY <1>0, <1>1 DEF RunOK, CopyOK, AttemptOK, Claimed
<1>3. PICK got \in {"accepted", "rejected", "throttled", "unknown", "odd"}, took \in BOOLEAN :
        /\ got = "accepted" => took
        /\ got \in {"rejected", "throttled"} => ~took
        /\ page' = IF took THEN [page EXCEPT ![e] = after] ELSE page
        /\ run' = [run EXCEPT ![w].pc = "record", ![w].got = got]
  BY <1>1, <1>2 DEF send
<1>4. UNCHANGED <<asset, settings, inc, lock, alert, left>>
  BY DEF send
<1>5. page[e] \in {"none", "triggered", "resolved"} /\ (resolving => page[e] # "none")
  <2>1. RowOK(e)
    BY <1>0
  <2> QED BY <1>0, <2>1, Types DEF RowOK, AcceptanceOK
<1>6. /\ page' \in [Episodes -> {"none", "triggered", "resolved"}]
      /\ page'[e] = IF took THEN after ELSE page[e]
      /\ \A f \in Episodes \ {e} : page'[f] = page[f]
  BY <1>0, <1>3, <1>5 DEF TypeOK
<1> DEFINE r == [run[w] EXCEPT !.pc = "record", !.got = got]
<1>7. run' = [run EXCEPT ![w] = r]
  BY <1>0, <1>3 DEF TypeOK
<1>8. r \in RunType /\ r.pc = "record" /\ r.e = e /\ r.inc = run[w].inc /\ r.got = got
  <2>1. run[w] \in RunType /\ got \in Answers
    BY <1>0 DEF Answers
  <2> QED BY <1>1, <2>1 DEF RunType, Answers
<1> HIDE DEF r
<1>9. /\ run' \in [Workers -> RunType]
      /\ run'[w] = r
      /\ \A v \in Workers \ {w} : run'[v] = run[v]
  BY <1>0, <1>7, <1>8, RunWrite
<1>10. TypeOK'
  BY <1>0, <1>4, <1>6, <1>9 DEF TypeOK
<1>11. RunOK(w)'
  <2>1. LockOK(w)'
    BY <1>1, <1>4, <1>8, <1>9 DEF LockOK
  <2>2. CopyOK(w)'
    BY <1>0, <1>1, <1>4, <1>8, <1>9 DEF RunOK, CopyOK, Claimed
  <2>3. AttemptOK(w)'
    <3>1. /\ run'[w].e = e /\ run'[w].inc = run[w].inc /\ run'[w].got = got
          /\ inc'[e] = inc[e]
      BY <1>4, <1>8, <1>9
    <3>2. ~resolving /\ page'[e] = "triggered" => run[w].inc.uncertain \/ got \in {"accepted", "unknown", "odd"}
      BY <1>2, <1>3, <1>6
    <3>3. got = "accepted" => page'[e] = IF inc[e].state = "trigger_pending" THEN "triggered" ELSE "resolved"
      BY <1>2, <1>3, <1>5, <1>6
    <3> HIDE DEF after
    <3> QED BY <1>2, <1>8, <1>9, <3>1, <3>2, <3>3 DEF AttemptOK
  <2> QED BY <2>1, <2>2, <2>3 DEF RunOK
<1>12. RowOK(e)'
  <2>1. RowOK(e)
    BY <1>0
  <2> QED BY <1>2, <1>4, <1>5, <1>6, <2>1 DEF RowOK, AcceptanceOK, PageKnown
<1> QED BY <1>1, <1>4, <1>6, <1>9, <1>10, <1>11, <1>12, Frame

\* The record of the outcome says what PagerDuty holds, or that it is unknown.
LEMMA OutcomeStep ==
  ASSUME IInv, NEW w \in Workers, recordOutcome(w)
  PROVE  IInv'
<1>0. TypeOK /\ RunOK(w) /\ run[w] \in RunType /\ \A f \in Episodes : RowOK(f) /\ inc[f] \in IncidentType
  BY AtWork
<1>1. PICK e \in Episodes : e = run[w].e /\ run[w].pc = "record" /\ lock[e] = w
  BY AtWork DEF recordOutcome, Holding
<1> DEFINE success == run[w].got = "accepted"
           resolving == inc[e].state = "resolve_pending"
<1>2. /\ inc[e].claim = w
      /\ inc[e].state = run[w].inc.state
      /\ inc[e].state \in {"trigger_pending", "resolve_pending"}
      /\ ~resolving /\ page[e] = "triggered" => run[w].inc.uncertain \/ run[w].got \in {"accepted", "unknown", "odd"}
      /\ success => page[e] = IF resolving THEN "resolved" ELSE "triggered"
  BY <1>0, <1>1 DEF RunOK, CopyOK, AttemptOK, Claimed
<1>a. PICK a \in BOOLEAN : a = (inc[e].accepted \/ (success /\ ~resolving))
  OBVIOUS
<1>u. PICK u \in BOOLEAN : u = IF resolving THEN inc[e].uncertain ELSE triggerUncertain(run[w])
  BY <1>0 DEF IncidentType, triggerUncertain
<1>x. PICK x \in BOOLEAN : x = (~success /\ (run[w].got \in {"rejected", "odd"} \/ inc[e].tries >= MaxAttempts))
  OBVIOUS
<1>s. PICK s \in States :
        s = IF ~success THEN inc[e].state ELSE IF resolving THEN "resolved" ELSE "open"
  BY <1>2 DEF States, Live, Active
<1> DEFINE i == Outcome(inc[e], s, a, u, x)
<1>3. inc' = [inc EXCEPT ![e] = i] /\ UNCHANGED <<asset, settings, page, alert, left>>
  BY <1>1, <1>2, <1>a, <1>u, <1>x, <1>s DEF recordOutcome, Outcome
<1>4. inc[e] \in IncidentType
  BY <1>0
<1>5. i \in IncidentType /\ i.state = s /\ i.accepted = a /\ i.uncertain = u
  BY <1>4, OutcomeWrite
<1> HIDE DEF i
<1>6. /\ inc' \in [Episodes -> IncidentType]
      /\ inc'[e] = i
      /\ \A f \in Episodes \ {e} : inc'[f] = inc[f]
  BY <1>0, <1>3, <1>5, IncWrite
<1>7. RowOK(e)'
  <2>1. RowOK(e)
    BY <1>0
  <2>2. inc'[e].state = s /\ inc'[e].accepted = a /\ inc'[e].uncertain = u /\ page'[e] = page[e]
    BY <1>3, <1>5, <1>6
  <2>3. AcceptanceOK(e)'
    BY <1>2, <1>a, <1>s, <2>1, <2>2 DEF RowOK, AcceptanceOK
  <2>4. PageKnown(e)'
    BY <1>2, <1>u, <1>s, <2>1, <2>2 DEF RowOK, PageKnown, triggerUncertain
  <2> QED BY <2>3, <2>4 DEF RowOK
<1>8. CASE success
  <2> DEFINE r == [run[w] EXCEPT !.pc = "repairEnd"]
  <2>1. r \in RunType /\ r.pc = "repairEnd" /\ r.e = e
    BY <1>0, <1>1, RunTypes DEF Pcs
  <2>2. run' = [run EXCEPT ![w] = r] /\ lock' = lock
    BY <1>0, <1>1, <1>2, <1>8 DEF recordOutcome, TypeOK
  <2> HIDE DEF r
  <2>3. /\ run' \in [Workers -> RunType]
        /\ run'[w] = r
        /\ \A v \in Workers \ {w} : run'[v] = run[v]
    BY <1>0, <2>1, <2>2, RunWrite
  <2>4. TypeOK'
    BY <1>0, <1>3, <1>6, <2>2, <2>3 DEF TypeOK
  <2>5. RunOK(w)'
    BY <1>1, <2>1, <2>2, <2>3 DEF RunOK, LockOK, CopyOK, AttemptOK, Claimed
  <2> QED BY <1>1, <1>3, <1>6, <1>7, <2>2, <2>3, <2>4, <2>5, Frame
<1>9. CASE ~success
  <2>1. Done(w, FALSE) /\ lock' = [lock EXCEPT ![e] = NoWorker]
    BY <1>1, <1>9 DEF recordOutcome
  <2> QED BY <1>0, <1>1, <1>3, <1>5, <1>7, <2>1, EndStep DEF TypeOK
<1> QED BY <1>8, <1>9

\* Acknowledgements are kept in columns of their own.
LEMMA AckStep ==
  ASSUME IInv, NEW w \in Workers,
         endAcknowledge(w) \/ \E e \in Episodes : beginAcknowledge(w, e)
  PROVE  IInv'
<1>0. TypeOK /\ RunOK(w) /\ run[w] \in RunType /\ \A f \in Episodes : RowOK(f) /\ inc[f] \in IncidentType
  BY AtWork
<1>1. UNCHANGED <<asset, settings, page, alert, left>>
  BY DEF endAcknowledge, beginAcknowledge
<1>2. ASSUME NEW e \in Episodes, NEW i \in IncidentType, Same(inc[e], i),
             inc' = [inc EXCEPT ![e] = i], lock[e] \in {w, NoWorker},
             NEW r \in RunType, r.pc = "idle" \/ r = run[w] \/ (r.pc = "ack" /\ r.e = e),
             run' = [run EXCEPT ![w] = r], r.pc = "ack" => lock' = [lock EXCEPT ![e] = w],
             r.pc # "ack" => lock' = [lock EXCEPT ![e] = NoWorker] \/ lock' = lock,
             r = run[w] => run[w].pc = "idle"
      PROVE  IInv'
  <2>1. /\ run' \in [Workers -> RunType]
        /\ run'[w] = r
        /\ \A v \in Workers \ {w} : run'[v] = run[v]
    BY <1>0, <1>2, RunWrite
  <2>2. /\ inc' \in [Episodes -> IncidentType]
        /\ inc'[e] = i
        /\ \A f \in Episodes \ {e} : inc'[f] = inc[f]
    BY <1>0, <1>2, IncWrite
  <2>3. /\ lock' \in [Episodes -> Workers \cup {NoWorker}]
        /\ r.pc = "ack" => lock'[e] = w
        /\ \A f \in Episodes \ {e} : lock'[f] = lock[f]
    BY <1>0, <1>2, LockWrite DEF TypeOK
  <2>4. TypeOK'
    BY <1>0, <1>1, <2>1, <2>2, <2>3 DEF TypeOK
  <2>5. RunOK(w)'
    BY <1>2, <2>1, <2>3 DEF RunOK, LockOK, CopyOK, AttemptOK, Claimed, Holding
  <2>6. RowOK(e)'
    BY <1>0, <1>1, <1>2, <2>2, SoftRow DEF Soft
  <2> QED BY <1>1, <1>2, <2>1, <2>2, <2>3, <2>4, <2>5, <2>6, Frame
<1>3. CASE endAcknowledge(w)
  <2>1. PICK e \in Episodes : e = run[w].e /\ lock[e] = w
    BY <1>3, AtWork DEF endAcknowledge, Holding
  <2>2. PICK k \in Acks : inc' = [inc EXCEPT ![e].ack = k]
    BY <1>3, <2>1 DEF endAcknowledge, Acks
  <2> DEFINE i == [inc[e] EXCEPT !.ack = k]
  <2>3. inc' = [inc EXCEPT ![e] = i]
    BY <1>0, <2>2 DEF TypeOK
  <2>4. i \in IncidentType /\ Same(inc[e], i)
    BY <1>0, AckWrite
  <2>5. IdleRun \in RunType /\ IdleRun.pc = "idle"
    BY InitialTypes DEF IdleRun
  <2>6. run' = [run EXCEPT ![w] = IdleRun] /\ lock' = [lock EXCEPT ![e] = NoWorker]
    BY <1>3, <2>1 DEF endAcknowledge
  <2>7. run[w].pc = "ack"
    BY <1>3 DEF endAcknowledge
  <2> HIDE DEF i
  <2> QED BY <1>2, <2>1, <2>3, <2>4, <2>5, <2>6, <2>7
<1>4. ASSUME NEW e \in Episodes, beginAcknowledge(w, e) PROVE IInv'
  <2>1. CASE inc[e].state # "open"
    <3> DEFINE i == [inc[e] EXCEPT !.ack = "cancelled"]
    <3>1. inc' = [inc EXCEPT ![e] = i] /\ run' = run /\ lock' = lock /\ run[w].pc = "idle"
          /\ lock[e] = NoWorker
      BY <1>0, <1>4, <2>1 DEF beginAcknowledge, TypeOK
    <3>2. i \in IncidentType /\ Same(inc[e], i)
      BY <1>0, AckWrite DEF Acks
    <3>3. run' = [run EXCEPT ![w] = run[w]]
      BY <1>0, <3>1 DEF TypeOK
    <3> HIDE DEF i
    <3> QED BY <1>0, <1>2, <3>1, <3>2, <3>3
  <2>2. CASE inc[e].state = "open"
    <3> DEFINE k == IF inc[e].ackTries + 1 >= MaxAttempts THEN "exhausted" ELSE inc[e].ack
               t == inc[e].ackTries + 1
               i == [inc[e] EXCEPT !.ack = k, !.ackTries = t]
               r == [IdleRun EXCEPT !.pc = "ack", !.e = e]
    <3>1. /\ inc' = [inc EXCEPT ![e].ackTries = @ + 1, ![e].ack = k]
          /\ run' = [run EXCEPT ![w] = r]
          /\ lock' = [lock EXCEPT ![e] = w]
          /\ lock[e] = NoWorker
          /\ run[w].pc = "idle"
          /\ inc[e].ackTries < MaxAttempts
      BY <1>4, <2>2 DEF beginAcknowledge
    <3>2. k \in Acks /\ t \in 0..MaxAttempts
      BY <1>0, <3>1, BoundsAssumption DEF IncidentType, Acks
    <3>3. inc' = [inc EXCEPT ![e] = i]
      <4> HIDE DEF k
      <4> QED BY <1>0, <3>1 DEF TypeOK
    <3> HIDE DEF k, t
    <3>4. i \in IncidentType /\ Same(inc[e], i)
      BY <1>0, <3>2, AckTriesWrite
    <3>5. r \in RunType /\ r.pc = "ack" /\ r.e = e
      BY InitialTypes, TargetType DEF Pcs
    <3> HIDE DEF i, r
    <3>6. r # run[w]
      BY <3>1, <3>5
    <3> QED BY <1>2, <3>1, <3>3, <3>4, <3>5, <3>6
  <2> QED BY <2>1, <2>2
<1> QED BY <1>3, <1>4

(***************************************************************************)
(* The theorems                                                            *)
(***************************************************************************)
LEMMA InitInv ==
  ASSUME Init
  PROVE  IInv
<1>1. TypeOK
  <2>1. /\ 1 \in 0..MaxExpiration /\ 1 \in Windows \cup {0}
        /\ MaxDisturbances \in 0..MaxDisturbances
    BY BoundsAssumption, DisturbancesAssumption
  <2> QED BY <2>1, InitialTypes DEF Init, TypeOK, AssetType, Evidence, SettingsType, NoAlert
<1>2. \A w \in Workers : RunOK(w)
  BY DEF Init, IdleRun, RunOK, LockOK, CopyOK, AttemptOK, Holding, Claimed
<1>3. \A e \in Episodes : AcceptanceOK(e) /\ PageKnown(e)
  BY DEF Init, NoIncident, AcceptanceOK, PageKnown
<1> QED BY <1>1, <1>2, <1>3 DEF IInv, LedgerMatchesProvider

\* What a run does is one of its steps.
LEMMA RunStep ==
  ASSUME IInv, NEW w \in Workers, runStep(w)
  PROVE  IInv'
BY EnqueueStep, TryLockStep, ClaimStep, RepairStep, DropStep, ResolveStep, WaitStep, AttemptStep,
   SendStep, OutcomeStep, UnlockedStep, AckStep
   DEF runStep

LEMMA NextInv ==
  ASSUME IInv, [Next]_vars
  PROVE  IInv'
<1>1. CASE UNCHANGED vars
  BY <1>1 DEF vars, IInv, TypeOK, RunOK, LockOK, CopyOK, AttemptOK, AcceptanceOK,
              LedgerMatchesProvider, PageKnown
<1>2. CASE Next
  BY <1>2, AssetStep, OperatorStep, TimeStep, RunStep, UnlockedStep, CrashStep, AckStep DEF Next
<1> QED BY <1>1, <1>2

\* The ledger, the lock, the copies of the runs and PagerDuty's pages hang together
\* in every reachable state (pagerduty-incidents.js, processPagerDutyIncident).
THEOREM Invariant == Spec => []IInv
<1>1. Init => IInv
  BY InitInv
<1>2. IInv /\ [Next]_vars => IInv'
  BY NextInv
<1> QED BY <1>1, <1>2, PTL DEF Spec

\* Every column keeps its range and no action is tried more often than its budget.
THEOREM TypeCorrect == Spec => []TypeOK
<1>1. IInv => TypeOK
  BY DEF IInv
<1> QED BY <1>1, Invariant, PTL

\* The ledger never loses sight of a page: what PagerDuty still shows is open, being
\* resolved, or pending with its acceptance unknown.
THEOREM PagesKnown == Spec => []LedgerMatchesProvider
<1>1. IInv => LedgerMatchesProvider
  BY DEF IInv
<1> QED BY <1>1, Invariant, PTL

(***************************************************************************)
(* Decisions are current                                                   *)
(***************************************************************************)

\* A step that neither counts an attempt nor decides to resolve episode e.
Calm(e) ==
  /\ inc[e].state # "none" => inc'[e].tries <= inc[e].tries
  /\ inc[e].state = "open" => inc'[e].state # "resolve_pending"

\* The steps of the environment and of runs that decide nothing are calm.
LEMMA CalmOutside ==
  ASSUME TypeOK, NEW e \in Episodes,
         \/ \E x \in 1 .. MaxExpiration : changeExpiration(x)
         \/ requeueAlertsCore
         \/ \E f \in Episodes : acknowledge(f) \/ nextAttemptDue(f) \/ leaseExpires(f)
         \/ \E w \in Workers, f \in Episodes : beginAcknowledge(w, f)
         \/ inc' = inc
  PROVE  Calm(e)
<1>0. inc \in [Episodes -> IncidentType] /\ inc[e] \in IncidentType /\ inc[e].tries \in Nat
  BY DEF TypeOK, IncidentType
<1>1. ASSUME NEW x \in 1 .. MaxExpiration, changeExpiration(x) PROVE Calm(e)
  <2>1. PICK d : inc'[e] = [inc[e] EXCEPT !.manual = FALSE, !.due = d]
    BY <1>1 DEF changeExpiration
  <2> QED BY <1>0, <2>1 DEF Calm, IncidentType
<1>2. CASE requeueAlertsCore
  <2>1. CASE inc'[e] = inc[e]
    BY <1>0, <2>1 DEF Calm
  <2>2. CASE inc'[e] = [inc[e] EXCEPT !.exhausted = FALSE, !.tries = 0, !.due = TRUE]
    <3>1. inc'[e].tries = 0 /\ inc'[e].state = inc[e].state
      BY <1>0, <2>2 DEF IncidentType
    <3> QED BY <1>0, <3>1 DEF Calm
  <2> QED BY <1>2, <2>1, <2>2 DEF requeueAlertsCore
<1>3. ASSUME NEW f \in Episodes, acknowledge(f) \/ nextAttemptDue(f) \/ leaseExpires(f) PROVE Calm(e)
  <2>1. \/ inc' = [inc EXCEPT ![f].ack = "asked", ![f].ackTries = 0]
        \/ inc' = [inc EXCEPT ![f].due = TRUE]
        \/ inc' = [inc EXCEPT ![f].leased = FALSE]
    BY <1>3 DEF acknowledge, nextAttemptDue, leaseExpires
  <2> QED BY <1>0, <2>1 DEF Calm, IncidentType
<1>4. ASSUME NEW w \in Workers, NEW f \in Episodes, beginAcknowledge(w, f) PROVE Calm(e)
  <2>1. PICK k, t : \/ inc' = [inc EXCEPT ![f].ack = k]
                    \/ inc' = [inc EXCEPT ![f].ackTries = t, ![f].ack = k]
    BY <1>4 DEF beginAcknowledge
  <2> QED BY <1>0, <2>1 DEF Calm, IncidentType
<1>5. CASE inc' = inc
  BY <1>0, <1>5 DEF Calm
<1> QED BY <1>1, <1>2, <1>3, <1>4, <1>5

\* So are the intent, which raises the window of a row or writes one that was not
\* there, the claim, and the end of an acknowledgement.
LEMMA CalmBegin ==
  ASSUME TypeOK, NEW e \in Episodes, NEW w \in Workers,
         enqueuePagerDutyIncident(w) \/ claimIncident(w) \/ endAcknowledge(w)
  PROVE  Calm(e)
<1>0. inc \in [Episodes -> IncidentType] /\ inc[e] \in IncidentType /\ inc[e].tries \in Nat
  BY DEF TypeOK, IncidentType
<1>1. CASE enqueuePagerDutyIncident(w)
  <2>1. \/ \E f \in Episodes : \E n : inc' = [inc EXCEPT ![f].risk = n]
        \/ \E f \in Episodes : \E i : inc[f].state = "none" /\ inc' = [inc EXCEPT ![f] = i]
        \/ inc' = inc
    BY <1>1 DEF enqueuePagerDutyIncident
  <2> QED BY <1>0, <2>1 DEF Calm, IncidentType
<1>2. CASE claimIncident(w)
  <2>1. CASE inc' = inc
    BY <1>0, <2>1 DEF Calm
  <2>2. CASE \E f : inc' = [inc EXCEPT ![f] = [inc[f] EXCEPT !.claim = w, !.leased = TRUE]]
    BY <1>0, <2>2 DEF Calm, IncidentType
  <2> QED BY <1>2, <2>1, <2>2 DEF claimIncident
<1>3. CASE endAcknowledge(w)
  <2>1. PICK k, f : inc' = [inc EXCEPT ![f].ack = k]
    BY <1>3 DEF endAcknowledge
  <2> QED BY <1>0, <2>1 DEF Calm, IncidentType
<1> QED BY <1>1, <1>2, <1>3

\* And what ends a run: the claim given back, and the record of an outcome.
LEMMA CalmEnd ==
  ASSUME TypeOK, NEW e \in Episodes, NEW w \in Workers,
         \/ \E c, x, ok \in BOOLEAN : postpone(w, c, x, ok)
         \/ recordOutcome(w)
  PROVE  Calm(e)
<1>0. inc \in [Episodes -> IncidentType] /\ inc[e] \in IncidentType /\ inc[e].tries \in Nat
  BY DEF TypeOK, IncidentType
<1>1. CASE inc' = inc
  BY <1>0, <1>1 DEF Calm
<1>2. ASSUME NEW f, NEW i, inc' = [inc EXCEPT ![f] = i],
             f \in Episodes => i.tries = inc[f].tries /\ i.state \in {inc[f].state, "cancelled", "resolved", "open"}
      PROVE  Calm(e)
  <2>1. CASE e = f
    BY <1>0, <1>2, <2>1 DEF Calm
  <2>2. CASE e # f
    BY <1>0, <1>2, <2>2 DEF Calm
  <2> QED BY <2>1, <2>2
<1>3. ASSUME NEW c \in BOOLEAN, NEW y \in BOOLEAN, NEW ok \in BOOLEAN, postpone(w, c, y, ok)
      PROVE  Calm(e)
  <2>0. PICK f, x : f = run[w].e /\ x = (inc[f].exhausted \/ y)
    OBVIOUS
  <2>s. PICK s : s = IF c THEN "cancelled" ELSE inc[f].state
    OBVIOUS
  <2>1. \/ inc' = inc
        \/ inc' = [inc EXCEPT ![f] = [inc[f] EXCEPT !.state = s, !.exhausted = x,
                      !.due = FALSE, !.claim = NoWorker, !.leased = FALSE]]
    BY <1>3, <2>0, <2>s DEF postpone
  <2>2. s \in {inc[f].state, "cancelled", "resolved", "open"}
    BY <2>s
  <2>3. f \in Episodes => LET i == [inc[f] EXCEPT !.state = s, !.exhausted = x,
                      !.due = FALSE, !.claim = NoWorker, !.leased = FALSE]
                           IN i.tries = inc[f].tries /\ i.state = s
    BY <1>0 DEF IncidentType
  <2> QED BY <1>1, <1>2, <2>1, <2>2, <2>3
<1>4. CASE recordOutcome(w)
  <2> DEFINE success == run[w].got = "accepted"
             resolving == run[w].inc.state = "resolve_pending"
  <2>f. PICK f : f = run[w].e
    OBVIOUS
  <2>a. PICK a : a = (inc[f].accepted \/ (success /\ ~resolving))
    OBVIOUS
  <2>u. PICK u : u = IF resolving THEN inc[f].uncertain ELSE triggerUncertain(run[w])
    OBVIOUS
  <2>x. PICK x : x = (~success /\ (run[w].got \in {"rejected", "odd"} \/ inc[f].tries >= MaxAttempts))
    OBVIOUS
  <2>s. PICK s : s = IF ~success THEN inc[f].state ELSE IF resolving THEN "resolved" ELSE "open"
    OBVIOUS
  <2>1. \/ inc' = inc
        \/ inc' = [inc EXCEPT ![f] = [inc[f] EXCEPT !.state = s, !.accepted = a,
                      !.uncertain = u, !.exhausted = x,
                      !.due = FALSE, !.claim = NoWorker, !.leased = FALSE]]
    BY <1>4, <2>f, <2>a, <2>u, <2>x, <2>s DEF recordOutcome
  <2>2. s \in {inc[f].state, "cancelled", "resolved", "open"}
    BY <2>s
  <2>3. f \in Episodes => LET i == [inc[f] EXCEPT !.state = s, !.accepted = a,
                      !.uncertain = u, !.exhausted = x,
                      !.due = FALSE, !.claim = NoWorker, !.leased = FALSE]
                           IN i.tries = inc[f].tries /\ i.state = s
    BY <1>0 DEF IncidentType
  <2> QED BY <1>1, <1>2, <2>1, <2>2, <2>3
<1> QED BY <1>3, <1>4

\* What DecisionsAreCurrent says of one step and one episode.
Current(e) ==
  /\ inc[e].state = "trigger_pending" /\ inc'[e].tries > inc[e].tries =>
       AtRisk(asset, settings) /\ ~asset.retired
  /\ inc[e].state = "open" /\ inc'[e].state = "resolve_pending" /\ ~inc'[e].manual =>
       \/ asset.retired
       \/ asset.exp > inc[e].orig /\ asset.exp > destinationThreshold(settings)

LEMMA CalmIsCurrent ==
  ASSUME TypeOK, TypeOK', NEW e \in Episodes, Calm(e)
  PROVE  Current(e)
<1>1. inc[e].tries \in Nat /\ inc'[e].tries \in Nat
  BY DEF TypeOK, IncidentType
<1> QED BY <1>1 DEF Calm, Current

\* The page is turned over because the run had read a recovery, or a retired asset,
\* of a row that is still the same, and what it had read of the asset still holds.
LEMMA ResolveIsCurrent ==
  ASSUME IInv, TypeOK', NEW w \in Workers, decideResolve(w), NEW e \in Episodes
  PROVE  Current(e)
<1>0. TypeOK /\ inc \in [Episodes -> IncidentType] /\ inc[e] \in IncidentType
  BY Types DEF IInv, TypeOK
<1>1. PICK f \in Episodes :
        f = run[w].e /\ inc[f].state = run[w].inc.state /\ inc[f].orig = run[w].inc.orig
  BY Decided DEF decideResolve
<1>2. CASE postpone(w, FALSE, FALSE, FALSE)
  BY <1>0, <1>2, CalmEnd, CalmIsCurrent
<1>3. CASE ~postpone(w, FALSE, FALSE, FALSE)
  <2>1. /\ snapshotCondition(run[w])
        /\ Over(run[w])
        /\ inc' = [inc EXCEPT ![f] = [inc[f] EXCEPT !.state = "resolve_pending",
                                        !.exhausted = FALSE, !.tries = 0]]
    BY <1>1, <1>3 DEF decideResolve
  <2>2. CASE e = f
    <3>1. \/ asset.retired
          \/ asset.exp > inc[e].orig /\ asset.exp > destinationThreshold(settings)
      BY <1>1, <2>1, <2>2 DEF snapshotCondition, Over, isPagerDutyRecovery
    <3>2. inc[e].tries \in Nat /\ inc'[e].tries = 0
      BY <1>0, <2>1, <2>2 DEF IncidentType
    <3> QED BY <3>1, <3>2 DEF Current
  <2>3. CASE e # f
    BY <1>0, <2>1, <2>3, CalmIsCurrent DEF Calm, IncidentType
  <2> QED BY <2>2, <2>3
<1> QED BY <1>2, <1>3

\* An attempt to trigger is counted because the run had read an asset at risk.
LEMMA AttemptIsCurrent ==
  ASSUME IInv, TypeOK', NEW w \in Workers, recordAttempt(w), NEW e \in Episodes
  PROVE  Current(e)
<1>0. TypeOK /\ inc \in [Episodes -> IncidentType] /\ inc[e] \in IncidentType
  BY Types DEF IInv, TypeOK
<1>1. PICK f \in Episodes : f = run[w].e /\ inc[f].state = run[w].inc.state
  BY Decided DEF recordAttempt
<1>2. CASE postpone(w, FALSE, FALSE, FALSE)
  BY <1>0, <1>2, CalmEnd, CalmIsCurrent
<1>3. CASE ~postpone(w, FALSE, FALSE, FALSE)
  <2> DEFINE resolving == inc[f].state = "resolve_pending"
  <2>1. inc' = [inc EXCEPT ![f].tries = @ + 1, ![f].uncertain = @ \/ ~resolving]
    BY <1>1, <1>3 DEF recordAttempt
  <2>2. \/ resolving
        \/ /\ ~Over(run[w]) /\ AtRisk(run[w].asset, run[w].settings)
           /\ snapshotCondition(run[w])
    BY <1>1, <1>3 DEF recordAttempt
  <2>3. resolving \/ (AtRisk(asset, settings) /\ ~asset.retired)
    BY <2>2 DEF snapshotCondition, Over, AtRisk
  <2>4. CASE e = f
    <3>1. inc'[e].state = inc[e].state
      BY <1>0, <2>1, <2>4 DEF IncidentType
    <3> QED BY <2>3, <2>4, <3>1 DEF Current
  <2>5. CASE e # f
    BY <1>0, <2>1, <2>5, CalmIsCurrent DEF Calm, IncidentType
  <2> QED BY <2>4, <2>5
<1> QED BY <1>2, <1>3

LEMMA CurrentStep ==
  ASSUME IInv, Next, NEW e \in Episodes
  PROVE  Current(e)
<1>0. TypeOK /\ TypeOK' /\ inc \in [Episodes -> IncidentType] /\ inc[e] \in IncidentType
  BY NextInv, Types DEF IInv, TypeOK
<1>1. ASSUME NEW f \in Episodes, resolve(f) PROVE Current(e)
  <2>1. PICK k : inc' = [inc EXCEPT ![f].state = "resolve_pending", ![f].manual = TRUE,
                           ![f].tries = 0, ![f].exhausted = FALSE, ![f].due = TRUE, ![f].ack = k]
    BY <1>1 DEF resolve
  <2>2. CASE e = f
    <3>1. inc'[e].manual = TRUE /\ inc'[e].tries = 0 /\ inc[e].tries \in Nat
      BY <1>0, <2>1, <2>2 DEF IncidentType
    <3> QED BY <3>1 DEF Current
  <2>3. CASE e # f
    <3>1. inc'[e] = inc[e]
      BY <1>0, <2>1, <2>3
    <3> QED BY <1>0, <3>1, CalmIsCurrent DEF Calm, IncidentType
  <2> QED BY <2>2, <2>3
<1>2. ASSUME NEW w \in Workers, dropTrigger(w) \/ wait(w) PROVE Calm(e)
  <2> DEFINE c == ~run[w].inc.uncertain
             x == Over(run[w]) /\ run[w].inc.uncertain
             y == run[w].settings.dest /\ (run[w].inc.exhausted \/ ~withinBudget(run[w].inc))
             d == run[w].settings.dest
  <2>1. \/ postpone(w, c, x, FALSE)
        \/ postpone(w, FALSE, FALSE, FALSE)
        \/ postpone(w, FALSE, FALSE, d)
        \/ postpone(w, FALSE, y, FALSE)
    BY <1>2 DEF dropTrigger, wait
  <2>2. c \in BOOLEAN /\ x \in BOOLEAN /\ y \in BOOLEAN /\ d \in BOOLEAN
    BY <1>0, Types DEF RunType, SettingsType
  <2> HIDE DEF c, x, y, d
  <2> QED BY <1>0, <2>1, <2>2, CalmEnd
<1>3. ASSUME NEW w \in Workers, runStep(w) PROVE Current(e)
  <2>1. CASE tryLock(w) \/ reconcilePagerDutyParentAlert(w) \/ send(w) \/ settleAlert(w)
    BY <1>0, <2>1, CalmOutside, CalmIsCurrent
       DEF tryLock, reconcilePagerDutyParentAlert, send, settleAlert
  <2>2. CASE enqueuePagerDutyIncident(w) \/ claimIncident(w) \/ endAcknowledge(w)
    BY <1>0, <2>2, CalmBegin, CalmIsCurrent
  <2>3. CASE dropTrigger(w) \/ wait(w) \/ recordOutcome(w)
    BY <1>0, <1>2, <2>3, CalmEnd, CalmIsCurrent
  <2>4. CASE decideResolve(w) \/ recordAttempt(w)
    BY <1>0, <2>4, ResolveIsCurrent, AttemptIsCurrent
  <2> QED BY <1>3, <2>1, <2>2, <2>3, <2>4 DEF runStep
<1>4. CASE inc' = inc
  BY <1>0, <1>4, CalmOutside, CalmIsCurrent
<1>5. CASE \/ \E x \in 1 .. MaxExpiration : changeExpiration(x)
           \/ requeueAlertsCore
           \/ \E f \in Episodes : acknowledge(f) \/ nextAttemptDue(f) \/ leaseExpires(f)
           \/ \E w \in Workers, f \in Episodes : beginAcknowledge(w, f)
  BY <1>0, <1>5, CalmOutside, CalmIsCurrent
<1>6. ASSUME \/ retireAsset \/ (\E proof \in Evidence : verifyExpiry(proof)) \/ changeSettings \/ queueAlert
             \/ \E w \in Workers : claimAlert(w) \/ crash(w)
             \/ \E w \in Workers, f \in Episodes : reconcilePagerDutyIncidents(w, f)
      PROVE  inc' = inc
  BY <1>6 DEF retireAsset, verifyExpiry, changeSettings, queueAlert, claimAlert, crash,
              reconcilePagerDutyIncidents
<1> QED BY <1>1, <1>3, <1>4, <1>5, <1>6 DEF Next

\* A step that counts an attempt to trigger finds the asset at risk, and one that
\* turns an open page over to be resolved finds it retired or renewed: decisions
\* are compared with the rows they rest on in the statement that acts on them.
THEOREM DecisionsCurrent == Spec => DecisionsAreCurrent
<1>1. ASSUME IInv, [Next]_vars
      PROVE  [\A e \in Episodes :
                /\ inc[e].state = "trigger_pending" /\ inc'[e].tries > inc[e].tries =>
                     AtRisk(asset, settings) /\ ~asset.retired
                /\ inc[e].state = "open" /\ inc'[e].state = "resolve_pending" /\ ~inc'[e].manual =>
                     \/ asset.retired
                     \/ asset.exp > inc[e].orig /\ asset.exp > destinationThreshold(settings)]_vars
  BY <1>1, CurrentStep DEF Current
<1> QED BY <1>1, Invariant, PTL DEF Spec, DecisionsAreCurrent
=============================================================================
