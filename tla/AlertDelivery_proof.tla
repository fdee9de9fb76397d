------------------------ MODULE AlertDelivery_proof ------------------------
(***************************************************************************)
(* Proofs about AlertDelivery.  The inductive invariant IInv is kept by    *)
(* every action; the safety properties of the row follow from it for any   *)
(* number of workers and destinations and any disturbance.                 *)
(***************************************************************************)
EXTENDS AlertDelivery, FiniteSetTheorems, TLAPS

(***************************************************************************)
(* The ledger                                                              *)
(***************************************************************************)

\* What was accepted stays accepted.
Kept(a, b) == \A d \in Dests : a[d] > 0 => b[d] > 0

\* Outcomes, logs and ledgers stay backed when more is accepted.
LEMMA BackedKept ==
  ASSUME NEW o, NEW a, NEW b, Backed(o, a), Kept(a, b)
  PROVE  Backed(o, b)
BY DEF Backed, Kept

LEMMA LogKept ==
  ASSUME NEW l, NEW a, NEW b, LogBacked(l, a), Kept(a, b)
  PROVE  LogBacked(l, b)
<1> DEFINE o == [d \in Dests |-> l[d].last]
<1>1. Backed(o, a) /\ \A d \in Dests : l[d].ok => a[d] > 0
  BY DEF LogBacked
<1> HIDE DEF o
<1>2. Backed(o, b)
  BY <1>1, BackedKept
<1>3. \A d \in Dests : l[d].ok => b[d] > 0
  BY <1>1 DEF Kept
<1> QED BY <1>2, <1>3 DEF LogBacked, o

LEMMA LedgerKept ==
  ASSUME NEW r, NEW a, NEW b, LedgerBacked(r, a), Kept(a, b)
  PROVE  LedgerBacked(r, b)
BY BackedKept DEF LedgerBacked

\* A channel is called sent only when it was reached.
LEMMA Outcome ==
  ASSUME NEW c \in ALLCHANNELS, NEW out \in [Dests -> DestStates], NEW a, NEW D \in SUBSET Dests,
         Backed(out, a),
         c = "webhooks" => Of(c, D) # {}
  PROVE  /\ channelOutcome(c, out, D) \in ChannelStates
         /\ channelOutcome(c, out, D) = "sent" => Reached(out, Of(c, D))
         /\ loggedOutcome(c, out, D) \in ChannelStates
         /\ loggedOutcome(c, out, D) = "sent" => Reached(out, Of(c, D))
<1> DEFINE E == Of(c, D)
<1>1. \A d \in E : d \in Dests /\ Channel[d] = c /\ out[d] \in DestStates
  BY DEF Of
<1>2. c = "webhooks" => E # {}
  OBVIOUS
<1>3. \A d \in E : /\ out[d] = "permanent" => c = "webhooks"
                   /\ out[d] = "excluded" => c # "webhooks"
  BY <1>1 DEF Backed
<1> HIDE DEF E
<1> DEFINE Sound(o) == o \in ChannelStates /\ (o = "sent" => Reached(out, Of(c, D)))
<1>4. ASSUME c = "webhooks" PROVE Sound(channelOutcome(c, out, D))
  <2>1. endpointOutcome(out, E) \in ChannelStates
    BY DEF endpointOutcome, ChannelStates
  <2>2. ASSUME endpointOutcome(out, E) = "sent" PROVE Reached(out, E)
    <3>1. \A d \in E : out[d] \notin {"none", "failed", "deferred", "permanent"}
      BY <2>2 DEF endpointOutcome
    <3>2. \A d \in E : out[d] = "sent"
      BY <1>1, <1>3, <1>4, <3>1 DEF DestStates
    <3> QED BY <1>2, <1>4, <3>2 DEF Reached
  <2> QED BY <1>4, <2>1, <2>2 DEF channelOutcome, E
<1>5. ASSUME c # "webhooks" PROVE Sound(channelOutcome(c, out, D))
  <2>1. recipientChannelOutcome(out, E) \in ChannelStates
    BY DEF recipientChannelOutcome, ChannelStates
  <2>2. ASSUME recipientChannelOutcome(out, E) = "sent" PROVE Reached(out, E)
    <3>1. /\ \A d \in E : out[d] \notin {"none", "failed", "deferred"}
          /\ \E d \in E : out[d] # "excluded"
      BY <2>2 DEF recipientChannelOutcome
    <3>2. \A d \in E : out[d] \in {"sent", "excluded"}
      BY <1>1, <1>3, <1>5, <3>1 DEF DestStates
    <3> QED BY <3>1, <3>2 DEF Reached
  <2> QED BY <1>5, <2>1, <2>2 DEF channelOutcome, E
<1>6. loggedOutcome(c, out, D) \in {channelOutcome(c, out, D), "failed"}
  BY DEF loggedOutcome
<1>7. "failed" \in ChannelStates
  BY DEF ChannelStates
<1> QED BY <1>4, <1>5, <1>6, <1>7

\* The channels of a set of destinations.
LEMMA ChannelSets ==
  ASSUME NEW D \in SUBSET Dests
  PROVE  /\ ChannelsOf(D) \in SUBSET ALLCHANNELS
         /\ \A c \in ChannelsOf(D) : Of(c, D) # {}
         /\ \A c : Of(c, D) \in SUBSET D
BY ChannelAssumption DEF ChannelsOf, Of

\* A settlement leaves a ledger as sound as the one it starts from.
LEMMA Merge ==
  ASSUME NEW r \in RunType, NEW a, NEW A \in SUBSET ChannelsOf(r.live),
         LedgerBacked(r.snap, a), LogBacked(r.prior, a), Backed(r.res, a)
  PROVE  LET m == mergeDeliveryAttempt(r, A)
         IN  /\ m.out \in [Dests -> DestStates]
             /\ m.cur \in SUBSET Dests
             /\ m.state \in [ALLCHANNELS -> ChannelStates]
             /\ LedgerBacked(m, a)
<1> DEFINE snap == r.snap
           logged == {d \in Dests : r.prior[d].last # "none"}
           out(d) == IF Channel[d] \in A /\ (r.res[d] # "none" \/ Channel[d] = "webhooks")
                     THEN r.res[d]
                     ELSE foldDeliveryLog(r.prior, snap.out)[d]
           cur(c) == CASE c \in A -> Of(c, r.live)
                       [] c \notin A /\ (snap.state[c] = "none" \/ c = "webhooks")
                                     /\ Of(c, logged) # {} -> Of(c, logged)
                       [] OTHER -> Of(c, snap.cur)
           newOut == [d \in Dests |-> out(d)]
           newCur == UNION {cur(c) : c \in ALLCHANNELS}
           newState == [c \in ALLCHANNELS |-> IF c \in A THEN channelOutcome(c, newOut, newCur)
                                              ELSE IF Of(c, logged) # {}
                                              THEN loggedOutcome(c, newOut, newCur)
                                              ELSE snap.state[c]]
<1>1. mergeDeliveryAttempt(r, A) = [out |-> newOut, cur |-> newCur, state |-> newState]
  BY DEF mergeDeliveryAttempt
<1>2. /\ r.live \in SUBSET Dests /\ r.res \in [Dests -> DestStates] /\ r.prior \in LogType
      /\ snap.out \in [Dests -> DestStates] /\ snap.cur \in SUBSET Dests
      /\ snap.state \in [ALLCHANNELS -> ChannelStates]
  BY DEF RunType, RowType
<1>3. ASSUME NEW d \in Dests
      PROVE  /\ out(d) \in DestStates
             /\ out(d) = "sent" => a[d] > 0
             /\ out(d) = "permanent" => Channel[d] = "webhooks"
             /\ out(d) = "excluded" => Channel[d] # "webhooks"
  <2>1. /\ r.res[d] \in DestStates
        /\ r.res[d] = "sent" => a[d] > 0
        /\ r.res[d] = "permanent" => Channel[d] = "webhooks"
        /\ r.res[d] = "excluded" => Channel[d] # "webhooks"
    BY <1>2 DEF Backed
  <2>2. /\ r.prior[d].last \in DestStates
        /\ r.prior[d].last = "sent" => a[d] > 0
        /\ r.prior[d].last = "permanent" => Channel[d] = "webhooks"
        /\ r.prior[d].last = "excluded" => Channel[d] # "webhooks"
    BY <1>2 DEF LogBacked, Backed, LogType
  <2>3. /\ snap.out[d] \in DestStates
        /\ snap.out[d] = "sent" => a[d] > 0
        /\ snap.out[d] = "permanent" => Channel[d] = "webhooks"
        /\ snap.out[d] = "excluded" => Channel[d] # "webhooks"
    BY <1>2 DEF LedgerBacked, Backed
  <2>4. out(d) \in {r.res[d], r.prior[d].last, snap.out[d]}
    BY DEF foldDeliveryLog
  <2> HIDE DEF out, snap
  <2> QED BY <2>1, <2>2, <2>3, <2>4
<1>4. newOut \in [Dests -> DestStates] /\ Backed(newOut, a)
  <2> HIDE DEF out
  <2> QED BY <1>3 DEF Backed
<1>5. ASSUME NEW c \in ALLCHANNELS PROVE cur(c) \in SUBSET Of(c, Dests)
  BY <1>2 DEF Of
<1>6. newCur \in SUBSET Dests /\ \A c \in ALLCHANNELS : Of(c, newCur) = cur(c)
  <2> HIDE DEF cur
  <2>1. \A c \in ALLCHANNELS : \A d \in cur(c) : d \in Dests /\ Channel[d] = c
    BY <1>5 DEF Of
  <2>2. \A d \in newCur : \E c \in ALLCHANNELS : d \in cur(c)
    OBVIOUS
  <2>3. \A c \in ALLCHANNELS : \A d \in cur(c) : d \in newCur
    OBVIOUS
  <2> HIDE DEF newCur
  <2>4. \A c \in ALLCHANNELS : Of(c, newCur) = cur(c)
    BY <2>1, <2>2, <2>3 DEF Of
  <2> QED BY <2>1, <2>2, <2>4
<1>7. ASSUME NEW c \in ALLCHANNELS
      PROVE  /\ newState[c] \in ChannelStates
             /\ newState[c] = "sent" => Reached(newOut, Of(c, newCur))
  <2>1. CASE c \in A \/ Of(c, logged) # {}
    <3>1. newState[c] \in {channelOutcome(c, newOut, newCur), loggedOutcome(c, newOut, newCur)}
      BY <2>1
    <3>2. c = "webhooks" => Of(c, newCur) # {}
      <4>1. c = "webhooks" => cur(c) \in {Of(c, r.live), Of(c, logged)}
        BY <2>1
      <4>2. c \in A => Of(c, r.live) # {}
        BY <1>2, ChannelSets
      <4> QED BY <1>6, <2>1, <4>1, <4>2
    <3> HIDE DEF newState, newOut, newCur
    <3>3. /\ channelOutcome(c, newOut, newCur) \in ChannelStates
          /\ channelOutcome(c, newOut, newCur) = "sent" => Reached(newOut, Of(c, newCur))
          /\ loggedOutcome(c, newOut, newCur) \in ChannelStates
          /\ loggedOutcome(c, newOut, newCur) = "sent" => Reached(newOut, Of(c, newCur))
      BY <1>4, <1>6, <3>2, Outcome
    <3> QED BY <3>1, <3>3
  <2>2. CASE ~(c \in A \/ Of(c, logged) # {})
    <3>1. newState[c] = snap.state[c] /\ cur(c) = Of(c, snap.cur)
      BY <2>2
    <3>2. \A d \in Of(c, snap.cur) : d \in Dests /\ Channel[d] = c
      BY <1>2 DEF Of
    <3>3. \A d \in Of(c, snap.cur) : newOut[d] = snap.out[d]
      <4>1. \A d \in Of(c, snap.cur) : Channel[d] \notin A /\ r.prior[d].last = "none"
        BY <2>2, <3>2 DEF Of
      <4> QED BY <3>2, <4>1 DEF foldDeliveryLog
    <3>4. snap.state[c] = "sent" => Reached(snap.out, Of(c, snap.cur))
      BY DEF LedgerBacked
    <3> HIDE DEF newState, newOut, newCur, snap
    <3> QED BY <1>2, <1>6, <3>1, <3>3, <3>4 DEF Reached
  <2> QED BY <2>1, <2>2
<1>8. newState \in [ALLCHANNELS -> ChannelStates]
  <2>1. newState = [c \in ALLCHANNELS |-> newState[c]]
    OBVIOUS
  <2> HIDE DEF newState
  <2> QED BY <1>7, <2>1
<1> HIDE DEF newOut, newCur, newState
<1> QED BY <1>1, <1>4, <1>6, <1>7, <1>8 DEF LedgerBacked

(***************************************************************************)
(* Frames                                                                  *)
(***************************************************************************)

LEMMA Constants ==
  /\ AbsentRow \in RowType
  /\ EmptyLog \in LogType
  /\ IdleRun \in RunType
  /\ \A a : /\ LedgerBacked(AbsentRow, a)
            /\ LogBacked(EmptyLog, a)
            /\ LedgerBacked(IdleRun.snap, a)
            /\ LogBacked(IdleRun.prior, a)
            /\ Backed(IdleRun.res, a)
<1>1. NoOutcomes \in [Dests -> DestStates] /\ NoLedger \in [ALLCHANNELS -> ChannelStates]
  BY DEF NoOutcomes, NoLedger, DestStates, ChannelStates
<1>2. AbsentRow \in RowType
  BY <1>1 DEF AbsentRow, RowType, OpenStatuses
<1>3. EmptyLog \in LogType
  <2>1. -1 \in Int
    OBVIOUS
  <2> QED BY <2>1 DEF EmptyLog, LogType, DestStates
<1>4. IdleRun \in RunType
  BY <1>1, <1>2, <1>3 DEF IdleRun, RunType
<1>5. ASSUME NEW a PROVE Backed(NoOutcomes, a) /\ LedgerBacked(AbsentRow, a) /\ LogBacked(EmptyLog, a)
  <2>1. Backed(NoOutcomes, a)
    BY DEF Backed, NoOutcomes
  <2>2. AbsentRow.out = NoOutcomes /\ AbsentRow.state = NoLedger
    BY DEF AbsentRow
  <2>3. LedgerBacked(AbsentRow, a)
    BY <2>1, <2>2 DEF LedgerBacked, NoLedger
  <2>4. [d \in Dests |-> EmptyLog[d].last] = NoOutcomes /\ \A d \in Dests : ~EmptyLog[d].ok
    BY DEF EmptyLog, NoOutcomes
  <2> QED BY <2>1, <2>3, <2>4 DEF LogBacked
<1>6. IdleRun.snap = AbsentRow /\ IdleRun.prior = EmptyLog /\ IdleRun.res = NoOutcomes
  BY DEF IdleRun
<1> QED BY <1>2, <1>3, <1>4, <1>5, <1>6

\* A run that did not step.
LEMMA RunKept ==
  ASSUME NEW v \in Workers, RunInv(v), run'[v] = run[v],
         Kept(accepted, accepted'),
         run[v] \in RunType,
         row.status = "sent" => row'.status = "sent"
  PROVE  RunInv(v)'
<1>1. PICK p \in RunType : p = run[v]
  OBVIOUS
<1>2. p = run'[v]
  BY <1>1
<1>3. PICK a, b : a = accepted /\ b = accepted'
  OBVIOUS
<1>4. /\ LedgerBacked(p.snap, a)
      /\ LogBacked(p.prior, a)
      /\ Backed(p.res, a)
      /\ p.pc \in {"armed", "again", "answered"} => \E d \in Dests \ p.todo : p.at = {d}
      /\ p.pc = "answered" => \A d \in p.at :
           /\ p.got = "sent" => a[d] > 0
           /\ p.got = "permanent" => Channel[d] = "webhooks"
      /\ p.pc = "report" =>
           /\ p.say # "none"
           /\ p.say = "resolve" => row.status = "sent"
  BY <1>1, <1>3 DEF RunInv
<1>5. Kept(a, b)
  BY <1>3
<1>6. LedgerBacked(p.snap, b) /\ LogBacked(p.prior, b) /\ Backed(p.res, b)
  BY <1>4, <1>5, LedgerKept, LogKept, BackedKept
<1>7. p.pc = "answered" => \A d \in p.at : p.got = "sent" => b[d] > 0
  BY <1>4, <1>5 DEF Kept
<1> QED BY <1>2, <1>3, <1>4, <1>6, <1>7 DEF RunInv

\* A run that is over.
LEMMA RunIdle ==
  ASSUME NEW w \in Workers, run'[w] = IdleRun
  PROVE  RunInv(w)' /\ \A d : ~Ticket(w, d)'
<1>1. IdleRun.pc = "idle"
  BY DEF IdleRun
<1>2. RunInv(w)'
  <2>1. PICK b : b = accepted'
    OBVIOUS
  <2>2. LedgerBacked(IdleRun.snap, b) /\ LogBacked(IdleRun.prior, b) /\ Backed(IdleRun.res, b)
    BY Constants
  <2> QED BY <1>1, <2>1, <2>2 DEF RunInv
<1>3. \A d : ~Ticket(w, d)'
  BY <1>1 DEF Ticket
<1> QED BY <1>2, <1>3

\* The tickets are counted.
LEMMA TicketSets ==
  ASSUME NEW d
  PROVE  /\ IsFiniteSet(Tickets(d)) /\ Cardinality(Tickets(d)) \in Nat
         /\ IsFiniteSet(Tickets(d)') /\ Cardinality(Tickets(d)') \in Nat
<1>1. Tickets(d) \subseteq Workers /\ Tickets(d)' \subseteq Workers
  BY DEF Tickets
<1> QED BY <1>1, WorkersAssumption, FS_Subset, FS_CardinalityType

\* No send, and nobody gets a ticket: the count still covers the sends.
LEMMA CoverKept ==
  ASSUME NEW d \in Dests, SendsCovered(d),
         accepted[d] \in Nat, blind[d] \in Nat,
         accepted'[d] = accepted[d], blind'[d] = blind[d],
         \A v \in Workers : Ticket(v, d)' => Ticket(v, d)
  PROVE  SendsCovered(d)'
<1>1. Tickets(d)' \subseteq Tickets(d)
  BY DEF Tickets
<1>2. PICK S, T : S = Tickets(d) /\ T = Tickets(d)'
  OBVIOUS
<1>3. IsFiniteSet(S) /\ T \subseteq S
  BY <1>1, <1>2, TicketSets
<1>4. Cardinality(T) <= Cardinality(S) /\ Cardinality(T) \in Nat /\ Cardinality(S) \in Nat
  BY <1>3, FS_Subset, FS_CardinalityType
<1>5. accepted[d] + Cardinality(S) <= 1 + blind[d]
  BY <1>2 DEF SendsCovered
<1>6. accepted'[d] + Cardinality(T) <= 1 + blind'[d]
  BY <1>4, <1>5
<1> QED BY <1>2, <1>6 DEF SendsCovered

\* A ticket of a run that did not step is an old one.
LEMMA OldTicket ==
  ASSUME NEW v \in Workers, NEW w \in Workers, NEW d, v # w, run'[v] = run[v],
         row'.claim \in {row.claim, NoWorker, w}, Ticket(v, d)'
  PROVE  Ticket(v, d)
<1>1. row'.claim = v => row.claim = v
  BY WorkersAssumption
<1> QED BY <1>1 DEF Ticket

\* The other runs, when w steps.
LEMMA OthersKept ==
  ASSUME IInv, NEW w \in Workers,
         \A v \in Workers \ {w} : run'[v] = run[v],
         Kept(accepted, accepted'),
         row.status = "sent" => row'.status = "sent",
         RunInv(w)'
  PROVE  \A v \in Workers : RunInv(v)'
<1> SUFFICES ASSUME NEW v \in Workers PROVE RunInv(v)'
  OBVIOUS
<1>1. CASE v = w
  BY <1>1
<1>2. CASE v # w
  <2>1. RunInv(v) /\ run[v] \in RunType /\ run'[v] = run[v]
    BY <1>2 DEF IInv, TypeOK
  <2> QED BY <2>1, RunKept
<1> QED BY <1>1, <1>2

\* The sends, when w steps without one and gets no ticket.
LEMMA SendsKept ==
  ASSUME IInv, NEW w \in Workers,
         \A v \in Workers \ {w} : run'[v] = run[v],
         accepted' = accepted, blind' = blind,
         row'.claim \in {row.claim, NoWorker, w},
         \A d \in Dests : Ticket(w, d)' => Ticket(w, d)
  PROVE  \A d \in Dests : SendsCovered(d)'
<1> SUFFICES ASSUME NEW d \in Dests PROVE SendsCovered(d)'
  OBVIOUS
<1>1. SendsCovered(d) /\ accepted[d] \in Nat /\ blind[d] \in Nat
  BY DEF IInv, TypeOK
<1>2. \A v \in Workers : Ticket(v, d)' => Ticket(v, d)
  BY OldTicket
<1>3. accepted'[d] = accepted[d] /\ blind'[d] = blind[d]
  OBVIOUS
<1> QED BY <1>1, <1>2, <1>3, CoverKept

\* The reports, when w steps and had none to make.
LEMMA ReportsKept ==
  ASSUME IInv, NEW w \in Workers,
         \A v \in Workers \ {w} : run'[v] = run[v],
         run[w].pc # "report",
         incident # "none" => incident' # "none",
         died => died', late => late',
         row'.status = "blocked" /\ row'.maxed => row.status = "blocked" /\ row.maxed
  PROVE  BlockedIsReported'
<1> SUFFICES ASSUME row'.status = "blocked" /\ row'.maxed
             PROVE  \/ incident' # "none"
                    \/ \E v \in Workers : run'[v].pc = "report" /\ run'[v].say # "resolve"
                    \/ died'
                    \/ late'
  BY DEF BlockedIsReported
<1>1. \/ incident # "none"
      \/ \E v \in Workers : run[v].pc = "report" /\ run[v].say # "resolve"
      \/ died
      \/ late
  BY DEF IInv, BlockedIsReported
<1>2. \A v \in Workers : run[v].pc = "report" => run'[v] = run[v]
  OBVIOUS
<1> QED BY <1>1, <1>2

LEMMA Spent ==
  ASSUME TypeOK, NEW k, Spend(k)
  PROVE  left' \in 0 .. MaxDisturbances
BY DisturbancesAssumption DEF TypeOK, Spend

\* A ledger is its outcomes, its destinations and its states.
LEMMA SameLedger ==
  ASSUME NEW r, NEW s, NEW a, LedgerBacked(r, a),
         s.out = r.out, s.cur = r.cur, s.state = r.state
  PROVE  LedgerBacked(s, a)
BY DEF LedgerBacked

\* Only the row changes, and nobody gets a claim.
LEMMA RowStep ==
  ASSUME IInv, TypeOK', UNCHANGED <<log, run, accepted, blind>>,
         RowInv', ExcludedRowOwesNothing', BlockedIsReported',
         row.status = "sent" => row'.status = "sent",
         row'.claim \in {row.claim, NoWorker}
  PROVE  IInv'
<1>1. LogBacked(log, accepted)'
  BY DEF IInv
<1>2. ASSUME NEW v \in Workers PROVE RunInv(v)'
  <2>1. RunInv(v) /\ run[v] \in RunType /\ Kept(accepted, accepted')
    BY DEF IInv, TypeOK, Kept
  <2> QED BY <2>1, RunKept
<1>3. ASSUME NEW d \in Dests PROVE SendsCovered(d)'
  <2>1. SendsCovered(d) /\ accepted[d] \in Nat /\ blind[d] \in Nat
    BY DEF IInv, TypeOK
  <2>2. \A v \in Workers : Ticket(v, d)' => Ticket(v, d)
    BY WorkersAssumption DEF Ticket
  <2> QED BY <2>1, <2>2, CoverKept
<1> QED BY <1>1, <1>2, <1>3 DEF IInv

\* The run w ends, and with it its claim or another's.
LEMMA RunEnds ==
  ASSUME IInv, TypeOK', UNCHANGED <<log, accepted, blind>>,
         NEW w \in Workers, run' = [run EXCEPT ![w] = IdleRun],
         RowInv', ExcludedRowOwesNothing', BlockedIsReported',
         row.status = "sent" => row'.status = "sent",
         row'.claim \in {row.claim, NoWorker}
  PROVE  IInv'
<1>1. LogBacked(log, accepted)'
  BY DEF IInv
<1>2. run'[w] = IdleRun /\ \A v \in Workers \ {w} : run'[v] = run[v]
  BY DEF IInv, TypeOK
<1>3. RunInv(w)' /\ \A d : ~Ticket(w, d)'
  BY <1>2, RunIdle
<1>4. Kept(accepted, accepted')
  BY DEF Kept
<1>5. \A v \in Workers : RunInv(v)'
  BY <1>2, <1>3, <1>4, OthersKept
<1>6. \A d \in Dests : SendsCovered(d)'
  BY <1>2, <1>3, SendsKept
<1> QED BY <1>1, <1>5, <1>6 DEF IInv

(***************************************************************************)
(* Discovery, people, and the world                                        *)
(***************************************************************************)

LEMMA InitHolds ==
  Init => IInv
<1> SUFFICES ASSUME Init PROVE IInv
  OBVIOUS
<1>1. TypeOK
  <2>1. row \in RowType /\ log \in LogType /\ run \in [Workers -> RunType] /\ live \in SUBSET Dests
    BY Constants DEF Init
  <2>2. retired \in BOOLEAN /\ discarded \in BOOLEAN /\ died \in BOOLEAN /\ late \in BOOLEAN
    BY Zenon DEF Init
  <2>3. /\ left \in 0 .. MaxDisturbances /\ incident \in {"none", "warning", "blocked"}
        /\ accepted \in [Dests -> Nat] /\ blind \in [Dests -> Nat]
        /\ window \in Windows /\ clearing \in Nat
    BY DisturbancesAssumption DEF Init, Windows
  <2> QED BY <2>1, <2>2, <2>3 DEF TypeOK
<1>2. LogBacked(log, accepted) /\ LedgerBacked(row, accepted)
  BY Constants DEF Init
<1>3. RowInv
  BY <1>2 DEF Init, RowInv, AbsentRow
<1>4. ASSUME NEW w \in Workers PROVE RunInv(w)
  <2>1. run[w] = IdleRun /\ run[w].pc = "idle"
    BY DEF Init, IdleRun
  <2> QED BY <2>1, Constants DEF RunInv
<1>5. ASSUME NEW d \in Dests PROVE SendsCovered(d)
  <2>1. \A w \in Workers : run[w].pc = "idle"
    BY DEF Init, IdleRun
  <2>2. Tickets(d) = {}
    BY <2>1 DEF Tickets, Ticket
  <2> QED BY <2>2, FS_EmptySet DEF Init, SendsCovered
<1>6. ExcludedRowOwesNothing /\ BlockedIsReported
  BY DEF Init, AbsentRow, ExcludedRowOwesNothing, BlockedIsReported
<1> QED BY <1>1, <1>2, <1>3, <1>4, <1>5, <1>6 DEF IInv

\* The environment leaves the row, the log and the runs alone.
LEMMA Environment ==
  ASSUME IInv, UNCHANGED <<row, log, run, incident, late, accepted, blind, discarded, died>>,
         live' \in SUBSET Dests, retired' \in BOOLEAN, left' \in 0 .. MaxDisturbances,
         window' \in Windows, clearing' \in Nat
  PROVE  IInv'
<1>1. TypeOK'
  BY DEF IInv, TypeOK
<1>2. RowInv'
  BY DEF IInv, RowInv
<1>3. ExcludedRowOwesNothing' /\ BlockedIsReported'
  BY DEF IInv, ExcludedRowOwesNothing, BlockedIsReported
<1> QED BY <1>1, <1>2, <1>3, RowStep

\* An alert is queued for the destinations D.
LEMMA Queued ==
  ASSUME IInv, NEW D \in SUBSET Dests, row.status = "absent",
         row' = [AbsentRow EXCEPT !.status = "pending", !.retry = ChannelsOf(D)],
         window' \in Windows,
         UNCHANGED <<log, run, live, retired, clearing, left, died, incident, late, accepted, blind,
                     discarded>>
  PROVE  IInv'
<1> DEFINE n == [AbsentRow EXCEPT !.status = "pending", !.retry = ChannelsOf(D)]
<1>1. row' = n
  OBVIOUS
<1>2. n \in RowType
  BY Constants, ChannelSets DEF RowType, OpenStatuses
<1>3. /\ n.status = "pending" /\ n.claim = NoWorker /\ n.required = {} /\ ~n.maxed
      /\ n.out = AbsentRow.out /\ n.cur = AbsentRow.cur /\ n.state = AbsentRow.state
  BY DEF AbsentRow
<1> HIDE DEF n
<1>4. TypeOK'
  BY <1>1, <1>2 DEF IInv, TypeOK
<1>5. RowInv'
  <2>1. PICK a : a = accepted'
    OBVIOUS
  <2>2. LedgerBacked(AbsentRow, a)
    BY Constants
  <2>3. LedgerBacked(n, a)
    BY <1>3, <2>2, SameLedger
  <2> QED BY <1>1, <1>3, <2>1, <2>3 DEF RowInv
<1>6. ExcludedRowOwesNothing' /\ BlockedIsReported'
  BY <1>1, <1>3 DEF ExcludedRowOwesNothing, BlockedIsReported
<1> QED BY <1>1, <1>3, <1>4, <1>5, <1>6, RowStep

LEMMA queueAlertStep ==
  ASSUME IInv, queueAlert
  PROVE  IInv'
<1>1. live \in SUBSET Dests
  BY DEF IInv, TypeOK
<1> QED BY <1>1, Queued DEF queueAlert, notices, Windows

LEMMA queueCertRenewalFailedAlertStep ==
  ASSUME IInv, queueCertRenewalFailedAlert
  PROVE  IInv'
<1>1. PICK D \in SUBSET Dests : D = audience("renewal", live)
  BY DEF IInv, TypeOK, audience
<1> QED BY <1>1, Queued DEF queueCertRenewalFailedAlert, notices, Windows

\* The second statement of a retry: if it closes the incident of a later block,
\* that is what `late` says.
LEMMA resolveRequeuedNotificationsStep ==
  ASSUME IInv, resolveRequeuedNotifications
  PROVE  IInv'
<1>1. UNCHANGED <<row, log, run, live, retired, window, left, died, accepted, blind, discarded>>
  BY DEF resolveRequeuedNotifications
<1>2. clearing' \in Nat
  BY DEF IInv, TypeOK, resolveRequeuedNotifications
<1>3. /\ incident' \in {"none", incident} /\ (late => late')
      /\ row.status = "blocked" /\ incident # "none" => incident' = incident \/ late'
  <2>1. CASE UNCHANGED <<incident, late>>
    BY <2>1
  <2>2. CASE incident' = "none" /\ late' = (late \/ (row.status = "blocked" /\ incident # "none"))
    BY <2>2
  <2> QED BY <2>1, <2>2 DEF resolveRequeuedNotifications, notices
<1>4. late' \in BOOLEAN
  <2>1. late \in BOOLEAN
    BY DEF IInv, TypeOK
  <2> QED BY <2>1, Zenon DEF resolveRequeuedNotifications, notices
<1>5. TypeOK'
  BY <1>1, <1>2, <1>3, <1>4 DEF IInv, TypeOK
<1>6. RowInv' /\ ExcludedRowOwesNothing'
  BY <1>1 DEF IInv, RowInv, ExcludedRowOwesNothing
<1>7. BlockedIsReported'
  BY <1>1, <1>3 DEF IInv, BlockedIsReported
<1> QED BY <1>1, <1>5, <1>6, <1>7, RowStep

\* The retirement closes the row, and says so in `discarded`.
LEMMA retireCertificateStep ==
  ASSUME IInv, retireCertificate
  PROVE  IInv'
<1>1. left' \in 0 .. MaxDisturbances
  BY Spent DEF IInv, retireCertificate
<1>2. retired' \in BOOLEAN
  <2>1. retired' = TRUE
    BY DEF retireCertificate
  <2> QED BY <2>1, Zenon
<1>3. UNCHANGED <<log, run, live, window, clearing, late, accepted, blind, died>>
  BY DEF retireCertificate
<1>4. CASE row.status \in OpenStatuses \cup {"blocked"}
  <2>1. PICK q \in RowType : q = row /\ LedgerBacked(q, accepted) /\ (~q.ledger => q.required = {})
    BY DEF IInv, TypeOK, RowInv
  <2> DEFINE n == [q EXCEPT !.status = "sent", !.maxed = FALSE, !.wait = FALSE, !.claim = NoWorker]
  <2>2. row' = n /\ incident' = "none" /\ discarded' = TRUE
    BY <1>4, <2>1 DEF retireCertificate
  <2>3. n \in RowType
    BY DEF RowType
  <2>4. /\ n.status = "sent" /\ n.claim = NoWorker /\ n.required = q.required /\ ~n.maxed
        /\ n.ledger = q.ledger /\ n.out = q.out /\ n.cur = q.cur /\ n.state = q.state
    BY DEF RowType
  <2> HIDE DEF n
  <2>5. discarded' \in BOOLEAN
    BY <2>2, Zenon
  <2>6. LedgerBacked(n, accepted)
    BY <2>1, <2>4, SameLedger
  <2>7. TypeOK'
    BY <1>1, <1>2, <1>3, <2>2, <2>3, <2>5 DEF IInv, TypeOK
  <2>8. RowInv'
    BY <1>3, <2>1, <2>2, <2>4, <2>6 DEF RowInv
  <2>9. ExcludedRowOwesNothing' /\ BlockedIsReported'
    BY <2>2, <2>4 DEF ExcludedRowOwesNothing, BlockedIsReported
  <2> QED BY <1>3, <2>2, <2>4, <2>7, <2>8, <2>9, RowStep
<1>5. CASE row.status \notin OpenStatuses \cup {"blocked"}
  <2>1. UNCHANGED <<row, incident, discarded>>
    BY <1>5 DEF retireCertificate
  <2>2. live' \in SUBSET Dests /\ window' \in Windows /\ clearing' \in Nat
    BY <1>3 DEF IInv, TypeOK
  <2> QED BY <1>1, <1>2, <1>3, <2>1, <2>2, Environment
<1> QED BY <1>4, <1>5

LEMMA nextAttemptDueStep ==
  ASSUME IInv, nextAttemptDue
  PROVE  IInv'
<1>1. PICK q \in RowType : q = row
  BY DEF IInv, TypeOK
<1> DEFINE n == [q EXCEPT !.wait = FALSE]
<1>2. row' = n
  BY <1>1 DEF nextAttemptDue, outside, notices
<1>3. n \in RowType
  BY DEF RowType
<1>4. /\ n.status = q.status /\ n.claim = q.claim /\ n.required = q.required
      /\ n.maxed = q.maxed /\ n.retry = q.retry /\ n.ledger = q.ledger
      /\ n.out = q.out /\ n.cur = q.cur /\ n.state = q.state
  BY DEF RowType
<1> HIDE DEF n
<1>5. left' \in 0 .. MaxDisturbances
  BY Spent DEF IInv, TypeOK, nextAttemptDue, outside, notices
<1>6. TypeOK'
  BY <1>2, <1>3, <1>5 DEF IInv, TypeOK, nextAttemptDue, outside, notices
<1>7. RowInv'
  <2>1. LedgerBacked(q, accepted)
    BY <1>1 DEF IInv, RowInv
  <2>2. LedgerBacked(n, accepted)
    BY <1>4, <2>1, SameLedger
  <2>3. accepted' = accepted /\ discarded' = discarded
    BY DEF nextAttemptDue, outside, notices
  <2>4. /\ ~q.ledger => q.required = {}
        /\ q.maxed => q.status = "blocked"
        /\ q.status = "sent" => /\ q.claim = NoWorker
                                /\ ~discarded => \A c \in q.required : q.state[c] = "sent"
    BY <1>1 DEF IInv, RowInv
  <2> QED BY <1>2, <1>4, <2>2, <2>3, <2>4 DEF RowInv
<1>8. ExcludedRowOwesNothing'
  BY <1>1, <1>2, <1>4 DEF IInv, ExcludedRowOwesNothing
<1>9. BlockedIsReported'
  BY <1>1, <1>2, <1>4 DEF IInv, BlockedIsReported, nextAttemptDue, outside, notices
<1> QED BY <1>1, <1>2, <1>4, <1>6, <1>7, <1>8, <1>9, RowStep DEF nextAttemptDue, outside, notices

\* The row keeps all that the invariant is about.
LEMMA SameRow ==
  ASSUME IInv, Kept(accepted, accepted'), discarded' = discarded,
         row'.status = row.status, row'.ledger = row.ledger, row'.maxed = row.maxed,
         row'.retry = row.retry, row'.required = row.required,
         row'.state = row.state, row'.out = row.out, row'.cur = row.cur,
         row.status = "sent" => row'.claim = row.claim
  PROVE  RowInv' /\ ExcludedRowOwesNothing'
<1>1. PICK q, n, a, b : q = row /\ n = row' /\ a = accepted /\ b = accepted'
  OBVIOUS
<1>2. LedgerBacked(q, a)
  BY <1>1 DEF IInv, RowInv
<1>3. LedgerBacked(q, b)
  BY <1>1, <1>2, LedgerKept
<1>4. LedgerBacked(n, b)
  BY <1>1, <1>3, SameLedger
<1>5. LedgerBacked(row, accepted)'
  BY <1>1, <1>4
<1>6. RowInv'
  BY <1>5 DEF IInv, RowInv
<1>7. ExcludedRowOwesNothing'
  BY DEF IInv, ExcludedRowOwesNothing
<1> QED BY <1>6, <1>7

\* The assertion before a send renews the marker.
LEMMA HeartBeat ==
  ASSUME IInv, Kept(accepted, accepted'), discarded' = discarded,
         NEW w \in Workers, assertStillOwnsDelivery(w)
  PROVE  /\ row' \in RowType /\ RowInv' /\ ExcludedRowOwesNothing'
         /\ row'.claim = row.claim /\ row'.status = row.status /\ row'.maxed = row.maxed
         /\ row.claim = w /\ row.status \in OpenStatuses
<1>1. PICK q \in RowType : q = row
  BY DEF IInv, TypeOK
<1> DEFINE n == [q EXCEPT !.wait = TRUE]
<1>2. row' = n /\ row.claim = w /\ row.status \in OpenStatuses
  BY <1>1 DEF assertStillOwnsDelivery, Owns
<1>3. n \in RowType
  BY DEF RowType
<1>4. /\ n.status = q.status /\ n.claim = q.claim /\ n.required = q.required
      /\ n.maxed = q.maxed /\ n.retry = q.retry /\ n.ledger = q.ledger
      /\ n.out = q.out /\ n.cur = q.cur /\ n.state = q.state
  BY DEF RowType
<1> HIDE DEF n
<1> QED BY <1>1, <1>2, <1>3, <1>4, SameRow

\* An open row was not closed for its attempts.
LEMMA OpenRow ==
  ASSUME IInv, row.status \in OpenStatuses
  PROVE  ~row.maxed /\ row.status # "sent" /\ row.status # "blocked"
BY DEF IInv, RowInv, OpenStatuses

\* A run that holds the row gives it back: q is the row, n the row after.
LEMMA Released ==
  ASSUME IInv, NEW w \in Workers, NEW q \in RowType, NEW n \in RowType, q = row,
         run[w].pc = "claimed", Owns(w), row' = n, run' = [run EXCEPT ![w] = IdleRun],
         UNCHANGED <<log, accepted, blind, live, retired, window, clearing, late, died>>,
         left' \in 0 .. MaxDisturbances, discarded' \in BOOLEAN,
         incident' \in {incident, "warning"},
         n.claim = NoWorker, ~n.maxed,
         LedgerBacked(n, accepted),
         ~n.ledger => n.required = {},
         n.status = "sent" /\ ~discarded' => \A c \in n.required : n.state[c] = "sent",
         n.status = "partial" /\ n.retry = {} => \A c \in n.required : n.state[c] \notin Retryable
  PROVE  IInv'
<1>1. TypeOK'
  BY Constants DEF IInv, TypeOK
<1>2. RowInv'
  BY DEF RowInv
<1>3. ExcludedRowOwesNothing' /\ BlockedIsReported'
  BY DEF ExcludedRowOwesNothing, BlockedIsReported
<1>4. row.status # "sent"
  BY OpenRow DEF Owns
<1> QED BY <1>1, <1>2, <1>3, <1>4, RunEnds

\* What is known of the row when it is given back.
LEMMA HeldRow ==
  ASSUME IInv, NEW w \in Workers, Owns(w)
  PROVE  \E q \in RowType :
           /\ q = row /\ ~q.maxed
           /\ q.status \in OpenStatuses
           /\ LedgerBacked(q, accepted)
           /\ ~q.ledger => q.required = {}
           /\ q.status = "partial" /\ q.retry = {} => \A c \in q.required : q.state[c] \notin Retryable
BY OpenRow DEF IInv, TypeOK, RowInv, ExcludedRowOwesNothing, Owns

LEMMA discardRetiredStep ==
  ASSUME IInv, NEW w \in Workers, discardRetired(w)
  PROVE  IInv'
<1>1. Owns(w) /\ run[w].pc = "claimed"
  BY DEF discardRetired, Release
<1>2. PICK q \in RowType :
           /\ q = row /\ ~q.maxed
           /\ LedgerBacked(q, accepted)
           /\ ~q.ledger => q.required = {}
  BY <1>1, HeldRow
<1> DEFINE n == [[q EXCEPT !.status = "sent", !.wait = FALSE] EXCEPT !.claim = NoWorker]
<1>3. row' = n
  BY <1>2 DEF discardRetired, Release
<1>4. n \in RowType
  BY DEF RowType
<1>5. /\ n.status = "sent" /\ n.claim = NoWorker /\ n.required = q.required
      /\ n.maxed = q.maxed /\ n.ledger = q.ledger
      /\ n.out = q.out /\ n.cur = q.cur /\ n.state = q.state
  BY DEF RowType
<1> HIDE DEF n
<1>6. LedgerBacked(n, accepted)
  BY <1>2, <1>5, SameLedger
<1>7. discarded' = TRUE
  BY DEF discardRetired
<1>8. discarded' \in BOOLEAN
  BY <1>7, Zenon
<1>9. /\ run' = [run EXCEPT ![w] = IdleRun]
      /\ UNCHANGED <<log, accepted, blind, live, retired, window, clearing, late, died>>
      /\ left' \in 0 .. MaxDisturbances /\ incident' \in {incident, "warning"}
  BY DEF discardRetired, Release, environment, outside, notices, IInv, TypeOK
<1> QED BY <1>1, <1>2, <1>3, <1>4, <1>5, <1>6, <1>7, <1>8, <1>9, Released

LEMMA deferDeliveryStep ==
  ASSUME IInv, NEW w \in Workers, deferDelivery(w)
  PROVE  IInv'
<1>1. Owns(w) /\ run[w].pc = "claimed"
  BY DEF deferDelivery, Release
<1>2. PICK q \in RowType :
           /\ q = row /\ ~q.maxed
           /\ q.status \in OpenStatuses
           /\ LedgerBacked(q, accepted)
           /\ ~q.ledger => q.required = {}
           /\ q.status = "partial" /\ q.retry = {} => \A c \in q.required : q.state[c] \notin Retryable
  BY <1>1, HeldRow
<1>3. PICK s \in OpenStatuses, u \in BOOLEAN :
        /\ s \in {q.status, "pending"}
        /\ row' = [[q EXCEPT !.status = s, !.wait = u] EXCEPT !.claim = NoWorker]
  <2>1. "pending" \in OpenStatuses /\ [q EXCEPT !.status = q.status, !.wait = FALSE] = [q EXCEPT !.wait = FALSE]
    BY DEF OpenStatuses, RowType
  <2>2. CASE row' = [[q EXCEPT !.wait = FALSE] EXCEPT !.claim = NoWorker]
    <3>1. q.status \in OpenStatuses /\ FALSE \in BOOLEAN
          /\ row' = [[q EXCEPT !.status = q.status, !.wait = FALSE] EXCEPT !.claim = NoWorker]
      BY <1>2, <2>1, <2>2
    <3> QED BY <3>1
  <2>3. CASE row' = [[q EXCEPT !.status = "pending", !.wait = TRUE] EXCEPT !.claim = NoWorker]
    BY <2>1, <2>3
  <2> QED BY <1>2, <2>2, <2>3 DEF deferDelivery, Release
<1> DEFINE n == [[q EXCEPT !.status = s, !.wait = u] EXCEPT !.claim = NoWorker]
<1>4. n \in RowType
  BY DEF RowType
<1>5. /\ n.status = s /\ n.claim = NoWorker /\ n.required = q.required
      /\ n.maxed = q.maxed /\ n.ledger = q.ledger /\ n.retry = q.retry
      /\ n.out = q.out /\ n.cur = q.cur /\ n.state = q.state
  BY DEF RowType
<1>6. row' = n
  BY <1>3
<1> HIDE DEF n
<1>7. LedgerBacked(n, accepted)
  BY <1>2, <1>5, SameLedger
<1>8. left' \in 0 .. MaxDisturbances
  BY Spent DEF deferDelivery, IInv
<1>9. /\ run' = [run EXCEPT ![w] = IdleRun]
      /\ UNCHANGED <<log, accepted, blind, live, retired, window, clearing, late, died>>
      /\ discarded' \in BOOLEAN /\ incident' \in {incident, "warning"}
  BY DEF deferDelivery, Release, environment, outside, notices, IInv, TypeOK
<1>10. n.status # "sent" /\ (n.status = "partial" => q.status = "partial")
  BY <1>3, <1>5 DEF OpenStatuses
<1> QED BY <1>1, <1>2, <1>4, <1>5, <1>6, <1>7, <1>8, <1>9, <1>10, Released

LEMMA noRetryLeftStep ==
  ASSUME IInv, NEW w \in Workers, noRetryLeft(w)
  PROVE  IInv'
<1>1. Owns(w) /\ run[w].pc = "claimed"
  BY DEF noRetryLeft, Release
<1>2. PICK q \in RowType :
           /\ q = row /\ ~q.maxed
           /\ q.status \in OpenStatuses
           /\ LedgerBacked(q, accepted)
           /\ ~q.ledger => q.required = {}
           /\ q.status = "partial" /\ q.retry = {} => \A c \in q.required : q.state[c] \notin Retryable
  BY <1>1, HeldRow
<1>3. PICK s : s = IF q.status = "partial" THEN q.status ELSE "blocked"
  OBVIOUS
<1> DEFINE n == [[q EXCEPT !.status = s, !.wait = FALSE] EXCEPT !.claim = NoWorker]
<1>4. s \in {"partial", "blocked"} /\ (s = "partial" => q.status = "partial")
  BY <1>3
<1>5. row' = n
  BY <1>2, <1>3 DEF noRetryLeft, Release
<1>6. n \in RowType
  BY <1>4 DEF RowType, OpenStatuses
<1>7. /\ n.status = s /\ n.claim = NoWorker /\ n.required = q.required
      /\ n.maxed = q.maxed /\ n.ledger = q.ledger /\ n.retry = q.retry
      /\ n.out = q.out /\ n.cur = q.cur /\ n.state = q.state
  BY DEF RowType
<1> HIDE DEF n
<1>8. LedgerBacked(n, accepted)
  BY <1>2, <1>7, SameLedger
<1>9. /\ run' = [run EXCEPT ![w] = IdleRun]
      /\ UNCHANGED <<log, accepted, blind, live, retired, window, clearing, late, died>>
      /\ left' \in 0 .. MaxDisturbances
      /\ discarded' \in BOOLEAN /\ incident' \in {incident, "warning"}
  BY DEF noRetryLeft, Release, environment, outside, notices, IInv, TypeOK
<1> QED BY <1>1, <1>2, <1>4, <1>5, <1>6, <1>7, <1>8, <1>9, Released

\* The status of a settlement, and what it leaves to retry.
LEMMA Disposition ==
  ASSUME NEW state \in [ALLCHANNELS -> ChannelStates], NEW required \in SUBSET ALLCHANNELS
  PROVE  /\ deliveryDisposition(state, required) \in {"sent", "partial", "blocked", "failed"}
         /\ deliveryDisposition(state, required) = "sent" => \A c \in required : state[c] = "sent"
         /\ toRetry(state, required) \in SUBSET ALLCHANNELS
         /\ toRetry(state, required) = {} => \A c \in required : state[c] \notin Retryable
<1> DEFINE states == {state[c] : c \in required}
<1>1. deliveryDisposition(state, required) \in {"sent", "partial", "blocked", "failed"}
  BY DEF deliveryDisposition
<1>2. ASSUME deliveryDisposition(state, required) = "sent" PROVE \A c \in required : state[c] = "sent"
  <2>1. states \subseteq {"sent"}
    BY <1>2 DEF deliveryDisposition
  <2> QED BY <2>1
<1>3. /\ toRetry(state, required) \in SUBSET ALLCHANNELS
      /\ toRetry(state, required) = {} => \A c \in required : state[c] \notin Retryable
  BY DEF toRetry
<1> QED BY <1>1, <1>2, <1>3

LEMMA noContactsStep ==
  ASSUME IInv, NEW w \in Workers, NEW prior \in {log, EmptyLog}, noContacts(w, prior)
  PROVE  IInv'
<1>1. PICK p \in RunType : p = run[w]
  BY DEF IInv, TypeOK
<1>2. PICK l \in LogType : l = prior /\ LogBacked(l, accepted)
  BY Constants DEF IInv, TypeOK
<1>3. PICK r \in RunType : r = [p EXCEPT !.prior = l] /\ r.snap = p.snap /\ r.prior = l
                           /\ r.res = p.res /\ r.live = p.live
  <2> DEFINE r == [p EXCEPT !.prior = l]
  <2>1. r \in RunType
    BY DEF RunType
  <2>2. r.snap = p.snap /\ r.prior = l /\ r.res = p.res /\ r.live = p.live
    BY DEF RunType
  <2> QED BY <2>1, <2>2
<1> DEFINE ledger == mergeDeliveryAttempt(r, {})
           required == IF r.live # {} THEN ChannelsOf(r.live)
                       ELSE {c \in ALLCHANNELS : ledger.state[c] # "none"}
<1>4. /\ ledger.out \in [Dests -> DestStates]
      /\ ledger.cur \in SUBSET Dests
      /\ ledger.state \in [ALLCHANNELS -> ChannelStates]
      /\ LedgerBacked(ledger, accepted)
  <2>1. LedgerBacked(r.snap, accepted) /\ LogBacked(r.prior, accepted) /\ Backed(r.res, accepted)
    BY <1>1, <1>2, <1>3 DEF IInv, RunInv
  <2>2. {} \in SUBSET ChannelsOf(r.live)
    OBVIOUS
  <2> QED BY <2>1, <2>2, Merge
<1>5. required \in SUBSET ALLCHANNELS
  <2>1. r.live \in SUBSET Dests
    BY DEF RunType
  <2> QED BY <2>1, ChannelSets
<1>6. Owns(w) /\ run[w].pc = "claimed"
  BY DEF noContacts, Release
<1>7. PICK q \in RowType :
           /\ q = row /\ ~q.maxed
           /\ q.status \in OpenStatuses
           /\ LedgerBacked(q, accepted)
           /\ ~q.ledger => q.required = {}
  BY <1>6, HeldRow
<1>8. /\ run' = [run EXCEPT ![w] = IdleRun]
      /\ UNCHANGED <<log, accepted, blind, live, retired, window, clearing, late, died>>
      /\ left' \in 0 .. MaxDisturbances
      /\ discarded' \in BOOLEAN /\ incident' \in {incident, "warning"}
  BY Spent DEF noContacts, Release, priorDeliveryRows, environment, outside, notices, IInv, TypeOK
<1> DEFINE n == [[q EXCEPT !.status = "failed", !.tried = TRUE, !.wait = FALSE]
                   EXCEPT !.claim = NoWorker]
           s == deliveryDisposition(ledger.state, required)
           m == [[q EXCEPT
                  !.status = s, !.tried = TRUE,
                  !.ledger = TRUE, !.state = ledger.state, !.out = ledger.out,
                  !.cur = ledger.cur, !.required = required,
                  !.retry = toRetry(ledger.state, required), !.wait = FALSE]
                   EXCEPT !.claim = NoWorker]
<1>9. row' = n \/ row' = m
  <2>1. [run[w] EXCEPT !.prior = prior] = r
    BY <1>1, <1>2, <1>3
  <2> DEFINE R == [run[w] EXCEPT !.prior = prior]
             L == mergeDeliveryAttempt(R, {})
             Q == IF R.live # {} THEN ChannelsOf(R.live)
                  ELSE {c \in ALLCHANNELS : L.state[c] # "none"}
             new == [row EXCEPT !.status = deliveryDisposition(L.state, Q), !.tried = TRUE,
                                !.ledger = TRUE, !.state = L.state, !.out = L.out,
                                !.cur = L.cur, !.required = Q,
                                !.retry = toRetry(L.state, Q), !.wait = FALSE]
             none == [row EXCEPT !.status = "failed", !.tried = TRUE, !.wait = FALSE]
  <2>2. Release(w, none) \/ Release(w, new)
    BY DEF noContacts
  <2>3. L = ledger
    BY <2>1
  <2>4. Q = required
    <3>1. R = r
      BY <2>1
    <3> HIDE DEF L, ledger, R
    <3> QED BY <3>1, <2>3
  <2>5. [new EXCEPT !.claim = NoWorker] = m
    <3> HIDE DEF L, ledger, Q, required
    <3>1. row = q
      BY <1>7
    <3> QED BY <3>1, <2>3, <2>4, Zenon
  <2>6. [none EXCEPT !.claim = NoWorker] = n
    BY <1>7
  <2> HIDE DEF new, none, n, m
  <2> QED BY <2>2, <2>5, <2>6 DEF Release
<1>10. CASE row' = n
  <2>1. n \in RowType
    BY DEF RowType, OpenStatuses
  <2>2. /\ n.status = "failed" /\ n.claim = NoWorker /\ n.required = q.required
        /\ n.maxed = q.maxed /\ n.ledger = q.ledger
        /\ n.out = q.out /\ n.cur = q.cur /\ n.state = q.state
    BY DEF RowType
  <2> HIDE DEF n
  <2>3. LedgerBacked(n, accepted)
    BY <1>7, <2>2, SameLedger
  <2> QED BY <1>6, <1>7, <1>8, <1>10, <2>1, <2>2, <2>3, Released
<1>11. CASE row' = m
  <2> HIDE DEF ledger, required
  <2> DEFINE o == ledger.out
             u == ledger.cur
             t == ledger.state
             y == toRetry(t, required)
  <2>1. /\ s \in {"sent", "partial", "blocked", "failed"}
        /\ s = "sent" => \A c \in required : t[c] = "sent"
        /\ y \in SUBSET ALLCHANNELS
        /\ y = {} => \A c \in required : t[c] \notin Retryable
    BY <1>4, <1>5, Disposition
  <2>2. /\ o \in [Dests -> DestStates] /\ u \in SUBSET Dests
        /\ t \in [ALLCHANNELS -> ChannelStates]
    BY <1>4
  <2>3. m = [[q EXCEPT !.status = s, !.tried = TRUE, !.ledger = TRUE, !.state = t, !.out = o,
                       !.cur = u, !.required = required, !.retry = y, !.wait = FALSE]
               EXCEPT !.claim = NoWorker]
    OBVIOUS
  <2> HIDE DEF s, t, o, u, y, m
  <2>4. m \in RowType
    BY <1>5, <2>1, <2>2, <2>3 DEF RowType, OpenStatuses
  <2>5. /\ m.status = s /\ m.claim = NoWorker /\ m.required = required /\ m.retry = y
        /\ m.maxed = q.maxed /\ m.ledger = TRUE
        /\ m.out = o /\ m.cur = u /\ m.state = t
    BY <2>3 DEF RowType
  <2>6. LedgerBacked(m, accepted)
    BY <1>4, <2>5, SameLedger DEF o, u, t
  <2> QED BY <1>6, <1>7, <1>8, <1>11, <2>1, <2>4, <2>5, <2>6, Released
<1> QED BY <1>9, <1>10, <1>11

LEMMA reconcileDeliveryChannelsStep ==
  ASSUME IInv, reconcileDeliveryChannels
  PROVE  IInv'
<1>1. PICK q \in RowType : q = row /\ ~q.maxed /\ q.status \in OpenStatuses
                           /\ LedgerBacked(q, accepted)
                           /\ (~q.ledger => q.required = {})
  BY OpenRow DEF IInv, TypeOK, RowInv, reconcileDeliveryChannels
<1>2. PICK now \in SUBSET ALLCHANNELS : now = ChannelsOf(live)
  BY ChannelSets DEF IInv, TypeOK
<1>3. PICK kept \in [ALLCHANNELS -> ChannelStates] :
        kept = [c \in ALLCHANNELS |-> IF c \in now THEN q.state[c] ELSE "none"]
  BY DEF RowType, ChannelStates
<1>4. PICK y \in SUBSET ALLCHANNELS :
        y = IF q.retry = {} THEN now ELSE IF q.retry \cap now # {} THEN q.retry \cap now ELSE q.retry
  BY DEF RowType
<1>5. PICK u \in SUBSET Dests : u = {d \in q.cur : Channel[d] \in now}
  BY DEF RowType
<1>6. PICK z \in SUBSET ALLCHANNELS :
        z = toRetry(kept, now) /\ (z = {} => \A c \in now : kept[c] \notin Retryable)
  BY Disposition
<1>o. PICK o \in [Dests -> DestStates] :
        /\ o = [d \in Dests |-> IF Channel[d] \in now THEN q.out[d] ELSE "none"]
        /\ Backed(o, accepted)
  <2> DEFINE o == [d \in Dests |-> IF Channel[d] \in now THEN q.out[d] ELSE "none"]
  <2>1. o \in [Dests -> DestStates]
    BY DEF RowType, DestStates
  <2>2. Backed(o, accepted)
    BY <1>1 DEF LedgerBacked, Backed
  <2> QED BY <2>1, <2>2
<1>g. PICK g \in Nat : g = IF "webhooks" \in now THEN q.gen ELSE 0
  BY DEF RowType
<1> DEFINE legacy == [q EXCEPT !.retry = y]
           ledger == [q EXCEPT !.retry = z, !.required = now, !.state = kept, !.out = o,
                               !.cur = u, !.gen = g]
<1>7. row' = IF q.ledger THEN ledger ELSE legacy
  BY <1>1, <1>2, <1>3, <1>4, <1>5, <1>6, <1>o, <1>g DEF reconcileDeliveryChannels
<1>8. UNCHANGED <<log, run, live, retired, window, clearing, left, died, incident, late, accepted, blind, discarded>>
  BY DEF reconcileDeliveryChannels, environment, outside, notices
<1>9. /\ legacy \in RowType /\ ledger \in RowType
      /\ legacy.status = q.status /\ legacy.claim = q.claim /\ legacy.required = q.required
      /\ legacy.maxed = q.maxed /\ legacy.ledger = q.ledger
      /\ legacy.out = q.out /\ legacy.cur = q.cur /\ legacy.state = q.state
      /\ ledger.status = q.status /\ ledger.claim = q.claim /\ ledger.required = now
      /\ ledger.maxed = q.maxed /\ ledger.ledger = q.ledger /\ ledger.retry = z
      /\ ledger.out = o /\ ledger.cur = u /\ ledger.state = kept
  BY DEF RowType
<1> HIDE DEF legacy, ledger
<1>10. q.status \notin {"sent", "blocked"}
  BY <1>1 DEF OpenStatuses
<1>11. CASE ~q.ledger
  <2>1. row' = legacy
    BY <1>7, <1>11
  <2>2. LedgerBacked(legacy, accepted)
    BY <1>1, <1>9, SameLedger
  <2>3. TypeOK'
    BY <1>8, <1>9, <2>1 DEF IInv, TypeOK
  <2>4. RowInv'
    BY <1>1, <1>8, <1>9, <1>10, <1>11, <2>1, <2>2 DEF RowInv
  <2>5. ExcludedRowOwesNothing' /\ BlockedIsReported'
    BY <1>1, <1>9, <1>10, <1>11, <2>1 DEF ExcludedRowOwesNothing, BlockedIsReported
  <2> QED BY <1>1, <1>8, <1>9, <2>1, <2>3, <2>4, <2>5, RowStep
<1>12. CASE q.ledger
  <2>1. row' = ledger
    BY <1>7, <1>12
  <2>2. LedgerBacked(ledger, accepted)
    <3>1. ASSUME NEW c \in ALLCHANNELS, kept[c] = "sent" PROVE Reached(o, Of(c, u))
      <4>1. c \in now /\ q.state[c] = "sent"
        BY <1>3, <3>1
      <4>2. Reached(q.out, Of(c, q.cur))
        BY <1>1, <4>1 DEF LedgerBacked
      <4>3. Of(c, u) = Of(c, q.cur)
        BY <1>5, <4>1 DEF Of
      <4>4. \A d \in Of(c, u) : o[d] = q.out[d]
        BY <1>5, <1>o, <4>1 DEF Of
      <4> QED BY <4>2, <4>3, <4>4 DEF Reached
    <3> QED BY <1>o, <1>9, <3>1 DEF LedgerBacked
  <2>3. TypeOK'
    BY <1>8, <1>9, <2>1 DEF IInv, TypeOK
  <2>4. RowInv'
    BY <1>1, <1>8, <1>9, <1>10, <1>12, <2>1, <2>2 DEF RowInv
  <2>5. ExcludedRowOwesNothing' /\ BlockedIsReported'
    BY <1>1, <1>6, <1>9, <1>10, <2>1 DEF ExcludedRowOwesNothing, BlockedIsReported
  <2> QED BY <1>1, <1>8, <1>9, <2>1, <2>3, <2>4, <2>5, RowStep
<1> QED BY <1>11, <1>12

\* A ledger with channels taken back is sound.
LEMMA LedgerCut ==
  ASSUME NEW r, NEW s, NEW a, LedgerBacked(r, a), Backed(s.out, a),
         \A c \in ALLCHANNELS : s.state[c] = "sent" =>
            /\ r.state[c] = "sent" /\ Of(c, s.cur) = Of(c, r.cur)
            /\ \A d \in Of(c, r.cur) : s.out[d] = r.out[d]
  PROVE  LedgerBacked(s, a)
BY DEF LedgerBacked, Reached

\* A person opens the row again.
LEMMA Reopened ==
  ASSUME IInv, NEW n \in RowType, row' = n,
         n.status = "pending", ~n.maxed, ~n.ledger => n.required = {},
         n.claim \in {row.claim, NoWorker},
         LedgerBacked(n, accepted),
         row.status # "sent", left' \in 0 .. MaxDisturbances, clearing' \in Nat,
         UNCHANGED <<log, run, live, retired, window, incident, late, accepted, blind, discarded, died>>
  PROVE  IInv'
<1>1. TypeOK'
  BY DEF IInv, TypeOK
<1>2. RowInv'
  BY DEF RowInv
<1>3. ExcludedRowOwesNothing' /\ BlockedIsReported'
  BY DEF ExcludedRowOwesNothing, BlockedIsReported
<1> QED BY <1>1, <1>2, <1>3, RowStep

LEMMA planManualRetryStep ==
  ASSUME IInv, NEW c \in ALLCHANNELS, planManualRetry(c)
  PROVE  IInv'
<1>1. PICK q \in RowType : q = row
  BY DEF IInv, TypeOK
<1>2. /\ ~q.maxed /\ q.status # "sent"
      /\ LedgerBacked(q, accepted)
      /\ ~q.ledger => q.required = {}
  BY <1>1 DEF IInv, RowInv, planManualRetry, OpenStatuses
<1>o. q.out \in [Dests -> DestStates] /\ Backed(q.out, accepted)
  BY <1>2 DEF RowType, LedgerBacked
<1>3. /\ q.out \in [Dests -> DestStates] /\ q.state \in [ALLCHANNELS -> ChannelStates] /\ q.cur \in SUBSET Dests /\ q.gen \in Nat
      /\ q.required \in SUBSET ALLCHANNELS
  BY DEF RowType
<1> DEFINE known == IF q.required # {} THEN q.required
                    ELSE {x \in ALLCHANNELS : q.state[x] # "none"}
           plan == IF q.state[c] = "excluded"
                   THEN [q EXCEPT !.state[c] = "none", !.cur = @ \ Of(c, Dests),
                                  !.out = [d \in Dests |-> IF Channel[d] = c THEN "none" ELSE @[d]]]
                   ELSE reopened(c, q)
           Planned(t, u, g, o) ==
             /\ plan = [q EXCEPT !.state = t, !.cur = u, !.gen = g, !.out = o]
             /\ Backed(o, accepted)
             /\ \A x \in ALLCHANNELS : t[x] = "sent" =>
                   /\ q.state[x] = "sent" /\ Of(x, u) = Of(x, q.cur)
                   /\ \A d \in Of(x, q.cur) : o[d] = q.out[d]
<1>p. PICK t \in [ALLCHANNELS -> ChannelStates], u \in SUBSET Dests, g \in Nat,
           o \in [Dests -> DestStates] : Planned(t, u, g, o)
  <2>1. CASE q.state[c] = "excluded"
    <3> DEFINE t == [q.state EXCEPT ![c] = "none"]
               u == q.cur \ Of(c, Dests)
               o == [d \in Dests |-> IF Channel[d] = c THEN "none" ELSE q.out[d]]
    <3>1. t \in [ALLCHANNELS -> ChannelStates] /\ u \in SUBSET Dests
      BY <1>3 DEF ChannelStates
    <3>2. plan = [q EXCEPT !.state = t, !.cur = u, !.gen = q.gen, !.out = o]
      BY <2>1 DEF RowType
    <3>6. o \in [Dests -> DestStates] /\ Backed(o, accepted)
      BY <1>2, <1>3 DEF LedgerBacked, Backed, DestStates
    <3>7. \A x \in ALLCHANNELS : x # c => \A d \in Of(x, q.cur) : o[d] = q.out[d]
      BY <1>3 DEF Of
    <3>3. \A x \in ALLCHANNELS : t[x] = "sent" => x # c /\ q.state[x] = "sent"
      BY <1>3
    <3>4. \A x \in ALLCHANNELS : x # c => Of(x, u) = Of(x, q.cur)
      BY <1>3 DEF Of
    <3> HIDE DEF t, u, o, plan
    <3>5. q.gen \in Nat
      BY <1>3
    <3>8. o \in [Dests -> DestStates]
      BY <3>6
    <3>9. Planned(t, u, q.gen, o)
      BY <3>2, <3>3, <3>4, <3>6, <3>7
    <3> HIDE DEF Planned
    <3> QED BY <3>1, <3>5, <3>8, <3>9
  <2>2. CASE q.state[c] # "excluded" /\ q.state[c] \in {"mixed", "rejected"}
    <3> DEFINE t == [q.state EXCEPT ![c] = "failed"]
    <3>1. t \in [ALLCHANNELS -> ChannelStates]
      BY <1>3 DEF ChannelStates
    <3>2. PICK g \in Nat : g = IF c = "webhooks" THEN q.gen + 1 ELSE q.gen
      BY <1>3
    <3>3. plan = [q EXCEPT !.state = t, !.cur = q.cur, !.gen = g, !.out = q.out]
      BY <2>2, <3>2 DEF RowType, reopened
    <3>4. \A x \in ALLCHANNELS : t[x] = "sent" => q.state[x] = "sent"
      BY <1>3
    <3> HIDE DEF t, plan
    <3>5. Planned(t, q.cur, g, q.out)
      BY <1>o, <3>3, <3>4
    <3> HIDE DEF Planned
    <3> QED BY <1>3, <3>1, <3>5
  <2>3. CASE q.state[c] # "excluded" /\ q.state[c] \notin {"mixed", "rejected"}
    <3>1. plan = [q EXCEPT !.state = q.state, !.cur = q.cur, !.gen = q.gen, !.out = q.out]
      BY <2>3 DEF RowType, reopened
    <3> HIDE DEF plan
    <3>2. Planned(q.state, q.cur, q.gen, q.out)
      BY <1>o, <3>1
    <3> HIDE DEF Planned
    <3> QED BY <1>3, <3>2
  <2> QED BY <2>1, <2>2, <2>3
<1>4. /\ plan = [q EXCEPT !.state = t, !.cur = u, !.gen = g, !.out = o]
      /\ Backed(o, accepted)
      /\ \A x \in ALLCHANNELS : t[x] = "sent" =>
            /\ q.state[x] = "sent" /\ Of(x, u) = Of(x, q.cur)
            /\ \A d \in Of(x, q.cur) : o[d] = q.out[d]
  <2> HIDE DEF plan
  <2> QED BY <1>p
<1> HIDE DEF Planned
<1>5. PICK y \in SUBSET ALLCHANNELS : y = IF q.ledger THEN known \cup {c} ELSE {}
  BY <1>3
<1> DEFINE n == [[q EXCEPT !.state = t, !.cur = u, !.gen = g, !.out = o]
                   EXCEPT !.status = "pending", !.retry = {c}, !.claim = NoWorker, !.required = y]
<1>6. row' = n
  <2>1. row' = [plan EXCEPT !.status = "pending", !.retry = {c}, !.claim = NoWorker, !.required = y]
    <3> HIDE DEF plan
    <3> QED BY <1>1, <1>5 DEF planManualRetry, plan
  <2> HIDE DEF plan
  <2> QED BY <1>4, <2>1
<1>7. n \in RowType
  BY <1>4, <1>5 DEF RowType, OpenStatuses
<1>8. /\ n.status = "pending" /\ n.claim = NoWorker /\ n.maxed = q.maxed /\ n.ledger = q.ledger
      /\ n.required = y /\ n.out = o /\ n.cur = u /\ n.state = t
  BY DEF RowType
<1> HIDE DEF n, known, plan
<1>9. LedgerBacked(n, accepted)
  BY <1>2, <1>4, <1>8, LedgerCut
<1>10. left' \in 0 .. MaxDisturbances
  BY Spent DEF planManualRetry, IInv
<1>11. /\ clearing' \in Nat
       /\ UNCHANGED <<log, run, live, retired, window, incident, late, accepted, blind, discarded, died>>
  BY DEF IInv, TypeOK, notices, planManualRetry
<1> QED BY <1>1, <1>2, <1>5, <1>6, <1>7, <1>8, <1>9, <1>10, <1>11, Reopened

LEMMA requeueAlertsCoreStep ==
  ASSUME IInv, requeueAlertsCore
  PROVE  IInv'
<1>1. PICK q \in RowType : q = row
  BY DEF IInv, TypeOK
<1>2. /\ q.status # "sent"
      /\ LedgerBacked(q, accepted)
      /\ ~q.ledger => q.required = {}
  BY <1>1 DEF IInv, RowInv, requeueAlertsCore
<1>3. /\ q.state \in [ALLCHANNELS -> ChannelStates] /\ q.gen \in Nat /\ q.retry \in SUBSET ALLCHANNELS
  BY DEF RowType
<1> DEFINE open == q.state["webhooks"] \in {"mixed", "rejected", "partly"}
<1>5. PICK y \in SUBSET ALLCHANNELS : y = IF open THEN q.retry \cup {"webhooks"} ELSE q.retry
  BY <1>3 DEF ALLCHANNELS
<1>6. PICK g \in Nat : g = IF open THEN q.gen + 1 ELSE q.gen
  BY <1>3
<1>7. PICK z \in [ALLCHANNELS -> Nat] : z = [c \in ALLCHANNELS |-> 0]
  OBVIOUS
<1> DEFINE t == [q.state EXCEPT !["webhooks"] = IF open THEN "failed" ELSE q.state["webhooks"]]
           n == [q EXCEPT !.status = "pending", !.tried = FALSE, !.tries = z, !.maxed = FALSE,
                          !.wait = FALSE, !.retry = y, !.state = t, !.gen = g]
<1>8. t \in [ALLCHANNELS -> ChannelStates]
  BY <1>3 DEF ALLCHANNELS, ChannelStates
<1>9. \A x \in ALLCHANNELS : t[x] = "sent" => q.state[x] = "sent"
  BY <1>3 DEF ALLCHANNELS
<1>10. row' = n
  BY <1>1, <1>5, <1>6, <1>7 DEF requeueAlertsCore, RowType
<1> HIDE DEF t
<1>11. n \in RowType
  BY <1>8 DEF RowType, OpenStatuses
<1>12. /\ n.status = "pending" /\ n.claim = q.claim /\ ~n.maxed /\ n.ledger = q.ledger
       /\ n.required = q.required /\ n.out = q.out /\ n.cur = q.cur /\ n.state = t
  BY DEF RowType
<1> HIDE DEF n
<1>13. LedgerBacked(n, accepted)
  <2>1. Backed(n.out, accepted)
    BY <1>2, <1>12 DEF LedgerBacked
  <2> QED BY <1>2, <1>9, <1>12, <2>1, LedgerCut
<1>14. left' \in 0 .. MaxDisturbances
  BY Spent DEF requeueAlertsCore, IInv
<1>15. /\ clearing' \in Nat
       /\ UNCHANGED <<log, run, live, retired, window, incident, late, accepted, blind, discarded, died>>
  BY DEF IInv, TypeOK, notices, requeueAlertsCore
<1> QED BY <1>1, <1>2, <1>10, <1>11, <1>12, <1>13, <1>14, <1>15, Reopened

(***************************************************************************)
(* The runs                                                                *)
(***************************************************************************)

\* A step of the run w, to p.
LEMMA RunMoves ==
  ASSUME IInv, NEW w \in Workers, NEW p \in RunType, run' = [run EXCEPT ![w] = p],
         run[w].pc # "report",
         row' \in RowType, RowInv', ExcludedRowOwesNothing',
         row'.status = row.status, row'.maxed = row.maxed,
         log' \in LogType, LogBacked(log', accepted'),
         left' \in 0 .. MaxDisturbances,
         accepted' \in [Dests -> Nat], blind' \in [Dests -> Nat], Kept(accepted, accepted'),
         UNCHANGED <<live, retired, window, clearing, incident, late, discarded, died>>,
         LedgerBacked(p.snap, accepted'), LogBacked(p.prior, accepted'), Backed(p.res, accepted'),
         p.pc \in {"armed", "again", "answered"} => \E d \in Dests \ p.todo : p.at = {d},
         p.pc = "answered" => \A d \in p.at : /\ p.got = "sent" => accepted'[d] > 0
                                              /\ p.got = "permanent" => Channel[d] = "webhooks",
         p.pc # "report",
         \A d \in Dests : SendsCovered(d)'
  PROVE  IInv'
<1>1. run'[w] = p /\ \A v \in Workers \ {w} : run'[v] = run[v]
  BY DEF IInv, TypeOK
<1>2. TypeOK'
  BY DEF IInv, TypeOK
<1>3. RunInv(w)'
  BY <1>1 DEF RunInv
<1>4. \A v \in Workers : RunInv(v)'
  BY <1>1, <1>3, OthersKept
<1>5. BlockedIsReported'
  BY <1>1, ReportsKept
<1>6. LogBacked(log, accepted)'
  OBVIOUS
<1> QED BY <1>2, <1>4, <1>5, <1>6 DEF IInv

\* The same without a send and without a new ticket.
LEMMA RunStep ==
  ASSUME IInv, NEW w \in Workers, NEW p \in RunType, run' = [run EXCEPT ![w] = p],
         run[w].pc # "report",
         row' \in RowType, RowInv', ExcludedRowOwesNothing',
         row'.claim \in {row.claim, NoWorker, w},
         row'.status = row.status, row'.maxed = row.maxed,
         log' \in LogType, LogBacked(log', accepted),
         left' \in 0 .. MaxDisturbances,
         UNCHANGED <<live, retired, window, clearing, incident, late, accepted, blind, discarded, died>>,
         LedgerBacked(p.snap, accepted), LogBacked(p.prior, accepted), Backed(p.res, accepted),
         p.pc \in {"armed", "again", "answered"} => \E d \in Dests \ p.todo : p.at = {d},
         p.pc = "answered" => \A d \in p.at : /\ p.got = "sent" => accepted[d] > 0
                                              /\ p.got = "permanent" => Channel[d] = "webhooks",
         p.pc # "report",
         \A d \in Dests : Ticket(w, d)' => Ticket(w, d)
  PROVE  IInv'
<1>1. \A v \in Workers \ {w} : run'[v] = run[v]
  BY DEF IInv, TypeOK
<1>2. \A d \in Dests : SendsCovered(d)'
  BY <1>1, SendsKept
<1>3. Kept(accepted, accepted') /\ accepted' \in [Dests -> Nat] /\ blind' \in [Dests -> Nat]
  BY DEF Kept, IInv, TypeOK
<1> QED BY <1>2, <1>3, RunMoves

\* One more outcome.
LEMMA BackedUpdate ==
  ASSUME NEW o \in [Dests -> DestStates], NEW a, Backed(o, a), NEW d \in Dests, NEW s \in DestStates,
         s = "sent" => a[d] > 0,
         s = "permanent" => Channel[d] = "webhooks",
         s = "excluded" => Channel[d] # "webhooks"
  PROVE  [o EXCEPT ![d] = s] \in [Dests -> DestStates] /\ Backed([o EXCEPT ![d] = s], a)
BY DEF Backed

\* A run, and what the invariant says of it.
LEMMA RunFacts ==
  ASSUME IInv, NEW w \in Workers
  PROVE  \E p \in RunType :
           /\ p = run[w]
           /\ LedgerBacked(p.snap, accepted) /\ LogBacked(p.prior, accepted) /\ Backed(p.res, accepted)
           /\ p.pc \in {"armed", "again", "answered"} => \E d \in Dests \ p.todo : p.at = {d}
           /\ p.pc = "answered" => \A d \in p.at : /\ p.got = "sent" => accepted[d] > 0
                                                   /\ p.got = "permanent" => Channel[d] = "webhooks"
BY DEF IInv, TypeOK, RunInv

LEMMA claimAlertStep ==
  ASSUME IInv, NEW w \in Workers, claimAlert(w)
  PROVE  IInv'
<1>1. PICK q \in RowType : q = row /\ LedgerBacked(q, accepted)
  BY DEF IInv, TypeOK, RowInv
<1>D. PICK D \in SUBSET Dests : D = audience(window, live)
  BY DEF IInv, TypeOK, audience
<1> DEFINE n == [q EXCEPT !.claim = w, !.wait = TRUE]
           k == [q EXCEPT !.claim = NoWorker, !.wait = FALSE]
<1>2. n \in RowType /\ k \in RowType
  BY DEF RowType
<1>3. /\ n.status = q.status /\ n.claim = w /\ n.required = q.required
      /\ n.maxed = q.maxed /\ n.retry = q.retry /\ n.ledger = q.ledger
      /\ n.out = q.out /\ n.cur = q.cur /\ n.state = q.state
      /\ k.out = q.out /\ k.cur = q.cur /\ k.state = q.state
  BY DEF RowType
<1>4. row' = n
  BY <1>1 DEF claimAlert
<1>5. PICK p : p = [IdleRun EXCEPT !.pc = "claimed", !.live = D, !.retired = retired, !.snap = k]
  OBVIOUS
<1>6. run' = [run EXCEPT ![w] = p]
  BY <1>1, <1>5, <1>D DEF claimAlert
<1> HIDE DEF n, k
<1>7. retired \in BOOLEAN
  BY DEF IInv, TypeOK
<1>8. p \in RunType
  BY <1>2, <1>5, <1>7, Constants DEF RunType
<1>9. /\ p.pc = "claimed" /\ p.snap = k /\ p.prior = IdleRun.prior /\ p.res = IdleRun.res
  BY <1>5, Constants DEF IdleRun
<1>10. LedgerBacked(k, accepted) /\ LogBacked(p.prior, accepted) /\ Backed(p.res, accepted)
  BY <1>1, <1>3, <1>9, SameLedger, Constants
<1>11. q.status \in OpenStatuses /\ q.status # "sent" /\ run[w].pc = "idle"
  BY <1>1, OpenRow DEF claimAlert
<1>12. UNCHANGED <<log, live, retired, window, clearing, left, died, incident, late, accepted, blind, discarded>>
  BY DEF claimAlert, environment, outside, notices
<1>13. RowInv' /\ ExcludedRowOwesNothing'
  <2>1. Kept(accepted, accepted')
    BY <1>12 DEF Kept
  <2> QED BY <1>1, <1>3, <1>4, <1>11, <1>12, <2>1, SameRow
<1>14. \A d \in Dests : ~Ticket(w, d)'
  <2>1. run'[w] = p
    BY <1>6 DEF IInv, TypeOK
  <2> QED BY <1>9, <2>1 DEF Ticket
<1>15. log' \in LogType /\ LogBacked(log', accepted) /\ left' \in 0 .. MaxDisturbances
  BY <1>12 DEF IInv, TypeOK
<1> QED BY <1>1, <1>2, <1>3, <1>4, <1>6, <1>8, <1>9, <1>10, <1>11, <1>12, <1>13, <1>14, <1>15, RunStep

\* A run ends and leaves the row as it is.
LEMMA RunLeaves ==
  ASSUME IInv, NEW w \in Workers, run' = [run EXCEPT ![w] = IdleRun],
         UNCHANGED <<row, log, live, retired, window, clearing, incident, late, accepted, blind, discarded>>,
         left' \in 0 .. MaxDisturbances, died' \in BOOLEAN,
         run[w].pc # "report" \/ died',
         died => died'
  PROVE  IInv'
<1>1. TypeOK'
  BY Constants DEF IInv, TypeOK
<1>2. RowInv' /\ ExcludedRowOwesNothing'
  BY DEF IInv, RowInv, ExcludedRowOwesNothing
<1>3. \A v \in Workers \ {w} : run'[v] = run[v]
  BY DEF IInv, TypeOK
<1>4. BlockedIsReported'
  <2>1. CASE died'
    BY <2>1 DEF BlockedIsReported
  <2>2. CASE run[w].pc # "report"
    BY <1>3, <2>2, ReportsKept
  <2> QED BY <2>1, <2>2
<1> QED BY <1>1, <1>2, <1>4, RunEnds

LEMMA DeliveryOwnershipLostStep ==
  ASSUME IInv, NEW w \in Workers, DeliveryOwnershipLost(w)
  PROVE  IInv'
<1>1. /\ run' = [run EXCEPT ![w] = IdleRun] /\ run[w].pc # "report"
      /\ UNCHANGED <<row, log, live, retired, window, clearing, left, died, incident, late, accepted, blind, discarded>>
  BY DEF DeliveryOwnershipLost, environment, outside, notices
<1>2. left' \in 0 .. MaxDisturbances /\ died' \in BOOLEAN
  BY <1>1 DEF IInv, TypeOK
<1> QED BY <1>1, <1>2, RunLeaves

LEMMA crashStep ==
  ASSUME IInv, NEW w \in Workers, crash(w)
  PROVE  IInv'
<1>1. /\ run' = [run EXCEPT ![w] = IdleRun]
      /\ UNCHANGED <<row, log, live, retired, window, clearing, incident, late, accepted, blind, discarded>>
      /\ died' = TRUE
  BY DEF crash, outside, notices
<1>2. left' \in 0 .. MaxDisturbances
  BY Spent DEF IInv, crash
<1>3. died' \in BOOLEAN /\ died'
  BY <1>1, Zenon
<1> QED BY <1>1, <1>2, <1>3, RunLeaves

LEMMA reconcileStaleDeliveryIncidentsStep ==
  ASSUME IInv, reconcileStaleDeliveryIncidents
  PROVE  IInv'
<1>1. /\ UNCHANGED <<row, log, run, live, retired, window, clearing, left, died, late, accepted, blind, discarded>>
      /\ incident' = "none" /\ row.status # "blocked"
  BY DEF reconcileStaleDeliveryIncidents, environment, outside, notices
<1>2. TypeOK'
  BY <1>1 DEF IInv, TypeOK
<1>3. RowInv' /\ ExcludedRowOwesNothing'
  BY <1>1 DEF IInv, RowInv, ExcludedRowOwesNothing
<1>4. BlockedIsReported'
  BY <1>1 DEF BlockedIsReported
<1> QED BY <1>1, <1>2, <1>3, <1>4, RowStep

\* A report after the settlement.  Only the run that found everything delivered
\* takes the incident back, and such a row is not blocked any more.
LEMMA reportOutcomeStep ==
  ASSUME IInv, NEW w \in Workers, reportOutcome(w)
  PROVE  IInv'
<1>1. PICK p \in RunType : p = run[w]
  BY DEF IInv, TypeOK
<1>2. /\ p.pc = "report" /\ p.say # "none"
      /\ p.say = "resolve" => row.status = "sent"
      /\ p.say \in {"none", "resolve", "blocked", "warning"}
  BY <1>1 DEF IInv, RunInv, reportOutcome, RunType
<1>3. /\ incident' = IF p.say = "resolve" THEN "none" ELSE p.say
      /\ run' = [run EXCEPT ![w] = IdleRun]
      /\ UNCHANGED <<row, log, live, retired, window, clearing, left, died, accepted, blind, discarded>>
      /\ late' = (late /\ p.say = "resolve")
  BY <1>1 DEF reportOutcome, environment, outside, notices
<1>4. /\ incident' \in {"none", "warning", "blocked"}
      /\ incident' = "none" => row.status = "sent"
  BY <1>2, <1>3
<1>l. late' \in BOOLEAN
  <2>1. late \in BOOLEAN
    BY DEF IInv, TypeOK
  <2> QED BY <1>3, <2>1, Zenon
<1>5. TypeOK'
  BY <1>3, <1>4, <1>l, Constants DEF IInv, TypeOK
<1>6. RowInv' /\ ExcludedRowOwesNothing'
  BY <1>3 DEF IInv, RowInv, ExcludedRowOwesNothing
<1>7. BlockedIsReported'
  BY <1>3, <1>4 DEF BlockedIsReported
<1> QED BY <1>3, <1>5, <1>6, <1>7, RunEnds

\* The destination in turn is one of those to do.
LEMMA InTurn ==
  ASSUME NEW D \in SUBSET Dests, D # {}
  PROVE  inTurn(D) \in D
<1> DEFINE P(c) == \/ c = "email"
                   \/ c = "webhooks" /\ Of("email", D) = {}
                   \/ ChannelsOf(D) = {"whatsapp"}
           c == CHOOSE c \in ChannelsOf(D) : P(c)
<1>1. ChannelsOf(D) # {} /\ ChannelsOf(D) \subseteq {"email", "webhooks", "whatsapp"}
  BY ChannelSets DEF ChannelsOf, ALLCHANNELS
<1>2. "email" \notin ChannelsOf(D) => Of("email", D) = {}
  BY DEF ChannelsOf, Of
<1>3. \E x \in ChannelsOf(D) : P(x)
  <2>1. CASE "email" \in ChannelsOf(D)
    BY <2>1
  <2>2. CASE "email" \notin ChannelsOf(D) /\ "webhooks" \in ChannelsOf(D)
    BY <1>2, <2>2
  <2>3. CASE "email" \notin ChannelsOf(D) /\ "webhooks" \notin ChannelsOf(D)
    <3>1. ChannelsOf(D) = {"whatsapp"}
      BY <1>1, <2>3
    <3> QED BY <3>1
  <2> QED BY <2>1, <2>2, <2>3
<1>4. c \in ChannelsOf(D)
  <2> HIDE DEF P
  <2> QED BY <1>3
<1>5. inTurn(D) = CHOOSE d \in Of(c, D) : TRUE
  BY DEF inTurn
<1> HIDE DEF c
<1>6. Of(c, D) # {} /\ Of(c, D) \subseteq D
  BY <1>4, ChannelSets
<1> QED BY <1>5, <1>6

LEMMA skipDestinationStep ==
  ASSUME IInv, NEW w \in Workers, NEW d \in Dests, skipDestination(w, d)
  PROVE  IInv'
<1>1. PICK p \in RunType :
        /\ p = run[w]
        /\ LedgerBacked(p.snap, accepted) /\ LogBacked(p.prior, accepted) /\ Backed(p.res, accepted)
  BY RunFacts
<1>2. PICK s \in {"sent", "permanent"} : s = IF p.prior[d].ok THEN "sent" ELSE "permanent"
  OBVIOUS
<1>3. /\ p.res \in [Dests -> DestStates] /\ p.todo \in SUBSET Dests
      /\ p.pc = "loop" /\ (s = "sent" => p.prior[d].ok)
      /\ s = "permanent" => Channel[d] = "webhooks"
  BY <1>1, <1>2 DEF RunType, skipDestination, Working, webhookPermanent
<1> DEFINE o == [p.res EXCEPT ![d] = s]
           t == p.todo \ {d}
           n == [p EXCEPT !.todo = t, !.res = o]
<1>4. o \in [Dests -> DestStates] /\ Backed(o, accepted)
  <2>1. s = "sent" => accepted[d] > 0
    BY <1>1, <1>3 DEF LogBacked
  <2>2. s \in DestStates /\ s # "excluded"
    BY <1>2 DEF DestStates
  <2> QED BY <1>1, <1>3, <2>1, <2>2, BackedUpdate
<1>5. run' = [run EXCEPT ![w] = n]
  BY <1>1, <1>2 DEF skipDestination, IInv, TypeOK, RunType
<1> HIDE DEF o, t
<1>6. t \subseteq p.todo /\ t \in SUBSET Dests
  BY <1>3 DEF t
<1>7. n \in RunType
  BY <1>4, <1>6 DEF RunType
<1>8. /\ n.pc = p.pc /\ n.snap = p.snap /\ n.prior = p.prior /\ n.res = o /\ n.todo = t
      /\ n.missed = p.missed
  BY DEF RunType
<1> HIDE DEF n
<1>9. UNCHANGED <<log, live, retired, window, clearing, left, died, incident, late, accepted, blind, discarded>>
  BY DEF skipDestination, environment, outside, notices
<1>10. /\ row' \in RowType /\ RowInv' /\ ExcludedRowOwesNothing'
       /\ row'.claim = row.claim /\ row'.status = row.status /\ row'.maxed = row.maxed
  <2>1. Kept(accepted, accepted')
    BY <1>9 DEF Kept
  <2>2. CASE assertStillOwnsDelivery(w)
    BY <1>9, <2>1, <2>2, HeartBeat
  <2>3. CASE row' = row
    BY <1>9, <2>1, <2>3, SameRow DEF IInv, TypeOK
  <2> QED BY <2>2, <2>3 DEF skipDestination
<1>11. \A e \in Dests : Ticket(w, e)' => Ticket(w, e)
  <2>1. run'[w] = n
    BY <1>5 DEF IInv, TypeOK
  <2> QED BY <1>1, <1>3, <1>6, <1>8, <1>10, <2>1 DEF Ticket
<1>12. log' \in LogType /\ LogBacked(log', accepted) /\ left' \in 0 .. MaxDisturbances
  BY <1>9 DEF IInv, TypeOK
<1>13. run[w].pc = "loop" /\ n.pc = "loop"
  BY <1>1, <1>3, <1>8
<1> QED BY <1>1, <1>4, <1>5, <1>7, <1>8, <1>9, <1>10, <1>11, <1>12, <1>13, RunStep

LEMMA withholdRecipientStep ==
  ASSUME IInv, NEW w \in Workers, NEW d \in Dests, withholdRecipient(w, d)
  PROVE  IInv'
<1>1. PICK p \in RunType :
        /\ p = run[w]
        /\ LedgerBacked(p.snap, accepted) /\ LogBacked(p.prior, accepted) /\ Backed(p.res, accepted)
  BY RunFacts
<1>2. PICK s \in {"excluded", "deferred"}, recheck \in BOOLEAN :
        /\ log' = IF recheck THEN [log EXCEPT ![d].last = s] ELSE log
        /\ run' = [run EXCEPT ![w].todo = @ \ {d}, ![w].res[d] = s]
  BY DEF withholdRecipient
<1>3. /\ p.res \in [Dests -> DestStates] /\ p.todo \in SUBSET Dests
      /\ p.pc = "loop" /\ Channel[d] # "webhooks" /\ s \in DestStates
  BY <1>1 DEF RunType, withholdRecipient, Working, DestStates
<1> DEFINE o == [p.res EXCEPT ![d] = s]
           t == p.todo \ {d}
           n == [p EXCEPT !.todo = t, !.res = o]
<1>4. o \in [Dests -> DestStates] /\ Backed(o, accepted)
  BY <1>1, <1>3, BackedUpdate
<1>5. run' = [run EXCEPT ![w] = n]
  BY <1>1, <1>2 DEF IInv, TypeOK, RunType
<1> HIDE DEF o, t
<1>6. t \subseteq p.todo /\ t \in SUBSET Dests
  BY <1>3 DEF t
<1>7. n \in RunType
  BY <1>4, <1>6 DEF RunType
<1>8. /\ n.pc = p.pc /\ n.snap = p.snap /\ n.prior = p.prior /\ n.res = o /\ n.todo = t
      /\ n.missed = p.missed
  BY DEF RunType
<1> HIDE DEF n
<1>9. UNCHANGED <<live, retired, window, clearing, left, died, incident, late, accepted, blind, discarded>>
  BY DEF withholdRecipient, environment, outside, notices
<1>10. /\ row' \in RowType /\ RowInv' /\ ExcludedRowOwesNothing'
       /\ row'.claim = row.claim /\ row'.status = row.status /\ row'.maxed = row.maxed
  <2>1. Kept(accepted, accepted') /\ assertStillOwnsDelivery(w)
    BY <1>9 DEF Kept, withholdRecipient
  <2> QED BY <1>9, <2>1, HeartBeat
<1>11. \A e \in Dests : Ticket(w, e)' => Ticket(w, e)
  <2>1. run'[w] = n
    BY <1>5 DEF IInv, TypeOK
  <2> QED BY <1>1, <1>3, <1>6, <1>8, <1>10, <2>1 DEF Ticket
<1>12. log' \in LogType /\ LogBacked(log', accepted)
  <2>1. log \in LogType /\ LogBacked(log, accepted)
    BY DEF IInv, TypeOK
  <2>2. CASE ~recheck
    BY <1>2, <2>1, <2>2
  <2>3. CASE recheck
    <3>1. log' = [log EXCEPT ![d].last = s]
      BY <1>2, <2>3
    <3>2. log' \in LogType
      BY <1>3, <2>1, <3>1 DEF LogType
    <3>3. \A e \in Dests : log'[e].last = IF e = d THEN s ELSE log[e].last
      BY <2>1, <3>1 DEF LogType
    <3>4. \A e \in Dests : log'[e].ok = log[e].ok
      BY <2>1, <3>1 DEF LogType
    <3> QED BY <1>2, <1>3, <2>1, <3>2, <3>3, <3>4 DEF LogBacked, Backed
  <2> QED BY <2>2, <2>3
<1>13. run[w].pc = "loop" /\ n.pc = "loop" /\ left' \in 0 .. MaxDisturbances
  BY <1>1, <1>3, <1>8, <1>9 DEF IInv, TypeOK
<1> QED BY <1>1, <1>4, <1>5, <1>7, <1>8, <1>9, <1>10, <1>11, <1>12, <1>13, RunStep

\* The run reads the log.  It gets a ticket for the destinations that nobody was
\* sent to and nobody is about to send to.
LEMMA beginDeliveryStep ==
  ASSUME IInv, NEW w \in Workers, NEW prior \in {log, EmptyLog}, beginDelivery(w, prior)
  PROVE  IInv'
<1>1. PICK p \in RunType :
        /\ p = run[w]
        /\ LedgerBacked(p.snap, accepted) /\ LogBacked(p.prior, accepted) /\ Backed(p.res, accepted)
  BY RunFacts
<1>2. PICK l \in LogType : l = prior /\ LogBacked(l, accepted)
  BY Constants DEF IInv, TypeOK
<1>3. PICK D \in SUBSET Dests : D = {d \in p.live : Channel[d] \in channelsForDeliveryAttempt(p)}
  BY DEF RunType
<1>4. PICK M \in SUBSET Dests : M = MissedSends(w, l, D)
  BY DEF MissedSends
<1> DEFINE n == [p EXCEPT !.pc = "loop", !.prior = l, !.todo = D, !.missed = M]
<1>5. run' = [run EXCEPT ![w] = n] /\ p.pc = "claimed"
  BY <1>1, <1>2, <1>3, <1>4 DEF beginDelivery, IInv, TypeOK, RunType
<1>6. n \in RunType
  BY DEF RunType
<1>7. /\ n.pc = "loop" /\ n.snap = p.snap /\ n.prior = l /\ n.res = p.res /\ n.todo = D
      /\ n.missed = M
  BY DEF RunType
<1> HIDE DEF n
<1>8. UNCHANGED <<log, live, retired, window, clearing, died, incident, late, accepted, blind, discarded>>
  BY DEF beginDelivery, environment, outside, notices
<1>9. Kept(accepted, accepted') /\ assertStillOwnsDelivery(w)
  BY <1>8 DEF Kept, beginDelivery
<1>10. /\ row' \in RowType /\ RowInv' /\ ExcludedRowOwesNothing'
       /\ row'.claim = w /\ row.claim = w /\ row'.status = row.status /\ row'.maxed = row.maxed
  BY <1>8, <1>9, HeartBeat
<1>11. run'[w] = n /\ \A v \in Workers \ {w} : run'[v] = run[v]
  BY <1>5 DEF IInv, TypeOK
<1>12. ASSUME NEW d \in Dests PROVE SendsCovered(d)'
  <2>1. /\ SendsCovered(d) /\ accepted[d] \in Nat /\ blind[d] \in Nat
        /\ accepted'[d] = accepted[d] /\ blind'[d] = blind[d]
    BY <1>8 DEF IInv, TypeOK
  <2>2. \A v \in Workers \ {w} : Ticket(v, d)' => Ticket(v, d)
    BY <1>10, <1>11, OldTicket
  <2>3. CASE ~Ticket(w, d)'
    BY <2>1, <2>2, <2>3, CoverKept
  <2>4. CASE Ticket(w, d)'
    <3>1. d \in D /\ d \notin M /\ ~l[d].ok
      BY <1>7, <1>11, <2>4 DEF Ticket
    <3>2. accepted[d] = 0 /\ \A v \in Workers \ {w} : ~(run[v].pc = "armed" /\ run[v].at = {d})
      BY <1>2, <1>4, <2>1, <3>1 DEF MissedSends
    <3>3. \A v \in Workers \ {w} : ~Ticket(v, d)'
      BY <1>10, <1>11, <3>2 DEF Ticket
    <3>4. Tickets(d)' = {w}
      BY <2>4, <3>3 DEF Tickets
    <3>5. PICK T : T = Tickets(d)' /\ T = {w}
      BY <3>4
    <3>6. Cardinality(T) = 1
      BY <3>5, FS_Singleton
    <3>7. accepted'[d] + Cardinality(T) <= 1 + blind'[d]
      BY <2>1, <3>2, <3>6
    <3> QED BY <3>5, <3>7 DEF SendsCovered
  <2> QED BY <2>3, <2>4
<1>13. /\ log' \in LogType /\ LogBacked(log', accepted') /\ left' \in 0 .. MaxDisturbances
       /\ accepted' \in [Dests -> Nat] /\ blind' \in [Dests -> Nat]
  BY <1>8, Spent DEF IInv, TypeOK, beginDelivery, priorDeliveryRows
<1>14. LedgerBacked(n.snap, accepted') /\ LogBacked(n.prior, accepted') /\ Backed(n.res, accepted')
  BY <1>1, <1>2, <1>7, <1>8
<1>15. run[w].pc # "report"
  BY <1>1, <1>5
<1> QED BY <1>5, <1>6, <1>7, <1>8, <1>9, <1>10, <1>12, <1>13, <1>14, <1>15, RunMoves

\* One more ticket, and one more send that is counted as blind.
LEMMA CoverCounted ==
  ASSUME NEW e \in Dests, NEW w \in Workers, SendsCovered(e),
         accepted[e] \in Nat, blind[e] \in Nat,
         accepted'[e] = accepted[e], blind'[e] = blind[e] + 1,
         \A v \in Workers \ {w} : Ticket(v, e)' => Ticket(v, e)
  PROVE  SendsCovered(e)'
<1>1. PICK S, T : S = Tickets(e) /\ T = Tickets(e)'
  OBVIOUS
<1>2. T \subseteq S \cup {w}
  BY <1>1 DEF Tickets
<1>3. IsFiniteSet(S) /\ Cardinality(S) \in Nat /\ Cardinality(T) \in Nat
  BY <1>1, TicketSets
<1>4. Cardinality(T) <= Cardinality(S) + 1
  <2>1. IsFiniteSet(S \cup {w}) /\ Cardinality(S \cup {w}) <= Cardinality(S) + 1
    <3>1. /\ IsFiniteSet(S \cup {w})
          /\ Cardinality(S \cup {w}) = IF w \in S THEN Cardinality(S) ELSE Cardinality(S) + 1
      BY <1>3, FS_AddElement, Zenon
    <3>2. PICK k : k = Cardinality(S \cup {w})
      OBVIOUS
    <3> QED BY <1>3, <3>1, <3>2
  <2>2. Cardinality(S \cup {w}) \in Nat
    BY <2>1, FS_CardinalityType
  <2>3. Cardinality(T) <= Cardinality(S \cup {w})
    BY <1>2, <2>1, FS_Subset
  <2> QED BY <1>3, <2>1, <2>2, <2>3
<1>5. accepted[e] + Cardinality(S) <= 1 + blind[e]
  BY <1>1 DEF SendsCovered
<1>6. accepted'[e] + Cardinality(T) <= 1 + blind'[e]
  BY <1>3, <1>4, <1>5
<1> QED BY <1>1, <1>6 DEF SendsCovered

\* The last assertion before a send: the ticket becomes the armed run's, or the
\* send is counted as one of a run that had missed one.
LEMMA armSendStep ==
  ASSUME IInv, NEW w \in Workers, NEW d \in Dests, armSend(w, d)
  PROVE  IInv'
<1>1. PICK p \in RunType :
        /\ p = run[w]
        /\ LedgerBacked(p.snap, accepted) /\ LogBacked(p.prior, accepted) /\ Backed(p.res, accepted)
  BY RunFacts
<1>2. PICK t \in SUBSET Dests : t = p.todo \ {d}
  BY DEF RunType
<1> DEFINE n == [p EXCEPT !.pc = "armed", !.at = {d}, !.todo = t]
<1>3. run' = [run EXCEPT ![w] = n] /\ p.pc = "loop" /\ ~p.prior[d].ok
  BY <1>1, <1>2 DEF armSend, Working, IInv, TypeOK, RunType
<1>4. d \in p.todo
  <2>1. p.todo \in SUBSET Dests /\ p.todo # {} /\ d = inTurn(p.todo)
    BY <1>1 DEF armSend, Working, RunType
  <2> QED BY <2>1, InTurn
<1>5. n \in RunType
  BY DEF RunType
<1>6. /\ n.pc = "armed" /\ n.snap = p.snap /\ n.prior = p.prior /\ n.res = p.res /\ n.todo = t
      /\ n.missed = p.missed /\ n.at = {d}
  BY DEF RunType
<1> HIDE DEF n
<1>7. UNCHANGED <<log, live, retired, window, clearing, left, died, incident, late, accepted, discarded>>
  BY DEF armSend, environment, outside, notices
<1>8. Kept(accepted, accepted') /\ assertStillOwnsDelivery(w)
  BY <1>7 DEF Kept, armSend
<1>9. /\ row' \in RowType /\ RowInv' /\ ExcludedRowOwesNothing'
      /\ row'.claim = w /\ row.claim = w /\ row'.status = row.status /\ row'.maxed = row.maxed
  BY <1>7, <1>8, HeartBeat
<1>10. run'[w] = n /\ \A v \in Workers \ {w} : run'[v] = run[v]
  BY <1>3 DEF IInv, TypeOK
<1>11. /\ blind \in [Dests -> Nat] /\ accepted \in [Dests -> Nat]
       /\ blind' = IF d \in p.missed THEN [blind EXCEPT ![d] = @ + 1] ELSE blind
  BY <1>1 DEF IInv, TypeOK, armSend
<1>12. ASSUME NEW e \in Dests PROVE SendsCovered(e)'
  <2>1. /\ SendsCovered(e) /\ accepted[e] \in Nat /\ blind[e] \in Nat
        /\ accepted'[e] = accepted[e]
    BY <1>7 DEF IInv, TypeOK
  <2>2. \A v \in Workers \ {w} : Ticket(v, e)' => Ticket(v, e)
    BY <1>9, <1>10, OldTicket
  <2>3. CASE e # d \/ d \notin p.missed
    <3>1. blind'[e] = blind[e]
      BY <1>11, <2>3
    <3>2. Ticket(w, e)' => Ticket(w, e)
      <4>1. CASE e # d
        BY <1>1, <1>2, <1>3, <1>6, <1>9, <1>10, <4>1 DEF Ticket
      <4>2. CASE e = d /\ d \notin p.missed
        BY <1>1, <1>3, <1>4, <1>9, <4>2 DEF Ticket
      <4> QED BY <2>3, <4>1, <4>2
    <3> QED BY <2>1, <2>2, <3>1, <3>2, CoverKept
  <2>4. CASE e = d /\ d \in p.missed
    <3>1. blind'[e] = blind[e] + 1
      BY <1>11, <2>4
    <3> QED BY <2>1, <2>2, <3>1, CoverCounted
  <2> QED BY <2>3, <2>4
<1>13. /\ log' \in LogType /\ LogBacked(log', accepted') /\ left' \in 0 .. MaxDisturbances
       /\ accepted' \in [Dests -> Nat] /\ blind' \in [Dests -> Nat]
  BY <1>7, <1>11 DEF IInv, TypeOK
<1>14. LedgerBacked(n.snap, accepted') /\ LogBacked(n.prior, accepted') /\ Backed(n.res, accepted')
  BY <1>1, <1>6, <1>7
<1>15. run[w].pc # "report" /\ d \in Dests \ n.todo
  BY <1>1, <1>2, <1>3, <1>6
<1> QED BY <1>3, <1>5, <1>6, <1>7, <1>8, <1>9, <1>12, <1>13, <1>14, <1>15, RunMoves

\* The next SMTP account: its ticket, or one more blind send.
LEMMA nextSmtpAccountStep ==
  ASSUME IInv, NEW w \in Workers, nextSmtpAccount(w)
  PROVE  IInv'
<1>1. PICK p \in RunType :
        /\ p = run[w]
        /\ LedgerBacked(p.snap, accepted) /\ LogBacked(p.prior, accepted) /\ Backed(p.res, accepted)
        /\ p.pc \in {"armed", "again", "answered"} => \E d \in Dests \ p.todo : p.at = {d}
  BY RunFacts
<1>2. p.pc = "again"
  BY <1>1 DEF nextSmtpAccount
<1>3. PICK d \in Dests : d \notin p.todo /\ p.at = {d}
  BY <1>1, <1>2
<1>4. UNCHANGED <<log, live, retired, window, clearing, left, died, incident, late, accepted, discarded>>
  BY DEF nextSmtpAccount, environment, outside, notices
<1>5. Kept(accepted, accepted') /\ assertStillOwnsDelivery(w)
  BY <1>4 DEF Kept, nextSmtpAccount
<1>6. /\ row' \in RowType /\ RowInv' /\ ExcludedRowOwesNothing'
      /\ row'.claim = w /\ row.claim = w /\ row'.status = row.status /\ row'.maxed = row.maxed
  BY <1>4, <1>5, HeartBeat
<1>7. /\ log' \in LogType /\ LogBacked(log', accepted) /\ left' \in 0 .. MaxDisturbances
      /\ blind \in [Dests -> Nat] /\ accepted \in [Dests -> Nat] /\ run[w].pc # "report"
  BY <1>1, <1>2, <1>4 DEF IInv, TypeOK
<1>8. CASE /\ run' = [run EXCEPT ![w].pc = "armed", ![w].got = "none"]
           /\ blind' = [e \in Dests |-> IF e \in run[w].at \cap run[w].missed
                                        THEN blind[e] + 1 ELSE blind[e]]
  <2> DEFINE n == [p EXCEPT !.pc = "armed", !.got = "none"]
  <2>1. run' = [run EXCEPT ![w] = n]
    BY <1>1, <1>8 DEF IInv, TypeOK, RunType
  <2>2. n \in RunType
    BY DEF RunType
  <2>3. /\ n.pc = "armed" /\ n.snap = p.snap /\ n.prior = p.prior /\ n.res = p.res
        /\ n.todo = p.todo /\ n.missed = p.missed /\ n.at = {d}
    BY <1>3 DEF RunType
  <2> HIDE DEF n
  <2>4. run'[w] = n /\ \A v \in Workers \ {w} : run'[v] = run[v]
    BY <2>1 DEF IInv, TypeOK
  <2>5. /\ blind' \in [Dests -> Nat]
        /\ \A e \in Dests : blind'[e] = IF e = d /\ d \in p.missed THEN blind[e] + 1 ELSE blind[e]
    BY <1>1, <1>3, <1>7, <1>8
  <2>6. ASSUME NEW e \in Dests PROVE SendsCovered(e)'
    <3>1. /\ SendsCovered(e) /\ accepted[e] \in Nat /\ blind[e] \in Nat
          /\ accepted'[e] = accepted[e]
      BY <1>4 DEF IInv, TypeOK
    <3>2. \A v \in Workers \ {w} : Ticket(v, e)' => Ticket(v, e)
      BY <1>6, <2>4, OldTicket
    <3>3. CASE e # d
      <4>1. Ticket(w, e)' => Ticket(w, e)
        BY <1>1, <1>2, <1>6, <2>3, <2>4, <3>3 DEF Ticket
      <4> QED BY <2>5, <3>1, <3>2, <3>3, <4>1, CoverKept
    <3>4. CASE e = d /\ d \notin p.missed
      <4>1. Ticket(w, e)
        BY <1>1, <1>2, <1>3, <1>6, <3>4 DEF Ticket
      <4> QED BY <2>5, <3>1, <3>2, <3>4, <4>1, CoverKept
    <3>5. CASE e = d /\ d \in p.missed
      BY <2>5, <3>1, <3>2, <3>5, CoverCounted
    <3> QED BY <3>3, <3>4, <3>5
  <2>7. accepted' \in [Dests -> Nat] /\ LogBacked(log', accepted')
    BY <1>4, <1>7
  <2>8. LedgerBacked(n.snap, accepted') /\ LogBacked(n.prior, accepted') /\ Backed(n.res, accepted')
    BY <1>1, <1>4, <2>3
  <2> QED BY <1>3, <1>4, <1>5, <1>6, <1>7, <2>1, <2>2, <2>3, <2>5, <2>6, <2>7, <2>8, RunMoves
<1>9. CASE /\ run' = [run EXCEPT ![w].pc = "answered", ![w].got = "failed", ![w].failures = 0]
           /\ UNCHANGED blind
  <2> DEFINE n == [p EXCEPT !.pc = "answered", !.got = "failed", !.failures = 0]
  <2>1. run' = [run EXCEPT ![w] = n]
    BY <1>1, <1>9 DEF IInv, TypeOK, RunType
  <2>2. n \in RunType
    BY DEF RunType
  <2>3. /\ n.pc = "answered" /\ n.snap = p.snap /\ n.prior = p.prior /\ n.res = p.res
        /\ n.todo = p.todo /\ n.missed = p.missed /\ n.at = {d} /\ n.got = "failed"
    BY <1>3 DEF RunType
  <2> HIDE DEF n
  <2>4. \A e \in Dests : Ticket(w, e)' => Ticket(w, e)
    <3>1. run'[w] = n
      BY <2>1 DEF IInv, TypeOK
    <3> QED BY <1>1, <1>2, <1>6, <2>3, <3>1 DEF Ticket
  <2> QED BY <1>1, <1>3, <1>4, <1>6, <1>7, <1>9, <2>1, <2>2, <2>3, <2>4, RunStep
<1> QED BY <1>8, <1>9 DEF nextSmtpAccount

\* The request uses the ticket up, unless it is refused and another account is to be
\* tried: the ticket stays.
LEMMA sendStep ==
  ASSUME IInv, NEW w \in Workers, send(w)
  PROVE  IInv'
<1>1. PICK p \in RunType :
        /\ p = run[w]
        /\ LedgerBacked(p.snap, accepted) /\ LogBacked(p.prior, accepted) /\ Backed(p.res, accepted)
        /\ p.pc \in {"armed", "again", "answered"} => \E d \in Dests \ p.todo : p.at = {d}
  BY RunFacts
<1>2. p.pc = "armed"
  BY <1>1 DEF send
<1>3. PICK d \in Dests : d \notin p.todo /\ p.at = {d}
  BY <1>1, <1>2
<1>e. PICK h \in run[w].at, took \in BOOLEAN, more \in BOOLEAN,
           got \in {"sent", "failed", "permanent"} :
        /\ got = "sent" => took
        /\ got = "permanent" => Channel[h] = "webhooks" /\ ~took
        /\ more => /\ got = "failed"
                   /\ Channel[h] = "email"
                   /\ run[w].failures + 1 < SmtpAccounts
        /\ IF took /\ got # "sent" THEN Spend("lose") ELSE UNCHANGED left
        /\ accepted' = IF took THEN [accepted EXCEPT ![h] = @ + 1] ELSE accepted
        /\ run' = [run EXCEPT ![w].pc = IF more THEN "again" ELSE "answered", ![w].got = got,
                              ![w].failures = IF more THEN @ + 1 ELSE 0,
                              ![w].missed = IF more /\ took THEN @ \cup {h} ELSE @]
  BY Zenon DEF send
<1>4. /\ got = "sent" => took
      /\ got = "permanent" => Channel[d] = "webhooks" /\ ~took
      /\ accepted' = IF took THEN [accepted EXCEPT ![d] = @ + 1] ELSE accepted
      /\ run' = [run EXCEPT ![w].pc = IF more THEN "again" ELSE "answered", ![w].got = got,
                            ![w].failures = IF more THEN @ + 1 ELSE 0,
                            ![w].missed = IF more /\ took THEN @ \cup {d} ELSE @]
  <2>1. h = d
    BY <1>1, <1>3
  <2> QED BY <1>e, <2>1
<1>z. PICK z \in {"again", "answered"} : z = IF more THEN "again" ELSE "answered"
  OBVIOUS
<1>f. PICK f \in Nat : f = IF more THEN p.failures + 1 ELSE 0
  BY DEF RunType
<1>m. PICK M \in SUBSET Dests : M = IF more /\ took THEN p.missed \cup {d} ELSE p.missed
  BY DEF RunType
<1> DEFINE n == [p EXCEPT !.pc = z, !.got = got, !.failures = f, !.missed = M]
<1>5. run' = [run EXCEPT ![w] = n]
  BY <1>1, <1>4, <1>z, <1>f, <1>m DEF IInv, TypeOK, RunType
<1>6. n \in RunType
  BY DEF RunType
<1>7. /\ n.pc = z /\ n.snap = p.snap /\ n.prior = p.prior /\ n.res = p.res
      /\ n.todo = p.todo /\ n.missed = M /\ n.at = {d} /\ n.got = got
  BY <1>3 DEF RunType
<1> HIDE DEF n
<1>8. UNCHANGED <<row, log, live, retired, window, clearing, died, incident, late, blind, discarded>>
  BY DEF send, environment, outside, notices
<1>9. accepted \in [Dests -> Nat] /\ blind \in [Dests -> Nat]
  BY DEF IInv, TypeOK
<1>10. /\ accepted' \in [Dests -> Nat]
       /\ \A e \in Dests : accepted'[e] = IF took /\ e = d THEN accepted[e] + 1 ELSE accepted[e]
  BY <1>4, <1>9
<1>11. Kept(accepted, accepted')
  BY <1>9, <1>10 DEF Kept
<1>12. row' \in RowType /\ RowInv' /\ ExcludedRowOwesNothing'
  BY <1>8, <1>11, SameRow DEF IInv, TypeOK
<1>13. run'[w] = n /\ \A v \in Workers \ {w} : run'[v] = run[v]
  BY <1>5 DEF IInv, TypeOK
<1>14. ASSUME NEW e \in Dests PROVE SendsCovered(e)'
  <2>1. /\ SendsCovered(e) /\ accepted[e] \in Nat /\ blind[e] \in Nat /\ blind'[e] = blind[e]
    BY <1>8 DEF IInv, TypeOK
  <2>2. \A v \in Workers \ {w} : Ticket(v, e)' => Ticket(v, e)
    BY <1>8, <1>13, OldTicket
  <2>3. CASE e # d
    <3>1. accepted'[e] = accepted[e]
      BY <1>10, <2>3
    <3>2. Ticket(w, e)' => Ticket(w, e)
      BY <1>1, <1>2, <1>m, <1>7, <1>8, <1>13, <2>3 DEF Ticket
    <3> QED BY <2>1, <2>2, <3>1, <3>2, CoverKept
  <2>4. CASE e = d /\ (took \/ ~more)
    <3>1. accepted'[e] <= accepted[e] + 1 /\ accepted'[e] \in Nat
      BY <1>10, <2>1
    <3>2. PICK S, T : S = Tickets(e) /\ T = Tickets(e)'
      OBVIOUS
    <3>3. w \in S
      BY <1>1, <1>2, <1>3, <2>4, <3>2 DEF Tickets, Ticket
    <3>4. w \notin T
      BY <1>3, <1>z, <1>m, <1>7, <1>13, <2>4, <3>2 DEF Tickets, Ticket
    <3>5. T \subseteq S \ {w}
      BY <2>2, <3>2, <3>4 DEF Tickets
    <3>6. IsFiniteSet(S) /\ Cardinality(S) \in Nat /\ Cardinality(T) \in Nat
      BY <3>2, TicketSets
    <3>7. Cardinality(T) <= Cardinality(S) - 1
      <4>1. IsFiniteSet(S \ {w}) /\ Cardinality(S \ {w}) = Cardinality(S) - 1
        BY <3>3, <3>6, FS_RemoveElement
      <4>2. Cardinality(T) <= Cardinality(S \ {w})
        BY <3>5, <4>1, FS_Subset
      <4> QED BY <4>1, <4>2
    <3>8. accepted[e] + Cardinality(S) <= 1 + blind[e]
      BY <2>1, <3>2 DEF SendsCovered
    <3>9. accepted'[e] + Cardinality(T) <= 1 + blind'[e]
      BY <2>1, <3>1, <3>6, <3>7, <3>8
    <3> QED BY <3>2, <3>9 DEF SendsCovered
  <2>5. CASE e = d /\ ~took /\ more
    <3>1. accepted'[e] = accepted[e]
      BY <1>10, <2>5
    <3>2. Ticket(w, e)
      BY <1>1, <1>2, <1>3, <2>5 DEF Ticket
    <3> QED BY <2>1, <2>2, <3>1, <3>2, CoverKept
  <2> QED BY <2>3, <2>4, <2>5
<1>15. PICK a, b : a = accepted /\ b = accepted' /\ Kept(a, b)
  BY <1>11
<1>16. LogBacked(log, b) /\ LedgerBacked(p.snap, b) /\ LogBacked(p.prior, b) /\ Backed(p.res, b)
  <2>1. LogBacked(log, a)
    BY <1>15 DEF IInv
  <2> QED BY <1>1, <1>15, <2>1, LedgerKept, LogKept, BackedKept
<1>17. /\ log' \in LogType /\ LogBacked(log', accepted') /\ left' \in 0 .. MaxDisturbances
       /\ blind' \in [Dests -> Nat]
  BY <1>e, <1>8, <1>15, <1>16, Spent DEF IInv, TypeOK
<1>18. LedgerBacked(n.snap, accepted') /\ LogBacked(n.prior, accepted') /\ Backed(n.res, accepted')
  BY <1>7, <1>15, <1>16
<1>19. \A e \in n.at : /\ n.got = "sent" => accepted'[e] > 0
                       /\ n.got = "permanent" => Channel[e] = "webhooks"
  BY <1>4, <1>7, <1>9, <1>10
<1>20. run[w].pc # "report" /\ d \in Dests \ n.todo
  BY <1>1, <1>2, <1>3, <1>7
<1>21. row'.status = row.status /\ row'.maxed = row.maxed
  BY <1>8
<1> QED BY <1>5, <1>6, <1>7, <1>8, <1>10, <1>11, <1>12, <1>14, <1>17, <1>18, <1>19, <1>20, <1>21, RunMoves

\* The answer of a send enters the log.
LEMMA logDeliveryStep ==
  ASSUME IInv, NEW w \in Workers, logDelivery(w)
  PROVE  IInv'
<1>1. PICK p \in RunType :
        /\ p = run[w]
        /\ LedgerBacked(p.snap, accepted) /\ LogBacked(p.prior, accepted) /\ Backed(p.res, accepted)
        /\ p.pc \in {"armed", "again", "answered"} => \E d \in Dests \ p.todo : p.at = {d}
        /\ p.pc = "answered" => \A d \in p.at : /\ p.got = "sent" => accepted[d] > 0
                                                /\ p.got = "permanent" => Channel[d] = "webhooks"
  BY RunFacts
<1>2. p.pc = "answered"
  BY <1>1 DEF logDelivery
<1>3. PICK d \in Dests : p.at = {d}
  BY <1>1, <1>2
<1>4. /\ p.got = "sent" => accepted[d] > 0
      /\ p.got = "permanent" => Channel[d] = "webhooks"
      /\ p.got \in {"none", "sent", "failed", "permanent"}
      /\ p.res \in [Dests -> DestStates]
      /\ p.got \in DestStates
  BY <1>1, <1>2, <1>3 DEF RunType, DestStates
<1> DEFINE o == [p.res EXCEPT ![d] = p.got]
           n == [p EXCEPT !.pc = "loop", !.at = {}, !.got = "none", !.res = o]
<1>5. o \in [Dests -> DestStates] /\ Backed(o, accepted)
  BY <1>1, <1>4, BackedUpdate
<1>6. run' = [run EXCEPT ![w] = n]
  <2>1. run' = [run EXCEPT ![w].pc = "loop", ![w].at = {}, ![w].got = "none", ![w].res[d] = run[w].got]
    BY <1>1, <1>3 DEF logDelivery
  <2>2. run' = [run EXCEPT ![w].pc = "loop", ![w].at = {}, ![w].got = "none", ![w].res[d] = p.got]
    BY <1>1, <2>1
  <2> QED BY <1>1, <2>2 DEF IInv, TypeOK, RunType
<1> HIDE DEF o
<1>7. n \in RunType
  BY <1>5 DEF RunType
<1>8. /\ n.pc = "loop" /\ n.snap = p.snap /\ n.prior = p.prior /\ n.res = o /\ n.todo = p.todo
      /\ n.missed = p.missed
  BY DEF RunType
<1> HIDE DEF n
<1>9. UNCHANGED <<row, live, retired, window, clearing, left, died, incident, late, accepted, blind, discarded>>
  BY DEF logDelivery, environment, outside, notices
<1>10. row' \in RowType /\ RowInv' /\ ExcludedRowOwesNothing'
  <2>1. Kept(accepted, accepted')
    BY <1>9 DEF Kept
  <2> QED BY <1>9, <2>1, SameRow DEF IInv, TypeOK
<1>11. \A e \in Dests : Ticket(w, e)' => Ticket(w, e)
  <2>1. run'[w] = n
    BY <1>6 DEF IInv, TypeOK
  <2> QED BY <1>1, <1>2, <1>8, <1>9, <2>1 DEF Ticket
<1>12. log' \in LogType /\ LogBacked(log', accepted)
  <2>1. log \in LogType /\ LogBacked(log, accepted)
    BY DEF IInv, TypeOK
  <2>2. log[d].ok \in BOOLEAN /\ log[d].last \in DestStates /\ log[d].perm \in Int
    BY <2>1 DEF LogType
  <2>3. PICK y \in BOOLEAN : y = (log[d].ok \/ p.got = "sent")
    BY <2>2, Zenon
  <2>4. PICK k \in Int : k = IF p.got = "permanent" /\ p.snap.gen > log[d].perm
                             THEN p.snap.gen ELSE log[d].perm
    BY <2>2 DEF RunType, RowType
  <2>z. PICK z \in [ok : BOOLEAN, last : DestStates, perm : Int] : z = log[d]
    BY <2>1 DEF LogType
  <2> DEFINE f == [z EXCEPT !.last = p.got, !.ok = y, !.perm = k]
  <2>5. log' = [log EXCEPT ![d] = f]
    <3>1. log' = [log EXCEPT ![d].last = p.got, ![d].ok = @ \/ p.got = "sent",
                             ![d].perm = IF p.got = "permanent" /\ p.snap.gen > @
                                         THEN p.snap.gen ELSE @]
      BY <1>1, <1>3 DEF logDelivery
    <3>2. log' = [log EXCEPT ![d] = [log[d] EXCEPT !.last = p.got, !.ok = y, !.perm = k]]
      BY <2>1, <2>3, <2>4, <3>1 DEF LogType
    <3> QED BY <2>z, <3>2
  <2>6. f \in [ok : BOOLEAN, last : DestStates, perm : Int] /\ f.ok = y /\ f.last = p.got
    BY <1>4
  <2> HIDE DEF f
  <2>7. log' \in LogType /\ \A e \in Dests : log'[e] = IF e = d THEN f ELSE log[e]
    BY <2>1, <2>5, <2>6 DEF LogType
  <2>8. y => accepted[d] > 0
    BY <1>4, <2>1, <2>3 DEF LogBacked
  <2>9. ASSUME NEW e \in Dests
        PROVE  /\ log'[e].last = "sent" => accepted[e] > 0
               /\ log'[e].last = "permanent" => Channel[e] = "webhooks"
               /\ log'[e].last = "excluded" => Channel[e] # "webhooks"
               /\ log'[e].ok => accepted[e] > 0
    <3>1. CASE e = d
      BY <1>4, <2>6, <2>7, <2>8, <3>1
    <3>2. CASE e # d
      <4>1. log'[e] = log[e]
        BY <2>7, <3>2
      <4> QED BY <2>1, <4>1 DEF LogBacked, Backed
    <3> QED BY <3>1, <3>2
  <2> QED BY <2>7, <2>9 DEF LogBacked, Backed
<1>13. run[w].pc # "report" /\ left' \in 0 .. MaxDisturbances
  BY <1>1, <1>2, <1>9 DEF IInv, TypeOK
<1>14. row'.claim = row.claim /\ row'.status = row.status /\ row'.maxed = row.maxed
  BY <1>9
<1> QED BY <1>1, <1>5, <1>6, <1>7, <1>8, <1>9, <1>10, <1>11, <1>12, <1>13, <1>14, RunStep

\* The insert into the log throws.
LEMMA channelThrowsStep ==
  ASSUME IInv, NEW w \in Workers, channelThrows(w)
  PROVE  IInv'
<1>1. PICK p \in RunType :
        /\ p = run[w]
        /\ LedgerBacked(p.snap, accepted) /\ LogBacked(p.prior, accepted) /\ Backed(p.res, accepted)
  BY RunFacts
<1>2. p.pc = "answered" /\ p.todo \in SUBSET Dests /\ p.res \in [Dests -> DestStates]
  BY <1>1 DEF channelThrows, RunType
<1>3. PICK c : c = Channel[CHOOSE d \in p.at : TRUE]
  OBVIOUS
<1>4. PICK t \in SUBSET Dests : t = p.todo \ Of(c, Dests)
  BY <1>2
<1> DEFINE o == [d \in Dests |-> IF c = "webhooks" /\ Channel[d] = c THEN "none" ELSE p.res[d]]
           n == [p EXCEPT !.pc = "loop", !.at = {}, !.got = "none", !.todo = t, !.res = o]
<1>5. o \in [Dests -> DestStates] /\ Backed(o, accepted)
  BY <1>1, <1>2 DEF Backed, DestStates
<1>6. run' = [run EXCEPT ![w] = n]
  <2>1. run' = [run EXCEPT ![w].pc = "loop", ![w].at = {}, ![w].got = "none",
                           ![w].todo = @ \ Of(c, Dests),
                           ![w].res = [d \in Dests |-> IF c = "webhooks" /\ Channel[d] = c
                                                       THEN "none" ELSE @[d]]]
    BY <1>1, <1>3, ZenonT(60) DEF channelThrows
  <2>2. run' = [run EXCEPT ![w].pc = "loop", ![w].at = {}, ![w].got = "none",
                           ![w].todo = t, ![w].res = o]
    BY <1>1, <1>4, <2>1
  <2> HIDE DEF o
  <2> QED BY <1>1, <2>2 DEF IInv, TypeOK, RunType
<1> HIDE DEF o
<1>7. n \in RunType
  BY <1>5 DEF RunType
<1>8. /\ n.pc = "loop" /\ n.snap = p.snap /\ n.prior = p.prior /\ n.res = o /\ n.todo = t
      /\ n.missed = p.missed
  BY DEF RunType
<1> HIDE DEF n
<1>9. UNCHANGED <<row, log, live, retired, window, clearing, died, incident, late, accepted, blind, discarded>>
  BY DEF channelThrows, outside, notices
<1>10. row' \in RowType /\ RowInv' /\ ExcludedRowOwesNothing'
  <2>1. Kept(accepted, accepted')
    BY <1>9 DEF Kept
  <2> QED BY <1>9, <2>1, SameRow DEF IInv, TypeOK
<1>11. \A e \in Dests : Ticket(w, e)' => Ticket(w, e)
  <2>1. run'[w] = n
    BY <1>6 DEF IInv, TypeOK
  <2> QED BY <1>1, <1>2, <1>4, <1>8, <1>9, <2>1 DEF Ticket
<1>12. log' \in LogType /\ LogBacked(log', accepted)
  BY <1>9 DEF IInv, TypeOK
<1>13. run[w].pc # "report" /\ left' \in 0 .. MaxDisturbances
  BY <1>1, <1>2, Spent DEF IInv, channelThrows
<1>14. row'.claim = row.claim /\ row'.status = row.status /\ row'.maxed = row.maxed
  BY <1>9
<1> QED BY <1>1, <1>5, <1>6, <1>7, <1>8, <1>9, <1>10, <1>11, <1>12, <1>13, <1>14, RunStep

\* The counters of failures are numbers.
LEMMA Counted ==
  ASSUME NEW r \in RunType, NEW A
  PROVE  newAttempts(r, A) \in [ALLCHANNELS -> Nat]
<1>1. r.snap.tries \in [ALLCHANNELS -> Nat]
  BY DEF RunType, RowType
<1>2. ASSUME NEW c \in ALLCHANNELS PROVE newAttempts(r, A)[c] \in Nat
  <2>1. newAttempts(r, A)[c] \in {r.snap.tries[c], 0, r.snap.tries[c] + 1}
    BY DEF newAttempts
  <2> QED BY <1>1, <2>1
<1>3. newAttempts(r, A) = [c \in ALLCHANNELS |-> newAttempts(r, A)[c]]
  BY DEF newAttempts
<1> QED BY <1>2, <1>3

\* What a run would write: a row the invariant allows, with a report of it when
\* it is blocked for its attempts.
LEMMA Settlement ==
  ASSUME NEW r \in RunType, NEW a,
         LedgerBacked(r.snap, a), LogBacked(r.prior, a), Backed(r.res, a)
  PROVE  LET n == settlement(r).row
             say == settlement(r).say
         IN  /\ n \in RowType /\ n.claim = NoWorker /\ n.ledger
             /\ LedgerBacked(n, a)
             /\ n.maxed => n.status = "blocked"
             /\ n.status = "sent" => \A c \in n.required : n.state[c] = "sent"
             /\ n.status = "partial" /\ n.retry = {} => \A c \in n.required : n.state[c] \notin Retryable
             /\ say \in {"none", "resolve", "blocked", "warning"}
             /\ say = "resolve" => n.status = "sent"
             /\ n.status = "blocked" /\ n.maxed => say = "blocked"
<1> DEFINE A == channelsForDeliveryAttempt(r)
           ledger == mergeDeliveryAttempt(r, A)
           held == r.snap.required \cup r.snap.retry
                   \cup {c \in ALLCHANNELS : r.snap.state[c] # "none"}
           required == IF r.snap.ledger THEN held \cup ChannelsOf(r.live) ELSE ChannelsOf(r.live)
           tries == newAttempts(r, A)
           maxed == \E c \in ALLCHANNELS : tries[c] >= MaxAttempts
           barred == whatsappPermanentFailure(r, A)
           status == IF maxed \/ barred THEN "blocked"
                     ELSE deliveryDisposition(ledger.state, required)
           retry == toRetry(ledger.state, required)
           later == IF barred THEN {} ELSE retry
           wait == /\ status \notin {"sent", "blocked"}
                   /\ retry # {}
                   /\ \E c \in A : tries[c] >= CooldownFrom /\ tries[c] > r.snap.tries[c]
           new == [r.snap EXCEPT
                     !.status = status, !.ledger = TRUE, !.state = ledger.state,
                     !.out = ledger.out, !.cur = ledger.cur, !.required = required,
                     !.retry = later,
                     !.tried = TRUE, !.tries = tries, !.maxed = maxed, !.claim = NoWorker,
                     !.wait = wait]
           word == IF status = "sent" THEN "resolve"
                   ELSE IF maxed \/ barred THEN "blocked"
                   ELSE IF \E c \in ALLCHANNELS : tries[c] >= DegradedFrom THEN "warning" ELSE "none"
<1>1. settlement(r) = [row |-> new, say |-> word]
  BY DEF settlement
<1>2. settlement(r).row = new /\ settlement(r).say = word
  <2> HIDE DEF new, word
  <2> QED BY <1>1
<1>3. r.live \in SUBSET Dests /\ r.snap \in RowType
  BY DEF RunType
<1>4. A \in SUBSET ChannelsOf(r.live) /\ ChannelsOf(r.live) \in SUBSET ALLCHANNELS
  BY <1>3, ChannelSets DEF channelsForDeliveryAttempt
<1> HIDE DEF A
<1>5. /\ ledger.out \in [Dests -> DestStates]
      /\ ledger.cur \in SUBSET Dests
      /\ ledger.state \in [ALLCHANNELS -> ChannelStates]
      /\ LedgerBacked(ledger, a)
  BY <1>4, Merge
<1> HIDE DEF ledger
<1>6. required \in SUBSET ALLCHANNELS
  BY <1>3, <1>4 DEF RowType
<1> HIDE DEF required, held
<1>7. tries \in [ALLCHANNELS -> Nat]
  BY Counted
<1> HIDE DEF tries
<1>8. maxed \in BOOLEAN /\ wait \in BOOLEAN
  BY Zenon
<1>9. /\ deliveryDisposition(ledger.state, required) \in {"sent", "partial", "blocked", "failed"}
      /\ deliveryDisposition(ledger.state, required) = "sent" =>
           \A c \in required : ledger.state[c] = "sent"
      /\ retry \in SUBSET ALLCHANNELS
      /\ retry = {} => \A c \in required : ledger.state[c] \notin Retryable
  BY <1>5, <1>6, Disposition
<1> HIDE DEF retry, barred
<1>10. /\ status \in {"sent", "partial", "blocked", "failed"}
       /\ status = "sent" => \A c \in required : ledger.state[c] = "sent"
       /\ maxed => status = "blocked"
       /\ status = "partial" /\ later = {} => \A c \in required : ledger.state[c] \notin Retryable
       /\ later \in SUBSET ALLCHANNELS
  <2> HIDE DEF maxed
  <2> QED BY <1>9
<1>11. /\ word \in {"none", "resolve", "blocked", "warning"}
       /\ word = "resolve" => status = "sent"
       /\ status = "blocked" /\ maxed => word = "blocked"
  <2> HIDE DEF status, maxed
  <2> QED OBVIOUS
<1> HIDE DEF maxed, status, wait, later, word
<1> DEFINE o == ledger.out
           u == ledger.cur
           t == ledger.state
<1>12. PICK q \in RowType : q = r.snap
  BY <1>3
<1>13. PICK n : /\ n = new
                /\ n = [q EXCEPT !.status = status, !.ledger = TRUE, !.state = t, !.out = o, !.cur = u,
                                 !.required = required, !.retry = later, !.tried = TRUE,
                                 !.tries = tries, !.maxed = maxed, !.claim = NoWorker, !.wait = wait]
  BY <1>12
<1> HIDE DEF new
<1>14. o \in [Dests -> DestStates] /\ u \in SUBSET Dests /\ t \in [ALLCHANNELS -> ChannelStates]
  BY <1>5
<1> HIDE DEF o, u, t
<1>15. n \in RowType
  <2>1. n = [q EXCEPT !.status = status, !.ledger = TRUE, !.state = t, !.out = o, !.cur = u,
                      !.required = required, !.retry = later, !.tried = TRUE,
                      !.tries = tries, !.maxed = maxed, !.claim = NoWorker, !.wait = wait]
    BY <1>13, Zenon
  <2>2. status \in {"absent", "sent", "blocked"} \cup OpenStatuses
    BY <1>10 DEF OpenStatuses
  <2> QED BY <1>6, <1>7, <1>8, <1>10, <1>14, <2>1, <2>2 DEF RowType
<1>16. /\ n.status = status /\ n.ledger = TRUE /\ n.state = t /\ n.out = o /\ n.cur = u
       /\ n.required = required /\ n.retry = later /\ n.maxed = maxed /\ n.claim = NoWorker
  BY <1>13 DEF RowType
<1>17. LedgerBacked(n, a)
  BY <1>5, <1>16, SameLedger DEF o, u, t
<1>18. /\ n.maxed => n.status = "blocked"
       /\ n.status = "sent" => \A c \in n.required : n.state[c] = "sent"
       /\ n.status = "partial" /\ n.retry = {} => \A c \in n.required : n.state[c] \notin Retryable
       /\ word = "resolve" => n.status = "sent"
       /\ n.status = "blocked" /\ n.maxed => word = "blocked"
  BY <1>10, <1>11, <1>16 DEF t
<1>19. settlement(r).row = n /\ n.ledger /\ n.claim = NoWorker
  BY <1>2, <1>13, <1>16
<1> HIDE DEF word
<1> QED BY <1>2, <1>11, <1>15, <1>17, <1>18, <1>19, Zenon

\* The settlement: a run that holds the row writes it, one that does not changes
\* nothing.
LEMMA settleAlertStep ==
  ASSUME IInv, NEW w \in Workers, settleAlert(w)
  PROVE  IInv'
<1>1. PICK r \in RunType :
        /\ r = run[w]
        /\ LedgerBacked(r.snap, accepted) /\ LogBacked(r.prior, accepted) /\ Backed(r.res, accepted)
  BY RunFacts
<1>2. PICK n \in RowType, say \in {"none", "resolve", "blocked", "warning"} :
        /\ n = settlement(r).row /\ say = settlement(r).say
        /\ n.claim = NoWorker /\ n.ledger
        /\ LedgerBacked(n, accepted)
        /\ n.maxed => n.status = "blocked"
        /\ n.status = "sent" => \A c \in n.required : n.state[c] = "sent"
        /\ n.status = "partial" /\ n.retry = {} => \A c \in n.required : n.state[c] \notin Retryable
        /\ say = "resolve" => n.status = "sent"
        /\ n.status = "blocked" /\ n.maxed => say = "blocked"
  BY <1>1, Settlement
<1>3. PICK told \in RunType :
        /\ told = IF say = "none" THEN IdleRun ELSE [IdleRun EXCEPT !.pc = "report", !.say = say]
        /\ \/ told = IdleRun /\ say = "none"
           \/ told.pc = "report" /\ told.say = say /\ say # "none" /\ told.snap = IdleRun.snap
              /\ told.prior = IdleRun.prior /\ told.res = IdleRun.res
  <2> DEFINE told == [IdleRun EXCEPT !.pc = "report", !.say = say]
  <2>1. told \in RunType
    BY Constants DEF RunType
  <2>2. /\ told.pc = "report" /\ told.say = say /\ told.snap = IdleRun.snap
        /\ told.prior = IdleRun.prior /\ told.res = IdleRun.res
    BY Constants DEF RunType
  <2> HIDE DEF told
  <2>3. CASE say = "none"
    BY <2>3, Constants
  <2>4. CASE say # "none"
    BY <2>1, <2>2, <2>4 DEF told
  <2> QED BY <2>3, <2>4
<1>4. /\ run[w].pc = "loop"
      /\ UNCHANGED <<log, live, retired, window, clearing, left, died, incident, late, accepted, blind, discarded>>
  BY DEF settleAlert, environment, outside, notices
<1>5. IF row.claim = w
      THEN row' = n /\ run' = [run EXCEPT ![w] = told]
      ELSE run' = [run EXCEPT ![w] = IdleRun] /\ UNCHANGED row
  BY <1>1, <1>2, <1>3 DEF settleAlert
<1>6. CASE row.claim # w
  <2>1. left' \in 0 .. MaxDisturbances /\ died' \in BOOLEAN
    BY <1>4 DEF IInv, TypeOK
  <2> QED BY <1>4, <1>5, <1>6, <2>1, RunLeaves
<1>7. CASE row.claim = w
  <2>1. row' = n /\ run' = [run EXCEPT ![w] = told]
    BY <1>5, <1>7
  <2>2. run'[w] = told /\ \A v \in Workers \ {w} : run'[v] = run[v]
    BY <2>1 DEF IInv, TypeOK
  <2>3. TypeOK'
    BY <1>4, <2>1 DEF IInv, TypeOK
  <2>4. RowInv'
    BY <1>2, <1>4, <2>1 DEF RowInv
  <2>5. ExcludedRowOwesNothing'
    BY <1>2, <2>1 DEF ExcludedRowOwesNothing
  <2>6. BlockedIsReported'
    <3> SUFFICES ASSUME n.status = "blocked", n.maxed
                 PROVE  run'[w].pc = "report" /\ run'[w].say # "resolve"
      BY <2>1 DEF BlockedIsReported
    <3>1. say = "blocked"
      BY <1>2
    <3> QED BY <1>3, <2>2, <3>1
  <2>7. row.status # "sent"
    BY <1>7, WorkersAssumption DEF IInv, RowInv
  <2>8. RunInv(w)' /\ \A d : ~Ticket(w, d)'
    <3>1. CASE told = IdleRun
      BY <2>2, <3>1, RunIdle
    <3>2. CASE told # IdleRun
      <4>1. /\ told.pc = "report" /\ told.say = say /\ say # "none"
            /\ told.snap = IdleRun.snap /\ told.prior = IdleRun.prior /\ told.res = IdleRun.res
        BY <1>3, <3>2
      <4>2. PICK b : b = accepted'
        OBVIOUS
      <4>3. LedgerBacked(told.snap, b) /\ LogBacked(told.prior, b) /\ Backed(told.res, b)
        BY <4>1, Constants
      <4>4. say = "resolve" => row'.status = "sent"
        BY <1>2, <2>1
      <4> QED BY <2>2, <4>1, <4>2, <4>3, <4>4 DEF RunInv, Ticket
    <3> QED BY <3>1, <3>2
  <2>9. \A v \in Workers : RunInv(v)'
    <3>1. Kept(accepted, accepted')
      BY <1>4 DEF Kept
    <3> QED BY <2>2, <2>7, <2>8, <3>1, OthersKept
  <2>10. \A d \in Dests : SendsCovered(d)'
    BY <1>2, <1>4, <2>1, <2>2, <2>8, SendsKept
  <2>11. LogBacked(log, accepted)'
    BY <1>4 DEF IInv
  <2> QED BY <2>3, <2>4, <2>5, <2>6, <2>9, <2>10, <2>11 DEF IInv
<1> QED BY <1>6, <1>7

(***************************************************************************)
(* The theorems                                                            *)
(***************************************************************************)

LEMMA NextKeeps ==
  ASSUME IInv, [Next]_vars
  PROVE  IInv'
<1>1. CASE UNCHANGED vars
  <2>1. /\ UNCHANGED <<row, log, run, incident, late, accepted, blind, discarded, died>>
        /\ UNCHANGED <<live, retired, window, clearing, left>>
    BY <1>1 DEF vars
  <2>2. /\ live' \in SUBSET Dests /\ retired' \in BOOLEAN /\ left' \in 0 .. MaxDisturbances
        /\ window' \in Windows /\ clearing' \in Nat
    BY <2>1 DEF IInv, TypeOK
  <2> QED BY <2>1, <2>2, Environment
<1>2. CASE queueAlert
  BY <1>2, queueAlertStep
<1>3. CASE reconcileDeliveryChannels
  BY <1>3, reconcileDeliveryChannelsStep
<1>4. ASSUME NEW c \in ALLCHANNELS, planManualRetry(c) PROVE IInv'
  BY <1>4, planManualRetryStep
<1>5. CASE requeueAlertsCore
  BY <1>5, requeueAlertsCoreStep
<1>6. ASSUME NEW D \in SUBSET Dests, assignContactGroups(D) PROVE IInv'
  <2>1. left' \in 0 .. MaxDisturbances
    BY <1>6, Spent DEF IInv, assignContactGroups
  <2>2. /\ live' \in SUBSET Dests /\ retired' \in BOOLEAN /\ window' \in Windows /\ clearing' \in Nat
        /\ UNCHANGED <<row, log, run, incident, late, accepted, blind, discarded, died>>
    BY <1>6 DEF IInv, TypeOK, assignContactGroups, notices
  <2> QED BY <2>1, <2>2, Environment
<1>7. CASE retireCertificate
  BY <1>7, retireCertificateStep
<1>15. CASE loadRenewalAlertCertificate
  <2>1. /\ live' \in SUBSET Dests /\ retired' \in BOOLEAN /\ left' \in 0 .. MaxDisturbances
        /\ window' \in Windows /\ clearing' \in Nat
        /\ UNCHANGED <<row, log, run, incident, late, accepted, blind, discarded, died>>
    BY <1>15 DEF IInv, TypeOK, loadRenewalAlertCertificate, notices, Windows
  <2> QED BY <2>1, Environment
<1>16. CASE queueCertRenewalFailedAlert
  BY <1>16, queueCertRenewalFailedAlertStep
<1>17. CASE resolveRequeuedNotifications
  BY <1>17, resolveRequeuedNotificationsStep
<1>8. CASE nextAttemptDue
  BY <1>8, nextAttemptDueStep
<1>9. ASSUME NEW w \in Workers, claimAlert(w) PROVE IInv'
  BY <1>9, claimAlertStep
<1>10. ASSUME NEW w \in Workers, runStep(w) PROVE IInv'
  <2>1. CASE DeliveryOwnershipLost(w)
    BY <2>1, DeliveryOwnershipLostStep
  <2>2. CASE discardRetired(w)
    BY <2>2, discardRetiredStep
  <2>3. CASE noRetryLeft(w)
    BY <2>3, noRetryLeftStep
  <2>4. ASSUME NEW prior \in {log, EmptyLog}, noContacts(w, prior) PROVE IInv'
    BY <2>4, noContactsStep
  <2>5. ASSUME NEW prior \in {log, EmptyLog}, beginDelivery(w, prior) PROVE IInv'
    BY <2>5, beginDeliveryStep
  <2>6. ASSUME NEW d \in Dests, skipDestination(w, d) PROVE IInv'
    BY <2>6, skipDestinationStep
  <2>7. ASSUME NEW d \in Dests, withholdRecipient(w, d) PROVE IInv'
    BY <2>7, withholdRecipientStep
  <2>8. ASSUME NEW d \in Dests, armSend(w, d) PROVE IInv'
    BY <2>8, armSendStep
  <2>9. CASE send(w)
    BY <2>9, sendStep
  <2>10. CASE logDelivery(w)
    BY <2>10, logDeliveryStep
  <2>11. CASE settleAlert(w)
    BY <2>11, settleAlertStep
  <2>12. CASE reportOutcome(w)
    BY <2>12, reportOutcomeStep
  <2>13. CASE nextSmtpAccount(w)
    BY <2>13, nextSmtpAccountStep
  <2> QED BY <1>10, <2>1, <2>2, <2>3, <2>4, <2>5, <2>6, <2>7, <2>8, <2>9, <2>10, <2>11, <2>12, <2>13
          DEF runStep
<1>11. ASSUME NEW w \in Workers, deferDelivery(w) PROVE IInv'
  BY <1>11, deferDeliveryStep
<1>12. ASSUME NEW w \in Workers, channelThrows(w) PROVE IInv'
  BY <1>12, channelThrowsStep
<1>13. ASSUME NEW w \in Workers, crash(w) PROVE IInv'
  BY <1>13, crashStep
<1>14. CASE reconcileStaleDeliveryIncidents
  BY <1>14, reconcileStaleDeliveryIncidentsStep
<1> QED BY <1>1, <1>2, <1>3, <1>4, <1>5, <1>6, <1>7, <1>8, <1>9, <1>10, <1>11, <1>12, <1>13, <1>14,
           <1>15, <1>16, <1>17
        DEF Next

\* The inductive invariant: the types, the ledger backed by what providers
\* accepted, and a covered send for every run that may still make one.
THEOREM Invariant == Spec => []IInv
<1>1. Init => IInv
  BY InitHolds
<1>2. IInv /\ [Next]_vars => IInv'
  BY NextKeeps
<1> QED BY <1>1, <1>2, PTL DEF Spec

\* The row, the log and the runs have their types.
THEOREM TypeCorrect == Spec => []TypeOK
<1>1. IInv => TypeOK
  BY DEF IInv
<1> QED BY <1>1, Invariant, PTL

\* A destination is sent to again only by a run whose history lacks an earlier send
\* (priorDeliveryRows), or by the next SMTP account after one that took the mail and
\* did not say so (assertStillOwnsDelivery before every send, and the successes the
\* log holds).
THEOREM SendsExplained == Spec => []DuplicatesExplained
<1>1. IInv => DuplicatesExplained
  <2> SUFFICES ASSUME IInv, NEW d \in Dests PROVE accepted[d] <= 1 + blind[d]
    BY DEF DuplicatesExplained
  <2>1. accepted[d] \in Nat /\ blind[d] \in Nat /\ Cardinality(Tickets(d)) \in Nat
    BY TicketSets DEF IInv, TypeOK
  <2>2. accepted[d] + Cardinality(Tickets(d)) <= 1 + blind[d]
    BY DEF IInv, SendsCovered
  <2> QED BY <2>1, <2>2
<1> QED BY <1>1, Invariant, PTL

\* A row that settleAlert or noContacts closed as sent was accepted on every
\* channel it requires, by every destination it was settled for but the excluded.
THEOREM SentIsDelivered == Spec => []SentMeansDelivered
<1>1. IInv => SentMeansDelivered
  <2> SUFFICES ASSUME IInv, row.status = "sent", ~discarded, NEW c \in row.required
               PROVE  /\ \A d \in Of(c, row.cur) : accepted[d] > 0 \/ row.out[d] = "excluded"
                      /\ \E d \in Of(c, Dests) : accepted[d] > 0
    BY DEF SentMeansDelivered
  <2>1. row.state[c] = "sent" /\ LedgerBacked(row, accepted)
    BY DEF IInv, RowInv
  <2>2. c \in ALLCHANNELS /\ row.cur \in SUBSET Dests
    BY DEF IInv, TypeOK, RowType
  <2>3. Reached(row.out, Of(c, row.cur)) /\ Backed(row.out, accepted)
    BY <2>1, <2>2 DEF LedgerBacked
  <2>4. Of(c, row.cur) \subseteq Dests /\ Of(c, row.cur) \subseteq Of(c, Dests)
    BY <2>2 DEF Of
  <2> QED BY <2>3, <2>4 DEF Reached, Backed
<1> QED BY <1>1, Invariant, PTL

\* A row that the claim query never takes again owes nobody a delivery.
THEOREM NothingOwed == Spec => []ExcludedRowOwesNothing
<1>1. IInv => ExcludedRowOwesNothing
  BY DEF IInv
<1> QED BY <1>1, Invariant, PTL

\* A row that ran out of attempts is reported, unless a run died in between or the
\* resolution of an earlier retry came after the report.
THEOREM BlockedReported == Spec => []BlockedIsReported
<1>1. IInv => BlockedIsReported
  BY DEF IInv
<1> QED BY <1>1, Invariant, PTL
=============================================================================
