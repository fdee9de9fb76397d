---------------------------- MODULE AutoSync_proof ----------------------------
(***************************************************************************)
(* Proofs about AutoSync, for every number of configurations and source    *)
(* objects, and however often users, the schedule, the provider and faults *)
(* interfere.                                                              *)
(*                                                                         *)
(* IInv carries them.  Runs and scans only grow: a run keeps its scan, a   *)
(* scan its owner and what it found (WorkersGrow, ScansGrow), and nearly   *)
(* every step leaves a link alone or removes it (LinkKept).  Such a step   *)
(* cannot disturb what is said of links, fence and cleanup (History);      *)
(* importing an item and reconciling a run, which can, are argued one by   *)
(* one.                                                                    *)
(***************************************************************************)
EXTENDS AutoSync, TLAPS

Phases == {"started", "listed", "persisted", "importing", "answered", "refused"}

WorkersGrow ==
  \A c \in Configs :
    /\ Len(worker'[c]) >= Len(worker[c])
    /\ \A g \in DOMAIN worker[c] :
         \/ worker'[c][g].scan = worker[c][g].scan
         \/ worker[c][g].scan = 0 /\ worker'[c][g].scan = Len(scan) + 1
    /\ \A g \in DOMAIN worker'[c] : g > Len(worker[c]) => worker'[c][g].scan = 0

\* What scan s may become: it keeps what it found, and stores it no later than
\* the tokens it found show it.
ScanGrows(s) ==
  /\ scan'[s].by = scan[s].by
  /\ scan[s].phase # "started" => /\ scan'[s].items = scan[s].items
                                  /\ scan'[s].scope = scan[s].scope
                                  /\ scan'[s].phase # "started"
  /\ scan[s].phase \in Imported => scan'[s].phase \in Imported
  /\ scan[s].phase \notin Stored /\ scan'[s].phase \in Stored =>
       \A x \in scan'[s].items : token'[x].row => token'[x].observed >= s

ScansGrow ==
  /\ Len(scan') >= Len(scan)
  /\ \A s \in Scans : ScanGrows(s)
  /\ \A s \in DOMAIN scan' : s > Len(scan) => scan'[s].phase = "started" /\ ~scan'[s].consumed

LinkKept(x, c) ==
  token'[x].seen[c] # 0 =>
    /\ token'[x].seen[c] = token[x].seen[c]
    /\ token'[x].observed >= token[x].observed

ActiveMoves(c) == cfg'[c].active \in {0, cfg[c].active, Len(status[c]) + 1}

ConsumedKept == \A s \in Scans : scan[s].by # ByUser /\ scan'[s].consumed => scan[s].consumed

(***************************************************************************)
(* The history                                                             *)
(***************************************************************************)

\* The types of what is reached through the variables.
LEMMA Types ==
  ASSUME ShapeOK
  PROVE  /\ \A c \in Configs : /\ cfg[c] \in ConfigType
                               /\ status[c] \in Seq(StatusType)
                               /\ worker[c] \in Seq(WorkerType)
                               /\ Len(status[c]) \in Nat
                               /\ Len(worker[c]) \in Nat
                               /\ DOMAIN worker[c] = 1 .. Len(worker[c])
                               /\ DOMAIN status[c] = 1 .. Len(status[c])
                               /\ \A g \in DOMAIN worker[c] : /\ worker[c][g] \in WorkerType
                                                              /\ g \in Nat
         /\ \A s \in Scans : scan[s] \in ScanType /\ s \in Nat /\ s # 0
         /\ Scans = 1 .. Len(scan)
         /\ Len(scan) \in Nat
         /\ \A x \in Items : /\ token[x] \in TokenType
                             /\ token[x].observed \in Nat
                             /\ \A c \in Configs : token[x].seen[c] \in Nat
<1>1. \A c \in Configs : /\ cfg[c] \in ConfigType
                         /\ status[c] \in Seq(StatusType)
                         /\ worker[c] \in Seq(WorkerType)
  BY DEF ShapeOK
<1>2. \A x \in Items : token[x] \in TokenType
  BY DEF ShapeOK
<1> QED BY <1>1, <1>2 DEF ShapeOK, TokenType, Scans

LEMMA OwnerIsNoUser == ASSUME NEW c, NEW g PROVE <<c, g>> # ByUser
BY DEF ByUser

\* Links and the fence survive a step that keeps the link of x to c.
LEMMA History ==
  ASSUME IInv, TypeOK', WorkersGrow, ScansGrow,
         NEW x \in Items, NEW c \in Configs, LinkKept(x, c), TokenInv(x)'
  PROVE  SeenInv(x, c)' /\ FenceInv(x, c)'
<1> SUFFICES ASSUME token'[x].seen[c] # 0 PROVE SeenInv(x, c)' /\ FenceInv(x, c)'
  BY DEF SeenInv, FenceInv
<1> DEFINE g == token[x].seen[c]
           s == worker[c][g].scan
<1>0. ShapeOK /\ ShapeOK' /\ SeenInv(x, c) /\ FenceInv(x, c)
  BY DEF IInv, TypeOK
<1>1. /\ token'[x].seen[c] = token[x].seen[c]
      /\ token'[x].observed >= token[x].observed
      /\ token'[x].row
  BY DEF LinkKept, TokenInv
<1>2. g # 0 /\ g \in DOMAIN worker[c]
  <2>1. g \in 0 .. Len(status[c]) /\ Len(worker[c]) = Len(status[c])
    BY DEF IInv, TypeOK
  <2> QED BY <1>0, <1>1, <2>1, Types
<1>3. s # 0 /\ s \in Scans /\ x \in scan[s].items /\ scan[s].phase \in Imported
  <2>1. s \in 0 .. Len(scan)
    BY <1>2 DEF IInv, TypeOK
  <2>2. s # 0 /\ x \in scan[s].items /\ scan[s].phase \in Imported
    BY <1>0, <1>2 DEF SeenInv
  <2>3. Scans = 1 .. Len(scan) /\ Len(scan) \in Nat
    BY <1>0, Types
  <2> HIDE DEF s
  <2>4. s \in Scans
    BY <2>1, <2>2, <2>3
  <2> QED BY <2>2, <2>4
<1>4. worker'[c][g].scan = s
  BY <1>2, <1>3 DEF WorkersGrow
<1>5. scan'[s].items = scan[s].items /\ scan'[s].phase \in Imported
  BY <1>3 DEF ScansGrow, ScanGrows, Imported
<1>6. SeenInv(x, c)'
  BY <1>1, <1>3, <1>4, <1>5 DEF SeenInv
<1>7. FenceInv(x, c)'
  <2> SUFFICES ASSUME NEW l \in DOMAIN scan', scan'[l].phase \in Stored, x \in scan'[l].items,
                      token'[x].observed < l,
                      NEW h \in DOMAIN worker'[c], h > g
               PROVE  worker'[c][h].scan = 0 \/ worker'[c][h].scan > l
    BY <1>1 DEF FenceInv, Scans
  <2>0. /\ l \in Nat /\ h \in Nat
        /\ DOMAIN scan' = 1 .. Len(scan') /\ DOMAIN worker'[c] = 1 .. Len(worker'[c])
        /\ Len(scan') \in Nat /\ Len(worker'[c]) \in Nat
        /\ token'[x].observed \in Nat
    BY <1>0 DEF ShapeOK, TokenType
  <2>1. l \in Scans
    BY <1>0, <2>0, Types DEF ScansGrow, Stored
  <2>2. scan[l].phase \in Stored /\ x \in scan[l].items
    <3>1. scan[l].phase \in Stored
      BY <2>0, <2>1, <1>1 DEF ScansGrow, ScanGrows
    <3> QED BY <3>1, <2>1 DEF ScansGrow, ScanGrows, Stored
  <2>3. token[x].observed < l
    BY <1>0, <1>1, <2>0, Types
  <2>4. CASE h > Len(worker[c])
    BY <2>4 DEF WorkersGrow
  <2>5. CASE h \in DOMAIN worker[c]
    <3>1. worker[c][h].scan = 0 \/ worker[c][h].scan > l
      BY <1>0, <1>2, <2>1, <2>2, <2>3, <2>5 DEF FenceInv
    <3>2. Len(scan) + 1 > l
      BY <1>0, <2>1, Types
    <3> QED BY <2>5, <3>1, <3>2 DEF WorkersGrow
  <2> QED BY <1>0, <2>0, <2>4, <2>5, Types
<1> QED BY <1>6, <1>7

\* What a run has cleaned up after stays clean when no run reconciles.
LEMMA Cleaned ==
  ASSUME IInv, TypeOK', ScansGrow,
         NEW x \in Items, NEW c \in Configs, LinkKept(x, c), ActiveMoves(c),
         \A t \in Scans : scan[t].by = <<c, cfg'[c].active>> /\ scan'[t].consumed => scan[t].consumed
  PROVE  CleanInv(x, c)'
<1>0. ShapeOK /\ ShapeOK' /\ CleanInv(x, c)
  BY DEF IInv, TypeOK
<1> SUFFICES ASSUME NEW s \in DOMAIN scan', cfg'[c].active # 0,
                    scan'[s].by = <<c, cfg'[c].active>>, scan'[s].consumed,
                    x \in scan'[s].scope, token'[x].seen[c] # 0
             PROVE  x \in scan'[s].items \/ token'[x].observed > s
  BY DEF CleanInv, Scans
<1>1. s \in Scans
  BY <1>0, Types DEF ScansGrow, ShapeOK
<1> DEFINE a == cfg'[c].active
<1>2. scan[s].by = <<c, a>> /\ scan[s].by # ByUser /\ scan[s].consumed
  <2>1. scan[s].by = <<c, a>>
    BY <1>1 DEF ScansGrow, ScanGrows
  <2>2. scan[s].by # ByUser
    BY <2>1, OwnerIsNoUser
  <2> QED BY <1>1, <2>1, <2>2
<1>3. a \in DOMAIN worker[c] /\ scan[s].phase = "answered"
  <2>1. ScanInv(s)
    BY <1>1 DEF IInv
  <2>2. scan[s].by[1] = c /\ scan[s].by[2] = a
    BY <1>2
  <2> QED BY <1>2, <2>1, <2>2 DEF ScanInv
<1>4. cfg'[c].active = cfg[c].active
  BY <1>0, <1>3, Types DEF ActiveMoves, IInv, TypeOK
<1>5. scan'[s].items = scan[s].items /\ x \in scan[s].scope
  BY <1>1, <1>3 DEF ScansGrow, ScanGrows
<1>6. x \in scan[s].items \/ token[x].observed > s
  BY <1>0, <1>1, <1>2, <1>4, <1>5 DEF CleanInv, LinkKept
<1>7. token'[x].observed >= token[x].observed /\ token'[x].observed \in Nat
  BY <1>0 DEF LinkKept, ShapeOK, TokenType
<1> QED BY <1>0, <1>1, <1>5, <1>6, <1>7, Types

\* Such steps need an argument only about runs, scans and tokens themselves.
LEMMA Tame ==
  ASSUME IInv, TypeOK', WorkersGrow, ScansGrow, ConsumedKept,
         \A c \in Configs : ActiveMoves(c) /\ RunInv(c)' /\ LinkInv(c)',
         \A s \in DOMAIN scan' : ScanInv(s)',
         \A x \in Items : TokenInv(x)' /\ \A c \in Configs : LinkKept(x, c)
  PROVE  IInv'
<1>1. ASSUME NEW x \in Items, NEW c \in Configs
      PROVE  SeenInv(x, c)' /\ FenceInv(x, c)' /\ CleanInv(x, c)'
  <2>1. \A t \in Scans : scan[t].by = <<c, cfg'[c].active>> /\ scan'[t].consumed => scan[t].consumed
    BY OwnerIsNoUser DEF ConsumedKept
  <2> QED BY <2>1, History, Cleaned
<1> QED BY <1>1 DEF IInv, Scans
(***************************************************************************)
(* What the steps write                                                    *)
(***************************************************************************)

\* A step over configuration c leaves n as its active run and st as its state.
ConfigStep(c, n, st) ==
  /\ cfg' \in [Configs -> ConfigType]
  /\ \A d \in Configs \ {c} : cfg'[d] = cfg[d]
  /\ cfg'[c].active = n
  /\ cfg'[c].state = st

\* A step of run g of c leaves it at phase p with scan n.
RunMoves(c, g, p, n) ==
  /\ worker' \in [Configs -> Seq(WorkerType)]
  /\ \A d \in Configs \ {c} : worker'[d] = worker[d]
  /\ Len(worker'[c]) = Len(worker[c])
  /\ \A h \in DOMAIN worker[c] \ {g} : worker'[c][h] = worker[c][h]
  /\ worker'[c][g].phase = p
  /\ worker'[c][g].scan = n

\* A step of scan s makes it r.
ScanMoves(s, r) ==
  /\ scan' \in Seq(ScanType)
  /\ Len(scan') = Len(scan)
  /\ \A t \in Scans \ {s} : scan'[t] = scan[t]
  /\ scan'[s] = r

LEMMA SeqUpdate ==
  ASSUME NEW S, NEW q \in Seq(S), NEW i \in DOMAIN q, NEW r \in S
  PROVE  /\ [q EXCEPT ![i] = r] \in Seq(S)
         /\ Len([q EXCEPT ![i] = r]) = Len(q)
         /\ \A j \in DOMAIN q \ {i} : [q EXCEPT ![i] = r][j] = q[j]
         /\ [q EXCEPT ![i] = r][i] = r
OBVIOUS

LEMMA ConfigUpdate ==
  ASSUME ShapeOK, NEW c \in Configs, NEW r \in ConfigType, cfg' = [cfg EXCEPT ![c] = r]
  PROVE  ConfigStep(c, r.active, r.state)
BY DEF ShapeOK, ConfigStep

LEMMA RunUpdate ==
  ASSUME ShapeOK, NEW c \in Configs, NEW g \in DOMAIN worker[c], NEW r \in WorkerType,
         worker' = [worker EXCEPT ![c] = [worker[c] EXCEPT ![g] = r]]
  PROVE  RunMoves(c, g, r.phase, r.scan)
<1>1. worker[c] \in Seq(WorkerType)
  BY Types
<1> DEFINE q == [worker[c] EXCEPT ![g] = r]
<1>2. /\ q \in Seq(WorkerType) /\ Len(q) = Len(worker[c]) /\ q[g] = r
      /\ \A h \in DOMAIN worker[c] \ {g} : q[h] = worker[c][h]
  BY <1>1, SeqUpdate
<1> HIDE DEF q
<1>3. worker' = [worker EXCEPT ![c] = q]
  BY DEF q
<1> QED BY <1>2, <1>3 DEF ShapeOK, RunMoves

LEMMA ScanUpdate ==
  ASSUME ShapeOK, NEW s \in Scans, NEW r \in ScanType, scan' = [scan EXCEPT ![s] = r]
  PROVE  ScanMoves(s, r)
BY SeqUpdate DEF ShapeOK, ScanMoves, Scans

\* The rows the routes and the worker write, and the active run and state in them.
LEMMA ConfigWrites ==
  ASSUME NEW r \in ConfigType, NEW n \in Nat, NEW v \in Nat,
         NEW st \in {"none", "on", "off", "deleted"}, NEW cleanup \in BOOLEAN,
         NEW leased \in BOOLEAN, NEW due \in BOOLEAN, NEW manual \in BOOLEAN,
         NEW replace \in BOOLEAN, NEW scope \in SUBSET Items
  PROVE  /\ [r EXCEPT !.state = st, !.cleanup = cleanup, !.scope = scope] \in ConfigType
         /\ [r EXCEPT !.active = n, !.leased = leased, !.manual = manual,
                       !.replace = replace, !.due = due] \in ConfigType
         /\ [r EXCEPT !.active = n, !.leased = leased, !.due = due] \in ConfigType
         /\ [r EXCEPT !.manual = manual, !.due = due] \in ConfigType
         /\ [r EXCEPT !.due = due] \in ConfigType
         /\ [r EXCEPT !.leased = leased] \in ConfigType
<1>1. [r EXCEPT !.state = st, !.cleanup = cleanup, !.scope = scope] \in ConfigType
  BY Zenon DEF ConfigType
<1>2. [r EXCEPT !.active = n, !.leased = leased, !.manual = manual,
                !.replace = replace, !.due = due] \in ConfigType
  BY Zenon DEF ConfigType
<1>3. [r EXCEPT !.active = n, !.leased = leased, !.due = due] \in ConfigType
  BY Zenon DEF ConfigType
<1>4. [r EXCEPT !.manual = manual, !.due = due] \in ConfigType
  BY Zenon DEF ConfigType
<1>5. [r EXCEPT !.due = due] \in ConfigType
  BY Zenon DEF ConfigType
<1>6. [r EXCEPT !.leased = leased] \in ConfigType
  BY Zenon DEF ConfigType
<1> QED BY <1>1, <1>2, <1>3, <1>4, <1>5, <1>6

(***************************************************************************)
(* The configuration's row                                                 *)
(***************************************************************************)

LEMMA WorkersSame == ASSUME ShapeOK, worker' = worker PROVE WorkersGrow
BY Types DEF WorkersGrow

LEMMA ScansSame == ASSUME ShapeOK, scan' = scan PROVE ScansGrow /\ ConsumedKept
BY Types DEF ScansGrow, ScanGrows, ConsumedKept

\* The history of c' runs after a step that leaves n as the active one.
HistoryStep(c, n) ==
  /\ status' \in [Configs -> Seq(StatusType)]
  /\ \A d \in Configs \ {c} : status'[d] = status[d]
  /\ Len(status'[c]) = Len(status[c])
  /\ \A g \in DOMAIN status[c] : status'[c][g] = "running" <=> n = g

\* A step over the row of c, the history of its runs, the phase of one of them and
\* the links.
LEMMA RowStep ==
  ASSUME IInv, NEW c \in Configs, NEW st, NEW n \in {0, cfg[c].active},
         ConfigStep(c, n, st), HistoryStep(c, n),
         worker' \in [Configs -> Seq(WorkerType)],
         \A d \in Configs : /\ Len(worker'[d]) = Len(worker[d])
                            /\ LinkInv(d)'
                            /\ \A h \in DOMAIN worker[d] : worker'[d][h].scan = worker[d][h].scan,
         token' \in [Items -> TokenType],
         \A x \in Items : /\ TokenInv(x)'
                          /\ token'[x].observed = token[x].observed
                          /\ \A d \in Configs : token'[x].seen[d] \in {0, token[x].seen[d]},
         UNCHANGED <<scan, present>>, left' \in 0 .. MaxDisturbances
  PROVE  IInv'
<1>0. ShapeOK /\ TypeOK
  BY DEF IInv, TypeOK
<1>1. \A d \in Configs : Len(status'[d]) = Len(status[d])
  BY DEF HistoryStep
<1>2. \A d \in Configs : cfg'[d].active \in {0, cfg[d].active}
  BY DEF ConfigStep
<1>3. ShapeOK'
  BY <1>0 DEF ShapeOK, ConfigStep, HistoryStep
<1>a. \A d \in Configs : DOMAIN worker'[d] = DOMAIN worker[d] /\ DOMAIN status'[d] = DOMAIN status[d]
  <2> TAKE d \in Configs
  <2>1. worker'[d] \in Seq(WorkerType) /\ status'[d] \in Seq(StatusType)
    BY <1>3 DEF ShapeOK
  <2>2. worker[d] \in Seq(WorkerType) /\ status[d] \in Seq(StatusType)
    BY <1>0, Types
  <2> QED BY <1>1, <2>1, <2>2
<1>4. TypeOK'
  <2>1. ASSUME NEW d \in Configs
        PROVE  /\ Len(worker'[d]) = Len(status'[d])
               /\ cfg'[d].active \in 0 .. Len(status'[d])
               /\ \A g \in DOMAIN worker'[d] : worker'[d][g].scan \in 0 .. Len(scan')
    <3>1. cfg'[d].active \in 0 .. Len(status[d])
      <4>1. cfg[d].active \in 0 .. Len(status[d]) /\ Len(status[d]) \in Nat
        BY <1>0, <2>1, Types DEF TypeOK
      <4> QED BY <1>2, <2>1, <4>1
    <3>2. \A g \in DOMAIN worker[d] : worker'[d][g].scan \in 0 .. Len(scan)
      BY <1>0, <2>1 DEF TypeOK
    <3> QED BY <1>0, <1>1, <1>a, <2>1, <3>1, <3>2 DEF TypeOK
  <2>2. ASSUME NEW x \in Items
        PROVE  /\ token'[x].observed \in 0 .. Len(scan')
               /\ \A d \in Configs : token'[x].seen[d] \in 0 .. Len(status'[d])
    <3>1. token'[x].observed \in 0 .. Len(scan')
      BY <1>0, <2>2 DEF TypeOK
    <3>2. ASSUME NEW d \in Configs PROVE token'[x].seen[d] \in 0 .. Len(status'[d])
      <4>1. token[x].seen[d] \in 0 .. Len(status[d]) /\ Len(status[d]) \in Nat
        BY <1>0, <2>2, <3>2, Types DEF TypeOK
      <4> QED BY <1>1, <4>1, <3>2
    <3> QED BY <3>1, <3>2
  <2> QED BY <1>3, <2>1, <2>2 DEF TypeOK
<1>5. WorkersGrow
  BY <1>0, <1>a, Types DEF WorkersGrow
<1>b. ScansGrow /\ ConsumedKept
  BY <1>0, ScansSame
<1>6. ASSUME NEW d \in Configs PROVE ActiveMoves(d) /\ RunInv(d)'
  <2>1. ActiveMoves(d)
    BY <1>2 DEF ActiveMoves
  <2>3. RunInv(d)
    BY DEF IInv
  <2>4. RunInv(d)'
    <3>1. CASE d # c
      BY <2>3, <3>1, <1>a DEF RunInv, ConfigStep, HistoryStep
    <3>2. CASE d = c
      BY <2>3, <3>2, <1>1, <1>a DEF RunInv, ConfigStep, HistoryStep
    <3> QED BY <3>1, <3>2
  <2> QED BY <2>1, <2>4
<1>7. ASSUME NEW t \in DOMAIN scan' PROVE ScanInv(t)'
  <2>1. ScanInv(t) /\ scan[t] \in ScanType
    BY <1>0, Types DEF IInv, Scans
  <2>2. scan[t].by # ByUser => scan[t].by[1] \in Configs
    BY <2>1 DEF ScanType
  <2> QED BY <1>a, <2>1, <2>2 DEF ScanInv
<1>8. ASSUME NEW x \in Items, NEW d \in Configs PROVE LinkKept(x, d)
  <2>3. token[x].observed \in Nat
    BY <1>0, Types
  <2> QED BY <2>3 DEF LinkKept
<1> QED BY <1>4, <1>5, <1>b, <1>6, <1>7, <1>8, Tame

\* Nothing but the row of c and the history of its runs.
LEMMA RowOnly ==
  ASSUME IInv, NEW c \in Configs, NEW st, NEW n \in {0, cfg[c].active},
         ConfigStep(c, n, st), HistoryStep(c, n),
         UNCHANGED <<worker, scan, token, present>>, left' \in 0 .. MaxDisturbances,
         st = "deleted" => cfg[c].state = "deleted"
  PROVE  IInv'
<1>1. worker' \in [Configs -> Seq(WorkerType)] /\ token' \in [Items -> TokenType]
  BY DEF IInv, TypeOK, ShapeOK
<1>2. \A d \in Configs : LinkInv(d)'
  BY DEF IInv, LinkInv
<1>3. ASSUME NEW x \in Items PROVE TokenInv(x)'
  <2>1. TokenInv(x)
    BY DEF IInv
  <2>2. \A d \in Configs : cfg'[d].state = "deleted" => cfg[d].state = "deleted"
    BY DEF ConfigStep
  <2> QED BY <2>1, <2>2 DEF TokenInv
<1> QED BY <1>1, <1>2, <1>3, RowStep

\* The history as it is, while the active run stays.
LEMMA HistorySame ==
  ASSUME IInv, NEW c \in Configs, status' = status
  PROVE  HistoryStep(c, cfg[c].active)
BY DEF IInv, TypeOK, ShapeOK, RunInv, HistoryStep

\* superseded closes the entry of the active run, the only one that runs.
LEMMA Superseded ==
  ASSUME IInv, NEW c \in Configs
  PROVE  /\ superseded(c) \in Seq(StatusType)
         /\ Len(superseded(c)) = Len(status[c])
         /\ \A g \in DOMAIN status[c] : superseded(c)[g] # "running"
         /\ status' = [status EXCEPT ![c] = superseded(c)] => HistoryStep(c, 0)
<1>0. ShapeOK /\ RunInv(c)
  BY DEF IInv, TypeOK
<1>1. status[c] \in Seq(StatusType)
  BY <1>0, Types
<1>2. \A g \in DOMAIN status[c] : status[c][g] \in StatusType /\ "superseded" \in StatusType
  BY <1>1 DEF StatusType
<1>3. superseded(c) \in Seq(StatusType) /\ Len(superseded(c)) = Len(status[c])
  BY <1>1, <1>2 DEF superseded
<1>4. \A g \in DOMAIN status[c] : superseded(c)[g] # "running"
  BY <1>0 DEF superseded, RunInv
<1>5. status' = [status EXCEPT ![c] = superseded(c)] => HistoryStep(c, 0)
  <2> DEFINE q == superseded(c)
  <2>1. q \in Seq(StatusType) /\ Len(q) = Len(status[c]) /\ \A g \in DOMAIN status[c] : q[g] # "running" /\ g # 0
    BY <1>0, <1>3, <1>4, Types
  <2> HIDE DEF q
  <2>2. status' = [status EXCEPT ![c] = q] => HistoryStep(c, 0)
    BY <1>0, <2>1 DEF ShapeOK, HistoryStep
  <2> QED BY <2>2 DEF q
<1> QED BY <1>3, <1>4, <1>5

LEMMA Spent == ASSUME ShapeOK, NEW k, Spend(k) PROVE left' \in 0 .. MaxDisturbances
BY DisturbancesAssumption DEF ShapeOK, Spend

LEMMA CreateConfig ==
  ASSUME IInv, NEW c \in Configs, NEW scope \in SUBSET Items, createConfig(c, scope)
  PROVE  IInv'
<1>0. ShapeOK /\ cfg[c] \in ConfigType
  BY Types DEF IInv, TypeOK
<1> DEFINE r == [cfg[c] EXCEPT !.state = "on", !.cleanup = TRUE, !.scope = scope]
<1>1. r \in ConfigType
  BY <1>0, ConfigWrites
<1>2. r.active = cfg[c].active /\ r.state = "on"
  BY <1>0 DEF ConfigType
<1>3. cfg' = [cfg EXCEPT ![c] = r]
  BY <1>0 DEF createConfig, ShapeOK
<1> HIDE DEF r
<1>4. ConfigStep(c, cfg[c].active, "on")
  BY <1>0, <1>1, <1>2, <1>3, ConfigUpdate
<1>5. HistoryStep(c, cfg[c].active)
  BY HistorySame DEF createConfig
<1>6. left' \in 0 .. MaxDisturbances
  BY <1>0 DEF createConfig, ShapeOK
<1> QED BY <1>4, <1>5, <1>6, RowOnly DEF createConfig

\* A step that only makes the next sync due, or not.
LEMMA DueStep ==
  ASSUME IInv, NEW c \in Configs, NEW due \in BOOLEAN, cfg' = [cfg EXCEPT ![c].due = due],
         UNCHANGED <<status, worker, scan, token, present>>, left' \in 0 .. MaxDisturbances
  PROVE  IInv'
<1>0. ShapeOK /\ cfg[c] \in ConfigType
  BY Types DEF IInv, TypeOK
<1> DEFINE r == [cfg[c] EXCEPT !.due = due]
<1>1. r \in ConfigType
  BY <1>0, ConfigWrites
<1>2. r.active = cfg[c].active /\ r.state = cfg[c].state
  BY <1>0 DEF ConfigType
<1>3. cfg' = [cfg EXCEPT ![c] = r]
  BY <1>0 DEF ShapeOK
<1> HIDE DEF r
<1>4. ConfigStep(c, cfg[c].active, cfg[c].state)
  BY <1>0, <1>1, <1>2, <1>3, ConfigUpdate
<1> QED BY <1>4, HistorySame, RowOnly

LEMMA ScheduleTick == ASSUME IInv, NEW c \in Configs, scheduleTick(c) PROVE IInv'
<1>1. left' \in 0 .. MaxDisturbances
  BY Spent DEF scheduleTick, IInv, TypeOK
<1> QED BY <1>1, DueStep DEF scheduleTick

LEMMA ChangeSchedule == ASSUME IInv, NEW c \in Configs, changeSchedule(c) PROVE IInv'
<1>1. left' \in 0 .. MaxDisturbances
  BY Spent DEF changeSchedule, IInv, TypeOK
<1>2. PICK due \in BOOLEAN : due = nextSyncDue(c)
  BY DEF nextSyncDue
<1>3. cfg' = [cfg EXCEPT ![c].due = due]
  BY <1>2 DEF changeSchedule
<1> QED BY <1>1, <1>3, DueStep DEF changeSchedule

LEMMA ManualWrite ==
  ASSUME NEW r \in ConfigType, NEW manual \in BOOLEAN, NEW due \in BOOLEAN
  PROVE  [r EXCEPT !.manual = manual, !.due = due] \in ConfigType
BY Zenon DEF ConfigType

LEMMA RequestRun == ASSUME IInv, NEW c \in Configs, requestRun(c) PROVE IInv'
<1>0. ShapeOK /\ cfg[c] \in ConfigType
  BY Types DEF IInv, TypeOK
<1>a. PICK due \in BOOLEAN : due = (cfg[c].due \/ cfg[c].active = 0)
  OBVIOUS
<1> DEFINE r == [cfg[c] EXCEPT !.manual = TRUE, !.due = due]
<1>1. r \in ConfigType
  BY <1>0, ManualWrite
<1>2. r.active = cfg[c].active /\ r.state = cfg[c].state
  BY <1>0 DEF ConfigType
<1>3. cfg' = [cfg EXCEPT ![c] = r]
  BY <1>0, <1>a DEF requestRun, ShapeOK, ConfigType
<1> HIDE DEF r
<1>4. ConfigStep(c, cfg[c].active, cfg[c].state)
  BY <1>0, <1>1, <1>2, <1>3, ConfigUpdate
<1>5. left' \in 0 .. MaxDisturbances
  BY <1>0, Spent DEF requestRun
<1>6. HistoryStep(c, cfg[c].active)
  BY HistorySame DEF requestRun
<1> QED BY <1>4, <1>5, <1>6, RowOnly DEF requestRun

\* The lease alone: stall, leaseExpires.
LEMMA LeaseStep ==
  ASSUME IInv, NEW c \in Configs, cfg' = [cfg EXCEPT ![c].leased = FALSE],
         UNCHANGED <<status, worker, scan, token, present>>, left' \in 0 .. MaxDisturbances
  PROVE  IInv'
<1>0. ShapeOK /\ cfg[c] \in ConfigType
  BY Types DEF IInv, TypeOK
<1> DEFINE r == [cfg[c] EXCEPT !.leased = FALSE]
<1>1. r \in ConfigType
  BY <1>0, ConfigWrites
<1>2. r.active = cfg[c].active /\ r.state = cfg[c].state
  BY <1>0 DEF ConfigType
<1>3. cfg' = [cfg EXCEPT ![c] = r]
  BY <1>0 DEF ShapeOK
<1> HIDE DEF r
<1>4. ConfigStep(c, cfg[c].active, cfg[c].state)
  BY <1>0, <1>1, <1>2, <1>3, ConfigUpdate
<1> QED BY <1>4, HistorySame, RowOnly

LEMMA Stall == ASSUME IInv, NEW c \in Configs, stall(c) \/ leaseExpires(c) PROVE IInv'
<1>1. left' \in 0 .. MaxDisturbances
  BY Spent DEF stall, leaseExpires, IInv, TypeOK, ShapeOK
<1> QED BY <1>1, LeaseStep DEF stall, leaseExpires

LEMMA ChangeScanSettings ==
  ASSUME IInv, NEW c \in Configs, NEW on \in BOOLEAN, NEW cleanup \in BOOLEAN,
         NEW scope \in SUBSET Items, changeScanSettings(c, on, cleanup, scope)
  PROVE  IInv'
<1>0. ShapeOK /\ cfg[c] \in ConfigType
  BY Types DEF IInv, TypeOK
<1>a. PICK due \in BOOLEAN : due = (cfg[c].due \/ on)
  OBVIOUS
<1>b. PICK replace \in BOOLEAN : replace = (cfg[c].replace \/ on)
  OBVIOUS
<1>c. PICK st \in {"on", "off"} : st = IF on THEN "on" ELSE "off"
  OBVIOUS
<1>d. PICK v \in Nat : v = cfg[c].version + 1
  BY <1>0 DEF ConfigType
<1> DEFINE r == [cfg[c] EXCEPT !.state = st, !.cleanup = cleanup, !.scope = scope, !.version = v, !.active = 0,
                               !.leased = FALSE, !.replace = replace, !.due = due]
<1>1. r \in ConfigType
  <2>1. st \in {"none", "on", "off", "deleted"} /\ FALSE \in BOOLEAN /\ 0 \in Nat
    OBVIOUS
  <2> DEFINE q == cfg[c]
  <2>2. q \in ConfigType
    BY <1>0
  <2> HIDE DEF q
  <2>3. [q EXCEPT !.state = st, !.cleanup = cleanup, !.scope = scope, !.version = v, !.active = 0,
                  !.leased = FALSE, !.replace = replace, !.due = due] \in ConfigType
    BY <2>1, <2>2, ZenonT(40) DEF ConfigType
  <2> QED BY <2>3 DEF q
<1>2. r.active = 0 /\ r.state = st
  BY <1>0 DEF ConfigType
<1>3. cfg' = [cfg EXCEPT ![c] = r]
  <2>1. cfg' = [cfg EXCEPT ![c].state = st, ![c].cleanup = cleanup, ![c].scope = scope, ![c].version = v,
                           ![c].active = 0, ![c].leased = FALSE, ![c].replace = replace,
                           ![c].due = due]
    BY <1>a, <1>b, <1>c, <1>d DEF changeScanSettings
  <2> QED BY <1>0, <2>1 DEF ShapeOK
<1> HIDE DEF r
<1>4. ConfigStep(c, 0, st)
  BY <1>0, <1>1, <1>2, <1>3, ConfigUpdate
<1>5. left' \in 0 .. MaxDisturbances
  BY <1>0, Spent DEF changeScanSettings
<1>6. HistoryStep(c, 0)
  BY Superseded DEF changeScanSettings
<1> QED BY <1>4, <1>5, <1>6, RowOnly DEF changeScanSettings

\* What becomes of a token whose link to c goes: with c's deletion, management may
\* go with it.
Cut(t, c) == [t EXCEPT !.seen[c] = 0]
Released(t, c) == [Cut(t, c) EXCEPT !.managed = managedWhileTracked(Cut(t, c))]

LEMMA CutLink ==
  ASSUME NEW t \in TokenType, NEW c \in Configs
  PROVE  /\ Cut(t, c) \in TokenType
         /\ Cut(t, c).row = t.row
         /\ Cut(t, c).managed = t.managed
         /\ Cut(t, c).observed = t.observed
         /\ Cut(t, c).seen = [t.seen EXCEPT ![c] = 0]
BY DEF TokenType, Cut

LEMMA ReleasedToken ==
  ASSUME NEW t \in TokenType, NEW c \in Configs
  PROVE  /\ Released(t, c) \in TokenType
         /\ Released(t, c).row = t.row
         /\ Released(t, c).observed = t.observed
         /\ Released(t, c).seen = [t.seen EXCEPT ![c] = 0]
         /\ Released(t, c).managed =>
              t.managed /\ \E d \in Configs : [t.seen EXCEPT ![c] = 0][d] # 0
<1> DEFINE u == Cut(t, c)
<1>1. /\ u \in TokenType
      /\ u.row = t.row /\ u.managed = t.managed /\ u.observed = t.observed
      /\ u.seen = [t.seen EXCEPT ![c] = 0]
  BY CutLink
<1>2. PICK m \in BOOLEAN : m = managedWhileTracked(u)
  BY DEF managedWhileTracked
<1>5. Released(t, c) = [u EXCEPT !.managed = m]
  BY <1>2 DEF Released
<1> HIDE DEF u
<1>3. m => u.managed /\ \E d \in Configs : u.seen[d] # 0
  BY <1>2 DEF managedWhileTracked
<1> DEFINE v == [u EXCEPT !.managed = m]
<1>4. /\ v \in TokenType
      /\ v.row = u.row /\ v.observed = u.observed /\ v.seen = u.seen /\ v.managed = m
  BY <1>1 DEF TokenType
<1> HIDE DEF v
<1> QED BY <1>1, <1>3, <1>4, <1>5 DEF v

LEMMA DeleteConfig == ASSUME IInv, NEW c \in Configs, deleteConfig(c) PROVE IInv'
<1>0. ShapeOK /\ cfg[c] \in ConfigType
  BY Types DEF IInv, TypeOK
<1> DEFINE q == cfg[c]
           r == [q EXCEPT !.state = "deleted", !.active = 0, !.leased = FALSE,
                          !.manual = FALSE, !.replace = FALSE, !.due = FALSE]
<1>1. r \in ConfigType
  <2>1. q \in ConfigType
    BY <1>0
  <2> HIDE DEF q
  <2>2. 0 \in Nat
    OBVIOUS
  <2> QED BY <2>1, <2>2, ZenonT(40) DEF ConfigType
<1>2. r.active = 0 /\ r.state = "deleted"
  BY <1>0 DEF ConfigType
<1>3. cfg' = [cfg EXCEPT ![c] = r]
  BY <1>0 DEF deleteConfig, ShapeOK
<1> HIDE DEF r
<1>4. ConfigStep(c, 0, "deleted")
  BY <1>0, <1>1, <1>2, <1>3, ConfigUpdate
<1>5. left' \in 0 .. MaxDisturbances
  BY <1>0, Spent DEF deleteConfig
<1>6. HistoryStep(c, 0)
  BY Superseded DEF deleteConfig
<1>7. worker' \in [Configs -> Seq(WorkerType)] /\ \A d \in Configs : LinkInv(d)'
  BY DEF deleteConfig, IInv, TypeOK, ShapeOK, LinkInv
<1>8. ASSUME NEW x \in Items
      PROVE  /\ token'[x] \in TokenType
             /\ TokenInv(x)'
             /\ token'[x].observed = token[x].observed
             /\ \A d \in Configs : token'[x].seen[d] \in {0, token[x].seen[d]}
  <2>0. token[x] \in TokenType /\ TokenInv(x) /\ token[x].seen \in [Configs -> Nat]
    BY <1>0, Types DEF IInv, TokenType
  <2>1. \A d \in Configs : cfg'[d].state = "deleted" => d = c \/ cfg[d].state = "deleted"
    BY <1>4 DEF ConfigStep
  <2>2. CASE token[x].seen[c] = 0
    <3>1. token'[x] = token[x]
      BY <2>2 DEF deleteConfig
    <3> QED BY <2>0, <2>1, <2>2, <3>1 DEF TokenInv
  <2>3. CASE token[x].seen[c] # 0
    <3> DEFINE v == Released(token[x], c)
    <3>1. token'[x] = v
      BY <2>3 DEF deleteConfig, Released, Cut
    <3>2. /\ v \in TokenType
          /\ v.row = token[x].row /\ v.observed = token[x].observed
          /\ v.seen = [token[x].seen EXCEPT ![c] = 0]
          /\ v.managed => token[x].managed /\ \E d \in Configs : v.seen[d] # 0
      BY <2>0, ReleasedToken
    <3> HIDE DEF v
    <3> QED BY <2>0, <2>1, <3>1, <3>2 DEF TokenInv
  <2> QED BY <2>2, <2>3
<1>9. token' \in [Items -> TokenType]
  <2>1. token' = [x \in Items |-> token'[x]]
    BY DEF deleteConfig
  <2> QED BY <2>1, <1>8
<1> QED BY <1>4, <1>5, <1>6, <1>7, <1>8, <1>9, RowStep DEF deleteConfig

(***************************************************************************)
(* Runs                                                                    *)
(***************************************************************************)

\* A run moves on, with the scan it has.
LEMMA PhaseStep ==
  ASSUME ShapeOK, NEW c \in Configs, NEW g \in DOMAIN worker[c],
         NEW p \in Waiting \cup {"stopped", "crashed"},
         worker' = [worker EXCEPT ![c][g].phase = p]
  PROVE  RunMoves(c, g, p, worker[c][g].scan)
<1>0. worker[c][g] \in WorkerType /\ worker[c] \in Seq(WorkerType)
  BY Types
<1> DEFINE r == [worker[c][g] EXCEPT !.phase = p]
<1>1. r \in WorkerType /\ r.phase = p /\ r.scan = worker[c][g].scan
  BY <1>0 DEF WorkerType
<1>2. worker' = [worker EXCEPT ![c] = [worker[c] EXCEPT ![g] = r]]
  BY <1>0 DEF ShapeOK
<1> HIDE DEF r
<1> QED BY <1>1, <1>2, RunUpdate

\* What a run that stops leaves of the runs.
LEMMA RunStops ==
  ASSUME IInv, NEW c \in Configs, NEW g \in DOMAIN worker[c], NEW p \in {"stopped", "crashed"},
         worker' = [worker EXCEPT ![c][g].phase = p], scan' = scan
  PROVE  /\ worker' \in [Configs -> Seq(WorkerType)]
         /\ \A d \in Configs : /\ Len(worker'[d]) = Len(worker[d])
                                /\ LinkInv(d)'
                                /\ \A h \in DOMAIN worker[d] : worker'[d][h].scan = worker[d][h].scan
<1>0. ShapeOK
  BY DEF IInv, TypeOK
<1>1. RunMoves(c, g, p, worker[c][g].scan)
  BY <1>0, PhaseStep
<1>2. worker' \in [Configs -> Seq(WorkerType)]
  BY <1>1 DEF RunMoves
<1>3. ASSUME NEW d \in Configs
      PROVE  /\ Len(worker'[d]) = Len(worker[d])
             /\ LinkInv(d)'
             /\ \A h \in DOMAIN worker[d] : worker'[d][h].scan = worker[d][h].scan
  <2>1. LinkInv(d)
    BY DEF IInv
  <2>2. CASE d # c
    BY <1>1, <2>1, <2>2 DEF RunMoves, LinkInv
  <2>3. CASE d = c
    <3>1. DOMAIN worker'[c] = DOMAIN worker[c]
      <4>1. worker'[c] \in Seq(WorkerType) /\ worker[c] \in Seq(WorkerType)
        BY <1>0, <1>2, Types
      <4> QED BY <4>1, <1>1 DEF RunMoves
    <3>2. \A h \in DOMAIN worker[c] : worker'[c][h].scan = worker[c][h].scan
      BY <1>1 DEF RunMoves
    <3>3. \A h \in DOMAIN worker[c] : worker'[c][h].phase \in {worker[c][h].phase, "stopped", "crashed"}
      BY <1>1 DEF RunMoves
    <3>4. LinkInv(c)'
      BY <2>1, <2>3, <3>1, <3>2, <3>3 DEF LinkInv
    <3> QED BY <1>1, <2>3, <3>2, <3>4 DEF RunMoves
  <2> QED BY <2>2, <2>3
<1> QED BY <1>2, <1>3

\* A run closes its own entry, while it holds the row, or leaves all as it is.
LEMMA Finish ==
  ASSUME IInv, NEW c \in Configs, NEW g \in DOMAIN worker[c], NEW result \in Finished,
         finishAutoSyncRun(c, g, result)
  PROVE  \E n \in {0, cfg[c].active} : ConfigStep(c, n, cfg[c].state) /\ HistoryStep(c, n)
<1>0. ShapeOK /\ cfg[c] \in ConfigType /\ RunInv(c)
  BY Types DEF IInv, TypeOK
<1>1. CASE ~isCurrentRun(c, g)
  <2>1. cfg' = cfg /\ status' = status
    BY <1>1 DEF finishAutoSyncRun
  <2>2. ConfigStep(c, cfg[c].active, cfg[c].state)
    BY <1>0, <2>1 DEF ConfigStep, ShapeOK
  <2> QED BY <2>1, <2>2, HistorySame
<1>2. CASE isCurrentRun(c, g)
  <2>a. PICK due \in BOOLEAN : due = nextSyncDue(c)
    BY DEF nextSyncDue
  <2> DEFINE r == [cfg[c] EXCEPT !.active = 0, !.leased = FALSE, !.due = due]
  <2>1. r \in ConfigType
    <3>1. 0 \in Nat
      OBVIOUS
    <3> QED BY <1>0, <3>1, ConfigWrites
  <2>2. r.active = 0 /\ r.state = cfg[c].state
    BY <1>0 DEF ConfigType
  <2>3. cfg' = [cfg EXCEPT ![c] = r]
    BY <1>0, <1>2, <2>a DEF finishAutoSyncRun, ShapeOK
  <2> HIDE DEF r
  <2>4. ConfigStep(c, 0, cfg[c].state)
    BY <1>0, <2>1, <2>2, <2>3, ConfigUpdate
  <2>5. g \in DOMAIN status[c] /\ cfg[c].active = g
    BY <1>0, <1>2, Types DEF isCurrentRun, IInv, TypeOK
  <2>6. status[c][g] = "running" /\ status[c] \in Seq(StatusType)
    BY <1>0, <2>5, Types DEF RunInv
  <2> DEFINE q == [status[c] EXCEPT ![g] = result]
  <2>7. status' = [status EXCEPT ![c] = q]
    BY <1>0, <1>2, <2>5, <2>6 DEF finishAutoSyncRun, ShapeOK
  <2>8. /\ q \in Seq(StatusType) /\ Len(q) = Len(status[c]) /\ q[g] = result
        /\ \A h \in DOMAIN status[c] \ {g} : q[h] = status[c][h]
    <3>1. result \in StatusType
      BY DEF StatusType
    <3> QED BY <2>5, <2>6, <3>1, SeqUpdate
  <2> HIDE DEF q
  <2>9. \A h \in DOMAIN status[c] : q[h] # "running" /\ h # 0
    BY <1>0, <2>5, <2>8, Types DEF RunInv, Finished
  <2>10. HistoryStep(c, 0)
    BY <1>0, <2>7, <2>8, <2>9 DEF HistoryStep, ShapeOK
  <2> QED BY <2>4, <2>10
<1> QED BY <1>1, <1>2

\* Tokens, as long as no row becomes deleted.
LEMMA TokensSame ==
  ASSUME IInv, token' = token,
         \A d \in Configs : cfg'[d].state = "deleted" => cfg[d].state = "deleted"
  PROVE  /\ token' \in [Items -> TokenType]
         /\ \A x \in Items : TokenInv(x)'
BY DEF IInv, TypeOK, ShapeOK, TokenInv

LEMMA StopRun ==
  ASSUME IInv, NEW c \in Configs, NEW g \in DOMAIN worker[c], NEW result \in Finished,
         finishAutoSyncRun(c, g, result), worker' = [worker EXCEPT ![c][g].phase = "stopped"],
         UNCHANGED <<scan, token, present>>, left' \in 0 .. MaxDisturbances
  PROVE  IInv'
<1>1. PICK n \in {0, cfg[c].active} : ConfigStep(c, n, cfg[c].state) /\ HistoryStep(c, n)
  BY Finish
<1>2. \A d \in Configs : cfg'[d].state = "deleted" => cfg[d].state = "deleted"
  BY <1>1 DEF ConfigStep
<1>3. token' \in [Items -> TokenType] /\ \A x \in Items : TokenInv(x)'
  BY <1>2, TokensSame
<1>4. /\ worker' \in [Configs -> Seq(WorkerType)]
      /\ \A d \in Configs : /\ Len(worker'[d]) = Len(worker[d])
                             /\ LinkInv(d)'
                             /\ \A h \in DOMAIN worker[d] : worker'[d][h].scan = worker[d][h].scan
  BY RunStops
<1>5. \A x \in Items : /\ token'[x].observed = token[x].observed
                       /\ \A d \in Configs : token'[x].seen[d] \in {0, token[x].seen[d]}
  OBVIOUS
<1>6. UNCHANGED <<scan, present>>
  OBVIOUS
<1>7. CASE n = 0
  BY <1>1, <1>3, <1>4, <1>5, <1>6, <1>7, RowStep
<1>8. CASE n = cfg[c].active
  BY <1>1, <1>3, <1>4, <1>5, <1>6, <1>8, RowStep
<1> QED BY <1>7, <1>8

LEMMA CompleteRun ==
  ASSUME IInv, NEW c \in Configs, NEW g \in DOMAIN worker[c], completeRun(c, g)
  PROVE  IInv'
<1>1. left' \in 0 .. MaxDisturbances
  BY DEF completeRun, IInv, TypeOK, ShapeOK
<1>2. syncStatus(c, g) \in Finished
  BY DEF syncStatus, Finished
<1> QED BY <1>1, <1>2, StopRun DEF completeRun

LEMMA FailRun ==
  ASSUME IInv, NEW c \in Configs, NEW g \in DOMAIN worker[c], failRun(c, g)
  PROVE  IInv'
<1>1. left' \in 0 .. MaxDisturbances
  BY Spent DEF failRun, IInv, TypeOK, ShapeOK
<1>2. "failed" \in Finished
  BY DEF Finished
<1> QED BY <1>1, <1>2, StopRun DEF failRun

LEMMA Crash ==
  ASSUME IInv, NEW c \in Configs, NEW g \in DOMAIN worker[c], crash(c, g)
  PROVE  IInv'
<1>0. ShapeOK
  BY DEF IInv, TypeOK
<1>1. left' \in 0 .. MaxDisturbances
  BY <1>0, Spent DEF crash
<1>2. ConfigStep(c, cfg[c].active, cfg[c].state)
  BY <1>0 DEF crash, ConfigStep, ShapeOK
<1>3. HistoryStep(c, cfg[c].active)
  BY HistorySame DEF crash
<1>4. token' \in [Items -> TokenType] /\ \A x \in Items : TokenInv(x)'
  BY TokensSame DEF crash
<1> QED BY <1>1, <1>2, <1>3, <1>4, RunStops, RowStep DEF crash

\* A claim: the entry of the run that lost the row is closed, a new run has it.
LEMMA ClaimDueAutoSyncRuns ==
  ASSUME IInv, NEW c \in Configs, claimDueAutoSyncRuns(c)
  PROVE  IInv'
<1>0. ShapeOK /\ cfg[c] \in ConfigType /\ TypeOK
  BY Types DEF IInv, TypeOK
<1>a. PICK n \in Nat : n = Len(status[c]) + 1
  BY <1>0, Types
<1> DEFINE r == [cfg[c] EXCEPT !.active = n, !.leased = TRUE, !.manual = FALSE,
                               !.replace = FALSE, !.due = FALSE]
<1>1. r \in ConfigType
  BY <1>0, ConfigWrites
<1>2. r.active = n /\ r.state = cfg[c].state
  BY <1>0 DEF ConfigType
<1>3. cfg' = [cfg EXCEPT ![c] = r]
  BY <1>0, <1>a DEF claimDueAutoSyncRuns, ShapeOK
<1> HIDE DEF r
<1>4. ConfigStep(c, n, cfg[c].state)
  BY <1>0, <1>1, <1>2, <1>3, ConfigUpdate
<1> DEFINE w == [version |-> cfg[c].version, cleanup |-> cfg[c].cleanup, scope |-> cfg[c].scope,
                 phase |-> "claimed", scan |-> 0]
           q == Append(superseded(c), "running")
<1>5. w \in WorkerType /\ w.phase = "claimed" /\ w.scan = 0
  BY <1>0 DEF ConfigType, WorkerType, Waiting
<1> HIDE DEF w
<1>6. /\ worker' \in [Configs -> Seq(WorkerType)]
      /\ \A d \in Configs \ {c} : worker'[d] = worker[d]
      /\ worker'[c] = Append(worker[c], w)
  <2>1. worker' = [worker EXCEPT ![c] = Append(worker[c], w)]
    BY <1>0 DEF claimDueAutoSyncRuns, ShapeOK, w
  <2>2. Append(worker[c], w) \in Seq(WorkerType)
    BY <1>0, <1>5, Types
  <2> QED BY <1>0, <2>1, <2>2 DEF ShapeOK
<1>7. /\ Len(worker'[c]) = n
      /\ DOMAIN worker'[c] = 1 .. n
      /\ \A g \in DOMAIN worker[c] : worker'[c][g] = worker[c][g]
      /\ worker'[c][n] = w
      /\ Len(worker[c]) = n - 1
      /\ DOMAIN worker[c] = 1 .. n - 1
  <2>1. Len(worker[c]) = n - 1 /\ worker[c] \in Seq(WorkerType)
    BY <1>0, <1>a, Types DEF TypeOK
  <2> QED BY <1>5, <1>6, <2>1
<1>8. /\ status' \in [Configs -> Seq(StatusType)]
      /\ \A d \in Configs \ {c} : status'[d] = status[d]
      /\ status'[c] = q
  <2>1. "running" \in StatusType /\ superseded(c) \in Seq(StatusType)
    BY Superseded DEF StatusType
  <2>2. q \in Seq(StatusType)
    BY <2>1
  <2> HIDE DEF q
  <2>3. status' = [status EXCEPT ![c] = q]
    BY DEF claimDueAutoSyncRuns, q
  <2> QED BY <1>0, <2>2, <2>3 DEF ShapeOK
<1>9. /\ Len(status'[c]) = n
      /\ DOMAIN status'[c] = 1 .. n
      /\ \A g \in 1 .. n - 1 : status'[c][g] # "running"
      /\ status'[c][n] = "running"
  <2> DEFINE z == superseded(c)
  <2>1. z \in Seq(StatusType) /\ Len(z) = n - 1 /\ \A g \in 1 .. n - 1 : z[g] # "running"
    BY <1>0, <1>a, Superseded, Types
  <2>2. status'[c] = Append(z, "running")
    BY <1>8
  <2> HIDE DEF z, q
  <2> QED BY <2>1, <2>2 DEF StatusType
<1>10. ShapeOK'
  BY <1>0, <1>4, <1>6, <1>8 DEF ShapeOK, ConfigStep, claimDueAutoSyncRuns
<1>11. TypeOK'
  <2>1. ASSUME NEW d \in Configs
        PROVE  /\ Len(worker'[d]) = Len(status'[d])
               /\ cfg'[d].active \in 0 .. Len(status'[d])
               /\ \A g \in DOMAIN worker'[d] : worker'[d][g].scan \in 0 .. Len(scan')
               /\ Len(status'[d]) >= Len(status[d])
    <3>1. CASE d # c
      BY <1>0, <1>4, <1>6, <1>8, <2>1, <3>1, Types DEF TypeOK, ConfigStep, claimDueAutoSyncRuns
    <3>2. CASE d = c
      <4>1. \A g \in 1 .. n - 1 : worker[c][g].scan \in 0 .. Len(scan)
        BY <1>0, <1>7 DEF TypeOK
      <4>2. \A g \in 1 .. n : worker'[c][g].scan \in 0 .. Len(scan)
        <5>1. 1 .. n = (1 .. n - 1) \cup {n} /\ 0 \in 0 .. Len(scan)
          BY <1>0, <1>a, Types
        <5> QED BY <1>5, <1>7, <4>1, <5>1
      <4> QED BY <1>4, <1>7, <1>9, <1>a, <3>2, <4>2 DEF ConfigStep, claimDueAutoSyncRuns
    <3> QED BY <3>1, <3>2
  <2>2. ASSUME NEW x \in Items
        PROVE  /\ token'[x].observed \in 0 .. Len(scan')
               /\ \A d \in Configs : token'[x].seen[d] \in 0 .. Len(status'[d])
    <3>1. token'[x] = token[x] /\ token[x].observed \in 0 .. Len(scan) /\ scan' = scan
      BY <1>0, <2>2 DEF TypeOK, claimDueAutoSyncRuns
    <3>2. ASSUME NEW d \in Configs PROVE token'[x].seen[d] \in 0 .. Len(status'[d])
      <4>1. token[x].seen[d] \in 0 .. Len(status[d]) /\ Len(status[d]) \in Nat
        BY <1>0, <2>2, <3>2, Types DEF TypeOK
      <4>2. Len(status'[d]) \in Nat
        BY <1>10, <3>2 DEF ShapeOK
      <4> QED BY <2>1, <3>1, <4>1, <4>2, <3>2
    <3> QED BY <3>1, <3>2
  <2> QED BY <1>10, <2>1, <2>2 DEF TypeOK
<1>12. WorkersGrow
  <2>1. ASSUME NEW d \in Configs
        PROVE  /\ Len(worker'[d]) >= Len(worker[d])
               /\ \A g \in DOMAIN worker[d] : worker'[d][g].scan = worker[d][g].scan
               /\ \A g \in DOMAIN worker'[d] : g > Len(worker[d]) => worker'[d][g].scan = 0
    <3>1. CASE d # c
      BY <1>0, <1>6, <3>1, <2>1, Types
    <3>2. CASE d = c
      BY <1>5, <1>7, <3>2
    <3> QED BY <3>1, <3>2
  <2> QED BY <2>1 DEF WorkersGrow
<1>13. ScansGrow /\ ConsumedKept
  BY <1>0, ScansSame DEF claimDueAutoSyncRuns
<1>14. ASSUME NEW d \in Configs PROVE ActiveMoves(d) /\ RunInv(d)' /\ LinkInv(d)'
  <2>1. RunInv(d) /\ LinkInv(d) /\ scan' = scan
    BY DEF IInv, claimDueAutoSyncRuns
  <2>2. CASE d # c
    <3>1. cfg'[d] = cfg[d] /\ worker'[d] = worker[d] /\ status'[d] = status[d]
      BY <1>4, <1>6, <1>8, <2>2 DEF ConfigStep
    <3> QED BY <2>1, <3>1 DEF ActiveMoves, RunInv, LinkInv
  <2>3. CASE d = c
    <3>1. ActiveMoves(c)
      BY <1>4, <1>a DEF ConfigStep, ActiveMoves
    <3>2. RunInv(c)'
      BY <1>4, <1>9 DEF ConfigStep, RunInv
    <3>3. LinkInv(c)'
      <4>1. ASSUME NEW h \in DOMAIN worker'[c]
            PROVE  /\ worker'[c][h].scan # 0 => scan'[worker'[c][h].scan].by = <<c, h>>
                   /\ worker'[c][h].phase = "claimed" => worker'[c][h].scan = 0
                   /\ worker'[c][h].phase \in {"scan", "import"} => worker'[c][h].scan # 0
        <5>1. CASE h \in DOMAIN worker[c]
          <6>1. worker'[c][h] = worker[c][h] /\ scan' = scan
            BY <1>7, <2>1, <5>1
          <6>2. LinkInv(c)
            BY <2>1, <2>3
          <6>3. /\ worker[c][h].scan # 0 => scan[worker[c][h].scan].by = <<c, h>>
                /\ worker[c][h].phase = "claimed" => worker[c][h].scan = 0
                /\ worker[c][h].phase \in {"scan", "import"} => worker[c][h].scan # 0
            BY <5>1, <6>2 DEF LinkInv
          <6> QED BY <6>1, <6>3
        <5>2. CASE h = n
          BY <1>5, <1>7, <5>2
        <5>3. h \in DOMAIN worker[c] \/ h = n
          BY <1>7
        <5> QED BY <5>1, <5>2, <5>3
      <4> QED BY <4>1 DEF LinkInv
    <3> QED BY <2>3, <3>1, <3>2, <3>3
  <2> QED BY <2>2, <2>3
<1>15. ASSUME NEW t \in DOMAIN scan' PROVE ScanInv(t)'
  <2>1. ScanInv(t) /\ scan' = scan /\ scan[t] \in ScanType
    BY <1>0, Types DEF IInv, Scans, claimDueAutoSyncRuns
  <2>2. scan[t].by # ByUser => scan[t].by[1] \in Configs
    BY <2>1 DEF ScanType
  <2>3. \A d \in Configs : \A g \in DOMAIN worker[d] :
          g \in DOMAIN worker'[d] /\ worker'[d][g] = worker[d][g]
    <3>1. DOMAIN worker[c] \subseteq DOMAIN worker'[c]
      BY <1>7
    <3> QED BY <1>6, <1>7, <3>1
  <2> QED BY <2>1, <2>2, <2>3 DEF ScanInv
<1>16. ASSUME NEW x \in Items PROVE TokenInv(x)' /\ \A d \in Configs : LinkKept(x, d)
  <2>1. \A d \in Configs : cfg'[d].state = "deleted" => cfg[d].state = "deleted"
    BY <1>4 DEF ConfigStep
  <2>2. token' = token /\ token[x].observed \in Nat
    BY <1>0, Types DEF claimDueAutoSyncRuns
  <2> QED BY <2>1, <2>2, TokensSame DEF LinkKept
<1> QED BY <1>11, <1>12, <1>13, <1>14, <1>15, <1>16, Tame

(***************************************************************************)
(* Scans                                                                   *)
(***************************************************************************)

\* A step of a request, or of a user, while no run changes its row: runs may go on
\* to their import.
LEMMA Request ==
  ASSUME IInv, UNCHANGED <<cfg, status>>,
         worker' \in [Configs -> Seq(WorkerType)],
         \A c \in Configs :
           /\ Len(worker'[c]) = Len(worker[c])
           /\ \A g \in DOMAIN worker[c] :
                /\ worker'[c][g].scan = worker[c][g].scan
                /\ \/ worker'[c][g].phase = worker[c][g].phase
                   \/ worker'[c][g].phase = "import" /\ worker[c][g].scan # 0,
         scan' \in Seq(ScanType), Len(scan') = Len(scan),
         \A t \in Scans : ScanGrows(t) /\ ScanInv(t)',
         token' \in [Items -> TokenType],
         \A x \in Items : /\ token'[x].observed \in 0 .. Len(scan)
                          /\ \A c \in Configs : token'[x].seen[c] \in 0 .. Len(status[c]),
         present' \subseteq Items, left' \in 0 .. MaxDisturbances
  PROVE  /\ TypeOK' /\ WorkersGrow /\ ScansGrow
         /\ \A c \in Configs : ActiveMoves(c) /\ RunInv(c)' /\ LinkInv(c)'
         /\ \A t \in DOMAIN scan' : ScanInv(t)'
<1>0. ShapeOK /\ TypeOK
  BY DEF IInv, TypeOK
<1>1. ShapeOK'
  BY <1>0 DEF ShapeOK
<1>2. DOMAIN scan' = Scans /\ \A c \in Configs : DOMAIN worker'[c] = DOMAIN worker[c]
  <2>1. DOMAIN scan' = Scans
    BY <1>0 DEF ShapeOK, Scans
  <2>2. ASSUME NEW c \in Configs PROVE DOMAIN worker'[c] = DOMAIN worker[c]
    <3>1. worker'[c] \in Seq(WorkerType) /\ worker[c] \in Seq(WorkerType)
      BY <1>0, <2>2, Types
    <3> QED BY <2>2, <3>1
  <2> QED BY <2>1, <2>2
<1>3. TypeOK'
  <2>1. ASSUME NEW c \in Configs
        PROVE  /\ Len(worker'[c]) = Len(status'[c])
               /\ cfg'[c].active \in 0 .. Len(status'[c])
               /\ \A g \in DOMAIN worker'[c] : worker'[c][g].scan \in 0 .. Len(scan')
    <3>1. \A g \in DOMAIN worker[c] : worker[c][g].scan \in 0 .. Len(scan)
      BY <1>0, <2>1 DEF TypeOK
    <3> QED BY <1>0, <1>2, <2>1, <3>1 DEF TypeOK
  <2>2. \A x \in Items : /\ token'[x].observed \in 0 .. Len(scan')
                         /\ \A c \in Configs : token'[x].seen[c] \in 0 .. Len(status'[c])
    OBVIOUS
  <2> QED BY <1>1, <2>1, <2>2 DEF TypeOK
<1>4. WorkersGrow
  BY <1>0, <1>2, Types DEF WorkersGrow
<1>5. ScansGrow
  BY <1>0, <1>2, Types DEF ScansGrow
<1>6. ASSUME NEW c \in Configs PROVE ActiveMoves(c) /\ RunInv(c)' /\ LinkInv(c)'
  <2>1. ActiveMoves(c) /\ RunInv(c)'
    BY DEF ActiveMoves, RunInv, IInv
  <2>2. LinkInv(c)'
    <3> SUFFICES ASSUME NEW g \in DOMAIN worker[c]
                 PROVE  /\ worker'[c][g].scan # 0 => scan'[worker'[c][g].scan].by = <<c, g>>
                        /\ worker'[c][g].phase = "claimed" => worker'[c][g].scan = 0
                        /\ worker'[c][g].phase \in {"scan", "import"} => worker'[c][g].scan # 0
      BY <1>2 DEF LinkInv
    <3>1. /\ worker[c][g].scan # 0 => scan[worker[c][g].scan].by = <<c, g>>
          /\ worker[c][g].phase = "claimed" => worker[c][g].scan = 0
          /\ worker[c][g].phase \in {"scan", "import"} => worker[c][g].scan # 0
      BY DEF IInv, LinkInv
    <3>2. worker[c][g].scan \in 0 .. Len(scan)
      BY DEF IInv, TypeOK
    <3>3. worker[c][g].scan # 0 => scan'[worker[c][g].scan].by = scan[worker[c][g].scan].by
      BY <1>0, <3>2, Types DEF ScanGrows
    <3> QED BY <3>1, <3>3
  <2> QED BY <2>1, <2>2
<1> QED BY <1>2, <1>3, <1>4, <1>5, <1>6

\* A scan that is left alone.
LEMMA ScanRests ==
  ASSUME IInv, NEW t \in Scans, scan'[t] = scan[t],
         \A c \in Configs : /\ DOMAIN worker[c] \subseteq DOMAIN worker'[c]
                            /\ \A g \in DOMAIN worker[c] :
                                 worker[c][g].scan # 0 => worker'[c][g].scan = worker[c][g].scan
  PROVE  ScanGrows(t) /\ ScanInv(t)' /\ (scan'[t].consumed => scan[t].consumed)
<1>0. ShapeOK /\ ScanInv(t)
  BY DEF IInv, TypeOK
<1>1. ScanGrows(t)
  BY DEF ScanGrows
<1>2. scan[t].by # ByUser => scan[t].by[1] \in Configs
  BY <1>0, Types DEF ScanType
<1>3. t # 0
  BY <1>0, Types
<1> QED BY <1>0, <1>1, <1>2, <1>3 DEF ScanInv

\* What a step may do to the tokens while no run imports.
TokenMoves(x) ==
  /\ token'[x].observed \in 0 .. Len(scan)
  /\ \A c \in Configs : token'[x].seen[c] \in 0 .. Len(status[c]) /\ LinkKept(x, c)
  /\ TokenInv(x)'
TokensMove == token' \in [Items -> TokenType] /\ \A x \in Items : TokenMoves(x)

\* Tokens that are left alone.
LEMMA TokensRest ==
  ASSUME IInv, UNCHANGED <<cfg, status, token>>
  PROVE  TokensMove
<1>0. ShapeOK /\ TypeOK
  BY DEF IInv, TypeOK
<1>1. \A x \in Items : token[x].observed \in Nat
  BY <1>0, Types
<1>2. \A x \in Items : TokenInv(x)'
  BY DEF IInv, TokenInv
<1>3. \A x \in Items, c \in Configs : LinkKept(x, c)
  BY <1>1 DEF LinkKept
<1> QED BY <1>0, <1>2, <1>3 DEF TypeOK, ShapeOK, TokensMove, TokenMoves

\* One scan s moves on, and no run reconciles.
LEMMA OneScan ==
  ASSUME IInv, NEW s \in Scans, NEW r, ScanMoves(s, r), ScanGrows(s), ScanInv(s)',
         scan[s].by # ByUser /\ r.consumed => scan[s].consumed,
         UNCHANGED <<cfg, status, worker, present>>, left' \in 0 .. MaxDisturbances,
         TokensMove
  PROVE  IInv'
<1>0. ShapeOK /\ present \subseteq Items /\ worker \in [Configs -> Seq(WorkerType)]
  BY DEF IInv, TypeOK, ShapeOK
<1>1. \A t \in Scans \ {s} : ScanGrows(t) /\ ScanInv(t)' /\ (scan'[t].consumed => scan[t].consumed)
  BY ScanRests DEF ScanMoves
<1>2. \A t \in Scans : ScanGrows(t) /\ ScanInv(t)'
  BY <1>1
<1>3. ConsumedKept
  BY <1>1 DEF ConsumedKept, ScanMoves
<1>4. scan' \in Seq(ScanType) /\ Len(scan') = Len(scan)
  BY DEF ScanMoves
<1>5. /\ TypeOK' /\ WorkersGrow /\ ScansGrow
      /\ \A c \in Configs : ActiveMoves(c) /\ RunInv(c)' /\ LinkInv(c)'
      /\ \A t \in DOMAIN scan' : ScanInv(t)'
  BY <1>0, <1>2, <1>4, Request DEF TokensMove, TokenMoves
<1> QED BY <1>3, <1>5, Tame DEF TokensMove, TokenMoves

LEMMA ScanWrites ==
  ASSUME NEW q \in ScanType, NEW p \in Phases, NEW i \in SUBSET Items, NEW b \in BOOLEAN,
         NEW scope \in SUBSET Items
  PROVE  /\ [q EXCEPT !.phase = p] \in ScanType
         /\ [q EXCEPT !.phase = p, !.items = i, !.scope = scope] \in ScanType
         /\ [q EXCEPT !.phase = p, !.items = i, !.complete = b] \in ScanType
         /\ [q EXCEPT !.phase = p, !.todo = i] \in ScanType
         /\ [q EXCEPT !.phase = p, !.consumed = b] \in ScanType
<1>1. [q EXCEPT !.phase = p] \in ScanType
  BY Zenon DEF ScanType, Phases
<1>2. [q EXCEPT !.phase = p, !.items = i, !.scope = scope] \in ScanType
  BY Zenon DEF ScanType, Phases
<1>3. [q EXCEPT !.phase = p, !.items = i, !.complete = b] \in ScanType
  BY Zenon DEF ScanType, Phases
<1>4. [q EXCEPT !.phase = p, !.todo = i] \in ScanType
  BY Zenon DEF ScanType, Phases
<1>5. [q EXCEPT !.phase = p, !.consumed = b] \in ScanType
  BY Zenon DEF ScanType, Phases
<1> QED BY <1>1, <1>2, <1>3, <1>4, <1>5

LEMMA ItemWrites ==
  ASSUME NEW q \in ScanType, NEW i \in SUBSET Items, NEW b \in BOOLEAN
  PROVE  /\ [q EXCEPT !.todo = i] \in ScanType
         /\ [q EXCEPT !.todo = i, !.errors = b] \in ScanType
         /\ [q EXCEPT !.consumed = b] \in ScanType
<1>1. [q EXCEPT !.todo = i] \in ScanType
  BY Zenon DEF ScanType
<1>2. [q EXCEPT !.todo = i, !.errors = b] \in ScanType
  BY Zenon DEF ScanType
<1>3. [q EXCEPT !.consumed = b] \in ScanType
  BY Zenon DEF ScanType
<1> QED BY <1>1, <1>2, <1>3

\* The phase alone: refused, or answered without cleanup.
PhaseOf(q, p) == [q EXCEPT !.phase = p]
LEMMA ScanPhase ==
  ASSUME ShapeOK, NEW s \in Scans, NEW p \in Phases, scan' = [scan EXCEPT ![s].phase = p]
  PROVE  /\ ScanMoves(s, scan'[s])
         /\ scan'[s].phase = p
         /\ scan'[s].by = scan[s].by
         /\ scan'[s].items = scan[s].items /\ scan'[s].scope = scan[s].scope
         /\ scan'[s].todo = scan[s].todo
         /\ scan'[s].consumed = scan[s].consumed
         /\ scan'[s].complete = scan[s].complete
<1>0. scan[s] \in ScanType
  BY Types
<1> DEFINE r == PhaseOf(scan[s], p)
<1>1. r \in ScanType
  BY <1>0, ScanWrites DEF PhaseOf
<1>2. /\ r.phase = p /\ r.by = scan[s].by /\ r.items = scan[s].items /\ r.scope = scan[s].scope
      /\ r.todo = scan[s].todo /\ r.consumed = scan[s].consumed
      /\ r.complete = scan[s].complete
  BY <1>0 DEF ScanType, PhaseOf
<1>3. scan' = [scan EXCEPT ![s] = r]
  BY DEF ShapeOK, Scans, PhaseOf
<1> HIDE DEF r
<1>4. ScanMoves(s, r)
  BY <1>1, <1>3, ScanUpdate
<1>5. scan'[s] = r
  BY <1>4 DEF ScanMoves
<1> QED BY <1>2, <1>4, <1>5

LEMMA ListProvider ==
  ASSUME IInv, NEW s \in Scans, listProvider(s) \/ listPart(s)
  PROVE  IInv'
<1>0. ShapeOK /\ scan[s] \in ScanType /\ present \in SUBSET Items /\ ScanInv(s)
  BY Types DEF IInv, TypeOK, ShapeOK
<1>1. PICK r \in ScanType : /\ r.phase = "listed" /\ r.by = scan[s].by /\ r.todo = scan[s].todo
                            /\ r.consumed = scan[s].consumed
                            /\ scan' = [scan EXCEPT ![s] = r]
  <2>1. CASE listProvider(s)
    <3> DEFINE found == present \cap scan[s].scope
               r == [scan[s] EXCEPT !.phase = "listed", !.items = found, !.complete = TRUE]
    <3>0. found \in SUBSET Items
      BY <1>0
    <3> HIDE DEF found
    <3>1. r \in ScanType
      BY <1>0, <3>0, ScanWrites DEF Phases
    <3>2. /\ r.phase = "listed" /\ r.by = scan[s].by /\ r.todo = scan[s].todo
          /\ r.consumed = scan[s].consumed
      BY <1>0 DEF ScanType
    <3>3. scan' = [scan EXCEPT ![s] = r]
      BY <1>0, <2>1 DEF listProvider, ShapeOK, Scans, found
    <3> QED BY <3>1, <3>2, <3>3
  <2>2. CASE listPart(s)
    <3>0. PICK part \in SUBSET (present \cap scan[s].scope), whole \in SUBSET scan[s].scope :
            scan' = [scan EXCEPT ![s].phase = "listed", ![s].items = part, ![s].scope = whole]
      BY <2>2 DEF listPart
    <3> DEFINE r == [scan[s] EXCEPT !.phase = "listed", !.items = part, !.scope = whole]
    <3>1. r \in ScanType
      <4>0. scan[s].scope \in SUBSET Items
        BY <1>0 DEF ScanType
      <4>1. part \in SUBSET Items /\ whole \in SUBSET Items
        BY <1>0, <4>0
      <4> QED BY <1>0, <4>1, ScanWrites DEF Phases
    <3>2. /\ r.phase = "listed" /\ r.by = scan[s].by /\ r.todo = scan[s].todo
          /\ r.consumed = scan[s].consumed
      BY <1>0 DEF ScanType
    <3>3. scan' = [scan EXCEPT ![s] = r]
      BY <1>0, <3>0 DEF ShapeOK, Scans
    <3> QED BY <3>1, <3>2, <3>3
  <2> QED BY <2>1, <2>2
<1>2. ScanMoves(s, r)
  BY <1>0, <1>1, ScanUpdate
<1>3. scan'[s] = r /\ scan[s].phase = "started"
  BY <1>2 DEF ScanMoves, listProvider, listPart
<1>4. ScanGrows(s)
  BY <1>1, <1>3 DEF ScanGrows, Imported, Stored
<1>5. ScanInv(s)'
  <2>1. worker' = worker /\ scan[s].todo = {}
    BY <1>0, <1>3 DEF ScanInv, listProvider, listPart
  <2>2. r.by # ByUser /\ r.consumed => FALSE
    BY <1>0, <1>1, <1>3 DEF ScanInv
  <2> QED BY <1>0, <1>1, <1>3, <2>1, <2>2 DEF ScanInv
<1>6. left' \in 0 .. MaxDisturbances
  BY <1>0, Spent DEF listProvider, listPart, ShapeOK
<1>7. UNCHANGED <<cfg, status, worker, token, present>>
  BY DEF listProvider, listPart
<1>8. TokensMove
  BY <1>7, TokensRest
<1>9. scan[s].by # ByUser /\ r.consumed => scan[s].consumed
  BY <1>1
<1> QED BY <1>2, <1>4, <1>5, <1>6, <1>7, <1>8, <1>9, OneScan

\* The request of a run that is no longer current, or one that has nothing to clean
\* up, ends.
LEMMA RequestEnds ==
  ASSUME IInv, NEW s \in Scans, NEW p \in {"refused", "answered"},
         scan' = [scan EXCEPT ![s].phase = p],
         scan[s].phase = "importing" \/ (scan[s].phase = "listed" /\ p = "refused"),
         UNCHANGED <<cfg, status, worker, token, present, left>>
  PROVE  IInv'
<1>0. ShapeOK /\ ScanInv(s) /\ left \in 0 .. MaxDisturbances
  BY DEF IInv, TypeOK, ShapeOK
<1>1. p \in Phases
  BY DEF Phases
<1>2. /\ ScanMoves(s, scan'[s])
      /\ scan'[s].phase = p
      /\ scan'[s].by = scan[s].by
      /\ scan'[s].items = scan[s].items /\ scan'[s].scope = scan[s].scope
      /\ scan'[s].todo = scan[s].todo
      /\ scan'[s].consumed = scan[s].consumed
  BY <1>0, <1>1, ScanPhase
<1>3. ScanGrows(s)
  BY <1>2 DEF ScanGrows, Imported, Stored
<1>4. ScanInv(s)'
  BY <1>0, <1>2 DEF ScanInv
<1>5. TokensMove
  BY TokensRest
<1>6. scan[s].by # ByUser /\ scan'[s].consumed => scan[s].consumed
  BY <1>2
<1> QED BY <1>0, <1>2, <1>3, <1>4, <1>5, <1>6, OneScan

LEMMA ImportRefused ==
  ASSUME IInv, NEW s \in Scans, importRefused(s) \/ importAnswered(s)
  PROVE  IInv'
BY RequestEnds DEF importRefused, importAnswered

LEMMA ItemInError ==
  ASSUME IInv, NEW s \in Scans, NEW x \in Items, itemInError(s, x)
  PROVE  IInv'
<1>0. ShapeOK /\ scan[s] \in ScanType /\ ScanInv(s) /\ scan[s].todo \ {x} \in SUBSET Items
  BY Types DEF IInv, TypeOK, ScanType
<1>1. PICK r \in ScanType : /\ r.phase = scan[s].phase /\ r.by = scan[s].by
                            /\ r.items = scan[s].items /\ r.scope = scan[s].scope /\ r.todo = scan[s].todo \ {x}
                            /\ r.consumed = scan[s].consumed
                            /\ scan' = [scan EXCEPT ![s] = r]
  <2> DEFINE r == [scan[s] EXCEPT !.todo = scan[s].todo \ {x}, !.errors = TRUE]
  <2>1. r \in ScanType
    BY <1>0, ItemWrites
  <2>2. /\ r.phase = scan[s].phase /\ r.by = scan[s].by
        /\ r.items = scan[s].items /\ r.scope = scan[s].scope /\ r.todo = scan[s].todo \ {x}
        /\ r.consumed = scan[s].consumed
    BY <1>0 DEF ScanType
  <2>3. scan' = [scan EXCEPT ![s] = r]
    BY <1>0 DEF itemInError, ShapeOK, Scans
  <2> QED BY <2>1, <2>2, <2>3
<1>2. ScanMoves(s, r)
  BY <1>0, <1>1, ScanUpdate
<1>3. scan'[s] = r /\ scan[s].phase = "importing"
  BY <1>2 DEF ScanMoves, itemInError
<1>4. ScanGrows(s)
  BY <1>1, <1>3 DEF ScanGrows, Imported, Stored
<1>5. ScanInv(s)'
  <2>1. worker' = worker
    BY DEF itemInError
  <2> QED BY <1>0, <1>1, <1>3, <2>1 DEF ScanInv
<1>6. left' \in 0 .. MaxDisturbances
  BY <1>0, Spent DEF itemInError
<1>7. UNCHANGED <<cfg, status, worker, token, present>>
  BY DEF itemInError
<1>8. TokensMove
  BY <1>7, TokensRest
<1>9. scan[s].by # ByUser /\ r.consumed => scan[s].consumed
  BY <1>1
<1> QED BY <1>2, <1>4, <1>5, <1>6, <1>7, <1>8, <1>9, OneScan

(***************************************************************************)
(* Tokens                                                                  *)
(***************************************************************************)

\* A step on the tokens, or at the provider.
LEMMA TokensOnly ==
  ASSUME IInv, TokensMove, UNCHANGED <<cfg, status, worker, scan>>,
         present' \subseteq Items, left' \in 0 .. MaxDisturbances
  PROVE  IInv'
<1>0. ShapeOK /\ worker' \in [Configs -> Seq(WorkerType)] /\ scan' \in Seq(ScanType)
  BY DEF IInv, TypeOK, ShapeOK
<1>1. ASSUME NEW t \in Scans PROVE ScanGrows(t) /\ ScanInv(t)'
  BY ScanRests
<1>2. /\ TypeOK' /\ WorkersGrow /\ ScansGrow
      /\ \A c \in Configs : ActiveMoves(c) /\ RunInv(c)' /\ LinkInv(c)'
      /\ \A t \in DOMAIN scan' : ScanInv(t)'
  BY <1>0, <1>1, Request DEF TokensMove, TokenMoves
<1>3. ConsumedKept
  BY DEF ConsumedKept
<1> QED BY <1>2, <1>3, Tame DEF TokensMove, TokenMoves

\* A token that is left alone, while others are not.
LEMMA TokenRests ==
  ASSUME IInv, NEW x \in Items, token'[x] = token[x], UNCHANGED <<cfg, status>>
  PROVE  TokenMoves(x)
<1>0. ShapeOK /\ TokenInv(x)
  BY DEF IInv, TypeOK
<1>1. token[x].observed \in Nat
  BY <1>0, Types
<1>2. TokenInv(x)' /\ \A c \in Configs : LinkKept(x, c)
  BY <1>0, <1>1 DEF TokenInv, LinkKept
<1>3. token[x].observed \in 0 .. Len(scan) /\ \A c \in Configs : token[x].seen[c] \in 0 .. Len(status[c])
  BY DEF IInv, TypeOK
<1> QED BY <1>2, <1>3 DEF TokenMoves

LEMMA EmptyToken ==
  /\ NoToken \in TokenType /\ ~NoToken.row /\ ~NoToken.managed /\ NoToken.observed = 0
  /\ NoToken.seen = [c \in Configs |-> 0]
BY DEF NoToken, TokenType

\* A token that is deleted.
LEMMA TokenGoes ==
  ASSUME IInv, NEW x \in Items, token'[x] = NoToken
  PROVE  token'[x] \in TokenType /\ TokenMoves(x)
<1>1. ShapeOK /\ \A c \in Configs : Len(status[c]) \in Nat
  BY Types DEF IInv, TypeOK
<1>2. \A c \in Configs : token'[x].seen[c] = 0
  BY EmptyToken
<1>3. TokenInv(x)' /\ \A c \in Configs : LinkKept(x, c)
  BY <1>2, EmptyToken DEF TokenInv, LinkKept
<1> QED BY <1>1, <1>2, <1>3, EmptyToken, Types DEF TokenMoves

\* A token that scan s found again.
LEMMA Rediscovered ==
  ASSUME NEW t \in TokenType, NEW n \in Nat
  PROVE  LET u == [t EXCEPT !.observed = n]
         IN  u \in TokenType /\ u.row = t.row /\ u.managed = t.managed /\ u.seen = t.seen /\ u.observed = n
BY DEF TokenType

LEMMA UserDeletesToken ==
  ASSUME IInv, NEW x \in Items, userDeletesToken(x) \/ providerChanges(x)
  PROVE  IInv'
<1>0. ShapeOK
  BY DEF IInv, TypeOK
<1>1. left' \in 0 .. MaxDisturbances
  BY <1>0, Spent DEF userDeletesToken, providerChanges
<1>2. UNCHANGED <<cfg, status, worker, scan>> /\ present' \subseteq Items
  BY <1>0 DEF userDeletesToken, providerChanges, ShapeOK
<1>3. CASE providerChanges(x)
  <2>1. TokensMove
    BY <1>2, <1>3, TokensRest DEF providerChanges
  <2> QED BY <1>1, <1>2, <2>1, TokensOnly
<1>4. CASE userDeletesToken(x)
  <2>1. token' = [token EXCEPT ![x] = NoToken]
    BY <1>4 DEF userDeletesToken
  <2>2. token'[x] = NoToken /\ \A y \in Items \ {x} : token'[y] = token[y]
    BY <1>0, <2>1 DEF ShapeOK
  <2>3. \A y \in Items : TokenMoves(y)
    BY <1>2, <2>2, TokenRests, TokenGoes
  <2>4. token' \in [Items -> TokenType]
    BY <1>0, <2>1, EmptyToken DEF ShapeOK
  <2>5. TokensMove
    BY <2>3, <2>4 DEF TokensMove
  <2> QED BY <1>1, <1>2, <2>5, TokensOnly
<1> QED BY <1>3, <1>4

LEMMA LaterOf ==
  ASSUME NEW a \in Nat, NEW b \in Nat, NEW m \in Nat, a <= m, b <= m
  PROVE  Later(a, b) \in 0 .. m /\ Later(a, b) \in Nat /\ Later(a, b) >= a /\ Later(a, b) >= b
BY DEF Later

\* A scan is stored with the rediscovery of its tokens, or refused.
LEMMA PersistScan == ASSUME IInv, NEW s \in Scans, persistScan(s) PROVE IInv'
<1>0. ShapeOK /\ ScanInv(s) /\ left \in 0 .. MaxDisturbances /\ s \in Nat /\ s <= Len(scan) /\ Len(scan) \in Nat
  BY Types DEF IInv, TypeOK, ShapeOK
<1>1. CASE ~mayWrite(s)
  BY <1>1, RequestEnds DEF persistScan
<1>2. CASE mayWrite(s)
  <2>1. scan' = [scan EXCEPT ![s].phase = "persisted"] /\ token' = recordScanItems(s)
    BY <1>2 DEF persistScan
  <2>2. /\ ScanMoves(s, scan'[s])
        /\ scan'[s].phase = "persisted"
        /\ scan'[s].by = scan[s].by
        /\ scan'[s].items = scan[s].items /\ scan'[s].scope = scan[s].scope
        /\ scan'[s].todo = scan[s].todo
        /\ scan'[s].consumed = scan[s].consumed
    BY <1>0, <2>1, ScanPhase DEF Phases
  <2>3. UNCHANGED <<cfg, status, worker, present, left>> /\ scan[s].phase = "listed"
    BY DEF persistScan
  <2>4. ASSUME NEW x \in Items
        PROVE  /\ TokenMoves(x) /\ token'[x] \in TokenType
               /\ x \in scan[s].items /\ token'[x].row => token'[x].observed >= s
    <3>0. /\ token[x] \in TokenType /\ token[x].observed \in Nat /\ TokenInv(x)
          /\ token[x].observed <= Len(scan)
          /\ \A c \in Configs : token[x].seen[c] \in 0 .. Len(status[c])
      BY <1>0, Types DEF IInv, TypeOK
    <3>1. CASE ~(x \in scan[s].items /\ token[x].row)
      <4>1. token'[x] = token[x]
        BY <2>1, <3>1 DEF recordScanItems
      <4> QED BY <2>3, <3>0, <3>1, <4>1, TokenRests
    <3>2. CASE x \in scan[s].items /\ token[x].row
      <4>0. PICK n \in Nat : n = Later(token[x].observed, s)
        BY <1>0, <3>0, LaterOf
      <4>1. n \in 0 .. Len(scan) /\ n >= token[x].observed /\ n >= s
        BY <1>0, <3>0, <4>0, LaterOf
      <4> DEFINE u == [token[x] EXCEPT !.observed = n]
      <4>2. token'[x] = u
        BY <2>1, <3>2, <4>0 DEF recordScanItems
      <4>3. /\ u \in TokenType /\ u.row = token[x].row /\ u.managed = token[x].managed
            /\ u.seen = token[x].seen /\ u.observed = n
        BY <3>0, Rediscovered
      <4> HIDE DEF u
      <4>4. TokenInv(x)'
        BY <2>3, <3>0, <4>2, <4>3 DEF TokenInv
      <4>5. \A c \in Configs : LinkKept(x, c)
        BY <4>1, <4>2, <4>3 DEF LinkKept
      <4> QED BY <3>0, <4>1, <4>2, <4>3, <4>4, <4>5 DEF TokenMoves
    <3> QED BY <3>1, <3>2
  <2>5. TokensMove
    <3>1. token' = [x \in Items |-> token'[x]]
      BY <2>1 DEF recordScanItems
    <3>2. token' \in [Items -> TokenType]
      BY <2>4, <3>1
    <3> QED BY <2>4, <3>2 DEF TokensMove
  <2>6. ScanGrows(s)
    <3>1. scan[s].items \subseteq Items
      BY <1>0, Types DEF ScanType
    <3> QED BY <2>2, <2>3, <2>4, <3>1 DEF ScanGrows, Imported, Stored
  <2>7. ScanInv(s)'
    BY <1>0, <2>2, <2>3 DEF ScanInv
  <2>8. scan[s].by # ByUser /\ scan'[s].consumed => scan[s].consumed
    BY <2>2
  <2> QED BY <1>0, <2>2, <2>3, <2>5, <2>6, <2>7, <2>8, OneScan
<1> QED BY <1>1, <1>2

LEMMA Upserted ==
  ASSUME ShapeOK, NEW x \in Items, NEW s \in Nat, NEW manual \in BOOLEAN
  PROVE  LET t == token[x]
             u == upsertImportedToken(s, x, manual)
         IN  /\ u \in TokenType
             /\ u.row
             /\ t.row => /\ u.seen = t.seen
                         /\ u.observed = Later(t.observed, s)
                         /\ u.managed = (t.managed /\ ~manual)
             /\ ~t.row => /\ u.seen = [c \in Configs |-> 0]
                          /\ u.observed = s
                          /\ u.managed = ~manual
<1> DEFINE t == token[x]
<1>1. t \in TokenType /\ t.observed \in Nat
  BY Types
<1>2. CASE t.row
  <2>1. PICK n \in Nat : n = Later(t.observed, s)
    BY <1>1 DEF Later
  <2>2. PICK m \in BOOLEAN : m = (t.managed /\ ~manual)
    OBVIOUS
  <2>3. upsertImportedToken(s, x, manual) = [t EXCEPT !.observed = n, !.managed = m]
    BY <1>2, <2>1, <2>2 DEF upsertImportedToken
  <2> HIDE DEF t
  <2>4. [t EXCEPT !.observed = n, !.managed = m] \in TokenType
    BY <1>1, Zenon DEF TokenType
  <2>5. /\ [t EXCEPT !.observed = n, !.managed = m].row = t.row
        /\ [t EXCEPT !.observed = n, !.managed = m].seen = t.seen
        /\ [t EXCEPT !.observed = n, !.managed = m].observed = n
        /\ [t EXCEPT !.observed = n, !.managed = m].managed = m
    BY <1>1 DEF TokenType
  <2> QED BY <1>2, <2>1, <2>2, <2>3, <2>4, <2>5 DEF t
<1>3. CASE ~t.row
  <2>2. PICK m \in BOOLEAN : m = ~manual
    OBVIOUS
  <2> DEFINE u == [NoToken EXCEPT !.row = TRUE, !.managed = m, !.observed = s]
  <2>3. upsertImportedToken(s, x, manual) = u
    BY <1>3, <2>2 DEF upsertImportedToken
  <2>4. /\ u \in TokenType /\ u.row /\ u.seen = NoToken.seen /\ u.observed = s /\ u.managed = m
    BY DEF TokenType, NoToken
  <2> HIDE DEF u
  <2> QED BY <1>3, <2>2, <2>3, <2>4, EmptyToken
<1> QED BY <1>2, <1>3

LEMMA UserImport ==
  ASSUME IInv, NEW s \in Scans, NEW x \in Items, userImport(s, x)
  PROVE  IInv'
<1>0. /\ ShapeOK /\ s \in Nat /\ s <= Len(scan) /\ Len(scan) \in Nat
      /\ left \in 0 .. MaxDisturbances /\ present \subseteq Items
  BY Types DEF IInv, TypeOK, ShapeOK
<1>1. /\ token[x] \in TokenType /\ token[x].observed \in Nat /\ TokenInv(x)
      /\ token[x].observed <= Len(scan)
      /\ \A c \in Configs : token[x].seen[c] \in 0 .. Len(status[c]) /\ Len(status[c]) \in Nat
  BY <1>0, Types DEF IInv, TypeOK
<1>2. UNCHANGED <<cfg, status, worker, scan, present, left>>
  BY DEF userImport
<1> DEFINE u == upsertImportedToken(s, x, TRUE)
<1>3. token' = [token EXCEPT ![x] = u]
  BY DEF userImport
<1>4. /\ u \in TokenType
      /\ u.row
      /\ token[x].row => u.seen = token[x].seen /\ u.observed = Later(token[x].observed, s)
      /\ ~token[x].row => u.seen = [c \in Configs |-> 0] /\ u.observed = s
      /\ ~u.managed
  BY <1>0, Upserted
<1> HIDE DEF u
<1>5. token'[x] = u /\ \A y \in Items \ {x} : token'[y] = token[y]
  BY <1>0, <1>3 DEF ShapeOK
<1>6. TokenMoves(x)
  <2>1. CASE token[x].row
    <3>1. Later(token[x].observed, s) \in 0 .. Len(scan) /\ Later(token[x].observed, s) >= token[x].observed
      BY <1>0, <1>1, LaterOf
    <3>2. TokenInv(x)'
      BY <1>1, <1>2, <1>4, <1>5, <2>1 DEF TokenInv
    <3>3. \A c \in Configs : LinkKept(x, c)
      BY <1>4, <1>5, <2>1, <3>1 DEF LinkKept
    <3> QED BY <1>1, <1>4, <1>5, <2>1, <3>1, <3>2, <3>3 DEF TokenMoves
  <2>2. CASE ~token[x].row
    <3>1. \A c \in Configs : token'[x].seen[c] = 0
      BY <1>4, <1>5, <2>2
    <3>2. TokenInv(x)' /\ \A c \in Configs : LinkKept(x, c)
      BY <1>4, <1>5, <3>1 DEF TokenInv, LinkKept
    <3> QED BY <1>0, <1>1, <1>4, <1>5, <2>2, <3>1, <3>2 DEF TokenMoves
  <2> QED BY <2>1, <2>2
<1>7. TokensMove
  <2>1. token' \in [Items -> TokenType]
    BY <1>0, <1>3, <1>4 DEF ShapeOK
  <2>2. \A y \in Items \ {x} : TokenMoves(y)
    BY <1>2, <1>5, TokenRests
  <2> QED BY <1>6, <2>1, <2>2 DEF TokensMove
<1> QED BY <1>0, <1>2, <1>7, TokensOnly

LEMMA UserCleanup == ASSUME IInv, NEW s \in Scans, userCleanup(s) PROVE IInv'
<1>0. ShapeOK /\ scan[s] \in ScanType /\ ScanInv(s) /\ left \in 0 .. MaxDisturbances
  BY Types DEF IInv, TypeOK, ShapeOK
<1>1. PICK r \in ScanType : /\ r.phase = scan[s].phase /\ r.by = scan[s].by
                            /\ r.items = scan[s].items /\ r.scope = scan[s].scope /\ r.todo = scan[s].todo
                            /\ scan' = [scan EXCEPT ![s] = r]
  <2> DEFINE r == [scan[s] EXCEPT !.consumed = TRUE]
  <2>1. r \in ScanType
    BY <1>0 DEF ScanType
  <2>2. /\ r.phase = scan[s].phase /\ r.by = scan[s].by
        /\ r.items = scan[s].items /\ r.scope = scan[s].scope /\ r.todo = scan[s].todo
    BY <1>0 DEF ScanType
  <2>3. scan' = [scan EXCEPT ![s] = r]
    BY <1>0 DEF userCleanup, ShapeOK, Scans
  <2> QED BY <2>1, <2>2, <2>3
<1>2. ScanMoves(s, r)
  BY <1>0, <1>1, ScanUpdate
<1>3. scan'[s] = r /\ scan[s].phase = "persisted" /\ scan[s].by = ByUser
  BY <1>2 DEF ScanMoves, userCleanup
<1>4. ScanGrows(s)
  BY <1>1, <1>3 DEF ScanGrows, Imported, Stored
<1>5. ScanInv(s)'
  BY <1>0, <1>1, <1>3 DEF ScanInv
<1>6. UNCHANGED <<cfg, status, worker, present, left>>
  BY DEF userCleanup
<1>7. TokensMove
  <2>1. ASSUME NEW x \in Items PROVE TokenMoves(x) /\ token'[x] \in TokenType
    <3>1. token'[x] = token[x] \/ token'[x] = NoToken
      BY DEF userCleanup
    <3>2. token[x] \in TokenType
      BY <1>0, Types
    <3> QED BY <1>6, <3>1, <3>2, TokenRests, TokenGoes
  <2>2. token' = [x \in Items |-> token'[x]]
    BY DEF userCleanup
  <2>3. token' \in [Items -> TokenType]
    BY <2>1, <2>2
  <2> QED BY <2>1, <2>3 DEF TokensMove
<1>8. left' \in 0 .. MaxDisturbances /\ (scan[s].by # ByUser /\ r.consumed => scan[s].consumed)
  BY <1>0, <1>3, <1>6
<1> QED BY <1>2, <1>4, <1>5, <1>6, <1>7, <1>8, OneScan

LEMMA BeginImport ==
  ASSUME IInv, NEW c \in Configs, NEW g \in DOMAIN worker[c], beginImport(c, g)
  PROVE  IInv'
<1>0. /\ ShapeOK /\ left \in 0 .. MaxDisturbances /\ present \subseteq Items
  BY DEF IInv, TypeOK, ShapeOK
<1>a. PICK s \in Scans : s = worker[c][g].scan /\ scan[s].by = <<c, g>> /\ s # 0
  <2> DEFINE s == worker[c][g].scan
  <2>1. s \in 0 .. Len(scan) /\ s # 0 /\ scan[s].by = <<c, g>>
    BY DEF IInv, TypeOK, LinkInv, beginImport
  <2> QED BY <1>0, <2>1, Types
<1>b. scan[s].phase = "persisted" /\ UNCHANGED <<cfg, status, token, present, left>>
  BY <1>a DEF beginImport
<1>c. scan[s] \in ScanType /\ ScanInv(s) /\ scan[s].items \in SUBSET Items
  BY <1>0, <1>a, Types DEF IInv, ScanType
<1>1. PICK r \in ScanType : /\ r.phase = "importing" /\ r.by = scan[s].by
                            /\ r.items = scan[s].items /\ r.scope = scan[s].scope /\ r.todo = scan[s].items
                            /\ r.consumed = scan[s].consumed
                            /\ scan' = [scan EXCEPT ![s] = r]
  <2> DEFINE r == [scan[s] EXCEPT !.phase = "importing", !.todo = scan[s].items]
  <2>1. r \in ScanType
    BY <1>c, ScanWrites DEF Phases
  <2>2. /\ r.phase = "importing" /\ r.by = scan[s].by
        /\ r.items = scan[s].items /\ r.scope = scan[s].scope /\ r.todo = scan[s].items
        /\ r.consumed = scan[s].consumed
    BY <1>c DEF ScanType
  <2>3. scan' = [scan EXCEPT ![s] = r]
    BY <1>0, <1>a DEF beginImport, ShapeOK, Scans
  <2> QED BY <2>1, <2>2, <2>3
<1>2. ScanMoves(s, r)
  BY <1>0, <1>1, <1>a, ScanUpdate
<1>3. RunMoves(c, g, "import", s)
  <2>1. worker' = [worker EXCEPT ![c][g].phase = "import"]
    BY DEF beginImport
  <2> QED BY <1>0, <1>a, <2>1, PhaseStep DEF Waiting
<1>4. worker' \in [Configs -> Seq(WorkerType)]
  BY <1>3 DEF RunMoves
<1>5. ASSUME NEW d \in Configs
      PROVE  /\ Len(worker'[d]) = Len(worker[d])
             /\ DOMAIN worker'[d] = DOMAIN worker[d]
             /\ \A h \in DOMAIN worker[d] :
                  /\ worker'[d][h].scan = worker[d][h].scan
                  /\ \/ worker'[d][h].phase = worker[d][h].phase
                     \/ worker'[d][h].phase = "import" /\ worker[d][h].scan # 0
  <2>1. CASE d # c
    BY <1>3, <2>1 DEF RunMoves
  <2>2. CASE d = c
    <3>1. worker'[c] \in Seq(WorkerType) /\ worker[c] \in Seq(WorkerType)
      BY <1>0, <1>4, Types
    <3> QED BY <1>3, <1>a, <2>2, <3>1 DEF RunMoves
  <2> QED BY <2>1, <2>2
<1>6. scan'[s] = r
  BY <1>2 DEF ScanMoves
<1>7. ScanGrows(s)
  BY <1>1, <1>6, <1>b DEF ScanGrows, Imported, Stored
<1>8. ScanInv(s)'
  <2>1. scan[s].by # ByUser /\ scan[s].by[1] = c /\ scan[s].by[2] = g
    BY <1>a, OwnerIsNoUser
  <2>2. g \in DOMAIN worker'[c] /\ worker'[c][g].scan = s
    BY <1>3, <1>5 DEF RunMoves
  <2>3. ~r.consumed
    BY <1>1, <1>b, <1>c, <2>1 DEF ScanInv
  <2> QED BY <1>1, <1>6, <2>1, <2>2, <2>3 DEF ScanInv
<1>9. ASSUME NEW t \in Scans PROVE /\ ScanGrows(t) /\ ScanInv(t)'
                                   /\ scan'[t].consumed => scan[t].consumed
  <2>1. CASE t = s
    BY <1>1, <1>6, <1>7, <1>8, <2>1
  <2>2. CASE t # s
    <3>1. scan'[t] = scan[t]
      BY <1>2, <2>2 DEF ScanMoves
    <3> QED BY <1>5, <3>1, ScanRests
  <2> QED BY <2>1, <2>2
<1>10. TokensMove
  BY <1>b, TokensRest
<1>11. scan' \in Seq(ScanType) /\ Len(scan') = Len(scan)
  BY <1>2 DEF ScanMoves
<1>12. /\ TypeOK' /\ WorkersGrow /\ ScansGrow
       /\ \A d \in Configs : ActiveMoves(d) /\ RunInv(d)' /\ LinkInv(d)'
       /\ \A t \in DOMAIN scan' : ScanInv(t)'
  <2>1. UNCHANGED <<cfg, status>> /\ present' \subseteq Items /\ left' \in 0 .. MaxDisturbances
    BY <1>0, <1>b
  <2> QED BY <1>4, <1>5, <1>9, <1>10, <1>11, <2>1, Request DEF TokensMove, TokenMoves
<1>13. ConsumedKept
  BY <1>9 DEF ConsumedKept
<1> QED BY <1>10, <1>12, <1>13, Tame DEF TokensMove, TokenMoves

(***************************************************************************)
(* New scans                                                               *)
(***************************************************************************)

LEMMA NewScan ==
  ASSUME IInv, NEW by \in {ByUser} \cup (Configs \X Nat), NEW scope \in SUBSET Items,
         scan' = Append(scan, newScan(by, scope)),
         UNCHANGED <<cfg, status, token, present>>, left' \in 0 .. MaxDisturbances,
         worker' \in [Configs -> Seq(WorkerType)],
         \A d \in Configs :
           /\ Len(worker'[d]) = Len(worker[d])
           /\ \A h \in DOMAIN worker[d] :
                \/ worker'[d][h] = worker[d][h]
                \/ /\ worker[d][h].scan = 0
                   /\ worker'[d][h].scan = Len(scan) + 1
                   /\ worker'[d][h].phase = "scan"
                   /\ by = <<d, h>>,
         by # ByUser => /\ by[2] \in DOMAIN worker[by[1]]
                        /\ worker'[by[1]][by[2]].scan = Len(scan) + 1
  PROVE  IInv'
<1>0. ShapeOK /\ TypeOK /\ scan \in Seq(ScanType)
  BY DEF IInv, TypeOK, ShapeOK
<1>a. PICK n \in Nat : n = Len(scan) + 1
  BY <1>0, Types
<1> DEFINE r == newScan(by, scope)
<1>1. /\ r \in ScanType /\ r.by = by /\ r.phase = "started" /\ r.items = {} /\ r.todo = {}
      /\ ~r.consumed
  BY DEF newScan, ScanType
<1> HIDE DEF r
<1>2. /\ scan' \in Seq(ScanType) /\ Len(scan') = n /\ DOMAIN scan' = 1 .. n
      /\ scan'[n] = r /\ \A t \in Scans : scan'[t] = scan[t]
      /\ Scans = 1 .. n - 1
  <2>1. scan' = Append(scan, r)
    BY DEF r
  <2> QED BY <1>0, <1>1, <1>a, <2>1 DEF Scans
<1>3. \A d \in Configs : DOMAIN worker'[d] = DOMAIN worker[d]
  <2> TAKE d \in Configs
  <2>1. worker'[d] \in Seq(WorkerType) /\ worker[d] \in Seq(WorkerType)
    BY <1>0, Types
  <2> QED BY <2>1
<1>4. \A d \in Configs : \A h \in DOMAIN worker[d] :
        \/ worker'[d][h] = worker[d][h]
        \/ /\ worker[d][h].scan = 0
           /\ worker'[d][h].scan = n
           /\ worker'[d][h].phase = "scan"
           /\ by = <<d, h>>
  BY <1>a
<1>5. TokensMove
  BY TokensRest
<1>6. ShapeOK'
  BY <1>0, <1>2 DEF ShapeOK
<1>7. TypeOK'
  <2>1. ASSUME NEW d \in Configs
        PROVE  /\ Len(worker'[d]) = Len(status'[d])
               /\ cfg'[d].active \in 0 .. Len(status'[d])
               /\ \A g \in DOMAIN worker'[d] : worker'[d][g].scan \in 0 .. Len(scan')
    <3>1. \A g \in DOMAIN worker[d] : worker[d][g].scan \in 0 .. n - 1
      BY <1>0, <1>a, <2>1, Types DEF TypeOK
    <3>2. \A g \in DOMAIN worker[d] : worker'[d][g].scan \in 0 .. n
      BY <1>4, <2>1, <3>1
    <3> QED BY <1>0, <1>2, <1>3, <2>1, <3>2 DEF TypeOK
  <2>2. \A x \in Items : /\ token'[x].observed \in 0 .. Len(scan')
                         /\ \A d \in Configs : token'[x].seen[d] \in 0 .. Len(status'[d])
    <3>1. \A x \in Items : token[x].observed \in 0 .. n - 1
      BY <1>0, <1>a, Types DEF TypeOK
    <3> QED BY <1>0, <1>2, <3>1 DEF TypeOK
  <2> QED BY <1>6, <2>1, <2>2 DEF TypeOK
<1>8. WorkersGrow
  <2>1. ASSUME NEW d \in Configs
        PROVE  /\ Len(worker'[d]) >= Len(worker[d])
               /\ \A g \in DOMAIN worker'[d] : ~(g > Len(worker[d]))
    BY <1>0, <1>3, <2>1, Types
  <2> QED BY <1>4, <1>a, <2>1 DEF WorkersGrow
<1>9. ScansGrow /\ ConsumedKept
  <2>1. \A t \in Scans : ScanGrows(t)
    BY <1>2 DEF ScanGrows
  <2>2. Len(scan') >= Len(scan) /\ \A t \in DOMAIN scan' : t > Len(scan) => t = n
    BY <1>2, <1>a
  <2> QED BY <1>1, <1>2, <2>1, <2>2 DEF ScansGrow, ConsumedKept
<1>10. ASSUME NEW d \in Configs PROVE ActiveMoves(d) /\ RunInv(d)' /\ LinkInv(d)'
  <2>1. ActiveMoves(d) /\ RunInv(d)'
    BY DEF ActiveMoves, RunInv, IInv
  <2>2. LinkInv(d)'
    <3> SUFFICES ASSUME NEW g \in DOMAIN worker[d]
                 PROVE  /\ worker'[d][g].scan # 0 => scan'[worker'[d][g].scan].by = <<d, g>>
                        /\ worker'[d][g].phase = "claimed" => worker'[d][g].scan = 0
                        /\ worker'[d][g].phase \in {"scan", "import"} => worker'[d][g].scan # 0
      BY <1>3 DEF LinkInv
    <3>1. CASE worker'[d][g] = worker[d][g]
      <4>1. worker[d][g].scan # 0 => worker[d][g].scan \in Scans
        BY <1>0, Types DEF TypeOK
      <4> QED BY <1>2, <3>1, <4>1 DEF IInv, LinkInv
    <3>2. CASE worker'[d][g].scan = n /\ worker'[d][g].phase = "scan" /\ by = <<d, g>>
      <4>1. n # 0 /\ scan'[n].by = <<d, g>>
        BY <1>0, <1>1, <1>2, <1>a, <3>2, Types
      <4> QED BY <3>2, <4>1
    <3> QED BY <1>4, <3>1, <3>2
  <2> QED BY <2>1, <2>2
<1>11. ASSUME NEW t \in DOMAIN scan' PROVE ScanInv(t)'
  <2>1. CASE t \in Scans
    <3>1. \A d \in Configs : \A g \in DOMAIN worker[d] :
            worker[d][g].scan # 0 => worker'[d][g].scan = worker[d][g].scan
      BY <1>4
    <3> QED BY <1>2, <1>3, <2>1, <3>1, ScanRests
  <2>2. CASE t = n
    <3>1. by # ByUser => by[1] \in Configs
      OBVIOUS
    <3>2. by # ByUser => by[2] \in DOMAIN worker'[by[1]] /\ worker'[by[1]][by[2]].scan = n
      BY <1>3, <1>a, <3>1
    <3> QED BY <1>1, <1>2, <2>2, <3>2 DEF ScanInv
  <2> QED BY <1>2, <2>1, <2>2
<1> QED BY <1>5, <1>7, <1>8, <1>9, <1>10, <1>11, Tame DEF TokensMove, TokenMoves

LEMMA UserScan == ASSUME IInv, NEW scope \in SUBSET Items, userScan(scope) PROVE IInv'
<1>1. left' \in 0 .. MaxDisturbances /\ worker \in [Configs -> Seq(WorkerType)]
  BY Spent DEF userScan, IInv, TypeOK, ShapeOK
<1>2. /\ scan' = Append(scan, newScan(ByUser, scope))
      /\ UNCHANGED <<cfg, status, worker, token, present>>
  BY DEF userScan
<1> QED BY <1>1, <1>2, NewScan

LEMMA BeginScan ==
  ASSUME IInv, NEW c \in Configs, NEW g \in DOMAIN worker[c], beginScan(c, g)
  PROVE  IInv'
<1>0. ShapeOK /\ left \in 0 .. MaxDisturbances /\ worker[c][g] \in WorkerType /\ worker[c] \in Seq(WorkerType) /\ g \in Nat
  BY Types DEF IInv, TypeOK, ShapeOK
<1>a. PICK n \in Nat : n = Len(scan) + 1
  BY <1>0, Types
<1>1. RunMoves(c, g, "scan", n)
  <2> DEFINE r == [worker[c][g] EXCEPT !.phase = "scan", !.scan = n]
  <2>1. r \in WorkerType /\ r.phase = "scan" /\ r.scan = n
    <3>1. "scan" \in Waiting \cup {"stopped", "crashed"}
      BY DEF Waiting
    <3> DEFINE w == worker[c][g]
    <3>2. w \in WorkerType
      BY <1>0
    <3> HIDE DEF w
    <3>3. [w EXCEPT !.phase = "scan", !.scan = n] \in WorkerType
      BY <3>1, <3>2, Zenon DEF WorkerType
    <3>4. /\ [w EXCEPT !.phase = "scan", !.scan = n].phase = "scan"
          /\ [w EXCEPT !.phase = "scan", !.scan = n].scan = n
      BY <3>2 DEF WorkerType
    <3> QED BY <3>3, <3>4 DEF w
  <2>2. worker' = [worker EXCEPT ![c] = [worker[c] EXCEPT ![g] = r]]
    BY <1>0, <1>a DEF beginScan, ShapeOK
  <2> HIDE DEF r
  <2> QED BY <1>0, <2>1, <2>2, RunUpdate
<1>2. worker[c][g].scan = 0
  BY DEF IInv, LinkInv, beginScan
<1>b. PICK scope \in SUBSET Items : scope = worker[c][g].scope
  BY <1>0 DEF WorkerType
<1>3. /\ scan' = Append(scan, newScan(<<c, g>>, scope))
      /\ UNCHANGED <<cfg, status, token, present, left>>
  BY <1>b DEF beginScan
<1>4. worker' \in [Configs -> Seq(WorkerType)]
  BY <1>1 DEF RunMoves
<1>5. \A d \in Configs :
        /\ Len(worker'[d]) = Len(worker[d])
        /\ \A h \in DOMAIN worker[d] :
             \/ worker'[d][h] = worker[d][h]
             \/ /\ worker[d][h].scan = 0
                /\ worker'[d][h].scan = Len(scan) + 1
                /\ worker'[d][h].phase = "scan"
                /\ <<c, g>> = <<d, h>>
  BY <1>1, <1>2, <1>a DEF RunMoves
<1>6. worker'[c][g].scan = Len(scan) + 1
  BY <1>1, <1>a DEF RunMoves
<1>7. PICK by \in {ByUser} \cup (Configs \X Nat) : by = <<c, g>> /\ by[1] = c /\ by[2] = g
  <2>1. <<c, g>> \in Configs \X Nat /\ <<c, g>>[1] = c /\ <<c, g>>[2] = g
    BY <1>0
  <2> QED BY <2>1
<1>8. /\ left' \in 0 .. MaxDisturbances /\ scan' = Append(scan, newScan(by, scope))
      /\ UNCHANGED <<cfg, status, token, present>>
  BY <1>0, <1>3, <1>7
<1> QED BY <1>4, <1>5, <1>6, <1>7, <1>8, NewScan

(***************************************************************************)
(* Imports and cleanup of runs                                             *)
(***************************************************************************)

\* The run whose request writes: it has the row, and no run came after it.
LEMMA CurrentRun ==
  ASSUME IInv, NEW s \in Scans, scan[s].phase = "importing", mayWrite(s)
  PROVE  \E c \in Configs, g \in Nat :
           /\ g \in DOMAIN worker[c]
           /\ scan[s].by = <<c, g>> /\ scan[s].by[1] = c /\ scan[s].by[2] = g
           /\ g \in Nat /\ g # 0
           /\ worker[c][g].scan = s
           /\ cfg[c].active = g
           /\ g = Len(status[c]) /\ g = Len(worker[c])
           /\ cfg[c].state # "deleted"
<1>0. ShapeOK /\ ScanInv(s) /\ scan[s] \in ScanType
  BY Types DEF IInv, TypeOK
<1>1. scan[s].by # ByUser
  BY <1>0 DEF ScanInv
<1>2. scan[s].by \in Configs \X Nat
  BY <1>0, <1>1 DEF ScanType
<1>3. PICK c \in Configs, g \in Nat : scan[s].by = <<c, g>> /\ scan[s].by[1] = c /\ scan[s].by[2] = g
  BY <1>2
<1>4. g \in DOMAIN worker[c] /\ worker[c][g].scan = s
  BY <1>0, <1>1, <1>3 DEF ScanInv
<1>5. cfg[c].active = g /\ cfg[c].state = "on"
  BY <1>1, <1>3 DEF mayWrite, isCurrentRun
<1>6. g # 0
  BY <1>0, <1>4, Types
<1>7. g = Len(status[c]) /\ g = Len(worker[c])
  BY <1>5, <1>6 DEF IInv, RunInv, TypeOK
<1> QED BY <1>3, <1>4, <1>5, <1>6, <1>7

Attached(t, c, n) == [t EXCEPT !.seen[c] = n]
LEMMA AttachedToken ==
  ASSUME NEW t \in TokenType, NEW c \in Configs, NEW n \in Nat
  PROVE  /\ Attached(t, c, n) \in TokenType
         /\ Attached(t, c, n).row = t.row
         /\ Attached(t, c, n).managed = t.managed
         /\ Attached(t, c, n).observed = t.observed
         /\ Attached(t, c, n).seen = [t.seen EXCEPT ![c] = n]
BY DEF TokenType, Attached

LEMMA ImportItem ==
  ASSUME IInv, NEW s \in Scans, NEW x \in Items, importItem(s, x)
  PROVE  IInv'
<1>0. /\ ShapeOK /\ TypeOK /\ s \in Nat /\ s <= Len(scan) /\ Len(scan) \in Nat
      /\ left \in 0 .. MaxDisturbances /\ present \subseteq Items
      /\ worker \in [Configs -> Seq(WorkerType)]
  BY Types DEF IInv, TypeOK, ShapeOK
<1>a. PICK c \in Configs, g \in Nat :
           /\ g \in DOMAIN worker[c]
           /\ scan[s].by = <<c, g>> /\ scan[s].by[1] = c /\ scan[s].by[2] = g
           /\ g \in Nat /\ g # 0
           /\ worker[c][g].scan = s
           /\ cfg[c].active = g
           /\ g = Len(status[c]) /\ g = Len(worker[c])
           /\ cfg[c].state # "deleted"
  BY CurrentRun DEF importItem
<1>b. UNCHANGED <<cfg, status, worker, present, left>>
  BY DEF importItem
<1>c. /\ scan[s] \in ScanType /\ ScanInv(s) /\ scan[s].todo \ {x} \in SUBSET Items
      /\ scan[s].by # ByUser /\ scan[s].phase = "importing" /\ x \in scan[s].todo
      /\ x \in scan[s].items
  BY <1>0, <1>a, Types, OwnerIsNoUser DEF IInv, ScanType, importItem, ScanInv
<1>d. /\ token[x] \in TokenType /\ token[x].observed \in Nat /\ TokenInv(x)
      /\ token[x].observed <= Len(scan)
      /\ \A d \in Configs : /\ token[x].seen[d] \in 0 .. Len(status[d])
                             /\ Len(status[d]) \in Nat
                             /\ token[x].seen[d] \in Nat
  BY <1>0, Types DEF IInv, TypeOK
<1>1. PICK r \in ScanType : /\ r.phase = scan[s].phase /\ r.by = scan[s].by
                            /\ r.items = scan[s].items /\ r.scope = scan[s].scope /\ r.todo = scan[s].todo \ {x}
                            /\ r.consumed = scan[s].consumed
                            /\ scan' = [scan EXCEPT ![s] = r]
  <2> DEFINE r == [scan[s] EXCEPT !.todo = scan[s].todo \ {x}]
  <2>1. r \in ScanType
    BY <1>c, ItemWrites
  <2>2. /\ r.phase = scan[s].phase /\ r.by = scan[s].by
        /\ r.items = scan[s].items /\ r.scope = scan[s].scope /\ r.todo = scan[s].todo \ {x}
        /\ r.consumed = scan[s].consumed
    BY <1>c DEF ScanType
  <2>3. scan' = [scan EXCEPT ![s] = r]
    BY <1>0 DEF importItem, ShapeOK, Scans
  <2> QED BY <2>1, <2>2, <2>3
<1>2. ScanMoves(s, r) /\ scan'[s] = r
  BY <1>0, <1>1, ScanUpdate DEF ScanMoves
<1>3. ScanGrows(s) /\ ScanInv(s)'
  <2>1. ScanGrows(s)
    BY <1>1, <1>2 DEF ScanGrows
  <2> QED BY <1>1, <1>2, <1>b, <1>c, <2>1 DEF ScanInv
<1>4. ASSUME NEW t \in Scans
      PROVE  ScanGrows(t) /\ ScanInv(t)' /\ (scan'[t].consumed => scan[t].consumed)
  <2>1. CASE t = s
    BY <1>1, <1>2, <1>3, <2>1
  <2>2. CASE t # s
    <3>1. scan'[t] = scan[t]
      BY <1>2, <2>2 DEF ScanMoves
    <3> QED BY <1>b, <3>1, ScanRests
  <2> QED BY <2>1, <2>2
<1> DEFINE u == upsertImportedToken(s, x, FALSE)
           v == Attached(u, c, g)
<1>5. /\ u \in TokenType
      /\ u.row
      /\ token[x].row => u.seen = token[x].seen /\ u.observed = Later(token[x].observed, s)
      /\ ~token[x].row => u.seen = [d \in Configs |-> 0] /\ u.observed = s
  BY <1>0, Upserted
<1> HIDE DEF u
<1>6. token' = [token EXCEPT ![x] = v]
  <2>1. u.seen[c] <= g /\ u.seen[c] \in Nat
    <3>1. token[x].seen[c] <= g /\ token[x].seen[c] \in Nat
      <4>1. token[x].seen[c] \in 0 .. Len(status[c]) /\ token[x].seen[c] \in Nat /\ Len(status[c]) = g
        BY <1>a, <1>d
      <4> QED BY <4>1
    <3>2. u.seen[c] = token[x].seen[c] \/ u.seen[c] = 0
      BY <1>5
    <3> QED BY <3>1, <3>2, <1>a
  <2>2. Later(u.seen[c], g) = g
    BY <2>1, <1>a DEF Later
  <2>3. attachObservedToken(u, c, g) = v
    BY <2>2 DEF attachObservedToken, Attached
  <2> QED BY <1>a, <2>3 DEF importItem, u
<1>7. /\ v \in TokenType /\ v.row /\ v.observed = u.observed
      /\ v.seen = [u.seen EXCEPT ![c] = g]
  BY <1>5, <1>a, AttachedToken
<1> HIDE DEF v
<1>8. token'[x] = v /\ \A y \in Items \ {x} : token'[y] = token[y]
  BY <1>0, <1>6 DEF ShapeOK
<1>9. u.observed \in 0 .. Len(scan) /\ (token[x].row => u.observed >= token[x].observed)
  <2>1. CASE token[x].row
    <3>1. /\ Later(token[x].observed, s) \in 0 .. Len(scan)
          /\ Later(token[x].observed, s) >= token[x].observed
      BY <1>0, <1>d, LaterOf
    <3> QED BY <1>5, <2>1, <3>1
  <2>2. CASE ~token[x].row
    BY <1>0, <1>5, <2>2
  <2> QED BY <2>1, <2>2
<1>10. u.seen \in [Configs -> Nat]
  BY <1>5 DEF TokenType
<1>11. /\ token'[x].seen[c] = g
       /\ \A d \in Configs \ {c} : token'[x].seen[d] = u.seen[d]
  BY <1>7, <1>8, <1>10
<1>12. \A d \in Configs \ {c} : u.seen[d] \in {0, token[x].seen[d]}
  BY <1>5
<1>13. token'[x].observed \in 0 .. Len(scan) /\ \A d \in Configs : token'[x].seen[d] \in 0 .. Len(status[d])
  <2>1. token'[x].observed \in 0 .. Len(scan)
    BY <1>7, <1>8, <1>9
  <2>2. token'[x].seen[c] \in 0 .. Len(status[c])
    BY <1>11, <1>a
  <2>3. \A d \in Configs \ {c} : token'[x].seen[d] \in 0 .. Len(status[d])
    BY <1>11, <1>12, <1>d
  <2> QED BY <2>1, <2>2, <2>3
<1>14. TokenInv(x)'
  BY <1>7, <1>8, <1>11, <1>12, <1>a, <1>b, <1>d DEF TokenInv
<1>15. \A d \in Configs \ {c} : LinkKept(x, d)
  BY <1>5, <1>7, <1>8, <1>9, <1>11 DEF LinkKept
<1>16. \A y \in Items \ {x} : TokenMoves(y)
  BY <1>8, <1>b, TokenRests
<1>17. token' \in [Items -> TokenType]
  BY <1>0, <1>6, <1>7 DEF ShapeOK
<1>18. /\ TypeOK' /\ WorkersGrow /\ ScansGrow
       /\ \A d \in Configs : ActiveMoves(d) /\ RunInv(d)' /\ LinkInv(d)'
       /\ \A t \in DOMAIN scan' : ScanInv(t)'
  <2>1. \A y \in Items : /\ token'[y].observed \in 0 .. Len(scan)
                         /\ \A d \in Configs : token'[y].seen[d] \in 0 .. Len(status[d])
    BY <1>13, <1>16 DEF TokenMoves
  <2>2. scan' \in Seq(ScanType) /\ Len(scan') = Len(scan)
    BY <1>2 DEF ScanMoves
  <2>3. UNCHANGED <<cfg, status>> /\ worker' = worker /\ present' \subseteq Items /\ left' \in 0 .. MaxDisturbances
    BY <1>0, <1>b
  <2>4. \A t \in Scans : ScanGrows(t) /\ ScanInv(t)'
    BY <1>4
  <2> QED BY <1>0, <1>17, <2>1, <2>2, <2>3, <2>4, Request
<1>20. ASSUME NEW y \in Items, NEW d \in Configs, LinkKept(y, d)
       PROVE  SeenInv(y, d)' /\ FenceInv(y, d)' /\ CleanInv(y, d)'
  <2>1. TokenInv(y)'
    BY <1>14, <1>16 DEF TokenMoves
  <2>2. \A t \in Scans : scan[t].by = <<d, cfg'[d].active>> /\ scan'[t].consumed => scan[t].consumed
    BY <1>4
  <2> QED BY <1>18, <1>20, <2>1, <2>2, History, Cleaned
<1>21. SeenInv(x, c)'
  <2>1. worker'[c][token'[x].seen[c]].scan = s /\ s # 0
    BY <1>0, <1>11, <1>a, <1>b, Types
  <2>2. x \in scan'[s].items /\ scan'[s].phase = "importing"
    BY <1>1, <1>2, <1>c
  <2> QED BY <2>1, <2>2 DEF SeenInv, Imported
<1>22. FenceInv(x, c)'
  <2>1. \A h \in DOMAIN worker'[c] : ~(h > token'[x].seen[c])
    BY <1>0, <1>11, <1>a, <1>b, Types
  <2> QED BY <2>1 DEF FenceInv
<1>23. CleanInv(x, c)'
  <2>1. ASSUME NEW t \in DOMAIN scan', scan'[t].by = <<c, cfg'[c].active>>, scan'[t].consumed
        PROVE  FALSE
    <3>1. scan'[t].by = <<c, g>> /\ t \in Scans
      BY <1>0, <1>2, <1>a, <1>b, <2>1, Types DEF ScanMoves
    <3>2. scan[t].by = <<c, g>> /\ scan[t].consumed
      BY <1>4, <2>1, <3>1 DEF ScanGrows
    <3>3. scan[t].by # ByUser /\ scan[t].by[1] = c /\ scan[t].by[2] = g
      BY <3>2, OwnerIsNoUser
    <3>4. worker[c][g].scan = t /\ scan[t].phase = "answered"
      BY <3>1, <3>2, <3>3 DEF IInv, ScanInv
    <3> QED BY <1>a, <1>c, <3>4
  <2> QED BY <2>1 DEF CleanInv, Scans
<1>24. \A y \in Items, d \in Configs : SeenInv(y, d)' /\ FenceInv(y, d)' /\ CleanInv(y, d)'
  BY <1>15, <1>16, <1>20, <1>21, <1>22, <1>23 DEF TokenMoves
<1>25. \A y \in Items : TokenInv(y)'
  BY <1>14, <1>16 DEF TokenMoves
<1> QED BY <1>18, <1>24, <1>25 DEF IInv, Scans

\* What the cleanup of run g of c, with scan s, makes of a token.
LEMMA Reconciled ==
  ASSUME IInv, NEW x \in Items, NEW c \in Configs, UNCHANGED <<cfg, status>>,
         token'[x] = detached(Cut(token[x], c))
  PROVE  token'[x] \in TokenType /\ TokenMoves(x) /\ token'[x].seen[c] = 0
<1>0. /\ token[x] \in TokenType /\ token[x].observed \in Nat /\ TokenInv(x)
      /\ token[x].observed \in 0 .. Len(scan)
      /\ token[x].seen \in [Configs -> Nat]
      /\ \A d \in Configs : token[x].seen[d] \in 0 .. Len(status[d]) /\ Len(status[d]) \in Nat
  BY Types DEF IInv, TypeOK, TokenType
<1> DEFINE u == Cut(token[x], c)
<1>1. /\ u \in TokenType /\ u.row = token[x].row /\ u.managed = token[x].managed
      /\ u.observed = token[x].observed /\ u.seen = [token[x].seen EXCEPT ![c] = 0]
  BY <1>0, CutLink
<1>2. CASE token'[x] = NoToken
  BY <1>2, TokenGoes, EmptyToken
<1>3. CASE token'[x] = u /\ ~(u.managed /\ \A d \in Configs : u.seen[d] = 0)
  <2> HIDE DEF u
  <2>1. u.seen[c] = 0 /\ \A d \in Configs \ {c} : u.seen[d] = token[x].seen[d]
    BY <1>0, <1>1
  <2>2. TokenInv(x)'
    BY <1>0, <1>1, <1>3, <2>1 DEF TokenInv
  <2>3. \A d \in Configs : LinkKept(x, d)
    BY <1>0, <1>1, <1>3, <2>1 DEF LinkKept
  <2>4. \A d \in Configs : u.seen[d] \in 0 .. Len(status[d])
    BY <1>0, <2>1
  <2> QED BY <1>0, <1>1, <1>3, <2>1, <2>2, <2>3, <2>4 DEF TokenMoves
<1> QED BY <1>2, <1>3 DEF detached

LEMMA ReconcileAutoSyncRun ==
  ASSUME IInv, NEW s \in Scans, reconcileAutoSyncRun(s)
  PROVE  IInv'
<1>0. /\ ShapeOK /\ TypeOK /\ s \in Nat /\ s # 0
      /\ left \in 0 .. MaxDisturbances /\ present \subseteq Items
      /\ worker \in [Configs -> Seq(WorkerType)]
  BY Types DEF IInv, TypeOK, ShapeOK
<1>a. PICK c \in Configs, g \in Nat :
           /\ g \in DOMAIN worker[c]
           /\ scan[s].by = <<c, g>> /\ scan[s].by[1] = c /\ scan[s].by[2] = g
           /\ g \in Nat /\ g # 0
           /\ worker[c][g].scan = s
           /\ cfg[c].active = g
           /\ g = Len(status[c]) /\ g = Len(worker[c])
           /\ cfg[c].state # "deleted"
  BY CurrentRun DEF reconcileAutoSyncRun
<1>b. UNCHANGED <<cfg, status, worker, present, left>> /\ scan[s].phase = "importing"
  BY DEF reconcileAutoSyncRun
<1>c. scan[s] \in ScanType /\ ScanInv(s) /\ scan[s].by # ByUser
  BY <1>0, <1>a, Types, OwnerIsNoUser DEF IInv
<1>1. CASE ~(scan[s].complete /\ allImported(s, c, g))
  <2>1. scan' = [scan EXCEPT ![s].phase = "answered"] /\ token' = token
    BY <1>1, <1>a DEF reconcileAutoSyncRun
  <2> QED BY <1>b, <2>1, RequestEnds
<1>2. CASE scan[s].complete /\ allImported(s, c, g)
  <2>1. PICK r \in ScanType : /\ r.phase = "answered" /\ r.by = scan[s].by
                              /\ r.items = scan[s].items /\ r.scope = scan[s].scope /\ r.todo = scan[s].todo
                              /\ scan' = [scan EXCEPT ![s] = r]
    <3> DEFINE r == [scan[s] EXCEPT !.phase = "answered", !.consumed = TRUE]
    <3>1. r \in ScanType
      BY <1>c, ScanWrites DEF Phases
    <3>2. /\ r.phase = "answered" /\ r.by = scan[s].by
          /\ r.items = scan[s].items /\ r.scope = scan[s].scope /\ r.todo = scan[s].todo
      BY <1>c DEF ScanType
    <3>3. scan' = [scan EXCEPT ![s] = r]
      BY <1>0, <1>2, <1>a DEF reconcileAutoSyncRun, ShapeOK, Scans
    <3> QED BY <3>1, <3>2, <3>3
  <2>2. ScanMoves(s, r) /\ scan'[s] = r
    BY <1>0, <2>1, ScanUpdate DEF ScanMoves
  <2>3. token' = [x \in Items |-> IF obsolete(s, x) /\ staleLink(token[x], c, g)
                                  THEN detached(Cut(token[x], c)) ELSE token[x]]
    BY <1>2, <1>a DEF reconcileAutoSyncRun, Cut
  <2>4. ScanGrows(s) /\ ScanInv(s)'
    <3>1. ScanGrows(s)
      BY <2>1, <2>2, <1>b DEF ScanGrows, Imported, Stored
    <3> QED BY <2>1, <2>2, <1>b, <1>c, <3>1 DEF ScanInv
  <2>5. ASSUME NEW t \in Scans
        PROVE  ScanGrows(t) /\ ScanInv(t)' /\ (t # s => (scan'[t].consumed => scan[t].consumed))
    <3>1. CASE t = s
      BY <2>4, <3>1
    <3>2. CASE t # s
      <4>1. scan'[t] = scan[t]
        BY <2>2, <3>2 DEF ScanMoves
      <4> QED BY <1>b, <4>1, ScanRests
    <3> QED BY <3>1, <3>2
  <2>6. ASSUME NEW x \in Items
        PROVE  /\ token'[x] \in TokenType /\ TokenMoves(x)
               /\ token'[x].seen[c] # 0 =>
                    token'[x] = token[x] /\ ~(obsolete(s, x) /\ staleLink(token[x], c, g))
    <3>1. CASE obsolete(s, x) /\ staleLink(token[x], c, g)
      <4>1. token'[x] = detached(Cut(token[x], c))
        BY <2>3, <3>1
      <4> QED BY <1>b, <4>1, Reconciled
    <3>2. CASE ~(obsolete(s, x) /\ staleLink(token[x], c, g))
      <4>1. token'[x] = token[x] /\ token[x] \in TokenType
        BY <1>0, <2>3, <3>2, Types
      <4> QED BY <1>b, <3>2, <4>1, TokenRests
    <3> QED BY <3>1, <3>2
  <2>7. TokensMove
    <3>1. token' = [x \in Items |-> token'[x]]
      BY <2>3
    <3>2. token' \in [Items -> TokenType]
      BY <2>6, <3>1
    <3> QED BY <2>6, <3>2 DEF TokensMove
  <2>8. /\ TypeOK' /\ WorkersGrow /\ ScansGrow
        /\ \A d \in Configs : ActiveMoves(d) /\ RunInv(d)' /\ LinkInv(d)'
        /\ \A t \in DOMAIN scan' : ScanInv(t)'
    <3>1. scan' \in Seq(ScanType) /\ Len(scan') = Len(scan)
      BY <2>2 DEF ScanMoves
    <3>2. UNCHANGED <<cfg, status>> /\ worker' = worker /\ present' \subseteq Items /\ left' \in 0 .. MaxDisturbances
      BY <1>0, <1>b
    <3>3. \A t \in Scans : ScanGrows(t) /\ ScanInv(t)'
      BY <2>5
    <3> QED BY <1>0, <2>7, <3>1, <3>2, <3>3, Request DEF TokensMove, TokenMoves
  <2>9. ASSUME NEW x \in Items, NEW d \in Configs
        PROVE  SeenInv(x, d)' /\ FenceInv(x, d)' /\ (d # c => CleanInv(x, d)')
    <3>1. LinkKept(x, d) /\ TokenInv(x)'
      BY <2>7 DEF TokensMove, TokenMoves
    <3>2. SeenInv(x, d)' /\ FenceInv(x, d)'
      BY <2>8, <3>1, History
    <3>3. ASSUME d # c PROVE CleanInv(x, d)'
      <4>1. \A t \in Scans : scan[t].by = <<d, cfg'[d].active>> /\ scan'[t].consumed => scan[t].consumed
        BY <1>a, <2>5, <3>3
      <4> QED BY <2>8, <3>1, <4>1, Cleaned
    <3> QED BY <3>2, <3>3
  <2>10. ASSUME NEW x \in Items PROVE CleanInv(x, c)'
    <3> SUFFICES ASSUME NEW t \in DOMAIN scan', scan'[t].by = <<c, cfg'[c].active>>,
                        x \in scan'[t].scope, token'[x].seen[c] # 0
                 PROVE  x \in scan'[t].items \/ token'[x].observed > t
      BY DEF CleanInv, Scans
    <3>1. t = s
      <4>1. scan'[t].by = <<c, g>> /\ t \in Scans
        BY <1>0, <2>2, <1>a, <1>b, Types DEF ScanMoves
      <4>2. scan[t].by = <<c, g>>
        BY <2>5, <4>1 DEF ScanGrows
      <4>3. scan[t].by # ByUser /\ scan[t].by[1] = c /\ scan[t].by[2] = g
        BY <4>2, OwnerIsNoUser
      <4>4. worker[c][g].scan = t
        BY <4>1, <4>3 DEF IInv, ScanInv
      <4> QED BY <1>a, <4>4
    <3>2. token'[x] = token[x] /\ ~(obsolete(s, x) /\ staleLink(token[x], c, g))
      BY <2>6
    <3>3. token[x].row /\ token[x].observed \in Nat /\ token[x].seen[c] \in 0 .. g
      <4>1. token[x].row
        BY <3>2 DEF IInv, TokenInv
      <4> QED BY <1>0, <1>a, <4>1, Types DEF TypeOK
    <3>4. CASE token[x].seen[c] = g
      <4>1. x \in scan[s].items
        BY <1>a, <3>4 DEF IInv, SeenInv
      <4> QED BY <2>1, <2>2, <3>1, <4>1
    <3>5. CASE token[x].seen[c] # g
      <4>1. staleLink(token[x], c, g)
        BY <1>a, <3>2, <3>3, <3>5 DEF staleLink
      <4>2. x \in scan[s].scope
        BY <2>1, <2>2, <3>1
      <4>3. x \in scan[s].items \/ token[x].observed > s
        BY <1>0, <3>2, <3>3, <4>1, <4>2 DEF obsolete
      <4> QED BY <2>1, <2>2, <3>1, <3>2, <4>3
    <3> QED BY <3>4, <3>5
  <2>11. \A x \in Items : TokenInv(x)'
    BY <2>7 DEF TokensMove, TokenMoves
  <2> QED BY <2>8, <2>9, <2>10, <2>11 DEF IInv, Scans
<1> QED BY <1>1, <1>2

(***************************************************************************)
(* The invariant and what it gives                                         *)
(***************************************************************************)

LEMMA Initially == Init => IInv
<1> SUFFICES ASSUME Init PROVE IInv
  OBVIOUS
<1>1. \A c \in Configs : cfg[c] \in ConfigType /\ cfg[c].active = 0 /\ cfg[c].state # "deleted"
  <2>1. NewConfig \in ConfigType /\ NewConfig.active = 0 /\ NewConfig.state = "none"
    BY DEF NewConfig, ConfigType
  <2> DEFINE q == [NewConfig EXCEPT !.state = "on", !.cleanup = TRUE, !.scope = Items, !.due = TRUE]
  <2>2. q \in ConfigType /\ q.active = 0 /\ q.state = "on"
    BY DEF NewConfig, ConfigType
  <2> HIDE DEF q
  <2>3. \A c \in Configs : cfg[c] \in {NewConfig, q}
    BY DEF Init, q
  <2> QED BY <2>1, <2>2, <2>3
<1>2. cfg \in [Configs -> ConfigType]
  <2>1. cfg = [c \in Configs |-> cfg[c]]
    BY DEF Init
  <2> QED BY <1>1, <2>1
<1>3. /\ \A c \in Configs : status[c] = <<>> /\ worker[c] = <<>> /\ Len(status[c]) = 0
                            /\ Len(worker[c]) = 0 /\ DOMAIN worker[c] = {} /\ DOMAIN status[c] = {}
      /\ scan = <<>> /\ Len(scan) = 0 /\ Scans = {}
      /\ \A x \in Items : token[x] = NoToken
  BY DEF Init, Scans
<1>4. ShapeOK
  BY <1>2, EmptyToken, DisturbancesAssumption DEF ShapeOK, Init
<1>5. TypeOK
  BY <1>1, <1>3, <1>4, EmptyToken DEF TypeOK
<1>6. \A c \in Configs : RunInv(c) /\ LinkInv(c)
  BY <1>1, <1>3 DEF RunInv, LinkInv
<1>7. \A x \in Items : TokenInv(x)
  BY <1>3, EmptyToken DEF TokenInv
<1>8. \A x \in Items, c \in Configs : SeenInv(x, c) /\ FenceInv(x, c) /\ CleanInv(x, c)
  BY <1>3, EmptyToken DEF SeenInv, FenceInv, CleanInv
<1> QED BY <1>3, <1>5, <1>6, <1>7, <1>8 DEF IInv

LEMMA Step == IInv /\ [Next]_vars => IInv'
<1> SUFFICES ASSUME IInv, [Next]_vars PROVE IInv'
  OBVIOUS
<1>1. ASSUME NEW c \in Configs, NEW scope \in SUBSET Items, createConfig(c, scope) PROVE IInv'
  BY <1>1, CreateConfig
<1>2. ASSUME NEW c \in Configs, claimDueAutoSyncRuns(c) PROVE IInv'
  BY <1>2, ClaimDueAutoSyncRuns
<1>3. ASSUME NEW c \in Configs, scheduleTick(c) PROVE IInv'
  BY <1>3, ScheduleTick
<1>4. ASSUME NEW c \in Configs, requestRun(c) PROVE IInv'
  BY <1>4, RequestRun
<1>5. ASSUME NEW c \in Configs, changeSchedule(c) PROVE IInv'
  BY <1>5, ChangeSchedule
<1>6. ASSUME NEW c \in Configs, deleteConfig(c) PROVE IInv'
  BY <1>6, DeleteConfig
<1>7. ASSUME NEW c \in Configs, stall(c) \/ leaseExpires(c) PROVE IInv'
  BY <1>7, Stall
<1>8. ASSUME NEW c \in Configs, NEW scope \in SUBSET Items,
             \/ changeScanSettings(c, FALSE, cfg[c].cleanup, cfg[c].scope)
             \/ changeScanSettings(c, TRUE, ~cfg[c].cleanup, cfg[c].scope)
             \/ changeScanSettings(c, TRUE, cfg[c].cleanup, scope)
      PROVE  IInv'
  <2>1. cfg[c] \in ConfigType
    BY Types DEF IInv, TypeOK
  <2>2. cfg[c].cleanup \in BOOLEAN /\ (~cfg[c].cleanup) \in BOOLEAN /\ cfg[c].scope \in SUBSET Items
    BY <2>1 DEF ConfigType
  <2> QED BY <1>8, <2>2, ChangeScanSettings
<1>9. ASSUME NEW c \in Configs, NEW g \in DOMAIN worker[c], runStep(c, g) \/ crash(c, g)
       PROVE IInv'
  BY <1>9, BeginScan, BeginImport, CompleteRun, FailRun, Crash DEF runStep
<1>10. ASSUME NEW scope \in SUBSET Items, userScan(scope) PROVE IInv'
  BY <1>10, UserScan
<1>11. ASSUME NEW s \in Scans, scanStep(s) PROVE IInv'
  BY <1>11, ListProvider, PersistScan, ImportRefused, ReconcileAutoSyncRun, ImportItem DEF scanStep
<1>12. ASSUME NEW s \in Scans, listPart(s) \/ userCleanup(s) PROVE IInv'
  BY <1>12, ListProvider, UserCleanup
<1>13. ASSUME NEW s \in Scans, NEW x \in Items, userImport(s, x) \/ itemInError(s, x) PROVE IInv'
  BY <1>13, UserImport, ItemInError
<1>14. ASSUME NEW x \in Items, userDeletesToken(x) \/ providerChanges(x) PROVE IInv'
  BY <1>14, UserDeletesToken
<1>15. ASSUME UNCHANGED vars PROVE IInv'
  <2>1. TokensMove /\ present' \subseteq Items /\ left' \in 0 .. MaxDisturbances
    BY <1>15, TokensRest DEF vars, IInv, TypeOK, ShapeOK
  <2> QED BY <1>15, <2>1, TokensOnly DEF vars
<1> QED
  BY <1>1, <1>2, <1>3, <1>4, <1>5, <1>6, <1>7, <1>8, <1>9, <1>10, <1>11, <1>12, <1>13,
     <1>14, <1>15 DEF Next

\* Runs, scans, links and the observation fence stay in agreement, whatever order
\* claims, requests, users and faults come in.
THEOREM Invariant == Spec => []IInv
BY Initially, Step, PTL DEF Spec

\* The shapes of the rows, and references only to rows that exist.
THEOREM TypeCorrect == Spec => []TypeOK
<1>1. IInv => TypeOK
  BY DEF IInv
<1> QED BY <1>1, Invariant, PTL

\* The history shows one run in progress, the one the row names, or none.
THEOREM HistoryAgrees == Spec => []RunningIsActive
<1>1. IInv => RunningIsActive
  BY DEF IInv, RunInv, RunningIsActive
<1> QED BY <1>1, Invariant, PTL

\* No token is under the management of configurations that are gone.
THEOREM ManagementTracked == Spec => []ManagedIsTracked
<1>1. IInv => ManagedIsTracked
  BY DEF IInv, TokenInv, ManagedIsTracked
<1> QED BY <1>1, Invariant, PTL

\* Only the cleanup of a run uses its scan up.
LEMMA ConsumedByReconcile ==
  ASSUME IInv, Next, NEW s \in Scans, scan[s].by # ByUser, ~scan[s].consumed, scan'[s].consumed
  PROVE  reconcileAutoSyncRun(s)
<1>0. ShapeOK /\ scan \in Seq(ScanType) /\ scan[s] \in ScanType
  BY Types DEF IInv, TypeOK, ShapeOK
<1>1. ASSUME scan' = scan PROVE FALSE
  BY <1>1
<1>2. ASSUME NEW r, scan' = Append(scan, r) PROVE FALSE
  <2>1. scan'[s] = scan[s]
    BY <1>0, <1>2 DEF Scans
  <2> QED BY <2>1
<1>3. ASSUME NEW t \in Scans, NEW r, r.consumed = scan[t].consumed, scan' = [scan EXCEPT ![t] = r]
      PROVE  FALSE
  <2>1. scan'[s].consumed = scan[s].consumed
    BY <1>0, <1>3 DEF Scans
  <2> QED BY <2>1
<1>4. ASSUME NEW t \in Scans, NEW p, scan' = [scan EXCEPT ![t].phase = p] PROVE FALSE
  <2>1. scan' = [scan EXCEPT ![t] = PhaseOf(scan[t], p)]
    BY <1>0, <1>4 DEF Scans, PhaseOf
  <2>2. PhaseOf(scan[t], p).consumed = scan[t].consumed
    BY <1>0, <1>4, Types DEF ScanType, PhaseOf
  <2> QED BY <1>4, <2>1, <2>2, <1>3
<1>5. ASSUME NEW t \in Scans, listProvider(t) \/ listPart(t) PROVE FALSE
  <2>1. scan[t] \in ScanType
    BY <1>0, <1>5, Types
  <2>2. PICK i, z, b : scan' = [scan EXCEPT ![t] =
          [scan[t] EXCEPT !.phase = "listed", !.items = i, !.scope = z, !.complete = b]]
    <3>1. CASE listProvider(t)
      <4>1. PICK i : scan' = [scan EXCEPT ![t].phase = "listed", ![t].items = i, ![t].complete = TRUE]
        BY <3>1 DEF listProvider
      <4>2. [scan[t] EXCEPT !.phase = "listed", !.items = i, !.complete = TRUE]
              = [scan[t] EXCEPT !.phase = "listed", !.items = i, !.scope = scan[t].scope, !.complete = TRUE]
        BY <2>1 DEF ScanType
      <4>3. scan' = [scan EXCEPT ![t] =
              [scan[t] EXCEPT !.phase = "listed", !.items = i, !.complete = TRUE]]
        BY <1>0, <1>5, <4>1 DEF Scans
      <4> QED BY <4>2, <4>3
    <3>2. CASE listPart(t)
      <4>1. PICK i, z : scan' = [scan EXCEPT ![t].phase = "listed", ![t].items = i, ![t].scope = z]
        BY <3>2 DEF listPart
      <4>2. [scan[t] EXCEPT !.phase = "listed", !.items = i, !.scope = z]
              = [scan[t] EXCEPT !.phase = "listed", !.items = i, !.scope = z, !.complete = scan[t].complete]
        BY <2>1 DEF ScanType
      <4>3. scan' = [scan EXCEPT ![t] = [scan[t] EXCEPT !.phase = "listed", !.items = i, !.scope = z]]
        BY <1>0, <1>5, <4>1 DEF Scans
      <4>4. scan' = [scan EXCEPT ![t] = [scan[t] EXCEPT !.phase = "listed", !.items = i, !.scope = z,
                                                        !.complete = scan[t].complete]]
        BY <4>2, <4>3, Zenon
      <4> QED BY <4>4, Zenon
    <3> QED BY <1>5, <3>1, <3>2
  <2>3. [scan[t] EXCEPT !.phase = "listed", !.items = i, !.scope = z, !.complete = b].consumed
          = scan[t].consumed
    BY <2>1 DEF ScanType
  <2> QED BY <1>5, <2>2, <2>3, <1>3
<1>6. ASSUME NEW t \in Scans, persistScan(t) \/ importRefused(t) \/ importAnswered(t) PROVE FALSE
  BY <1>4, <1>6 DEF persistScan, importRefused, importAnswered
<1>7. ASSUME NEW t \in Scans, NEW x \in Items, importItem(t, x) \/ itemInError(t, x) PROVE FALSE
  <2>1. scan[t] \in ScanType
    BY <1>0, <1>7, Types
  <2>2. \/ scan' = [scan EXCEPT ![t] = [scan[t] EXCEPT !.todo = scan[t].todo \ {x}]]
        \/ scan' = [scan EXCEPT ![t] = [scan[t] EXCEPT !.todo = scan[t].todo \ {x}, !.errors = TRUE]]
    BY <1>0, <1>7 DEF importItem, itemInError, Scans
  <2>3. /\ [scan[t] EXCEPT !.todo = scan[t].todo \ {x}].consumed = scan[t].consumed
        /\ [scan[t] EXCEPT !.todo = scan[t].todo \ {x}, !.errors = TRUE].consumed = scan[t].consumed
    BY <2>1 DEF ScanType
  <2> QED BY <1>7, <2>2, <2>3, <1>3
<1>8. ASSUME NEW c \in Configs, NEW g \in DOMAIN worker[c], beginImport(c, g) PROVE FALSE
  <2>1. PICK t \in Scans : t = worker[c][g].scan
    <3>1. worker[c][g].scan \in 0 .. Len(scan) /\ worker[c][g].scan # 0
      BY <1>8 DEF IInv, TypeOK, LinkInv, beginImport
    <3> QED BY <1>0, <3>1, Types
  <2>2. scan[t] \in ScanType
    BY <1>0, Types
  <2>3. scan' = [scan EXCEPT ![t] = [scan[t] EXCEPT !.phase = "importing", !.todo = scan[t].items]]
    BY <1>0, <1>8, <2>1 DEF beginImport, Scans
  <2>4. [scan[t] EXCEPT !.phase = "importing", !.todo = scan[t].items].consumed = scan[t].consumed
    BY <2>2 DEF ScanType
  <2> QED BY <2>3, <2>4, <1>3
<1>9. ASSUME NEW t \in Scans, userCleanup(t) PROVE FALSE
  <2>1. t # s /\ scan' = [scan EXCEPT ![t].consumed = TRUE]
    BY <1>9 DEF userCleanup
  <2>2. scan'[s] = scan[s]
    BY <1>0, <2>1 DEF Scans
  <2> QED BY <2>2
<1>10. ASSUME NEW t \in Scans, reconcileAutoSyncRun(t), t # s PROVE FALSE
  <2>1. \/ scan' = [scan EXCEPT ![t].phase = "answered"]
        \/ scan' = [scan EXCEPT ![t].phase = "answered", ![t].consumed = TRUE]
    BY <1>10 DEF reconcileAutoSyncRun
  <2>2. scan'[s] = scan[s]
    BY <1>0, <1>10, <2>1 DEF Scans
  <2> QED BY <2>2
<1>11. ASSUME NEW c \in Configs,
              \/ claimDueAutoSyncRuns(c) \/ scheduleTick(c) \/ requestRun(c)
              \/ changeSchedule(c) \/ deleteConfig(c) \/ stall(c) \/ leaseExpires(c)
              \/ \E scope \in SUBSET Items :
                   \/ createConfig(c, scope)
                   \/ changeScanSettings(c, FALSE, cfg[c].cleanup, cfg[c].scope)
                   \/ changeScanSettings(c, TRUE, ~cfg[c].cleanup, cfg[c].scope)
                   \/ changeScanSettings(c, TRUE, cfg[c].cleanup, scope)
              \/ \E g \in DOMAIN worker[c] : completeRun(c, g) \/ failRun(c, g) \/ crash(c, g)
       PROVE  FALSE
  BY <1>1, <1>11 DEF createConfig, claimDueAutoSyncRuns, scheduleTick, requestRun, changeSchedule,
     deleteConfig, stall, leaseExpires, changeScanSettings, completeRun, failRun, crash
<1>12. ASSUME NEW x \in Items, userDeletesToken(x) \/ providerChanges(x) \/ \E t \in Scans : userImport(t, x)
       PROVE  FALSE
  BY <1>1, <1>12 DEF userDeletesToken, providerChanges, userImport
<1>13. ASSUME \/ \E scope \in SUBSET Items : userScan(scope)
              \/ \E c \in Configs : \E g \in DOMAIN worker[c] : beginScan(c, g)
       PROVE  FALSE
  BY <1>2, <1>13 DEF userScan, beginScan
<1> QED
  BY <1>5, <1>6, <1>7, <1>8, <1>9, <1>10, <1>11, <1>12, <1>13 DEF Next, runStep, scanStep

\* Only a run that holds the row reports its success, with the status it worked out.
LEMMA SuccessByComplete ==
  ASSUME IInv, Next, NEW c \in Configs, NEW g \in DOMAIN status[c],
         status[c][g] # "success", status'[c][g] = "success"
  PROVE  completeRun(c, g) /\ isCurrentRun(c, g) /\ syncStatus(c, g) = "success"
<1>0. ShapeOK /\ status \in [Configs -> Seq(StatusType)] /\ status[c] \in Seq(StatusType)
  BY Types DEF IInv, TypeOK, ShapeOK
<1>1. ASSUME status' = status PROVE FALSE
  BY <1>1
<1>2. ASSUME NEW d \in Configs, status' = [status EXCEPT ![d] = superseded(d)] PROVE FALSE
  <2>1. CASE d # c
    BY <1>0, <1>2, <2>1
  <2>2. CASE d = c
    <3>1. status'[c][g] = superseded(c)[g]
      BY <1>0, <1>2, <2>2
    <3> QED BY <3>1 DEF superseded
  <2> QED BY <2>1, <2>2
<1>3. ASSUME NEW d \in Configs, claimDueAutoSyncRuns(d) PROVE FALSE
  <2>1. status' = [status EXCEPT ![d] = Append(superseded(d), "running")]
    BY <1>3 DEF claimDueAutoSyncRuns
  <2>2. CASE d # c
    BY <1>0, <2>1, <2>2
  <2>3. CASE d = c
    <3> DEFINE z == superseded(c)
    <3>1. z \in Seq(StatusType) /\ Len(z) = Len(status[c]) /\ g \in DOMAIN z
      BY <1>0, Superseded
    <3>2. z[g] # "success"
      BY DEF superseded
    <3>3. status'[c] = Append(z, "running")
      BY <1>0, <2>1, <2>3
    <3> HIDE DEF z
    <3>4. Append(z, "running")[g] = z[g]
      BY <3>1
    <3> QED BY <3>2, <3>3, <3>4
  <2> QED BY <2>2, <2>3
<1>4. ASSUME NEW d \in Configs, NEW h \in DOMAIN worker[d], NEW result,
             finishAutoSyncRun(d, h, result)
      PROVE  d = c /\ h = g /\ isCurrentRun(c, g) /\ result = "success"
  <2>1. CASE ~isCurrentRun(d, h)
    BY <1>1, <1>4, <2>1 DEF finishAutoSyncRun
  <2>2. CASE isCurrentRun(d, h)
    <3>1. h \in DOMAIN status[d]
      BY <1>0, <1>4, Types DEF IInv, TypeOK
    <3>2. status' = [status EXCEPT ![d][h] = IF @ = "running" THEN result ELSE @]
      BY <1>4, <2>2 DEF finishAutoSyncRun
    <3>3. CASE d # c \/ h # g
      <4>1. status'[c][g] = status[c][g]
        BY <1>0, <1>4, <3>1, <3>2, <3>3
      <4> QED BY <4>1
    <3>4. CASE d = c /\ h = g
      <4>1. status'[c][g] = IF status[c][g] = "running" THEN result ELSE status[c][g]
        BY <1>0, <3>2, <3>4
      <4> QED BY <2>2, <3>4, <4>1
    <3> QED BY <3>3, <3>4
  <2> QED BY <2>1, <2>2
<1>5. ASSUME NEW d \in Configs, NEW h \in DOMAIN worker[d], completeRun(d, h)
      PROVE  completeRun(c, g) /\ isCurrentRun(c, g) /\ syncStatus(c, g) = "success"
  BY <1>4, <1>5 DEF completeRun
<1>6. ASSUME NEW d \in Configs, NEW h \in DOMAIN worker[d], failRun(d, h) PROVE FALSE
  BY <1>4, <1>6 DEF failRun
<1>7. ASSUME NEW d \in Configs,
             \/ deleteConfig(d)
             \/ \E scope \in SUBSET Items :
                  \/ changeScanSettings(d, FALSE, cfg[d].cleanup, cfg[d].scope)
                  \/ changeScanSettings(d, TRUE, ~cfg[d].cleanup, cfg[d].scope)
                  \/ changeScanSettings(d, TRUE, cfg[d].cleanup, scope)
      PROVE  FALSE
  BY <1>2, <1>7 DEF deleteConfig, changeScanSettings
<1>8. ASSUME NEW d \in Configs,
             \/ (\E scope \in SUBSET Items : createConfig(d, scope)) \/ scheduleTick(d) \/ requestRun(d) \/ changeSchedule(d)
             \/ stall(d) \/ leaseExpires(d)
             \/ \E h \in DOMAIN worker[d] : beginScan(d, h) \/ beginImport(d, h) \/ crash(d, h)
      PROVE  FALSE
  BY <1>1, <1>8 DEF createConfig, scheduleTick, requestRun, changeSchedule, stall, leaseExpires,
     beginScan, beginImport, crash
<1>9. ASSUME \/ \E scope \in SUBSET Items : userScan(scope)
             \/ \E x \in Items : userDeletesToken(x) \/ providerChanges(x)
      PROVE  FALSE
  BY <1>1, <1>9 DEF userScan, userDeletesToken, providerChanges
<1>10. ASSUME NEW s \in Scans,
              \/ scanStep(s) \/ listPart(s) \/ userCleanup(s)
              \/ \E x \in Items : userImport(s, x) \/ itemInError(s, x)
       PROVE  FALSE
  BY <1>1, <1>10 DEF scanStep, listProvider, persistScan, importRefused, reconcileAutoSyncRun,
     importAnswered, importItem, listPart, userCleanup, userImport, itemInError
<1> QED BY <1>3, <1>5, <1>6, <1>7, <1>8, <1>9, <1>10 DEF Next, runStep

\* The observation fence holds: the cleanup of a run leaves alone what a scan that
\* started later has stored, although the rows it compares were written by requests
\* of other runs and users.
THEOREM CleanupYields == Spec => CleanupYieldsToLaterScan
<1>1. ASSUME IInv, Next, NEW s \in Scans, scan[s].by # ByUser, ~scan[s].consumed,
             scan'[s].consumed, NEW x \in Items, token'[x] # token[x]
      PROVE  /\ x \in scan[s].scope
             /\ \A l \in Scans : l > s /\ scan[l].phase \in Stored => x \notin scan[l].items
  <2>0. ShapeOK /\ s \in Nat
    BY <1>1, Types DEF IInv, TypeOK
  <2>1. reconcileAutoSyncRun(s)
    BY <1>1, ConsumedByReconcile
  <2>2. PICK c \in Configs, g \in Nat :
             /\ g \in DOMAIN worker[c]
             /\ scan[s].by[1] = c /\ scan[s].by[2] = g
             /\ worker[c][g].scan = s
    BY <1>1, <2>1, CurrentRun DEF reconcileAutoSyncRun
  <2>3. obsolete(s, x) /\ staleLink(token[x], c, g)
    BY <1>1, <2>1, <2>2 DEF reconcileAutoSyncRun
  <2>4. token[x].observed <= s /\ token[x].observed \in Nat
    BY <1>1, <2>0, <2>3, Types DEF obsolete
  <2>5. token[x].seen[c] # 0 /\ g > token[x].seen[c]
    BY <1>1, <2>0, <2>2, <2>3, Types DEF staleLink
  <2>6. ASSUME NEW l \in Scans, l > s, scan[l].phase \in Stored, x \in scan[l].items
        PROVE  FALSE
    <3>1. l \in Nat /\ token[x].observed < l
      BY <2>0, <2>4, <2>6, Types
    <3>2. worker[c][g].scan = 0 \/ worker[c][g].scan > l
      BY <1>1, <2>2, <2>5, <2>6, <3>1 DEF IInv, FenceInv
    <3> QED BY <2>0, <2>2, <2>6, <3>1, <3>2, Types
  <2> QED BY <2>3, <2>6 DEF obsolete
<1>2. ASSUME IInv, [Next]_vars
      PROVE  [\A s \in Scans :
                (scan[s].by # ByUser /\ ~scan[s].consumed /\ scan'[s].consumed) =>
                  \A x \in Items : token'[x] # token[x] =>
                    /\ x \in scan[s].scope
                    /\ \A later \in {l \in Scans : l > s /\ scan[l].phase \in {"persisted", "importing", "answered"}} :
                         x \notin scan[later].items]_vars
  BY <1>1, <1>2 DEF Stored
<1> QED BY <1>2, Invariant, PTL DEF Spec, CleanupYieldsToLaterScan

\* A success is the truth about the links of the configuration at that moment.
THEOREM SuccessReconciled == Spec => SuccessMeansReconciled
<1>1. ASSUME IInv, Next, NEW c \in Configs, NEW g \in DOMAIN status[c],
             status[c][g] # "success", status'[c][g] = "success", worker[c][g].cleanup,
             NEW x \in scan[worker[c][g].scan].scope, token[x].seen[c] # 0
      PROVE  x \in scan[worker[c][g].scan].items \/ token[x].observed > worker[c][g].scan
  <2>0. ShapeOK
    BY <1>1 DEF IInv, TypeOK
  <2>1. completeRun(c, g) /\ isCurrentRun(c, g) /\ syncStatus(c, g) = "success"
    BY <1>1, SuccessByComplete
  <2>2. g \in DOMAIN worker[c] /\ g # 0
    BY <1>1, <2>0, Types DEF IInv, TypeOK
  <2> DEFINE s == worker[c][g].scan
  <2>3. s # 0 /\ s \in 0 .. Len(scan) /\ scan[s].by = <<c, g>>
    BY <1>1, <2>1, <2>2 DEF completeRun, IInv, LinkInv, TypeOK
  <2>4. s \in Scans
    BY <2>0, <2>3, Types
  <2>5. x \in Items
    BY <2>0, <2>4, Types DEF ScanType
  <2>6. scan[s].consumed
    BY <1>1, <2>1 DEF syncStatus
  <2>7. cfg[c].active = g
    BY <2>1 DEF isCurrentRun
  <2>8. x \in scan[s].scope
    OBVIOUS
  <2> HIDE DEF s
  <2>9. x \in scan[s].items \/ token[x].observed > s
    BY <1>1, <2>2, <2>3, <2>4, <2>5, <2>6, <2>7, <2>8 DEF IInv, CleanInv
  <2> QED BY <2>9 DEF s
<1>2. ASSUME IInv, [Next]_vars
      PROVE  [\A c \in Configs : \A g \in DOMAIN status[c] :
                (status[c][g] # "success" /\ status'[c][g] = "success" /\ worker[c][g].cleanup) =>
                  \A x \in scan[worker[c][g].scan].scope : token[x].seen[c] # 0 =>
                    \/ x \in scan[worker[c][g].scan].items
                    \/ token[x].observed > worker[c][g].scan]_vars
  BY <1>1, <1>2
<1> QED BY <1>2, Invariant, PTL DEF Spec, SuccessMeansReconciled
=============================================================================
