------------------------------- MODULE AutoSync -------------------------------
(***************************************************************************)
(* Auto-sync: the configurations that scan one account of a provider on a  *)
(* schedule, import what they find into the inventory and clean up what is *)
(* gone (apps/worker/src/auto-sync-worker.js, shared/autoSyncRuns.js,      *)
(* apps/api/services/autoSyncProvenance.js, integrationScans.js), together *)
(* with the users who scan, import and clean up by hand (importCleanup.js).*)
(*                                                                         *)
(* A run is a process of the worker that asks the API to scan and then to  *)
(* import; both sides go on when the other gives up.  What a run writes is *)
(* fenced by the configuration's row: active run, generation, version of   *)
(* the settings, lease.                                                    *)
(*                                                                         *)
(* A run is named by its configuration and generation, a scan by the order *)
(* in which scans started (started_at), a token by the source object it    *)
(* was imported from.  A scope is the set of the objects that match the    *)
(* kinds, dimensions, instance and owner a scan is asked for.              *)
(***************************************************************************)
EXTENDS Integers, Sequences, FiniteSets

CONSTANTS
  Configs,        \* auto-sync configurations of one account of one provider
  Items,          \* source objects of that account
  Disturbances,   \* what users, the schedule, the provider and faults may do
  MaxDisturbances \* how often, all together

Kinds == {"tick", "request", "edit", "provider", "user", "fault", "stall", "crash"}

ASSUME SetsAssumption == IsFiniteSet(Configs) /\ IsFiniteSet(Items)
ASSUME DisturbancesAssumption == Disturbances \subseteq Kinds /\ MaxDisturbances \in Nat

VARIABLES
  cfg,     \* auto_sync_configs
  status,  \* auto_sync_runs: the status of each generation
  worker,  \* the processes that carry out the runs, by generation
  scan,    \* integration_scans, and the requests that made and import them
  token,   \* tokens and auto_sync_token_links
  present, \* the objects the provider has
  left     \* what is left of MaxDisturbances

vars == <<cfg, status, worker, scan, token, present, left>>

ByUser == <<>>                \* the owner of a scan that no run asked for
Finished == {"success", "partial", "failed"}
Scans == DOMAIN scan

NoToken == [row |-> FALSE, managed |-> FALSE, observed |-> 0,
            seen |-> [c \in Configs |-> 0]]   \* seen: last_seen_generation, 0: no link

Spend(k) == k \in Disturbances /\ left > 0 /\ left' = left - 1

Later(a, b) == IF a >= b THEN a ELSE b

(***************************************************************************)
(* The configuration's row                                                 *)
(***************************************************************************)

\* withCurrentRun, assertRunFence: the run is the active one, of the settings it
\* was claimed with, and holds its lease.
isCurrentRun(c, g) ==
  /\ cfg[c].state = "on"
  /\ cfg[c].active = g
  /\ cfg[c].version = worker[c][g].version
  /\ cfg[c].leased

\* Slip: the entry of the run that lost the row is forgotten.
supersededNone(c) == status[c]

\* The status of the active run of c, when it is still running, becomes superseded.
superseded(c) ==
  [g \in DOMAIN status[c] |->
     IF g = cfg[c].active /\ status[c][g] = "running" THEN "superseded" ELSE status[c][g]]

\* POST: first due at its scheduled time; cleanup may be switched off later.
createConfig(c, scope) ==
  /\ cfg[c].state = "none"
  /\ cfg' = [cfg EXCEPT ![c].state = "on", ![c].cleanup = TRUE, ![c].scope = scope]
  /\ UNCHANGED <<status, worker, scan, token, present, left>>

\* What claimDueAutoSyncRuns selects: no lease is running, and the next sync is
\* due or the active run has lost its lease.
dueForClaim(c) ==
  /\ cfg[c].state = "on"
  /\ ~cfg[c].leased
  /\ cfg[c].due \/ cfg[c].active # 0

\* One configuration of the batch, in its transaction's effect.
claimDueAutoSyncRuns(c) ==
  /\ dueForClaim(c)
  /\ status' = [status EXCEPT ![c] = Append(superseded(c), "running")]
  /\ worker' = [worker EXCEPT ![c] =
       Append(@, [version |-> cfg[c].version, cleanup |-> cfg[c].cleanup,
                  scope |-> cfg[c].scope, phase |-> "claimed", scan |-> 0])]
  /\ cfg' = [cfg EXCEPT ![c].active = Len(status[c]) + 1, ![c].leased = TRUE,
                        ![c].manual = FALSE, ![c].replace = FALSE, ![c].due = FALSE]
  /\ UNCHANGED <<scan, token, present, left>>

\* Slip: the schedule alone says when to sync next.
nextSyncByScheduleOnly(c) == FALSE

\* A request that waits makes the next sync due at once.
nextSyncDue(c) == cfg[c].manual \/ cfg[c].replace

\* withCurrentRun around finishAutoSyncRun: nothing for a run that is not current.
finishAutoSyncRun(c, g, result) ==
  IF isCurrentRun(c, g)
  THEN /\ status' = [status EXCEPT ![c][g] = IF @ = "running" THEN result ELSE @]
       /\ cfg' = [cfg EXCEPT ![c].active = 0, ![c].leased = FALSE,
                             ![c].due = nextSyncDue(c)]
  ELSE UNCHANGED <<status, cfg>>

(***************************************************************************)
(* The settings routes                                                     *)
(***************************************************************************)

\* The scheduled time comes.
scheduleTick(c) ==
  /\ cfg[c].state = "on"
  /\ ~cfg[c].due
  /\ Spend("tick")
  /\ cfg' = [cfg EXCEPT ![c].due = TRUE]
  /\ UNCHANGED <<status, worker, scan, token, present>>

\* POST .../run: a configuration that is running keeps one request for later.
requestRun(c) ==
  /\ cfg[c].state = "on"
  /\ Spend("request")
  /\ cfg' = [cfg EXCEPT ![c].manual = TRUE, ![c].due = @ \/ cfg[c].active = 0]
  /\ UNCHANGED <<status, worker, scan, token, present>>

\* PUT with a change that affects the scan (credentials, what it covers, cleanup, on or
\* off): the run in progress is superseded and, when the configuration is enabled,
\* replaced.  The links to what is no longer covered stay.
changeScanSettings(c, on, cleanup, scope) ==
  /\ cfg[c].state \in {"on", "off"}
  /\ Spend("edit")
  /\ status' = [status EXCEPT ![c] = superseded(c)]
  /\ cfg' = [cfg EXCEPT ![c].state = IF on THEN "on" ELSE "off",
                        ![c].cleanup = cleanup, ![c].scope = scope,
                        ![c].version = @ + 1,
                        ![c].active = 0, ![c].leased = FALSE,
                        ![c].replace = @ \/ on, ![c].due = @ \/ on]
  /\ UNCHANGED <<worker, scan, token, present>>

\* PUT of the schedule alone.
changeSchedule(c) ==
  /\ cfg[c].state \in {"on", "off"}
  /\ cfg[c].active = 0
  /\ Spend("edit")
  /\ cfg' = [cfg EXCEPT ![c].due = nextSyncDue(c)]
  /\ UNCHANGED <<status, worker, scan, token, present>>

\* Slip: what the deleted configuration tracked stays under management.
keepManaged(t) == t.managed

\* A token that no configuration tracks any more is the user's.
managedWhileTracked(t) == t.managed /\ \E c \in Configs : t.seen[c] # 0

\* DELETE: its links go, then management of what nothing else tracks.
deleteConfig(c) ==
  /\ cfg[c].state \in {"on", "off"}
  /\ Spend("edit")
  /\ token' = [x \in Items |->
       LET t == [token[x] EXCEPT !.seen[c] = 0]
       IN IF token[x].seen[c] = 0 THEN token[x]
          ELSE [t EXCEPT !.managed = managedWhileTracked(t)]]
  /\ status' = [status EXCEPT ![c] = superseded(c)]
  /\ cfg' = [cfg EXCEPT ![c].state = "deleted", ![c].active = 0, ![c].leased = FALSE,
                        ![c].manual = FALSE, ![c].replace = FALSE, ![c].due = FALSE]
  /\ UNCHANGED <<worker, scan, present>>

(***************************************************************************)
(* Scans                                                                   *)
(***************************************************************************)

\* scope: what the scan is to cover, then what it was able to read to the end.
newScan(by, scope) ==
  [by |-> by, scope |-> scope, phase |-> "started", items |-> {}, complete |-> FALSE,
   consumed |-> FALSE, todo |-> {}, errors |-> FALSE]

\* The scan's request may write: a user's always, a run's while it is current.
mayWrite(s) == scan[s].by = ByUser \/ isCurrentRun(scan[s].by[1], scan[s].by[2])

\* The worker posts the scan; started_at is when the request arrives.
beginScan(c, g) ==
  /\ worker[c][g].phase = "claimed"
  /\ scan' = Append(scan, newScan(<<c, g>>, worker[c][g].scope))
  /\ worker' = [worker EXCEPT ![c][g].phase = "scan", ![c][g].scan = Len(scan) + 1]
  /\ UNCHANGED <<cfg, status, token, present, left>>

userScan(scope) ==
  /\ Spend("user")
  /\ scan' = Append(scan, newScan(ByUser, scope))
  /\ UNCHANGED <<cfg, status, worker, token, present>>

\* The provider is read to the end.
listProvider(s) ==
  /\ scan[s].phase = "started"
  /\ scan' = [scan EXCEPT ![s].phase = "listed", ![s].items = present \cap scan[s].scope,
                          ![s].complete = TRUE]
  /\ UNCHANGED <<cfg, status, worker, token, present, left>>

\* Or only in part: the list of a sub-scope is truncated, a page of it is in error.
listPart(s) ==
  /\ scan[s].phase = "started"
  /\ Spend("fault")
  /\ \E part \in SUBSET (present \cap scan[s].scope), whole \in SUBSET scan[s].scope :
       /\ present \cap whole \subseteq part
       /\ scan' = [scan EXCEPT ![s].phase = "listed", ![s].items = part, ![s].scope = whole]
  /\ UNCHANGED <<cfg, status, worker, token, present>>

\* Slip: the rediscovery shows only once the item is imported.
observedAtImport(s) == token

\* recordScanItems: tokens in the inventory that the scan found again.
recordScanItems(s) ==
  [x \in Items |->
     IF x \in scan[s].items /\ token[x].row
     THEN [token[x] EXCEPT !.observed = Later(@, s)]
     ELSE token[x]]

\* The scan, its items and its scope are stored, or the request is refused.
persistScan(s) ==
  /\ scan[s].phase = "listed"
  /\ IF mayWrite(s)
     THEN /\ scan' = [scan EXCEPT ![s].phase = "persisted"]
          /\ token' = recordScanItems(s)
     ELSE /\ scan' = [scan EXCEPT ![s].phase = "refused"]
          /\ UNCHANGED token
  /\ UNCHANGED <<cfg, status, worker, present, left>>

(***************************************************************************)
(* Imports                                                                 *)
(***************************************************************************)

\* upsertImportedToken: by source identity; a user's import takes over.
upsertImportedToken(s, x, manual) ==
  IF token[x].row
  THEN [token[x] EXCEPT !.observed = Later(@, s), !.managed = @ /\ ~manual]
  ELSE [NoToken EXCEPT !.row = TRUE, !.managed = ~manual, !.observed = s]

\* Slip: the link is stamped with the next generation.
attachNextGeneration(t, c, g) == [t EXCEPT !.seen[c] = Later(@, g + 1)]

\* attachObservedToken: the link of c to the token, at generation g.
attachObservedToken(t, c, g) == [t EXCEPT !.seen[c] = Later(@, g)]

\* The worker posts the items of its scan.
beginImport(c, g) ==
  /\ worker[c][g].phase = "scan"
  /\ scan[worker[c][g].scan].phase = "persisted"
  /\ worker' = [worker EXCEPT ![c][g].phase = "import"]
  /\ scan' = [scan EXCEPT ![worker[c][g].scan].phase = "importing",
                          ![worker[c][g].scan].todo = scan[worker[c][g].scan].items]
  /\ UNCHANGED <<cfg, status, token, present, left>>

\* One item of a run's import is stored with its link.
importItem(s, x) ==
  /\ scan[s].phase = "importing"
  /\ x \in scan[s].todo
  /\ mayWrite(s)
  /\ token' = [token EXCEPT ![x] = attachObservedToken(
                  upsertImportedToken(s, x, FALSE), scan[s].by[1], scan[s].by[2])]
  /\ scan' = [scan EXCEPT ![s].todo = @ \ {x}]
  /\ UNCHANGED <<cfg, status, worker, present, left>>

\* An item in error is counted, and the import goes on (recordAutoSyncImportErrors).
itemInError(s, x) ==
  /\ scan[s].phase = "importing"
  /\ x \in scan[s].todo
  /\ mayWrite(s)
  /\ Spend("fault")
  /\ scan' = [scan EXCEPT ![s].todo = @ \ {x}, ![s].errors = TRUE]
  /\ UNCHANGED <<cfg, status, worker, token, present>>

\* The import of a run that is no longer current stores nothing more.
importRefused(s) ==
  /\ scan[s].phase = "importing"
  /\ ~mayWrite(s)
  /\ scan' = [scan EXCEPT ![s].phase = "refused"]
  /\ UNCHANGED <<cfg, status, worker, token, present, left>>

\* A user imports an item of a scan, whenever they like.
userImport(s, x) ==
  /\ scan[s].by = ByUser
  /\ scan[s].phase = "persisted"
  /\ x \in scan[s].items
  /\ token' = [token EXCEPT ![x] = upsertImportedToken(s, x, TRUE)]
  /\ UNCHANGED <<cfg, status, worker, scan, present, left>>

userDeletesToken(x) ==
  /\ token[x].row
  /\ Spend("user")
  /\ token' = [token EXCEPT ![x] = NoToken]
  /\ UNCHANGED <<cfg, status, worker, scan, present>>

(***************************************************************************)
(* Cleanup                                                                 *)
(***************************************************************************)

\* Covered by the scan and not found, and not observed by one that started after it.
obsolete(s, x) ==
  /\ token[x].row
  /\ x \in scan[s].scope
  /\ x \notin scan[s].items
  /\ token[x].observed <= s

\* Every item of the scan is linked at the generation of its run.
allImported(s, c, g) == \A x \in scan[s].items : token[x].seen[c] = g

\* Slip: one absence is forgiven.
staleLinkTwice(t, c, g) == t.seen[c] \in 1 .. g - 2

\* The token is linked to c and the run did not see it.
staleLink(t, c, g) == t.seen[c] \in 1 .. g - 1

\* What is left of a token whose link was removed.
detached(t) ==
  IF t.managed /\ \A c \in Configs : t.seen[c] = 0 THEN NoToken ELSE t

\* The run detaches what its scan did not find and deletes what it managed.
\* Without effect when the import is incomplete; refused when it is not current.
reconcileAutoSyncRun(s) ==
  /\ scan[s].phase = "importing"
  /\ scan[s].todo = {}
  /\ mayWrite(s)
  /\ LET c == scan[s].by[1]
         g == scan[s].by[2]
     IN /\ worker[c][g].cleanup
        /\ ~scan[s].errors
        /\ IF scan[s].complete /\ allImported(s, c, g)
           THEN /\ scan' = [scan EXCEPT ![s].phase = "answered", ![s].consumed = TRUE]
                /\ token' = [x \in Items |->
                     IF obsolete(s, x) /\ staleLink(token[x], c, g)
                     THEN detached([token[x] EXCEPT !.seen[c] = 0])
                     ELSE token[x]]
           ELSE /\ scan' = [scan EXCEPT ![s].phase = "answered"]
                /\ UNCHANGED token
  /\ UNCHANGED <<cfg, status, worker, present, left>>

\* Nothing to clean up: cleanup is off or an item was in error.
importAnswered(s) ==
  /\ scan[s].phase = "importing"
  /\ scan[s].todo = {}
  /\ ~worker[scan[s].by[1]][scan[s].by[2]].cleanup \/ scan[s].errors
  /\ scan' = [scan EXCEPT ![s].phase = "answered"]
  /\ UNCHANGED <<cfg, status, worker, token, present, left>>

\* cleanupObsoleteTokens of a user's import: only what no configuration tracks, in
\* the sub-scopes that are complete, once for a scan, which is used up even when
\* there are none.
userCleanup(s) ==
  /\ scan[s].by = ByUser
  /\ scan[s].phase = "persisted"
  /\ ~scan[s].consumed
  /\ scan' = [scan EXCEPT ![s].consumed = TRUE]
  /\ token' = [x \in Items |->
       IF obsolete(s, x) /\ \A c \in Configs : token[x].seen[c] = 0
       THEN NoToken ELSE token[x]]
  /\ UNCHANGED <<cfg, status, worker, present, left>>

(***************************************************************************)
(* The end of a run                                                        *)
(***************************************************************************)

Waiting == {"claimed", "scan", "import"}

\* syncStatus: a success imported all of a complete scan and cleaned up after it.
syncStatus(c, g) ==
  LET s == scan[worker[c][g].scan]
  IN IF s.complete /\ ~s.errors /\ (worker[c][g].cleanup => s.consumed)
     THEN "success" ELSE "partial"

completeRun(c, g) ==
  /\ worker[c][g].phase = "import"
  /\ scan[worker[c][g].scan].phase = "answered"
  /\ finishAutoSyncRun(c, g, syncStatus(c, g))
  /\ worker' = [worker EXCEPT ![c][g].phase = "stopped"]
  /\ UNCHANGED <<scan, token, present, left>>

\* The request was refused, or failed: an error of the provider or the API, a
\* timeout while the API goes on, a lease known to be lost, unusable settings.
failRun(c, g) ==
  /\ worker[c][g].phase \in Waiting
  /\ \/ /\ worker[c][g].scan # 0
        /\ scan[worker[c][g].scan].phase = "refused"
        /\ UNCHANGED left
     \/ Spend("fault")
  /\ finishAutoSyncRun(c, g, "failed")
  /\ worker' = [worker EXCEPT ![c][g].phase = "stopped"]
  /\ UNCHANGED <<scan, token, present>>

crash(c, g) ==
  /\ worker[c][g].phase \in Waiting
  /\ Spend("crash")
  /\ worker' = [worker EXCEPT ![c][g].phase = "crashed"]
  /\ UNCHANGED <<cfg, status, scan, token, present>>

\* renewAutoSyncLease did not reach the database in time.
stall(c) ==
  /\ cfg[c].leased
  /\ Spend("stall")
  /\ cfg' = [cfg EXCEPT ![c].leased = FALSE]
  /\ UNCHANGED <<status, worker, scan, token, present>>

\* Nobody renews the lease of a run whose process is gone.
leaseExpires(c) ==
  /\ cfg[c].leased
  /\ worker[c][cfg[c].active].phase = "crashed"
  /\ cfg' = [cfg EXCEPT ![c].leased = FALSE]
  /\ UNCHANGED <<status, worker, scan, token, present, left>>

\* Objects are made and removed at the provider.
providerChanges(x) ==
  /\ Spend("provider")
  /\ present' = (present \ {x}) \cup ({x} \ present)
  /\ UNCHANGED <<cfg, status, worker, scan, token>>

(***************************************************************************)
(* The specification                                                       *)
(***************************************************************************)

NewConfig == [state |-> "none", version |-> 1, cleanup |-> FALSE, scope |-> {}, active |-> 0,
              leased |-> FALSE, due |-> FALSE, manual |-> FALSE, replace |-> FALSE]

Init ==
  /\ cfg \in [Configs -> {NewConfig, [NewConfig EXCEPT !.state = "on", !.cleanup = TRUE,
                                                      !.scope = Items, !.due = TRUE]}]
  /\ status = [c \in Configs |-> <<>>]
  /\ worker = [c \in Configs |-> <<>>]
  /\ scan = <<>>
  /\ token = [x \in Items |-> NoToken]
  /\ present = Items
  /\ left = MaxDisturbances

\* The steps of the processes themselves, of run g of c and of scan s.
runStep(c, g) ==
  beginScan(c, g) \/ beginImport(c, g) \/ completeRun(c, g) \/ failRun(c, g)
scanStep(s) ==
  \/ listProvider(s) \/ persistScan(s) \/ importRefused(s)
  \/ reconcileAutoSyncRun(s) \/ importAnswered(s)
  \/ \E x \in Items : importItem(s, x)

Next ==
  \/ \E c \in Configs :
       \/ claimDueAutoSyncRuns(c) \/ scheduleTick(c) \/ requestRun(c)
       \/ changeSchedule(c) \/ deleteConfig(c) \/ stall(c) \/ leaseExpires(c)
       \/ changeScanSettings(c, FALSE, cfg[c].cleanup, cfg[c].scope)
       \/ changeScanSettings(c, TRUE, ~cfg[c].cleanup, cfg[c].scope)
       \/ \E scope \in SUBSET Items :
            \/ createConfig(c, scope)
            \/ changeScanSettings(c, TRUE, cfg[c].cleanup, scope)
       \/ \E g \in DOMAIN worker[c] : runStep(c, g) \/ crash(c, g)
  \/ \E scope \in SUBSET Items : userScan(scope)
  \/ \E s \in Scans :
       \/ scanStep(s) \/ listPart(s) \/ userCleanup(s)
       \/ \E x \in Items : userImport(s, x) \/ itemInError(s, x)
  \/ \E x \in Items : userDeletesToken(x) \/ providerChanges(x)

Spec == Init /\ [][Next]_vars

\* The worker is started again and again, its requests end by their timeouts, and
\* the lease of a dead process runs out.  The schedule is not relied on.
FairSpec ==
  /\ Spec
  /\ \A c \in Configs : /\ WF_vars(claimDueAutoSyncRuns(c))
                        /\ WF_vars(leaseExpires(c))
                        /\ WF_vars(\E g \in DOMAIN worker[c] : runStep(c, g))
  /\ WF_vars(\E s \in Scans : scanStep(s))

(***************************************************************************)
(* Properties                                                              *)
(***************************************************************************)

ConfigType ==
  [state : {"none", "on", "off", "deleted"}, version : Nat, cleanup : BOOLEAN,
   scope : SUBSET Items, active : Nat, leased : BOOLEAN, due : BOOLEAN,
   manual : BOOLEAN, replace : BOOLEAN]
StatusType == {"running", "superseded"} \cup Finished
WorkerType ==
  [version : Nat, cleanup : BOOLEAN, scope : SUBSET Items, scan : Nat,
   phase : Waiting \cup {"stopped", "crashed"}]
ScanType ==
  [by : {ByUser} \cup (Configs \X Nat), scope : SUBSET Items,
   phase : {"started", "listed", "persisted", "importing", "answered", "refused"},
   items : SUBSET Items, complete : BOOLEAN, consumed : BOOLEAN, todo : SUBSET Items,
   errors : BOOLEAN]
TokenType == [row : BOOLEAN, managed : BOOLEAN, observed : Nat, seen : [Configs -> Nat]]

\* The shapes of auto_sync_configs, auto_sync_runs, integration_scans and of the
\* tokens with their links.
ShapeOK ==
  /\ cfg \in [Configs -> ConfigType]
  /\ status \in [Configs -> Seq(StatusType)]
  /\ worker \in [Configs -> Seq(WorkerType)]
  /\ scan \in Seq(ScanType)
  /\ token \in [Items -> TokenType]
  /\ present \subseteq Items
  /\ left \in 0 .. MaxDisturbances

\* The shapes, and references to rows that exist: runs and scans that are named
\* were claimed and started.
TypeOK ==
  /\ ShapeOK
  /\ \A c \in Configs :
       /\ Len(worker[c]) = Len(status[c])
       /\ cfg[c].active \in 0 .. Len(status[c])
       /\ \A g \in DOMAIN worker[c] : worker[c][g].scan \in 0 .. Len(scan)
  /\ \A x \in Items :
       /\ token[x].observed \in 0 .. Len(scan)
       /\ \A c \in Configs : token[x].seen[c] \in 0 .. Len(status[c])

\* The history never shows a run in progress that the configuration's row does not
\* name, nor two of them: every way a run loses the row (claim, settings, deletion,
\* finish) closes its entry, and only a run that holds the row closes it itself.
RunningIsActive ==
  \A c \in Configs : \A g \in DOMAIN status[c] :
    status[c][g] = "running" <=> cfg[c].active = g

\* A token under auto-sync management is tracked by a configuration, however
\* deletions, cleanups and users' imports follow each other: otherwise neither
\* auto-sync nor a user would be responsible for it and nothing would clean it up.
ManagedIsTracked ==
  \A x \in Items : token[x].managed =>
    token[x].row /\ \E c \in Configs : token[x].seen[c] # 0 /\ cfg[c].state # "deleted"

\* The cleanup of a run touches nothing its scan did not cover, and neither detaches
\* nor deletes a token that a scan which started later has found, whoever asked for
\* that scan (the observation fence).
CleanupYieldsToLaterScan ==
  [][\A s \in Scans :
       (scan[s].by # ByUser /\ ~scan[s].consumed /\ scan'[s].consumed) =>
         \A x \in Items : token'[x] # token[x] =>
           /\ x \in scan[s].scope
           /\ \A later \in {l \in Scans : l > s /\ scan[l].phase \in {"persisted", "importing", "answered"}} :
                x \notin scan[later].items]_vars

\* A run that reports success with cleanup on leaves nothing linked to its
\* configuration that its scan covered and did not find, unless a later scan found
\* it, whatever was changed in between.  What the configuration no longer covers is
\* not its concern.
SuccessMeansReconciled ==
  [][\A c \in Configs : \A g \in DOMAIN status[c] :
       (status[c][g] # "success" /\ status'[c][g] = "success" /\ worker[c][g].cleanup) =>
         \A x \in scan[worker[c][g].scan].scope : token[x].seen[c] # 0 =>
           \/ x \in scan[worker[c][g].scan].items
           \/ token[x].observed > worker[c][g].scan]_vars

\* A run that was asked for (now, or to replace a superseded one) is carried out and
\* reports its outcome without waiting for the schedule, although the run in progress
\* may die, lose its lease or be superseded, unless the configuration is switched off
\* or deleted.
RequestIsServed ==
  \A c \in Configs : \A n \in 0 .. MaxDisturbances :
    (/\ cfg[c].state = "on"
     /\ cfg[c].manual \/ cfg[c].replace
     /\ Len(status[c]) = n) ~>
      \/ cfg[c].state # "on"
      \/ \E g \in n + 1 .. Len(status[c]) : status[c][g] \in Finished

(***************************************************************************)
(* The inductive invariant                                                 *)
(***************************************************************************)

\* Scans whose items are stored, and those a run has begun to import.
Stored == {"persisted", "importing", "answered"}
Imported == {"importing", "answered", "refused"}

\* The row names the latest run, and the history agrees.
RunInv(c) ==
  /\ cfg[c].active # 0 => cfg[c].active = Len(status[c])
  /\ \A g \in DOMAIN status[c] : status[c][g] = "running" <=> cfg[c].active = g

\* A run that has posted its scan, and that scan, name each other.
LinkInv(c) ==
  \A g \in DOMAIN worker[c] :
    /\ worker[c][g].scan # 0 => scan[worker[c][g].scan].by = <<c, g>>
    /\ worker[c][g].phase = "claimed" => worker[c][g].scan = 0
    /\ worker[c][g].phase \in {"scan", "import"} => worker[c][g].scan # 0

\* And only runs import in the background and are cleaned up after, once.
ScanInv(s) ==
  /\ scan[s].by # ByUser => LET c == scan[s].by[1]
                                g == scan[s].by[2]
                            IN g \in DOMAIN worker[c] /\ worker[c][g].scan = s
  /\ scan[s].todo \subseteq scan[s].items
  /\ scan[s].phase = "started" => scan[s].todo = {}
  /\ scan[s].phase \in {"importing", "answered"} => scan[s].by # ByUser
  /\ scan[s].by # ByUser /\ scan[s].consumed => scan[s].phase = "answered"

\* Links and management belong to tokens that exist, of configurations that do.
TokenInv(x) ==
  /\ ~token[x].row => ~token[x].managed /\ \A c \in Configs : token[x].seen[c] = 0
  /\ token[x].managed => \E c \in Configs : token[x].seen[c] # 0
  /\ \A c \in Configs : token[x].seen[c] # 0 => cfg[c].state # "deleted"

\* A link at generation g was made by run g, from what its scan had found.
SeenInv(x, c) ==
  LET s == worker[c][token[x].seen[c]].scan
  IN token[x].seen[c] # 0 => s # 0 /\ x \in scan[s].items /\ scan[s].phase \in Imported

\* The observation fence: when a stored scan l found x, and x was observed before l
\* only, x was made again after l was stored, and the runs of c after the one that
\* linked it scan after l.
FenceInv(x, c) ==
  \A l \in Scans :
    /\ scan[l].phase \in Stored
    /\ x \in scan[l].items
    /\ token[x].seen[c] # 0
    /\ token[x].observed < l
    => \A g \in DOMAIN worker[c] :
         g > token[x].seen[c] => worker[c][g].scan = 0 \/ worker[c][g].scan > l

\* What the active run has cleaned up after stays clean until it finishes.
CleanInv(x, c) ==
  \A s \in Scans :
    /\ cfg[c].active # 0
    /\ scan[s].by = <<c, cfg[c].active>>
    /\ scan[s].consumed
    /\ x \in scan[s].scope
    /\ token[x].seen[c] # 0
    => x \in scan[s].items \/ token[x].observed > s

\* What every step preserves, and ManagedIsTracked, the fence and the reports of
\* success rest on.
IInv ==
  /\ TypeOK
  /\ \A c \in Configs : RunInv(c) /\ LinkInv(c)
  /\ \A s \in Scans : ScanInv(s)
  /\ \A x \in Items : TokenInv(x)
  /\ \A x \in Items, c \in Configs : SeenInv(x, c) /\ FenceInv(x, c) /\ CleanInv(x, c)
=============================================================================
