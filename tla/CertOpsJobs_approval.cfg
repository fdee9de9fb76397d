SPECIFICATION Spec
CONSTANTS
  Jobs = {j1}
  Agents = {a1}
  NoAgent = NoAgent
  NoJob = NoJob
  Operations = {"renew"}
  Modes = {"real"}
  Versions = {1, 2}
  MaxAttempts = 2
  Lease = 1
  HardGrace = 1
  NonceSlack = 1
  SweepGrace = 0
CONSTRAINT NeverPaused
INVARIANTS EffectsWereApproved JournalNeverNeeded
PROPERTIES TerminalIsFinal
