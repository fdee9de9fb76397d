SPECIFICATION FairSpec
CONSTANTS
  Jobs = {j1}
  Agents = {a1}
  NoAgent = NoAgent
  NoJob = NoJob
  Operations = {"deploy", "distribute-trust"}
  Modes = {"real", "dry_run"}
  Versions = {1}
  MaxAttempts = 2
  Lease = 1
  HardGrace = 0
  NonceSlack = 1
  SweepGrace = 0
INVARIANTS DryRunIsHarmless LaneInv
PROPERTIES RetiredWorkNeverStarts RetirementOverlapFlagged HeldJobIsReleased
