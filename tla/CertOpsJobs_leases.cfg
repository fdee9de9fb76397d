SPECIFICATION Spec
CONSTANTS
  Jobs = {j1}
  Agents = {a1, a2}
  NoAgent = NoAgent
  NoJob = NoJob
  Operations = {"renew"}
  Modes = {"real"}
  Versions = {1}
  MaxAttempts = 2
  Lease = 1
  HardGrace = 1
  NonceSlack = 1
  SweepGrace = 0
SYMMETRY AgentSymmetry
CONSTRAINT LeasesOnly
INVARIANTS AtMostOneEffectfulClaim EffectsAccounted ResultWindowOpen AlertComplete IInv
PROPERTIES LiveLeaseIsExclusive ImplementsContract
