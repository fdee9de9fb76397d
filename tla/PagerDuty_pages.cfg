SPECIFICATION Spec
CONSTANTS
  Workers = {w1, w2}
  NoWorker = NoWorker
  MaxEpisodes = 2
  MaxExpiration = 3
  Windows = {0, 1, 2}
  MaxAttempts = 2
  Disturbances = {"crash", "pause", "operator", "asset", "settings"}
  MaxDisturbances = 2
SYMMETRY Symmetry
INVARIANTS IInv LedgerMatchesProvider
PROPERTIES DecisionsAreCurrent
CHECK_DEADLOCK FALSE
