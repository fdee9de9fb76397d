SPECIFICATION Spec
CONSTANTS
  Configs = {c1, c2}
  Items = {x1}
  Disturbances = {"tick", "edit", "provider", "user"}
  MaxDisturbances = 2
INVARIANTS ManagedIsTracked
PROPERTIES CleanupYieldsToLaterScan SuccessMeansReconciled
CHECK_DEADLOCK FALSE
SYMMETRY Symmetry
