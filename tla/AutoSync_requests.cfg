SPECIFICATION FairSpec
CONSTANTS
  Configs = {c1}
  Items = {x1}
  Disturbances = {"tick", "request", "edit", "provider", "user", "fault", "stall", "crash"}
  MaxDisturbances = 2
INVARIANTS IInv RunningIsActive
PROPERTIES RequestIsServed
CHECK_DEADLOCK FALSE
