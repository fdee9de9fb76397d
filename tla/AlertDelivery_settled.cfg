SPECIFICATION FairSpec
CONSTANTS
  e1 = e1
  h1 = h1
  p1 = p1
  Workers = {w1}
  NoWorker = NoWorker
  Dests = {h1, p1}
  Channel <- ChannelOf
  MaxAttempts = 2
  CooldownFrom = 1
  DegradedFrom = 1
  SmtpAccounts = 2
  Disturbances = {"crash", "stall", "lose", "retry", "move", "defer"}
  MaxDisturbances = 1
INVARIANTS  ExcludedRowOwesNothing
PROPERTIES AlertIsSettled
CHECK_DEADLOCK FALSE
