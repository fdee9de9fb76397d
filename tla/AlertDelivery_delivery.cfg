SPECIFICATION Spec
CONSTANTS
  e1 = e1
  h1 = h1
  p1 = p1
  Workers = {w1, w2}
  NoWorker = NoWorker
  Dests = {e1}
  Channel <- ChannelOf
  MaxAttempts = 2
  CooldownFrom = 1
  DegradedFrom = 2
  SmtpAccounts = 2
  Disturbances = {"crash", "stall", "lose", "retry", "move"}
  MaxDisturbances = 2
SYMMETRY Symmetry
INVARIANTS IInv DuplicatesExplained SentMeansDelivered BlockedIsReported
CHECK_DEADLOCK FALSE
