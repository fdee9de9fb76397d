SPECIFICATION FairSpec
CONSTANTS
  e1 = e1
  h1 = h1
  p1 = p1
  Workers = {w1}
  NoWorker = NoWorker
  Dests = {e1, p1}
  Channel <- ChannelOf
  MaxAttempts = 3
  CooldownFrom = 2
  DegradedFrom = 2
  SmtpAccounts = 2
  Disturbances = {}
  MaxDisturbances = 0
PROPERTIES RetriesEnd
CHECK_DEADLOCK FALSE
