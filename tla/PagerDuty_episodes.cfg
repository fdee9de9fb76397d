SPECIFICATION FairSpec
CONSTANTS
  Workers = {w1}
  NoWorker = NoWorker
  MaxEpisodes = 2
  MaxExpiration = 3
  Windows = {0, 1, 2}
  MaxAttempts = 2
  Disturbances = {"crash", "operator", "asset", "settings"}
  MaxDisturbances = 2
PROPERTIES EpisodesEnd AcceptedAlertSettles
CHECK_DEADLOCK FALSE
