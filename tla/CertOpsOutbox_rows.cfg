SPECIFICATION FairSpec
CONSTANTS
  Intents = {i1}
  Certificates = {c1}
  NoCertificate = NoCertificate
  NoProfile = NoProfile
  OtherProfile = OtherProfile
  Drains = {d1, d2}
  NoDrain = NoDrain
  NoIntent = NoIntent
  MaxAttempts = 2
  LateDrains = FALSE
INVARIANTS ParkedOnlyWhenSpent
PROPERTIES IntentIsDecided
