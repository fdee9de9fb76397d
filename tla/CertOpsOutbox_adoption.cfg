SPECIFICATION Spec
CONSTANTS
  Intents = {i1, i2}
  Certificates = {c1}
  NoCertificate = NoCertificate
  NoProfile = NoProfile
  OtherProfile = OtherProfile
  Drains = {d1, d2}
  NoDrain = NoDrain
  NoIntent = NoIntent
  MaxAttempts = 1
  LateDrains = TRUE
SYMMETRY Symmetry
CONSTRAINT AdoptionsOnly
INVARIANTS DetachedStaysDetached IInv
PROPERTIES DecisionIsFinal ImplementsAdoption
