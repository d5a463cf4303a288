SPECIFICATION FairSpec
CONSTANTS
  alpha = alpha
  Strategies = {alpha}
  MaxAge = 2
  SeqModulo = 6
  MissThreshold = 2
  HbDeadline = 2
  Lag = 1
  MaxInFlight = 3
  MaxPublished = 8
INVARIANTS
  GateTypeOK
  NeverRollsBack
PROPERTIES
  SilenceIsNoticed
