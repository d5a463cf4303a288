SPECIFICATION FairSpec
CONSTANTS
  a = a
  b = b
  Venues = {a}
  Instruments = {1, 2}
  Threshold = 0
  AutoHealBand = 1
  PersistCycles = 2
  StartupHeal = 1
  Snapshots <- SmallSnapshots
  Quantities <- BuyOnly
  MayDisconnect = TRUE
  MayCrash = TRUE
  MaxPosition = 1
  MaxReports = 1
  MaxLost = 1
INVARIANTS
  ReconTypeOK
PROPERTIES
  ActsOnPersistentDrift
  LastingDriftIsActedOn
