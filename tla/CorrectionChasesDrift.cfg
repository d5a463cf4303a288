SPECIFICATION Spec
CONSTANTS
  a = a
  b = b
  Venues = {a, b}
  Instruments = {1}
  Threshold = 0
  AutoHealBand = 1
  PersistCycles = 2
  StartupHeal = 1
  Snapshots <- SmallSnapshots
  Quantities <- BuyOrSell
  MayDisconnect = FALSE
  MayCrash = FALSE
  MaxPosition = 2
  MaxReports = 1
  MaxLost = 1
PROPERTIES
  CorrectionNarrowsGap
