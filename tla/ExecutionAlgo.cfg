SPECIFICATION FairSpec
CONSTANTS
  Kinds = {"twap", "pov"}
  Qty = 4
  End = 4
  Slices = 3
  ResidualSlices = 2
  RatePercent = 50
  VolumeFloor = 2
  CatchUp = 1
  Volumes = {0, 2, 4}
  WorkerIndex = 1
  MayRefuse = TRUE
  MaxForeign = 1
CHECK_DEADLOCK FALSE
INVARIANTS
  BooksFollowOrders
  WithinParent
  DoneIsReported
  DeadlineCancels
PROPERTIES
  LastSliceSendsTheRest
  ParentEnds
