SPECIFICATION FairSpec
CONSTANTS
  Strategies <- ThreeStrategies
  Targets <- BothSides
  MaxSettings = 3
  MaxOverlaps = 1
  MaxCarried = 1
CHECK_DEADLOCK FALSE
INVARIANTS
  NettingTypeOK
  GlobalIsSumOfParts
  SharesAreProRata
PROPERTIES
  TargetsAreReached
