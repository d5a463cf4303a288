SPECIFICATION FairSpec
CONSTANTS
  VenueCount = 1
  MaxOpen = 2
  Tolerance = 2
  DegradeDwell = 1
  DownDwell = 2
  ProbeRequired = 2
  RejectWindow = 2
  MinSamples = 1
  RejectHigh = 50
  RejectLow = 50
  LatencyWindow = 2
  LatencyHigh = 5
  LatencyLow = 2
  DegradedWeight = 50
  ProbeWeight = 25
  Latencies <- FastAndSlow
INVARIANTS
  HealthTypeOK
  UnresolvedIsOneIncident
PROPERTIES
  FullDwellBeforeProbing
  BadVenueGoesDown
