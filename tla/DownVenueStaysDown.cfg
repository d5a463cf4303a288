SPECIFICATION FairSpec
CONSTANTS
  VenueCount = 1
  MaxOpen = 1
  Tolerance = 1
  DegradeDwell = 1
  DownDwell = 1
  ProbeRequired = 1
  RejectWindow = 1
  MinSamples = 1
  RejectHigh = 50
  RejectLow = 50
  LatencyWindow = 1
  LatencyHigh = 5
  LatencyLow = 2
  DegradedWeight = 50
  ProbeWeight = 25
  Latencies <- FastOnly
PROPERTIES
  DownVenueIsProbed
