CONSTANTS
  a = a
  b = b
  c = c
  d = d
  Node <- Three
  Networks <- LineAndTriangle
  Dist <- Distances
  HopsOver <- HopTable
  MaxDistance = 16
  MaxQueued = 2
  MaxInFlight <- InFlight
  MaxFaults <- Faults
SPECIFICATION FairSpec
INVARIANTS
  TypeOK
  GatewayIsNeighbour
  NeighbourIsAttached
  MetricIsSound
PROPERTIES
  NeighbourLostOnlyByClose
  EventuallyConverged
