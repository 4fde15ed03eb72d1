CONSTANTS
  a = a
  b = b
  c = c
  d = d
  Node <- Four
  Networks <- OneKite
  Dist <- Distances
  HopsOver <- HopTable
  MaxDistance = 16
  MaxQueued = 1
  MaxInFlight <- InFlight
  MaxFaults <- Faults
SPECIFICATION Spec
INVARIANTS
  SettledForgetsDeparted
