CONSTANTS
  a = a
  b = b
  c = c
  p1 = p1
  p2 = p2
  p3 = p3
  Node <- Three
  Links <- Line
  Packet <- ThreePackets
  Source <- MCSource
  Target <- MCTarget
  Buffered <- ThreePackets
  Ttl = 2
  MaxPerDestination = 1
SPECIFICATION FairSpec
INVARIANTS
  RelayTypeOK
  BufferedHasNoRoute
  NeverTwice
PROPERTIES
  NothingCirculates
  NothingStaysBuffered
