CONSTANTS
  a = a
  b = b
  c = c
  p1 = p1
  p2 = p2
  p3 = p3
  Node <- Three
  Links <- Line
  Packet <- ThreePackets
  Source <- MCSource
  Target <- MCTarget
  Buffered <- ThreePackets
  Ttl = 1
  MaxPerDestination = 2
SPECIFICATION Spec
PROPERTIES
  BufferedIsSent
