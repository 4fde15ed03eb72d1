CONSTANTS
  a = a
  b = b
  Peer <- TwoPeers
  Room = 0
  SendRetries = 2
  MaxRequests = 3
SPECIFICATION FlowFairSpec
CHECK_DEADLOCK FALSE
INVARIANTS
  FlowTypeOK
  BacklogBounded
PROPERTIES
  EverySendEnds
