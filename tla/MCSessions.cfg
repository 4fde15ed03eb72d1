CONSTANTS
  a = a
  b = b
  c = c
  i1 = i1
  i2 = i2
  Peer <- TwoPeers
  Call <- OneCall
  Caller <- MCCaller
  Ping <- TwoPings
  Pinger <- MCPinger
  MaxDisturbances = 1
SPECIFICATION FairSpec
CHECK_DEADLOCK FALSE
INVARIANTS
  CallsAgree
  PendingIsWaiting
PROPERTIES
  PingsEnd
