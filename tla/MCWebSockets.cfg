CONSTANTS
  c1 = c1
  c2 = c2
  c3 = c3
  e1 = e1
  e2 = e2
  Client <- ThreeClients
  Event <- TwoEvents
SPECIFICATION WsFairSpec
CHECK_DEADLOCK FALSE
INVARIANTS
  WsTypeOK
  NobodyPassedOver
  SameOrder
PROPERTIES
  BroadcastsEnd
  GoneIsForgotten
