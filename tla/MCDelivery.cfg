CONSTANTS
  a = a
  b = b
  k1 = k1
  k2 = k2
  k3 = k3
  m1 = m1
  m2 = m2
  Peer <- TwoPeers
  Key <- ThreeKeys
  MaxKex = 1
  Message <- TwoMessages
  Sender <- MCSender
  Recipient <- MCRecipient
  MaxRetries = 3
  Worlds <- AllWorlds
SPECIFICATION FairSpec
CHECK_DEADLOCK FALSE
INVARIANTS
  DeliveredIsStored
PROPERTIES
  ImplementsFairService
  KnownPeersGetMessages
