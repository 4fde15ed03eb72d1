CONSTANTS
  a = a
  b = b
  k1 = k1
  k2 = k2
  k3 = k3
  m1 = m1
  m2 = m2
  Peer <- TwoPeers
  Key <- TwoKeys
  MaxKex = 1
  Message <- TwoMessages
  Sender <- MCSender
  Recipient <- MCRecipient
  MaxRetries = 3
  Worlds <- NewWorlds
SPECIFICATION FairSpec
CHECK_DEADLOCK FALSE
PROPERTIES
  QueuedGetsDelivered
