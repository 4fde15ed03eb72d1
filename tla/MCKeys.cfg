CONSTANTS
  a = a
  b = b
  k1 = k1
  k2 = k2
  k3 = k3
  Peer <- TwoPeers
  Key <- ThreeKeys
  MaxKex = 3
SPECIFICATION KeyFairSpec
INVARIANTS
  KeysAreGenuine
PROPERTIES
  MarkStaysWithKey
  ExchangeEnds
