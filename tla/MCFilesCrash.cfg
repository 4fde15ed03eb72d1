CONSTANTS
  a = a
  b = b
  k1 = k1
  k2 = k2
  k3 = k3
  Peer <- TwoPeers
  Key <- TwoKeys
  MaxKex = 1
  From = a
  To = b
  ChunkSize = 2
  Sizes <- Three
  MaxRetries = 2
  Worlds <- CrashWorlds
SPECIFICATION Spec
CHECK_DEADLOCK FALSE
INVARIANTS
  CompletedIsAssembled
