CONSTANTS
  a = a
  b = b
  k1 = k1
  k2 = k2
  k3 = k3
  Peer <- TwoPeers
  Key <- ThreeKeys
  MaxKex = 1
  From = a
  To = b
  ChunkSize = 2
  Sizes <- EmptyOrThree
  MaxRetries = 2
  Worlds <- AllWorlds
SPECIFICATION FairSpec
CHECK_DEADLOCK FALSE
INVARIANTS
  CompletedIsReceived
  DownloadIsWhole
PROPERTIES
  CompletedIsFinal
  ImplementsFairService
  FileArrives
