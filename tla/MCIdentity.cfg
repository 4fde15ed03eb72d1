CONSTANTS
  h1 = h1
  h2 = h2
  h3 = h3
  i1 = i1
  i2 = i2
  i3 = i3
  NoId = NoId
  Host <- ThreeHosts
  Id <- ThreeIds
  MaxLosses = 1
  MaxPackets = 2
SPECIFICATION Spec
SYMMETRY Alike
INVARIANTS
  OwnRowFirst
  RunsAsRegistered
