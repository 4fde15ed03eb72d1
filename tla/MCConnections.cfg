CONSTANTS
  p = p
  sp = sp
  ep = ep
  Peer <- OnePeer
  Addr <- TwoAddrs
  Server <- Servers
  Owner <- MCOwner
  Conn = {c1, c2}
  Task = {t1, t2}
  SendRetries = 2
  NoConn = NoConn
  NoPeer = NoPeer
  NoAddr = NoAddr
SPECIFICATION FairSpec
INVARIANTS
  NeighbourHasHandler
  RegisteredIsRead
  RetriesRestored
PROPERTIES
  DepartedForgotten
  SendsEnd
