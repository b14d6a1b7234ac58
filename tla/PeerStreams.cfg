CONSTANTS
  p1 = p1
  p2 = p2
  Peers = {p1, p2}
  MaxSessions = 2
  MaxEras = 2
  MaxQueue = 2
  MaxReaders = 1
SPECIFICATION Spec
INVARIANTS
  TypeOK
  PeersAreServed
  StoppedIsEmpty
PROPERTIES
  PeersGetStreams
  LoopsMerge
CHECK_DEADLOCK FALSE
