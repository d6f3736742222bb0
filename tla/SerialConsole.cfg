SPECIFICATION FairSpec
CONSTANTS
  MaxConns = 2
  MaxIds = 2
  MaxChunks = 3
  MaxWrites = 1
  ChanCap = 1
  RingCap = 2
INVARIANTS
  StreamComplete
  PortOwned
PROPERTIES
  PortReleased
  ReadLoopNeverStalls
CHECK_DEADLOCK FALSE
