SPECIFICATION Spec
CONSTANTS
  MaxConns = 1
  MaxIds = 3
  MaxChunks = 0
  MaxWrites = 2
  ChanCap = 1
  RingCap = 1
INVARIANT ControllersInTurn
CHECK_DEADLOCK FALSE
