SPECIFICATION FairTransfer
CONSTANTS
  Blocks = 7
  BlockMod = 4
  Life = 2
  Retries = 3
INVARIANTS
  BlocksInOrder
  CompletedMeansReceived
PROPERTIES
  TransferOver
CHECK_DEADLOCK FALSE
