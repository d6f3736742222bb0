SPECIFICATION FairSpec
CONSTANTS
  Tasks <- MCTasks
  Limit = 1
  MaxChunks = 2
  MaxFaults = 1
  MaxKills = 1
INVARIANTS
  OnePhase
  CancelExact
  RecordClosed
  SucceededMeansClean
PROPERTIES
  RunEnds
CHECK_DEADLOCK FALSE
