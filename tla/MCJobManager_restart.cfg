SPECIFICATION Spec
CONSTANTS
  Client = {c1, c2}
  Worker = worker
  Main = main
  Free = free
  Key = {k1}
  NoKey = nokey
  Artifact = {a1}
  NoArtifact = noart
  MaxJobs = 2
  QueueCap = 1
  Keep = 0
  MaxFaults = 1
  MaxBoots = 1
  Restarts = {"stop", "kill", "power"}
SYMMETRY Symmetry
CHECK_DEADLOCK FALSE
INVARIANTS
  StartsAgain
  DurableTruth
PROPERTIES
  LedgerKept
