SPECIFICATION Spec
CONSTANTS
  Client = {c1}
  Worker = worker
  Main = main
  Free = free
  Key = {k1}
  NoKey = nokey
  Artifact = {a1}
  NoArtifact = noart
  MaxJobs = 3
  QueueCap = 1
  Keep = 1
  MaxFaults = 1
  MaxBoots = 2
  Restarts = {"kill", "power"}
SYMMETRY Symmetry
CHECK_DEADLOCK FALSE
INVARIANTS
  RunsAtMostOnce
