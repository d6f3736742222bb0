SPECIFICATION Spec
CONSTANTS
  Client = {c1, c2}
  Worker = worker
  Main = main
  Free = free
  Key = {k1}
  NoKey = nokey
  Artifact = {a1}
  NoArtifact = noart
  MaxJobs = 2
  QueueCap = 1
  Keep = 1
  MaxFaults = 0
  MaxBoots = 0
  Restarts = {}
SYMMETRY Symmetry
INVARIANTS
  ReservationsReturned
