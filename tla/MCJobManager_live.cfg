SPECIFICATION FairSpec
CONSTANTS
  Client = {c1, c2}
  Worker = worker
  Main = main
  Free = free
  Key = {}
  NoKey = {}
  Artifact = {a1}
  NoArtifact = noart
  MaxJobs = 3
  QueueCap = 1
  Keep = 1
  MaxFaults = 0
  MaxBoots = 0
  Restarts = {}
INVARIANTS
  ActiveKeepsArtifact
  CancelHonoured
PROPERTIES
  OutcomeFinal
  AcceptedEnds
  CancelReturns
