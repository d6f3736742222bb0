SPECIFICATION Spec
CONSTANTS
  Limit = 12
  Keep = 1
  MaxJobs = 3
  MaxUnknown = 4
  MaxKills = 1
  Artifact = {a1, a2}
  Upload = 1
  Payload = 1
  Credit = 2
  Output = 1
  Legacy = 2
  Maintenance = 1
  Nobody = nobody
INVARIANTS
  WithinLimit
  TombstonesFit
PROPERTIES
  CleanupThorough
CHECK_DEADLOCK FALSE
