SPECIFICATION Spec
CONSTANTS
  Limit = 6
  Keep = 1
  MaxJobs = 3
  MaxUnknown = 3
  MaxKills = 0
  Artifact = {a1}
  Upload = 1
  Payload = 1
  Credit = 2
  Output = 1
  Legacy = 2
  Maintenance = 1
  Nobody = nobody
INVARIANT StationStarts
CHECK_DEADLOCK FALSE
