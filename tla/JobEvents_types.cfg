SPECIFICATION Spec
CONSTANTS
  Reader = {r1}
  ChanCap = 2
  LogLimit = 3
  Margin = 2
  PageSize = 2
  MaxEvents = 5
  MaxKills = 2
  MaxFaults = 1
  Faults = {"lost", "torn"}
INVARIANT TypeOK
CHECK_DEADLOCK FALSE
