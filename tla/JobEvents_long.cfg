SPECIFICATION Spec
CONSTANTS
  Reader = {}
  ChanCap = 2
  LogLimit = 5
  Margin = 2
  PageSize = 2
  MaxEvents = 6
  MaxKills = 1
  MaxFaults = 0
  Faults = {}
INVARIANT AlwaysMonotonic
CHECK_DEADLOCK FALSE
