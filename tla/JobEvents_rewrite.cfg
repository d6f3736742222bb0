SPECIFICATION Spec
CONSTANTS
  Reader = {}
  ChanCap = 2
  LogLimit = 4
  Margin = 2
  PageSize = 2
  MaxEvents = 6
  MaxKills = 2
  MaxFaults = 0
  Faults = {}
INVARIANT OutcomeKept
CHECK_DEADLOCK FALSE
