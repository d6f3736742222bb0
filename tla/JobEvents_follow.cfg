SPECIFICATION Spec
CONSTANTS
  Reader = {}
  ChanCap = 1
  LogLimit = 3
  Margin = 2
  PageSize = 2
  MaxEvents = 4
  MaxKills = 0
  MaxFaults = 0
  Faults = {}
PROPERTIES
  FollowComplete
CHECK_DEADLOCK FALSE
