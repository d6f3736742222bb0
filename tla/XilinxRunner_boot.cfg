SPECIFICATION FairSpec
CONSTANTS
  File = {f1, f2}
  Port = {p1}
  EventBuffer = 2
INVARIANTS
  SuccessMeansAllSent
  LeavesNothingBehind
PROPERTIES
  OnlyEventsHoldUp
CHECK_DEADLOCK FALSE
