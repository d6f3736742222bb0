SPECIFICATION FairSpec
CONSTANTS
  File = {f1}
  Port = {p1}
  EventBuffer = 1
PROPERTY
  BootBounded
CHECK_DEADLOCK FALSE
