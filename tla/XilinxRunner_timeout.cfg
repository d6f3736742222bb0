SPECIFICATION Spec
CONSTANTS
  File = {f1}
  Port = {p1}
  EventBuffer = 1
INVARIANT
  TimeoutIsTimeout
CHECK_DEADLOCK FALSE
