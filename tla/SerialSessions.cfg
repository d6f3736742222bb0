SPECIFICATION FairSessions
CONSTANTS
  Session = {s1}
  Socket = {k1, k2, k3}
INVARIANTS
  NobodyForgets
PROPERTIES
  AttachmentsEnd
CHECK_DEADLOCK FALSE
