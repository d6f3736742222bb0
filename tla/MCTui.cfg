SPECIFICATION Spec
CONSTANTS
  Server = {u1, u2}
  Target = {t1, t2}
  None = none
  MaxKeys = 1
  MaxEvents = 2
  MaxPolls = 2
  PageSize = 1
SYMMETRY Symmetry
INVARIANTS
  NothingForgotten
  ConfirmedTarget
  LogInOrder
CHECK_DEADLOCK FALSE
