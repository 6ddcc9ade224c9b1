CONSTANTS
  Configs = {live}
  Mints = {m1}
  Cap = 1
  TickEnabled = TRUE
  DbMayFail = FALSE
  MaxRestarts = 0
SPECIFICATION Spec
CHECK_DEADLOCK FALSE
INVARIANT FinishedMeansClosed
