CONSTANTS
  Configs = {live}
  Mints = {m1, m2}
  Cap = 1
  TickEnabled = TRUE
  DbMayFail = TRUE
  MaxRestarts = 2
SPECIFICATION Spec
CHECK_DEADLOCK FALSE
SYMMETRY Symmetry
INVARIANTS SlotAccounting SlotBound CloseOnce HonestExpiry
