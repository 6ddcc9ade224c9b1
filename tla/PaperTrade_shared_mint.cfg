CONSTANTS
  Configs = {live, shadow}
  Mints = {m1}
  Cap = 1
  TickEnabled = TRUE
  DbMayFail = FALSE
  MaxRestarts = 1
SPECIFICATION FairSpec
CHECK_DEADLOCK FALSE
INVARIANTS OpenRowHasOwner StarvedBySibling
PROPERTIES ImplementsBook SlotEventuallyFreed
