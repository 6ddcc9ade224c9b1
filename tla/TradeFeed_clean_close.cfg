CONSTANTS
  Mints = {m1}
  Readers = {}
  MaxAttempts = 2
  MaxQueues = 1
  MaxTrades = 0
  MaxLosses = 1
SPECIFICATION FairSpec
CHECK_DEADLOCK FALSE
PROPERTY ClosedIsReplaced
