CONSTANTS
  Mints = {m1, m2}
  Readers = {handler, monitor}
  MaxAttempts = 2
  MaxQueues = 2
  MaxTrades = 2
  MaxLosses = 2
SPECIFICATION FairSpec
CHECK_DEADLOCK FALSE
INVARIANTS Resubscribed EachTradeOnce
PROPERTY ErrorIsReplaced
