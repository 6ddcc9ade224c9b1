CONSTANTS
  NumTrades = 3
  Syn <- Confusable
  QueueCap = 1
  LruCap = 6
  Clients = {c1, c2}
SPECIFICATION FairSpec
CHECK_DEADLOCK FALSE
INVARIANTS EmittedOnce NothingSwallowed
PROPERTY EitherSourceSuffices
