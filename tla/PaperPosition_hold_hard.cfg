CONSTANTS
  Pnl <- HoldPnl
  Window = 2
  MinEvents = 2
  NoNewEvents = 9
  HardStop = 15
  TakeProfit = 200
  Activation = 50
  Distance = 50
  MaxHold = 1
  ProfitAt = 100
  ProfitPart = 30
  WeakAt = 50
  WeakPart = 50
  Moonbag = 10
  MlMinHold = 1
  Ladder <- Half
  HoldHard = TRUE
  MaxElapsed = 2
  MaxRestarts = 1
SPECIFICATION Spec
CHECK_DEADLOCK FALSE
INVARIANTS AdviceOnlySells
