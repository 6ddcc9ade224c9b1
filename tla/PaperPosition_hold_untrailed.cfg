CONSTANTS
  Pnl <- FewPnl
  Window = 3
  MinEvents = 2
  NoNewEvents = 9
  HardStop = 15
  TakeProfit = 100
  Activation = 50
  Distance = 50
  MaxHold = 9
  ProfitAt = 200
  ProfitPart = 30
  WeakAt = 50
  WeakPart = 50
  Moonbag = 10
  MlMinHold = 1
  Ladder <- Fractions
  HoldHard = TRUE
  MaxElapsed = 3
  MaxRestarts = 0
SPECIFICATION Spec
CHECK_DEADLOCK FALSE
PROPERTIES TrailingStands
