CONSTANTS
  Pnl <- FewPnl
  Window = 3
  MinEvents = 2
  NoNewEvents = 3
  HardStop = 15
  TakeProfit = 300
  Activation = 50
  Distance = 50
  MaxHold = 2
  ProfitAt = 100
  ProfitPart = 30
  WeakAt = 50
  WeakPart = 50
  Moonbag = 10
  MlMinHold = 1
  Ladder <- Fractions
  HoldHard = FALSE
  MaxElapsed = 3
  MaxRestarts = 0
SPECIFICATION Spec
CHECK_DEADLOCK FALSE
INVARIANTS SameRemainder BookedIsEarned
PROPERTIES TrailingStands
