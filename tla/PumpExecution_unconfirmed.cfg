CONSTANTS
  Calls = {c1, c2}
  SolLots = {2, 5}
  TokenLots = {4}
  Genesis <- SmallCurve
  FeeBps = 1000
  SlippageBps = 2000
  MaxMoves = 1
SPECIFICATION Spec
CHECK_DEADLOCK FALSE
INVARIANT SuccessIsConfirmed
SYMMETRY CallSymmetry
