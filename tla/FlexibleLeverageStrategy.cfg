SPECIFICATION Spec
CONSTANTS
  PreciseUnit <- MCUnit
  Prices = {16, 20, 24}
  Supplies = {0, 20}
  CollateralFactor = 15
  MaxCollateral = 40
  MaxBorrow = 40
  Exchanges = {x1, x2}
  Methodologies <- MCMethodologies
  Executions <- MCExecutions
  Incentives <- MCIncentives
  TradeSizes <- MCTradeSizes
  InitialCollateral = 10
  MaxAge = 2
  MaxEther = 1
SYMMETRY MCSymmetry
INVARIANTS TypeOK TwapWithinBounds GlobalIsLatest SignalsAreActionable
PROPERTIES TwapKeepsDirection
