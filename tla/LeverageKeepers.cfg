SPECIFICATION FairSpec
CONSTANTS
  PreciseUnit <- MCUnit
  Prices = {16, 24}
  Supplies = {20}
  CollateralFactor = 15
  MaxCollateral = 30
  MaxBorrow = 40
  Exchanges = {x1}
  Methodologies <- MCMethodologies
  Executions <- MCExecutions
  Incentives <- MCIncentives
  TradeSizes <- MCTradeSizes
  InitialCollateral = 13
  MaxAge = 2
  MaxEther = 0
  Bots = {b1}
  FliKeepers = {}
  Node = Node
  LeverageSettings <- MCLeverageSettings
INVARIANTS KeepersTypeOK
PROPERTIES StaleUpkeepIsRefused TwapEnds HighLeverageFalls
