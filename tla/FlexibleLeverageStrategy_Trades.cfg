SPECIFICATION Spec
CONSTANTS
  PreciseUnit <- MCUnit
  Prices = {15, 20, 25}
  Supplies = {20, 40}
  CollateralFactor = 15
  MaxCollateral = 36
  MaxBorrow = 24
  Exchanges = {x1}
  Methodologies <- MCImpatientMethodologies
  Executions <- MCImpatientExecutions
  Incentives <- MCTwoIncentives
  TradeSizes <- MCOneTradeSize
  InitialCollateral = 20
  MaxAge = 1
  MaxEther = 0
INVARIANTS DeleverFitsCompound
PROPERTIES LeverLeavesHeadroom TradesDoNotOvershoot
