--------------------------- MODULE MCLeverageKeepers ---------------------------
(***************************************************************************)
(* The instance of LeverageKeepers that TLC checks.  One precise unit is   *)
(* 20: leverage 2x is 40.                                                  *)
(***************************************************************************)
EXTENDS LeverageKeepers

MCUnit == 20

MCMethodologies ==
  {[targetLeverageRatio |-> 40, minLeverageRatio |-> 34, maxLeverageRatio |-> 44,
    recenteringSpeed |-> 10, rebalanceInterval |-> 1]}
MCExecutions ==
  {[unutilizedLeveragePercentage |-> 1, twapCooldownPeriod |-> 1, slippageTolerance |-> 1]}
MCIncentives ==
  {[etherReward |-> 0, incentivizedLeverageRatio |-> 52,
    incentivizedSlippageTolerance |-> 2, incentivizedTwapCooldownPeriod |-> 0]}
MCTradeSizes == {[twapMaxTradeSize |-> 2, incentivizedTwapMaxTradeSize |-> 4]}
MCLeverageSettings ==
  {[customMinLeverageRatio |-> 30, customMaxLeverageRatio |-> 46]}
=============================================================================
