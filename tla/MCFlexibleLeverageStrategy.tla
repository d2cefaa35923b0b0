---------------------- MODULE MCFlexibleLeverageStrategy ----------------------
(***************************************************************************)
(* The instances of FlexibleLeverageStrategy that TLC checks.  One precise *)
(* unit is 20: leverage 2x is 40.                                          *)
(***************************************************************************)
EXTENDS FlexibleLeverageStrategy, TLC

MCUnit == 20

Recentring ==
  [targetLeverageRatio |-> 40, minLeverageRatio |-> 34, maxLeverageRatio |-> 44,
   recenteringSpeed |-> 10, rebalanceInterval |-> 1]
(* At full speed the target of a TWAP is the target of the methodology.    *)
FullSpeed ==
  [targetLeverageRatio |-> 38, minLeverageRatio |-> 36, maxLeverageRatio |-> 40,
   recenteringSpeed |-> 20, rebalanceInterval |-> 1]
MCMethodologies == {Recentring, FullSpeed}
(* Without waiting: for the runs about trades.                             *)
MCImpatientMethodologies == {[m EXCEPT !.rebalanceInterval = 0] : m \in MCMethodologies}

Tight == [unutilizedLeveragePercentage |-> 1, twapCooldownPeriod |-> 1,
          slippageTolerance |-> 1]
Loose == [unutilizedLeveragePercentage |-> 4, twapCooldownPeriod |-> 0,
          slippageTolerance |-> 2]
MCExecutions == {Tight, Loose}
(* Loose keeps enough of the limit free for DeleversFit; Tight does not.    *)
MCImpatientExecutions == {[x EXCEPT !.twapCooldownPeriod = 0] : x \in MCExecutions}

Incentive(ratio, slippage) ==
  [etherReward |-> 1, incentivizedLeverageRatio |-> ratio,
   incentivizedSlippageTolerance |-> slippage, incentivizedTwapCooldownPeriod |-> 0]
(* The ratio 42 is refused while the maximum is above it.                 *)
MCIncentives == {Incentive(54, 2), Incentive(42, 2)}
MCTwoIncentives == {Incentive(50, 2), Incentive(46, 1)}

(* No size, an exchange that is not for ripcord, and one for larger trades.*)
MCTradeSizes ==
  {[twapMaxTradeSize |-> 0, incentivizedTwapMaxTradeSize |-> 4],
   [twapMaxTradeSize |-> 2, incentivizedTwapMaxTradeSize |-> 0],
   [twapMaxTradeSize |-> 4, incentivizedTwapMaxTradeSize |-> 8]}
MCOneTradeSize == {[twapMaxTradeSize |-> 4, incentivizedTwapMaxTradeSize |-> 8]}

MCSymmetry == Permutations(Exchanges)
=============================================================================
