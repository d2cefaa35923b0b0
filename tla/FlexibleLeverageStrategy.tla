----------------------- MODULE FlexibleLeverageStrategy -----------------------
(***************************************************************************)
(* src/contracts/adapters/FlexibleLeverageStrategyExtension.sol: the       *)
(* extension that keeps a SetToken's leverage between two bounds by        *)
(* trading through CompoundLeverageModule, in chunks (a TWAP) when one     *)
(* trade would be too large.  A reverted transaction is a step that is not *)
(* taken.  Who may call (operator, allowed callers, EOAs) is left out.     *)
(*                                                                         *)
(* A timestamp is kept as its age, the time since it was written: the code *)
(* only asks whether an age exceeds a period, so ages stop at MaxAge, one  *)
(* above every period.  The timestamp 0 has age MaxAge.                    *)
(***************************************************************************)
EXTENDS CompoundLeverageModule

CONSTANTS
  Exchanges,             \* names of exchanges
  Methodologies,         \* MethodologySettings the operator may pass
  Executions,            \* ExecutionSettings
  Incentives,            \* IncentiveSettings
  TradeSizes,            \* ExchangeSettings, without call data and timestamp
  InitialCollateral,     \* collateral units before the first engage
  MaxAge,                \* ages saturate here
  MaxEther               \* bound on the ETH held by this contract

MethodologySettings ==
  [targetLeverageRatio : Nat, minLeverageRatio : Nat, maxLeverageRatio : Nat,
   recenteringSpeed : Nat, rebalanceInterval : Nat]
ExecutionSettings ==
  [unutilizedLeveragePercentage : Nat, twapCooldownPeriod : Nat,
   slippageTolerance : Nat]
IncentiveSettings ==
  [etherReward : Nat, incentivizedLeverageRatio : Nat,
   incentivizedSlippageTolerance : Nat, incentivizedTwapCooldownPeriod : Nat]
ExchangeSettings ==
  [twapMaxTradeSize : Nat, incentivizedTwapMaxTradeSize : Nat]

ASSUME MethodologiesAssumption == Methodologies \subseteq MethodologySettings
ASSUME ExecutionsAssumption == Executions \subseteq ExecutionSettings
ASSUME IncentivesAssumption == Incentives \subseteq IncentiveSettings
ASSUME TradeSizesAssumption == TradeSizes \subseteq ExchangeSettings
ASSUME InitialCollateralAssumption == InitialCollateral \in 0 .. MaxCollateral
ASSUME MaxEtherAssumption == MaxEther \in Nat
ASSUME MaxAgeAssumption ==
  /\ MaxAge \in Nat
  /\ \A m \in Methodologies : m.rebalanceInterval < MaxAge
  /\ \A x \in Executions : x.twapCooldownPeriod < MaxAge
  /\ \A i \in Incentives : i.incentivizedTwapCooldownPeriod < MaxAge

VARIABLES
  methodology, execution, incentive,
  exchangeSettings,       \* ExchangeSettings of every name, NotEnabled by default
  exchangeAge,            \* age of exchangeLastTradeTimestamp of every name
  enabledExchanges,
  twapLeverageRatio,      \* target between the trades of a TWAP, 0 outside one
  globalAge,              \* age of globalLastTradeTimestamp
  etherBalance

settingVars == <<methodology, execution, incentive>>
exchangeVars == <<exchangeSettings, enabledExchanges>>
ageVars == <<exchangeAge, globalAge>>
vars == <<positionVars, marketVars, settingVars, exchangeVars, ageVars,
          twapLeverageRatio, etherBalance>>

NotEnabled == [twapMaxTradeSize |-> 0, incentivizedTwapMaxTradeSize |-> 0]

-----------------------------------------------------------------------------
(* Validation of settings                                                  *)

(* _validateNonExchangeSettings                                            *)
validSettings(m, x, i) ==
  /\ m.minLeverageRatio <= m.targetLeverageRatio
  /\ m.minLeverageRatio > 0
  /\ m.maxLeverageRatio >= m.targetLeverageRatio
  /\ m.recenteringSpeed \in 1 .. PreciseUnit
  /\ x.unutilizedLeveragePercentage <= PreciseUnit
  /\ x.slippageTolerance <= PreciseUnit
  /\ i.incentivizedSlippageTolerance <= PreciseUnit
  /\ i.incentivizedLeverageRatio >= m.maxLeverageRatio
  /\ m.rebalanceInterval >= x.twapCooldownPeriod
  /\ x.twapCooldownPeriod >= i.incentivizedTwapCooldownPeriod

validExchangeSettings(s) == s.twapMaxTradeSize # 0

(* Mutant: the modifier is forgotten.                                      *)
noRebalanceInProgressUnchecked == TRUE
noRebalanceInProgress == twapLeverageRatio = 0

Init ==
  /\ collateral = InitialCollateral /\ borrow = 0
  /\ collateralPrice \in Prices /\ setTotalSupply \in Supplies
  /\ methodology \in Methodologies /\ execution \in Executions
  /\ incentive \in Incentives
  /\ validSettings(methodology, execution, incentive)
  /\ enabledExchanges \in SUBSET Exchanges
  /\ exchangeSettings \in [Exchanges -> TradeSizes \union {NotEnabled}]
  /\ \A e \in Exchanges :
       IF e \in enabledExchanges THEN validExchangeSettings(exchangeSettings[e])
                                 ELSE exchangeSettings[e] = NotEnabled
  /\ exchangeAge = [e \in Exchanges |-> MaxAge]
  /\ twapLeverageRatio = 0
  /\ globalAge = MaxAge
  /\ etherBalance = 0

-----------------------------------------------------------------------------
(* _createActionInfo: what the oracles, Compound and the SetToken report   *)

collateralBalance == preciseMul(collateral, setTotalSupply)
borrowBalance == preciseMul(borrow, setTotalSupply)
collateralValue == preciseMul(collateralPrice, collateralBalance)
borrowValue == preciseMul(PreciseUnit, borrowBalance)

(* _calculateCurrentLeverageRatio reverts unless the position is solvent.  *)
solvent == collateralValue > borrowValue
currentLeverageRatio == preciseDiv(collateralValue, collateralValue - borrowValue)

(* _calculateNewLeverageRatio                                              *)
newLeverageRatio ==
  LET a == preciseMul(methodology.targetLeverageRatio, methodology.recenteringSpeed)
      b == preciseMul(PreciseUnit - methodology.recenteringSpeed, currentLeverageRatio)
  IN  maxOf(methodology.minLeverageRatio, minOf(a + b, methodology.maxLeverageRatio))

(* _calculateMaxBorrowCollateral; its subtraction reverts unless the debt  *)
(* is within the net borrow limit, and its division when the limit is 0.   *)
netBorrowLimit ==
  preciseMul(preciseMul(collateralValue, CollateralFactor),
             PreciseUnit - execution.unutilizedLeveragePercentage)
withinBorrowLimit == netBorrowLimit >= borrowValue
(* Mutants: existing debt does not count, for a lever and for a delever.   *)
maxBorrowCollateralLeverAll(isLever) ==
  IF isLever
    THEN preciseDiv(netBorrowLimit, collateralPrice)
    ELSE preciseDiv(preciseMul(collateralBalance, netBorrowLimit - borrowValue),
                    netBorrowLimit)
maxBorrowCollateralDeleverAll(isLever) ==
  IF isLever
    THEN preciseDiv(netBorrowLimit - borrowValue, collateralPrice)
    ELSE collateralBalance
maxBorrowCollateral(isLever) ==
  IF isLever
    THEN preciseDiv(netBorrowLimit - borrowValue, collateralPrice)
    ELSE preciseDiv(preciseMul(collateralBalance, netBorrowLimit - borrowValue),
                    netBorrowLimit)

(* _calculateChunkRebalanceNotional                                        *)
totalRebalanceNotional(newRatio, isLever) ==
  LET difference == IF isLever THEN newRatio - currentLeverageRatio
                               ELSE currentLeverageRatio - newRatio
  IN  preciseMul(preciseDiv(difference, currentLeverageRatio), collateralBalance)
(* Mutant: only Compound and the trade size limit a trade.                 *)
chunkRebalanceNotionalOfLimits(newRatio, isLever, maxTradeSize) ==
  minOf(maxBorrowCollateral(isLever), maxTradeSize)
chunkRebalanceNotional(newRatio, isLever, maxTradeSize) ==
  minOf(minOf(maxBorrowCollateral(isLever), totalRebalanceNotional(newRatio, isLever)),
        maxTradeSize)
chunkIsDefined(newRatio, isLever) ==
  /\ IF isLever THEN newRatio >= currentLeverageRatio
                ELSE newRatio <= currentLeverageRatio
  /\ withinBorrowLimit
  /\ ~ isLever => netBorrowLimit > 0

-----------------------------------------------------------------------------
(* Trades                                                                  *)

collateralUnits(notional) == preciseDiv(notional, setTotalSupply)
borrowUnits(units) == preciseDiv(preciseMul(units, collateralPrice), PreciseUnit)
lessSlippage(units, slippage) == preciseMul(units, PreciseUnit - slippage)

(* _lever and _delever of a notional amount of collateral.                 *)
leverNotional(notional, slippage) ==
  LET units == collateralUnits(notional)
  IN  lever(borrowUnits(units), lessSlippage(units, slippage))
deleverNotional(notional, slippage) ==
  LET units == collateralUnits(notional)
  IN  delever(units, lessSlippage(borrowUnits(units), slippage))

tradeTo(newRatio, isLever, maxTradeSize, slippage) ==
  LET chunk == chunkRebalanceNotional(newRatio, isLever, maxTradeSize)
  IN  /\ chunkIsDefined(newRatio, isLever)
      /\ IF isLever THEN leverNotional(chunk, slippage)
                    ELSE deleverNotional(chunk, slippage)

(* A trade on e to newRatio leaves some of the rebalance to do.            *)
isChunked(newRatio, isLever, e) ==
  chunkRebalanceNotional(newRatio, isLever, exchangeSettings[e].twapMaxTradeSize)
    < totalRebalanceNotional(newRatio, isLever)

(* _handleRebalance                                                        *)
isLeverTo(newRatio) == newRatio >= currentLeverageRatio
handleRebalance(e, newRatio) ==
  tradeTo(newRatio, isLeverTo(newRatio), exchangeSettings[e].twapMaxTradeSize,
          execution.slippageTolerance)

(* _updateLastTradeTimestamp                                               *)
(* Mutant: only the exchange's timestamp is written.                       *)
updateLastTradeTimestampLocal(e) ==
  /\ globalAge' = globalAge
  /\ exchangeAge' = [exchangeAge EXCEPT ![e] = 0]
updateLastTradeTimestamp(e) ==
  /\ globalAge' = 0
  /\ exchangeAge' = [exchangeAge EXCEPT ![e] = 0]

-----------------------------------------------------------------------------
(* Requirements of the functions                                           *)

(* _getAndValidateLeveragedInfo                                            *)
leveraged(maxTradeSize) ==
  /\ maxTradeSize > 0
  /\ setTotalSupply > 0
  /\ collateralBalance > 0
  /\ borrowBalance > 0
  /\ solvent

outsideBounds(minRatio, maxRatio) ==
  currentLeverageRatio > maxRatio \/ currentLeverageRatio < minRatio

(* _validateNormalRebalance                                                *)
validNormalRebalance(coolDown, age) ==
  /\ currentLeverageRatio < incentive.incentivizedLeverageRatio
  /\ \/ age > coolDown
     \/ outsideBounds(methodology.minLeverageRatio, methodology.maxLeverageRatio)

(* Mutant: a TWAP in progress is not looked at.                            *)
validRebalanceInTwap(e) ==
  /\ leveraged(exchangeSettings[e].twapMaxTradeSize)
  /\ validNormalRebalance(methodology.rebalanceInterval, globalAge)
validRebalance(e) ==
  /\ leveraged(exchangeSettings[e].twapMaxTradeSize)
  /\ validNormalRebalance(methodology.rebalanceInterval, globalAge)
  /\ twapLeverageRatio = 0

validIterate(e) ==
  /\ leveraged(exchangeSettings[e].twapMaxTradeSize)
  /\ validNormalRebalance(execution.twapCooldownPeriod, exchangeAge[e])
  /\ twapLeverageRatio > 0

(* _validateRipcord                                                        *)
validRipcord(e) ==
  /\ leveraged(exchangeSettings[e].incentivizedTwapMaxTradeSize)
  /\ currentLeverageRatio >= incentive.incentivizedLeverageRatio
  /\ exchangeAge[e] > incentive.incentivizedTwapCooldownPeriod

(* Mutant: the second comparison the wrong way round.                      *)
isAdvantageousTWAPSwapped ==
  \/ /\ twapLeverageRatio < methodology.targetLeverageRatio
     /\ currentLeverageRatio >= twapLeverageRatio
  \/ /\ twapLeverageRatio > methodology.targetLeverageRatio
     /\ currentLeverageRatio >= twapLeverageRatio
isAdvantageousTWAP ==
  \/ /\ twapLeverageRatio < methodology.targetLeverageRatio
     /\ currentLeverageRatio >= twapLeverageRatio
  \/ /\ twapLeverageRatio > methodology.targetLeverageRatio
     /\ currentLeverageRatio <= twapLeverageRatio

(* _transferEtherRewardToCaller                                            *)
(* Mutant: the balance is not looked at.                                   *)
etherToTransferUncapped == incentive.etherReward
etherToTransfer == minOf(incentive.etherReward, etherBalance)

-----------------------------------------------------------------------------
(* External functions                                                      *)

(* The code takes 1x for the current ratio, which is what it is without    *)
(* debt.  On a name that is not enabled, or when the collateral is worth   *)
(* nothing, the chunk is 0, which the module refuses.                      *)
engage(e) ==
  LET target == methodology.targetLeverageRatio
  IN  /\ setTotalSupply > 0 /\ collateralBalance > 0 /\ borrowBalance = 0
      /\ solvent
      /\ tradeTo(target, TRUE, exchangeSettings[e].twapMaxTradeSize,
                 execution.slippageTolerance)
      /\ updateLastTradeTimestamp(e)
      /\ twapLeverageRatio' =
           IF isChunked(target, TRUE, e) THEN target ELSE twapLeverageRatio
      /\ UNCHANGED <<settingVars, exchangeVars, etherBalance>>

rebalance(e) ==
  /\ validRebalance(e)
  /\ handleRebalance(e, newLeverageRatio)
  /\ updateLastTradeTimestamp(e)
  /\ twapLeverageRatio' =
       IF isChunked(newLeverageRatio, isLeverTo(newLeverageRatio), e)
         THEN newLeverageRatio ELSE twapLeverageRatio
  /\ UNCHANGED <<settingVars, exchangeVars, etherBalance>>

(* Mutant: an advantageous TWAP is left as it is.                          *)
iterateRebalanceKeepsTarget(e) ==
  /\ validIterate(e)
  /\ IF isAdvantageousTWAP
       THEN UNCHANGED <<twapLeverageRatio, positionVars, marketVars>>
       ELSE /\ handleRebalance(e, twapLeverageRatio)
            /\ twapLeverageRatio' =
                 IF isChunked(twapLeverageRatio, isLeverTo(twapLeverageRatio), e)
                   THEN twapLeverageRatio ELSE 0
  /\ updateLastTradeTimestamp(e)
  /\ UNCHANGED <<settingVars, exchangeVars, etherBalance>>
iterateRebalance(e) ==
  /\ validIterate(e)
  /\ IF isAdvantageousTWAP
       THEN /\ twapLeverageRatio' = 0
            /\ UNCHANGED <<positionVars, marketVars>>
       ELSE /\ handleRebalance(e, twapLeverageRatio)
            /\ twapLeverageRatio' =
                 IF isChunked(twapLeverageRatio, isLeverTo(twapLeverageRatio), e)
                   THEN twapLeverageRatio ELSE 0
  /\ updateLastTradeTimestamp(e)
  /\ UNCHANGED <<settingVars, exchangeVars, etherBalance>>

ripcord(e) ==
  /\ validRipcord(e)
  /\ tradeTo(methodology.maxLeverageRatio, FALSE,
             exchangeSettings[e].incentivizedTwapMaxTradeSize,
             incentive.incentivizedSlippageTolerance)
  /\ updateLastTradeTimestamp(e)
  /\ twapLeverageRatio' = 0
  /\ etherBalance' = etherBalance - etherToTransfer
  /\ UNCHANGED <<settingVars, exchangeVars>>

(* No timestamp is written and a TWAP is not cleared.                      *)
disengage(e) ==
  LET maxTradeSize == exchangeSettings[e].twapMaxTradeSize
      chunk == chunkRebalanceNotional(PreciseUnit, FALSE, maxTradeSize)
      total == totalRebalanceNotional(PreciseUnit, FALSE)
      slippage == execution.slippageTolerance
  IN  /\ leveraged(maxTradeSize)
      /\ chunkIsDefined(PreciseUnit, FALSE)
      /\ IF total > chunk
           THEN deleverNotional(chunk, slippage)
           ELSE deleverToZeroBorrowBalance(
                  collateralUnits(preciseMul(total, PreciseUnit + slippage)))
      /\ UNCHANGED <<settingVars, exchangeVars, ageVars, twapLeverageRatio,
                     etherBalance>>

setMethodologySettings(m) ==
  /\ noRebalanceInProgress
  /\ validSettings(m, execution, incentive)
  /\ methodology' = m
  /\ UNCHANGED <<positionVars, marketVars, execution, incentive, exchangeVars,
                 ageVars, twapLeverageRatio, etherBalance>>

setExecutionSettings(x) ==
  /\ noRebalanceInProgress
  /\ validSettings(methodology, x, incentive)
  /\ execution' = x
  /\ UNCHANGED <<positionVars, marketVars, methodology, incentive, exchangeVars,
                 ageVars, twapLeverageRatio, etherBalance>>

setIncentiveSettings(i) ==
  /\ noRebalanceInProgress
  /\ validSettings(methodology, execution, i)
  /\ incentive' = i
  /\ UNCHANGED <<positionVars, marketVars, methodology, execution, exchangeVars,
                 ageVars, twapLeverageRatio, etherBalance>>

addEnabledExchange(e, s) ==
  /\ exchangeSettings[e].twapMaxTradeSize = 0
  /\ validExchangeSettings(s)
  /\ exchangeSettings' = [exchangeSettings EXCEPT ![e] = s]
  /\ exchangeAge' = [exchangeAge EXCEPT ![e] = MaxAge]
  /\ enabledExchanges' = enabledExchanges \union {e}
  /\ UNCHANGED <<positionVars, marketVars, settingVars, globalAge,
                 twapLeverageRatio, etherBalance>>

removeEnabledExchange(e) ==
  /\ exchangeSettings[e].twapMaxTradeSize # 0
  /\ exchangeSettings' = [exchangeSettings EXCEPT ![e] = NotEnabled]
  /\ exchangeAge' = [exchangeAge EXCEPT ![e] = MaxAge]
  /\ enabledExchanges' = enabledExchanges \ {e}
  /\ UNCHANGED <<positionVars, marketVars, settingVars, globalAge,
                 twapLeverageRatio, etherBalance>>

(* exchangeLastTradeTimestamp is preserved.                                *)
updateEnabledExchange(e, s) ==
  /\ exchangeSettings[e].twapMaxTradeSize # 0
  /\ validExchangeSettings(s)
  /\ exchangeSettings' = [exchangeSettings EXCEPT ![e] = s]
  /\ UNCHANGED <<positionVars, marketVars, settingVars, enabledExchanges, ageVars,
                 twapLeverageRatio, etherBalance>>

withdrawEtherBalance ==
  /\ noRebalanceInProgress
  /\ etherBalance' = 0
  /\ UNCHANGED <<positionVars, marketVars, settingVars, exchangeVars, ageVars,
                 twapLeverageRatio>>

receive ==
  /\ etherBalance < MaxEther
  /\ etherBalance' = etherBalance + 1
  /\ UNCHANGED <<positionVars, marketVars, settingVars, exchangeVars, ageVars,
                 twapLeverageRatio>>

-----------------------------------------------------------------------------
(* The environment                                                         *)

older(age) == minOf(age + 1, MaxAge)
timePasses ==
  /\ globalAge' = older(globalAge)
  /\ exchangeAge' = [e \in Exchanges |-> older(exchangeAge[e])]
  /\ UNCHANGED <<positionVars, marketVars, settingVars, exchangeVars,
                 twapLeverageRatio, etherBalance>>

market ==
  /\ latestAnswer \/ issueOrRedeem
  /\ UNCHANGED <<settingVars, exchangeVars, ageVars, twapLeverageRatio, etherBalance>>

keeperCalls == \E e \in Exchanges : rebalance(e) \/ iterateRebalance(e) \/ ripcord(e)

operatorCalls ==
  \/ \E e \in Exchanges :
       \/ engage(e) \/ disengage(e) \/ removeEnabledExchange(e)
       \/ \E s \in TradeSizes : addEnabledExchange(e, s) \/ updateEnabledExchange(e, s)
  \/ \E m \in Methodologies : setMethodologySettings(m)
  \/ \E x \in Executions : setExecutionSettings(x)
  \/ \E i \in Incentives : setIncentiveSettings(i)
  \/ withdrawEtherBalance

Next == keeperCalls \/ operatorCalls \/ receive \/ timePasses \/ market

Spec == Init /\ [][Next]_vars

-----------------------------------------------------------------------------
(* The view the keepers act on                                             *)

(* _shouldRebalance for one exchange, between bounds given by the caller.  *)
(* Mutant: at the incentivized ratio itself, not yet RIPCORD.              *)
shouldRebalanceStrict(e, minRatio, maxRatio) ==
  IF ~ solvent THEN "reverts"
  ELSE IF currentLeverageRatio > incentive.incentivizedLeverageRatio
    THEN IF exchangeAge[e] > incentive.incentivizedTwapCooldownPeriod
           THEN "RIPCORD" ELSE "NONE"
  ELSE IF twapLeverageRatio > 0
    THEN IF exchangeAge[e] > execution.twapCooldownPeriod
           THEN "ITERATE_REBALANCE" ELSE "NONE"
  ELSE IF globalAge > methodology.rebalanceInterval \/ outsideBounds(minRatio, maxRatio)
    THEN "REBALANCE" ELSE "NONE"

shouldRebalance(e, minRatio, maxRatio) ==
  IF ~ solvent THEN "reverts"
  ELSE IF currentLeverageRatio >= incentive.incentivizedLeverageRatio
    THEN IF exchangeAge[e] > incentive.incentivizedTwapCooldownPeriod
           THEN "RIPCORD" ELSE "NONE"
  ELSE IF twapLeverageRatio > 0
    THEN IF exchangeAge[e] > execution.twapCooldownPeriod
           THEN "ITERATE_REBALANCE" ELSE "NONE"
  ELSE IF globalAge > methodology.rebalanceInterval \/ outsideBounds(minRatio, maxRatio)
    THEN "REBALANCE" ELSE "NONE"

-----------------------------------------------------------------------------
(* Properties                                                              *)

(* Every variable has its type; in particular a debt never goes below 0    *)
(* and a reward is never larger than the ETH held.                         *)
TypeOK ==
  /\ PositionTypeOK
  /\ methodology \in Methodologies
  /\ execution \in Executions
  /\ incentive \in Incentives
  /\ exchangeSettings \in [Exchanges -> TradeSizes \union {NotEnabled}]
  /\ enabledExchanges \in SUBSET Exchanges
  /\ exchangeAge \in [Exchanges -> 0 .. MaxAge]
  /\ globalAge \in 0 .. MaxAge
  /\ twapLeverageRatio \in Nat
  /\ etherBalance \in 0 .. MaxEther

(* The target of a TWAP lies within the bounds of the methodology in force *)
(* although it was stored by an earlier call: nobody moves the bounds away *)
(* under it, and every way of storing it (engage, rebalance) clamps it.    *)
TwapWithinBounds ==
  twapLeverageRatio # 0 =>
    twapLeverageRatio \in methodology.minLeverageRatio .. methodology.maxLeverageRatio

(* No exchange has traded later than the global timestamp says, whatever   *)
(* exchanges are added, updated and removed meanwhile: the epoch           *)
(* rebalance's interval covers the trades of all exchanges.                *)
GlobalIsLatest == \A e \in Exchanges : exchangeAge[e] >= globalAge

(* The settings in force satisfy the validation together, although each    *)
(* setter replaces one of them.                                            *)
SettingsValid == validSettings(methodology, execution, incentive)

(* enabledExchanges lists the names with a trade size, by which the code   *)
(* tells whether an exchange is enabled.                                   *)
EnabledHaveSizes ==
  enabledExchanges = {e \in Exchanges : exchangeSettings[e].twapMaxTradeSize # 0}

(* The trades of a TWAP do not undo one another: while its target is above *)
(* the methodology's, iterateRebalance never borrows, and while it is      *)
(* below, never repays, wherever the price went since it was stored.       *)
TwapKeepsDirection ==
  [][(\E e \in Exchanges : iterateRebalance(e)) =>
       /\ twapLeverageRatio > methodology.targetLeverageRatio => borrow' <= borrow
       /\ twapLeverageRatio < methodology.targetLeverageRatio => borrow' >= borrow]_vars

(* After a trade that borrows, the debt is within the net borrow limit: the *)
(* unutilized part of what Compound would lend is still there.             *)
LeverLeavesHeadroom == [][borrow' > borrow => borrowValue' <= netBorrowLimit']_vars

(* The collateral a delever takes out before it repays.                    *)
deleverFits(newRatio, maxTradeSize) ==
  LET units == collateralUnits(chunkRebalanceNotional(newRatio, FALSE, maxTradeSize))
  IN  units <= collateral /\ compoundAllows(collateral - units, borrow)

(* Compound never refuses the collateral that rebalance and ripcord take   *)
(* out while the debt is within the net borrow limit: the chunk computed   *)
(* from the limit is small enough, roundings included.                     *)
DeleverFitsCompound ==
  \A e \in Exchanges :
    /\ validRipcord(e) /\ withinBorrowLimit =>
         deleverFits(methodology.maxLeverageRatio,
                     exchangeSettings[e].incentivizedTwapMaxTradeSize)
    /\ validRebalance(e) /\ withinBorrowLimit /\ ~ isLeverTo(newLeverageRatio) =>
         deleverFits(newLeverageRatio, exchangeSettings[e].twapMaxTradeSize)

(* The collateral and the debt that leverage newRatio means for the equity *)
(* of the position.  What _calculateChunkRebalanceNotional computes from a *)
(* current ratio that is rounded down may miss the debt by one unit of     *)
(* this ratio and a unit of the asset, each in proportion to the increase; *)
(* the collateral it never misses.                                         *)
plannedCollateral(newRatio) == preciseMul(collateralValue - borrowValue, newRatio)
plannedDebt(newRatio) ==
  LET increase == newRatio \div currentLeverageRatio
  IN  preciseMul(collateralValue - borrowValue, newRatio - PreciseUnit + increase + 1)
        + increase + 1

(* The step sells collateral and keeps what is planned, or borrows and     *)
(* ends with no more debt than planned.                                    *)
stopsAt(newRatio) ==
  /\ collateral' < collateral => collateralValue' >= plannedCollateral(newRatio)
  /\ borrow' > borrow => borrowValue' <= plannedDebt(newRatio)

(* At the price it was computed for, a trade does not overshoot the ratio  *)
(* it aims at: whether the exchange gives the oracle price or the least it *)
(* may, whatever the supply, and however a TWAP is chunked.                *)
TradesDoNotOvershoot ==
  [][\A e \in Exchanges :
       /\ engage(e) => stopsAt(methodology.targetLeverageRatio)
       /\ rebalance(e) => stopsAt(newLeverageRatio)
       /\ iterateRebalance(e) => stopsAt(twapLeverageRatio)
       /\ ripcord(e) => stopsAt(methodology.maxLeverageRatio)]_vars

signal(e) == shouldRebalance(e, methodology.minLeverageRatio, methodology.maxLeverageRatio)

(* What shouldRebalance tells the keepers agrees with the requirements of  *)
(* the functions, written a second time there: while there is debt, an     *)
(* enabled exchange is told REBALANCE exactly when rebalance's             *)
(* requirements hold, RIPCORD exactly when ripcord's do (if the exchange   *)
(* has a size for it), and ITERATE_REBALANCE only when iterateRebalance's  *)
(* do.                                                                     *)
SignalsAreActionable ==
  \A e \in enabledExchanges :
    leveraged(exchangeSettings[e].twapMaxTradeSize) =>
      /\ signal(e) = "REBALANCE" <=> validRebalance(e)
      /\ signal(e) = "ITERATE_REBALANCE" => validIterate(e)
      /\ signal(e) = "RIPCORD" /\ exchangeSettings[e].incentivizedTwapMaxTradeSize > 0
           <=> validRipcord(e)
=============================================================================
