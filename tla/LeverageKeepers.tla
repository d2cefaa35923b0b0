---------------------------- MODULE LeverageKeepers ----------------------------
(***************************************************************************)
(* Who runs FlexibleLeverageStrategyExtension: off-chain bots, and the     *)
(* contract src/contracts/keepers/FliRebalanceKeeper.sol that Chainlink's  *)
(* registry calls.  Each first reads what should be done (checkUpkeep, or  *)
(* the view shouldRebalance) and sends the transaction later, against      *)
(* whatever the state is by then.  The callers' permissions are those of   *)
(* src/contracts/lib/BaseExtension.sol.                                    *)
(*                                                                         *)
(* Which exchange the keeper's exchangeIndex names is left open: any that  *)
(* is enabled.                                                             *)
(***************************************************************************)
EXTENDS FlexibleLeverageStrategy

CONSTANTS
  Bots,                  \* externally owned accounts
  FliKeepers,            \* FliRebalanceKeeper contracts
  Node,                  \* the account of the registry's node operator
  LeverageSettings       \* custom bounds the keeper's owner may pass

ASSUME CallersAssumption == Bots \intersect FliKeepers = {} /\ Node \notin FliKeepers
ASSUME LeverageSettingsAssumption ==
  LeverageSettings \subseteq [customMinLeverageRatio : Nat, customMaxLeverageRatio : Nat]

VARIABLES
  anyoneCallable, callAllowList,   \* BaseExtension
  leverageSettings,                \* the same for every FliRebalanceKeeper
  performData                      \* what each keeper is about to call

permissionVars == <<anyoneCallable, callAllowList>>
keeperVars == <<permissionVars, leverageSettings, performData>>
allVars == <<vars, keeperVars>>

Keepers == Bots \union FliKeepers
NoUpkeep == [action |-> "NONE", exchange |-> "none"]
Upkeeps == [action : {"REBALANCE", "ITERATE_REBALANCE", "RIPCORD"}, exchange : Exchanges]

KeepersInit ==
  /\ Init
  /\ anyoneCallable = FALSE
  /\ callAllowList = {}
  /\ leverageSettings \in LeverageSettings
  /\ performData = [k \in Keepers |-> NoUpkeep]

-----------------------------------------------------------------------------
(* BaseExtension                                                           *)

(* tx.origin of a keeper's call                                            *)
originOf(k) == IF k \in FliKeepers THEN Node ELSE k

onlyEOA(k) == k = originOf(k)
isAllowedCaller(k) == anyoneCallable \/ k \in callAllowList

(* One caller at a time.                                                   *)
updateCallerStatus(k, status) ==
  /\ callAllowList' = IF status THEN callAllowList \union {k} ELSE callAllowList \ {k}
  /\ UNCHANGED <<vars, anyoneCallable, leverageSettings, performData>>

updateAnyoneCallable(status) ==
  /\ anyoneCallable' = status
  /\ UNCHANGED <<vars, callAllowList, leverageSettings, performData>>

-----------------------------------------------------------------------------
(* The keepers                                                             *)

(* The bounds a keeper asks about; shouldRebalanceWithBounds reverts when  *)
(* they are tighter than the methodology's.                                *)
minBound(k) == IF k \in FliKeepers THEN leverageSettings.customMinLeverageRatio
                                ELSE methodology.minLeverageRatio
maxBound(k) == IF k \in FliKeepers THEN leverageSettings.customMaxLeverageRatio
                                ELSE methodology.maxLeverageRatio
validBounds(k) == /\ minBound(k) <= methodology.minLeverageRatio
                  /\ maxBound(k) >= methodology.maxLeverageRatio

advice(k, e) == shouldRebalance(e, minBound(k), maxBound(k))

(* Mutant: there is always an upkeep.                                      *)
checkUpkeepAlways(k, e) ==
  /\ e \in enabledExchanges
  /\ validBounds(k)
  /\ advice(k, e) # "reverts"
  /\ performData' = [performData EXCEPT ![k] = [action |-> advice(k, e), exchange |-> e]]
  /\ UNCHANGED <<vars, permissionVars, leverageSettings>>
checkUpkeep(k, e) ==
  /\ e \in enabledExchanges
  /\ validBounds(k)
  /\ advice(k, e) # "reverts"
  /\ performData' = [performData EXCEPT ![k] =
       IF advice(k, e) = "NONE" THEN NoUpkeep ELSE [action |-> advice(k, e), exchange |-> e]]
  /\ UNCHANGED <<vars, permissionVars, leverageSettings>>

(* The transaction sent; one that reverts changes nothing and the keeper   *)
(* checks again.                                                           *)
(* Mutant: RIPCORD is not dispatched.                                      *)
performUpkeepNoRipcord(k) ==
  LET e == performData[k].exchange
  IN  /\ performData[k] # NoUpkeep
      /\ onlyEOA(k)
      /\ \/ performData[k].action = "REBALANCE" /\ isAllowedCaller(k) /\ rebalance(e)
         \/ performData[k].action = "ITERATE_REBALANCE" /\ isAllowedCaller(k)
              /\ iterateRebalance(e)
      /\ performData' = [performData EXCEPT ![k] = NoUpkeep]
      /\ UNCHANGED <<permissionVars, leverageSettings>>
performUpkeep(k) ==
  LET e == performData[k].exchange
  IN  /\ performData[k] # NoUpkeep
      /\ onlyEOA(k)
      /\ \/ performData[k].action = "REBALANCE" /\ isAllowedCaller(k) /\ rebalance(e)
         \/ performData[k].action = "ITERATE_REBALANCE" /\ isAllowedCaller(k)
              /\ iterateRebalance(e)
         \/ performData[k].action = "RIPCORD" /\ ripcord(e)
      /\ performData' = [performData EXCEPT ![k] = NoUpkeep]
      /\ UNCHANGED <<permissionVars, leverageSettings>>

setLeverageSettings(s) ==
  /\ leverageSettings' = s
  /\ UNCHANGED <<vars, permissionVars, performData>>

(* Anyone else, without having looked first.                               *)
outsiderCalls ==
  /\ \E e \in Exchanges :
       \/ ripcord(e)
       \/ anyoneCallable /\ (rebalance(e) \/ iterateRebalance(e))
  /\ UNCHANGED keeperVars

keeperSteps == \E k \in Keepers : performUpkeep(k) \/ \E e \in Exchanges : checkUpkeep(k, e)

ownerSteps ==
  \/ \E k \in Keepers, status \in BOOLEAN : updateCallerStatus(k, status)
  \/ \E status \in BOOLEAN : updateAnyoneCallable(status)
  \/ \E s \in LeverageSettings : setLeverageSettings(s)

clockTicks == timePasses /\ UNCHANGED keeperVars

KeepersNext ==
  \/ keeperSteps
  \/ outsiderCalls
  \/ ownerSteps
  \/ clockTicks
  \/ (operatorCalls \/ receive \/ market) /\ UNCHANGED keeperVars

KeepersSpec == KeepersInit /\ [][KeepersNext]_allVars

(* Blocks keep coming; a bot keeps looking, and sends the transaction that *)
(* it found to be due and that would go through.                           *)
Fairness ==
  /\ WF_allVars(clockTicks)
  /\ \A b \in Bots :
       /\ \A e \in Exchanges : WF_allVars(checkUpkeep(b, e))
       /\ WF_allVars(performUpkeep(b))

FairSpec == KeepersSpec /\ Fairness

-----------------------------------------------------------------------------
(* Properties                                                              *)

KeepersTypeOK ==
  /\ TypeOK
  /\ anyoneCallable \in BOOLEAN
  /\ callAllowList \in SUBSET Keepers
  /\ leverageSettings \in LeverageSettings
  /\ performData \in [Keepers -> Upkeeps \union {NoUpkeep}]

(* Advice that has gone stale does no harm.  What a keeper executes is     *)
(* what shouldRebalance would tell at the moment of the transaction,       *)
(* whichever keepers, prices and settings came in between: no second       *)
(* rebalance in an epoch, none while a TWAP runs, no ripcord when the      *)
(* leverage has come down.  (Out of bounds a TWAP may be iterated although *)
(* shouldRebalance waits for the cooldown.)                                *)
StaleUpkeepIsRefused ==
  [][\A k \in Keepers : performUpkeep(k) =>
       LET u == performData[k]
       IN  \/ signal(u.exchange) = u.action
           \/ /\ u.action = "ITERATE_REBALANCE" /\ signal(u.exchange) = "NONE"
              /\ twapLeverageRatio # 0
              /\ outsideBounds(methodology.minLeverageRatio,
                               methodology.maxLeverageRatio)]_allVars

(* A chunk that the extension can compute, that is worth a unit, and whose *)
(* least proceeds the debt can take.                                       *)
chunkTrades(newRatio, isLever, maxTradeSize, slippage) ==
  LET units == collateralUnits(chunkRebalanceNotional(newRatio, isLever, maxTradeSize))
  IN  /\ chunkIsDefined(newRatio, isLever)
      /\ IF isLever THEN validQuantity(borrowUnits(units))
                    ELSE /\ validQuantity(units)
                         /\ lessSlippage(borrowUnits(units), slippage) <= borrow

(* Nothing a keeper sends on e goes through, and waiting does not help:    *)
(* the position is gone or insolvent, its debt is above the net borrow     *)
(* limit, or the chunk rounds to nothing.                                  *)
ripcordBlocked(e) ==
  \/ ~ leveraged(exchangeSettings[e].incentivizedTwapMaxTradeSize)
  \/ ~ chunkTrades(methodology.maxLeverageRatio, FALSE,
                   exchangeSettings[e].incentivizedTwapMaxTradeSize,
                   incentive.incentivizedSlippageTolerance)
iterateBlocked(e) ==
  \/ ~ leveraged(exchangeSettings[e].twapMaxTradeSize)
  \/ /\ ~ isAdvantageousTWAP
     /\ ~ chunkTrades(twapLeverageRatio, isLeverTo(twapLeverageRatio),
                      exchangeSettings[e].twapMaxTradeSize, execution.slippageTolerance)
isIncentivized == solvent /\ currentLeverageRatio >= incentive.incentivizedLeverageRatio
someBotIsAllowed == \E b \in Bots : isAllowedCaller(b)
blocked ==
  \A e \in enabledExchanges :
    IF isIncentivized THEN ripcordBlocked(e)
                      ELSE iterateBlocked(e) \/ ~ someBotIsAllowed

(* From some point on only the callers of keeper functions and the clock   *)
(* move.                                                                   *)
Quiet == <>[][keeperSteps \/ outsiderCalls \/ clockTicks]_allVars

(* A TWAP in progress ends (and with it the freeze of the settings and of  *)
(* the ETH), or its position cannot be traded at all: in a quiet market    *)
(* the chunks always reach the stored ratio or pass it, and no combination *)
(* of cooldowns, Compound's limits and roundings stops them elsewhere.     *)
TwapEnds == Quiet => ((twapLeverageRatio # 0) ~> (twapLeverageRatio = 0 \/ blocked))

(* Leverage at or above the incentivized ratio is brought below it by      *)
(* ripcords, or the position cannot be traded at all.                      *)
HighLeverageFalls == Quiet => (isIncentivized ~> (~ isIncentivized \/ blocked))

(* "Chainlink Keeper which automatically rebalances FLI SetTokens": while  *)
(* the requirements of the call hold and the operator allows the keeper,   *)
(* performUpkeep goes through.  Not so: the extension takes rebalances     *)
(* from externally owned accounts only, and the keeper is a contract.      *)
KeeperMayRebalance ==
  \A k \in FliKeepers :
    LET u == performData[k]
    IN  /\ k \in callAllowList
        /\ \/ u.action = "REBALANCE" /\ validRebalance(u.exchange)
           \/ u.action = "ITERATE_REBALANCE" /\ validIterate(u.exchange)
           \/ u.action = "RIPCORD" /\ validRipcord(u.exchange)
        => onlyEOA(k)
=============================================================================
