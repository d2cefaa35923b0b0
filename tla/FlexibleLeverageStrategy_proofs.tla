-------------------- MODULE FlexibleLeverageStrategy_proofs --------------------
(***************************************************************************)
(* Theorems about FlexibleLeverageStrategy, for every set of exchanges,    *)
(* settings, prices and supplies, every precise unit and every bound; and  *)
(* about LeverageKeepers, for any number of bots and keeper contracts.     *)
(***************************************************************************)
EXTENDS LeverageKeepers, TLAPS

-----------------------------------------------------------------------------
(* Fixed-point arithmetic                                                  *)

(* preciseMul and preciseDiv of naturals are naturals.                     *)
LEMMA MulIsNat ==
  ASSUME NEW a \in Nat, NEW b \in Nat
  PROVE  preciseMul(a, b) \in Nat
<1>1. a * b \in Nat
  OBVIOUS
<1>. QED
  BY <1>1, PreciseUnitAssumption DEF preciseMul

LEMMA DivIsNat ==
  ASSUME NEW a \in Nat, NEW b \in Nat \ {0}
  PROVE  preciseDiv(a, b) \in Nat
<1>1. a * PreciseUnit \in Nat
  BY PreciseUnitAssumption
<1>. QED
  BY <1>1 DEF preciseDiv

(* A quotient of at least one is at least one precise unit.                *)
LEMMA DivAtLeastUnit ==
  ASSUME NEW a \in Nat, NEW b \in Nat \ {0}, b <= a
  PROVE  preciseDiv(a, b) >= PreciseUnit
<1>1. PICK d \in Nat : a = b + d
  BY a - b \in Nat, a = b + (a - b)
<1>2. a * PreciseUnit = b * PreciseUnit + d * PreciseUnit
  BY <1>1, PreciseUnitAssumption
<1>3. d * PreciseUnit \in Nat /\ b * PreciseUnit \in Nat
  BY PreciseUnitAssumption
<1>4. (a * PreciseUnit) \div b >= PreciseUnit
  BY <1>2, <1>3, PreciseUnitAssumption
<1>. QED
  BY <1>4 DEF preciseDiv

-----------------------------------------------------------------------------
(* The inductive invariant                                                 *)

IInv == /\ TypeOK
        /\ SettingsValid
        /\ EnabledHaveSizes
        /\ TwapWithinBounds
        /\ GlobalIsLatest

(* What the types of the settings are, without the sets they come from.    *)
LEMMA SettingsFacts ==
  ASSUME TypeOK, SettingsValid
  PROVE  /\ methodology \in MethodologySettings
         /\ execution \in ExecutionSettings
         /\ incentive \in IncentiveSettings
         /\ execution.slippageTolerance \in 0 .. PreciseUnit
         /\ execution.unutilizedLeveragePercentage \in 0 .. PreciseUnit
         /\ incentive.incentivizedSlippageTolerance \in 0 .. PreciseUnit
         /\ methodology.recenteringSpeed \in 0 .. PreciseUnit
         /\ methodology.minLeverageRatio \in Nat \ {0}
         /\ methodology.targetLeverageRatio \in Nat
         /\ methodology.maxLeverageRatio \in Nat
         /\ methodology.minLeverageRatio <= methodology.targetLeverageRatio
         /\ methodology.targetLeverageRatio <= methodology.maxLeverageRatio
         /\ incentive.etherReward \in Nat
         /\ incentive.incentivizedLeverageRatio \in Nat
         /\ methodology.maxLeverageRatio <= incentive.incentivizedLeverageRatio
<1>1. /\ methodology \in MethodologySettings
      /\ execution \in ExecutionSettings
      /\ incentive \in IncentiveSettings
  BY MethodologiesAssumption, ExecutionsAssumption, IncentivesAssumption DEF TypeOK
<1>. QED
  BY <1>1, PreciseUnitAssumption
     DEF SettingsValid, validSettings, MethodologySettings, ExecutionSettings,
         IncentiveSettings

LEMMA SizesAreNat ==
  ASSUME TypeOK, NEW e \in Exchanges
  PROVE  /\ exchangeSettings[e].twapMaxTradeSize \in Nat
         /\ exchangeSettings[e].incentivizedTwapMaxTradeSize \in Nat
<1>1. exchangeSettings[e] \in TradeSizes \union {NotEnabled}
  BY DEF TypeOK
<1>. QED
  BY <1>1, TradeSizesAssumption DEF NotEnabled, ExchangeSettings

(* What the oracles and Compound report is natural.                        *)
LEMMA ActionInfoIsNat ==
  ASSUME TypeOK, SettingsValid
  PROVE  /\ collateral \in Nat /\ borrow \in Nat
         /\ collateralPrice \in Nat \ {0}
         /\ setTotalSupply \in Nat
         /\ collateralBalance \in Nat
         /\ borrowBalance \in Nat
         /\ collateralValue \in Nat
         /\ borrowValue \in Nat
         /\ netBorrowLimit \in Nat
<1>1. /\ collateral \in Nat /\ borrow \in Nat
      /\ collateralPrice \in Nat \ {0}
      /\ setTotalSupply \in Nat
  BY PricesAssumption, SuppliesAssumption, MaxPositionAssumption
     DEF TypeOK, PositionTypeOK
<1>2. collateralBalance \in Nat /\ borrowBalance \in Nat
  BY <1>1, MulIsNat DEF collateralBalance, borrowBalance
<1>3. PreciseUnit \in Nat
  BY PreciseUnitAssumption
<1>4. collateralValue \in Nat /\ borrowValue \in Nat
  BY <1>1, <1>2, <1>3, MulIsNat DEF collateralValue, borrowValue
<1>5. /\ CollateralFactor \in Nat
      /\ PreciseUnit - execution.unutilizedLeveragePercentage \in Nat
  BY SettingsFacts, FactorAssumption, <1>3
<1>6. preciseMul(collateralValue, CollateralFactor) \in Nat
  BY <1>4, <1>5, MulIsNat
<1>7. netBorrowLimit \in Nat
  BY <1>5, <1>6, MulIsNat DEF netBorrowLimit
<1>. QED
  BY <1>1, <1>2, <1>4, <1>7

LEMMA RatioIsPositive ==
  ASSUME TypeOK, SettingsValid, solvent
  PROVE  currentLeverageRatio \in Nat \ {0} /\ currentLeverageRatio >= PreciseUnit
<1>1. /\ collateralValue \in Nat
      /\ collateralValue - borrowValue \in Nat \ {0}
      /\ collateralValue - borrowValue <= collateralValue
  BY ActionInfoIsNat DEF solvent
<1>2. preciseDiv(collateralValue, collateralValue - borrowValue) \in Nat
  BY <1>1, DivIsNat
<1>3. preciseDiv(collateralValue, collateralValue - borrowValue) >= PreciseUnit
  BY <1>1, DivAtLeastUnit
<1>. QED
  BY <1>2, <1>3, PreciseUnitAssumption DEF currentLeverageRatio

(* The methodology clamps the new ratio between its bounds.                *)
LEMMA NewRatioIsClamped ==
  ASSUME TypeOK, SettingsValid, solvent
  PROVE  /\ newLeverageRatio \in Nat \ {0}
         /\ newLeverageRatio
              \in methodology.minLeverageRatio .. methodology.maxLeverageRatio
<1>. DEFINE a == preciseMul(methodology.targetLeverageRatio, methodology.recenteringSpeed)
            b == preciseMul(PreciseUnit - methodology.recenteringSpeed, currentLeverageRatio)
<1>1. PreciseUnit - methodology.recenteringSpeed \in Nat
  BY SettingsFacts, PreciseUnitAssumption
<1>2. a \in Nat
  <2>1. methodology.targetLeverageRatio \in Nat /\ methodology.recenteringSpeed \in Nat
    BY SettingsFacts, PreciseUnitAssumption
  <2>. QED  BY <2>1, MulIsNat
<1>3. b \in Nat
  BY <1>1, RatioIsPositive, MulIsNat
<1>4. newLeverageRatio = maxOf(methodology.minLeverageRatio,
                               minOf(a + b, methodology.maxLeverageRatio))
  BY DEF newLeverageRatio
<1>. HIDE DEF a, b
<1>. QED
  BY <1>2, <1>3, <1>4, SettingsFacts DEF minOf, maxOf

-----------------------------------------------------------------------------
(* Trades                                                                  *)

(* Where the code can compute the rebalance, chunk and total are natural.  *)
LEMMA ChunkIsNat ==
  ASSUME TypeOK, SettingsValid, solvent,
         NEW newRatio \in Nat, NEW isLever \in BOOLEAN, NEW maxTradeSize \in Nat,
         chunkIsDefined(newRatio, isLever)
  PROVE  /\ totalRebalanceNotional(newRatio, isLever) \in Nat
         /\ chunkRebalanceNotional(newRatio, isLever, maxTradeSize) \in Nat
<1>. DEFINE difference == IF isLever THEN newRatio - currentLeverageRatio
                                     ELSE currentLeverageRatio - newRatio
            headroom == netBorrowLimit - borrowValue
<1>1. difference \in Nat
  BY RatioIsPositive DEF chunkIsDefined
<1>2. preciseDiv(difference, currentLeverageRatio) \in Nat
  <2>. HIDE DEF difference
  <2>. QED  BY <1>1, RatioIsPositive, DivIsNat
<1>3. totalRebalanceNotional(newRatio, isLever) \in Nat
  <2>1. preciseMul(preciseDiv(difference, currentLeverageRatio), collateralBalance) \in Nat
    <3>. HIDE DEF difference
    <3>. QED  BY <1>2, ActionInfoIsNat, MulIsNat
  <2>. QED  BY <2>1 DEF totalRebalanceNotional
<1>4. headroom \in Nat
  BY ActionInfoIsNat DEF chunkIsDefined, withinBorrowLimit
<1>5. maxBorrowCollateral(isLever) \in Nat
  <2>. HIDE DEF headroom
  <2>1. CASE isLever
    <3>1. preciseDiv(headroom, collateralPrice) \in Nat
      BY <1>4, ActionInfoIsNat, DivIsNat
    <3>. QED  BY <2>1, <3>1 DEF maxBorrowCollateral, headroom
  <2>2. CASE ~ isLever
    <3>1. netBorrowLimit \in Nat \ {0}
      BY <2>2, ActionInfoIsNat DEF chunkIsDefined
    <3>2. preciseMul(collateralBalance, headroom) \in Nat
      BY <1>4, ActionInfoIsNat, MulIsNat
    <3>3. preciseDiv(preciseMul(collateralBalance, headroom), netBorrowLimit) \in Nat
      BY <3>1, <3>2, DivIsNat
    <3>. QED  BY <2>2, <3>3 DEF maxBorrowCollateral, headroom
  <2>. QED  BY <2>1, <2>2
<1>. QED
  BY <1>3, <1>5 DEF chunkRebalanceNotional, minOf

(* The module's trades keep the position well-typed, and a lever never     *)
(* repays while a delever never borrows.                                   *)
LEMMA LeverKeepsPosition ==
  ASSUME TypeOK, SettingsValid, setTotalSupply > 0,
         NEW notional \in Nat, NEW slippage \in 0 .. PreciseUnit,
         leverNotional(notional, slippage)
  PROVE  PositionTypeOK' /\ borrow' >= borrow
<1>. DEFINE units == collateralUnits(notional)
            minReceive == lessSlippage(units, slippage)
<1>1. units \in Nat
  BY ActionInfoIsNat, DivIsNat DEF collateralUnits
<1>2. minReceive \in Nat
  BY <1>1, MulIsNat, PreciseUnitAssumption, PreciseUnit - slippage \in Nat
     DEF lessSlippage
<1>3. borrowUnits(units) \in Nat
  BY <1>1, ActionInfoIsNat, MulIsNat, DivIsNat, PreciseUnitAssumption DEF borrowUnits
<1>4. lever(borrowUnits(units), minReceive)
  BY DEF leverNotional
<1>. HIDE DEF units, minReceive
<1>5. borrow' = borrow + borrowUnits(units) /\ borrow + borrowUnits(units) <= MaxBorrow
  BY <1>4 DEF lever
<1>6. PICK received \in minReceive .. soldBorrow(borrowUnits(units)) :
        /\ collateral + received <= MaxCollateral
        /\ collateral' = collateral + received
  BY <1>4 DEF lever
<1>7. collateral' \in 0 .. MaxCollateral
  BY <1>2, <1>6, ActionInfoIsNat, MaxPositionAssumption
<1>8. borrow' \in 0 .. MaxBorrow /\ borrow' >= borrow
  BY <1>3, <1>5, ActionInfoIsNat, MaxPositionAssumption
<1>9. UNCHANGED marketVars
  BY <1>4 DEF lever
<1>. QED
  BY <1>7, <1>8, <1>9 DEF TypeOK, PositionTypeOK, marketVars

LEMMA DeleverKeepsPosition ==
  ASSUME TypeOK, SettingsValid, setTotalSupply > 0,
         NEW notional \in Nat, NEW slippage \in 0 .. PreciseUnit,
         deleverNotional(notional, slippage)
  PROVE  PositionTypeOK' /\ borrow' <= borrow
<1>. DEFINE units == collateralUnits(notional)
            minRepay == lessSlippage(borrowUnits(units), slippage)
<1>1. units \in Nat
  BY ActionInfoIsNat, DivIsNat DEF collateralUnits
<1>2. borrowUnits(units) \in Nat
  BY <1>1, ActionInfoIsNat, MulIsNat, DivIsNat, PreciseUnitAssumption DEF borrowUnits
<1>3. minRepay \in Nat
  BY <1>2, MulIsNat, PreciseUnitAssumption, PreciseUnit - slippage \in Nat
     DEF lessSlippage
<1>4. delever(units, minRepay)
  BY DEF deleverNotional
<1>5. soldCollateral(units) \in Nat
  BY <1>1, ActionInfoIsNat, MulIsNat DEF soldCollateral
<1>. HIDE DEF units, minRepay
<1>6. PICK received \in minRepay .. minOf(soldCollateral(units), borrow) :
        borrow' = borrow - received
  BY <1>4 DEF delever
<1>7. borrow' \in 0 .. MaxBorrow /\ borrow' <= borrow
  BY <1>3, <1>5, <1>6, ActionInfoIsNat, MaxPositionAssumption
     DEF minOf, TypeOK, PositionTypeOK
<1>8. collateral' = collateral - units /\ units <= collateral /\ UNCHANGED marketVars
  BY <1>4 DEF delever
<1>9. collateral' \in 0 .. MaxCollateral
  BY <1>1, <1>8, ActionInfoIsNat, MaxPositionAssumption DEF TypeOK, PositionTypeOK
<1>. QED
  BY <1>7, <1>8, <1>9 DEF TypeOK, PositionTypeOK, marketVars

LEMMA DeleverToZeroKeepsPosition ==
  ASSUME TypeOK, SettingsValid, NEW units \in Nat, deleverToZeroBorrowBalance(units)
  PROVE  PositionTypeOK'
<1>1. /\ collateral' = collateral - units /\ units <= collateral
      /\ borrow' = 0 /\ UNCHANGED marketVars
  BY DEF deleverToZeroBorrowBalance
<1>2. collateral' \in 0 .. MaxCollateral /\ borrow' \in 0 .. MaxBorrow
  BY <1>1, ActionInfoIsNat, MaxPositionAssumption DEF TypeOK, PositionTypeOK
<1>. QED
  BY <1>1, <1>2 DEF TypeOK, PositionTypeOK, marketVars

LEMMA TradeKeepsPosition ==
  ASSUME TypeOK, SettingsValid, solvent, setTotalSupply > 0,
         NEW newRatio \in Nat, NEW isLever \in BOOLEAN, NEW maxTradeSize \in Nat,
         NEW slippage \in 0 .. PreciseUnit,
         tradeTo(newRatio, isLever, maxTradeSize, slippage)
  PROVE  /\ PositionTypeOK'
         /\ isLever => borrow' >= borrow
         /\ ~ isLever => borrow' <= borrow
<1>. DEFINE chunk == chunkRebalanceNotional(newRatio, isLever, maxTradeSize)
<1>1. /\ chunkIsDefined(newRatio, isLever)
      /\ IF isLever THEN leverNotional(chunk, slippage) ELSE deleverNotional(chunk, slippage)
  BY DEF tradeTo
<1>2. chunk \in Nat
  BY <1>1, ChunkIsNat
<1>. HIDE DEF chunk
<1>3. CASE isLever
  BY <1>1, <1>2, <1>3, LeverKeepsPosition
<1>4. CASE ~ isLever
  BY <1>1, <1>2, <1>4, DeleverKeepsPosition
<1>. QED
  BY <1>3, <1>4

-----------------------------------------------------------------------------
(* The parts of the invariant, by the variables they speak of              *)

SettingsPart == /\ methodology \in Methodologies
                /\ execution \in Executions
                /\ incentive \in Incentives
                /\ SettingsValid
ExchangePart == /\ exchangeSettings \in [Exchanges -> TradeSizes \union {NotEnabled}]
                /\ enabledExchanges \in SUBSET Exchanges
                /\ EnabledHaveSizes
AgePart == /\ exchangeAge \in [Exchanges -> 0 .. MaxAge]
           /\ globalAge \in 0 .. MaxAge
           /\ GlobalIsLatest
TwapPart == twapLeverageRatio \in Nat /\ TwapWithinBounds
EtherPart == etherBalance \in 0 .. MaxEther

LEMMA InParts ==
  IInv <=> PositionTypeOK /\ SettingsPart /\ ExchangePart /\ AgePart /\ TwapPart /\ EtherPart
BY DEF IInv, TypeOK, SettingsPart, ExchangePart, AgePart, TwapPart, EtherPart

LEMMA InPartsNext ==
  IInv' <=> /\ PositionTypeOK' /\ SettingsPart' /\ ExchangePart' /\ AgePart'
            /\ TwapPart' /\ EtherPart'
BY DEF IInv, TypeOK, SettingsPart, ExchangePart, AgePart, TwapPart, EtherPart

LEMMA PositionStays ==
  PositionTypeOK /\ UNCHANGED <<positionVars, marketVars>> => PositionTypeOK'
BY DEF PositionTypeOK, positionVars, marketVars

LEMMA SettingsStay == SettingsPart /\ UNCHANGED settingVars => SettingsPart'
BY DEF SettingsPart, SettingsValid, settingVars

LEMMA ExchangesStay == ExchangePart /\ UNCHANGED exchangeVars => ExchangePart'
BY DEF ExchangePart, EnabledHaveSizes, exchangeVars

LEMMA AgesStay == AgePart /\ UNCHANGED ageVars => AgePart'
BY DEF AgePart, GlobalIsLatest, ageVars

LEMMA TwapStays == TwapPart /\ UNCHANGED <<methodology, twapLeverageRatio>> => TwapPart'
BY DEF TwapPart, TwapWithinBounds

LEMMA EtherStays == EtherPart /\ UNCHANGED etherBalance => EtherPart'
BY DEF EtherPart

(* Both timestamps of a trade are now; no other one is later.              *)
LEMMA AgesOfTrade ==
  ASSUME AgePart, NEW e \in Exchanges, updateLastTradeTimestamp(e)
  PROVE  AgePart'
<1>1. /\ globalAge' = 0
      /\ exchangeAge' = [exchangeAge EXCEPT ![e] = 0]
  BY DEF updateLastTradeTimestamp
<1>2. exchangeAge' \in [Exchanges -> 0 .. MaxAge] /\ globalAge' \in 0 .. MaxAge
  BY <1>1, MaxAgeAssumption DEF AgePart
<1>3. \A x \in Exchanges : exchangeAge'[x] >= globalAge'
  BY <1>1, <1>2, MaxAgeAssumption
<1>. QED
  BY <1>2, <1>3 DEF AgePart, GlobalIsLatest

-----------------------------------------------------------------------------
(* The steps that trade                                                    *)

LEMMA EngageKeeps ==
  ASSUME IInv, NEW e \in Exchanges, engage(e)
  PROVE  IInv'
<1>. DEFINE target == methodology.targetLeverageRatio
<1>1. TypeOK /\ SettingsValid
  BY DEF IInv
<1>2. /\ setTotalSupply > 0 /\ solvent
      /\ tradeTo(target, TRUE, exchangeSettings[e].twapMaxTradeSize,
                 execution.slippageTolerance)
      /\ updateLastTradeTimestamp(e)
      /\ twapLeverageRatio' \in {target, twapLeverageRatio}
      /\ UNCHANGED <<settingVars, exchangeVars, etherBalance>>
  BY DEF engage
<1>3. PositionTypeOK'
  BY <1>1, <1>2, TradeKeepsPosition, SettingsFacts, SizesAreNat
<1>4. AgePart'
  BY <1>2, AgesOfTrade, InParts
<1>5. TwapPart'
  BY <1>1, <1>2, InParts, SettingsFacts DEF TwapPart, TwapWithinBounds, settingVars
<1>. QED
  BY <1>2, <1>3, <1>4, <1>5, InParts, InPartsNext, SettingsStay, ExchangesStay, EtherStays

(* _handleRebalance to a natural ratio.                                    *)
LEMMA HandleRebalanceKeeps ==
  ASSUME IInv, NEW e \in Exchanges, NEW newRatio \in Nat,
         solvent, setTotalSupply > 0, handleRebalance(e, newRatio)
  PROVE  /\ PositionTypeOK'
         /\ newRatio < currentLeverageRatio => borrow' <= borrow
         /\ newRatio >= currentLeverageRatio => borrow' >= borrow
<1>1. TypeOK /\ SettingsValid
  BY DEF IInv
<1>2. tradeTo(newRatio, isLeverTo(newRatio), exchangeSettings[e].twapMaxTradeSize,
              execution.slippageTolerance)
  BY DEF handleRebalance
<1>3. isLeverTo(newRatio) \in BOOLEAN
  BY DEF isLeverTo
<1>4. /\ PositionTypeOK'
      /\ isLeverTo(newRatio) => borrow' >= borrow
      /\ ~ isLeverTo(newRatio) => borrow' <= borrow
  BY <1>1, <1>2, <1>3, TradeKeepsPosition, SettingsFacts, SizesAreNat
<1>. QED
  BY <1>1, <1>4, RatioIsPositive DEF isLeverTo

LEMMA RebalanceKeeps ==
  ASSUME IInv, NEW e \in Exchanges, rebalance(e)
  PROVE  IInv'
<1>1. TypeOK /\ SettingsValid
  BY DEF IInv
<1>2. /\ setTotalSupply > 0 /\ solvent
      /\ handleRebalance(e, newLeverageRatio)
      /\ updateLastTradeTimestamp(e)
      /\ twapLeverageRatio' \in {newLeverageRatio, twapLeverageRatio}
      /\ UNCHANGED <<settingVars, exchangeVars, etherBalance>>
  BY DEF rebalance, validRebalance, leveraged
<1>3. PositionTypeOK'
  BY <1>1, <1>2, HandleRebalanceKeeps, NewRatioIsClamped
<1>4. AgePart'
  BY <1>2, AgesOfTrade, InParts
<1>5. TwapPart'
  BY <1>1, <1>2, InParts, NewRatioIsClamped DEF TwapPart, TwapWithinBounds, settingVars
<1>. QED
  BY <1>2, <1>3, <1>4, <1>5, InParts, InPartsNext, SettingsStay, ExchangesStay, EtherStays

LEMMA IterateKeeps ==
  ASSUME IInv, NEW e \in Exchanges, iterateRebalance(e)
  PROVE  IInv'
<1>1. TypeOK /\ SettingsValid
  BY DEF IInv
<1>2. /\ setTotalSupply > 0 /\ solvent
      /\ updateLastTradeTimestamp(e)
      /\ UNCHANGED <<settingVars, exchangeVars, etherBalance>>
  BY DEF iterateRebalance, validIterate, leveraged
<1>3. PositionTypeOK' /\ twapLeverageRatio' \in {0, twapLeverageRatio}
  <2>1. CASE isAdvantageousTWAP
    BY <2>1, PositionStays, InParts DEF iterateRebalance
  <2>2. CASE ~ isAdvantageousTWAP
    <3>1. /\ handleRebalance(e, twapLeverageRatio)
          /\ twapLeverageRatio' \in {0, twapLeverageRatio}
      BY <2>2 DEF iterateRebalance
    <3>. QED  BY <1>1, <1>2, <3>1, HandleRebalanceKeeps DEF TypeOK
  <2>. QED  BY <2>1, <2>2
<1>4. AgePart'
  BY <1>2, AgesOfTrade, InParts
<1>5. TwapPart'
  BY <1>2, <1>3, InParts DEF TwapPart, TwapWithinBounds, settingVars
<1>. QED
  BY <1>2, <1>3, <1>4, <1>5, InParts, InPartsNext, SettingsStay, ExchangesStay, EtherStays

LEMMA RipcordKeeps ==
  ASSUME IInv, NEW e \in Exchanges, ripcord(e)
  PROVE  IInv'
<1>1. TypeOK /\ SettingsValid
  BY DEF IInv
<1>2. /\ setTotalSupply > 0 /\ solvent
      /\ tradeTo(methodology.maxLeverageRatio, FALSE,
                 exchangeSettings[e].incentivizedTwapMaxTradeSize,
                 incentive.incentivizedSlippageTolerance)
      /\ updateLastTradeTimestamp(e)
      /\ twapLeverageRatio' = 0
      /\ etherBalance' = etherBalance - etherToTransfer
      /\ UNCHANGED <<settingVars, exchangeVars>>
  BY DEF ripcord, validRipcord, leveraged
<1>3. PositionTypeOK'
  BY <1>1, <1>2, TradeKeepsPosition, SettingsFacts, SizesAreNat
<1>4. AgePart'
  BY <1>2, AgesOfTrade, InParts
<1>5. TwapPart'
  BY <1>2 DEF TwapPart, TwapWithinBounds
<1>6. EtherPart'
  BY <1>1, <1>2, InParts, SettingsFacts, MaxEtherAssumption
     DEF EtherPart, etherToTransfer, minOf
<1>. QED
  BY <1>2, <1>3, <1>4, <1>5, <1>6, InParts, InPartsNext, SettingsStay, ExchangesStay

LEMMA DisengageKeeps ==
  ASSUME IInv, NEW e \in Exchanges, disengage(e)
  PROVE  IInv'
<1>. DEFINE maxTradeSize == exchangeSettings[e].twapMaxTradeSize
            chunk == chunkRebalanceNotional(PreciseUnit, FALSE, maxTradeSize)
            total == totalRebalanceNotional(PreciseUnit, FALSE)
            slippage == execution.slippageTolerance
            units == collateralUnits(preciseMul(total, PreciseUnit + slippage))
<1>1. TypeOK /\ SettingsValid
  BY DEF IInv
<1>2. /\ setTotalSupply > 0 /\ solvent
      /\ chunkIsDefined(PreciseUnit, FALSE)
      /\ IF total > chunk THEN deleverNotional(chunk, slippage)
                          ELSE deleverToZeroBorrowBalance(units)
      /\ UNCHANGED <<settingVars, exchangeVars, ageVars, twapLeverageRatio, etherBalance>>
  BY DEF disengage, leveraged
<1>3. chunk \in Nat /\ total \in Nat
  BY <1>1, <1>2, ChunkIsNat, SizesAreNat, PreciseUnitAssumption
<1>4. slippage \in 0 .. PreciseUnit
  BY <1>1, SettingsFacts
<1>5. PositionTypeOK'
  <2>1. CASE total > chunk
    <3>. HIDE DEF chunk, total
    <3>. QED  BY <1>1, <1>2, <1>3, <1>4, <2>1, DeleverKeepsPosition
  <2>2. CASE ~ (total > chunk)
    <3>1. PreciseUnit + slippage \in Nat
      BY <1>4, PreciseUnitAssumption
    <3>2. preciseMul(total, PreciseUnit + slippage) \in Nat
      <4>. HIDE DEF total, slippage
      <4>. QED  BY <1>3, <3>1, MulIsNat
    <3>3. units \in Nat
      <4>1. setTotalSupply \in Nat \ {0}
        BY <1>1, <1>2, ActionInfoIsNat
      <4>. HIDE DEF total, slippage
      <4>. QED  BY <3>2, <4>1, DivIsNat DEF collateralUnits
    <3>. HIDE DEF units
    <3>. QED  BY <1>1, <1>2, <2>2, <3>3, DeleverToZeroKeepsPosition
  <2>. QED  BY <2>1, <2>2
<1>. QED
  BY <1>2, <1>5, InParts, InPartsNext, SettingsStay, ExchangesStay, AgesStay, TwapStays,
     EtherStays DEF settingVars

-----------------------------------------------------------------------------
(* The steps that do not trade                                             *)

LEMMA SettersKeep ==
  ASSUME IInv,
         \/ \E m \in Methodologies : setMethodologySettings(m)
         \/ \E x \in Executions : setExecutionSettings(x)
         \/ \E i \in Incentives : setIncentiveSettings(i)
  PROVE  IInv'
<1>1. twapLeverageRatio = 0
  BY DEF setMethodologySettings, setExecutionSettings, setIncentiveSettings,
         noRebalanceInProgress
<1>2. UNCHANGED <<positionVars, marketVars, exchangeVars, ageVars, twapLeverageRatio,
                  etherBalance>>
  BY DEF setMethodologySettings, setExecutionSettings, setIncentiveSettings
<1>3. SettingsPart'
  BY InParts
     DEF setMethodologySettings, setExecutionSettings, setIncentiveSettings,
         SettingsPart, SettingsValid
<1>4. TwapPart'
  BY <1>1, <1>2 DEF TwapPart, TwapWithinBounds
<1>. QED
  BY <1>2, <1>3, <1>4, InParts, InPartsNext, PositionStays, ExchangesStay, AgesStay,
     EtherStays

LEMMA ExchangesKeep ==
  ASSUME IInv, NEW e \in Exchanges,
         \/ removeEnabledExchange(e)
         \/ \E s \in TradeSizes : addEnabledExchange(e, s) \/ updateEnabledExchange(e, s)
  PROVE  IInv'
<1>1. UNCHANGED <<positionVars, marketVars, settingVars, globalAge, twapLeverageRatio,
                  etherBalance>>
  BY DEF removeEnabledExchange, addEnabledExchange, updateEnabledExchange, ageVars
<1>2. exchangeAge' \in {exchangeAge, [exchangeAge EXCEPT ![e] = MaxAge]}
  BY DEF removeEnabledExchange, addEnabledExchange, updateEnabledExchange, ageVars
<1>3. AgePart'
  BY <1>1, <1>2, InParts, MaxAgeAssumption DEF AgePart, GlobalIsLatest
<1>4. ExchangePart'
  <2>1. ExchangePart
    BY InParts
  <2>2. CASE removeEnabledExchange(e)
    BY <2>1, <2>2 DEF removeEnabledExchange, ExchangePart, EnabledHaveSizes, NotEnabled
  <2>3. ASSUME NEW s \in TradeSizes, addEnabledExchange(e, s)
        PROVE  ExchangePart'
    BY <2>1, <2>3
       DEF addEnabledExchange, validExchangeSettings, ExchangePart, EnabledHaveSizes
  <2>4. ASSUME NEW s \in TradeSizes, updateEnabledExchange(e, s)
        PROVE  ExchangePart'
    BY <2>1, <2>4
       DEF updateEnabledExchange, validExchangeSettings, ExchangePart, EnabledHaveSizes
  <2>. QED  BY <2>2, <2>3, <2>4
<1>. QED
  BY <1>1, <1>3, <1>4, InParts, InPartsNext, PositionStays, SettingsStay, TwapStays,
     EtherStays DEF settingVars

LEMMA EtherKeeps ==
  ASSUME IInv, withdrawEtherBalance \/ receive
  PROVE  IInv'
<1>1. UNCHANGED <<positionVars, marketVars, settingVars, exchangeVars, ageVars,
                  twapLeverageRatio>>
  BY DEF withdrawEtherBalance, receive
<1>2. EtherPart'
  BY InParts, MaxEtherAssumption DEF withdrawEtherBalance, receive, EtherPart
<1>. QED
  BY <1>1, <1>2, InParts, InPartsNext, PositionStays, SettingsStay, ExchangesStay,
     AgesStay, TwapStays DEF settingVars

LEMMA EnvironmentKeeps ==
  ASSUME IInv, timePasses \/ market
  PROVE  IInv'
<1>1. UNCHANGED <<settingVars, exchangeVars, twapLeverageRatio, etherBalance>>
  BY DEF timePasses, market
<1>2. PositionTypeOK'
  BY InParts
     DEF timePasses, market, latestAnswer, issueOrRedeem, PositionTypeOK, positionVars,
         marketVars
<1>3. AgePart'
  <2>1. CASE timePasses
    BY <2>1, InParts, MaxAgeAssumption
       DEF timePasses, older, minOf, AgePart, GlobalIsLatest
  <2>2. CASE market
    BY <2>2, InParts, AgesStay DEF market
  <2>. QED  BY <2>1, <2>2
<1>. QED
  BY <1>1, <1>2, <1>3, InParts, InPartsNext, SettingsStay, ExchangesStay, TwapStays,
     EtherStays DEF settingVars

LEMMA InitIInv == Init => IInv
<1>. SUFFICES ASSUME Init PROVE IInv
  OBVIOUS
<1>1. PositionTypeOK
  BY InitialCollateralAssumption, MaxPositionAssumption DEF Init, PositionTypeOK
<1>2. SettingsPart /\ TwapPart
  BY DEF Init, SettingsPart, SettingsValid, TwapPart, TwapWithinBounds
<1>3. ExchangePart
  BY DEF Init, ExchangePart, EnabledHaveSizes, validExchangeSettings, NotEnabled
<1>4. AgePart /\ EtherPart
  BY MaxAgeAssumption, MaxEtherAssumption DEF Init, AgePart, EtherPart, GlobalIsLatest
<1>. QED
  BY <1>1, <1>2, <1>3, <1>4, InParts

-----------------------------------------------------------------------------
(* Theorems                                                                *)

(* The inductive invariant holds in every reachable state: Init implies    *)
(* it, and every function of the extension and every move of the market    *)
(* keeps it.                                                               *)
THEOREM Invariance == Spec => []IInv
<1>1. IInv /\ [Next]_vars => IInv'
  <2>. SUFFICES ASSUME IInv, [Next]_vars PROVE IInv'
    OBVIOUS
  <2>1. ASSUME NEW e \in Exchanges, rebalance(e) \/ iterateRebalance(e) \/ ripcord(e)
        PROVE  IInv'
    BY <2>1, RebalanceKeeps, IterateKeeps, RipcordKeeps
  <2>2. ASSUME NEW e \in Exchanges, engage(e) \/ disengage(e)
        PROVE  IInv'
    BY <2>2, EngageKeeps, DisengageKeeps
  <2>3. CASE operatorCalls
    BY <2>2, <2>3, ExchangesKeep, SettersKeep, EtherKeeps DEF operatorCalls
  <2>4. CASE receive \/ timePasses \/ market
    BY <2>4, EtherKeeps, EnvironmentKeeps
  <2>5. CASE UNCHANGED vars
    BY <2>5, InParts, InPartsNext, PositionStays, SettingsStay, ExchangesStay, AgesStay,
       TwapStays, EtherStays DEF vars, settingVars
  <2>. QED  BY <2>1, <2>3, <2>4, <2>5 DEF Next, keeperCalls
<1>. QED
  BY InitIInv, <1>1, PTL DEF Spec

(* Debts, collateral, rewards and ages stay in range: no subtraction of    *)
(* the extension or of the module's trades goes below zero.                *)
THEOREM TypeCorrect == Spec => []TypeOK
<1>1. IInv => TypeOK
  BY DEF IInv
<1>. QED
  BY Invariance, <1>1, PTL

(* A TWAP in progress always aims within the bounds in force.              *)
THEOREM TwapStaysWithinBounds == Spec => []TwapWithinBounds
<1>1. IInv => TwapWithinBounds
  BY DEF IInv
<1>. QED
  BY Invariance, <1>1, PTL

(* The epoch rebalance never misses a trade of another exchange.           *)
THEOREM GlobalCoversExchanges == Spec => []GlobalIsLatest
<1>1. IInv => GlobalIsLatest
  BY DEF IInv
<1>. QED
  BY Invariance, <1>1, PTL

(* The settings in force are always valid together.                        *)
THEOREM SettingsStayValid == Spec => []SettingsValid
<1>1. IInv => SettingsValid
  BY DEF IInv
<1>. QED
  BY Invariance, <1>1, PTL

(* The view tells the keepers what the functions would accept.             *)
THEOREM SignalsHold == Spec => []SignalsAreActionable
<1>1. IInv => SignalsAreActionable
  <2>. SUFFICES ASSUME IInv, NEW e \in enabledExchanges,
                       leveraged(exchangeSettings[e].twapMaxTradeSize)
                PROVE  /\ signal(e) = "REBALANCE" <=> validRebalance(e)
                       /\ signal(e) = "ITERATE_REBALANCE" => validIterate(e)
                       /\ signal(e) = "RIPCORD"
                            /\ exchangeSettings[e].incentivizedTwapMaxTradeSize > 0
                            <=> validRipcord(e)
    BY DEF SignalsAreActionable
  <2>1. /\ TypeOK /\ SettingsValid /\ solvent /\ e \in Exchanges
    BY DEF IInv, TypeOK, leveraged
  <2>2. /\ currentLeverageRatio \in Nat
        /\ incentive.incentivizedLeverageRatio \in Nat
        /\ twapLeverageRatio \in Nat
    BY <2>1, RatioIsPositive, SettingsFacts DEF TypeOK
  <2>. QED
    BY <2>1, <2>2
       DEF signal, shouldRebalance, validRebalance, validIterate, validRipcord,
           validNormalRebalance, leveraged
<1>. QED
  BY Invariance, <1>1, PTL

(* While a TWAP's target is on one side of the methodology's, iterating    *)
(* never trades towards the other.                                         *)
THEOREM TwapNeverReverses == Spec => TwapKeepsDirection
<1>1. ASSUME IInv, NEW e \in Exchanges, iterateRebalance(e)
      PROVE  /\ twapLeverageRatio > methodology.targetLeverageRatio => borrow' <= borrow
             /\ twapLeverageRatio < methodology.targetLeverageRatio => borrow' >= borrow
  <2>1. TypeOK /\ SettingsValid /\ solvent /\ setTotalSupply > 0
    BY <1>1 DEF IInv, iterateRebalance, validIterate, leveraged
  <2>2. /\ currentLeverageRatio \in Nat /\ borrow \in Nat
        /\ twapLeverageRatio \in Nat /\ methodology.targetLeverageRatio \in Nat
    BY <2>1, RatioIsPositive, SettingsFacts, ActionInfoIsNat DEF TypeOK
  <2>3. CASE isAdvantageousTWAP
    BY <1>1, <2>2, <2>3 DEF iterateRebalance, positionVars
  <2>4. CASE ~ isAdvantageousTWAP
    <3>1. handleRebalance(e, twapLeverageRatio)
      BY <1>1, <2>4 DEF iterateRebalance
    <3>2. /\ twapLeverageRatio < currentLeverageRatio => borrow' <= borrow
          /\ twapLeverageRatio >= currentLeverageRatio => borrow' >= borrow
      BY <1>1, <2>1, <2>2, <3>1, HandleRebalanceKeeps
    <3>3. /\ twapLeverageRatio > methodology.targetLeverageRatio
               => twapLeverageRatio < currentLeverageRatio
          /\ twapLeverageRatio < methodology.targetLeverageRatio
               => twapLeverageRatio >= currentLeverageRatio
      BY <2>2, <2>4 DEF isAdvantageousTWAP
    <3>. QED  BY <3>2, <3>3
  <2>. QED  BY <2>3, <2>4
<1>2. IInv /\ [Next]_vars =>
        [(\E e \in Exchanges : iterateRebalance(e)) =>
           /\ twapLeverageRatio > methodology.targetLeverageRatio => borrow' <= borrow
           /\ twapLeverageRatio < methodology.targetLeverageRatio => borrow' >= borrow]_vars
  BY <1>1
<1>. QED
  BY Invariance, <1>2, PTL DEF Spec, TwapKeepsDirection

-----------------------------------------------------------------------------
(* Headroom.  Integer division, and how products compare.                  *)

isQuotient(q, a, n) == q \in Nat /\ n * q <= a /\ a < n * q + n

LEMMA DivIsQuotient ==
  ASSUME NEW a \in Nat, NEW n \in Nat \ {0}
  PROVE  isQuotient(a \div n, a, n)
BY DEF isQuotient

LEMMA ProductIsNat ==
  ASSUME NEW a \in Nat, NEW b \in Nat
  PROVE  a * b \in Nat
OBVIOUS

LEMMA MinIsLower ==
  ASSUME NEW a \in Nat, NEW b \in Nat
  PROVE  minOf(a, b) \in Nat /\ minOf(a, b) <= a /\ minOf(a, b) <= b
BY DEF minOf

LEMMA TimesIsMonotone ==
  ASSUME NEW a \in Int, NEW b \in Int, a <= b, NEW u \in Nat
  PROVE  a * u <= b * u
OBVIOUS

LEMMA TimesCancels ==
  ASSUME NEW a \in Int, NEW b \in Int, NEW u \in Nat \ {0}, a * u < b * u
  PROVE  a < b
<1>. SUFFICES ASSUME b <= a PROVE FALSE
  OBVIOUS
<1>1. b * u <= a * u /\ a * u \in Int /\ b * u \in Int
  BY TimesIsMonotone
<1>. QED
  BY <1>1

(* A quotient grows with what is divided.                                  *)
LEMMA QuotientIsMonotone ==
  ASSUME NEW a \in Nat, NEW b \in Nat, a <= b, NEW n \in Nat \ {0}
  PROVE  a \div n <= b \div n
<1>. DEFINE q == a \div n
            r == b \div n
<1>1. isQuotient(q, a, n) /\ isQuotient(r, b, n)
  BY DivIsQuotient
<1>. HIDE DEF q, r
<1>2. q \in Nat /\ r \in Nat /\ n * q <= a /\ b < n * r + n
  BY <1>1 DEF isQuotient
<1>3. q * n < (r + 1) * n
  <2>1. q * n = n * q /\ (r + 1) * n = n * r + n /\ n * q \in Int /\ n * r \in Int
    BY <1>2
  <2>. QED  BY <1>2, <2>1
<1>4. q < r + 1
  BY <1>2, <1>3, TimesCancels
<1>5. q <= r
  BY <1>2, <1>4
<1>. QED
  BY <1>5 DEF q, r

LEMMA MulIsMonotone ==
  ASSUME NEW a \in Nat, NEW b \in Nat, a <= b, NEW u \in Nat
  PROVE  preciseMul(a, u) <= preciseMul(b, u) /\ preciseMul(u, a) <= preciseMul(u, b)
<1>1. a * u <= b * u /\ a * u = u * a /\ b * u = u * b
  BY TimesIsMonotone
<1>2. a * u \in Nat /\ b * u \in Nat
  OBVIOUS
<1>3. (a * u) \div PreciseUnit <= (b * u) \div PreciseUnit
  BY <1>1, <1>2, QuotientIsMonotone, PreciseUnitAssumption
<1>. QED
  BY <1>1, <1>3 DEF preciseMul

(* Multiplying by a whole unit changes nothing.                            *)
LEMMA TimesUnit ==
  ASSUME NEW a \in Nat
  PROVE  preciseMul(PreciseUnit, a) = a /\ preciseDiv(a, PreciseUnit) = a
         /\ preciseMul(a, PreciseUnit) = a
<1>. DEFINE q == (a * PreciseUnit) \div PreciseUnit
<1>1. a * PreciseUnit \in Nat /\ a * PreciseUnit = PreciseUnit * a
  BY PreciseUnitAssumption
<1>2. isQuotient(q, a * PreciseUnit, PreciseUnit)
  BY <1>1, DivIsQuotient, PreciseUnitAssumption
<1>. HIDE DEF q
<1>3. q \in Nat /\ q * PreciseUnit < (a + 1) * PreciseUnit
                /\ a * PreciseUnit < (q + 1) * PreciseUnit
  <2>1. /\ q \in Nat /\ PreciseUnit * q <= a * PreciseUnit
        /\ a * PreciseUnit < PreciseUnit * q + PreciseUnit
    BY <1>2 DEF isQuotient
  <2>2. /\ q * PreciseUnit = PreciseUnit * q
        /\ (a + 1) * PreciseUnit = a * PreciseUnit + PreciseUnit
        /\ (q + 1) * PreciseUnit = PreciseUnit * q + PreciseUnit
        /\ PreciseUnit * q \in Int
    BY <2>1, PreciseUnitAssumption
  <2>. QED  BY <1>1, <2>1, <2>2, PreciseUnitAssumption
<1>4. q < a + 1 /\ a < q + 1
  BY <1>3, TimesCancels, PreciseUnitAssumption
<1>5. q = a
  BY <1>3, <1>4
<1>. QED
  BY <1>1, <1>5 DEF q, preciseMul, preciseDiv

(* What borrowing costs.  A headroom of h buys at most h * U \div p of     *)
(* collateral at price p; that many notional units are c * U \div n units  *)
(* per Set, whose price in debt is u * p \div U: each rounding is down, so *)
(* the new debt of B + d per Set is worth at most h more than before.      *)
LEMMA ChunkFitsHeadroom ==
  ASSUME NEW U \in Nat \ {0}, NEW n \in Nat \ {0}, NEW p \in Nat \ {0},
         NEW h \in Nat, NEW m, isQuotient(m, h * U, p),
         NEW c \in Nat, c <= m, NEW u, isQuotient(u, c * U, n),
         NEW d, isQuotient(d, u * p, U),
         NEW B \in Nat, NEW v, isQuotient(v, B * n, U),
         NEW w, isQuotient(w, (B + d) * n, U)
  PROVE  w <= v + h
<1>1. /\ m \in Nat /\ p * m <= h * U /\ u \in Nat /\ n * u <= c * U
      /\ d \in Nat /\ U * d <= u * p
      /\ v \in Nat /\ B * n < U * v + U
      /\ w \in Nat /\ U * w <= (B + d) * n
  BY DEF isQuotient
<1>2. c * p <= h * U
  <2>1. c * p <= m * p /\ m * p = p * m /\ c * p \in Int /\ m * p \in Int /\ h * U \in Int
    BY <1>1, TimesIsMonotone
  <2>. QED  BY <1>1, <2>1
<1>3. u * n * p <= h * U * U
  <2>1. (u * n) * p <= (c * U) * p
    <3>1. u * n <= c * U /\ u * n \in Int /\ c * U \in Int
      BY <1>1
    <3>. QED  BY <3>1, TimesIsMonotone
  <2>2. (c * p) * U <= (h * U) * U
    <3>1. c * p \in Int /\ h * U \in Int
      OBVIOUS
    <3>. QED  BY <1>2, <3>1, TimesIsMonotone
  <2>3. (c * U) * p = (c * p) * U /\ (c * p) * U \in Int /\ (u * n) * p \in Int /\ (h * U) * U \in Int
    BY <1>1
  <2>. QED  BY <2>1, <2>2, <2>3
<1>4. (d * n) * U <= u * n * p
  <2>1. (U * d) * n <= (u * p) * n
    <3>1. U * d \in Int /\ u * p \in Int
      BY <1>1
    <3>. QED  BY <1>1, <3>1, TimesIsMonotone
  <2>2. (U * d) * n = (d * n) * U /\ (u * p) * n = u * n * p
    BY <1>1
  <2>. QED  BY <2>1, <2>2
<1>5. d * n < (h * U + 1)
  <2>1. /\ (d * n) * U \in Int /\ u * n * p \in Int /\ h * U * U \in Int
        /\ (h * U + 1) * U = h * U * U + U
    BY <1>1
  <2>2. (d * n) * U < (h * U + 1) * U
    BY <1>3, <1>4, <2>1
  <2>3. d * n \in Int /\ h * U + 1 \in Int
    BY <1>1
  <2>. QED  BY <2>2, <2>3, TimesCancels
<1>6. w * U < (v + h + 1) * U
  <2>1. /\ (B + d) * n = B * n + d * n /\ B * n \in Int /\ d * n \in Int
        /\ (v + h + 1) * U = U * v + h * U + U /\ U * v \in Int /\ h * U \in Int
        /\ w * U = U * w /\ U * w \in Int
    BY <1>1
  <2>. QED  BY <1>1, <1>5, <2>1
<1>7. w < v + h + 1
  <2>1. w \in Int /\ v + h + 1 \in Int
    BY <1>1
  <2>. QED  BY <1>6, <2>1, TimesCancels
<1>. QED
  BY <1>1, <1>7

LEMMA ValueOfDebt ==
  ASSUME NEW b \in Nat, NEW n \in Nat
  PROVE  preciseMul(PreciseUnit, preciseMul(b, n)) = (b * n) \div PreciseUnit
<1>1. preciseMul(b, n) \in Nat
  BY MulIsNat
<1>. QED
  BY <1>1, TimesUnit DEF preciseMul

(* The net borrow limit of more collateral is no smaller.                  *)
limitOf(coll, price, n, unutilized) ==
  preciseMul(preciseMul(preciseMul(price, preciseMul(coll, n)), CollateralFactor),
             PreciseUnit - unutilized)
LEMMA LimitIsMonotone ==
  ASSUME NEW a \in Nat, NEW b \in Nat, a <= b, NEW price \in Nat, NEW n \in Nat,
         NEW x \in 0 .. PreciseUnit
  PROVE  limitOf(a, price, n, x) <= limitOf(b, price, n, x)
<1>1. CollateralFactor \in Nat /\ PreciseUnit - x \in Nat
  BY FactorAssumption, PreciseUnitAssumption
<1>. DEFINE a1 == preciseMul(a, n)
            b1 == preciseMul(b, n)
            a2 == preciseMul(price, a1)
            b2 == preciseMul(price, b1)
            a3 == preciseMul(a2, CollateralFactor)
            b3 == preciseMul(b2, CollateralFactor)
<1>2. a1 \in Nat /\ b1 \in Nat /\ a1 <= b1
  BY MulIsNat, MulIsMonotone
<1>. HIDE DEF a1, b1
<1>3. a2 \in Nat /\ b2 \in Nat /\ a2 <= b2
  BY <1>2, MulIsNat, MulIsMonotone
<1>. HIDE DEF a2, b2
<1>4. a3 \in Nat /\ b3 \in Nat /\ a3 <= b3
  BY <1>1, <1>3, MulIsNat, MulIsMonotone
<1>. HIDE DEF a3, b3
<1>5. preciseMul(a3, PreciseUnit - x) <= preciseMul(b3, PreciseUnit - x)
  BY <1>1, <1>4, MulIsMonotone
<1>. QED
  BY <1>5 DEF limitOf, a1, b1, a2, b2, a3, b3

(* The whole of a lever: _calculateMaxBorrowCollateral, the chunk, _lever  *)
(* and what Compound and the SetToken hold afterwards.                     *)
LEMMA LeverStaysWithinLimit ==
  ASSUME TypeOK, SettingsValid, solvent, setTotalSupply > 0,
         NEW newRatio \in Nat, NEW maxTradeSize \in Nat,
         NEW slippage \in 0 .. PreciseUnit,
         tradeTo(newRatio, TRUE, maxTradeSize, slippage), UNCHANGED settingVars
  PROVE  borrowValue' <= netBorrowLimit'
<1>. DEFINE chunk == chunkRebalanceNotional(newRatio, TRUE, maxTradeSize)
            units == collateralUnits(chunk)
            debt == borrowUnits(units)
            headroom == netBorrowLimit - borrowValue
            most == (headroom * PreciseUnit) \div collateralPrice
            minReceive == lessSlippage(units, slippage)
<1>1. chunkIsDefined(newRatio, TRUE) /\ leverNotional(chunk, slippage)
  BY DEF tradeTo
<1>2. chunk \in Nat
  BY <1>1, ChunkIsNat
<1>3. headroom \in Nat /\ netBorrowLimit = borrowValue + headroom
  BY <1>1, ActionInfoIsNat DEF chunkIsDefined, withinBorrowLimit
<1>4. headroom * PreciseUnit \in Nat /\ PreciseUnit \in Nat \ {0}
  BY <1>3, PreciseUnitAssumption
<1>5. isQuotient(most, headroom * PreciseUnit, collateralPrice) /\ chunk <= most
  <2>1. most = maxBorrowCollateral(TRUE)
    BY DEF maxBorrowCollateral, preciseDiv
  <2>2. totalRebalanceNotional(newRatio, TRUE) \in Nat
    BY <1>1, ChunkIsNat
  <2>. HIDE DEF headroom
  <2>3. isQuotient(most, headroom * PreciseUnit, collateralPrice)
    BY <1>4, ActionInfoIsNat, DivIsQuotient
  <2>4. most \in Nat
    BY <2>3 DEF isQuotient
  <2>. DEFINE total == totalRebalanceNotional(newRatio, TRUE)
              either == minOf(most, total)
  <2>5. chunk = minOf(either, maxTradeSize)
    BY <2>1 DEF chunkRebalanceNotional
  <2>. HIDE DEF most, total
  <2>6. either \in Nat /\ either <= most
    BY <2>2, <2>4, MinIsLower DEF total
  <2>. HIDE DEF either, chunk
  <2>7. chunk <= either
    BY <2>5, <2>6, MinIsLower
  <2>. QED
    BY <1>2, <2>3, <2>4, <2>6, <2>7
<1>6. isQuotient(units, chunk * PreciseUnit, setTotalSupply)
  <2>. HIDE DEF chunk
  <2>1. chunk * PreciseUnit \in Nat /\ setTotalSupply \in Nat \ {0}
    BY <1>2, <1>4, ActionInfoIsNat
  <2>. QED  BY <2>1, DivIsQuotient DEF collateralUnits, preciseDiv
<1>7. units \in Nat
  BY <1>6 DEF isQuotient
<1>8. isQuotient(debt, units * collateralPrice, PreciseUnit)
  <2>. HIDE DEF units
  <2>3. collateralPrice \in Nat
    BY ActionInfoIsNat
  <2>1. units * collateralPrice \in Nat /\ preciseMul(units, collateralPrice) \in Nat
    BY <1>7, <2>3, ProductIsNat, MulIsNat
  <2>2. debt = preciseMul(units, collateralPrice)
    BY <2>1, TimesUnit DEF borrowUnits
  <2>. QED  BY <1>4, <2>1, <2>2, DivIsQuotient DEF preciseMul
<1>9. debt \in Nat
  BY <1>8 DEF isQuotient
<1>10. minReceive \in Nat
  BY <1>7, MulIsNat, PreciseUnitAssumption, PreciseUnit - slippage \in Nat DEF lessSlippage
<1>11. lever(debt, minReceive)
  BY <1>1 DEF leverNotional
<1>. HIDE DEF chunk, units, debt, headroom, most, minReceive
<1>12. /\ borrow' = borrow + debt
       /\ collateral' \in Nat /\ collateral <= collateral'
       /\ UNCHANGED <<collateralPrice, setTotalSupply>>
  <2>1. PICK received \in minReceive .. soldBorrow(debt) : collateral' = collateral + received
    BY <1>11 DEF lever
  <2>2. collateral' \in Nat /\ collateral <= collateral'
    BY <1>10, <2>1, ActionInfoIsNat
  <2>. QED  BY <1>11, <2>2 DEF lever, marketVars
<1>13. borrowValue' <= borrowValue + headroom
  <2>1. borrowValue = (borrow * setTotalSupply) \div PreciseUnit
    BY ActionInfoIsNat, ValueOfDebt DEF borrowValue, borrowBalance
  <2>2. borrowValue' = ((borrow + debt) * setTotalSupply) \div PreciseUnit
    <3>1. borrowValue' = preciseMul(PreciseUnit, preciseMul(borrow + debt, setTotalSupply))
      BY <1>12 DEF borrowValue, borrowBalance
    <3>2. borrow + debt \in Nat
      BY <1>9, ActionInfoIsNat
    <3>. QED  BY <3>1, <3>2, ActionInfoIsNat, ValueOfDebt
  <2>3. borrow * setTotalSupply \in Nat /\ (borrow + debt) * setTotalSupply \in Nat
    BY <1>9, ActionInfoIsNat
  <2>4. /\ isQuotient(borrowValue, borrow * setTotalSupply, PreciseUnit)
        /\ isQuotient(borrowValue', (borrow + debt) * setTotalSupply, PreciseUnit)
    BY <1>4, <2>1, <2>2, <2>3, DivIsQuotient
  <2>5. setTotalSupply \in Nat \ {0} /\ collateralPrice \in Nat \ {0} /\ borrow \in Nat
    BY ActionInfoIsNat
  <2>. QED
    BY <1>2, <1>3, <1>4, <1>5, <1>6, <1>8, <2>4, <2>5, ChunkFitsHeadroom
<1>14. netBorrowLimit <= netBorrowLimit'
  <2>. DEFINE x == execution.unutilizedLeveragePercentage
  <2>1. /\ netBorrowLimit = limitOf(collateral, collateralPrice, setTotalSupply, x)
        /\ netBorrowLimit' = limitOf(collateral', collateralPrice, setTotalSupply, x)
    BY <1>12 DEF netBorrowLimit, collateralValue, collateralBalance, limitOf, settingVars
  <2>. QED
    BY <1>12, <2>1, ActionInfoIsNat, SettingsFacts, LimitIsMonotone
<1>15. borrowValue' \in Nat /\ netBorrowLimit' \in Nat
  <2>1. borrow' \in Nat /\ setTotalSupply' \in Nat /\ collateralPrice' \in Nat
    BY <1>9, <1>12, ActionInfoIsNat
  <2>2. CollateralFactor \in Nat /\ PreciseUnit - execution'.unutilizedLeveragePercentage \in Nat
    BY SettingsFacts, FactorAssumption, <1>4 DEF settingVars
  <2>3. preciseMul(borrow', setTotalSupply') \in Nat
    BY <2>1, MulIsNat
  <2>4. borrowValue' \in Nat
    BY <1>4, <2>3, MulIsNat DEF borrowValue, borrowBalance
  <2>5. preciseMul(collateral', setTotalSupply') \in Nat
    BY <1>12, <2>1, MulIsNat
  <2>6. preciseMul(collateralPrice', preciseMul(collateral', setTotalSupply')) \in Nat
    BY <2>1, <2>5, MulIsNat
  <2>7. preciseMul(preciseMul(collateralPrice', preciseMul(collateral', setTotalSupply')),
                   CollateralFactor) \in Nat
    BY <2>2, <2>6, MulIsNat
  <2>8. netBorrowLimit' \in Nat
    BY <2>2, <2>7, MulIsNat DEF netBorrowLimit, collateralValue, collateralBalance
  <2>. QED  BY <2>4, <2>8
<1>. QED
  BY <1>3, <1>13, <1>14, <1>15, ActionInfoIsNat

LEMMA HandleRebalanceLeavesHeadroom ==
  ASSUME IInv, NEW e \in Exchanges, NEW newRatio \in Nat,
         solvent, setTotalSupply > 0, handleRebalance(e, newRatio), UNCHANGED settingVars,
         borrow' > borrow
  PROVE  borrowValue' <= netBorrowLimit'
<1>1. TypeOK /\ SettingsValid
  BY DEF IInv
<1>2. /\ tradeTo(newRatio, isLeverTo(newRatio), exchangeSettings[e].twapMaxTradeSize,
                 execution.slippageTolerance)
      /\ isLeverTo(newRatio) \in BOOLEAN
  BY DEF handleRebalance, isLeverTo
<1>3. isLeverTo(newRatio)
  <2>1. SUFFICES ASSUME ~ isLeverTo(newRatio) PROVE FALSE
    OBVIOUS
  <2>2. newRatio < currentLeverageRatio
    BY <1>1, <2>1, RatioIsPositive DEF isLeverTo
  <2>3. borrow' <= borrow /\ PositionTypeOK'
    BY <2>2, HandleRebalanceKeeps
  <2>. QED  BY <1>1, <2>3, ActionInfoIsNat DEF PositionTypeOK
<1>4. tradeTo(newRatio, TRUE, exchangeSettings[e].twapMaxTradeSize,
              execution.slippageTolerance)
  BY <1>2, <1>3
<1>. QED
  BY <1>1, <1>4, LeverStaysWithinLimit, SettingsFacts, SizesAreNat

(* Whatever the prices, the supplies and the roundings, a trade that       *)
(* borrows leaves the unutilized share of what Compound would lend.        *)
THEOREM HeadroomIsLeft == Spec => LeverLeavesHeadroom
<1>1. ASSUME IInv, Next, borrow' > borrow
      PROVE  borrowValue' <= netBorrowLimit'
  <2>1. TypeOK /\ SettingsValid /\ borrow \in Nat
    BY <1>1, ActionInfoIsNat DEF IInv
  <2>2. ASSUME NEW e \in Exchanges, engage(e)
        PROVE  borrowValue' <= netBorrowLimit'
    <3>1. /\ tradeTo(methodology.targetLeverageRatio, TRUE,
                     exchangeSettings[e].twapMaxTradeSize, execution.slippageTolerance)
          /\ solvent /\ setTotalSupply > 0 /\ UNCHANGED settingVars
      BY <2>2 DEF engage
    <3>. QED  BY <2>1, <3>1, LeverStaysWithinLimit, SettingsFacts, SizesAreNat
  <2>3. ASSUME NEW e \in Exchanges, rebalance(e)
        PROVE  borrowValue' <= netBorrowLimit'
    <3>1. /\ handleRebalance(e, newLeverageRatio)
          /\ solvent /\ setTotalSupply > 0 /\ UNCHANGED settingVars
      BY <2>3 DEF rebalance, validRebalance, leveraged
    <3>. QED
      BY <1>1, <2>1, <3>1, NewRatioIsClamped, HandleRebalanceLeavesHeadroom
  <2>4. ASSUME NEW e \in Exchanges, iterateRebalance(e)
        PROVE  borrowValue' <= netBorrowLimit'
    <3>1. handleRebalance(e, twapLeverageRatio)
      BY <1>1, <2>1, <2>4 DEF iterateRebalance, positionVars
    <3>2. /\ solvent /\ setTotalSupply > 0 /\ UNCHANGED settingVars
          /\ twapLeverageRatio \in Nat
      BY <2>1, <2>4 DEF iterateRebalance, validIterate, leveraged, TypeOK
    <3>. QED
      BY <1>1, <3>1, <3>2, HandleRebalanceLeavesHeadroom
  <2>5. ASSUME NEW e \in Exchanges, ripcord(e)
        PROVE  FALSE
    <3>1. /\ tradeTo(methodology.maxLeverageRatio, FALSE,
                     exchangeSettings[e].incentivizedTwapMaxTradeSize,
                     incentive.incentivizedSlippageTolerance)
          /\ solvent /\ setTotalSupply > 0
      BY <2>5 DEF ripcord, validRipcord, leveraged
    <3>2. borrow' <= borrow /\ PositionTypeOK'
      BY <2>1, <3>1, TradeKeepsPosition, SettingsFacts, SizesAreNat
    <3>. QED  BY <1>1, <2>1, <3>2 DEF PositionTypeOK
  <2>6. ASSUME NEW e \in Exchanges, disengage(e)
        PROVE  FALSE
    <3>. DEFINE chunk == chunkRebalanceNotional(PreciseUnit, FALSE,
                                                exchangeSettings[e].twapMaxTradeSize)
    <3>1. /\ chunkIsDefined(PreciseUnit, FALSE) /\ solvent /\ setTotalSupply > 0
          /\ \/ deleverNotional(chunk, execution.slippageTolerance)
             \/ borrow' = 0
      BY <2>6 DEF disengage, leveraged, deleverToZeroBorrowBalance
    <3>2. chunk \in Nat
      BY <2>1, <3>1, ChunkIsNat, SizesAreNat, PreciseUnitAssumption
    <3>. HIDE DEF chunk
    <3>3. CASE deleverNotional(chunk, execution.slippageTolerance)
      <4>1. borrow' <= borrow /\ PositionTypeOK'
        BY <2>1, <3>1, <3>2, <3>3, DeleverKeepsPosition, SettingsFacts
      <4>. QED  BY <1>1, <2>1, <4>1 DEF PositionTypeOK
    <3>4. CASE borrow' = 0
      BY <1>1, <2>1, <3>4
    <3>. QED  BY <3>1, <3>3, <3>4
  <2>7. ASSUME UNCHANGED positionVars
        PROVE  FALSE
    BY <1>1, <2>1, <2>7 DEF positionVars
  <2>8. CASE keeperCalls
    BY <2>3, <2>4, <2>5, <2>8 DEF keeperCalls
  <2>9. CASE operatorCalls
    <3>1. \/ \E e \in Exchanges : engage(e) \/ disengage(e)
          \/ UNCHANGED positionVars
      BY <2>9
         DEF operatorCalls, removeEnabledExchange, addEnabledExchange,
             updateEnabledExchange, setMethodologySettings, setExecutionSettings,
             setIncentiveSettings, withdrawEtherBalance
    <3>. QED  BY <2>2, <2>6, <2>7, <3>1
  <2>10. CASE receive \/ timePasses \/ market
    BY <2>7, <2>10 DEF receive, timePasses, market, latestAnswer, issueOrRedeem
  <2>. QED  BY <1>1, <2>8, <2>9, <2>10 DEF Next
<1>2. IInv /\ [Next]_vars => [borrow' > borrow => borrowValue' <= netBorrowLimit']_vars
  BY <1>1
<1>. QED
  BY Invariance, <1>2, PTL DEF Spec, LeverLeavesHeadroom

-----------------------------------------------------------------------------
(* What Compound lets a delever take out.                                  *)

LEMMA TimesCancelsWeakly ==
  ASSUME NEW a \in Int, NEW b \in Int, NEW u \in Nat \ {0}, a * u <= b * u
  PROVE  a <= b
<1>. SUFFICES ASSUME b + 1 <= a PROVE FALSE
  OBVIOUS
<1>1. (b + 1) * u <= a * u
  BY TimesIsMonotone
<1>2. (b + 1) * u = b * u + u /\ b * u \in Int /\ a * u \in Int
  OBVIOUS
<1>. QED
  BY <1>1, <1>2

(* A quotient times k, times its divisor.                                  *)
LEMMA ScaledQuotient ==
  ASSUME NEW q, NEW a \in Nat, NEW n \in Nat \ {0}, isQuotient(q, a, n), NEW k \in Nat
  PROVE  q \in Nat /\ (q * k) * n <= a * k
<1>1. q \in Nat /\ n * q <= a
  BY DEF isQuotient
<1>2. (n * q) * k <= a * k
  <2>1. n * q \in Int
    BY <1>1
  <2>. QED  BY <1>1, <2>1, TimesIsMonotone
<1>3. (n * q) * k = (q * k) * n
  BY <1>1
<1>. QED
  BY <1>1, <1>2, <1>3

(* What a delever takes out, u of C units, is no larger than the headroom's *)
(* share of the limit L.                                                   *)
LEMMA ChunkIsShare ==
  ASSUME NEW U \in Nat \ {0}, NEW N \in Nat \ {0}, NEW L \in Nat \ {0},
         NEW C \in Nat, NEW h \in 0 .. L,
         NEW cb, isQuotient(cb, C * N, U),
         NEW t, isQuotient(t, cb * h, U), NEW m, isQuotient(m, t * U, L),
         NEW c \in Nat, c <= m, NEW u, isQuotient(u, c * U, N)
  PROVE  u \in 0 .. C /\ C * (L - h) <= (C - u) * L
<1>0. cb \in Nat /\ t \in Nat /\ m \in Nat /\ u \in Nat
  BY DEF isQuotient
<1>1. (u * L) * N <= (c * U) * L
  BY ScaledQuotient, c * U \in Nat, L \in Nat
<1>2. c * L <= t * U
  <2>1. c * L <= m * L /\ c * L \in Int /\ m * L \in Int
    BY <1>0, TimesIsMonotone
  <2>2. L * m <= t * U /\ L * m = m * L /\ t * U \in Int
    BY <1>0 DEF isQuotient
  <2>. QED  BY <2>1, <2>2
<1>3. t * U <= cb * h
  BY <1>0 DEF isQuotient
<1>4. (c * L) * U <= (cb * h) * U
  <2>1. c * L \in Int /\ cb * h \in Int /\ t * U \in Int
    BY <1>0
  <2>2. c * L <= cb * h
    BY <1>2, <1>3, <2>1
  <2>. QED  BY <2>1, <2>2, TimesIsMonotone
<1>5. (cb * h) * U <= (C * N) * h
  <2>1. C * N \in Nat /\ h \in Nat
    OBVIOUS
  <2>. QED  BY <2>1, ScaledQuotient
<1>6. (u * L) * N <= (C * h) * N
  <2>1. (c * U) * L = (c * L) * U /\ (C * N) * h = (C * h) * N
    OBVIOUS
  <2>2. /\ (c * L) * U \in Int /\ (cb * h) * U \in Int
        /\ (u * L) * N \in Int /\ (C * h) * N \in Int
    BY <1>0
  <2>. QED  BY <1>1, <1>4, <1>5, <2>1, <2>2
<1>7. u * L <= C * h /\ u * L \in Int /\ C * h \in Int
  <2>1. u * L \in Int /\ C * h \in Int
    BY <1>0
  <2>. QED  BY <1>6, <2>1, TimesCancelsWeakly
<1>8. C * h <= C * L
  <2>1. h * C <= L * C /\ h * C = C * h /\ L * C = C * L
    BY TimesIsMonotone
  <2>. QED  BY <2>1
<1>9. u <= C
  <2>1. u * L <= C * L
    BY <1>7, <1>8, C * L \in Int
  <2>. QED  BY <1>0, <2>1, TimesCancelsWeakly
<1>10. C * (L - h) = C * L - C * h /\ (C - u) * L = C * L - u * L /\ C * L \in Int
  BY <1>0
<1>. QED
  BY <1>0, <1>7, <1>9, <1>10

(* The limit is no larger than what the price, the collateral factor F and *)
(* the unutilized share U - y make of C units.                             *)
LEMMA LimitIsBounded ==
  ASSUME NEW U \in Nat \ {0}, NEW N \in Nat, NEW C \in Nat, NEW p \in Nat,
         NEW F \in Nat, NEW y \in Nat,
         NEW cb, isQuotient(cb, C * N, U), NEW cv, isQuotient(cv, p * cb, U),
         NEW l, isQuotient(l, cv * F, U), NEW L, isQuotient(L, l * y, U)
  PROVE  L * U * U * U * U <= C * (N * p * F * y)
<1>0. cb \in Nat /\ cv \in Nat /\ l \in Nat /\ L \in Nat
  BY DEF isQuotient
<1>1. L * U <= l * y /\ L * U \in Int /\ l * y \in Int
  BY <1>0 DEF isQuotient
<1>2. (l * y) * U <= (cv * F) * y
  BY <1>0, ScaledQuotient, cv * F \in Nat
<1>3. (cv * (F * y)) * U <= (p * cb) * (F * y)
  BY <1>0, ScaledQuotient, p * cb \in Nat, F * y \in Nat
<1>4. (cb * (p * F * y)) * U <= (C * N) * (p * F * y)
  BY <1>0, ScaledQuotient, C * N \in Nat, p * F * y \in Nat
<1>5. L * U * U <= cv * (F * y)
  <2>1. (L * U) * U <= (l * y) * U
    BY <1>1, TimesIsMonotone
  <2>2. /\ (L * U) * U \in Int /\ (l * y) * U \in Int /\ (cv * F) * y \in Int
        /\ (cv * F) * y = cv * (F * y)
    BY <1>0
  <2>. QED  BY <1>2, <2>1, <2>2
<1>6. L * U * U * U <= cb * (p * F * y)
  <2>1. L * U * U \in Int /\ cv * (F * y) \in Int
    BY <1>0
  <2>2. (L * U * U) * U <= (cv * (F * y)) * U
    BY <1>5, <2>1, TimesIsMonotone
  <2>3. /\ (L * U * U) * U \in Int /\ (cv * (F * y)) * U \in Int
        /\ (p * cb) * (F * y) \in Int /\ (p * cb) * (F * y) = cb * (p * F * y)
    BY <1>0
  <2>. QED  BY <1>3, <2>2, <2>3
<1>7. L * U * U * U \in Int /\ cb * (p * F * y) \in Int
  BY <1>0
<1>8. (L * U * U * U) * U <= (cb * (p * F * y)) * U
  BY <1>6, <1>7, TimesIsMonotone
<1>9. /\ (L * U * U * U) * U \in Int /\ (cb * (p * F * y)) * U \in Int
      /\ (C * N) * (p * F * y) \in Int
      /\ (C * N) * (p * F * y) = C * (N * p * F * y)
  BY <1>0
<1>. QED
  BY <1>4, <1>8, <1>9

(* What is left, r units, then supports the debt B: rounding down twice,   *)
(* it is worth at least B, when the unutilized share x of the debt covers  *)
(* the roundings.                                                          *)
LEMMA RestSupportsDebt ==
  ASSUME NEW U \in Nat \ {0}, NEW N \in Nat \ {0}, NEW p \in Nat,
         NEW F \in 0 .. U, NEW x \in 0 .. U,
         NEW C \in Nat, NEW r \in Nat, NEW L \in Nat \ {0}, NEW B \in Nat,
         NEW v, isQuotient(v, B * N, U),
         C * v <= r * L,
         L * U * U * U * U <= C * (N * p * F * (U - x)),
         NEW s, isQuotient(s, r * p, U), NEW g, isQuotient(g, s * F, U),
         U * U + U * N <= B * x * N
  PROVE  B <= g
<1>. DEFINE y == U - x
<1>0. /\ v \in Nat /\ s \in Nat /\ g \in Nat /\ y \in Nat /\ F \in Nat /\ x \in Nat
      /\ B * N < U * v + U
      /\ r * p < U * s + U
      /\ s * F < U * g + U
  BY DEF isQuotient
<1>1. C * (N * p * F * y) \in Nat /\ L * U * U * U * U \in Nat \ {0}
      /\ N * p * F * y \in Nat
  BY <1>0
<1>. SUFFICES ASSUME g + 1 <= B PROVE FALSE
  BY <1>0
<1>2. C \in Nat \ {0}
  <2>. SUFFICES ASSUME C = 0 PROVE FALSE
    OBVIOUS
  <2>1. C * (N * p * F * y) = 0
    BY <1>1
  <2>. QED  BY <1>1, <2>1
<1>3. v * (U * U * U * U) <= r * (N * p * F * y)
  <2>. DEFINE K == N * p * F * y
              W == U * U * U * U
  <2>1. W \in Nat /\ K \in Nat
    BY <1>1
  <2>2. L * W <= C * K
    <3>1. L * U * U * U * U = L * W
      OBVIOUS
    <3>. QED  BY <3>1
  <2>. HIDE DEF K, W
  <2>3. (C * v) * W <= (r * L) * W
    BY <1>0, <2>1, TimesIsMonotone, C * v \in Int, r * L \in Int
  <2>4. (L * W) * r <= (C * K) * r
    BY <2>1, <2>2, TimesIsMonotone, L * W \in Int, C * K \in Int
  <2>5. /\ (C * v) * W = (v * W) * C /\ (r * L) * W = (L * W) * r
        /\ (C * K) * r = (r * K) * C
        /\ (v * W) * C \in Int /\ (L * W) * r \in Int /\ (r * K) * C \in Int
    BY <1>0, <2>1
  <2>6. (v * W) * C <= (r * K) * C
    BY <2>3, <2>4, <2>5
  <2>7. v * W <= r * K
    BY <1>0, <1>2, <2>1, <2>6, TimesCancelsWeakly, v * W \in Int, r * K \in Int
  <2>. QED  BY <2>7 DEF K, W
<1>4. r * p * F <= U * U * (B + 1)
  <2>1. (r * p) * F <= (U * s + U) * F
    BY <1>0, TimesIsMonotone, r * p \in Int, U * s + U \in Int
  <2>2. U * g + U <= U * B
    <3>1. (g + 1) * U <= B * U /\ (g + 1) * U = U * g + U /\ B * U = U * B
      BY <1>0, TimesIsMonotone
    <3>. QED  BY <3>1
  <2>3. s * F <= U * B
    BY <1>0, <2>2, s * F \in Int, U * g \in Int, U * B \in Int
  <2>4. (s * F) * U <= (U * B) * U
    BY <1>0, <2>3, TimesIsMonotone, s * F \in Int, U * B \in Int
  <2>5. F * U <= U * U
    BY <1>0, TimesIsMonotone
  <2>6. /\ (U * s + U) * F = (s * F) * U + F * U
        /\ U * U * (B + 1) = (U * B) * U + U * U
        /\ (s * F) * U \in Int /\ F * U \in Int /\ (U * B) * U \in Int /\ U * U \in Int
        /\ (r * p) * F \in Int
    BY <1>0
  <2>. QED  BY <2>1, <2>4, <2>5, <2>6
<1>5. v * (U * U * U * U) <= (U * U * (B + 1)) * (N * y)
  <2>1. (r * p * F) * (N * y) <= (U * U * (B + 1)) * (N * y)
    BY <1>0, <1>4, TimesIsMonotone, r * p * F \in Int, U * U * (B + 1) \in Int, N * y \in Nat
  <2>2. r * (N * p * F * y) = (r * p * F) * (N * y)
    BY <1>0
  <2>3. /\ v * (U * U * U * U) \in Int /\ r * (N * p * F * y) \in Int
        /\ (U * U * (B + 1)) * (N * y) \in Int
    BY <1>0
  <2>. QED  BY <1>3, <2>1, <2>2, <2>3
<1>6. (v * U) * U <= (B + 1) * (N * y)
  <2>. DEFINE W == U * U
  <2>1. W \in Nat \ {0}
    OBVIOUS
  <2>2. /\ v * (U * U * U * U) = ((v * U) * U) * W
        /\ (U * U * (B + 1)) * (N * y) = ((B + 1) * (N * y)) * W
    BY <1>0
  <2>3. (v * U) * U \in Int /\ (B + 1) * (N * y) \in Int
    BY <1>0
  <2>. HIDE DEF W
  <2>. QED  BY <1>5, <2>1, <2>2, <2>3, TimesCancelsWeakly
<1>7. (B * N + 1) * U <= (v * U + U) * U
  <2>1. B * N + 1 <= v * U + U /\ B * N + 1 \in Int /\ v * U + U \in Int
    <3>1. v * U = U * v /\ U * v \in Int /\ B * N \in Int
      BY <1>0
    <3>. QED  BY <1>0, <3>1
  <2>. QED  BY <2>1, TimesIsMonotone
<1>8. (v * U + U) * U = (v * U) * U + U * U
  BY <1>0
<1>9. /\ (B * N + 1) * U = B * N * U + U
      /\ (B + 1) * (N * y) = B * N * U + N * U - B * x * N - N * x
  BY <1>0
<1>10. /\ B * N * U \in Int /\ N * U \in Int /\ B * x * N \in Int /\ N * x \in Nat
       /\ U * U \in Int /\ (v * U) * U \in Int /\ U * N = N * U
  BY <1>0
<1>. HIDE DEF y
<1>. QED
  BY <1>6, <1>7, <1>8, <1>9, <1>10

(* The part of the debt that the unutilized percentage keeps free is worth *)
(* the roundings of one SetToken: at least PreciseUnit / setTotalSupply    *)
(* units for the debt's value and one for the collateral's.                *)
unutilizedCoversRoundings ==
  borrow * execution.unutilizedLeveragePercentage * setTotalSupply
    >= PreciseUnit * PreciseUnit + PreciseUnit * setTotalSupply

(* _calculateMaxBorrowCollateral, the chunk, _delever and Compound's rule. *)
LEMMA DeleverFits ==
  ASSUME TypeOK, SettingsValid, solvent, setTotalSupply > 0, borrowBalance > 0,
         withinBorrowLimit, unutilizedCoversRoundings,
         NEW newRatio \in Nat, newRatio <= currentLeverageRatio,
         NEW maxTradeSize \in Nat
  PROVE  deleverFits(newRatio, maxTradeSize)
<1>. DEFINE U == PreciseUnit
            x == execution.unutilizedLeveragePercentage
            chunk == chunkRebalanceNotional(newRatio, FALSE, maxTradeSize)
            units == collateralUnits(chunk)
            headroom == netBorrowLimit - borrowValue
            share == preciseMul(collateralBalance, headroom)
            most == preciseDiv(share, netBorrowLimit)
            lent == preciseMul(collateralValue, CollateralFactor)
            rest == collateral - units
            worth == preciseMul(rest, collateralPrice)
            allowed == preciseMul(worth, CollateralFactor)
<1>1. /\ collateral \in Nat /\ borrow \in Nat /\ collateralPrice \in Nat
      /\ setTotalSupply \in Nat \ {0} /\ PreciseUnit \in Nat \ {0}
      /\ collateralBalance \in Nat /\ collateralValue \in Nat /\ borrowValue \in Nat
      /\ CollateralFactor \in 0 .. PreciseUnit /\ x \in 0 .. PreciseUnit
      /\ PreciseUnit - x \in Nat
  BY ActionInfoIsNat, SettingsFacts, PreciseUnitAssumption, FactorAssumption
<1>2. borrowValue = borrowBalance /\ borrowValue \in Nat \ {0}
  BY <1>1, ActionInfoIsNat, TimesUnit DEF borrowValue
<1>3. netBorrowLimit \in Nat \ {0} /\ headroom \in 0 .. netBorrowLimit
  BY <1>2, ActionInfoIsNat DEF withinBorrowLimit
<1>4. chunkIsDefined(newRatio, FALSE)
  BY <1>3 DEF chunkIsDefined
<1>5. chunk \in Nat
  BY <1>4, ChunkIsNat
<1>6. /\ isQuotient(collateralBalance, collateral * setTotalSupply, PreciseUnit)
      /\ isQuotient(collateralValue, collateralPrice * collateralBalance, PreciseUnit)
      /\ isQuotient(borrowValue, borrow * setTotalSupply, PreciseUnit)
  <2>1. /\ collateral * setTotalSupply \in Nat /\ collateralPrice * collateralBalance \in Nat
        /\ borrow * setTotalSupply \in Nat
    BY <1>1
  <2>. QED
    BY <1>1, <1>2, <2>1, DivIsQuotient
       DEF collateralBalance, collateralValue, borrowBalance, preciseMul
<1>7. /\ isQuotient(lent, collateralValue * CollateralFactor, PreciseUnit)
      /\ isQuotient(netBorrowLimit, lent * (PreciseUnit - x), PreciseUnit)
  <2>1. collateralValue * CollateralFactor \in Nat
    BY <1>1
  <2>2. isQuotient(lent, collateralValue * CollateralFactor, PreciseUnit)
    BY <1>1, <2>1, DivIsQuotient DEF preciseMul
  <2>3. lent \in Nat
    BY <2>2 DEF isQuotient
  <2>4. netBorrowLimit = preciseMul(lent, PreciseUnit - x)
    BY DEF netBorrowLimit
  <2>. HIDE DEF lent
  <2>5. lent * (PreciseUnit - x) \in Nat
    BY <1>1, <2>3, ProductIsNat
  <2>. QED
    BY <1>1, <2>2, <2>4, <2>5, DivIsQuotient DEF preciseMul
<1>8. isQuotient(share, collateralBalance * headroom, PreciseUnit)
  <2>. HIDE DEF headroom
  <2>1. collateralBalance * headroom \in Nat
    BY <1>1, <1>3
  <2>. QED  BY <1>1, <2>1, DivIsQuotient DEF preciseMul
<1>9. isQuotient(most, share * PreciseUnit, netBorrowLimit)
  <2>1. share \in Nat
    BY <1>8 DEF isQuotient
  <2>. HIDE DEF share
  <2>2. share * PreciseUnit \in Nat
    BY <1>1, <2>1
  <2>. QED  BY <1>3, <2>2, DivIsQuotient DEF preciseDiv
<1>10. chunk <= most
  <2>. DEFINE total == totalRebalanceNotional(newRatio, FALSE)
              either == minOf(most, total)
  <2>1. chunk = minOf(either, maxTradeSize)
    BY DEF chunkRebalanceNotional, maxBorrowCollateral
  <2>2. most \in Nat
    BY <1>9 DEF isQuotient
  <2>3. total \in Nat
    BY <1>4, ChunkIsNat
  <2>. HIDE DEF most, total
  <2>4. either \in Nat /\ either <= most
    BY <2>2, <2>3, MinIsLower
  <2>. HIDE DEF either, chunk
  <2>5. chunk <= either
    BY <2>1, <2>4, MinIsLower
  <2>. QED  BY <1>5, <2>2, <2>4, <2>5
<1>11. isQuotient(units, chunk * PreciseUnit, setTotalSupply)
  <2>. HIDE DEF chunk
  <2>1. chunk * PreciseUnit \in Nat
    BY <1>1, <1>5
  <2>. QED  BY <1>1, <2>1, DivIsQuotient DEF collateralUnits, preciseDiv
<1>. HIDE DEF chunk, units, share, most, lent, x, headroom
<1>12. /\ units \in 0 .. collateral
       /\ collateral * (netBorrowLimit - headroom) <= (collateral - units) * netBorrowLimit
  BY <1>1, <1>3, <1>5, <1>6, <1>8, <1>9, <1>10, <1>11, ChunkIsShare
<1>13. collateral * borrowValue <= rest * netBorrowLimit /\ rest \in Nat
  <2>1. netBorrowLimit - headroom = borrowValue
    BY <1>1, <1>3 DEF headroom
  <2>. QED  BY <1>1, <1>12, <2>1
<1>14. netBorrowLimit * U * U * U * U
         <= collateral * (setTotalSupply * collateralPrice * CollateralFactor * (U - x))
  <2>1. CollateralFactor \in Nat
    BY <1>1
  <2>. QED  BY <1>1, <1>6, <1>7, <2>1, LimitIsBounded
<1>. HIDE DEF rest
<1>15. /\ isQuotient(worth, rest * collateralPrice, PreciseUnit)
       /\ isQuotient(allowed, worth * CollateralFactor, PreciseUnit)
  <2>1. rest * collateralPrice \in Nat
    BY <1>1, <1>13, ProductIsNat
  <2>2. isQuotient(worth, rest * collateralPrice, PreciseUnit)
    BY <1>1, <2>1, DivIsQuotient DEF preciseMul
  <2>3. worth \in Nat
    BY <2>2 DEF isQuotient
  <2>. HIDE DEF worth
  <2>4. worth * CollateralFactor \in Nat
    BY <1>1, <2>3
  <2>. QED  BY <1>1, <2>2, <2>4, DivIsQuotient DEF preciseMul
<1>16. U * U + U * setTotalSupply <= borrow * x * setTotalSupply
  <2>1. borrow * x * setTotalSupply >= U * U + U * setTotalSupply
    BY DEF unutilizedCoversRoundings, x
  <2>2. borrow * x * setTotalSupply \in Int /\ U * U + U * setTotalSupply \in Int
    BY <1>1
  <2>. QED  BY <2>1, <2>2
<1>. HIDE DEF worth, allowed
<1>17. borrow <= allowed
  BY <1>1, <1>3, <1>6, <1>13, <1>14, <1>15, <1>16, RestSupportsDebt
<1>18. preciseMul(borrow, PreciseUnit) = borrow
  BY <1>1, TimesUnit
<1>19. compoundAllows(collateral - units, borrow)
  BY <1>17, <1>18 DEF compoundAllows, allowed, worth, rest
<1>20. units <= collateral
  BY <1>1, <1>12
<1>. QED
  BY <1>19, <1>20 DEF deleverFits, units, chunk

(* While the unutilized percentage covers the roundings, as it is there    *)
(* to, Compound lends rebalance and ripcord every delever they compute.    *)
THEOREM DeleversFit == Spec => [](unutilizedCoversRoundings => DeleverFitsCompound)
<1>1. IInv => (unutilizedCoversRoundings => DeleverFitsCompound)
  <2>. SUFFICES ASSUME IInv, unutilizedCoversRoundings, NEW e \in Exchanges
                PROVE  /\ validRipcord(e) /\ withinBorrowLimit =>
                            deleverFits(methodology.maxLeverageRatio,
                                        exchangeSettings[e].incentivizedTwapMaxTradeSize)
                       /\ validRebalance(e) /\ withinBorrowLimit
                            /\ ~ isLeverTo(newLeverageRatio) =>
                            deleverFits(newLeverageRatio, exchangeSettings[e].twapMaxTradeSize)
    BY DEF DeleverFitsCompound
  <2>1. TypeOK /\ SettingsValid
    BY DEF IInv
  <2>2. ASSUME validRipcord(e), withinBorrowLimit
        PROVE  deleverFits(methodology.maxLeverageRatio,
                           exchangeSettings[e].incentivizedTwapMaxTradeSize)
    <3>1. /\ solvent /\ setTotalSupply > 0 /\ borrowBalance > 0
          /\ currentLeverageRatio >= incentive.incentivizedLeverageRatio
      BY <2>2 DEF validRipcord, leveraged
    <3>2. /\ methodology.maxLeverageRatio \in Nat
          /\ methodology.maxLeverageRatio <= currentLeverageRatio
      BY <2>1, <3>1, RatioIsPositive, SettingsFacts
    <3>. QED  BY <2>1, <2>2, <3>1, <3>2, SizesAreNat, DeleverFits
  <2>3. ASSUME validRebalance(e), withinBorrowLimit, ~ isLeverTo(newLeverageRatio)
        PROVE  deleverFits(newLeverageRatio, exchangeSettings[e].twapMaxTradeSize)
    <3>1. solvent /\ setTotalSupply > 0 /\ borrowBalance > 0
      BY <2>3 DEF validRebalance, leveraged
    <3>2. newLeverageRatio \in Nat /\ newLeverageRatio <= currentLeverageRatio
      BY <2>1, <2>3, <3>1, RatioIsPositive, NewRatioIsClamped DEF isLeverTo
    <3>. QED  BY <2>1, <2>3, <3>1, <3>2, SizesAreNat, DeleverFits
  <2>. QED  BY <2>2, <2>3
<1>. QED
  BY Invariance, <1>1, PTL

-----------------------------------------------------------------------------
(* Where trades stop.                                                      *)

(* The debt w after a lever from leverage L to R: the chunk c is at most   *)
(* the t that the difference of the ratios, in proportion to L, makes of   *)
(* the collateral C; E is the equity V - D, and i what R is of L.          *)
LEMMA LeverNumbers ==
  ASSUME NEW U \in Nat \ {0}, NEW n \in Nat \ {0}, NEW p \in Nat, NEW C \in Nat,
         NEW b \in Nat, NEW D \in Nat, isQuotient(D, b * n, U),
         NEW E \in Nat \ {0}, NEW V, isQuotient(V, p * C, U), V = D + E,
         NEW L \in Nat \ {0}, isQuotient(L, V * U, E), NEW R \in Nat, L <= R,
         NEW i, isQuotient(i, R, L),
         NEW q, isQuotient(q, (R - L) * U, L), NEW t, isQuotient(t, q * C, U),
         NEW c \in Nat, c <= t, NEW u, isQuotient(u, c * U, n),
         NEW d, isQuotient(d, u * p, U), NEW w, isQuotient(w, (b + d) * n, U)
  PROVE  w * U < E * (R - U + i + 1) + (i + 1) * U
<1>1. /\ V \in Nat /\ i \in Nat /\ q \in Nat /\ t \in Nat /\ u \in Nat /\ d \in Nat
      /\ w \in Nat /\ R - L \in Nat
      /\ b * n < U * D + U /\ p * C < U * V + U /\ V * U < E * L + E
      /\ R < L * i + L /\ L * q <= (R - L) * U /\ U * t <= q * C
      /\ n * u <= c * U /\ U * d <= u * p /\ U * w <= (b + d) * n
  BY DEF isQuotient
<1>2. d * n <= t * p
  <2>1. (U * d) * n <= (u * p) * n
    BY <1>1, TimesIsMonotone, U * d \in Int, u * p \in Int
  <2>2. (n * u) * p <= (c * U) * p
    BY <1>1, TimesIsMonotone, n * u \in Int, c * U \in Int
  <2>3. /\ (U * d) * n = (d * n) * U /\ (u * p) * n = (n * u) * p
        /\ (c * U) * p = (c * p) * U
        /\ (d * n) * U \in Int /\ (n * u) * p \in Int /\ (c * p) * U \in Int
    BY <1>1
  <2>4. (d * n) * U <= (c * p) * U
    BY <2>1, <2>2, <2>3
  <2>5. d * n <= c * p
    BY <1>1, <2>4, TimesCancelsWeakly, d * n \in Int, c * p \in Int
  <2>6. c * p <= t * p
    BY <1>1, TimesIsMonotone
  <2>. QED  BY <1>1, <2>5, <2>6, d * n \in Int, c * p \in Int, t * p \in Int
<1>3. t * p <= q * (V + 1)
  <2>1. (U * t) * p <= (q * C) * p
    BY <1>1, TimesIsMonotone, U * t \in Int, q * C \in Int
  <2>2. (p * C) * q <= (U * V + U) * q
    <3>1. p * C <= U * V + U /\ p * C \in Int /\ U * V + U \in Int
      BY <1>1
    <3>. QED  BY <1>1, <3>1, TimesIsMonotone
  <2>3. /\ (U * t) * p = (t * p) * U /\ (q * C) * p = (p * C) * q
        /\ (U * V + U) * q = (q * (V + 1)) * U
        /\ (t * p) * U \in Int /\ (p * C) * q \in Int /\ (q * (V + 1)) * U \in Int
    BY <1>1
  <2>4. (t * p) * U <= (q * (V + 1)) * U
    BY <2>1, <2>2, <2>3
  <2>. QED  BY <1>1, <2>4, TimesCancelsWeakly, t * p \in Int, q * (V + 1) \in Int
<1>4. q <= i * U
  <2>1. (R - L) * U <= (L * i) * U
    <3>1. R - L <= L * i /\ R - L \in Int /\ L * i \in Int
      BY <1>1
    <3>. QED  BY <3>1, TimesIsMonotone
  <2>2. /\ q * L = L * q /\ (L * i) * U = (i * U) * L
        /\ q * L \in Int /\ (R - L) * U \in Int /\ (i * U) * L \in Int
    BY <1>1
  <2>3. q * L <= (i * U) * L
    BY <1>1, <2>1, <2>2
  <2>. QED  BY <1>1, <2>3, TimesCancelsWeakly, i * U \in Int
<1>5. q * (V + 1) <= (R - L) * E + i * E + i * U
  <2>1. (V * U) * q <= (E * L + E) * q
    <3>1. V * U <= E * L + E /\ V * U \in Int /\ E * L + E \in Int
      BY <1>1
    <3>. QED  BY <1>1, <3>1, TimesIsMonotone
  <2>2. (L * q) * E <= ((R - L) * U) * E
    BY <1>1, TimesIsMonotone, L * q \in Int, (R - L) * U \in Int
  <2>3. q * E <= (i * U) * E /\ q * U <= (i * U) * U
    BY <1>1, <1>4, TimesIsMonotone, i * U \in Int
  <2>4. /\ (q * (V + 1)) * U = (V * U) * q + q * U
        /\ (E * L + E) * q = (L * q) * E + q * E
        /\ ((R - L) * E + i * E + i * U) * U
             = ((R - L) * U) * E + (i * U) * E + (i * U) * U
    <3>1. PICK r \in Nat : r = R - L
      BY <1>1
    <3>. QED  BY <1>1, <3>1
  <2>5. /\ (V * U) * q \in Int /\ q * U \in Int /\ (L * q) * E \in Int /\ q * E \in Int
        /\ ((R - L) * U) * E \in Int /\ (i * U) * E \in Int /\ (i * U) * U \in Int
    BY <1>1
  <2>6. (q * (V + 1)) * U <= ((R - L) * E + i * E + i * U) * U
    BY <2>1, <2>2, <2>3, <2>4, <2>5
  <2>. QED
    BY <1>1, <2>6, TimesCancelsWeakly, q * (V + 1) \in Int, (R - L) * E + i * E + i * U \in Int
<1>6. w * U < U * D + U + (R - L) * E + i * E + i * U
  <2>1. /\ (b + d) * n = b * n + d * n /\ w * U = U * w
        /\ b * n \in Int /\ d * n \in Int /\ U * w \in Int /\ U * D \in Int /\ t * p \in Int
        /\ q * (V + 1) \in Int /\ (R - L) * E \in Int /\ i * E \in Int /\ i * U \in Int
    BY <1>1
  <2>. QED  BY <1>1, <1>2, <1>3, <1>5, <2>1
<1>7. U * D < E * L + E - E * U
  <2>1. V * U = U * D + E * U /\ U * D \in Int /\ E * U \in Int /\ E * L \in Int
    BY <1>1
  <2>. QED  BY <1>1, <2>1
<1>8. /\ (R - L) * E = E * R - E * L
      /\ E * (R - U + i + 1) + (i + 1) * U = E * R - E * U + i * E + E + i * U + U
      /\ E * R \in Int /\ E * L \in Int /\ E * U \in Int /\ i * E \in Int /\ i * U \in Int
      /\ U * D \in Int /\ w * U \in Int
  BY <1>1
<1>. QED
  BY <1>6, <1>7, <1>8

(* The collateral's value V2 after a delever from leverage L to R, of u of *)
(* K units: the roundings of the chunk make up for those of the balance    *)
(* and of the value.                                                       *)
LEMMA DeleverNumbers ==
  ASSUME NEW U \in Nat \ {0}, NEW n \in Nat \ {0}, NEW p \in Nat,
         NEW K \in Nat, NEW C, isQuotient(C, K * n, U),
         NEW E \in Nat \ {0}, NEW V, isQuotient(V, p * C, U),
         NEW L \in Nat \ {0}, isQuotient(L, V * U, E), NEW R \in Nat, R <= L,
         NEW q, isQuotient(q, (L - R) * U, L), NEW t, isQuotient(t, q * C, U),
         NEW c \in Nat, c <= t, NEW u, isQuotient(u, c * U, n), u <= K,
         NEW C2, isQuotient(C2, (K - u) * n, U), NEW V2, isQuotient(V2, p * C2, U),
         NEW z, isQuotient(z, E * R, U)
  PROVE  z <= V2
<1>1. /\ C \in Nat /\ V \in Nat /\ q \in Nat /\ t \in Nat /\ u \in Nat
      /\ C2 \in Nat /\ V2 \in Nat /\ z \in Nat /\ L - R \in Nat
      /\ U * C <= K * n /\ U * V <= p * C /\ E * L <= V * U
      /\ L * q <= (L - R) * U /\ U * t <= q * C /\ n * u <= c * U
      /\ (K - u) * n < U * C2 + U /\ p * C2 < U * V2 + U /\ U * z <= E * R
  BY DEF isQuotient
<1>2. C <= C2 + t
  <2>1. c * U <= t * U
    BY <1>1, TimesIsMonotone
  <2>2. /\ (K - u) * n = K * n - n * u /\ (C2 + t + 1) * U = U * C2 + U + t * U
        /\ C * U = U * C
        /\ K * n \in Int /\ n * u \in Int /\ U * C2 \in Int /\ t * U \in Int
        /\ U * C \in Int /\ c * U \in Int
    BY <1>1
  <2>3. C * U < (C2 + t + 1) * U
    BY <1>1, <2>1, <2>2
  <2>4. C < C2 + t + 1
    BY <1>1, <2>3, TimesCancels, C2 + t + 1 \in Int
  <2>. QED  BY <1>1, <2>4
<1>3. t * L <= (L - R) * C
  <2>1. (U * t) * L <= (q * C) * L
    BY <1>1, TimesIsMonotone, U * t \in Int, q * C \in Int
  <2>2. (L * q) * C <= ((L - R) * U) * C
    BY <1>1, TimesIsMonotone, L * q \in Int, (L - R) * U \in Int
  <2>3. /\ (U * t) * L = (t * L) * U /\ (q * C) * L = (L * q) * C
        /\ ((L - R) * U) * C = ((L - R) * C) * U
        /\ (t * L) * U \in Int /\ (L * q) * C \in Int /\ ((L - R) * C) * U \in Int
    BY <1>1
  <2>4. (t * L) * U <= ((L - R) * C) * U
    BY <2>1, <2>2, <2>3
  <2>. QED  BY <1>1, <2>4, TimesCancelsWeakly, t * L \in Int, (L - R) * C \in Int
<1>4. R * C <= C2 * L
  <2>1. C * L <= (C2 + t) * L
    BY <1>1, <1>2, TimesIsMonotone
  <2>2. /\ (C2 + t) * L = C2 * L + t * L /\ (L - R) * C = C * L - R * C
        /\ C * L \in Int /\ C2 * L \in Int /\ t * L \in Int /\ R * C \in Int
    BY <1>1
  <2>. QED  BY <1>3, <2>1, <2>2
<1>5. (E * R) * L <= (p * C2) * L
  <2>1. (R * C) * p <= (C2 * L) * p
    BY <1>1, <1>4, TimesIsMonotone, R * C \in Int, C2 * L \in Int
  <2>2. (E * L) * R <= (V * U) * R
    BY <1>1, TimesIsMonotone, E * L \in Int, V * U \in Int
  <2>3. (U * V) * R <= (p * C) * R
    BY <1>1, TimesIsMonotone, U * V \in Int, p * C \in Int
  <2>4. /\ (E * L) * R = (E * R) * L /\ (V * U) * R = (U * V) * R
        /\ (p * C) * R = (R * C) * p /\ (C2 * L) * p = (p * C2) * L
        /\ (E * R) * L \in Int /\ (U * V) * R \in Int /\ (R * C) * p \in Int
        /\ (p * C2) * L \in Int
    BY <1>1
  <2>. QED  BY <2>1, <2>2, <2>3, <2>4
<1>6. E * R <= p * C2
  BY <1>1, <1>5, TimesCancelsWeakly, E * R \in Int, p * C2 \in Int
<1>7. z * U < (V2 + 1) * U
  <2>1. /\ z * U = U * z /\ (V2 + 1) * U = U * V2 + U
        /\ U * z \in Int /\ E * R \in Int /\ p * C2 \in Int /\ U * V2 \in Int
    BY <1>1
  <2>. QED  BY <1>1, <1>6, <2>1
<1>8. z < V2 + 1
  BY <1>1, <1>7, TimesCancels
<1>. QED
  BY <1>1, <1>8

(* The total of a rebalance from its ratios, and the chunk within it.      *)
LEMMA TotalOfRatios ==
  ASSUME TypeOK, SettingsValid, solvent,
         NEW newRatio \in Nat, NEW isLever \in BOOLEAN, NEW maxTradeSize \in Nat,
         chunkIsDefined(newRatio, isLever),
         NEW difference \in Nat,
         difference = IF isLever THEN newRatio - currentLeverageRatio
                                 ELSE currentLeverageRatio - newRatio
  PROVE  /\ isQuotient(preciseDiv(difference, currentLeverageRatio),
                       difference * PreciseUnit, currentLeverageRatio)
         /\ isQuotient(totalRebalanceNotional(newRatio, isLever),
                       preciseDiv(difference, currentLeverageRatio) * collateralBalance,
                       PreciseUnit)
         /\ chunkRebalanceNotional(newRatio, isLever, maxTradeSize)
              <= totalRebalanceNotional(newRatio, isLever)
<1>. DEFINE q == preciseDiv(difference, currentLeverageRatio)
            total == totalRebalanceNotional(newRatio, isLever)
            chunk == chunkRebalanceNotional(newRatio, isLever, maxTradeSize)
            most == maxBorrowCollateral(isLever)
<1>1. isQuotient(q, difference * PreciseUnit, currentLeverageRatio)
  <2>1. difference * PreciseUnit \in Nat
    BY PreciseUnitAssumption
  <2>. QED  BY <2>1, RatioIsPositive, DivIsQuotient DEF preciseDiv
<1>2. total = preciseMul(q, collateralBalance)
  BY DEF totalRebalanceNotional
<1>3. q \in Nat
  BY <1>1 DEF isQuotient
<1>4. total \in Nat /\ chunk \in Nat
  BY ChunkIsNat
<1>5. chunk = minOf(minOf(most, total), maxTradeSize)
  BY DEF chunkRebalanceNotional
<1>. HIDE DEF q, total, chunk, most
<1>6. isQuotient(total, q * collateralBalance, PreciseUnit)
  <2>1. q * collateralBalance \in Nat
    BY <1>3, ActionInfoIsNat, ProductIsNat
  <2>. QED  BY <1>2, <2>1, DivIsQuotient, PreciseUnitAssumption DEF preciseMul
<1>7. chunk <= total
  BY <1>4, <1>5 DEF minOf
<1>. QED
  BY <1>1, <1>6, <1>7 DEF q, total, chunk

(* What a quotient and k more are at least.                                *)
LEMMA WithinQuotient ==
  ASSUME NEW w \in Nat, NEW x \in Nat, NEW i \in Nat, NEW u \in Nat \ {0},
         w * u < x + (i + 1) * u
  PROVE  w <= (x \div u) + i + 1
<1>. DEFINE q == x \div u
<1>1. isQuotient(q, x, u)
  BY DivIsQuotient
<1>. HIDE DEF q
<1>2. q \in Nat /\ x < u * q + u
  BY <1>1 DEF isQuotient
<1>3. w * u < (q + i + 2) * u
  <2>1. /\ (q + i + 2) * u = u * q + u + (i + 1) * u
        /\ u * q \in Int /\ (i + 1) * u \in Int /\ w * u \in Int
    BY <1>2
  <2>. QED  BY <1>2, <2>1
<1>4. w < q + i + 2
  BY <1>2, <1>3, TimesCancels, q + i + 2 \in Int
<1>. QED
  BY <1>2, <1>4 DEF q

(* The whole of a lever, from the oracle to what the SetToken owes.        *)
LEMMA LeverStops ==
  ASSUME TypeOK, SettingsValid, solvent, setTotalSupply > 0,
         NEW newRatio \in Nat, NEW maxTradeSize \in Nat,
         NEW slippage \in 0 .. PreciseUnit,
         tradeTo(newRatio, TRUE, maxTradeSize, slippage)
  PROVE  stopsAt(newRatio)
<1>. DEFINE chunk == chunkRebalanceNotional(newRatio, TRUE, maxTradeSize)
            total == totalRebalanceNotional(newRatio, TRUE)
            units == collateralUnits(chunk)
            debt == borrowUnits(units)
            minReceive == lessSlippage(units, slippage)
            L == currentLeverageRatio
            E == collateralValue - borrowValue
            i == newRatio \div L
            q == preciseDiv(newRatio - L, L)
            x == E * (newRatio - PreciseUnit + i + 1)
<1>1. chunkIsDefined(newRatio, TRUE) /\ leverNotional(chunk, slippage)
  BY DEF tradeTo
<1>2. /\ PreciseUnit \in Nat \ {0} /\ collateralPrice \in Nat \ {0}
      /\ setTotalSupply \in Nat \ {0} /\ borrow \in Nat /\ collateral \in Nat
      /\ collateralBalance \in Nat /\ collateralValue \in Nat /\ borrowValue \in Nat
      /\ E \in Nat \ {0} /\ collateralValue = borrowValue + E
  BY ActionInfoIsNat, PreciseUnitAssumption DEF solvent
<1>3. L \in Nat \ {0} /\ PreciseUnit <= L /\ L <= newRatio /\ newRatio - L \in Nat
  BY <1>1, RatioIsPositive DEF chunkIsDefined
<1>4. chunk \in Nat /\ total \in Nat
  BY <1>1, ChunkIsNat
<1>5. /\ isQuotient(q, (newRatio - L) * PreciseUnit, L)
      /\ isQuotient(total, q * collateralBalance, PreciseUnit)
      /\ chunk <= total
  BY <1>1, <1>3, TotalOfRatios
<1>6. isQuotient(units, chunk * PreciseUnit, setTotalSupply)
  <2>. HIDE DEF chunk
  <2>1. chunk * PreciseUnit \in Nat
    BY <1>2, <1>4, ProductIsNat
  <2>. QED  BY <1>2, <2>1, DivIsQuotient DEF collateralUnits, preciseDiv
<1>7. units \in Nat
  BY <1>6 DEF isQuotient
<1>8. isQuotient(debt, units * collateralPrice, PreciseUnit)
  <2>. HIDE DEF units
  <2>1. units * collateralPrice \in Nat /\ preciseMul(units, collateralPrice) \in Nat
    BY <1>2, <1>7, ProductIsNat, MulIsNat
  <2>2. debt = preciseMul(units, collateralPrice)
    BY <2>1, TimesUnit DEF borrowUnits
  <2>. QED  BY <1>2, <2>1, <2>2, DivIsQuotient DEF preciseMul
<1>9. debt \in Nat
  BY <1>8 DEF isQuotient
<1>10. minReceive \in Nat
  BY <1>7, MulIsNat, PreciseUnitAssumption, PreciseUnit - slippage \in Nat DEF lessSlippage
<1>11. lever(debt, minReceive)
  BY <1>1 DEF leverNotional
<1>12. isQuotient(L, collateralValue * PreciseUnit, E)
  <2>. HIDE DEF E
  <2>1. collateralValue * PreciseUnit \in Nat
    BY <1>2, ProductIsNat
  <2>2. L = (collateralValue * PreciseUnit) \div E
    BY DEF currentLeverageRatio, preciseDiv, E
  <2>. HIDE DEF L
  <2>. QED  BY <1>2, <2>1, <2>2, DivIsQuotient
<1>13. isQuotient(i, newRatio, L)
  <2>. HIDE DEF L
  <2>. QED  BY <1>3, DivIsQuotient
<1>14. plannedDebt(newRatio) = (x \div PreciseUnit) + i + 1
  BY DEF plannedDebt, preciseMul
<1>. HIDE DEF chunk, total, units, debt, minReceive, L, E, i, q
<1>15. i \in Nat
  BY <1>13 DEF isQuotient
<1>16. /\ borrow' = borrow + debt /\ ~ (collateral' < collateral)
       /\ UNCHANGED <<collateralPrice, setTotalSupply>>
  <2>1. PICK received \in minReceive .. soldBorrow(debt) : collateral' = collateral + received
    BY <1>11 DEF lever
  <2>2. ~ (collateral' < collateral)
    BY <1>2, <1>10, <2>1
  <2>. QED  BY <1>11, <2>2 DEF lever, marketVars
<1>17. /\ isQuotient(borrowValue, borrow * setTotalSupply, PreciseUnit)
       /\ isQuotient(borrowValue', (borrow + debt) * setTotalSupply, PreciseUnit)
  <2>1. borrowValue = (borrow * setTotalSupply) \div PreciseUnit
    BY <1>2, ValueOfDebt DEF borrowValue, borrowBalance
  <2>2. borrowValue' = preciseMul(PreciseUnit, preciseMul(borrow + debt, setTotalSupply))
    BY <1>16 DEF borrowValue, borrowBalance
  <2>3. borrow + debt \in Nat
    BY <1>2, <1>9
  <2>4. borrowValue' = ((borrow + debt) * setTotalSupply) \div PreciseUnit
    BY <1>2, <2>2, <2>3, ValueOfDebt
  <2>5. borrow * setTotalSupply \in Nat /\ (borrow + debt) * setTotalSupply \in Nat
    BY <1>2, <2>3, ProductIsNat
  <2>. QED  BY <1>2, <2>1, <2>4, <2>5, DivIsQuotient
<1>18. isQuotient(collateralValue, collateralPrice * collateralBalance, PreciseUnit)
  <2>1. collateralPrice * collateralBalance \in Nat
    BY <1>2, ProductIsNat
  <2>. QED  BY <1>2, <2>1, DivIsQuotient DEF collateralValue, preciseMul
<1>19. borrowValue' * PreciseUnit < x + (i + 1) * PreciseUnit
  <2>1. collateralPrice \in Nat
    BY <1>2
  <2>. QED
    BY <1>2, <1>3, <1>4, <1>5, <1>6, <1>8, <1>12, <1>13, <1>17, <1>18, <2>1, LeverNumbers
<1>20. x \in Nat
  <2>1. newRatio - PreciseUnit + i + 1 \in Nat
    BY <1>2, <1>3, <1>15
  <2>. QED  BY <1>2, <2>1, ProductIsNat
<1>. HIDE DEF x
<1>21. borrowValue' <= (x \div PreciseUnit) + i + 1
  BY <1>2, <1>15, <1>17, <1>19, <1>20, WithinQuotient DEF isQuotient
<1>. QED
  BY <1>14, <1>16, <1>21 DEF stopsAt

(* The whole of a delever.                                                 *)
LEMMA DeleverStops ==
  ASSUME TypeOK, SettingsValid, solvent, setTotalSupply > 0,
         NEW newRatio \in Nat, NEW maxTradeSize \in Nat,
         NEW slippage \in 0 .. PreciseUnit,
         tradeTo(newRatio, FALSE, maxTradeSize, slippage)
  PROVE  stopsAt(newRatio)
<1>. DEFINE chunk == chunkRebalanceNotional(newRatio, FALSE, maxTradeSize)
            total == totalRebalanceNotional(newRatio, FALSE)
            units == collateralUnits(chunk)
            minRepay == lessSlippage(borrowUnits(units), slippage)
            L == currentLeverageRatio
            E == collateralValue - borrowValue
            q == preciseDiv(L - newRatio, L)
            rest == collateral - units
            balance == preciseMul(rest, setTotalSupply)
            z == preciseMul(E, newRatio)
<1>1. chunkIsDefined(newRatio, FALSE) /\ deleverNotional(chunk, slippage)
  BY DEF tradeTo
<1>2. /\ PreciseUnit \in Nat \ {0} /\ collateralPrice \in Nat
      /\ setTotalSupply \in Nat \ {0} /\ borrow \in Nat /\ collateral \in Nat
      /\ collateralBalance \in Nat /\ collateralValue \in Nat /\ borrowValue \in Nat
      /\ E \in Nat \ {0}
  BY ActionInfoIsNat, PreciseUnitAssumption DEF solvent
<1>3. L \in Nat \ {0} /\ newRatio <= L /\ L - newRatio \in Nat
  BY <1>1, RatioIsPositive DEF chunkIsDefined
<1>4. chunk \in Nat /\ total \in Nat
  BY <1>1, ChunkIsNat
<1>5. /\ isQuotient(q, (L - newRatio) * PreciseUnit, L)
      /\ isQuotient(total, q * collateralBalance, PreciseUnit)
      /\ chunk <= total
  BY <1>1, <1>3, TotalOfRatios
<1>6. isQuotient(units, chunk * PreciseUnit, setTotalSupply)
  <2>. HIDE DEF chunk
  <2>1. chunk * PreciseUnit \in Nat
    BY <1>2, <1>4, ProductIsNat
  <2>. QED  BY <1>2, <2>1, DivIsQuotient DEF collateralUnits, preciseDiv
<1>7. delever(units, minRepay)
  BY <1>1 DEF deleverNotional
<1>8. PositionTypeOK' /\ borrow' <= borrow
  BY <1>1, <1>4, DeleverKeepsPosition
<1>9. isQuotient(L, collateralValue * PreciseUnit, E)
  <2>. HIDE DEF E
  <2>1. collateralValue * PreciseUnit \in Nat
    BY <1>2, ProductIsNat
  <2>2. L = (collateralValue * PreciseUnit) \div E
    BY DEF currentLeverageRatio, preciseDiv, E
  <2>. HIDE DEF L
  <2>. QED  BY <1>2, <2>1, <2>2, DivIsQuotient
<1>. HIDE DEF chunk, total, units, minRepay, L, q
<1>10. units \in Nat
  BY <1>6 DEF isQuotient
<1>11. /\ units <= collateral /\ collateral' = collateral - units /\ rest \in Nat
       /\ UNCHANGED <<collateralPrice, setTotalSupply>>
  BY <1>2, <1>7, <1>10 DEF delever, marketVars
<1>12. /\ isQuotient(collateralBalance, collateral * setTotalSupply, PreciseUnit)
       /\ isQuotient(collateralValue, collateralPrice * collateralBalance, PreciseUnit)
  <2>1. collateral * setTotalSupply \in Nat /\ collateralPrice * collateralBalance \in Nat
    BY <1>2, ProductIsNat
  <2>. QED  BY <1>2, <2>1, DivIsQuotient DEF collateralBalance, collateralValue, preciseMul
<1>13. isQuotient(z, E * newRatio, PreciseUnit) /\ z = plannedCollateral(newRatio)
  <2>1. z = plannedCollateral(newRatio)
    BY DEF plannedCollateral
  <2>. HIDE DEF E
  <2>2. E * newRatio \in Nat
    BY <1>2, ProductIsNat
  <2>. QED  BY <1>2, <2>1, <2>2, DivIsQuotient DEF preciseMul
<1>14. collateralValue' = preciseMul(collateralPrice, balance)
  BY <1>11 DEF collateralValue, collateralBalance
<1>. HIDE DEF E, z
<1>15. /\ isQuotient(balance, (collateral - units) * setTotalSupply, PreciseUnit)
       /\ isQuotient(collateralValue', collateralPrice * balance, PreciseUnit)
  <2>1. (collateral - units) * setTotalSupply \in Nat
    BY <1>2, <1>11, ProductIsNat
  <2>2. isQuotient(balance, (collateral - units) * setTotalSupply, PreciseUnit)
    BY <1>2, <2>1, DivIsQuotient DEF preciseMul
  <2>3. balance \in Nat
    BY <2>2 DEF isQuotient
  <2>. HIDE DEF balance
  <2>4. collateralPrice * balance \in Nat
    BY <1>2, <2>3, ProductIsNat
  <2>5. isQuotient(collateralValue', collateralPrice * balance, PreciseUnit)
    BY <1>2, <1>14, <2>4, DivIsQuotient DEF preciseMul
  <2>. QED  BY <2>2, <2>5
<1>. HIDE DEF balance, rest
<1>16. z <= collateralValue'
  BY <1>2, <1>3, <1>4, <1>5, <1>6, <1>9, <1>11, <1>12, <1>13, <1>15, DeleverNumbers
<1>17. z \in Nat /\ collateralValue' \in Nat
  BY <1>13, <1>15 DEF isQuotient
<1>18. ~ (borrow' > borrow)
  BY <1>2, <1>8, MaxPositionAssumption DEF PositionTypeOK
<1>. QED
  BY <1>13, <1>16, <1>17, <1>18 DEF stopsAt

LEMMA HandleRebalanceStops ==
  ASSUME TypeOK, SettingsValid, solvent, setTotalSupply > 0,
         NEW e \in Exchanges, NEW newRatio \in Nat, handleRebalance(e, newRatio)
  PROVE  stopsAt(newRatio)
<1>1. tradeTo(newRatio, isLeverTo(newRatio), exchangeSettings[e].twapMaxTradeSize,
              execution.slippageTolerance)
  BY DEF handleRebalance
<1>2. /\ exchangeSettings[e].twapMaxTradeSize \in Nat
      /\ execution.slippageTolerance \in 0 .. PreciseUnit
  BY SizesAreNat, SettingsFacts
<1>3. CASE isLeverTo(newRatio)
  <2>1. tradeTo(newRatio, TRUE, exchangeSettings[e].twapMaxTradeSize,
                execution.slippageTolerance)
    BY <1>1, <1>3
  <2>. QED  BY <1>2, <2>1, LeverStops
<1>4. CASE ~ isLeverTo(newRatio)
  <2>1. tradeTo(newRatio, FALSE, exchangeSettings[e].twapMaxTradeSize,
                execution.slippageTolerance)
    <3>1. isLeverTo(newRatio) = FALSE
      BY <1>4 DEF isLeverTo
    <3>. QED  BY <1>1, <3>1
  <2>. QED  BY <1>2, <2>1, DeleverStops
<1>. QED
  BY <1>3, <1>4

(* No trade of the strategy goes past the ratio it aims at, with the       *)
(* roundings of the code and whatever the exchange gives: a delever keeps  *)
(* the collateral that this ratio means, exactly, and a lever takes on no  *)
(* more debt than it means, up to the current ratio's last digit.          *)
THEOREM TradesStop == Spec => TradesDoNotOvershoot
<1>1. ASSUME IInv, NEW e \in Exchanges
      PROVE  /\ engage(e) => stopsAt(methodology.targetLeverageRatio)
             /\ rebalance(e) => stopsAt(newLeverageRatio)
             /\ iterateRebalance(e) => stopsAt(twapLeverageRatio)
             /\ ripcord(e) => stopsAt(methodology.maxLeverageRatio)
  <2>1. TypeOK /\ SettingsValid
    BY <1>1 DEF IInv
  <2>2. /\ exchangeSettings[e].twapMaxTradeSize \in Nat
        /\ exchangeSettings[e].incentivizedTwapMaxTradeSize \in Nat
        /\ execution.slippageTolerance \in 0 .. PreciseUnit
        /\ incentive.incentivizedSlippageTolerance \in 0 .. PreciseUnit
        /\ methodology.targetLeverageRatio \in Nat
        /\ methodology.maxLeverageRatio \in Nat
    BY <2>1, SizesAreNat, SettingsFacts
  <2>3. ASSUME engage(e)
        PROVE  stopsAt(methodology.targetLeverageRatio)
    <3>1. /\ solvent /\ setTotalSupply > 0
          /\ tradeTo(methodology.targetLeverageRatio, TRUE,
                     exchangeSettings[e].twapMaxTradeSize, execution.slippageTolerance)
      BY <2>3 DEF engage
    <3>. QED  BY <2>1, <2>2, <3>1, LeverStops
  <2>4. ASSUME rebalance(e)
        PROVE  stopsAt(newLeverageRatio)
    <3>1. solvent /\ setTotalSupply > 0 /\ handleRebalance(e, newLeverageRatio)
      BY <2>4 DEF rebalance, validRebalance, leveraged
    <3>2. newLeverageRatio \in Nat
      BY <2>1, <3>1, NewRatioIsClamped
    <3>. QED  BY <2>1, <3>1, <3>2, HandleRebalanceStops
  <2>5. ASSUME iterateRebalance(e)
        PROVE  stopsAt(twapLeverageRatio)
    <3>1. solvent /\ setTotalSupply > 0 /\ twapLeverageRatio \in Nat
      BY <2>1, <2>5 DEF iterateRebalance, validIterate, leveraged, TypeOK
    <3>2. CASE handleRebalance(e, twapLeverageRatio)
      BY <2>1, <3>1, <3>2, HandleRebalanceStops
    <3>3. CASE UNCHANGED positionVars
      <4>1. collateral' = collateral /\ borrow' = borrow
        BY <3>3 DEF positionVars
      <4>. QED  BY <2>1, <4>1, ActionInfoIsNat DEF stopsAt
    <3>. QED  BY <2>5, <3>2, <3>3 DEF iterateRebalance
  <2>6. ASSUME ripcord(e)
        PROVE  stopsAt(methodology.maxLeverageRatio)
    <3>1. /\ solvent /\ setTotalSupply > 0
          /\ tradeTo(methodology.maxLeverageRatio, FALSE,
                     exchangeSettings[e].incentivizedTwapMaxTradeSize,
                     incentive.incentivizedSlippageTolerance)
      BY <2>6 DEF ripcord, validRipcord, leveraged
    <3>. QED  BY <2>1, <2>2, <3>1, DeleverStops
  <2>. QED  BY <2>3, <2>4, <2>5, <2>6
<1>2. IInv /\ [Next]_vars =>
        [\A e \in Exchanges :
           /\ engage(e) => stopsAt(methodology.targetLeverageRatio)
           /\ rebalance(e) => stopsAt(newLeverageRatio)
           /\ iterateRebalance(e) => stopsAt(twapLeverageRatio)
           /\ ripcord(e) => stopsAt(methodology.maxLeverageRatio)]_vars
  BY <1>1
<1>. QED
  BY Invariance, <1>2, PTL DEF Spec, TradesDoNotOvershoot

-----------------------------------------------------------------------------
(* The keepers.  Whatever they do is what some caller of the extension     *)
(* could do, so that the theorems about the extension alone apply; on top  *)
(* of them stands that stale advice is refused.                            *)

(* What a keeper is about to call is a call: the last conjunct of the type *)
(* invariant, with what the others need.                                   *)
PermissionPart ==
  /\ anyoneCallable \in BOOLEAN
  /\ callAllowList \in SUBSET Keepers
  /\ leverageSettings \in LeverageSettings
PerformPart == performData \in [Keepers -> Upkeeps \union {NoUpkeep}]

(* The view answers with a call, with NONE, or reverts.                    *)
LEMMA AdviceIsACall ==
  ASSUME NEW k \in Keepers, NEW e \in Exchanges, advice(k, e) # "reverts", advice(k, e) # "NONE"
  PROVE  [action |-> advice(k, e), exchange |-> e] \in Upkeeps
BY DEF advice, shouldRebalance, Upkeeps

(* A call that is sent is one of the extension's, for one of its exchanges. *)
LEMMA SentIsACall ==
  ASSUME PerformPart, NEW k \in Keepers, performData[k] # NoUpkeep
  PROVE  performData[k].exchange \in Exchanges
<1>1. performData[k] \in Upkeeps
  BY DEF PerformPart
<1>. QED
  BY <1>1 DEF Upkeeps

(* The extension itself is not changed by looking, by the lists of callers *)
(* or by the keepers' settings; its own functions run as they are.         *)
LEMMA StepsOfTheExtension ==
  ASSUME PerformPart, [KeepersNext]_allVars
  PROVE  [Next]_vars
<1>1. ASSUME NEW k \in Keepers, NEW e \in Exchanges, checkUpkeep(k, e)
      PROVE  UNCHANGED vars
  BY <1>1 DEF checkUpkeep
<1>2. ASSUME NEW k \in Keepers, performUpkeep(k)
      PROVE  Next
  <2>1. performData[k].exchange \in Exchanges
    BY <1>2, SentIsACall DEF performUpkeep
  <2>. QED  BY <1>2, <2>1 DEF performUpkeep, Next, keeperCalls
<1>3. CASE outsiderCalls
  BY <1>3 DEF outsiderCalls, Next, keeperCalls
<1>4. CASE ownerSteps
  BY <1>4 DEF ownerSteps, updateCallerStatus, updateAnyoneCallable, setLeverageSettings
<1>5. CASE clockTicks \/ ((operatorCalls \/ receive \/ market) /\ UNCHANGED keeperVars)
  BY <1>5 DEF clockTicks, Next
<1>6. CASE UNCHANGED allVars
  BY <1>6 DEF allVars
<1>. QED
  BY <1>1, <1>2, <1>3, <1>4, <1>5, <1>6 DEF KeepersNext, keeperSteps

-----------------------------------------------------------------------------
(* The keepers' own state.                                                 *)
LEMMA PermissionsKeep ==
  ASSUME PermissionPart, [KeepersNext]_allVars
  PROVE  PermissionPart'
<1>1. ASSUME NEW k \in Keepers, performUpkeep(k)
      PROVE  PermissionPart'
  BY <1>1 DEF performUpkeep, PermissionPart, permissionVars
<1>2. ASSUME NEW k \in Keepers, NEW e \in Exchanges, checkUpkeep(k, e)
      PROVE  PermissionPart'
  BY <1>2 DEF checkUpkeep, PermissionPart, permissionVars
<1>3. CASE ownerSteps
  <2>1. ASSUME NEW k \in Keepers, NEW status \in BOOLEAN, updateCallerStatus(k, status)
        PROVE  PermissionPart'
    <3>1. callAllowList' \in SUBSET Keepers
      BY <2>1 DEF updateCallerStatus, PermissionPart
    <3>. QED  BY <2>1, <3>1 DEF updateCallerStatus, PermissionPart
  <2>2. ASSUME NEW status \in BOOLEAN, updateAnyoneCallable(status)
        PROVE  PermissionPart'
    BY <2>2 DEF updateAnyoneCallable, PermissionPart
  <2>3. ASSUME NEW s \in LeverageSettings, setLeverageSettings(s)
        PROVE  PermissionPart'
    BY <2>3 DEF setLeverageSettings, permissionVars, PermissionPart
  <2>. QED  BY <1>3, <2>1, <2>2, <2>3 DEF ownerSteps
<1>4. CASE UNCHANGED <<permissionVars, leverageSettings>>
  BY <1>4 DEF PermissionPart, permissionVars
<1>. QED
  BY <1>1, <1>2, <1>3, <1>4
     DEF KeepersNext, keeperSteps, outsiderCalls, clockTicks, keeperVars, allVars

LEMMA PerformKeeps ==
  ASSUME PerformPart, [KeepersNext]_allVars
  PROVE  PerformPart'
<1>1. ASSUME NEW k \in Keepers, performUpkeep(k)
      PROVE  PerformPart'
  BY <1>1 DEF performUpkeep, PerformPart
<1>2. ASSUME NEW k \in Keepers, NEW e \in Exchanges, checkUpkeep(k, e)
      PROVE  PerformPart'
  <2>1. PICK u \in Upkeeps \union {NoUpkeep} : performData' = [performData EXCEPT ![k] = u]
    BY <1>2, AdviceIsACall DEF checkUpkeep
  <2>. QED  BY <2>1 DEF PerformPart
<1>3. CASE ownerSteps
  BY <1>3 DEF ownerSteps, updateCallerStatus, updateAnyoneCallable, setLeverageSettings,
     PerformPart
<1>4. CASE UNCHANGED performData
  BY <1>4 DEF PerformPart
<1>. QED
  BY <1>1, <1>2, <1>3, <1>4
     DEF KeepersNext, keeperSteps, outsiderCalls, clockTicks, keeperVars, allVars

KeepersIInv == IInv /\ PermissionPart /\ PerformPart

-----------------------------------------------------------------------------
(* Theorems about the keepers                                              *)

(* The extension with its keepers is the extension: they take no step that *)
(* its specification does not have, so that what is proved of it for       *)
(* arbitrary callers holds for these.                                      *)
THEOREM ComposedIsTheExtension == KeepersSpec => Spec
<1>1. KeepersInit => Init /\ PerformPart
  BY DEF KeepersInit, PerformPart
<1>2. PerformPart /\ [KeepersNext]_allVars => PerformPart' /\ [Next]_vars
  BY PerformKeeps, StepsOfTheExtension
<1>. QED
  BY <1>1, <1>2, PTL DEF KeepersSpec, Spec

(* The inductive invariant of the composition: that of the extension, the  *)
(* permissions, and that every transaction waiting to be sent is one.      *)
THEOREM KeepersInvariance == KeepersSpec => []KeepersIInv
<1>1. KeepersInit => PermissionPart /\ PerformPart
  BY DEF KeepersInit, PermissionPart, PerformPart
<1>2. PermissionPart /\ PerformPart /\ [KeepersNext]_allVars
        => PermissionPart' /\ PerformPart'
  BY PermissionsKeep, PerformKeeps
<1>. QED
  BY <1>1, <1>2, Invariance, ComposedIsTheExtension, PTL DEF KeepersSpec, KeepersIInv

(* The state of the extension, the permissions and the waiting             *)
(* transactions are well typed under the run's specification.              *)
THEOREM KeepersTypeCorrect == FairSpec => []KeepersTypeOK
<1>1. KeepersIInv => KeepersTypeOK
  BY DEF KeepersIInv, IInv, PermissionPart, PerformPart, KeepersTypeOK
<1>. QED
  BY KeepersInvariance, <1>1, PTL DEF FairSpec

(* Whatever came in between, what a keeper executes is what the view tells *)
(* at the moment of the transaction, or a TWAP out of bounds.              *)
THEOREM StaleAdviceIsHarmless == FairSpec => StaleUpkeepIsRefused
<1>1. ASSUME KeepersIInv, NEW k \in Keepers, performUpkeep(k)
      PROVE  LET u == performData[k]
             IN  \/ signal(u.exchange) = u.action
                 \/ /\ u.action = "ITERATE_REBALANCE" /\ signal(u.exchange) = "NONE"
                    /\ twapLeverageRatio # 0
                    /\ outsideBounds(methodology.minLeverageRatio,
                                     methodology.maxLeverageRatio)
  <2>. DEFINE u == performData[k]
              e == u.exchange
  <2>1. TypeOK /\ SettingsValid
    BY <1>1 DEF KeepersIInv, IInv
  <2>2. e \in Exchanges
    BY <1>1, SentIsACall DEF KeepersIInv, performUpkeep
  <2>3. twapLeverageRatio \in Nat
    BY <2>1 DEF TypeOK
  <2>4. CASE u.action = "REBALANCE" /\ rebalance(e)
    <3>1. validRebalance(e)
      BY <2>4 DEF rebalance
    <3>2. solvent
      BY <3>1 DEF validRebalance, leveraged
    <3>. QED
      BY <2>1, <2>3, <2>4, <3>1, <3>2, RatioIsPositive, SettingsFacts
         DEF validRebalance, validNormalRebalance, signal, shouldRebalance
  <2>5. CASE u.action = "ITERATE_REBALANCE" /\ iterateRebalance(e)
    <3>1. validIterate(e)
      BY <2>5 DEF iterateRebalance
    <3>2. solvent
      BY <3>1 DEF validIterate, leveraged
    <3>. QED
      BY <2>1, <2>3, <2>5, <3>1, <3>2, RatioIsPositive, SettingsFacts
         DEF validIterate, validNormalRebalance, signal, shouldRebalance
  <2>6. CASE u.action = "RIPCORD" /\ ripcord(e)
    <3>1. validRipcord(e)
      BY <2>6 DEF ripcord
    <3>. QED
      BY <2>6, <3>1 DEF validRipcord, leveraged, signal, shouldRebalance
  <2>. QED
    BY <1>1, <2>4, <2>5, <2>6 DEF performUpkeep
<1>2. KeepersIInv /\ [KeepersNext]_allVars =>
        [\A k \in Keepers : performUpkeep(k) =>
           LET u == performData[k]
           IN  \/ signal(u.exchange) = u.action
               \/ /\ u.action = "ITERATE_REBALANCE" /\ signal(u.exchange) = "NONE"
                  /\ twapLeverageRatio # 0
                  /\ outsideBounds(methodology.minLeverageRatio,
                                   methodology.maxLeverageRatio)]_allVars
  BY <1>1
<1>. QED
  BY KeepersInvariance, <1>2, PTL DEF FairSpec, KeepersSpec, StaleUpkeepIsRefused
==============================================================================
