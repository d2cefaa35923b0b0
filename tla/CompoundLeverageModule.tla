------------------------ MODULE CompoundLeverageModule ------------------------
(***************************************************************************)
(* The lending position of one SetToken as CompoundLeverageModule trades   *)
(* it: collateral supplied to Compound, an asset borrowed against it, and  *)
(* the exchange and the price oracle in between.  Quantities are position  *)
(* units (per SetToken); the borrow asset's price is PreciseUnit, so       *)
(* collateralPrice is the pair price.                                      *)
(***************************************************************************)
EXTENDS PreciseUnitMath

CONSTANTS
  Prices,             \* answers of the collateral price oracle
  Supplies,           \* total supplies of the SetToken
  CollateralFactor,   \* what Compound lends on collateral, in precise units
  MaxCollateral,      \* bound: collateral units the market takes
  MaxBorrow           \* bound: units the borrow market lends

ASSUME PricesAssumption == Prices \subseteq Nat \ {0}
ASSUME SuppliesAssumption == Supplies \subseteq Nat
ASSUME FactorAssumption == CollateralFactor \in 0 .. PreciseUnit
ASSUME MaxPositionAssumption == MaxCollateral \in Nat /\ MaxBorrow \in Nat

VARIABLES collateral, borrow, collateralPrice, setTotalSupply

positionVars == <<collateral, borrow>>
marketVars == <<collateralPrice, setTotalSupply>>

PositionTypeOK ==
  /\ collateral \in 0 .. MaxCollateral
  /\ borrow \in 0 .. MaxBorrow
  /\ collateralPrice \in Prices
  /\ setTotalSupply \in Supplies

(* Compound's rule: what is borrowed stays within the collateral factor.   *)
compoundAllows(coll, debt) ==
  preciseMul(debt, PreciseUnit)
    <= preciseMul(preciseMul(coll, collateralPrice), CollateralFactor)

(* The most an exchange at the oracle price gives for the units sold.      *)
soldCollateral(units) == preciseMul(units, collateralPrice)
soldBorrow(units) == preciseDiv(units, collateralPrice)

validQuantity(units) == preciseMul(units, setTotalSupply) > 0

(* _borrow, _executeTrade, _mintCToken: the exchange may give anything     *)
(* from the minimum to the oracle price.                                   *)
lever(borrowUnits, minReceive) ==
  /\ validQuantity(borrowUnits)
  /\ borrow + borrowUnits <= MaxBorrow
  /\ compoundAllows(collateral, borrow + borrowUnits)
  /\ \E received \in minReceive .. soldBorrow(borrowUnits) :
       /\ collateral + received <= MaxCollateral
       /\ collateral' = collateral + received
  /\ borrow' = borrow + borrowUnits
  /\ UNCHANGED marketVars

(* _redeemUnderlying, _executeTrade, _repayBorrow.                         *)
delever(redeemUnits, minRepay) ==
  /\ validQuantity(redeemUnits)
  /\ redeemUnits <= collateral
  /\ compoundAllows(collateral - redeemUnits, borrow)
  /\ \E received \in minRepay .. minOf(soldCollateral(redeemUnits), borrow) :
       borrow' = borrow - received
  /\ collateral' = collateral - redeemUnits
  /\ UNCHANGED marketVars

(* The trade must bring in the whole debt; what is left over is kept as    *)
(* equity outside the lending position.                                    *)
deleverToZeroBorrowBalance(redeemUnits) ==
  /\ validQuantity(redeemUnits)
  /\ redeemUnits <= collateral
  /\ compoundAllows(collateral - redeemUnits, borrow)
  /\ soldCollateral(redeemUnits) >= borrow
  /\ collateral' = collateral - redeemUnits
  /\ borrow' = 0
  /\ UNCHANGED marketVars

(* The oracle reports another price; SetTokens are issued or redeemed,     *)
(* which borrows and repays in proportion and keeps the units per Set.     *)
latestAnswer == /\ collateralPrice' \in Prices \ {collateralPrice}
                /\ UNCHANGED <<positionVars, setTotalSupply>>
issueOrRedeem == /\ setTotalSupply' \in Supplies \ {setTotalSupply}
                 /\ UNCHANGED <<positionVars, collateralPrice>>
=============================================================================
