--------------------------- MODULE PreciseUnitMath ---------------------------
(***************************************************************************)
(* The fixed-point helpers of src/contracts/lib/PreciseUnitMath.sol on     *)
(* unsigned values, and the OpenZeppelin Math functions used beside them.  *)
(* PreciseUnit is 1e18 in the contracts; it is a parameter here.           *)
(***************************************************************************)
EXTENDS Integers

CONSTANT PreciseUnit

ASSUME PreciseUnitAssumption == PreciseUnit \in Nat \ {0}

(* Both round down.                                                        *)
preciseMul(a, b) == (a * b) \div PreciseUnit
preciseDiv(a, b) == (a * PreciseUnit) \div b

minOf(a, b) == IF a <= b THEN a ELSE b
maxOf(a, b) == IF a >= b THEN a ELSE b
=============================================================================
