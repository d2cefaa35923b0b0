----------------------- MODULE FeeSplitExtension_proofs -----------------------
(***************************************************************************)
(* Theorems about FeeSplitExtension, for every set of parties, fees,       *)
(* splits and periods.                                                     *)
(***************************************************************************)
EXTENDS FeeSplitExtension, TLAPS

TypesHold ==
  /\ now \in Nat \ {0}
  /\ timeLockPeriod \in Nat
  /\ timeLockedUpgrades \in [LockedCalls -> Nat]
  /\ agreedAt \in [LockedCalls -> Nat]
  /\ fees \in [FeeKinds -> Fees]
  /\ operatorFeeSplit \in Nat /\ streamed \in Nat /\ held \in Nat
  /\ operatorDue \in Int /\ distributions \in Nat

(* The lock remembers the first agreement since the fee was last set.      *)
LocksAreAgreements ==
  /\ timeLockedUpgrades = agreedAt
  /\ timeLockPeriod = 0 => \A c \in LockedCalls : timeLockedUpgrades[c] = 0

IInv == TypesHold /\ LocksAreAgreements /\ SharesFollowTheSplit

-----------------------------------------------------------------------------
LEMMA ProductIsNat ==
  ASSUME NEW a \in Nat, NEW b \in Nat
  PROVE  a * b \in Nat
OBVIOUS

LEMMA ZeroTimes ==
  ASSUME NEW a, a = 0, NEW b \in Nat
  PROVE  a * b = 0
OBVIOUS

LEMMA Distributes ==
  ASSUME NEW a \in Nat, NEW b \in Nat, NEW c \in Nat
  PROVE  (a + b) * c = a * c + b * c
OBVIOUS

(* Integer division rounds down, by less than the divisor.                 *)
LEMMA RoundsDown ==
  ASSUME NEW a \in Nat, NEW b \in Nat \ {0}
  PROVE  /\ a \div b \in Nat
         /\ (a \div b) * b <= a
         /\ a <= (a \div b) * b + (b - 1)
OBVIOUS

LEMMA OneMore ==
  ASSUME NEW n \in Nat, NEW u \in Nat \ {0}
  PROVE  (n + 1) * (u - 1) = n * (u - 1) + (u - 1)
OBVIOUS

(* What is left of the operator's due when everything was distributed: the *)
(* rounding.                                                               *)
LEMMA DistributedShares ==
  ASSUME TypesHold, SharesFollowTheSplit, distributesAll
  PROVE  /\ streamed' = 0 /\ held' = 0
         /\ operatorDue' \in Int /\ distributions' \in Nat
         /\ 0 <= operatorDue' /\ operatorDue' <= distributions' * (Unit - 1)
<1> DEFINE total == held + streamed
           due == total * operatorFeeSplit
           take == due \div Unit
<1>1. total \in Nat /\ due \in Nat
  BY ProductIsNat DEF TypesHold
<1>2. take \in Nat /\ take * Unit <= due /\ due <= take * Unit + (Unit - 1)
  <2> HIDE DEF due
  <2> QED
    BY <1>1, RoundsDown, SplitsAssumption
<1>3. /\ streamed' = 0 /\ held' = 0
      /\ operatorDue' = operatorDue - take * Unit
      /\ distributions' = IF total > 0 THEN distributions + 1 ELSE distributions
  BY DEF distributesAll, distributes, operatorTake
<1>4. due <= operatorDue /\ operatorDue <= due + distributions * (Unit - 1)
  BY DEF SharesFollowTheSplit
<1>5. distributions * (Unit - 1) \in Nat /\ take * Unit \in Nat
  BY <1>2, ProductIsNat, SplitsAssumption DEF TypesHold
<1>6. operatorDue' \in Int /\ 0 <= operatorDue'
  <2> HIDE DEF due, take, total
  <2> QED
    BY <1>1, <1>2, <1>3, <1>4, <1>5 DEF TypesHold
<1>7. CASE total > 0
  <2>1. distributions' * (Unit - 1) = distributions * (Unit - 1) + (Unit - 1)
    BY <1>3, <1>7, OneMore, SplitsAssumption DEF TypesHold
  <2>2. operatorDue' <= distributions * (Unit - 1) + (Unit - 1)
    <3> HIDE DEF due, take, total
    <3> QED
      BY <1>1, <1>2, <1>3, <1>4, <1>5, SplitsAssumption DEF TypesHold
  <2>3. distributions' \in Nat
    BY <1>3, <1>7 DEF TypesHold
  <2> QED
    BY <1>3, <1>6, <2>1, <2>2, <2>3
<1>8. CASE ~ (total > 0)
  <2>1. due = 0
    BY <1>1, <1>8 DEF TypesHold
  <2>2. take = 0
    <3> HIDE DEF due, take
    <3> QED
      BY <1>2, <2>1, SplitsAssumption
  <2>3. operatorDue' = operatorDue /\ distributions' = distributions
    <3> HIDE DEF due, take, total
    <3> QED
      BY <1>3, <1>8, <2>2, SplitsAssumption DEF TypesHold
  <2> HIDE DEF due, take, total
  <2> QED
    BY <1>3, <1>4, <1>5, <1>6, <2>1, <2>3 DEF TypesHold
<1> QED
  BY <1>7, <1>8

-----------------------------------------------------------------------------
LEMMA InitHolds == Init => IInv
<1> SUFFICES ASSUME Init PROVE IInv
  OBVIOUS
<1>1. TypesHold
  BY SplitsAssumption DEF Init, TypesHold
<1>2. LocksAreAgreements
  BY DEF Init, LocksAreAgreements
<1>3. SharesFollowTheSplit
  <2>1. (held + streamed) * operatorFeeSplit = 0 /\ distributions * (Unit - 1) = 0
    BY SplitsAssumption DEF Init
  <2> QED
    BY <2>1, SplitsAssumption DEF Init, SharesFollowTheSplit
<1> QED
  BY <1>1, <1>2, <1>3 DEF IInv

(* One step of each operation.                                             *)

LEMMA UpdateFeeHolds ==
  ASSUME IInv, NEW sender \in Parties, NEW kind \in FeeKinds, NEW fee \in Fees,
         updateFee(sender, kind, fee)
  PROVE  IInv'
<1> DEFINE call == <<kind, fee>>
<1> USE DEF IInv
<1>1. call \in LockedCalls
  BY CallsAssumption
<1>2. CASE UNCHANGED <<now, lockVars, roleVars, fees, shareVars, agreedAt>>
  BY <1>2 DEF lockVars, shareVars, TypesHold, LocksAreAgreements, SharesFollowTheSplit
<1>3. CASE /\ registersTimeLock(call)
           /\ agreedAt' = [agreedAt EXCEPT ![call] = IF @ = 0 THEN now ELSE @]
           /\ UNCHANGED <<now, roleVars, fees, shareVars>>
  <2>1. agreedAt' = [agreedAt EXCEPT ![call] = now] /\ timeLockedUpgrades' = agreedAt'
    BY <1>1, <1>3 DEF registersTimeLock, TypesHold, LocksAreAgreements
  <2>2. TypesHold'
    BY <1>3, <2>1 DEF registersTimeLock, shareVars, TypesHold
  <2>3. LocksAreAgreements'
    BY <1>3, <2>1 DEF registersTimeLock, LocksAreAgreements
  <2>4. SharesFollowTheSplit'
    BY <1>3 DEF shareVars, SharesFollowTheSplit
  <2> QED
    BY <2>2, <2>3, <2>4
<1>4. CASE /\ passesTimeLock(call)
           /\ setsFee(kind, fee)
           /\ agreedAt' = [agreedAt EXCEPT ![call] = 0]
           /\ UNCHANGED <<now, roleVars>>
  <2>1. timeLockedUpgrades' = agreedAt' /\ timeLockPeriod' = timeLockPeriod
    <3>1. CASE timeLockPeriod = 0 /\ UNCHANGED lockVars
      BY <1>1, <1>4, <3>1 DEF lockVars, TypesHold, LocksAreAgreements
    <3>2. CASE /\ timeLockedUpgrades' = [timeLockedUpgrades EXCEPT ![call] = 0]
               /\ UNCHANGED timeLockPeriod
      BY <1>4, <3>2 DEF LocksAreAgreements
    <3> QED
      BY <1>4, <3>1, <3>2 DEF passesTimeLock
  <2>2. LocksAreAgreements'
    BY <1>1, <1>4, <2>1 DEF TypesHold, LocksAreAgreements
  <2>3. /\ held' + streamed' = held + streamed /\ held' \in Nat /\ streamed' \in Nat
        /\ UNCHANGED <<operatorFeeSplit, operatorDue, distributions>>
        /\ fees' \in [FeeKinds -> Fees]
    BY <1>4 DEF setsFee, shareVars, TypesHold
  <2>4. TypesHold'
    BY <1>4, <2>1, <2>3 DEF TypesHold
  <2>5. SharesFollowTheSplit'
    BY <2>3 DEF SharesFollowTheSplit
  <2> QED
    BY <2>2, <2>4, <2>5
<1> QED
  BY <1>2, <1>3, <1>4 DEF updateFee

(* After a distribution nothing is left to be split, by whichever split.   *)
LEMMA AfterDistribution ==
  ASSUME TypesHold, SharesFollowTheSplit, distributesAll, operatorFeeSplit' \in Nat
  PROVE  SharesFollowTheSplit'
<1>1. (held' + streamed') * operatorFeeSplit' = 0
  <2>1. held' + streamed' = 0
    BY DistributedShares
  <2> QED
    BY <2>1, ZeroTimes
<1>2. distributions' * (Unit - 1) \in Nat
  BY DistributedShares, ProductIsNat, SplitsAssumption
<1> QED
  BY <1>1, <1>2, DistributedShares DEF SharesFollowTheSplit

LEMMA AccrueHolds == ASSUME IInv, accrueFeesAndDistribute PROVE IInv'
<1> USE DEF IInv
<1>1. TypesHold'
  BY DistributedShares DEF accrueFeesAndDistribute, lockVars, TypesHold
<1>2. LocksAreAgreements'
  BY DEF accrueFeesAndDistribute, lockVars, LocksAreAgreements
<1>3. SharesFollowTheSplit'
  BY AfterDistribution DEF accrueFeesAndDistribute, TypesHold
<1> QED
  BY <1>1, <1>2, <1>3

LEMMA UpdateFeeSplitHolds ==
  ASSUME IInv, NEW sender \in Parties, NEW split \in Splits, updateFeeSplit(sender, split)
  PROVE  IInv'
<1> USE DEF IInv
<1>1. CASE UNCHANGED <<now, lockVars, roleVars, fees, shareVars, agreedAt>>
  BY <1>1 DEF lockVars, shareVars, TypesHold, LocksAreAgreements, SharesFollowTheSplit
<1>2. CASE /\ distributesThenSplits(split)
           /\ UNCHANGED <<now, lockVars, roleVars, fees, agreedAt>>
  <2>1. distributesAll /\ operatorFeeSplit' = split /\ split \in Nat
    BY <1>2, SplitsAssumption DEF distributesThenSplits
  <2>2. TypesHold'
    BY <1>2, <2>1, DistributedShares DEF lockVars, TypesHold
  <2>3. LocksAreAgreements'
    BY <1>2 DEF lockVars, LocksAreAgreements
  <2>4. SharesFollowTheSplit'
    BY <2>1, AfterDistribution
  <2> QED
    BY <2>2, <2>3, <2>4
<1> QED
  BY <1>1, <1>2 DEF updateFeeSplit

LEMMA SetTimeLockPeriodHolds ==
  ASSUME IInv, NEW period \in Periods, setTimeLockPeriod(period)
  PROVE  IInv'
<1> USE DEF IInv
<1>1. TypesHold'
  BY PeriodsAssumption DEF setTimeLockPeriod, lengthensTimeLock, shareVars, TypesHold
<1>2. LocksAreAgreements'
  BY PeriodsAssumption DEF setTimeLockPeriod, lengthensTimeLock, TypesHold, LocksAreAgreements
<1>3. SharesFollowTheSplit'
  BY DEF setTimeLockPeriod, shareVars, SharesFollowTheSplit
<1> QED
  BY <1>1, <1>2, <1>3

(* A fee that comes in adds the same to what the operator is due and to    *)
(* what the next distribution will give it.                                *)
LEMMA IncomeHolds ==
  ASSUME IInv, NEW fee \in Nat,
         held' \in Nat, streamed' \in Nat, held' + streamed' = held + streamed + fee,
         operatorDue' = operatorDue + fee * operatorFeeSplit,
         UNCHANGED <<operatorFeeSplit, distributions>>
  PROVE  operatorDue' \in Int /\ SharesFollowTheSplit'
<1> USE DEF IInv
<1> DEFINE before == (held + streamed) * operatorFeeSplit
           income == fee * operatorFeeSplit
<1>1. (held' + streamed') * operatorFeeSplit' = before + income
  <2>1. held + streamed \in Nat /\ operatorFeeSplit \in Nat
    BY DEF TypesHold
  <2>2. (held + streamed + fee) * operatorFeeSplit = before + income
    BY <2>1, Distributes
  <2>3. held' + streamed' = held + streamed + fee /\ operatorFeeSplit' = operatorFeeSplit
    OBVIOUS
  <2> HIDE DEF before, income
  <2> QED
    BY <2>2, <2>3
<1>2. before \in Nat /\ income \in Nat /\ distributions * (Unit - 1) \in Nat
  BY ProductIsNat, SplitsAssumption DEF TypesHold
<1>3. before <= operatorDue /\ operatorDue <= before + distributions * (Unit - 1)
  BY DEF SharesFollowTheSplit
<1>4. operatorDue' = operatorDue + income
  OBVIOUS
<1>5. distributions' * (Unit - 1) = distributions * (Unit - 1)
  OBVIOUS
<1> HIDE DEF before, income
<1>6. /\ before + income <= operatorDue'
      /\ operatorDue' <= before + income + distributions * (Unit - 1)
  BY <1>2, <1>3, <1>4 DEF TypesHold
<1> QED
  <2>1. operatorDue' \in Int
    BY <1>2, <1>4 DEF TypesHold
  <2> QED
    BY <1>1, <1>5, <1>6, <2>1 DEF SharesFollowTheSplit

LEMMA CollectFeeHolds ==
  ASSUME IInv, NEW kind \in FeeKinds, collectFee(kind)
  PROVE  IInv'
<1> USE DEF IInv
<1>1. fees[kind] \in Nat
  BY FeesAssumption DEF TypesHold
<1>2. operatorDue' \in Int /\ SharesFollowTheSplit'
  <2>1. /\ held' \in Nat /\ streamed' \in Nat
        /\ held' + streamed' = held + streamed + fees[kind]
    BY <1>1 DEF collectFee, TypesHold
  <2>2. /\ operatorDue' = operatorDue + fees[kind] * operatorFeeSplit
        /\ UNCHANGED <<operatorFeeSplit, distributions>>
    BY DEF collectFee
  <2> QED
    BY <1>1, <2>1, <2>2, IncomeHolds
<1>3. TypesHold'
  BY <1>1, <1>2 DEF collectFee, lockVars, TypesHold
<1>4. LocksAreAgreements'
  BY DEF collectFee, lockVars, LocksAreAgreements
<1> QED
  BY <1>2, <1>3, <1>4

LEMMA BlockMinedHolds == ASSUME IInv, blockMined PROVE IInv'
<1> USE DEF IInv
<1>1. fees["streaming"] \in Nat
  BY FeesAssumption, KindsAssumption DEF TypesHold
<1>2. operatorDue' \in Int /\ SharesFollowTheSplit'
  <2>1. /\ held' \in Nat /\ streamed' \in Nat
        /\ held' + streamed' = held + streamed + fees["streaming"]
    BY <1>1 DEF blockMined, TypesHold
  <2>2. /\ operatorDue' = operatorDue + fees["streaming"] * operatorFeeSplit
        /\ UNCHANGED <<operatorFeeSplit, distributions>>
    BY DEF blockMined
  <2> QED
    BY <1>1, <2>1, <2>2, IncomeHolds
<1>3. TypesHold'
  BY <1>1, <1>2 DEF blockMined, lockVars, TypesHold
<1>4. LocksAreAgreements'
  BY DEF blockMined, lockVars, LocksAreAgreements
<1> QED
  BY <1>2, <1>3, <1>4

LEMMA StepHolds == IInv /\ [Next]_vars => IInv'
<1> SUFFICES ASSUME IInv, [Next]_vars PROVE IInv'
  OBVIOUS
<1>1. CASE replaceRole
  BY <1>1 DEF replaceRole, lockVars, shareVars, IInv, TypesHold, LocksAreAgreements,
              SharesFollowTheSplit
<1>2. CASE UNCHANGED vars
  BY <1>2 DEF vars, lockVars, shareVars, IInv, TypesHold, LocksAreAgreements,
              SharesFollowTheSplit
<1> QED
  BY <1>1, <1>2, UpdateFeeHolds, UpdateFeeSplitHolds, AccrueHolds, SetTimeLockPeriodHolds,
     CollectFeeHolds, BlockMinedHolds DEF Next

THEOREM Invariance == Spec => []IInv
<1> QED
  BY InitHolds, StepHolds, PTL DEF Spec

(* However often the split changed and whenever fees were distributed, the *)
(* operator got the agreed share of each fee, less the rounding.           *)
THEOREM EachFeeSplitAsAgreed == Spec => []SharesFollowTheSplit
<1>1. IInv => SharesFollowTheSplit
  BY DEF IInv
<1> QED
  BY <1>1, Invariance, PTL

-----------------------------------------------------------------------------
LEMMA StepIsAnnounced ==
  ASSUME IInv, Next, NEW kind \in FeeKinds, fees'[kind] # fees[kind], timeLockPeriod > 0
  PROVE  /\ agreedAt[<<kind, fees'[kind]>>] # 0
         /\ now >= agreedAt[<<kind, fees'[kind]>>] + timeLockPeriod
<1>1. PICK k \in FeeKinds, fee \in Fees :
        passesTimeLock(<<k, fee>>) /\ fees' = [fees EXCEPT ![k] = fee]
  BY DEF Next, updateFee, setsFee, updateFeeSplit, accrueFeesAndDistribute, setTimeLockPeriod,
         replaceRole, collectFee, blockMined
<1>2. k = kind /\ fees'[kind] = fee
  BY <1>1 DEF IInv, TypesHold
<1>3. /\ timeLockedUpgrades[<<k, fee>>] # 0
      /\ now >= timeLockedUpgrades[<<k, fee>>] + timeLockPeriod
  BY <1>1 DEF passesTimeLock, IInv, TypesHold
<1> QED
  BY <1>2, <1>3 DEF IInv, LocksAreAgreements

(* No fee changes without the notice that the time lock promises.          *)
THEOREM NoticeIsGiven == Spec => FeesAreAnnounced
<1>1. IInv /\ [Next]_vars =>
        [\A kind \in FeeKinds :
           LET agreed == agreedAt[<<kind, fees'[kind]>>]
           IN  fees'[kind] # fees[kind] /\ timeLockPeriod > 0 =>
                 agreed # 0 /\ now >= agreed + timeLockPeriod]_vars
  <2> SUFFICES ASSUME IInv, Next, NEW kind \in FeeKinds,
                      fees'[kind] # fees[kind], timeLockPeriod > 0
               PROVE  /\ agreedAt[<<kind, fees'[kind]>>] # 0
                      /\ now >= agreedAt[<<kind, fees'[kind]>>] + timeLockPeriod
    BY DEF vars
  <2> QED
    BY StepIsAnnounced
<1> QED
  BY <1>1, Invariance, PTL DEF Spec, FeesAreAnnounced
===============================================================================
