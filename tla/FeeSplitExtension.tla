-------------------------- MODULE FeeSplitExtension --------------------------
(***************************************************************************)
(* src/contracts/adapters/FeeSplitExtension.sol, with the two modifiers it *)
(* is built from: fees are set by operator and methodologist together,     *)
(* twice, with the time lock in between, and what they bring is split      *)
(* between the two.  A reverted transaction is a step that is not taken.   *)
(*                                                                         *)
(* The fee modules are external: the streaming fee grows by the block and  *)
(* is minted when it is accrued, the other fees are minted to the          *)
(* extension with each issue and redemption.  Fees and shares are small    *)
(* numbers for percentages and amounts; the addresses the shares are sent  *)
(* to are left out, and so are the calls that set up a fee module.         *)
(***************************************************************************)
EXTENDS MutualUpgrade, TimeLockUpgrade, Integers

CONSTANTS
  FeeKinds,          \* which of "streaming", "issue" and "redeem" are modelled
  Fees,              \* values of a fee
  Splits,            \* values of operatorFeeSplit
  Unit,              \* preciseUnit(), 100%
  MaxNow,            \* bound: timestamps
  MaxFees,           \* bound: fees held and not accrued
  MaxDistributions   \* bound: distributions

ASSUME KindsAssumption == FeeKinds \subseteq {"streaming", "issue", "redeem"} /\ "streaming" \in FeeKinds
ASSUME FeesAssumption == Fees \subseteq Nat
ASSUME SplitsAssumption == Unit \in Nat \ {0} /\ Splits \subseteq Nat
ASSUME CallsAssumption == LockedCalls = FeeKinds \X Fees

VARIABLES
  operator, methodologist,   \* of the manager
  fees,                      \* the fee of each kind, at its module
  operatorFeeSplit,
  streamed,                  \* streaming fee not accrued yet
  held,                      \* setToken.balanceOf(this)
  (* History: the operator's part of each fee by the split it came in      *)
  (* under, less what the operator was sent, in units of 1 / Unit; the     *)
  (* number of distributions of something; and when a fee was first agreed *)
  (* on since it was last set.                                             *)
  operatorDue, distributions, agreedAt

roleVars == <<operator, methodologist>>
shareVars == <<operatorFeeSplit, streamed, held, operatorDue, distributions>>
vars == <<now, mutualUpgrades, lockVars, roleVars, fees, shareVars, agreedAt>>

Init ==
  /\ now = 1 /\ mutualUpgrades = {}
  /\ timeLockPeriod = 0 /\ timeLockedUpgrades = [c \in LockedCalls |-> 0]
  /\ operator \in Parties /\ methodologist \in Parties
  /\ fees \in [FeeKinds -> Fees]
  /\ operatorFeeSplit \in {s \in Splits : s <= Unit}
  /\ streamed = 0 /\ held = 0
  /\ operatorDue = 0 /\ distributions = 0
  /\ agreedAt = [c \in LockedCalls |-> 0]

-----------------------------------------------------------------------------
(* accrueFee mints the streaming fee to the extension.  All it holds is    *)
(* then split: the operator's part is rounded down, and the methodologist  *)
(* gets the rest.                                                          *)
operatorTake(total) == (total * operatorFeeSplit) \div Unit

distributes(total) ==
  /\ operatorTake(total) <= total
  /\ held' = 0
  /\ operatorDue' = operatorDue - operatorTake(total) * Unit
  /\ distributions < MaxDistributions
  /\ distributions' = IF total > 0 THEN distributions + 1 ELSE distributions

distributesAll == distributes(held + streamed) /\ streamed' = 0

accrueFeesAndDistribute ==
  /\ distributesAll
  /\ UNCHANGED <<now, mutualUpgrades, lockVars, roleVars, fees, operatorFeeSplit, agreedAt>>

(* The module sets the fee; StreamingFeeModule first accrues what is due.  *)
setsFee(kind, fee) ==
  /\ fees' = [fees EXCEPT ![kind] = fee]
  /\ \/ /\ kind = "streaming"
        /\ held' = held + streamed /\ streamed' = 0
        /\ UNCHANGED <<operatorFeeSplit, operatorDue, distributions>>
     \/ kind # "streaming" /\ UNCHANGED shareVars

(* updateStreamingFee, updateIssueFee and updateRedeemFee: the first       *)
(* approval is registered; with the second the time lock starts; after it, *)
(* again with the second, the fee is set.                                  *)
updateFee(sender, kind, fee) ==
  LET call == <<kind, fee>> IN
  \/ /\ registersUpgrade(sender, operator, methodologist, call)
     /\ UNCHANGED <<now, lockVars, roleVars, fees, shareVars, agreedAt>>
  \/ /\ executesUpgrade(sender, operator, methodologist, call)
     /\ registersTimeLock(call)
     /\ agreedAt' = [agreedAt EXCEPT ![call] = IF @ = 0 THEN now ELSE @]
     /\ UNCHANGED <<now, roleVars, fees, shareVars>>
  \/ /\ executesUpgrade(sender, operator, methodologist, call)
     /\ passesTimeLock(call)
     /\ setsFee(kind, fee)
     /\ agreedAt' = [agreedAt EXCEPT ![call] = 0]
     /\ UNCHANGED <<now, roleVars>>

(* Mutant: the streaming fee is not accrued first.                         *)
distributesHeldThenSplits(split) ==
  /\ distributes(held) /\ UNCHANGED streamed
  /\ operatorFeeSplit' = split

(* What was collected under the old split is distributed by it first.      *)
distributesThenSplits(split) ==
  /\ distributesAll
  /\ operatorFeeSplit' = split

updateFeeSplit(sender, split) ==
  LET call == <<"split", split>> IN
  \/ /\ registersUpgrade(sender, operator, methodologist, call)
     /\ UNCHANGED <<now, lockVars, roleVars, fees, shareVars, agreedAt>>
  \/ /\ executesUpgrade(sender, operator, methodologist, call)
     /\ split <= Unit
     /\ distributesThenSplits(split)
     /\ UNCHANGED <<now, lockVars, roleVars, fees, agreedAt>>

setTimeLockPeriod(period) ==
  /\ lengthensTimeLock(period)
  /\ UNCHANGED <<now, mutualUpgrades, roleVars, fees, shareVars, agreedAt>>

-----------------------------------------------------------------------------
(* setOperator and setMethodologist of the manager.                        *)
replaceRole ==
  /\ \/ \E p \in Parties : operator' = p /\ UNCHANGED methodologist
     \/ \E p \in Parties : methodologist' = p /\ UNCHANGED operator
  /\ UNCHANGED <<now, mutualUpgrades, lockVars, fees, shareVars, agreedAt>>

(* SetTokens are issued or redeemed: the fee is minted to the extension.   *)
collectFee(kind) ==
  /\ kind # "streaming"
  /\ held + streamed + fees[kind] <= MaxFees
  /\ held' = held + fees[kind]
  /\ operatorDue' = operatorDue + fees[kind] * operatorFeeSplit
  /\ UNCHANGED <<now, mutualUpgrades, lockVars, roleVars, fees, operatorFeeSplit, streamed,
                 distributions, agreedAt>>

blockMined ==
  /\ now < MaxNow
  /\ held + streamed + fees["streaming"] <= MaxFees
  /\ now' = now + 1
  /\ streamed' = streamed + fees["streaming"]
  /\ operatorDue' = operatorDue + fees["streaming"] * operatorFeeSplit
  /\ UNCHANGED <<mutualUpgrades, lockVars, roleVars, fees, operatorFeeSplit, held,
                 distributions, agreedAt>>

Next ==
  \/ \E sender \in Parties, kind \in FeeKinds, fee \in Fees : updateFee(sender, kind, fee)
  \/ \E sender \in Parties, split \in Splits : updateFeeSplit(sender, split)
  \/ accrueFeesAndDistribute
  \/ \E period \in Periods : setTimeLockPeriod(period)
  \/ replaceRole
  \/ \E kind \in FeeKinds : collectFee(kind)
  \/ blockMined

Spec == Init /\ [][Next]_vars

-----------------------------------------------------------------------------
(* The operator gets of every fee the share that was agreed on when the    *)
(* fee came in, whatever the split became since and however often and by   *)
(* whomever the fees were distributed: never more, and less only by what   *)
(* the distributions so far rounded down.                                  *)
SharesFollowTheSplit ==
  LET next == (held + streamed) * operatorFeeSplit
  IN  next <= operatorDue /\ operatorDue <= next + distributions * (Unit - 1)

(* Once there is a time lock no fee changes before the period in force has *)
(* passed since operator and methodologist agreed on that very fee, and an *)
(* agreement serves for one change: owners of SetTokens have time to exit. *)
FeesAreAnnounced ==
  [][\A kind \in FeeKinds :
       LET agreed == agreedAt[<<kind, fees'[kind]>>]
       IN  fees'[kind] # fees[kind] /\ timeLockPeriod > 0 =>
             agreed # 0 /\ now >= agreed + timeLockPeriod]_vars
=============================================================================
