---------------------------- MODULE StakingRewards ----------------------------
(***************************************************************************)
(* src/contracts/staking/StakingRewardsV2.sol; StakingRewards.sol is the   *)
(* same contract with a rewardsDuration of 60 days.  Rewards flow at       *)
(* rewardRate to the stakes and are credited lazily: only an accumulator,  *)
(* rewardPerTokenStored, advances, and an account is settled against it    *)
(* when it calls.  A reverted transaction is a step that is not taken.     *)
(*                                                                         *)
(* The two tokens are external and distinct.  Staked tokens are moved with *)
(* the stake and stand for themselves; of the rewards token only what the  *)
(* contract received and paid out is kept.                                 *)
(***************************************************************************)
EXTENDS Integers, FiniteSets, Functions

CONSTANTS
  Stakers,
  Amounts,           \* amounts staked and withdrawn
  RewardAmounts,     \* amounts notified, and transferred, by rewardsDistribution
  rewardsDuration,
  Unit,              \* 1e18, the precision of the accumulator
  MaxNow,            \* bound: timestamps
  MaxSupply,         \* bound: staked tokens
  MaxNotified        \* bound: rewards notified, and transferred, in all

ASSUME StakersAssumption == IsFiniteSet(Stakers)
ASSUME AmountsAssumption == Amounts \subseteq Nat \ {0} /\ RewardAmounts \subseteq Nat
ASSUME DurationAssumption == rewardsDuration \in Nat \ {0}
ASSUME UnitAssumption == Unit \in Nat \ {0}
ASSUME BoundsAssumption == MaxNow \in Nat /\ MaxSupply \in Nat /\ MaxNotified \in Nat

VARIABLES
  now,                                     \* block.timestamp
  periodFinish, rewardRate,
  lastUpdateTime, rewardPerTokenStored,
  userRewardPerTokenPaid, rewards,
  totalSupply, balances,                   \* _totalSupply, _balances
  received,                                \* rewards tokens transferred to the contract
  notified,                                \* history: rewards notified
  paid                                     \* history: rewards tokens paid to each staker

rateVars == <<periodFinish, rewardRate>>
stakeVars == <<totalSupply, balances>>
vars == <<now, rateVars, lastUpdateTime, rewardPerTokenStored,
          userRewardPerTokenPaid, rewards, stakeVars, received, notified, paid>>

Init ==
  /\ now = 1
  /\ periodFinish = 0 /\ rewardRate = 0
  /\ lastUpdateTime = 0 /\ rewardPerTokenStored = 0
  /\ userRewardPerTokenPaid = [s \in Stakers |-> 0]
  /\ rewards = [s \in Stakers |-> 0]
  /\ totalSupply = 0 /\ balances = [s \in Stakers |-> 0]
  /\ received = 0 /\ notified = 0
  /\ paid = [s \in Stakers |-> 0]

Total(f) == FoldFunction(+, 0, f)

rewardsBalance == received - Total(paid)   \* rewardsToken.balanceOf(this)

-----------------------------------------------------------------------------
(* The views.                                                              *)

(* Mutant: rewards flow after the end of the period.                       *)
lastTimeRewardApplicableUnbounded == now

lastTimeRewardApplicable == IF now <= periodFinish THEN now ELSE periodFinish

(* Mutant: the rate is divided by the supply before it is scaled.          *)
rewardPerTokenDividesFirst ==
  IF totalSupply = 0
  THEN rewardPerTokenStored
  ELSE rewardPerTokenStored
         + (((lastTimeRewardApplicable - lastUpdateTime) * rewardRate) \div totalSupply) * Unit

rewardPerToken ==
  IF totalSupply = 0
  THEN rewardPerTokenStored
  ELSE rewardPerTokenStored
         + (((lastTimeRewardApplicable - lastUpdateTime) * rewardRate * Unit) \div totalSupply)

earned(s) ==
  ((balances[s] * (rewardPerToken - userRewardPerTokenPaid[s])) \div Unit) + rewards[s]

-----------------------------------------------------------------------------
(* The modifier updateReward: the accumulator is brought up to date, and   *)
(* the account settled against it.                                         *)
updateAccumulator ==
  /\ rewardPerTokenStored' = rewardPerToken
  /\ lastUpdateTime' = lastTimeRewardApplicable

settleAccount(s) ==
  /\ rewards' = [rewards EXCEPT ![s] = earned(s)]
  /\ userRewardPerTokenPaid' = [userRewardPerTokenPaid EXCEPT ![s] = rewardPerToken]

updateReward(s) == updateAccumulator /\ settleAccount(s)

(* Mutant: the stake is credited before the account is settled.            *)
stakeBeforeUpdate(s, amount) ==
  /\ amount > 0 /\ totalSupply + amount <= MaxSupply
  /\ updateAccumulator
  /\ rewards' = [rewards EXCEPT ![s] =
       (((balances[s] + amount) * (rewardPerToken - userRewardPerTokenPaid[s])) \div Unit) + @]
  /\ userRewardPerTokenPaid' = [userRewardPerTokenPaid EXCEPT ![s] = rewardPerToken]
  /\ totalSupply' = totalSupply + amount
  /\ balances' = [balances EXCEPT ![s] = @ + amount]
  /\ UNCHANGED <<now, rateVars, received, notified, paid>>

stake(s, amount) ==
  /\ amount > 0 /\ totalSupply + amount <= MaxSupply
  /\ updateReward(s)
  /\ totalSupply' = totalSupply + amount
  /\ balances' = [balances EXCEPT ![s] = @ + amount]
  /\ UNCHANGED <<now, rateVars, received, notified, paid>>

withdraw(s, amount) ==
  /\ amount > 0 /\ amount <= totalSupply /\ amount <= balances[s]
  /\ updateReward(s)
  /\ totalSupply' = totalSupply - amount
  /\ balances' = [balances EXCEPT ![s] = @ - amount]
  /\ UNCHANGED <<now, rateVars, received, notified, paid>>

(* What the account earned is paid; the transfer reverts when the contract *)
(* does not hold as much.                                                  *)
payReward(s) ==
  /\ earned(s) <= rewardsBalance
  /\ updateAccumulator
  /\ rewards' = [rewards EXCEPT ![s] = 0]
  /\ userRewardPerTokenPaid' = [userRewardPerTokenPaid EXCEPT ![s] = rewardPerToken]
  /\ paid' = [paid EXCEPT ![s] = @ + earned(s)]

getReward(s) ==
  /\ payReward(s)
  /\ UNCHANGED <<now, rateVars, stakeVars, received, notified>>

(* withdraw of the whole stake and getReward, which settles nothing more.  *)
exit(s) ==
  /\ balances[s] > 0 /\ balances[s] <= totalSupply
  /\ payReward(s)
  /\ totalSupply' = totalSupply - balances[s]
  /\ balances' = [balances EXCEPT ![s] = 0]
  /\ UNCHANGED <<now, rateVars, received, notified>>

(* Mutant: what is left is measured from the last update.                  *)
newRateSinceUpdate(reward) ==
  IF now >= periodFinish
  THEN reward \div rewardsDuration
  ELSE (reward + (periodFinish - lastUpdateTime) * rewardRate) \div rewardsDuration

(* rewardsDistribution adds to the rewards: what is left of the period is  *)
(* spread again, with the new amount, over a whole one.                    *)
newRate(reward) ==
  IF now >= periodFinish
  THEN reward \div rewardsDuration
  ELSE (reward + (periodFinish - now) * rewardRate) \div rewardsDuration

notifyRewardAmount(reward) ==
  /\ notified + reward <= MaxNotified
  /\ newRate(reward) <= rewardsBalance \div rewardsDuration
  /\ rewardPerTokenStored' = rewardPerToken
  /\ lastUpdateTime' = now
  /\ rewardRate' = newRate(reward)
  /\ periodFinish' = now + rewardsDuration
  /\ notified' = notified + reward
  /\ UNCHANGED <<now, userRewardPerTokenPaid, rewards, stakeVars, received, paid>>

(* Rewards tokens are transferred to the contract, which is not told.      *)
transferRewards(amount) ==
  /\ received + amount <= MaxNotified
  /\ received' = received + amount
  /\ UNCHANGED <<now, rateVars, lastUpdateTime, rewardPerTokenStored,
                 userRewardPerTokenPaid, rewards, stakeVars, notified, paid>>

blockMined ==
  /\ now < MaxNow
  /\ now' = now + 1
  /\ UNCHANGED <<rateVars, lastUpdateTime, rewardPerTokenStored,
                 userRewardPerTokenPaid, rewards, stakeVars, received, notified, paid>>

Next ==
  \/ \E s \in Stakers, a \in Amounts : stake(s, a)
  \/ \E s \in Stakers, a \in Amounts : withdraw(s, a)
  \/ \E s \in Stakers : getReward(s)
  \/ \E s \in Stakers : exit(s)
  \/ \E r \in RewardAmounts : notifyRewardAmount(r)
  \/ \E r \in RewardAmounts : transferRewards(r)
  \/ blockMined

Spec == Init /\ [][Next]_vars

-----------------------------------------------------------------------------
(* The types, and what keeps every subtraction of the views from           *)
(* reverting, and with them every call: the accumulator was never updated  *)
(* past the present or the end of the period, and no account was settled   *)
(* past the accumulator.                                                   *)
ViewsAreDefined ==
  /\ {now, periodFinish, rewardRate, lastUpdateTime, rewardPerTokenStored,
      totalSupply, received, notified} \subseteq Nat
  /\ {userRewardPerTokenPaid, rewards, balances, paid} \subseteq [Stakers -> Nat]
  /\ lastUpdateTime <= now
  /\ lastUpdateTime <= periodFinish
  /\ periodFinish <= now + rewardsDuration
  /\ \A s \in Stakers : userRewardPerTokenPaid[s] <= rewardPerTokenStored

(* What a staker was paid and can claim now.                               *)
entitled(s) == paid[s] + earned(s)

(* What the rest of the period gives to the stakers.                       *)
outstanding == (periodFinish - lastTimeRewardApplicable) * rewardRate

(* No more is ever paid, owed and promised than was notified.  So stakers  *)
(* who are owed a reward are always paid when what is notified was         *)
(* transferred: the check of notifyRewardAmount, which counts rewards that *)
(* are owed as free, is not needed for it, and does not ensure it.         *)
RewardsAreCovered ==
  /\ totalSupply = Total(balances)
  /\ Total([s \in Stakers |-> entitled(s)]) + outstanding <= notified
  /\ notified <= received => \A s \in Stakers : earned(s) <= rewardsBalance

(* Calls earn nothing: what any account is entitled to is the same after a *)
(* stake, a withdrawal, a claim or a notification, of its own or of        *)
(* others, as before it.  Only time adds to it.                            *)
CallsEarnNothing == [][now' = now => \A s \in Stakers : entitled(s)' = entitled(s)]_vars

(* Time gives each staker its share of the rate, for as long as the period *)
(* lasts, to within the rounding of the accumulator and of the account.    *)
TimeEarnsTheShare ==
  [][\A s \in Stakers :
       LET elapsed == lastTimeRewardApplicable' - lastTimeRewardApplicable
           gained == entitled(s)' - entitled(s)
           share == balances[s] * elapsed * rewardRate
       IN  now' # now /\ totalSupply > 0 =>
             /\ (gained - 1) * totalSupply * Unit < share * Unit + balances[s] * totalSupply
             /\ (gained + 1) * totalSupply * Unit + balances[s] * totalSupply > share * Unit]_vars
===============================================================================
