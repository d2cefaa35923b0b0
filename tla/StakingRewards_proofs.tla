------------------------- MODULE StakingRewards_proofs -------------------------
(***************************************************************************)
(* Theorems about StakingRewards, for every finite set of stakers, every   *)
(* duration and every precision: no view ever reverts, no call ever earns, *)
(* what was notified covers every claim, and time gives each staker its    *)
(* share.                                                                  *)
(***************************************************************************)
EXTENDS StakingRewards, FiniteSums

(* Integer division, as far as it is needed.                               *)
LEMMA DivIsNat ==
  ASSUME NEW a \in Nat, NEW b \in Nat \ {0}
  PROVE  a \div b \in Nat
OBVIOUS

LEMMA ZeroDiv ==
  ASSUME NEW b \in Nat \ {0}
  PROVE  0 \div b = 0
OBVIOUS

LEMMA ZeroTimes ==
  ASSUME NEW a, a = 0, NEW b \in Nat
  PROVE  a * b = 0
OBVIOUS

LEMMA ProductIsNat ==
  ASSUME NEW a \in Nat, NEW b \in Nat
  PROVE  a * b \in Nat
OBVIOUS

(* The conjuncts of ViewsAreDefined as the provers use them.               *)
LEMMA Types ==
  ASSUME ViewsAreDefined
  PROVE  /\ now \in Nat /\ periodFinish \in Nat /\ rewardRate \in Nat
         /\ lastUpdateTime \in Nat /\ rewardPerTokenStored \in Nat
         /\ totalSupply \in Nat /\ received \in Nat /\ notified \in Nat
         /\ userRewardPerTokenPaid \in [Stakers -> Nat] /\ rewards \in [Stakers -> Nat]
         /\ balances \in [Stakers -> Nat] /\ paid \in [Stakers -> Nat]
BY DEF ViewsAreDefined

LEMMA LastTime ==
  ASSUME ViewsAreDefined
  PROVE  /\ lastTimeRewardApplicable \in Nat
         /\ lastUpdateTime <= lastTimeRewardApplicable
         /\ lastTimeRewardApplicable <= now
         /\ lastTimeRewardApplicable <= periodFinish
BY Types DEF ViewsAreDefined, lastTimeRewardApplicable

(* The accumulator only grows.                                             *)
LEMMA AccumulatorGrows ==
  ASSUME ViewsAreDefined
  PROVE  /\ rewardPerToken \in Nat
         /\ rewardPerTokenStored <= rewardPerToken
<1> DEFINE elapsed == lastTimeRewardApplicable - lastUpdateTime
<1>1. elapsed \in Nat
  BY Types, LastTime
<1>2. elapsed * rewardRate * Unit \in Nat
  <2>1. elapsed * rewardRate \in Nat
    BY <1>1, Types, ProductIsNat
  <2> QED
    BY <2>1, UnitAssumption, ProductIsNat
<1>3. CASE totalSupply = 0
  BY <1>3, Types DEF rewardPerToken
<1>4. CASE totalSupply # 0
  <2>1. (elapsed * rewardRate * Unit) \div totalSupply \in Nat
    <3> HIDE DEF elapsed
    <3> QED
      BY <1>2, <1>4, Types, DivIsNat
  <2>2. rewardPerToken =
          rewardPerTokenStored + ((elapsed * rewardRate * Unit) \div totalSupply)
    BY <1>4 DEF rewardPerToken
  <2> HIDE DEF elapsed
  <2> QED
    BY <2>1, <2>2, Types
<1> QED
  BY <1>3, <1>4

LEMMA EarnedIsNat ==
  ASSUME ViewsAreDefined, NEW s \in Stakers
  PROVE  earned(s) \in Nat
<1>1. rewardPerToken - userRewardPerTokenPaid[s] \in Nat
  BY AccumulatorGrows, Types DEF ViewsAreDefined
<1>2. balances[s] * (rewardPerToken - userRewardPerTokenPaid[s]) \in Nat
  BY <1>1, Types, ProductIsNat
<1>3. (balances[s] * (rewardPerToken - userRewardPerTokenPaid[s])) \div Unit \in Nat
  BY <1>2, UnitAssumption, DivIsNat
<1> QED
  BY <1>3, Types DEF earned

LEMMA NewRateIsNat ==
  ASSUME ViewsAreDefined, NEW reward \in Nat
  PROVE  newRate(reward) \in Nat
<1>1. CASE now >= periodFinish
  BY <1>1, DurationAssumption, DivIsNat DEF newRate
<1>2. CASE ~ (now >= periodFinish)
  <2>1. (periodFinish - now) * rewardRate \in Nat
    BY <1>2, Types, ProductIsNat
  <2>2. reward + (periodFinish - now) * rewardRate \in Nat
    BY <2>1
  <2>3. newRate(reward) = (reward + (periodFinish - now) * rewardRate) \div rewardsDuration
    BY <1>2 DEF newRate
  <2> QED
    BY <2>2, <2>3, DurationAssumption, DivIsNat
<1> QED
  BY <1>1, <1>2

-----------------------------------------------------------------------------
(* What a call that settles the caller leaves: the conjuncts that relate   *)
(* the accumulator to the time and to the accounts.                        *)
LEMMA SettledAccounts ==
  ASSUME ViewsAreDefined, NEW s \in Stakers, updateAccumulator,
         userRewardPerTokenPaid' = [userRewardPerTokenPaid EXCEPT ![s] = rewardPerToken]
  PROVE  /\ rewardPerTokenStored' \in Nat /\ lastUpdateTime' \in Nat
         /\ userRewardPerTokenPaid' \in [Stakers -> Nat]
         /\ lastUpdateTime' <= now /\ lastUpdateTime' <= periodFinish
         /\ \A t \in Stakers : userRewardPerTokenPaid'[t] <= rewardPerTokenStored'
<1>1. rewardPerTokenStored' = rewardPerToken /\ lastUpdateTime' = lastTimeRewardApplicable
  BY DEF updateAccumulator
<1>2. userRewardPerTokenPaid' \in [Stakers -> Nat]
  BY AccumulatorGrows, Types
<1>3. ASSUME NEW t \in Stakers
      PROVE  userRewardPerTokenPaid'[t] <= rewardPerTokenStored'
  BY <1>1, AccumulatorGrows, Types DEF ViewsAreDefined
<1> QED
  BY <1>1, <1>2, <1>3, AccumulatorGrows, LastTime

LEMMA InitIsDefined == Init => ViewsAreDefined
<1> SUFFICES ASSUME Init PROVE ViewsAreDefined
  OBVIOUS
<1> QED
  BY DurationAssumption DEF Init, ViewsAreDefined

LEMMA StepIsDefined == ViewsAreDefined /\ [Next]_vars => ViewsAreDefined'
<1> SUFFICES ASSUME ViewsAreDefined, [Next]_vars PROVE ViewsAreDefined'
  OBVIOUS
<1>1. ASSUME NEW s \in Stakers, NEW a \in Amounts, stake(s, a) PROVE ViewsAreDefined'
  <2>1. rewards' \in [Stakers -> Nat]
    BY <1>1, EarnedIsNat, Types DEF stake, updateReward, settleAccount
  <2>2. totalSupply' \in Nat /\ balances' \in [Stakers -> Nat]
    BY <1>1, AmountsAssumption, Types DEF stake
  <2> QED
    BY <1>1, <2>1, <2>2, SettledAccounts, Types
    DEF stake, updateReward, settleAccount, rateVars, ViewsAreDefined
<1>2. ASSUME NEW s \in Stakers, NEW a \in Amounts, withdraw(s, a) PROVE ViewsAreDefined'
  <2>1. rewards' \in [Stakers -> Nat]
    BY <1>2, EarnedIsNat, Types DEF withdraw, updateReward, settleAccount
  <2>2. totalSupply' \in Nat /\ balances' \in [Stakers -> Nat]
    BY <1>2, AmountsAssumption, Types DEF withdraw
  <2> QED
    BY <1>2, <2>1, <2>2, SettledAccounts, Types
    DEF withdraw, updateReward, settleAccount, rateVars, ViewsAreDefined
<1>3. ASSUME NEW s \in Stakers, getReward(s) PROVE ViewsAreDefined'
  <2>1. rewards' \in [Stakers -> Nat] /\ paid' \in [Stakers -> Nat]
    BY <1>3, EarnedIsNat, Types DEF getReward, payReward
  <2> QED
    BY <1>3, <2>1, SettledAccounts, Types
    DEF getReward, payReward, rateVars, stakeVars, ViewsAreDefined
<1>4. ASSUME NEW s \in Stakers, exit(s) PROVE ViewsAreDefined'
  <2>1. rewards' \in [Stakers -> Nat] /\ paid' \in [Stakers -> Nat]
    BY <1>4, EarnedIsNat, Types DEF exit, payReward
  <2>2. totalSupply' \in Nat /\ balances' \in [Stakers -> Nat]
    BY <1>4, Types DEF exit
  <2> QED
    BY <1>4, <2>1, <2>2, SettledAccounts, Types DEF exit, payReward, rateVars, ViewsAreDefined
<1>5. ASSUME NEW r \in RewardAmounts, notifyRewardAmount(r) PROVE ViewsAreDefined'
  <2>1. rewardRate' \in Nat /\ notified' \in Nat
    BY <1>5, NewRateIsNat, AmountsAssumption, Types DEF notifyRewardAmount
  <2>2. \A t \in Stakers : userRewardPerTokenPaid[t] <= rewardPerToken
    BY AccumulatorGrows, Types DEF ViewsAreDefined
  <2>3. periodFinish' \in Nat /\ now <= periodFinish' /\ periodFinish' <= now + rewardsDuration
    BY <1>5, DurationAssumption, Types DEF notifyRewardAmount
  <2> QED
    BY <1>5, <2>1, <2>2, <2>3, AccumulatorGrows, Types
    DEF notifyRewardAmount, stakeVars, ViewsAreDefined
<1>6. ASSUME NEW r \in RewardAmounts, transferRewards(r) PROVE ViewsAreDefined'
  BY <1>6, AmountsAssumption, Types DEF transferRewards, rateVars, stakeVars, ViewsAreDefined
<1>7. ASSUME blockMined PROVE ViewsAreDefined'
  BY <1>7, DurationAssumption, Types DEF blockMined, rateVars, stakeVars, ViewsAreDefined
<1>8. ASSUME UNCHANGED vars PROVE ViewsAreDefined'
  BY <1>8 DEF vars, rateVars, stakeVars, ViewsAreDefined
<1> QED
  BY <1>1, <1>2, <1>3, <1>4, <1>5, <1>6, <1>7, <1>8 DEF Next

(* Every view, and so every call, is defined in every reachable state: no  *)
(* subtraction of StakingRewardsV2 ever reverts.                           *)
THEOREM NeverReverts == Spec => []ViewsAreDefined
<1> QED
  BY InitIsDefined, StepIsDefined, PTL DEF Spec

-----------------------------------------------------------------------------
(* When the accumulator was brought up to date it stays where it is until  *)
(* time passes, however the supply and the rate change.                    *)
LEMMA AccumulatorStands ==
  ASSUME ViewsAreDefined, ViewsAreDefined', rewardPerTokenStored' = rewardPerToken,
         lastUpdateTime' = lastTimeRewardApplicable'
  PROVE  rewardPerToken' = rewardPerToken
<1>1. CASE totalSupply' = 0
  BY <1>1 DEF rewardPerToken
<1>2. CASE totalSupply' # 0
  <2>1. totalSupply' \in Nat \ {0} /\ rewardRate' \in Nat /\ lastUpdateTime' \in Nat
    BY <1>2 DEF ViewsAreDefined
  <2>2. (lastTimeRewardApplicable' - lastUpdateTime') * rewardRate' * Unit = 0
    <3>1. lastTimeRewardApplicable' - lastUpdateTime' = 0
      <4>1. lastTimeRewardApplicable' = lastUpdateTime'
        OBVIOUS
      <4> QED
        BY <2>1, <4>1
    <3>2. (lastTimeRewardApplicable' - lastUpdateTime') * rewardRate' = 0
      BY <3>1, <2>1, ZeroTimes
    <3> QED
      BY <3>2, UnitAssumption, ZeroTimes
  <2>3. rewardPerToken' = rewardPerTokenStored' + (0 \div totalSupply')
    BY <1>2, <2>2 DEF rewardPerToken
  <2> QED
    BY <2>1, <2>3, ZeroDiv, AccumulatorGrows
<1> QED
  BY <1>1, <1>2

(* An account that the step leaves alone keeps what it earned.             *)
LEMMA OthersKeep ==
  ASSUME ViewsAreDefined, ViewsAreDefined', rewardPerToken' = rewardPerToken, NEW t \in Stakers,
         balances'[t] = balances[t], rewards'[t] = rewards[t], paid'[t] = paid[t],
         userRewardPerTokenPaid'[t] = userRewardPerTokenPaid[t]
  PROVE  entitled(t)' = entitled(t)
BY DEF entitled, earned

(* An account settled against the accumulator has earned what rewards      *)
(* says, whatever its stake is now.                                        *)
LEMMA SettledKeeps ==
  ASSUME ViewsAreDefined, ViewsAreDefined', rewardPerToken' = rewardPerToken, NEW t \in Stakers,
         userRewardPerTokenPaid'[t] = rewardPerToken
  PROVE  earned(t)' = rewards'[t]
<1>1. rewardPerToken' - userRewardPerTokenPaid'[t] = 0
  BY AccumulatorGrows
<1>2. balances'[t] * (rewardPerToken' - userRewardPerTokenPaid'[t]) = 0
  BY <1>1 DEF ViewsAreDefined
<1>3. earned(t)' = (0 \div Unit) + rewards'[t]
  BY <1>2 DEF earned
<1> QED
  BY <1>3, UnitAssumption, ZeroDiv DEF ViewsAreDefined

(* A step that settles s, adding to what s was paid what it takes from its *)
(* rewards, changes what nobody is entitled to.                            *)
LEMMA SettlingEarnsNothing ==
  ASSUME ViewsAreDefined, ViewsAreDefined', NEW s \in Stakers,
         updateAccumulator, now' = now, periodFinish' = periodFinish,
         userRewardPerTokenPaid' = [userRewardPerTokenPaid EXCEPT ![s] = rewardPerToken],
         \A t \in Stakers \ {s} : /\ balances'[t] = balances[t]
                                  /\ rewards'[t] = rewards[t]
                                  /\ paid'[t] = paid[t],
         rewards'[s] + paid'[s] = earned(s) + paid[s]
  PROVE  \A t \in Stakers : entitled(t)' = entitled(t)
<1>1. rewardPerToken' = rewardPerToken
  <2>1. lastTimeRewardApplicable' = lastTimeRewardApplicable
    BY DEF lastTimeRewardApplicable
  <2> QED
    BY <2>1, AccumulatorStands DEF updateAccumulator
<1>2. entitled(s)' = entitled(s)
  <2>1. userRewardPerTokenPaid'[s] = rewardPerToken
    BY Types
  <2>2. earned(s)' = rewards'[s]
    BY <1>1, <2>1, SettledKeeps
  <2>3. /\ rewards'[s] \in Nat /\ paid'[s] \in Nat /\ paid[s] \in Nat
        /\ earned(s) \in Nat
    BY EarnedIsNat DEF ViewsAreDefined
  <2> QED
    BY <2>2, <2>3 DEF entitled
<1>3. ASSUME NEW t \in Stakers, t # s PROVE entitled(t)' = entitled(t)
  <2>1. userRewardPerTokenPaid'[t] = userRewardPerTokenPaid[t]
    BY <1>3, Types
  <2> QED
    BY <1>1, <1>3, <2>1, OthersKeep
<1> QED
  BY <1>2, <1>3

LEMMA StepEarnsNothing ==
  ViewsAreDefined /\ ViewsAreDefined' /\ [Next]_vars =>
    [now' = now => \A s \in Stakers : entitled(s)' = entitled(s)]_vars
<1> SUFFICES ASSUME ViewsAreDefined, ViewsAreDefined', Next, now' = now
             PROVE  \A t \in Stakers : entitled(t)' = entitled(t)
  BY DEF vars
<1>1. ASSUME NEW s \in Stakers, NEW a \in Amounts, stake(s, a)
      PROVE  \A t \in Stakers : entitled(t)' = entitled(t)
  <2>1. /\ rewards'[s] = earned(s) /\ paid'[s] = paid[s]
        /\ \A t \in Stakers \ {s} : /\ balances'[t] = balances[t]
                                    /\ rewards'[t] = rewards[t]
                                    /\ paid'[t] = paid[t]
    BY <1>1, Types DEF stake, updateReward, settleAccount
  <2> QED
    BY <1>1, <2>1, SettlingEarnsNothing DEF stake, updateReward, settleAccount, rateVars
<1>2. ASSUME NEW s \in Stakers, NEW a \in Amounts, withdraw(s, a)
      PROVE  \A t \in Stakers : entitled(t)' = entitled(t)
  <2>1. /\ rewards'[s] = earned(s) /\ paid'[s] = paid[s]
        /\ \A t \in Stakers \ {s} : /\ balances'[t] = balances[t]
                                    /\ rewards'[t] = rewards[t]
                                    /\ paid'[t] = paid[t]
    BY <1>2, Types DEF withdraw, updateReward, settleAccount
  <2> QED
    BY <1>2, <2>1, SettlingEarnsNothing DEF withdraw, updateReward, settleAccount, rateVars
<1>3. ASSUME NEW s \in Stakers, getReward(s)
      PROVE  \A t \in Stakers : entitled(t)' = entitled(t)
  <2>1. /\ rewards'[s] = 0 /\ paid'[s] = paid[s] + earned(s)
        /\ \A t \in Stakers \ {s} : /\ balances'[t] = balances[t]
                                    /\ rewards'[t] = rewards[t]
                                    /\ paid'[t] = paid[t]
    BY <1>3, Types DEF getReward, payReward, stakeVars
  <2>2. rewards'[s] + paid'[s] = earned(s) + paid[s]
    BY <2>1, EarnedIsNat, Types
  <2> QED
    BY <1>3, <2>1, <2>2, SettlingEarnsNothing DEF getReward, payReward, rateVars
<1>4. ASSUME NEW s \in Stakers, exit(s)
      PROVE  \A t \in Stakers : entitled(t)' = entitled(t)
  <2>1. /\ rewards'[s] = 0 /\ paid'[s] = paid[s] + earned(s)
        /\ \A t \in Stakers \ {s} : /\ balances'[t] = balances[t]
                                    /\ rewards'[t] = rewards[t]
                                    /\ paid'[t] = paid[t]
    BY <1>4, Types DEF exit, payReward
  <2>2. rewards'[s] + paid'[s] = earned(s) + paid[s]
    BY <2>1, EarnedIsNat, Types
  <2> QED
    BY <1>4, <2>1, <2>2, SettlingEarnsNothing DEF exit, payReward, rateVars
<1>5. ASSUME NEW r \in RewardAmounts, notifyRewardAmount(r)
      PROVE  \A t \in Stakers : entitled(t)' = entitled(t)
  <2>1. lastUpdateTime' = lastTimeRewardApplicable'
    BY <1>5, DurationAssumption, Types DEF notifyRewardAmount, lastTimeRewardApplicable
  <2>2. rewardPerToken' = rewardPerToken
    BY <1>5, <2>1, AccumulatorStands DEF notifyRewardAmount
  <2> QED
    BY <1>5, <2>2, OthersKeep DEF notifyRewardAmount, stakeVars
<1>6. ASSUME NEW r \in RewardAmounts, transferRewards(r)
      PROVE  \A t \in Stakers : entitled(t)' = entitled(t)
  <2>1. rewardPerToken' = rewardPerToken
    BY <1>6 DEF transferRewards, rateVars, stakeVars, rewardPerToken, lastTimeRewardApplicable
  <2> QED
    BY <1>6, <2>1, OthersKeep DEF transferRewards, stakeVars
<1>7. ASSUME blockMined
      PROVE  \A t \in Stakers : entitled(t)' = entitled(t)
  BY <1>7, Types DEF blockMined
<1> QED
  BY <1>1, <1>2, <1>3, <1>4, <1>5, <1>6, <1>7 DEF Next

(* No call to StakingRewardsV2, by whomever, changes what any account was  *)
(* paid and has earned: only time adds to it.                              *)
THEOREM OnlyTimeEarns == Spec => CallsEarnNothing
<1> QED
  BY NeverReverts, StepEarnsNothing, PTL DEF Spec, CallsEarnNothing
-----------------------------------------------------------------------------
(* Totals over the stakers.                                                *)
LEMMA TotalIsSum ==
  ASSUME NEW f
  PROVE  Total(f) = sums(f)[DOMAIN f]
BY FoldIsSum DEF Total

(* Sums are linear, and grow with every term.                              *)
LEMMA SumIsLinear ==
  ASSUME NEW S, IsFiniteSet(S), NEW f \in [S -> Int], NEW g \in [S -> Int],
         NEW h \in [S -> Int], NEW d \in Int
  PROVE  (\A x \in S : h[x] = f[x] + d * g[x]) => Total(h) = Total(f) + d * Total(g)
<1>0. \A k \in [S -> Int] : \A T \in SUBSET S : \A x \in T :
        sums(k)[T] = k[x] + sums(k)[T \ {x}]
  BY SumOfElement
<1> SUFFICES ASSUME \A x \in S : h[x] = f[x] + d * g[x]
             PROVE  Total(h) = Total(f) + d * Total(g)
  OBVIOUS
<1> DEFINE C == {T \in SUBSET S : sums(h)[T] = sums(f)[T] + d * sums(g)[T]}
<1>1. {} \in C
  <2>1. sums(h)[{}] = 0 /\ sums(f)[{}] = 0 /\ sums(g)[{}] = 0
    BY SumOfEmpty
  <2> QED
    BY <2>1
<1>2. ASSUME NEW T \in SUBSET S, T # {}, \A x \in T : T \ {x} \in C PROVE T \in C
  <2>1. PICK x \in T : TRUE
    BY <1>2
  <2> DEFINE R == T \ {x}
  <2>2. /\ sums(h)[T] = h[x] + sums(h)[R]
        /\ sums(f)[T] = f[x] + sums(f)[R]
        /\ sums(g)[T] = g[x] + sums(g)[R]
    BY <1>0
  <2>3. sums(h)[R] = sums(f)[R] + d * sums(g)[R]
    BY <1>2
  <2>4. /\ f[x] \in Int /\ g[x] \in Int /\ sums(f)[R] \in Int /\ sums(g)[R] \in Int
    BY SumIsInt
  <2>5. h[x] = f[x] + d * g[x]
    OBVIOUS
  <2> HIDE DEF R
  <2>6. d * (g[x] + sums(g)[R]) = d * g[x] + d * sums(g)[R]
    BY <2>4
  <2>7. d * g[x] \in Int /\ d * sums(g)[R] \in Int
    BY <2>4
  <2>8. sums(h)[T] = sums(f)[T] + d * sums(g)[T]
    BY <2>2, <2>3, <2>4, <2>5, <2>6, <2>7
  <2> QED
    BY <2>8
<1>3. S \in C
  <2> HIDE DEF C
  <2> QED
    BY <1>1, <1>2, SubsetInduction
<1> QED
  BY <1>3, TotalIsSum

LEMMA SumIsMonotone ==
  ASSUME NEW S, IsFiniteSet(S), NEW f \in [S -> Int], NEW g \in [S -> Int],
         \A x \in S : f[x] <= g[x]
  PROVE  Total(f) <= Total(g)
<1> DEFINE C == {T \in SUBSET S : sums(f)[T] <= sums(g)[T]}
<1>1. {} \in C
  BY SumOfEmpty
<1>2. ASSUME NEW T \in SUBSET S, T # {}, \A x \in T : T \ {x} \in C PROVE T \in C
  <2>1. PICK x \in T : TRUE
    BY <1>2
  <2>2. sums(f)[T] = f[x] + sums(f)[T \ {x}] /\ sums(g)[T] = g[x] + sums(g)[T \ {x}]
    BY SumOfElement
  <2>3. f[x] <= g[x] /\ sums(f)[T \ {x}] <= sums(g)[T \ {x}]
    BY <1>2
  <2>4. /\ f[x] \in Int /\ g[x] \in Int
        /\ sums(f)[T \ {x}] \in Int /\ sums(g)[T \ {x}] \in Int
    BY SumIsInt
  <2>5. sums(f)[T] <= sums(g)[T]
    BY <2>2, <2>3, <2>4
  <2> QED
    BY <2>5
<1>3. S \in C
  <2> HIDE DEF C
  <2> QED
    BY <1>1, <1>2, SubsetInduction
<1> QED
  BY <1>3, TotalIsSum

LEMMA TotalIsInt ==
  ASSUME NEW S, IsFiniteSet(S), NEW f \in [S -> Int]
  PROVE  Total(f) \in Int
BY TotalIsSum, SumIsInt

LEMMA TotalOfZeros ==
  ASSUME NEW S, IsFiniteSet(S)
  PROVE  Total([x \in S |-> 0]) = 0
<1> DEFINE z == [x \in S |-> 0]
<1>1. z \in [S -> Int] /\ \A x \in S : z[x] = z[x] + 1 * z[x]
  OBVIOUS
<1> HIDE DEF z
<1>2. Total(z) = Total(z) + 1 * Total(z)
  BY <1>1, SumIsLinear
<1>3. Total(z) = 0
  BY <1>1, <1>2, TotalIsInt
<1> QED
  BY <1>3 DEF z

(* A change at one point changes the total by as much.                     *)
LEMMA TotalOfChange ==
  ASSUME NEW S, IsFiniteSet(S), NEW f \in [S -> Int], NEW x \in S, NEW v \in Int
  PROVE  Total([f EXCEPT ![x] = v]) = Total(f) - f[x] + v
<1> DEFINE g == [f EXCEPT ![x] = v]
           C == {T \in SUBSET S : sums(g)[T] = sums(f)[T] + (IF x \in T THEN v - f[x] ELSE 0)}
<1>0. g \in [S -> Int]
  OBVIOUS
<1>1. {} \in C
  <2>1. sums(g)[{}] = 0 /\ sums(f)[{}] = 0
    <3> HIDE DEF g
    <3> QED
      BY <1>0, SumOfEmpty
  <2> QED
    BY <2>1
<1>2. ASSUME NEW T \in SUBSET S, T # {}, \A y \in T : T \ {y} \in C PROVE T \in C
  <2>1. PICK y \in T : TRUE
    BY <1>2
  <2>2. sums(f)[T] = f[y] + sums(f)[T \ {y}] /\ sums(g)[T] = g[y] + sums(g)[T \ {y}]
    <3> HIDE DEF C, g
    <3> QED
      BY <1>0, SumOfElement
  <2>3. /\ f[x] \in Int /\ f[y] \in Int /\ g[y] = IF y = x THEN v ELSE f[y]
        /\ sums(f)[T \ {y}] \in Int /\ sums(g)[T \ {y}] \in Int
    BY <1>0, SumIsInt
  <2>4. sums(g)[T \ {y}] = sums(f)[T \ {y}] + (IF x \in T \ {y} THEN v - f[x] ELSE 0)
    BY <1>2
  <2>5. sums(g)[T] = sums(f)[T] + (IF x \in T THEN v - f[x] ELSE 0)
    <3> HIDE DEF g
    <3>1. CASE x = y
      BY <3>1, <2>1, <2>2, <2>3, <2>4
    <3>2. CASE x # y /\ x \in T
      BY <3>2, <2>1, <2>2, <2>3, <2>4
    <3>3. CASE x \notin T
      BY <3>3, <2>1, <2>2, <2>3, <2>4
    <3> QED
      BY <3>1, <3>2, <3>3
  <2> QED
    BY <2>5
<1>3. S \in C
  <2> HIDE DEF C
  <2> QED
    BY <1>1, <1>2, SubsetInduction
<1>4. Total(g) = Total(f) + (v - f[x])
  BY <1>0, <1>3, TotalIsSum
<1> HIDE DEF g
<1>5. Total(g) = Total(f) - f[x] + v
  BY <1>4, TotalIsInt
<1> QED
  BY <1>5 DEF g

(* No term of a sum of naturals is larger than the sum.                    *)
LEMMA TermWithinTotal ==
  ASSUME NEW S, IsFiniteSet(S), NEW f \in [S -> Nat], NEW x \in S
  PROVE  f[x] <= Total(f)
<1> DEFINE g == [y \in S |-> 0]
           h == [g EXCEPT ![x] = f[x]]
<1>1. Total(h) = Total(g) - g[x] + f[x]
  BY TotalOfChange
<1>2. Total(h) <= Total(f)
  <2>1. h \in [S -> Int] /\ f \in [S -> Int] /\ \A y \in S : h[y] <= f[y]
    OBVIOUS
  <2> HIDE DEF h
  <2> QED
    BY <2>1, SumIsMonotone
<1>3. Total(g) = 0
  BY TotalOfZeros
<1>4. Total(f) \in Int
  BY TotalIsInt
<1> QED
  BY <1>1, <1>2, <1>3, <1>4
-----------------------------------------------------------------------------
(* What covers the rewards, in units of the accumulator: what an account   *)
(* was paid, is credited with, and has earned since it was settled, before *)
(* the rounding; up to the last update, and up to now.                     *)
claim(s) ==
  (paid[s] + rewards[s]) * Unit + balances[s] * (rewardPerTokenStored - userRewardPerTokenPaid[s])
claimNow(s) ==
  (paid[s] + rewards[s]) * Unit + balances[s] * (rewardPerToken - userRewardPerTokenPaid[s])

allClaims == [s \in Stakers |-> claim(s)]
allClaimsNow == [s \in Stakers |-> claimNow(s)]

BooksBalance ==
  /\ totalSupply = Total(balances)
  /\ Total(allClaims) + (periodFinish - lastUpdateTime) * rewardRate * Unit <= notified * Unit

IInv == ViewsAreDefined /\ BooksBalance

LEMMA DivBounds ==
  ASSUME NEW a \in Nat, NEW b \in Nat \ {0}
  PROVE  /\ a \div b \in Nat
         /\ b * (a \div b) <= a
         /\ a < b * (a \div b) + b
OBVIOUS

LEMMA TimesIsMonotone ==
  ASSUME NEW a \in Int, NEW b \in Int, a <= b, NEW u \in Nat
  PROVE  a * u <= b * u
OBVIOUS

LEMMA DifferenceScales ==
  ASSUME NEW a \in Int, NEW b \in Int, NEW c \in Int, NEW d \in Int,
         a - b <= c - d, NEW u \in Nat
  PROVE  a * u <= b * u + (c - d) * u
<1>1. a * u <= (b + (c - d)) * u
  BY TimesIsMonotone
<1>2. (b + (c - d)) * u = b * u + (c - d) * u
  OBVIOUS
<1> QED
  BY <1>1, <1>2

LEMMA SumScales ==
  ASSUME NEW a \in Int, NEW b \in Int, NEW c \in Int, NEW n \in Int, NEW u \in Nat,
         a * u <= c, c + b * u <= n
  PROVE  (a + b) * u <= n
<1>1. (a + b) * u = a * u + b * u
  OBVIOUS
<1>2. a * u \in Int /\ b * u \in Int
  OBVIOUS
<1> QED
  BY <1>1, <1>2

LEMMA TimesCancels ==
  ASSUME NEW a \in Int, NEW b \in Int, NEW u \in Nat \ {0}, a * u <= b * u
  PROVE  a <= b
<1> SUFFICES ASSUME b + 1 <= a PROVE FALSE
  OBVIOUS
<1>1. (b + 1) * u <= a * u
  BY TimesIsMonotone
<1>2. (b + 1) * u = b * u + u /\ b * u \in Int /\ a * u \in Int
  OBVIOUS
<1> QED
  BY <1>1, <1>2

LEMMA ClaimIsNat ==
  ASSUME ViewsAreDefined, NEW s \in Stakers
  PROVE  claim(s) \in Nat /\ claimNow(s) \in Nat
<1>1. (paid[s] + rewards[s]) * Unit \in Nat
  BY Types, UnitAssumption, ProductIsNat
<1>2. balances[s] * (rewardPerTokenStored - userRewardPerTokenPaid[s]) \in Nat
  <2>1. rewardPerTokenStored - userRewardPerTokenPaid[s] \in Nat
    BY Types DEF ViewsAreDefined
  <2> QED
    BY <2>1, Types, ProductIsNat
<1>3. balances[s] * (rewardPerToken - userRewardPerTokenPaid[s]) \in Nat
  <2>1. rewardPerToken - userRewardPerTokenPaid[s] \in Nat
    BY AccumulatorGrows, Types DEF ViewsAreDefined
  <2> QED
    BY <2>1, Types, ProductIsNat
<1> QED
  BY <1>1, <1>2, <1>3 DEF claim, claimNow

(* The accumulator hands out no more than the rate gave since the update.  *)
LEMMA AccumulatorIsCovered ==
  ASSUME ViewsAreDefined
  PROVE  (rewardPerToken - rewardPerTokenStored) * totalSupply
           <= (lastTimeRewardApplicable - lastUpdateTime) * rewardRate * Unit
<1> DEFINE given == (lastTimeRewardApplicable - lastUpdateTime) * rewardRate * Unit
<1>1. given \in Nat
  <2>1. lastTimeRewardApplicable - lastUpdateTime \in Nat
    BY Types, LastTime
  <2>2. (lastTimeRewardApplicable - lastUpdateTime) * rewardRate \in Nat
    BY <2>1, Types, ProductIsNat
  <2> QED
    BY <2>2, UnitAssumption, ProductIsNat
<1>2. CASE totalSupply = 0
  <2>1. rewardPerToken - rewardPerTokenStored = 0
    BY <1>2, Types DEF rewardPerToken
  <2> QED
    BY <1>1, <1>2, <2>1
<1>3. CASE totalSupply # 0
  <2>1. totalSupply \in Nat \ {0}
    BY <1>3, Types
  <2>2. rewardPerToken = rewardPerTokenStored + (given \div totalSupply)
    BY <1>3 DEF rewardPerToken
  <2> HIDE DEF given
  <2>3. given \div totalSupply \in Nat /\ totalSupply * (given \div totalSupply) <= given
    BY <1>1, <2>1, DivBounds
  <2>4. rewardPerToken - rewardPerTokenStored = given \div totalSupply
    BY <2>2, <2>3, Types
  <2>5. (given \div totalSupply) * totalSupply <= given
    BY <2>1, <2>3
  <2> QED
    BY <2>4, <2>5 DEF given
<1> QED
  BY <1>2, <1>3

LEMMA NowIsCovered ==
  ASSUME IInv
  PROVE  Total(allClaimsNow) + outstanding * Unit <= notified * Unit
<1> DEFINE gain == rewardPerToken - rewardPerTokenStored
           elapsed == lastTimeRewardApplicable - lastUpdateTime
           rest == periodFinish - lastTimeRewardApplicable
<1>1. gain \in Nat /\ elapsed \in Nat /\ rest \in Nat
  BY Types, LastTime, AccumulatorGrows DEF IInv
<1>2. /\ allClaims \in [Stakers -> Int] /\ allClaimsNow \in [Stakers -> Int]
      /\ balances \in [Stakers -> Int]
  BY ClaimIsNat, Types DEF IInv, allClaims, allClaimsNow
<1>3. ASSUME NEW s \in Stakers
      PROVE  allClaimsNow[s] = allClaims[s] + gain * balances[s]
  <2> DEFINE base == (paid[s] + rewards[s]) * Unit
             since == rewardPerTokenStored - userRewardPerTokenPaid[s]
  <2>1. base \in Int /\ since \in Int /\ balances[s] \in Int
    BY Types, UnitAssumption DEF IInv
  <2>2. rewardPerToken - userRewardPerTokenPaid[s] = since + gain
    BY AccumulatorGrows, Types DEF IInv
  <2>3. claim(s) = base + balances[s] * since /\ claimNow(s) = base + balances[s] * (since + gain)
    BY <2>2 DEF claim, claimNow
  <2> HIDE DEF base, since, gain
  <2>4. balances[s] * (since + gain) = balances[s] * since + gain * balances[s]
    BY <1>1, <2>1
  <2>5. balances[s] * since \in Int /\ gain * balances[s] \in Int
    BY <1>1, <2>1
  <2>6. claimNow(s) = claim(s) + gain * balances[s]
    BY <2>1, <2>3, <2>4, <2>5
  <2> QED
    BY <2>6 DEF allClaims, allClaimsNow
<1>4. Total(allClaimsNow) = Total(allClaims) + gain * totalSupply
  <2> HIDE DEF gain
  <2>1. Total(allClaimsNow) = Total(allClaims) + gain * Total(balances)
    BY <1>1, <1>2, <1>3, StakersAssumption, SumIsLinear
  <2> QED
    BY <2>1 DEF IInv, BooksBalance
<1>5. gain * totalSupply <= elapsed * rewardRate * Unit
  BY AccumulatorIsCovered DEF IInv
<1>6. (periodFinish - lastUpdateTime) * rewardRate * Unit
        = elapsed * rewardRate * Unit + rest * rewardRate * Unit
  <2>1. periodFinish - lastUpdateTime = elapsed + rest
    BY Types, LastTime DEF IInv
  <2>2. rewardRate \in Nat /\ Unit \in Nat
    BY Types, UnitAssumption DEF IInv
  <2> HIDE DEF elapsed, rest
  <2>3. (elapsed + rest) * rewardRate * Unit = elapsed * rewardRate * Unit + rest * rewardRate * Unit
    BY <1>1, <2>2
  <2> QED
    BY <2>1, <2>3
<1>7. outstanding * Unit = rest * rewardRate * Unit
  BY DEF outstanding
<1>8. Total(allClaims) + (periodFinish - lastUpdateTime) * rewardRate * Unit <= notified * Unit
  BY DEF IInv, BooksBalance
<1>9. /\ Total(allClaims) \in Int /\ gain * totalSupply \in Int /\ notified * Unit \in Int
      /\ elapsed * rewardRate * Unit \in Int /\ rest * rewardRate * Unit \in Int
  <2>1. rewardRate \in Nat /\ Unit \in Nat /\ totalSupply \in Nat /\ notified \in Nat
    BY Types, UnitAssumption DEF IInv
  <2> HIDE DEF gain, elapsed, rest
  <2> QED
    BY <1>1, <1>2, <2>1, StakersAssumption, TotalIsInt
<1> HIDE DEF gain, elapsed, rest
<1> QED
  BY <1>4, <1>5, <1>6, <1>7, <1>8, <1>9

LEMMA ClaimAtUpdate ==
  ASSUME ViewsAreDefined, NEW s \in Stakers, rewardPerTokenStored' = rewardPerToken,
         balances'[s] = balances[s], rewards'[s] = rewards[s], paid'[s] = paid[s],
         userRewardPerTokenPaid'[s] = userRewardPerTokenPaid[s]
  PROVE  claim(s)' = claimNow(s)
BY DEF claim, claimNow

(* What an account is entitled to, which was rounded down, is covered by   *)
(* its claim.                                                              *)
LEMMA EntitledIsClaimed ==
  ASSUME ViewsAreDefined, NEW s \in Stakers
  PROVE  entitled(s) * Unit <= claimNow(s)
<1> DEFINE since == balances[s] * (rewardPerToken - userRewardPerTokenPaid[s])
           quotient == since \div Unit
<1>1. since \in Nat
  <2>1. rewardPerToken - userRewardPerTokenPaid[s] \in Nat
    BY AccumulatorGrows, Types DEF ViewsAreDefined
  <2> QED
    BY <2>1, Types, ProductIsNat
<1>2. quotient \in Nat /\ Unit * quotient <= since
  <2> HIDE DEF since
  <2> QED
    BY <1>1, UnitAssumption, DivBounds
<1>3. entitled(s) = paid[s] + (quotient + rewards[s])
  BY DEF entitled, earned
<1>4. claimNow(s) = (paid[s] + rewards[s]) * Unit + since
  BY DEF claimNow
<1>5. paid[s] \in Nat /\ rewards[s] \in Nat /\ Unit \in Nat
  BY Types, UnitAssumption
<1> HIDE DEF since, quotient
<1>6. (paid[s] + (quotient + rewards[s])) * Unit = (paid[s] + rewards[s]) * Unit + Unit * quotient
  BY <1>2, <1>5
<1>7. (paid[s] + rewards[s]) * Unit \in Nat /\ Unit * quotient \in Nat
  BY <1>2, <1>5, ProductIsNat
<1> QED
  BY <1>1, <1>2, <1>3, <1>4, <1>6, <1>7

(* A step that settles s, whatever it does to the stake of s, leaves no    *)
(* claim larger than it found it.                                          *)
LEMMA SettlingClaimsNoMore ==
  ASSUME ViewsAreDefined, ViewsAreDefined', NEW s \in Stakers, updateAccumulator,
         userRewardPerTokenPaid' = [userRewardPerTokenPaid EXCEPT ![s] = rewardPerToken],
         \A t \in Stakers \ {s} : /\ balances'[t] = balances[t]
                                  /\ rewards'[t] = rewards[t]
                                  /\ paid'[t] = paid[t],
         rewards'[s] + paid'[s] = earned(s) + paid[s]
  PROVE  \A t \in Stakers : claim(t)' <= claimNow(t)
<1>1. rewardPerTokenStored' = rewardPerToken
  BY DEF updateAccumulator
<1>2. claim(s)' <= claimNow(s)
  <2>1. userRewardPerTokenPaid'[s] = rewardPerToken
    BY Types
  <2>2. rewardPerTokenStored' - userRewardPerTokenPaid'[s] = 0
    BY <1>1, <2>1, AccumulatorGrows
  <2>3. balances'[s] * (rewardPerTokenStored' - userRewardPerTokenPaid'[s]) = 0
    BY <2>2 DEF ViewsAreDefined
  <2>4. claim(s)' = (paid'[s] + rewards'[s]) * Unit + 0
    BY <2>3 DEF claim
  <2>5. paid'[s] + rewards'[s] = entitled(s)
    <3>1. /\ paid'[s] \in Nat /\ rewards'[s] \in Nat
          /\ earned(s) \in Nat /\ paid[s] \in Nat
      BY EarnedIsNat DEF ViewsAreDefined
    <3> QED
      BY <3>1 DEF entitled
  <2>6. entitled(s) * Unit \in Nat
    BY EarnedIsNat, Types, UnitAssumption, ProductIsNat DEF entitled
  <2> QED
    BY <2>4, <2>5, <2>6, EntitledIsClaimed
<1>3. ASSUME NEW t \in Stakers, t # s PROVE claim(t)' <= claimNow(t)
  <2>1. userRewardPerTokenPaid'[t] = userRewardPerTokenPaid[t]
    BY <1>3, Types
  <2>2. claim(t)' = claimNow(t)
    BY <1>1, <1>3, <2>1, ClaimAtUpdate
  <2> QED
    BY <2>2, ClaimIsNat
<1> QED
  BY <1>2, <1>3

(* So the books still balance when the rest of the period, at the new      *)
(* rate, costs no more than was notified beyond the rest of the old one.   *)
LEMMA UpdateKeepsTheBooks ==
  ASSUME IInv, ViewsAreDefined', totalSupply' = Total(balances'),
         \A s \in Stakers : claim(s)' <= claimNow(s),
         (periodFinish' - lastUpdateTime') * rewardRate' - outstanding <= notified' - notified
  PROVE  BooksBalance'
<1> DEFINE before == Total(allClaimsNow)
           after == Total(allClaims)'
           rest == (periodFinish' - lastUpdateTime') * rewardRate'
<1>1. after <= before /\ after \in Int /\ before \in Int
  <2>1. allClaims' \in [Stakers -> Int] /\ allClaimsNow \in [Stakers -> Int]
    <3>1. ASSUME NEW s \in Stakers PROVE claim(s)' \in Int
      <4>1. /\ paid'[s] + rewards'[s] \in Int /\ Unit \in Int /\ balances'[s] \in Int
            /\ rewardPerTokenStored' - userRewardPerTokenPaid'[s] \in Int
        BY UnitAssumption DEF ViewsAreDefined
      <4> QED
        BY <4>1 DEF claim
    <3> QED
      BY <3>1, ClaimIsNat DEF IInv, allClaims, allClaimsNow
  <2>2. \A s \in Stakers : (allClaims')[s] <= allClaimsNow[s]
    BY DEF allClaims, allClaimsNow
  <2> HIDE DEF allClaims, allClaimsNow
  <2>3. Total(allClaims') <= Total(allClaimsNow)
    BY <2>1, <2>2, StakersAssumption, SumIsMonotone
  <2>4. after \in Int /\ before \in Int
    BY <2>1, StakersAssumption, TotalIsInt
  <2> QED
    BY <2>3, <2>4
<1>2. /\ rest \in Int /\ outstanding \in Int /\ Unit \in Nat
      /\ notified \in Int /\ notified' \in Int
  <2>1. rest \in Int
    BY DEF ViewsAreDefined
  <2>2. periodFinish - lastTimeRewardApplicable \in Int /\ rewardRate \in Int
    BY Types, LastTime DEF IInv
  <2> QED
    BY <2>1, <2>2, UnitAssumption DEF outstanding, IInv, ViewsAreDefined
<1>3. before + outstanding * Unit <= notified * Unit
  BY NowIsCovered
<1>4. rest * Unit <= outstanding * Unit + (notified' - notified) * Unit
  <2>1. rest - outstanding <= notified' - notified
    OBVIOUS
  <2> HIDE DEF rest
  <2> QED
    BY <1>2, <2>1, DifferenceScales
<1>5. after + rest * Unit <= notified' * Unit
  <2> HIDE DEF rest, before, after
  <2>1. (notified' - notified) * Unit = notified' * Unit - notified * Unit
    BY <1>2
  <2>2. /\ rest * Unit \in Int /\ outstanding * Unit \in Int
        /\ notified * Unit \in Int /\ notified' * Unit \in Int
    BY <1>2
  <2> QED
    BY <1>1, <1>3, <1>4, <2>1, <2>2
<1> QED
  BY <1>5 DEF BooksBalance

LEMMA InitBalances == Init => BooksBalance
<1> SUFFICES ASSUME Init PROVE BooksBalance
  OBVIOUS
<1>1. Total(balances) = 0
  BY StakersAssumption, TotalOfZeros DEF Init
<1>2. allClaims = [s \in Stakers |-> 0]
  BY UnitAssumption DEF Init, allClaims, claim
<1>3. Total(allClaims) = 0
  BY <1>2, StakersAssumption, TotalOfZeros
<1>4. (periodFinish - lastUpdateTime) * rewardRate * Unit = 0 /\ notified * Unit = 0
  BY UnitAssumption DEF Init
<1> QED
  BY <1>1, <1>3, <1>4 DEF Init, BooksBalance

LEMMA SupplyFollows ==
  ASSUME balances \in [Stakers -> Int], totalSupply = Total(balances), NEW s \in Stakers,
         NEW v \in Int, balances' = [balances EXCEPT ![s] = v],
         totalSupply' = totalSupply - balances[s] + v
  PROVE  totalSupply' = Total(balances')
<1>1. Total([balances EXCEPT ![s] = v]) = Total(balances) - balances[s] + v
  BY StakersAssumption, TotalOfChange
<1> QED
  BY <1>1

(* A step of an account that settles it: the period goes on.               *)
LEMMA SettlingKeepsTheBooks ==
  ASSUME IInv, ViewsAreDefined', NEW s \in Stakers, updateAccumulator,
         userRewardPerTokenPaid' = [userRewardPerTokenPaid EXCEPT ![s] = rewardPerToken],
         \A t \in Stakers \ {s} : /\ balances'[t] = balances[t]
                                  /\ rewards'[t] = rewards[t]
                                  /\ paid'[t] = paid[t],
         rewards'[s] + paid'[s] = earned(s) + paid[s],
         totalSupply' = Total(balances'),
         UNCHANGED rateVars, notified' = notified
  PROVE  BooksBalance'
<1>1. \A t \in Stakers : claim(t)' <= claimNow(t)
  BY SettlingClaimsNoMore DEF IInv
<1>2. (periodFinish' - lastUpdateTime') * rewardRate' = outstanding
  BY DEF updateAccumulator, outstanding, rateVars
<1>3. outstanding \in Int /\ notified \in Int
  <2>1. periodFinish - lastTimeRewardApplicable \in Int /\ rewardRate \in Int
    BY Types, LastTime DEF IInv
  <2> QED
    BY <2>1, Types DEF IInv, outstanding
<1>4. (periodFinish' - lastUpdateTime') * rewardRate' - outstanding <= notified' - notified
  BY <1>2, <1>3
<1> QED
  BY <1>1, <1>4, UpdateKeepsTheBooks

(* The new rate spreads what is left of the period and the new reward,     *)
(* rounded down, over a whole one.                                         *)
LEMMA NewRateIsCovered ==
  ASSUME ViewsAreDefined, NEW reward \in Nat
  PROVE  rewardsDuration * newRate(reward) <= reward + outstanding
<1>1. CASE now >= periodFinish
  <2>1. lastTimeRewardApplicable = periodFinish
    BY <1>1, Types DEF lastTimeRewardApplicable
  <2>2. outstanding = 0
    BY <2>1, Types DEF outstanding
  <2>3. rewardsDuration * (reward \div rewardsDuration) <= reward
    BY DurationAssumption, DivBounds
  <2> QED
    BY <1>1, <2>2, <2>3 DEF newRate
<1>2. CASE ~ (now >= periodFinish)
  <2>1. lastTimeRewardApplicable = now
    BY <1>2, Types DEF lastTimeRewardApplicable
  <2>2. outstanding \in Nat
    <3>1. periodFinish - now \in Nat
      BY <1>2, Types
    <3> QED
      BY <2>1, <3>1, Types, ProductIsNat DEF outstanding
  <2>3. newRate(reward) = (reward + outstanding) \div rewardsDuration
    BY <1>2, <2>1 DEF newRate, outstanding
  <2> QED
    BY <2>2, <2>3, DurationAssumption, DivBounds
<1> QED
  BY <1>1, <1>2

LEMMA StepKeepsTheBooks == IInv /\ ViewsAreDefined' /\ [Next]_vars => BooksBalance'
<1> SUFFICES ASSUME IInv, ViewsAreDefined', [Next]_vars PROVE BooksBalance'
  OBVIOUS
<1> USE DEF IInv
<1>b. balances \in [Stakers -> Int] /\ totalSupply = Total(balances)
  BY Types DEF BooksBalance
<1>1. ASSUME NEW s \in Stakers, NEW a \in Amounts, stake(s, a) PROVE BooksBalance'
  <2>1. /\ rewards'[s] = earned(s) /\ paid'[s] = paid[s]
        /\ \A t \in Stakers \ {s} : /\ balances'[t] = balances[t]
                                    /\ rewards'[t] = rewards[t]
                                    /\ paid'[t] = paid[t]
    BY <1>1, Types DEF stake, updateReward, settleAccount
  <2>2. totalSupply' = Total(balances')
    <3>1. a \in Int /\ balances[s] \in Int /\ totalSupply \in Int
      BY AmountsAssumption, Types
    <3> DEFINE v == balances[s] + a
    <3>2. /\ v \in Int /\ balances' = [balances EXCEPT ![s] = v]
          /\ totalSupply' = totalSupply - balances[s] + v
      BY <1>1, <3>1 DEF stake
    <3> HIDE DEF v
    <3> QED
      BY <1>b, <3>2, SupplyFollows
  <2> QED
    BY <1>1, <2>1, <2>2, SettlingKeepsTheBooks DEF stake, updateReward, settleAccount
<1>2. ASSUME NEW s \in Stakers, NEW a \in Amounts, withdraw(s, a) PROVE BooksBalance'
  <2>1. /\ rewards'[s] = earned(s) /\ paid'[s] = paid[s]
        /\ \A t \in Stakers \ {s} : /\ balances'[t] = balances[t]
                                    /\ rewards'[t] = rewards[t]
                                    /\ paid'[t] = paid[t]
    BY <1>2, Types DEF withdraw, updateReward, settleAccount
  <2>2. totalSupply' = Total(balances')
    <3>1. a \in Int /\ balances[s] \in Int /\ totalSupply \in Int
      BY AmountsAssumption, Types
    <3> DEFINE v == balances[s] - a
    <3>2. /\ v \in Int /\ balances' = [balances EXCEPT ![s] = v]
          /\ totalSupply' = totalSupply - balances[s] + v
      BY <1>2, <3>1 DEF withdraw
    <3> HIDE DEF v
    <3> QED
      BY <1>b, <3>2, SupplyFollows
  <2> QED
    BY <1>2, <2>1, <2>2, SettlingKeepsTheBooks DEF withdraw, updateReward, settleAccount
<1>3. ASSUME NEW s \in Stakers, getReward(s) PROVE BooksBalance'
  <2>1. /\ rewards'[s] = 0 /\ paid'[s] = paid[s] + earned(s)
        /\ \A t \in Stakers \ {s} : /\ balances'[t] = balances[t]
                                    /\ rewards'[t] = rewards[t]
                                    /\ paid'[t] = paid[t]
    BY <1>3, Types DEF getReward, payReward, stakeVars
  <2>2. rewards'[s] + paid'[s] = earned(s) + paid[s]
    BY <2>1, EarnedIsNat, Types
  <2>3. totalSupply' = Total(balances')
    BY <1>3, <1>b DEF getReward, stakeVars
  <2> QED
    BY <1>3, <2>1, <2>2, <2>3, SettlingKeepsTheBooks DEF getReward, payReward
<1>4. ASSUME NEW s \in Stakers, exit(s) PROVE BooksBalance'
  <2>1. /\ rewards'[s] = 0 /\ paid'[s] = paid[s] + earned(s)
        /\ \A t \in Stakers \ {s} : /\ balances'[t] = balances[t]
                                    /\ rewards'[t] = rewards[t]
                                    /\ paid'[t] = paid[t]
    BY <1>4, Types DEF exit, payReward
  <2>2. rewards'[s] + paid'[s] = earned(s) + paid[s]
    BY <2>1, EarnedIsNat, Types
  <2>3. totalSupply' = Total(balances')
    <3>1. balances[s] \in Int /\ totalSupply \in Int
      BY Types
    <3> DEFINE v == 0
    <3>2. /\ v \in Int /\ balances' = [balances EXCEPT ![s] = v]
          /\ totalSupply' = totalSupply - balances[s] + v
      BY <1>4, <3>1 DEF exit
    <3> HIDE DEF v
    <3> QED
      BY <1>b, <3>2, SupplyFollows
  <2> QED
    BY <1>4, <2>1, <2>2, <2>3, SettlingKeepsTheBooks DEF exit, payReward
<1>5. ASSUME NEW r \in RewardAmounts, notifyRewardAmount(r) PROVE BooksBalance'
  <2>1. \A t \in Stakers : claim(t)' <= claimNow(t)
    <3>1. \A t \in Stakers : claim(t)' = claimNow(t)
      BY <1>5, ClaimAtUpdate DEF notifyRewardAmount, stakeVars
    <3> QED
      BY <3>1, ClaimIsNat
  <2>2. (periodFinish' - lastUpdateTime') * rewardRate' = rewardsDuration * newRate(r)
    <3>1. periodFinish' - lastUpdateTime' = rewardsDuration
      BY <1>5, Types, DurationAssumption DEF notifyRewardAmount
    <3> QED
      BY <1>5, <3>1 DEF notifyRewardAmount
  <2>3. rewardsDuration * newRate(r) <= r + outstanding
    BY NewRateIsCovered, AmountsAssumption
  <2>4. notified' = notified + r
    BY <1>5 DEF notifyRewardAmount
  <2>5. /\ rewardsDuration * newRate(r) \in Int /\ outstanding \in Int
        /\ r \in Int /\ notified \in Int
    <3>1. periodFinish - lastTimeRewardApplicable \in Int /\ rewardRate \in Int
      BY Types, LastTime
    <3>2. rewardsDuration \in Int /\ newRate(r) \in Int
      BY NewRateIsNat, AmountsAssumption, DurationAssumption
    <3> QED
      BY <3>1, <3>2, AmountsAssumption, Types DEF outstanding
  <2>6. (periodFinish' - lastUpdateTime') * rewardRate' - outstanding <= notified' - notified
    BY <2>2, <2>3, <2>4, <2>5
  <2>7. totalSupply' = Total(balances')
    BY <1>5, <1>b DEF notifyRewardAmount, stakeVars
  <2> QED
    BY <2>1, <2>6, <2>7, UpdateKeepsTheBooks
<1>6. ASSUME \/ \E r \in RewardAmounts : transferRewards(r)
             \/ blockMined
             \/ UNCHANGED vars
      PROVE  BooksBalance'
  <2>1. UNCHANGED <<rateVars, lastUpdateTime, rewardPerTokenStored,
                    userRewardPerTokenPaid, rewards, stakeVars, notified, paid>>
    BY <1>6 DEF transferRewards, blockMined, vars
  <2> QED
    BY <2>1 DEF rateVars, stakeVars, BooksBalance, allClaims, claim
<1> QED
  BY <1>1, <1>2, <1>3, <1>4, <1>5, <1>6 DEF Next

-----------------------------------------------------------------------------
(* What the books say of the rewards token.                                *)
LEMMA BooksCover == IInv => RewardsAreCovered
<1> SUFFICES ASSUME IInv PROVE RewardsAreCovered
  OBVIOUS
<1> DEFINE allEntitled == [s \in Stakers |-> entitled(s)]
           allEarned == [s \in Stakers |-> earned(s)]
<1>1. /\ allEntitled \in [Stakers -> Int] /\ allEarned \in [Stakers -> Nat]
      /\ allClaimsNow \in [Stakers -> Int] /\ paid \in [Stakers -> Int]
  BY EarnedIsNat, ClaimIsNat, Types DEF IInv, entitled, allClaimsNow
<1>2. Total(allEntitled) * Unit <= Total(allClaimsNow)
  <2> DEFINE none == [s \in Stakers |-> 0]
             scaled == [s \in Stakers |-> Unit * allEntitled[s]]
  <2>1. none \in [Stakers -> Int] /\ scaled \in [Stakers -> Int] /\ Unit \in Int
    BY <1>1, UnitAssumption
  <2>2. \A s \in Stakers : scaled[s] = none[s] + Unit * allEntitled[s]
    BY <1>1, <2>1
  <2>3. \A s \in Stakers : scaled[s] <= allClaimsNow[s]
    <3>1. ASSUME NEW s \in Stakers PROVE Unit * entitled(s) <= claimNow(s)
      <4>1. entitled(s) \in Int /\ Unit \in Int
        BY EarnedIsNat, Types, UnitAssumption DEF IInv, entitled
      <4>2. Unit * entitled(s) = entitled(s) * Unit
        BY <4>1
      <4> QED
        BY <4>2, EntitledIsClaimed DEF IInv
    <3> QED
      BY <3>1 DEF allClaimsNow
  <2> HIDE DEF scaled, allEntitled
  <2>4. Total(scaled) = Total(none) + Unit * Total(allEntitled)
    BY <1>1, <2>1, <2>2, StakersAssumption, SumIsLinear
  <2>5. Total(none) = 0
    BY StakersAssumption, TotalOfZeros
  <2>6. Total(scaled) <= Total(allClaimsNow)
    BY <1>1, <2>1, <2>3, StakersAssumption, SumIsMonotone
  <2>7. Total(allEntitled) \in Int
    BY <1>1, StakersAssumption, TotalIsInt
  <2> QED
    BY <2>1, <2>4, <2>5, <2>6, <2>7
<1>3. Total(allEntitled) + outstanding <= notified
  <2>1. Total(allClaimsNow) + outstanding * Unit <= notified * Unit
    BY NowIsCovered
  <2>2. /\ Total(allEntitled) \in Int /\ Total(allClaimsNow) \in Int
        /\ outstanding \in Int /\ notified \in Int /\ Unit \in Nat \ {0}
    <3>1. Total(allEntitled) \in Int /\ Total(allClaimsNow) \in Int
      BY <1>1, StakersAssumption, TotalIsInt
    <3>2. periodFinish - lastTimeRewardApplicable \in Int /\ rewardRate \in Int
      BY Types, LastTime DEF IInv
    <3> QED
      BY <3>1, <3>2, Types, UnitAssumption DEF IInv, outstanding
  <2> HIDE DEF allEntitled
  <2>3. (Total(allEntitled) + outstanding) * Unit <= notified * Unit
    BY <1>2, <2>1, <2>2, SumScales
  <2> QED
    BY <2>2, <2>3, TimesCancels
<1>4. ASSUME notified <= received, NEW s \in Stakers
      PROVE  earned(s) <= rewardsBalance
  <2>1. Total(allEntitled) = Total(paid) + 1 * Total(allEarned)
    <3>1. allEarned \in [Stakers -> Int]
      BY <1>1
    <3>2. \A t \in Stakers : allEntitled[t] = paid[t] + 1 * allEarned[t]
      BY EarnedIsNat, Types DEF IInv, entitled
    <3> HIDE DEF allEntitled, allEarned
    <3> QED
      BY <1>1, <3>1, <3>2, StakersAssumption, SumIsLinear
  <2>2. earned(s) <= Total(allEarned)
    BY <1>1, StakersAssumption, TermWithinTotal
  <2>3. outstanding \in Nat
    <3>1. periodFinish - lastTimeRewardApplicable \in Nat
      BY Types, LastTime DEF IInv
    <3> QED
      BY <3>1, Types, ProductIsNat DEF IInv, outstanding
  <2>4. /\ Total(paid) \in Int /\ Total(allEarned) \in Int /\ earned(s) \in Int
        /\ notified \in Int /\ received \in Int
    BY <1>1, StakersAssumption, TotalIsInt, EarnedIsNat, Types DEF IInv
  <2> HIDE DEF allEntitled, allEarned
  <2> QED
    BY <1>3, <1>4, <2>1, <2>2, <2>3, <2>4 DEF rewardsBalance
<1> QED
  BY <1>3, <1>4 DEF RewardsAreCovered, IInv, BooksBalance

(* However stakers come and go and claim, all that StakingRewardsV2 has    *)
(* paid, owes and still promises was notified to it: with a rewards token  *)
(* that was transferred as notified, no claim ever fails.                  *)
THEOREM RewardsCovered == Spec => []RewardsAreCovered
<1>1. Spec => []IInv
  <2>1. Init => IInv
    BY InitIsDefined, InitBalances DEF IInv
  <2>2. IInv /\ [Next]_vars => IInv'
    BY StepIsDefined, StepKeepsTheBooks DEF IInv
  <2> QED
    BY <2>1, <2>2, PTL DEF Spec
<1> QED
  BY <1>1, BooksCover, PTL

-----------------------------------------------------------------------------
(* What time gives.  The two roundings, of the accumulator over the supply *)
(* T and of the account over the unit U, for a stake b.                    *)
LEMMA StrictTimesIsMonotone ==
  ASSUME NEW a \in Int, NEW b \in Int, a < b, NEW u \in Nat \ {0}
  PROVE  a * u < b * u
<1>1. (a + 1) * u <= b * u
  BY TimesIsMonotone
<1>2. (a + 1) * u = a * u + u /\ a * u \in Int /\ b * u \in Int
  OBVIOUS
<1> QED
  BY <1>1, <1>2

isQuotient(q, a, n) == q \in Nat /\ n * q <= a /\ a < n * q + n

LEMMA TwoRoundings ==
  ASSUME NEW T \in Nat \ {0}, NEW U \in Nat \ {0}, NEW b \in Nat,
         NEW A \in Nat, NEW B \in Nat, NEW p, isQuotient(p, A, T), NEW q, isQuotient(q, B, T),
         NEW x \in Nat, NEW y \in Nat, y = x + b * (q - p),
         NEW f, isQuotient(f, x, U), NEW g, isQuotient(g, y, U)
  PROVE  /\ (g - f - 1) * T * U < b * (B - A) + b * T
         /\ b * (B - A) < (g - f + 1) * T * U + b * T
<1> USE DEF isQuotient
<1> DEFINE d == q - p
<1>1. d \in Int /\ d * T <= B - A + T /\ B - A - T <= d * T
  <2>1. d * T = T * q - T * p /\ T * q \in Int /\ T * p \in Int
    OBVIOUS
  <2> QED
    BY <2>1
<1>2. y - x = b * d /\ b * d \in Int
  OBVIOUS
<1> HIDE DEF d
<1>3. (g - f - 1) * U < b * d /\ b * d < (g - f + 1) * U
  <2>1. (g - f - 1) * U = U * g - U * f - U /\ (g - f + 1) * U = U * g - U * f + U
    OBVIOUS
  <2>2. U * g \in Int /\ U * f \in Int
    OBVIOUS
  <2> QED
    BY <1>2, <2>1, <2>2
<1>4. b * (d * T) <= b * (B - A) + b * T /\ b * (B - A) - b * T <= b * (d * T)
  <2>1. d * T \in Int
    BY <1>1
  <2>2. (d * T) * b <= (B - A + T) * b /\ (B - A - T) * b <= (d * T) * b
    BY <1>1, <2>1, TimesIsMonotone
  <2>3. (B - A + T) * b = b * (B - A) + b * T /\ (B - A - T) * b = b * (B - A) - b * T
    OBVIOUS
  <2>4. (d * T) * b = b * (d * T)
    BY <2>1
  <2> QED
    BY <2>2, <2>3, <2>4
<1>5. ((g - f - 1) * U) * T < (b * d) * T /\ (b * d) * T < ((g - f + 1) * U) * T
  <2>1. (g - f - 1) * U \in Int /\ (g - f + 1) * U \in Int
    OBVIOUS
  <2> QED
    BY <1>2, <1>3, <2>1, StrictTimesIsMonotone
<1>6. /\ ((g - f - 1) * U) * T = (g - f - 1) * T * U
      /\ ((g - f + 1) * U) * T = (g - f + 1) * T * U
      /\ (b * d) * T = b * (d * T)
  BY <1>1
<1>7. /\ (g - f - 1) * T * U \in Int /\ (g - f + 1) * T * U \in Int
      /\ b * (d * T) \in Int /\ b * (B - A) \in Int /\ b * T \in Int
  BY <1>1
<1> HIDE DEF d
<1> QED
  BY <1>4, <1>5, <1>6, <1>7

LEMMA MiningEarnsTheShare ==
  ASSUME ViewsAreDefined, ViewsAreDefined', blockMined, totalSupply > 0, NEW s \in Stakers
  PROVE  LET elapsed == lastTimeRewardApplicable' - lastTimeRewardApplicable
             gained == entitled(s)' - entitled(s)
             share == balances[s] * elapsed * rewardRate
         IN  /\ (gained - 1) * totalSupply * Unit < share * Unit + balances[s] * totalSupply
             /\ (gained + 1) * totalSupply * Unit + balances[s] * totalSupply > share * Unit
<1> DEFINE elapsed == lastTimeRewardApplicable' - lastTimeRewardApplicable
           gained == entitled(s)' - entitled(s)
           since == lastTimeRewardApplicable - lastUpdateTime
           given == since * rewardRate * Unit
           givenNow == (since + elapsed) * rewardRate * Unit
           per == given \div totalSupply
           perNow == givenNow \div totalSupply
           due == balances[s] * (rewardPerToken - userRewardPerTokenPaid[s])
           dueNow == balances[s] * (rewardPerToken' - userRewardPerTokenPaid[s])
           got == due \div Unit
           gotNow == dueNow \div Unit
<1>1. UNCHANGED <<rateVars, lastUpdateTime, rewardPerTokenStored,
                  userRewardPerTokenPaid, rewards, stakeVars, received, notified, paid>>
  BY DEF blockMined
<1>2. /\ totalSupply \in Nat \ {0} /\ Unit \in Nat \ {0} /\ balances[s] \in Nat
      /\ rewardRate \in Nat /\ userRewardPerTokenPaid[s] \in Nat
      /\ rewardPerTokenStored \in Nat /\ paid[s] \in Nat /\ rewards[s] \in Nat
  BY Types, UnitAssumption
<1>3. lastTimeRewardApplicable' \in Nat /\ lastUpdateTime <= lastTimeRewardApplicable'
  BY <1>1 DEF ViewsAreDefined, lastTimeRewardApplicable
<1>4. since \in Nat /\ elapsed \in Int /\ since + elapsed \in Nat
      /\ lastTimeRewardApplicable' - lastUpdateTime = since + elapsed
  BY <1>3, LastTime, Types
<1>5. given \in Nat /\ givenNow \in Nat
  <2> HIDE DEF since, elapsed
  <2>1. since * rewardRate \in Nat /\ (since + elapsed) * rewardRate \in Nat
    BY <1>2, <1>4, ProductIsNat
  <2> QED
    BY <1>2, <2>1, ProductIsNat
<1>6. /\ per \in Nat /\ totalSupply * per <= given /\ given < totalSupply * per + totalSupply
      /\ perNow \in Nat /\ totalSupply * perNow <= givenNow
      /\ givenNow < totalSupply * perNow + totalSupply
  <2> HIDE DEF given, givenNow
  <2> QED
    BY <1>2, <1>5, DivBounds
<1>7. rewardPerToken = rewardPerTokenStored + per
  BY DEF rewardPerToken
<1>8. rewardPerToken' = rewardPerTokenStored + perNow
  <2>1. totalSupply' # 0 /\ rewardPerTokenStored' = rewardPerTokenStored
        /\ totalSupply' = totalSupply /\ rewardRate' = rewardRate
        /\ lastUpdateTime' = lastUpdateTime
    BY <1>1 DEF rateVars, stakeVars
  <2>2. rewardPerToken' = rewardPerTokenStored
          + (((lastTimeRewardApplicable' - lastUpdateTime) * rewardRate * Unit) \div totalSupply)
    BY <2>1 DEF rewardPerToken
  <2> QED
    BY <1>4, <2>2
<1>9. dueNow = due + balances[s] * (perNow - per)
  <2> HIDE DEF per, perNow
  <2>1. /\ rewardPerToken - userRewardPerTokenPaid[s]
             = rewardPerTokenStored + per - userRewardPerTokenPaid[s]
        /\ rewardPerToken' - userRewardPerTokenPaid[s]
             = rewardPerTokenStored + perNow - userRewardPerTokenPaid[s]
    BY <1>2, <1>6, <1>7, <1>8
  <2>2. rewardPerTokenStored + perNow - userRewardPerTokenPaid[s]
          = (rewardPerTokenStored + per - userRewardPerTokenPaid[s]) + (perNow - per)
    BY <1>2, <1>6
  <2> DEFINE before == rewardPerTokenStored + per - userRewardPerTokenPaid[s]
             more == perNow - per
  <2>3. before \in Int /\ more \in Int
    BY <1>2, <1>6
  <2>4. due = balances[s] * before /\ dueNow = balances[s] * (before + more)
    BY <2>1, <2>2
  <2> HIDE DEF before, more, due, dueNow
  <2>5. dueNow = due + balances[s] * more
    BY <1>2, <2>3, <2>4
  <2> QED
    BY <2>5 DEF more
<1>10. due \in Nat /\ dueNow \in Nat
  <2>1. rewardPerToken - userRewardPerTokenPaid[s] \in Nat
    BY AccumulatorGrows, Types DEF ViewsAreDefined
  <2>2. rewardPerToken' - userRewardPerTokenPaid[s] \in Nat
    <3> HIDE DEF per, perNow
    <3>1. userRewardPerTokenPaid[s] <= rewardPerTokenStored
      BY DEF ViewsAreDefined
    <3> QED
      BY <1>2, <1>6, <1>8, <3>1
  <2> QED
    BY <1>2, <2>1, <2>2, ProductIsNat
<1>11. /\ got \in Nat /\ Unit * got <= due /\ due < Unit * got + Unit
       /\ gotNow \in Nat /\ Unit * gotNow <= dueNow /\ dueNow < Unit * gotNow + Unit
  <2> HIDE DEF due, dueNow
  <2> QED
    BY <1>2, <1>10, DivBounds
<1>12. gained = gotNow - got
  <2>1. entitled(s) = paid[s] + (got + rewards[s])
    BY DEF entitled, earned
  <2>2. entitled(s)' = paid[s] + (gotNow + rewards[s])
    BY <1>1 DEF entitled, earned, stakeVars
  <2> HIDE DEF got, gotNow
  <2> QED
    BY <1>2, <1>11, <2>1, <2>2
<1>13. balances[s] * (givenNow - given) = balances[s] * elapsed * rewardRate * Unit
  <2> HIDE DEF elapsed, since
  <2>1. givenNow = given + elapsed * rewardRate * Unit
    BY <1>2, <1>4
  <2>2. givenNow - given = elapsed * rewardRate * Unit
    BY <1>2, <1>4, <1>5, <2>1
  <2>3. balances[s] * (elapsed * rewardRate * Unit) = balances[s] * elapsed * rewardRate * Unit
    BY <1>2, <1>4
  <2> QED
    BY <2>2, <2>3
<1>14. /\ (gotNow - got - 1) * totalSupply * Unit
            < balances[s] * (givenNow - given) + balances[s] * totalSupply
       /\ balances[s] * (givenNow - given)
            < (gotNow - got + 1) * totalSupply * Unit + balances[s] * totalSupply
  <2> HIDE DEF per, perNow, got, gotNow, given, givenNow, due, dueNow
  <2>1. /\ isQuotient(per, given, totalSupply) /\ isQuotient(perNow, givenNow, totalSupply)
        /\ isQuotient(got, due, Unit) /\ isQuotient(gotNow, dueNow, Unit)
    BY <1>6, <1>11 DEF isQuotient
  <2> QED
    BY <1>2, <1>5, <1>9, <1>10, <2>1, TwoRoundings
<1>15. /\ (gained - 1) * totalSupply * Unit
            < balances[s] * elapsed * rewardRate * Unit + balances[s] * totalSupply
       /\ balances[s] * elapsed * rewardRate * Unit
            < (gained + 1) * totalSupply * Unit + balances[s] * totalSupply
  BY <1>12, <1>13, <1>14
<1>16. /\ (gained + 1) * totalSupply * Unit + balances[s] * totalSupply \in Int
       /\ balances[s] * elapsed * rewardRate * Unit \in Int
  <2>1. gained \in Int
    <3> HIDE DEF gained, got, gotNow
    <3> QED
      BY <1>11, <1>12
  <2> HIDE DEF gained, elapsed
  <2> QED
    BY <1>2, <1>4, <2>1
<1> HIDE DEF gained, elapsed
<1>17. (gained + 1) * totalSupply * Unit + balances[s] * totalSupply
         > balances[s] * elapsed * rewardRate * Unit
  BY <1>15, <1>16
<1> QED
  BY <1>15, <1>17 DEF gained, elapsed

(* As long as a period lasts each staker earns its share of the rate, to   *)
(* within one token and what the accumulator rounds away, however many     *)
(* calls settle the accounts on the way.                                   *)
THEOREM StakersGetTheirShare == Spec => TimeEarnsTheShare
<1> DEFINE share(s) ==
             LET elapsed == lastTimeRewardApplicable' - lastTimeRewardApplicable
                 gained == entitled(s)' - entitled(s)
                 part == balances[s] * elapsed * rewardRate
             IN  now' # now /\ totalSupply > 0 =>
                   /\ (gained - 1) * totalSupply * Unit < part * Unit + balances[s] * totalSupply
                   /\ (gained + 1) * totalSupply * Unit + balances[s] * totalSupply > part * Unit
<1>1. ViewsAreDefined /\ ViewsAreDefined' /\ [Next]_vars => [\A s \in Stakers : share(s)]_vars
  <2> SUFFICES ASSUME ViewsAreDefined, ViewsAreDefined', Next, now' # now, totalSupply > 0,
                      NEW s \in Stakers
               PROVE  share(s)
    BY DEF vars
  <2>1. blockMined
    BY DEF Next, stake, withdraw, getReward, exit, notifyRewardAmount, transferRewards
  <2> QED
    BY <2>1, MiningEarnsTheShare
<1> QED
  BY <1>1, NeverReverts, PTL DEF Spec, TimeEarnsTheShare
===============================================================================
