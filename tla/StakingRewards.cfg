SPECIFICATION Spec
CONSTANTS
  Stakers = {s1, s2}
  Amounts = {1, 2}
  RewardAmounts = {10}
  rewardsDuration = 2
  Unit = 20
  MaxNow = 6
  MaxSupply = 3
  MaxNotified = 20
SYMMETRY MCSymmetry
INVARIANTS ViewsAreDefined RewardsAreCovered
PROPERTIES CallsEarnNothing TimeEarnsTheShare
CHECK_DEADLOCK FALSE
