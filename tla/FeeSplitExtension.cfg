SPECIFICATION Spec
CONSTANTS
  Parties = {p1, p2}
  MaxPendingUpgrades = 1
  LockedCalls <- MCLockedCalls
  Periods = {2}
  FeeKinds = {"streaming", "issue"}
  Fees = {1, 2}
  Splits = {1, 3}
  Unit = 4
  MaxNow = 4
  MaxLocked = 2
  MaxFees = 3
  MaxDistributions = 2
SYMMETRY MCSymmetry
INVARIANTS SharesFollowTheSplit
PROPERTIES FeesAreAnnounced
