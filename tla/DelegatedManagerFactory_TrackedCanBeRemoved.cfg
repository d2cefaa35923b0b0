SPECIFICATION Spec
CONSTANTS
  Managers = {m1, m2}
  Extensions = {e1}
  Parties = {alice, bob}
  Operators = {carol}
  Factory = Factory
  FeeSplits = {1}
  Nobody = Nobody
  MaxApprovals = 1
SYMMETRY MCSymmetry
INVARIANTS TrackedCanBeRemoved
