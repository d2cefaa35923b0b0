SPECIFICATION CallsSpec
CONSTANTS
  Managers = {m1}
  Extensions = {e1}
  Parties = {alice, bob}
  Operators = {carol}
  Factory = Factory
  FeeSplits = {1, 2}
  Nobody = Nobody
  MaxApprovals = 3
PROPERTIES FeeSplitTakesBoth
