SPECIFICATION Spec
CONSTANTS
  h1 = h1
  h2 = h2
  c1 = c1
  ProposalHashes <- MCHashes
  Assertions = {a1, a2, a3}
  Oracles = {o1, o2}
  Assets = {c1}
  Arrangements = {"before", "after"}
  oldComponents <- MCOld
  newComponents <- MCNew
  NoOracle = NoOracle
  NoAssertion = NoAssertion
  NoProposal = NoProposal
SYMMETRY MCSymmetry
INVARIANTS TypeOK MappingsAgree PendingCanBeDisputed ExecutedAreTrue
PROPERTIES ImplementsChallengePeriod
