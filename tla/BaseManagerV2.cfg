SPECIFICATION Spec
CONSTANTS
  e1 = e1
  e2 = e2
  Modules = {m1, m2}
  ControllerModules = {m1, m2}
  Managers = {This, ZeroAddress}
  NoLocker = NoLocker
  Parties = {alice, bob}
  MaxPendingUpgrades = 1
  Extensions = {e1, e2}
  OwnExtensions = {e1}
  ExtensionLists <- MCTwoLists
  This = This
  ZeroAddress = ZeroAddress
  MaxEmergencies = 2
  MaxTokensHeld = 1
SYMMETRY MCSymmetry
INVARIANTS TypeOK ArraysMatchMappings NoStaleAuthorization AuthorizedAreExtensions ProtectedOnSetToken
PROPERTIES FrozenInEmergency ReachIsAgreed ImplementsPolicy
