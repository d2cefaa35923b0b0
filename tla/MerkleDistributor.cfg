SPECIFICATION Spec
CONSTANTS
  x = x
  y = y
  z = z
  w = w
  Lists <- MCLists
  Accounts <- MCAccounts
  accountOf <- MCAccountOf
  WordBits = 2
INVARIANTS PaidByTheList EveryoneCanClaim
CHECK_DEADLOCK FALSE
