SPECIFICATION MCSpec
CONSTANTS
  user = user
  lender = lender
  pair = pair
  Accounts <- MCAccounts
  Users <- MCUsers
  LendingAddr = lender
  PairAddr = pair
  ONE = 2
  Q112 = 2
  MaxU112 = 4
  TimeModulus = 2
  MaxTime = 1
  Amounts <- MCAmounts
  Rates <- MCRates
  MaxDebt = 2
PROPERTIES ImplementsLending ImplementsPair
CHECK_DEADLOCK FALSE
