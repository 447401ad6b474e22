SPECIFICATION MCSpec
CONSTANTS
  alice = alice
  bob = bob
  lender = lender
  Accounts <- MCAccounts
  Users <- MCUsers
  LendingAddr = lender
  ONE = 2
  Amounts <- MCAmounts
  Rates <- MCRates
  MaxDebt = 4
INVARIANTS LendingTypeOK CollateralBacked DebtFreeIsUnlocked
PROPERTIES LoansAccountedFor RepayKeepsCover
CHECK_DEADLOCK FALSE
