SPECIFICATION MCSpec
CONSTANTS
  pair = pair
  trader = trader
  Accounts <- MCAccounts
  PairAddr = pair
  ONE = 2
  Q112 = 2
  MaxU112 = 5
  TimeModulus = 2
  MaxTime = 2
INVARIANTS PairTypeOK ReservesBacked PricesIntegrated
PROPERTY ProductNeverFalls
CHECK_DEADLOCK FALSE
