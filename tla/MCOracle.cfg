SPECIFICATION MCSpec
CONSTANTS
  alice = alice
  bob = bob
  oracle = oracle
  Accounts <- MCAccounts
  Users <- MCUsers
  OracleAddr = oracle
  Amounts <- MCAmounts
  Prices <- MCPrices
  BaseRates <- MCBaseRates
  PRECISION = 2
  MIN_HEALTH_FACTOR = 3
  BAD_DEBT_RATIO = 3
  PERCENT = 2
  BLOCKS_PER_YEAR = 2
  MaxTotal = 3
  MaxAssets = 2
  MaxBlock = 3
INVARIANTS TotalsMatch DepositsCovered InterestBounded
PROPERTY LossIsRoundingOrBadDebt
CHECK_DEADLOCK FALSE
