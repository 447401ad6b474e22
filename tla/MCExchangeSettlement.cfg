SPECIFICATION MCSpec
CONSTANTS
  gold = gold
  iron = iron
  exchange = exchange
  client = client
  Tokens <- MCTokens
  Accounts <- MCAccounts
  ExchangeAddr = exchange
  Amounts <- MCAmounts
  MaxInt = 2
PROPERTY EndedSwapIsSettled
CHECK_DEADLOCK FALSE
