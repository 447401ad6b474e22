SPECIFICATION MCSpec
CONSTANTS
  gold = gold
  iron = iron
  exchange = exchange
  client = client
  Tokens <- MCTokens
  Accounts <- MCAccounts
  ExchangeAddr = exchange
  Amounts <- MCAmounts
  MaxInt = 1
INVARIANTS ExchangeTypeOK CounterCounts PoolsBacked
PROPERTY SwapsArePaidFor
VIEW MCView
CHECK_DEADLOCK FALSE
