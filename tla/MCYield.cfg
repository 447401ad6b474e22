SPECIFICATION YieldSpec
CONSTANTS
  Ticks <- MCTicks
  tickSpacing = 1
  MOVE = 1
  WIDTH = 1
  MIN_TICK <- MCMinTick
  MAX_TICK = 2
  MAX_INT24 = 7
  SCALE = 2
  FEE_UNIT = 2
  Modulus = 256
  Amounts <- MCAmounts
  ProtocolFees <- MCProtocolFees
  SupplyCaps <- MCSupplyCaps
  MaxTokens = 3
INVARIANTS NothingStranded FeesStayCovered
PROPERTIES DepositNeverDilutes RebalanceKeepsTotal
CONSTRAINT MCBound
CHECK_DEADLOCK FALSE
