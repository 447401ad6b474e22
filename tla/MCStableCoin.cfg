SPECIFICATION Spec
CONSTANTS
  alice = alice
  bob = bob
  eth = eth
  none = none
  Users <- MCUsers
  Collaterals <- MCCollaterals
  NoCollateral = none
  ONE = 2
  PRICE = 5
  MIN_CR = 4
  MIN_DEBT = 1
  Amounts <- MCAmounts
  Backings <- MCBackings
  Supply = 3
  MaxShares = 3
  MaxMim = 3
INVARIANTS PositionsMatchDebts RepaymentNeverRefused
PROPERTIES DebtFollowsMim PromisesBounded
SYMMETRY MCSymmetry
CHECK_DEADLOCK FALSE
