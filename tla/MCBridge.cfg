SPECIFICATION HooksSpec
CONSTANTS
  b1 = b1
  b2 = b2
  flag = flag
  label = label
  Bridges <- MCBridges
  Remote <- MCRemote
  Tokens <- MCTokens
  Hooked <- MCHooked
  Amounts <- MCAmounts
  Labels <- MCLabels
  Supply = 3
  MaxCalls = 3
  MaxNonce = 5
INVARIANTS HoldersCovered  UncoveredBounded
SYMMETRY MCSymmetry
CHECK_DEADLOCK FALSE
