CONSTANTS
  WordSize = 4
  AddressSize = 2
  KeyType = "uint256"
  ValueType = "address"
  Keys <- MCKeys
  Values <- MCValues
SPECIFICATION Spec
INVARIANTS MapSound ReadingMissesNothing
PROPERTY ImplementsFiniteMap
