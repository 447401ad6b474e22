CONSTANTS
  MaxKey = 8
  MaxValue = 1
  MaxBlock = 10
  Inputs <- MCInputs
SPECIFICATION CheckpointsSpec
INVARIANTS CheckpointsOrdered LookupsAgree
PROPERTY PastIsFixed
\* The blocks end at a bound.
CHECK_DEADLOCK FALSE
