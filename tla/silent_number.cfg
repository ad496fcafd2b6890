CONSTANTS
  Schemas <- GrowingNumber
  Producers <- GrowingNumberSends
  Judged <- Judge
  NodeAt <- NodeFor
  MaxDrains = 1
  MaxDepth = 3
  PlainDecimal = TRUE
  None = None
SPECIFICATION JSpec
INVARIANT TransitionsAreTold
CHECK_DEADLOCK FALSE
