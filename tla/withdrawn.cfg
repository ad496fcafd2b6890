CONSTANTS
  Schemas <- ClosedElement
  Producers <- ClosedElementSends
  Judged <- Judge
  NodeAt <- NodeFor
  MaxDrains = 1
  MaxDepth = 3
  PlainDecimal = TRUE
  None = None
SPECIFICATION JSpec
PROPERTY IrrecoverableIsFinal
CHECK_DEADLOCK FALSE
