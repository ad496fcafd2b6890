CONSTANTS
  Schemas <- OpenDuplicate
  Producers <- OpenDuplicateSends
  Judged <- Judge
  NodeAt <- NodeFor
  MaxDrains = 1
  MaxDepth = 3
  PlainDecimal = TRUE
  None = None
SPECIFICATION JSpec
PROPERTY IrrecoverableIsHopeless
CHECK_DEADLOCK FALSE
