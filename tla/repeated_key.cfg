CONSTANTS
  Producers <- SameKey
  MaxDepth = 3
  PlainDecimal = FALSE
  None = None
SPECIFICATION Spec
PROPERTY CompletionIsIrrevocable
CHECK_DEADLOCK FALSE
