CONSTANTS
  Producers <- Strings
  MaxDepth = 3
  PlainDecimal = FALSE
  None = None
SPECIFICATION Spec
PROPERTY StablePrefixKept
CHECK_DEADLOCK FALSE
