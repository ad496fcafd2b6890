CONSTANTS
  Documents <- Miswritten
  Regexes <- Patterns
  MaxNesting = 12
  MaxCalls = 12
  None = None
SPECIFICATION CSpec
INVARIANT NothingDropped
CHECK_DEADLOCK FALSE
