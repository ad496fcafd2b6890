CONSTANTS
  Documents <- Endless
  Regexes <- Patterns
  MaxNesting = 12
  MaxCalls = 12
  None = None
SPECIFICATION CSpec
PROPERTY CompileReturns
CHECK_DEADLOCK FALSE
