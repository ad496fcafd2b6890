CONSTANTS
  Documents <- Docs
  Regexes <- Patterns
  MaxNesting = 12
  MaxCalls = 12
  None = None
SPECIFICATION CSpec
INVARIANTS  InProgressIsOpen GraphMatchesDocument RefusalsAreRight ConstraintsRecorded NotesLocate PointersRoundTrip PointersLeadBack
PROPERTIES NodesWrittenOnce CompileReturns
CHECK_DEADLOCK FALSE
