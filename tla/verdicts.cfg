CONSTANTS
  Schemas <- Cases
  Producers <- CasesSend
  Judged <- Judge
  NodeAt <- NodeFor
  MaxDrains = 1
  MaxDepth = 3
  PlainDecimal = TRUE
  None = None
SPECIFICATION JSpec
INVARIANTS VTypeOK  LogTellsVerdicts TransitionsReportedOnce VerdictsFollowValues
PROPERTIES  LiteralsKept  ParserUndisturbed
CHECK_DEADLOCK FALSE
