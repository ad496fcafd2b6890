CONSTANTS
  Producers <- Documents
  MaxDepth = 3
  PlainDecimal = TRUE
  None = None
SPECIFICATION Spec
INVARIANTS TypeOK PathCache FramesAgree NeverUnbalanced EscapeAccounts EventOrder EventsMirrorDocument
PROPERTIES CommitFollowsFrames StreamIsStable
CHECK_DEADLOCK FALSE
