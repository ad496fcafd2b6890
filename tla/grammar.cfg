CONSTANTS
  Producers <- Texts
  MaxDepth = 5
  PlainDecimal = FALSE
  None = None
SPECIFICATION Spec
INVARIANTS AcceptsExactlyJson RejectedIsHopeless CompletionIsJson CompletionDropsLeast
CHECK_DEADLOCK FALSE
