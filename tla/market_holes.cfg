SPECIFICATION Spec
CONSTANTS
  Process = {p1, p2}
  Market <- TwoDays
  DayLength = 3
  Requests <- SomeRequests
  MaxSpan = 2
  MaxRetries = 1
  MaxAsks = 3
INVARIANT AnswerIsComplete
CHECK_DEADLOCK FALSE
