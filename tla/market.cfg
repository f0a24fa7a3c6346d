SPECIFICATION FairSpec
CONSTANTS
  Process = {p1, p2}
  Market <- TwoDays
  DayLength = 3
  Requests <- SomeRequests
  MaxSpan = 2
  MaxRetries = 1
  MaxAsks = 3
INVARIANTS
  TypeOK
  OnlyOvernightGapsOmitted
  FailureKeepsEarlierRanges
PROPERTIES
  RequestEnds
CHECK_DEADLOCK FALSE
