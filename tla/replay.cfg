SPECIFICATION Spec
CONSTANTS
  Bars <- SmallMarket
  MaxBars = 4
  StopFirst = TRUE
  Intraday = TRUE
  None = None
INVARIANTS
  TypeOK
  TradesFollowRules
  OnePositionAtATime
  EquityMatchesLedger
  DrawdownIsWorstDecline
  ExpectancyNeverFlatters
CHECK_DEADLOCK FALSE
