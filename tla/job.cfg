CONSTANTS
  Total = 4
  NumSymbols = 1
  ProgressEvery = 3
  TopN = 2
  Objectives = {0, 1, 2}
  None = None
  AppFaults = TRUE
  DbFaults = TRUE
  Crashes = TRUE
SPECIFICATION Spec
INVARIANTS
  TypeOK
  SuccessIsComplete
  VisibleRankingIsFinal
  ProgressIsHonest
  OneRunAtATime
  RankingCoversAllRuns
PROPERTIES
  TerminalIsFinal
  PublishedRowsAreFrozen
  ImplementsLifecycle
CHECK_DEADLOCK FALSE
