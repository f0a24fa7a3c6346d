CONSTANTS
  Total = 2
  NumSymbols = 0
  ProgressEvery = 1
  TopN = 1
  Objectives = {0}
  None = None
  AppFaults = TRUE
  DbFaults = FALSE
  Crashes = FALSE
  Loads = {1}
  ListLimit = 2
  MaxFailures = 0
SPECIFICATION PageSpec
INVARIANT SettledPageIsComplete
CHECK_DEADLOCK FALSE
