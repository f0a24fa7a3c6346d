CONSTANTS
  Total = 2
  NumSymbols = 0
  ProgressEvery = 1
  TopN = 1
  Objectives = {0}
  None = None
  AppFaults = TRUE
  DbFaults = FALSE
  Crashes = FALSE
  Loads = {1, 2}
  ListLimit = 1
  MaxFailures = 1
SPECIFICATION FairPageSpec
INVARIANTS
  PageTypeOK
  PageNeverAhead
PROPERTIES
  JobTerminates
  PageConverges
CHECK_DEADLOCK FALSE
