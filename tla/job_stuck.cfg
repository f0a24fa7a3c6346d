CONSTANTS
  Total = 2
  NumSymbols = 1
  ProgressEvery = 2
  TopN = 2
  Objectives = {0, 1}
  None = None
  AppFaults = FALSE
  DbFaults = TRUE
  Crashes = FALSE
SPECIFICATION Spec
INVARIANT RunningJobIsRun
CHECK_DEADLOCK FALSE
