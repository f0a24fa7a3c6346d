SPECIFICATION Spec
CONSTANTS
  Threads = {t1, t2}
  Instruments = {1, 2}
  Sparse = {2}
  A = A
  B = B
  C = C
  Symbols = {A, B, C}
  Listed <- SmallListing
  Codes = {1, 2}
  VersionIds = {1, 2, 3, 4}
  RunIds = {1, 2}
  Dumps <- SmallDumps
  BatchSize = 2
  MaxRequests = 3
  MaxEdits = 1
  MaxFaults = 1
  None = None
SYMMETRY AnyThread
INVARIANTS
  TypeOK
  SuccessCoversSnapshot
  RequestsTellTheTruth
  RunsPinTheirVersion
  TwinsOnlyFromOverlap
CHECK_DEADLOCK FALSE
