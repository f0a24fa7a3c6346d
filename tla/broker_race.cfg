SPECIFICATION Spec
CONSTANTS
  Process = {p1, p2}
  Creds = {a, b}
  Forms <- SomeForms
  None = None
  MaxRequests = 4
  MaxRotations = 1
INVARIANT ConnectedMeansTested
CHECK_DEADLOCK FALSE
