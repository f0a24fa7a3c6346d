SPECIFICATION Spec
CONSTANTS
  Process = {p1}
  Creds = {a, b}
  Forms <- SomeForms
  None = None
  MaxRequests = 4
  MaxRotations = 1
PROPERTY OmittedFieldsKept
CHECK_DEADLOCK FALSE
