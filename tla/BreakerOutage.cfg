SPECIFICATION Spec
CONSTANTS
  Callers = {c1, c2}
  Threshold = 2
  ResetTimeout = 2
  MaxAttempts = 2
PROPERTIES
  OutageTrips
CHECK_DEADLOCK FALSE
