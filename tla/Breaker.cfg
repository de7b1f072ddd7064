SPECIFICATION Spec
CONSTANTS
  Callers = {c1, c2}
  Threshold = 2
  ResetTimeout = 2
  MaxAttempts = 2
INVARIANTS
  TypeOK
  ClosedBelowThreshold
PROPERTIES
  CoolingStopsCalls
  HealthyNeverTrips
  Recovers
  CallsEnd
CHECK_DEADLOCK FALSE
