SPECIFICATION Spec
CONSTANTS
  Requests = {r1, r2, r3}
  Keys = {}
  NoKey = NoKey
  NoRef = NoRef
  MaxAmount = 2
  MaxPayments = 1
  MaxAttempts = 1
  Provider = "mock"
INVARIANTS
  RefundsWithinCapture
SYMMETRY RequestSymmetry
CHECK_DEADLOCK FALSE
