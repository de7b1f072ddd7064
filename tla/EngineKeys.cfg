SPECIFICATION Spec
CONSTANTS
  Requests = {r1, r2, r3}
  Keys = {k1}
  NoKey = NoKey
  NoRef = NoRef
  MaxAmount = 2
  MaxPayments = 3
  MaxAttempts = 1
  Provider = "stripe"
INVARIANTS
  ChargeBookedOnce
  KeyedAnswersAgree
SYMMETRY RequestSymmetry
CHECK_DEADLOCK FALSE
