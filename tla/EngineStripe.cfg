SPECIFICATION Spec
CONSTANTS
  Requests = {r1, r2, r3, r4}
  Keys = {}
  NoKey = NoKey
  NoRef = NoRef
  MaxAmount = 3
  MaxPayments = 1
  MaxAttempts = 1
  Provider = "stripe"
INVARIANTS
  TypeOK
  IInv
  RefundsWithinCapture
  BooksBackedByProvider
  FinalStatusIsTrue
PROPERTIES
  LegalTransitions
  ImplementsLedger
SYMMETRY RequestSymmetry
CHECK_DEADLOCK FALSE
