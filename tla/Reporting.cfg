SPECIFICATION Spec
CONSTANTS
  Payments = {p1, p2, p3}
  Amounts = {1}
  Currencies = {"USD", "JPY"}
  Limit = 1
  MaxTime = 4
INVARIANTS
  WalkMissesNothing
  StatsCoverCaptured
  DisplayReadsBack
  RoundsHalfEven
SYMMETRY PaymentSymmetry
CHECK_DEADLOCK FALSE
