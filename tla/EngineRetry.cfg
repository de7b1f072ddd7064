SPECIFICATION FairSpec
CONSTANTS
  Requests = {r1, r2}
  Keys = {k1}
  NoKey = NoKey
  NoRef = NoRef
  MaxAmount = 1
  MaxPayments = 2
  MaxAttempts = 2
  Provider = "stripe"
INVARIANTS
  KeyedChargeOnce
  KeyedMoneyAccounted
PROPERTIES
  EveryRequestEnds
CHECK_DEADLOCK FALSE
