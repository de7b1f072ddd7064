SPECIFICATION Spec
CONSTANTS
  Identities = {i1, i2}
  Limit = 2
  WindowSeconds = 2
  PerSecond = 2
  MaxTime = 5
  MaxHits = 3
INVARIANTS
  TypeOK
  BurstBound
  RetryAfterHonest
PROPERTIES
  RefusalsEarned
CHECK_DEADLOCK FALSE
