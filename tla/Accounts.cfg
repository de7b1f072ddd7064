SPECIFICATION Spec
SYMMETRY Symmetric
CONSTANTS
  Emails = {"ann", "Ann"}
  Lower <- MCLower
  Strip <- MCStrip
  Keys = {k1, k2}
  NoKey = NoKey
  NoOwner = NoOwner
  NoScope = NoScope
  Handlers = {h1, h2}
  Endpoints = {"payments:write", "admin:all"}
  AccessTTL = 1
  RefreshTTL = 2
  MaxTime = 1
INVARIANTS
  OneAccountPerAddress
  IdleSessionEnds
PROPERTIES
  RevokedForGood
  AccessRunsOut
  DemotionRunsOut
CHECK_DEADLOCK FALSE
