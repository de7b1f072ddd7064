SPECIFICATION FairSpec
CONSTANTS
  Events = {"e1", "e2"}
  NoEvent = NoEvent
  Owners = {"shop"}
  NoOwner = NoOwner
  Sandbox = Sandbox
  Route <- MCRoute
  Handlers = {h1, h2}
  Tolerance = 1
  MaxTime = 2
  MaxFaults = 2
INVARIANTS
  ProcessedOnce
  AckedIsStored
PROPERTIES
  EventuallyAcked
CHECK_DEADLOCK FALSE
