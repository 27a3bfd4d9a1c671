SPECIFICATION SupSpec
CONSTANTS
  Caller = {c1, c2}
  MaxFailures = 1
  MayShutDown = TRUE
INVARIANTS
  ReadyClosedOnce
