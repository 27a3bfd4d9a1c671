SPECIFICATION FairSupSpec
CONSTANTS
  Caller = {c1}
  MaxFailures = 0
  MayShutDown = TRUE
PROPERTIES
  EnsureReadyReturns
