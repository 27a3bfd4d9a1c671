SPECIFICATION SupSpec
CONSTANTS
  Caller = {c1}
  MaxFailures = 2
  MayShutDown = TRUE
PROPERTIES
  ImplementsSessions
