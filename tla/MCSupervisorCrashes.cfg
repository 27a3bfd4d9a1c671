SPECIFICATION SupSpec
CONSTANTS
  Caller = {c1, c2}
  MaxFailures = 2
  MayShutDown = FALSE
INVARIANTS
  SupInv
  OneStart
  OnlyCurrentPublishes
