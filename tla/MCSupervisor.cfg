SPECIFICATION FairSupSpec
CONSTANTS
  Caller = {c1, c2}
  MaxFailures = 1
  MayShutDown = TRUE
INVARIANTS
  SupInv
  OneStart
  OnlyCurrentPublishes
PROPERTIES
  ProcessesEnd
  CrashIsRetried
  CallersAreAnswered
