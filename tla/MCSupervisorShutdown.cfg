SPECIFICATION FairSupSpec
CONSTANTS
  Caller = {c1}
  MaxFailures = 2
  MayShutDown = TRUE
PROPERTIES
  ProcessesEnd
  CrashIsRetried
  CallersAreAnswered
