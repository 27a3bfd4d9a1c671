SPECIFICATION RequestsSpec
CONSTANTS
  Call = {c1, c2}
  Opening = {c1}
  Failed = Failed
  None = None
  Reader = Reader
  PipeSize = 1
  ReadsWhileWriting = FALSE
  MaxEvents = 3
INVARIANTS
  RepliesCannotDeadlock
