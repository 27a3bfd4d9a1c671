SPECIFICATION FairRequestsSpec
CONSTANTS
  Call = {c1, c2}
  Opening = {c1}
  Failed = Failed
  None = None
  Reader = Reader
  PipeSize = 1
  ReadsWhileWriting = TRUE
  MaxEvents = 1
INVARIANTS
  RequestsInv
PROPERTIES
  CallsReturn
  ImplementsExchange
