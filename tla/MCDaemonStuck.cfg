SPECIFICATION FairSpec
CONSTANTS
  Idle = 0
  MaxInFlight = 1
  HasIndex = FALSE
  NoConn = NoConn
  Conn = {c1}
  Req = {r1}
PROPERTY DrainIsBounded
