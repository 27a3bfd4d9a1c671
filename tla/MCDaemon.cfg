SPECIFICATION FairSpec
CONSTANTS
  Idle = 1
  MaxInFlight = 1
  HasIndex = TRUE
  NoConn = NoConn
  Conn = {c1}
  Req = {r1}
INVARIANTS
  DaemonInv
  NoRequestCutOff
  NoOrphanedSession
  IdleStrandsNobody
  TeardownInOrder
PROPERTIES
  DrainTerminates
  IdleDrains
