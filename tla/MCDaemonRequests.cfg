SPECIFICATION Spec
CONSTANTS
  Idle = 0
  MaxInFlight = 1
  HasIndex = FALSE
  NoConn = NoConn
  Conn = {c1}
  Req = {r1, r2}
SYMMETRY Symmetry
INVARIANTS
  DaemonInv
  CountersExact
  NoRequestCutOff
  NoOrphanedSession
  TeardownAfterHandlers
  IdleStrandsNobody
PROPERTY ImplementsLife
