SPECIFICATION SyncSpec
CONSTANTS
  Path = {p1}
  Text = {t1, t2}
  Closed = Closed
  Op = {o1, o2}
  Restart = Restart
  Nobody = Nobody
  MaxGeneration = 2
  MaxPushes = 2
  Versioned = TRUE
SYMMETRY Symmetry
PROPERTIES
  ImplementsGate
  ImplementsSessions
  VersionsRise
