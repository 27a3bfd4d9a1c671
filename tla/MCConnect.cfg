SPECIFICATION ConnectSpec
CONSTANTS
  Client = {c1, c2}
  Stopper = {s1}
  None = None
  MaxFaults = 2
SYMMETRY Symmetry
INVARIANTS
  ConnectInv
  OneDaemon
  ListenerIsReachable
  FailsOnlyIfDisturbed
  StopTellsTheTruth
