SPECIFICATION ConnectSpec
CONSTANTS
  Client = {c1, c2}
  Stopper = {s1}
  None = None
  MaxFaults = 1
INVARIANTS
  OnlyDaemonsAreKilled
