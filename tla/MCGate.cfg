SPECIFICATION FairGateSpec
CONSTANTS
  Readers = {r1, r2, r3}
  Writers = {w1}
INVARIANTS
  GateInv
  NoLostWakeup
PROPERTIES
  ImplementsRWLock
  BothSidesGetIn
