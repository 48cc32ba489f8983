SPECIFICATION Spec
CONSTANTS
  MaxSent = 1
  MaxServed = 2
  MaxPings = 1
  Transports <- AllTransports
  Faults <- AllFaults
INVARIANTS
  TypeOK
  NeverThrows
  Guarded
  GracefulClose
PROPERTIES
  IsConnection
  UpgradeEnds
  EndNoticed
CHECK_DEADLOCK FALSE
