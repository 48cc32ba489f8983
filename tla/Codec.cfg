SPECIFICATION Spec
CONSTANTS
  Packets <- Samples
  MaxEmits = 2
  MaxReconnects = 1
INVARIANTS
  TypeOK
  ArrivesIntact
PROPERTY CutIsNoticed
CHECK_DEADLOCK FALSE
