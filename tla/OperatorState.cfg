SPECIFICATION Spec
CONSTANTS
  Barrier = Barrier
  MaxParallelism = 3
  Threshold = 2
  MaxElement = 4
  MaxSavepoint = 2
  MaxRestart = 2
INVARIANTS TypeOK SavepointsSound
CHECK_DEADLOCK FALSE
