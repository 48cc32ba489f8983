SPECIFICATION Spec
CONSTANTS
  Barrier = Barrier
  MaxParallelism = 2
  MaxSavepoint = 1
  MaxRestart = 2
  Demos <- AllDemos
  Keys = 2
  Category = {c1, c2}
  Period = 2
  Ttl = 2
  Today = 370
  RainDays = {0, 25}
  MaxElement = 4
  MaxTime = 3
INVARIANTS TypeOK SavepointsSound
CHECK_DEADLOCK FALSE
