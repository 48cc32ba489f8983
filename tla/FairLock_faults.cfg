SPECIFICATION FairSpec
CONSTANTS
  t1 = t1
  t2 = t2
  t3 = t3
  t4 = t4
  Client <- ThreeTasks
  JvmOf <- OneEach
  Faults <- CrashOrLoss
PROPERTY QueueMoves
CHECK_DEADLOCK FALSE
