SPECIFICATION FairSpec
CONSTANTS
  c1 = c1
  c2 = c2
  c3 = c3
  p1 = p1
  p2 = p2
  Consumer <- TwoConsumers
  Partition <- TwoPartitions
  None = None
  MaxLen = 1
  MaxEmpty = 1
  MaxGeneration = 5
  Faults <- CrashOnly
INVARIANT StopsCommitted
PROPERTY EventuallyProcessed
CHECK_DEADLOCK FALSE
