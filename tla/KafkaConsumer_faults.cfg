SPECIFICATION Spec
CONSTANTS
  c1 = c1
  c2 = c2
  c3 = c3
  p1 = p1
  p2 = p2
  Consumer <- TwoConsumers
  Partition <- TwoPartitions
  None = None
  MaxLen = 2
  MaxEmpty = 0
  MaxGeneration = 3
  Faults <- AllFaults
SYMMETRY Symmetric
INVARIANTS TypeOK CommittedWasProcessed
PROPERTY CommitsMoveForward
CHECK_DEADLOCK FALSE
