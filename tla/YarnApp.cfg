SPECIFICATION FairSpec
CONSTANTS
  N = 3
  MaxAttempts = 2
  Faults <- AllFaults
INVARIANTS TypeOK EachCompletionCountedOnce SuccessMeansCompleted OverAllocationBounded
PROPERTIES JobSpec ClientReturns
CHECK_DEADLOCK FALSE
