SPECIFICATION FairSpec
CONSTANTS
  p1 = p1
  p2 = p2
  p3 = p3
  Client <- Trio
  MaxStarts = 3
  Faults <- AllFaults
INVARIANTS TypeOK AtMostOneLeader LeaderIsOldest
PROPERTIES ElectionSpec HeirLeads
CHECK_DEADLOCK FALSE
