SPECIFICATION Spec
CONSTANTS
  t1 = t1
  t2 = t2
  t3 = t3
  t4 = t4
  Client <- FourTasks
  JvmOf <- OneMain
  Faults <- NoFault
INVARIANTS TypeOK MutualExclusion
PROPERTY FifoLockSpec
SYMMETRY Symmetric
CHECK_DEADLOCK FALSE
