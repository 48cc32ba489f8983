------------------------------ MODULE MCFairLock ------------------------------
(* Instances of FairLock for TLC: tasks t1 .. t4, alone in their JVMs or, as *)
(* FairLockTest.main starts them, sharing one.                               *)
EXTENDS FairLock, TLC

CONSTANTS t1, t2, t3, t4

ThreeTasks == {t1, t2, t3}
FourTasks == {t1, t2, t3, t4}
OneEach == [c \in Client |-> c]
OneMain == [c \in Client |-> t1]
CrashOnly == {"crash"}
CrashOrLoss == {"crash", "connloss"}
NoFault == {}
Symmetric == Permutations(Client)
=============================================================================
