---------------------------- MODULE FairLock_proofs ----------------------------
(***************************************************************************)
(* Proofs about FairLock, for every set of tasks and every way to spread   *)
(* them over JVMs, under the assumption that nothing fails (Faults = {}):  *)
(* with a crash the lock is not exclusive, as the run fairlock_crash shows.*)
(***************************************************************************)
EXTENDS FairLock, TLAPS

(* What the operations of the service keep of its types.                   *)

\* Ranges of sequence numbers only grow.
LEMMA RangeGrows ==
  ASSUME NEW m \in Nat, NEW n \in Nat, m <= n
  PROVE  0 .. m - 1 \subseteq 0 .. n - 1 /\ 1 .. m - 1 \subseteq 1 .. n - 1
  OBVIOUS

\* Creating the root keeps the service's types: it only sets rootExists.
LEMMA MakeRootType == ZKTypeOK /\ MakeRoot => ZKTypeOK' /\ nextSeq' = nextSeq
  BY DEF ZKTypeOK, MakeRoot

\* Creating a child keeps them, and no sequence number is ever reused.
LEMMA MakeChildType == ZKTypeOK /\ MakeChild => ZKTypeOK' /\ nextSeq' = nextSeq + 1
<1> SUFFICES ASSUME ZKTypeOK, MakeChild PROVE ZKTypeOK' /\ nextSeq' = nextSeq + 1
  OBVIOUS
<1>1. children' \in SUBSET (1 .. nextSeq' - 1)
  BY DEF ZKTypeOK, MakeChild
<1>2. QED
  BY <1>1 DEF ZKTypeOK, MakeChild

\* A watch on any number handed out so far is well typed.
LEMMA SetWatchType ==
  ASSUME ZKTypeOK, NEW c \in Client, NEW k \in 0 .. nextSeq - 1, SetWatch(c, k)
  PROVE  ZKTypeOK' /\ nextSeq' = nextSeq
  BY DEF ZKTypeOK, SetWatch

\* Taking an event off a client's queue keeps the service's types.
LEMMA ConsumeType ==
  ASSUME ZKTypeOK, NEW c \in Client, Consume(c)
  PROVE  ZKTypeOK' /\ nextSeq' = nextSeq
  BY DEF ZKTypeOK, Consume, None

\* The disappearance of a child keeps the service's types, and only that child
\* disappears.
LEMMA RemoveType ==
  ASSUME ZKTypeOK, NEW k, NEW gone, Remove(k, gone)
  PROVE  ZKTypeOK' /\ nextSeq' = nextSeq /\ children' = children \ {k}
<1>1. children' \in SUBSET (1 .. nextSeq' - 1) /\ nextSeq' = nextSeq
  BY DEF ZKTypeOK, Remove
<1>2. watch' \in [Client -> 0 .. nextSeq - 1]
  BY DEF ZKTypeOK, Remove, None
<1>3. event' \in [Client -> 0 .. nextSeq - 1]
  <2>1. \A c \in Client : event'[c] \in 0 .. nextSeq - 1
    BY DEF ZKTypeOK, Remove
  <2>2. QED
    BY <2>1 DEF Remove
<1>4. QED
  BY <1>1, <1>2, <1>3 DEF ZKTypeOK, Remove

-----------------------------------------------------------------------------

LocalTypeOK ==
  /\ pc \in [Client -> Labels]
  /\ session \in [Client -> BOOLEAN]
  /\ znode \in [Client -> 0 .. nextSeq - 1]
  /\ lockZnode \in [Client -> 0 .. nextSeq - 1]
  /\ view \in [Client -> SUBSET (1 .. nextSeq - 1)]
  /\ target \in [Client -> 0 .. nextSeq - 1]
  /\ latch \in [Client -> BOOLEAN]

InLine(c) == pc[c] \in {"list", "decide", "watch", "await", "held"}

\* A task owns a znode from the time it created it until unlock(), the service
\* and the task agree about it, and its session lasts as long.
StageInv ==
  \A c \in Client :
    /\ pc[c] # "crashed"
    /\ pc[c] \in {"root", "makeRoot", "create"} =>
         session[c] /\ znode[c] = None /\ lockZnode[c] = None
    /\ InLine(c) => session[c] /\ znode[c] \in children
    /\ pc[c] = "done" => znode[c] \notin children
    /\ InLine(c) \/ pc[c] = "done" => znode[c] # None /\ lockZnode[c] = znode[c]
    /\ pc[c] \notin {"root", "makeRoot"} => rootExists

\* Every znode has one owner.
OwnerInv ==
  /\ \A k \in children : \E c \in Client : znode[c] = k
  /\ \A c, d \in Client : znode[c] # None /\ znode[c] = znode[d] => c = d

\* No older znode is missing from the list a task decides from.
ListInv ==
  \A c \in Client : pc[c] = "decide" =>
    znode[c] \in view[c] /\ \A k \in children : k < znode[c] => k \in view[c]

\* A waiter waits for the youngest of the older znodes: when that one is the
\* oldest of all, it is the only one before the waiter.
WaitInv ==
  \A c \in Client : pc[c] \in {"watch", "await"} =>
    /\ target[c] \in Nat /\ 0 < target[c] /\ target[c] < znode[c]
    /\ \A k \in children : k < znode[c] => k <= target[c]

Told(c) == latch[c] \/ event[c] # None

\* A task with a watch waits, and a task whose watch has fired has the oldest
\* znode: this is what makes it safe to return without listing again.
WatchInv ==
  \A c \in Client :
    /\ watch[c] # None => pc[c] = "await" /\ watch[c] = target[c] /\ ~ Told(c)
    /\ Told(c) => pc[c] \in {"await", "held", "done"}
    /\ pc[c] = "await" /\ Told(c) => \A k \in children : znode[c] <= k

HeldInv == \A c \in Client : Holds(c) => \A k \in children : znode[c] <= k

IInv == TypeOK /\ StageInv /\ OwnerInv /\ ListInv /\ WaitInv /\ WatchInv /\ HeldInv

-----------------------------------------------------------------------------

LEMMA InitIInv == Init => IInv
  BY DEF Init, ZKInit, IInv, TypeOK, ZKTypeOK, StageInv, OwnerInv, ListInv,
         WaitInv, WatchInv, HeldInv, Holds, Told, InLine, Labels, None

LEMMA TypeStep == TypeOK /\ [Next]_vars => TypeOK'
<1> SUFFICES ASSUME ZKTypeOK, LocalTypeOK, [Next]_vars
             PROVE  ZKTypeOK' /\ LocalTypeOK'
  BY DEF TypeOK, LocalTypeOK
<1>a. UNCHANGED service => ZKTypeOK' /\ nextSeq' = nextSeq
  BY DEF service, ZKTypeOK
<1> USE DEF LocalTypeOK, Labels, Goto
<1>1. ASSUME NEW c \in Client, FindRoot(c) PROVE ZKTypeOK' /\ LocalTypeOK'
  BY <1>1, <1>a DEF FindRoot
<1>2. ASSUME NEW c \in Client, CreateRoot(c) PROVE ZKTypeOK' /\ LocalTypeOK'
  <2>1. ZKTypeOK' /\ nextSeq' = nextSeq
    BY <1>2, <1>a, MakeRootType DEF CreateRoot
  <2>2. QED
    BY <1>2, <2>1 DEF CreateRoot
<1>3. ASSUME NEW c \in Client, Create(c) PROVE ZKTypeOK' /\ LocalTypeOK'
  BY <1>3, MakeChildType DEF Create, ZKTypeOK
<1>4. ASSUME NEW c \in Client, List(c) PROVE ZKTypeOK' /\ LocalTypeOK'
  BY <1>4, <1>a DEF List, ZKTypeOK
<1>5. ASSUME NEW c \in Client, Acquire(c) PROVE ZKTypeOK' /\ LocalTypeOK'
  BY <1>5, <1>a DEF Acquire
<1>6. ASSUME NEW c \in Client, ChooseWatch(c) PROVE ZKTypeOK' /\ LocalTypeOK'
  <2>1. PICK w \in view[c] : target' = [target EXCEPT ![c] = w]
    BY <1>6 DEF ChooseWatch
  <2>2. w \in 0 .. nextSeq - 1
    BY <2>1 DEF ZKTypeOK
  <2>3. target' \in [Client -> 0 .. nextSeq - 1]
    BY <2>1, <2>2
  <2>4. QED
    BY <1>6, <1>a, <2>3 DEF ChooseWatch
<1>7. ASSUME NEW c \in Client, Watch(c) PROVE ZKTypeOK' /\ LocalTypeOK'
  <2>1. ZKTypeOK' /\ nextSeq' = nextSeq
    BY <1>7, SetWatchType DEF Watch
  <2>2. QED
    BY <1>7, <2>1 DEF Watch
<1>8. ASSUME NEW c \in Client, OnEvent(c) PROVE ZKTypeOK' /\ LocalTypeOK'
  <2>1. ZKTypeOK' /\ nextSeq' = nextSeq
    BY <1>8, ConsumeType DEF OnEvent
  <2>2. QED
    BY <1>8, <2>1 DEF OnEvent
<1>9. ASSUME NEW c \in Client, Wake(c) PROVE ZKTypeOK' /\ LocalTypeOK'
  BY <1>9, <1>a DEF Wake
<1>10. ASSUME NEW c \in Client, CallFails(c) PROVE ZKTypeOK' /\ LocalTypeOK'
  BY <1>10, <1>a DEF CallFails
<1>11. ASSUME NEW c \in Client, ReplyLost(c) PROVE ZKTypeOK' /\ LocalTypeOK'
  <2>1. CASE MakeRoot /\ Goto(c, "create") /\ UNCHANGED znode
    <3>1. ZKTypeOK' /\ nextSeq' = nextSeq
      BY <2>1, MakeRootType
    <3>2. QED
      BY <1>11, <2>1, <3>1 DEF ReplyLost
  <2>2. CASE MakeChild /\ Goto(c, "held") /\ znode' = [znode EXCEPT ![c] = nextSeq]
    <3>1. ZKTypeOK' /\ nextSeq' = nextSeq + 1
      BY <2>2, MakeChildType
    <3>2. UNCHANGED <<session, lockZnode, view, target, latch>>
      BY <1>11 DEF ReplyLost
    <3>3. nextSeq \in Nat \ {0} /\ nextSeq <= nextSeq'
      BY <3>1 DEF ZKTypeOK
    <3>4. /\ 0 .. nextSeq - 1 \subseteq 0 .. nextSeq' - 1
          /\ 1 .. nextSeq - 1 \subseteq 1 .. nextSeq' - 1
          /\ nextSeq \in 0 .. nextSeq' - 1
      BY <3>1, <3>3, RangeGrows
    <3>5. znode' \in [Client -> 0 .. nextSeq' - 1]
      BY <2>2, <3>4
    <3>6. QED
      BY <2>2, <3>1, <3>2, <3>4, <3>5
  <2>3. QED
    BY <1>11, <2>1, <2>2 DEF ReplyLost
<1>12. ASSUME NEW c \in Client, Unlock(c) PROVE ZKTypeOK' /\ LocalTypeOK'
  <2>1. ZKTypeOK' /\ nextSeq' = nextSeq
    BY <1>12, <1>a, RemoveType DEF Unlock
  <2>2. QED
    BY <1>12, <2>1 DEF Unlock
<1>13. ASSUME NEW c \in Client, EndSession(c) PROVE ZKTypeOK' /\ LocalTypeOK'
  <2>1. ZKTypeOK' /\ nextSeq' = nextSeq
    BY <1>13, RemoveType DEF EndSession
  <2>2. session' \in [Client -> BOOLEAN]
    BY <1>13, Zenon DEF EndSession
  <2>3. QED
    BY <1>13, <2>1, <2>2 DEF EndSession
<1>14. ASSUME NEW c \in Client, Crash(JvmOf[c]) PROVE ZKTypeOK' /\ LocalTypeOK'
  BY <1>14, <1>a DEF Crash
<1>15. CASE UNCHANGED vars
  BY <1>15, <1>a DEF vars, local
<1>16. QED
  BY <1>1, <1>2, <1>3, <1>4, <1>5, <1>6, <1>7, <1>8, <1>9, <1>10, <1>11,
     <1>12, <1>13, <1>14, <1>15 DEF Next, Step

LEMMA StageStep == Faults = {} /\ IInv /\ [Next]_vars => StageInv'
<1> SUFFICES ASSUME Faults = {}, IInv, [Next]_vars PROVE StageInv'
  OBVIOUS
<1> USE DEF IInv, TypeOK, ZKTypeOK, StageInv, InLine, Goto, None, Labels
<1>1. ASSUME NEW c \in Client, FindRoot(c) PROVE StageInv'
  BY <1>1 DEF FindRoot, service
<1>2. ASSUME NEW c \in Client, CreateRoot(c) PROVE StageInv'
  BY <1>2 DEF CreateRoot, MakeRoot, service
<1>3. ASSUME NEW c \in Client, Create(c) PROVE StageInv'
  BY <1>3 DEF Create, MakeChild
<1>4. ASSUME NEW c \in Client, List(c) PROVE StageInv'
  BY <1>4 DEF List, service
<1>5. ASSUME NEW c \in Client, Acquire(c) PROVE StageInv'
  BY <1>5 DEF Acquire, service
<1>6. ASSUME NEW c \in Client, ChooseWatch(c) PROVE StageInv'
  BY <1>6 DEF ChooseWatch, Precedes, service
<1>7. ASSUME NEW c \in Client, Watch(c) PROVE StageInv'
  BY <1>7 DEF Watch, SetWatch
<1>8. ASSUME NEW c \in Client, OnEvent(c) PROVE StageInv'
  BY <1>8 DEF OnEvent, Consume
<1>9. ASSUME NEW c \in Client, Wake(c) PROVE StageInv'
  BY <1>9 DEF Wake, service
<1>10. ASSUME NEW c \in Client, CallFails(c) PROVE StageInv'
  BY <1>10 DEF CallFails, service
<1>11. ASSUME NEW c \in Client, ReplyLost(c) PROVE StageInv'
  BY <1>11 DEF ReplyLost
<1>12. ASSUME NEW c \in Client, Unlock(c) PROVE StageInv'
  <2>1. /\ pc[c] = "held" /\ pc' = [pc EXCEPT ![c] = "done"]
        /\ children' = children \ {znode[c]}
        /\ UNCHANGED <<session, znode, lockZnode, rootExists>>
    BY <1>12 DEF Unlock, Remove
  <2>2. \A d \in Client : d # c => znode[d] # znode[c]
    BY <2>1 DEF OwnerInv
  <2>3. QED
    BY <2>1, <2>2
<1>13. ASSUME NEW c \in Client, EndSession(c) PROVE StageInv'
  BY <1>13 DEF EndSession, Over, Remove
<1>14. ASSUME NEW c \in Client, Crash(JvmOf[c]) PROVE StageInv'
  BY <1>14 DEF Crash
<1>15. CASE UNCHANGED vars
  BY <1>15 DEF vars, service, local
<1>16. QED
  BY <1>1, <1>2, <1>3, <1>4, <1>5, <1>6, <1>7, <1>8, <1>9, <1>10, <1>11,
     <1>12, <1>13, <1>14, <1>15 DEF Next, Step

LEMMA OwnerStep == Faults = {} /\ IInv /\ [Next]_vars => OwnerInv'
<1> SUFFICES ASSUME Faults = {}, IInv, [Next]_vars PROVE OwnerInv'
  OBVIOUS
<1> USE DEF IInv, TypeOK, ZKTypeOK, StageInv, InLine, Goto, None, OwnerInv
<1>1. ASSUME NEW c \in Client, FindRoot(c) PROVE OwnerInv'
  BY <1>1 DEF FindRoot, service
<1>2. ASSUME NEW c \in Client, CreateRoot(c) PROVE OwnerInv'
  BY <1>2 DEF CreateRoot, MakeRoot, service
<1>3. ASSUME NEW c \in Client, Create(c) PROVE OwnerInv'
  BY <1>3 DEF Create, MakeChild
<1>4. ASSUME NEW c \in Client, List(c) PROVE OwnerInv'
  BY <1>4 DEF List, service
<1>5. ASSUME NEW c \in Client, Acquire(c) PROVE OwnerInv'
  BY <1>5 DEF Acquire, service
<1>6. ASSUME NEW c \in Client, ChooseWatch(c) PROVE OwnerInv'
  BY <1>6 DEF ChooseWatch, Precedes, service
<1>7. ASSUME NEW c \in Client, Watch(c) PROVE OwnerInv'
  BY <1>7 DEF Watch, SetWatch
<1>8. ASSUME NEW c \in Client, OnEvent(c) PROVE OwnerInv'
  BY <1>8 DEF OnEvent, Consume
<1>9. ASSUME NEW c \in Client, Wake(c) PROVE OwnerInv'
  BY <1>9 DEF Wake, service
<1>10. ASSUME NEW c \in Client, CallFails(c) PROVE OwnerInv'
  BY <1>10 DEF CallFails, service
<1>11. ASSUME NEW c \in Client, ReplyLost(c) PROVE OwnerInv'
  BY <1>11 DEF ReplyLost
<1>12. ASSUME NEW c \in Client, Unlock(c) PROVE OwnerInv'
  BY <1>12 DEF Unlock, Remove, service
<1>13. ASSUME NEW c \in Client, EndSession(c) PROVE OwnerInv'
  BY <1>13 DEF EndSession, Over, Remove
<1>14. ASSUME NEW c \in Client, Crash(JvmOf[c]) PROVE OwnerInv'
  BY <1>14 DEF Crash
<1>15. CASE UNCHANGED vars
  BY <1>15 DEF vars, service, local
<1>16. QED
  BY <1>1, <1>2, <1>3, <1>4, <1>5, <1>6, <1>7, <1>8, <1>9, <1>10, <1>11,
     <1>12, <1>13, <1>14, <1>15 DEF Next, Step

LEMMA ListStep == Faults = {} /\ IInv /\ [Next]_vars => ListInv'
<1> SUFFICES ASSUME Faults = {}, IInv, [Next]_vars PROVE ListInv'
  OBVIOUS
<1> USE DEF IInv, TypeOK, ZKTypeOK, StageInv, InLine, Goto, None, ListInv
<1>1. ASSUME NEW c \in Client, FindRoot(c) PROVE ListInv'
  BY <1>1 DEF FindRoot, service
<1>2. ASSUME NEW c \in Client, CreateRoot(c) PROVE ListInv'
  BY <1>2 DEF CreateRoot, MakeRoot, service
<1>3. ASSUME NEW c \in Client, Create(c) PROVE ListInv'
  BY <1>3 DEF Create, MakeChild
<1>4. ASSUME NEW c \in Client, List(c) PROVE ListInv'
  BY <1>4 DEF List, service
<1>5. ASSUME NEW c \in Client, Acquire(c) PROVE ListInv'
  BY <1>5 DEF Acquire, service
<1>6. ASSUME NEW c \in Client, ChooseWatch(c) PROVE ListInv'
  BY <1>6 DEF ChooseWatch, Precedes, service
<1>7. ASSUME NEW c \in Client, Watch(c) PROVE ListInv'
  BY <1>7 DEF Watch, SetWatch
<1>8. ASSUME NEW c \in Client, OnEvent(c) PROVE ListInv'
  BY <1>8 DEF OnEvent, Consume
<1>9. ASSUME NEW c \in Client, Wake(c) PROVE ListInv'
  BY <1>9 DEF Wake, service
<1>10. ASSUME NEW c \in Client, CallFails(c) PROVE ListInv'
  BY <1>10 DEF CallFails, service
<1>11. ASSUME NEW c \in Client, ReplyLost(c) PROVE ListInv'
  BY <1>11 DEF ReplyLost
<1>12. ASSUME NEW c \in Client, Unlock(c) PROVE ListInv'
  BY <1>12 DEF Unlock, Remove, service
<1>13. ASSUME NEW c \in Client, EndSession(c) PROVE ListInv'
  BY <1>13 DEF EndSession, Over, Remove
<1>14. ASSUME NEW c \in Client, Crash(JvmOf[c]) PROVE ListInv'
  BY <1>14 DEF Crash
<1>15. CASE UNCHANGED vars
  BY <1>15 DEF vars, service, local
<1>16. QED
  BY <1>1, <1>2, <1>3, <1>4, <1>5, <1>6, <1>7, <1>8, <1>9, <1>10, <1>11,
     <1>12, <1>13, <1>14, <1>15 DEF Next, Step

LEMMA WaitStep == Faults = {} /\ IInv /\ [Next]_vars => WaitInv'
<1> SUFFICES ASSUME Faults = {}, IInv, [Next]_vars PROVE WaitInv'
  OBVIOUS
<1> USE DEF IInv, TypeOK, ZKTypeOK, StageInv, InLine, Goto, None, ListInv, WaitInv
<1>1. ASSUME NEW c \in Client, FindRoot(c) PROVE WaitInv'
  BY <1>1 DEF FindRoot, service
<1>2. ASSUME NEW c \in Client, CreateRoot(c) PROVE WaitInv'
  BY <1>2 DEF CreateRoot, MakeRoot, service
<1>3. ASSUME NEW c \in Client, Create(c) PROVE WaitInv'
  BY <1>3 DEF Create, MakeChild
<1>4. ASSUME NEW c \in Client, List(c) PROVE WaitInv'
  BY <1>4 DEF List, service
<1>5. ASSUME NEW c \in Client, Acquire(c) PROVE WaitInv'
  BY <1>5 DEF Acquire, service
<1>6. ASSUME NEW c \in Client, ChooseWatch(c) PROVE WaitInv'
  BY <1>6 DEF ChooseWatch, Precedes, service
<1>7. ASSUME NEW c \in Client, Watch(c) PROVE WaitInv'
  BY <1>7 DEF Watch, SetWatch
<1>8. ASSUME NEW c \in Client, OnEvent(c) PROVE WaitInv'
  BY <1>8 DEF OnEvent, Consume
<1>9. ASSUME NEW c \in Client, Wake(c) PROVE WaitInv'
  BY <1>9 DEF Wake, service
<1>10. ASSUME NEW c \in Client, CallFails(c) PROVE WaitInv'
  BY <1>10 DEF CallFails, service
<1>11. ASSUME NEW c \in Client, ReplyLost(c) PROVE WaitInv'
  BY <1>11 DEF ReplyLost
<1>12. ASSUME NEW c \in Client, Unlock(c) PROVE WaitInv'
  BY <1>12 DEF Unlock, Remove, service
<1>13. ASSUME NEW c \in Client, EndSession(c) PROVE WaitInv'
  BY <1>13 DEF EndSession, Over, Remove
<1>14. ASSUME NEW c \in Client, Crash(JvmOf[c]) PROVE WaitInv'
  BY <1>14 DEF Crash
<1>15. CASE UNCHANGED vars
  BY <1>15 DEF vars, service, local
<1>16. QED
  BY <1>1, <1>2, <1>3, <1>4, <1>5, <1>6, <1>7, <1>8, <1>9, <1>10, <1>11,
     <1>12, <1>13, <1>14, <1>15 DEF Next, Step

LEMMA WatchStep == Faults = {} /\ IInv /\ [Next]_vars => WatchInv'
<1> SUFFICES ASSUME Faults = {}, IInv, [Next]_vars PROVE WatchInv'
  OBVIOUS
<1> USE DEF IInv, TypeOK, ZKTypeOK, StageInv, InLine, Goto, None, OwnerInv, WaitInv, WatchInv, Told, HeldInv, Holds
<1>1. ASSUME NEW c \in Client, FindRoot(c) PROVE WatchInv'
  BY <1>1 DEF FindRoot, service
<1>2. ASSUME NEW c \in Client, CreateRoot(c) PROVE WatchInv'
  <2>1. /\ UNCHANGED <<children, watch, event, znode, target, latch>>
        /\ pc[c] = "makeRoot" /\ pc' = [pc EXCEPT ![c] = "create"]
    BY <1>2 DEF CreateRoot, MakeRoot, service
  <2>2. pc \in [Client -> Labels]
    OBVIOUS
  <2> HIDE DEF IInv, TypeOK, ZKTypeOK, StageInv, OwnerInv, WaitInv, HeldInv
  <2> QED BY <2>1, <2>2 DEF IInv
<1>3. ASSUME NEW c \in Client, Create(c) PROVE WatchInv'
  BY <1>3 DEF Create, MakeChild
<1>4. ASSUME NEW c \in Client, List(c) PROVE WatchInv'
  BY <1>4 DEF List, service
<1>5. ASSUME NEW c \in Client, Acquire(c) PROVE WatchInv'
  BY <1>5 DEF Acquire, service
<1>6. ASSUME NEW c \in Client, ChooseWatch(c) PROVE WatchInv'
  BY <1>6 DEF ChooseWatch, Precedes, service
<1>7. ASSUME NEW c \in Client, Watch(c) PROVE WatchInv'
  BY <1>7 DEF Watch, SetWatch
<1>8. ASSUME NEW c \in Client, OnEvent(c) PROVE WatchInv'
  BY <1>8 DEF OnEvent, Consume
<1>9. ASSUME NEW c \in Client, Wake(c) PROVE WatchInv'
  BY <1>9 DEF Wake, service
<1>10. ASSUME NEW c \in Client, CallFails(c) PROVE WatchInv'
  BY <1>10 DEF CallFails, service
<1>11. ASSUME NEW c \in Client, ReplyLost(c) PROVE WatchInv'
  BY <1>11 DEF ReplyLost
<1>12. ASSUME NEW c \in Client, Unlock(c) PROVE WatchInv'
  <2>1. /\ pc[c] = "held" /\ pc' = [pc EXCEPT ![c] = "done"]
        /\ Remove(znode[c], {})
        /\ UNCHANGED <<session, znode, lockZnode, target, latch>>
    BY <1>12 DEF Unlock
  <2>2. \A k \in children : znode[c] <= k
    BY <2>1
  <2>3. children' = children \ {znode[c]} /\ znode[c] \in children
    BY <2>1 DEF Remove
  <2>4. ASSUME NEW d \in Client, watch[d] = znode[c]
        PROVE  /\ pc'[d] = "await" /\ watch'[d] = None /\ Told(d)'
               /\ \A k \in children' : znode'[d] <= k
    <3>1. pc[d] = "await" /\ target[d] = znode[c] /\ d # c
      BY <2>1, <2>3, <2>4
    <3>2. watch'[d] = None /\ event'[d] = znode[c]
      BY <2>1, <2>3, <2>4 DEF Remove
    <3>3. ASSUME NEW k \in children', k < znode[d] PROVE FALSE
      BY <2>2, <2>3, <3>1, <3>3
    <3>4. QED
      BY <2>1, <2>3, <3>1, <3>2, <3>3
  <2>5. ASSUME NEW d \in Client, watch[d] # znode[c]
        PROVE  watch'[d] = watch[d] /\ event'[d] = event[d]
    BY <2>1, <2>5 DEF Remove
  <2>6. QED
    BY <2>1, <2>3, <2>4, <2>5
<1>13. ASSUME NEW c \in Client, EndSession(c) PROVE WatchInv'
  BY <1>13 DEF EndSession, Over, Remove
<1>14. ASSUME NEW c \in Client, Crash(JvmOf[c]) PROVE WatchInv'
  BY <1>14 DEF Crash
<1>15. CASE UNCHANGED vars
  BY <1>15 DEF vars, service, local
<1>16. QED
  BY <1>1, <1>2, <1>3, <1>4, <1>5, <1>6, <1>7, <1>8, <1>9, <1>10, <1>11,
     <1>12, <1>13, <1>14, <1>15 DEF Next, Step

LEMMA HeldStep == Faults = {} /\ IInv /\ [Next]_vars => HeldInv'
<1> SUFFICES ASSUME Faults = {}, IInv, [Next]_vars PROVE HeldInv'
  OBVIOUS
<1> USE DEF IInv, TypeOK, ZKTypeOK, StageInv, InLine, Goto, None, OwnerInv, ListInv, WatchInv, Told, HeldInv, Holds
<1>1. ASSUME NEW c \in Client, FindRoot(c) PROVE HeldInv'
  BY <1>1 DEF FindRoot, service
<1>2. ASSUME NEW c \in Client, CreateRoot(c) PROVE HeldInv'
  BY <1>2 DEF CreateRoot, MakeRoot, service
<1>3. ASSUME NEW c \in Client, Create(c) PROVE HeldInv'
  BY <1>3 DEF Create, MakeChild
<1>4. ASSUME NEW c \in Client, List(c) PROVE HeldInv'
  BY <1>4 DEF List, service
<1>5. ASSUME NEW c \in Client, Acquire(c) PROVE HeldInv'
  BY <1>5 DEF Acquire, service
<1>6. ASSUME NEW c \in Client, ChooseWatch(c) PROVE HeldInv'
  BY <1>6 DEF ChooseWatch, Precedes, service
<1>7. ASSUME NEW c \in Client, Watch(c) PROVE HeldInv'
  BY <1>7 DEF Watch, SetWatch
<1>8. ASSUME NEW c \in Client, OnEvent(c) PROVE HeldInv'
  BY <1>8 DEF OnEvent, Consume
<1>9. ASSUME NEW c \in Client, Wake(c) PROVE HeldInv'
  BY <1>9 DEF Wake, service
<1>10. ASSUME NEW c \in Client, CallFails(c) PROVE HeldInv'
  BY <1>10 DEF CallFails, service
<1>11. ASSUME NEW c \in Client, ReplyLost(c) PROVE HeldInv'
  BY <1>11 DEF ReplyLost
<1>12. ASSUME NEW c \in Client, Unlock(c) PROVE HeldInv'
  BY <1>12 DEF Unlock, Remove, service
<1>13. ASSUME NEW c \in Client, EndSession(c) PROVE HeldInv'
  BY <1>13 DEF EndSession, Over, Remove
<1>14. ASSUME NEW c \in Client, Crash(JvmOf[c]) PROVE HeldInv'
  BY <1>14 DEF Crash
<1>15. CASE UNCHANGED vars
  BY <1>15 DEF vars, service, local
<1>16. QED
  BY <1>1, <1>2, <1>3, <1>4, <1>5, <1>6, <1>7, <1>8, <1>9, <1>10, <1>11,
     <1>12, <1>13, <1>14, <1>15 DEF Next, Step

-----------------------------------------------------------------------------

\* Every variable of the model stays within its type, whatever fails.
THEOREM TypeCorrect == Spec => []TypeOK
<1>1. Init => TypeOK
  BY InitIInv DEF IInv
<1>2. QED
  BY <1>1, TypeStep, PTL DEF Spec

\* The inductive invariant holds as long as nothing fails.
THEOREM Invariant ==
  ASSUME Faults = {}
  PROVE  Spec => []IInv
<1>1. IInv /\ [Next]_vars => IInv'
  BY TypeStep, StageStep, OwnerStep, ListStep, WaitStep, WatchStep, HeldStep DEF IInv
<1>2. QED
  BY InitIInv, <1>1, PTL DEF Spec

LEMMA HoldersAgree ==
  ASSUME IInv, NEW c \in Client, NEW d \in Client, Holds(c), Holds(d)
  PROVE  c = d
<1>1. znode[c] \in children /\ znode[d] \in children /\ znode[c] # None
  BY DEF IInv, StageInv, InLine, Holds
<1>2. znode[c] <= znode[d] /\ znode[d] <= znode[c]
  BY <1>1 DEF IInv, HeldInv
<1>3. znode[c] = znode[d]
  BY <1>1, <1>2 DEF IInv, TypeOK, ZKTypeOK
<1>4. QED
  BY <1>1, <1>3 DEF IInv, OwnerInv

\* As long as nothing fails, no two tasks are between lock() and unlock().
THEOREM LockIsExclusive ==
  ASSUME Faults = {}
  PROVE  Spec => []MutualExclusion
<1>1. IInv => MutualExclusion
  BY HoldersAgree DEF MutualExclusion
<1>2. QED
  BY Invariant, <1>1, PTL

LEMMA Enters ==
  ASSUME Faults = {}, IInv, [Next]_vars, NEW c \in Client, ~ Holds(c), Holds(c)'
  PROVE  /\ Oldest(lockZnode[c])
         /\ UNCHANGED <<service, znode>>
         /\ pc' = [pc EXCEPT ![c] = "held"]
<1> USE DEF IInv, TypeOK, ZKTypeOK, StageInv, Holds, Goto, InLine
<1>1. Acquire(c) \/ Wake(c)
  <2>1. ASSUME NEW d \in Client, Step(d), ~ Acquire(c), ~ Wake(c) PROVE FALSE
    BY <2>1 DEF Step, FindRoot, CreateRoot, Create, List, Acquire, ChooseWatch,
       Watch, OnEvent, Wake, CallFails, ReplyLost, Unlock
  <2>2. ASSUME NEW d \in Client, EndSession(d) \/ Crash(JvmOf[d]) PROVE FALSE
    BY <2>2 DEF EndSession, Crash
  <2>3. CASE UNCHANGED vars
    BY <2>3 DEF vars, local
  <2>4. QED
    BY <2>1, <2>2, <2>3 DEF Next
<1>2. Oldest(lockZnode[c])
  <2>1. CASE Acquire(c)
    BY <2>1 DEF Acquire, ListInv, Oldest
  <2>2. CASE Wake(c)
    BY <2>2 DEF Wake, WatchInv, Told, Oldest
  <2>3. QED
    BY <1>1, <2>1, <2>2
<1>3. QED
  BY <1>1, <1>2 DEF Acquire, Wake

\* As long as nothing fails, a task gets past lock() only when its znode is the
\* oldest: nobody overtakes.
THEOREM LockIsFair ==
  ASSUME Faults = {}
  PROVE  Spec => GrantedInOrder
<1>1. IInv /\ [Next]_vars
      => [\A c \in Client : ~ Holds(c) /\ Holds(c)' => Oldest(lockZnode[c])]_vars
  BY Enters
<1>2. QED
  BY Invariant, <1>1, PTL DEF Spec, GrantedInOrder

-----------------------------------------------------------------------------

(* Refinement of FifoLock.                                                 *)

Held == {znode[c] : c \in {d \in Client : Holds(d)}}

\* What a step that is no entry does to the lock.
Quiet ==
  \/ /\ Held' = Held
     /\ UNCHANGED <<children, nextSeq>>
  \/ /\ Held' = Held
     /\ children' = children \cup {nextSeq} /\ nextSeq' = nextSeq + 1
  \/ \E k \in children :
       Held = {k} /\ Held' = {} /\ children' = children \ {k} /\ nextSeq' = nextSeq

LEMMA QuietStep ==
  ASSUME Faults = {}, IInv, IInv', [Next]_vars,
         \A c \in Client : Holds(c)' => Holds(c)
  PROVE  Quiet
<1>1. CASE \E c \in Client : Unlock(c)
  <2>1. PICK c \in Client : Unlock(c)
    BY <1>1
  <2>2. /\ Holds(c) /\ znode[c] \in children /\ lockZnode[c] = znode[c]
        /\ lockZnode[c] # None /\ session[c]
    BY <2>1 DEF Unlock, IInv, StageInv, InLine, Holds
  <2>3. children' = children \ {znode[c]} /\ nextSeq' = nextSeq
    BY <2>1, <2>2 DEF Unlock, Remove
  <2>4. \A d \in Client : Holds(d) <=> d = c
    BY <2>2, HoldersAgree
  <2>5. \A d \in Client : ~ Holds(d)'
    BY <2>1, <2>4 DEF Unlock, Goto, Holds, IInv, TypeOK
  <2>6. Held = {znode[c]} /\ Held' = {}
    BY <2>4, <2>5 DEF Held
  <2>7. QED
    BY <2>2, <2>3, <2>6 DEF Quiet
<1>2. CASE ~ \E c \in Client : Unlock(c)
  <2>1. \A c \in Client : Holds(c)' <=> Holds(c)
    <3> SUFFICES ASSUME NEW c \in Client, Holds(c), ~ Holds(c)' PROVE FALSE
      OBVIOUS
    <3> USE DEF IInv, TypeOK, Holds, Goto
    <3>1. ASSUME NEW d \in Client, Step(d) PROVE FALSE
      BY <1>2, <3>1 DEF Step, FindRoot, CreateRoot, Create, List, Acquire,
         ChooseWatch, Watch, OnEvent, Wake, CallFails, ReplyLost
    <3>2. ASSUME NEW d \in Client, EndSession(d) \/ Crash(JvmOf[d]) PROVE FALSE
      BY <3>2 DEF EndSession, Crash
    <3>3. CASE UNCHANGED vars
      BY <3>3 DEF vars, local
    <3>4. QED
      BY <3>1, <3>2, <3>3 DEF Next
  <2>2. \/ UNCHANGED <<children, nextSeq>>
        \/ children' = children \cup {nextSeq} /\ nextSeq' = nextSeq + 1
    <3>1. ASSUME NEW c \in Client, Step(c)
          PROVE  \/ UNCHANGED <<children, nextSeq>>
                 \/ children' = children \cup {nextSeq} /\ nextSeq' = nextSeq + 1
      BY <1>2, <3>1 DEF Step, FindRoot, CreateRoot, Create, List, Acquire,
         ChooseWatch, Watch, OnEvent, Wake, CallFails, ReplyLost, MakeRoot,
         MakeChild, SetWatch, Consume, service
    <3>2. ASSUME NEW c \in Client, EndSession(c) PROVE UNCHANGED <<children, nextSeq>>
      BY <3>2 DEF EndSession, Over, Remove, IInv, StageInv
    <3>3. ASSUME NEW c \in Client, Crash(JvmOf[c]) PROVE FALSE
      BY <3>3 DEF Crash
    <3>4. CASE UNCHANGED vars
      BY <3>4 DEF vars, service
    <3>5. QED
      BY <3>1, <3>2, <3>3, <3>4 DEF Next
  <2>3. \A c \in Client : Holds(c) => znode'[c] = znode[c]
    <3> SUFFICES ASSUME NEW c \in Client, Holds(c) PROVE znode'[c] = znode[c]
      OBVIOUS
    <3> USE DEF IInv, TypeOK, Holds
    <3>1. ASSUME NEW d \in Client, Step(d) PROVE znode'[c] = znode[c]
      BY <1>2, <3>1 DEF Step, FindRoot, CreateRoot, Create, List, Acquire,
         ChooseWatch, Watch, OnEvent, Wake, CallFails, ReplyLost
    <3>2. ASSUME NEW d \in Client, EndSession(d) \/ Crash(JvmOf[d])
          PROVE  znode'[c] = znode[c]
      BY <3>2 DEF EndSession, Crash
    <3>3. CASE UNCHANGED vars
      BY <3>3 DEF vars, local
    <3>4. QED
      BY <3>1, <3>2, <3>3 DEF Next
  <2>4. Held' = Held
    BY <2>1, <2>3 DEF Held
  <2>5. QED
    BY <2>2, <2>4 DEF Quiet
<1>3. QED
  BY <1>1, <1>2

LEMMA EntryGrants ==
  ASSUME Faults = {}, IInv, IInv', [Next]_vars, NEW c \in Client, ~ Holds(c), Holds(c)'
  PROVE  /\ Held = {} /\ Held' = {znode[c]} /\ Oldest(znode[c])
         /\ UNCHANGED <<children, nextSeq>>
<1>1. /\ Oldest(lockZnode[c]) /\ UNCHANGED <<service, znode>>
      /\ pc' = [pc EXCEPT ![c] = "held"]
  BY Enters
<1>2. lockZnode[c] = znode[c] /\ UNCHANGED <<children, nextSeq>>
  <2>1. Oldest(lockZnode[c])' \/ lockZnode[c] # None
    BY <1>1 DEF Oldest, IInv, TypeOK, ZKTypeOK, None
  <2>2. pc[c] \notin {"root", "makeRoot", "create"}
    BY <1>1 DEF Oldest, IInv, TypeOK, ZKTypeOK, StageInv, None
  <2>3. QED
    BY <1>1, <2>2 DEF service, IInv, TypeOK, Labels, StageInv, InLine
<1>3. \A d \in Client : Holds(d) => Holds(d)' /\ d # c
  BY <1>1 DEF Holds, IInv, TypeOK
<1>4. \A d \in Client : Holds(d)' => d = c
  <2> SUFFICES ASSUME NEW d \in Client, Holds(d)' PROVE d = c
    OBVIOUS
  <2>1. znode'[c] \in children' /\ znode'[d] \in children' /\ znode'[c] # None
    BY DEF IInv, StageInv, InLine, Holds
  <2>2. znode'[c] <= znode'[d] /\ znode'[d] <= znode'[c]
    BY <2>1 DEF IInv, HeldInv
  <2>3. znode'[c] \in Nat /\ znode'[d] \in Nat
    BY <2>1 DEF IInv, TypeOK, ZKTypeOK
  <2>5. znode'[c] = znode'[d]
    BY <2>2, <2>3
  <2>6. QED
    BY <2>1, <2>5 DEF IInv, OwnerInv
<1>5. Held = {} /\ Held' = {znode[c]}
  BY <1>1, <1>3, <1>4 DEF Held
<1>6. QED
  BY <1>1, <1>2, <1>5

\* As long as nothing fails, FairLockTest implements the fair lock: one ticket
\* at a time, in the order in which the tickets were drawn.
THEOREM ImplementsFifoLock ==
  ASSUME Faults = {}
  PROVE  Spec => FifoLockSpec
<1>1. Init => Locks!Init
  BY DEF Init, ZKInit, Locks!Init, Holds
<1>2. IInv /\ IInv' /\ [Next]_vars => [Locks!Next]_<<children, Held, nextSeq>>
  <2> SUFFICES ASSUME IInv, IInv', [Next]_vars
               PROVE  [Locks!Next]_<<children, Held, nextSeq>>
    OBVIOUS
  <2>1. CASE \E c \in Client : ~ Holds(c) /\ Holds(c)'
    <3>1. PICK c \in Client : ~ Holds(c) /\ Holds(c)'
      BY <2>1
    <3>2. /\ Held = {} /\ Held' = {znode[c]} /\ Oldest(znode[c])
          /\ UNCHANGED <<children, nextSeq>>
      BY <3>1, EntryGrants
    <3>3. \E k \in children :
            /\ Held = {} /\ \A j \in children : k <= j
            /\ Held' = {k} /\ UNCHANGED <<children, nextSeq>>
      BY <3>2 DEF Oldest
    <3>4. QED
      BY <3>3 DEF Locks!Next, Locks!Grant, Held
  <2>2. CASE ~ \E c \in Client : ~ Holds(c) /\ Holds(c)'
    <3>1. Quiet
      BY <2>2, QuietStep
    <3>2. QED
      BY <3>1 DEF Quiet, Locks!Next, Locks!Draw, Locks!Release, Held
  <2>3. QED
    BY <2>1, <2>2
<1>3. QED
  BY Invariant, <1>1, <1>2, PTL DEF Spec, FifoLockSpec, Locks!Spec, Held
=============================================================================
