------------------------ MODULE LeaderElection_proofs ------------------------
(***************************************************************************)
(* Proofs about LeaderElection, for every set of processes, every bound on *)
(* the number of starts and every combination of faults.                   *)
(***************************************************************************)
EXTENDS LeaderElection, WellFoundedInduction, TLAPS

(* What the operations of the service keep of its types.                   *)

\* Every non-empty set of sequence numbers has a least one.
LEMMA Least ==
  ASSUME NEW S, S \subseteq Nat, S # {}
  PROVE  \E m \in S : \A k \in S : m <= k
<1>1. PICK m \in S : \A k \in S : ~ (<<k, m>> \in OpToRel(<, Nat))
  BY NatLessThanWellFounded, WFMin
<1>2. \A k \in S : ~ (k < m)
  BY <1>1 DEF OpToRel
<1>3. \A k \in S : k \in Nat /\ m \in Nat
  OBVIOUS
<1>4. QED
  BY <1>2, <1>3

\* Ranges of sequence numbers only grow.
LEMMA RangeGrows ==
  ASSUME NEW m \in Nat, NEW n \in Nat, m <= n
  PROVE  0 .. m - 1 \subseteq 0 .. n - 1 /\ 1 .. m - 1 \subseteq 1 .. n - 1
  OBVIOUS

\* The null number is in all of them.
LEMMA NoneInRange == ASSUME NEW n \in Nat, 1 <= n PROVE None \in 0 .. n - 1
  BY DEF None

\* Creating the root keeps the service's types: it only sets rootExists.
LEMMA MakeRootType == ZKTypeOK /\ MakeRoot => ZKTypeOK' /\ nextSeq' = nextSeq
  BY DEF ZKTypeOK, MakeRoot

\* Creating a child keeps them, and no sequence number is ever reused.
LEMMA MakeChildType == ZKTypeOK /\ MakeChild => ZKTypeOK' /\ nextSeq' = nextSeq + 1
<1> SUFFICES ASSUME ZKTypeOK, MakeChild PROVE ZKTypeOK' /\ nextSeq' = nextSeq + 1
  OBVIOUS
<1>1. children' \in SUBSET (1 .. nextSeq' - 1)
  BY DEF ZKTypeOK, MakeChild
<1>2. QED
  BY <1>1 DEF ZKTypeOK, MakeChild

\* A watch on any number handed out so far is well typed.
LEMMA SetWatchType ==
  ASSUME ZKTypeOK, NEW c \in Client, NEW k \in 0 .. nextSeq - 1, SetWatch(c, k)
  PROVE  ZKTypeOK' /\ nextSeq' = nextSeq
  BY DEF ZKTypeOK, SetWatch

\* Taking an event off a client's queue keeps the service's types.
LEMMA ConsumeType ==
  ASSUME ZKTypeOK, NEW c \in Client, Consume(c)
  PROVE  ZKTypeOK' /\ nextSeq' = nextSeq
  BY DEF ZKTypeOK, Consume, None

\* Ending a client's connection keeps the service's types.
LEMMA DisconnectType ==
  ASSUME ZKTypeOK, NEW c \in Client, Disconnect(c)
  PROVE  ZKTypeOK' /\ nextSeq' = nextSeq
  BY DEF ZKTypeOK, Disconnect, None

\* The disappearance of a child keeps the service's types, and only that child
\* disappears.
LEMMA RemoveType ==
  ASSUME ZKTypeOK, NEW k, NEW gone, Remove(k, gone)
  PROVE  ZKTypeOK' /\ nextSeq' = nextSeq /\ children' = children \ {k}
<1>1. children' \in SUBSET (1 .. nextSeq' - 1) /\ nextSeq' = nextSeq
  BY DEF ZKTypeOK, Remove
<1>2. watch' \in [Client -> 0 .. nextSeq - 1]
  BY DEF ZKTypeOK, Remove, None
<1>3. event' \in [Client -> 0 .. nextSeq - 1]
  <2>1. \A c \in Client : event'[c] \in 0 .. nextSeq - 1
    BY DEF ZKTypeOK, Remove
  <2>2. QED
    BY <2>1 DEF Remove
<1>4. QED
  BY <1>1, <1>2, <1>3 DEF ZKTypeOK, Remove

-----------------------------------------------------------------------------

\* TypeOK is ZKTypeOK and the types of the processes' own state.
LocalTypeOK ==
  /\ pc \in [Client -> Labels]
  /\ session \in [Client -> BOOLEAN]
  /\ node \in [Client -> 0 .. nextSeq - 1]
  /\ watched \in [Client -> 0 .. nextSeq - 1]
  /\ view \in [Client -> SUBSET (1 .. nextSeq - 1)]
  /\ thread \in [Client -> {"main", "event"}]
  /\ starts \in Nat

Enrolled(p) == pc[p] \in {"list", "decide", "watch", "follow", "leader", "deaf"}

\* A process has a znode number from the time it enrolled, and nobody else has
\* that number; the znode exists as long as the session does.
NodeInv ==
  /\ \A p \in Client : node[p] # None <=> Enrolled(p)
  /\ \A p \in Client : thread[p] = "event" => Enrolled(p)
  /\ \A p \in Client : session[p] => Up(p)
  /\ \A p \in Client : session[p] /\ Enrolled(p) => node[p] \in children
  /\ \A p, q \in Client : Enrolled(p) /\ node[p] = node[q] => p = q

\* The list a process decides from may name znodes that are gone by now, but
\* no older znode is missing from it: new ones are always younger.
ViewInv ==
  \A p \in Client :
    pc[p] = "decide" =>
      /\ node[p] \in view[p]
      /\ session[p] => \A k \in children : k < node[p] => k \in view[p]

LeaderInv == \A p \in Client : Leads(p) => \A k \in children : node[p] <= k

IInv == TypeOK /\ NodeInv /\ ViewInv /\ LeaderInv

-----------------------------------------------------------------------------

LEMMA InitIInv == Init => IInv
  BY DEF Init, ZKInit, IInv, TypeOK, ZKTypeOK, NodeInv, ViewInv, LeaderInv,
         Enrolled, Up, Leads, Labels, None

LEMMA HaltType ==
  ASSUME LocalTypeOK, ZKTypeOK, NEW p \in Client, Halt(p), UNCHANGED starts,
         nextSeq' \in {nextSeq, nextSeq + 1}
  PROVE  LocalTypeOK'
<1>0. nextSeq \in Nat /\ nextSeq' \in Nat /\ 1 <= nextSeq' /\ nextSeq <= nextSeq'
  BY DEF ZKTypeOK
<1>1. 0 .. nextSeq - 1 \subseteq 0 .. nextSeq' - 1
  BY <1>0, RangeGrows
<1>10. None \in 0 .. nextSeq' - 1
  BY <1>0, NoneInRange
<1>2. 1 .. nextSeq - 1 \subseteq 1 .. nextSeq' - 1
  BY <1>0, RangeGrows
<1>3. pc' \in [Client -> Labels]
  BY DEF LocalTypeOK, Halt, Goto, Labels
<1>4. session' \in [Client -> BOOLEAN]
  BY Zenon DEF LocalTypeOK, Halt
<1>5. thread' \in [Client -> {"main", "event"}]
  BY DEF LocalTypeOK, Halt
<1>6. node' \in [Client -> 0 .. nextSeq' - 1]
  BY <1>1, <1>10 DEF LocalTypeOK, Halt
<1>7. watched' \in [Client -> 0 .. nextSeq' - 1]
  BY <1>1, <1>10 DEF LocalTypeOK, Halt
<1>8. view' \in [Client -> SUBSET (1 .. nextSeq' - 1)]
  BY <1>2 DEF LocalTypeOK, Halt
<1>9. QED
  BY <1>3, <1>4, <1>5, <1>6, <1>7, <1>8 DEF LocalTypeOK

LEMMA TypeStep == TypeOK /\ [Next]_vars => TypeOK'
<1> SUFFICES ASSUME ZKTypeOK, LocalTypeOK, [Next]_vars
             PROVE  ZKTypeOK' /\ LocalTypeOK'
  BY DEF TypeOK, LocalTypeOK
<1>a. UNCHANGED service => ZKTypeOK' /\ nextSeq' = nextSeq
  BY DEF service, ZKTypeOK
<1> USE DEF LocalTypeOK, Labels
<1>1. ASSUME NEW p \in Client, Start(p) PROVE ZKTypeOK' /\ LocalTypeOK'
  BY <1>1, DisconnectType DEF Start, Goto
<1>2. ASSUME NEW p \in Client, FindRoot(p) PROVE ZKTypeOK' /\ LocalTypeOK'
  BY <1>2, <1>a DEF FindRoot, Goto
<1>3. ASSUME NEW p \in Client, CreateRoot(p) PROVE ZKTypeOK' /\ LocalTypeOK'
  BY <1>3, MakeRootType DEF CreateRoot, Goto
<1>4. ASSUME NEW p \in Client, LoseRootRace(p) PROVE ZKTypeOK' /\ LocalTypeOK'
  BY <1>4, <1>a, HaltType DEF LoseRootRace
<1>5. ASSUME NEW p \in Client, Enroll(p) PROVE ZKTypeOK' /\ LocalTypeOK'
  BY <1>5, MakeChildType DEF Enroll, Goto, ZKTypeOK
<1>6. ASSUME NEW p \in Client, List(p) PROVE ZKTypeOK' /\ LocalTypeOK'
  BY <1>6, <1>a DEF List, Goto, ZKTypeOK
<1>7. ASSUME NEW p \in Client, BecomeLeader(p) PROVE ZKTypeOK' /\ LocalTypeOK'
  BY <1>7, <1>a DEF BecomeLeader, Goto
<1>8. ASSUME NEW p \in Client, ChooseWatch(p) PROVE ZKTypeOK' /\ LocalTypeOK'
  <2>1. PICK w \in view[p] : watched' = [watched EXCEPT ![p] = w]
    BY <1>8 DEF ChooseWatch
  <2>2. w \in 0 .. nextSeq - 1
    BY <2>1 DEF ZKTypeOK
  <2>3. watched' \in [Client -> 0 .. nextSeq - 1]
    BY <2>1, <2>2
  <2>4. QED
    BY <1>8, <1>a, <2>3 DEF ChooseWatch, Goto
<1>9. ASSUME NEW p \in Client, Watch(p) PROVE ZKTypeOK' /\ LocalTypeOK'
  <2>1. ZKTypeOK' /\ nextSeq' = nextSeq
    BY <1>9, SetWatchType DEF Watch
  <2>2. QED
    BY <1>9, <2>1 DEF Watch, Goto
<1>10. ASSUME NEW p \in Client, OnEvent(p) PROVE ZKTypeOK' /\ LocalTypeOK'
  BY <1>10, ConsumeType DEF OnEvent, Goto
<1>11. ASSUME NEW p \in Client, CallFails(p) PROVE ZKTypeOK' /\ LocalTypeOK'
  <2>1. UNCHANGED service /\ UNCHANGED starts
    BY <1>11 DEF CallFails
  <2>2. CASE Halt(p)
    BY <2>1, <2>2, <1>a, HaltType
  <2>3. CASE thread[p] = "event" /\ Goto(p, "deaf")
             /\ UNCHANGED <<session, node, watched, view, thread>>
    BY <2>1, <2>3, <1>a DEF Goto
  <2>4. QED
    BY <1>11, <2>2, <2>3 DEF CallFails, Fail
<1>12. ASSUME NEW p \in Client, ReplyLost(p) PROVE ZKTypeOK' /\ LocalTypeOK'
  <2>1. Halt(p) /\ UNCHANGED starts
    BY <1>12 DEF ReplyLost
  <2>2. ZKTypeOK' /\ nextSeq' \in {nextSeq, nextSeq + 1}
    BY <1>12, MakeRootType, MakeChildType DEF ReplyLost
  <2>3. QED
    BY <2>1, <2>2, HaltType
<1>13. ASSUME NEW p \in Client, Crash(p) PROVE ZKTypeOK' /\ LocalTypeOK'
  BY <1>13, <1>a, HaltType DEF Crash
<1>14. ASSUME NEW p \in Client, Expire(p) PROVE ZKTypeOK' /\ LocalTypeOK'
  <2>1. ZKTypeOK' /\ nextSeq' = nextSeq
    BY <1>14, RemoveType DEF Expire
  <2>2. QED
    BY <1>14, <2>1 DEF Expire
<1>15. ASSUME NEW k \in children, TimeOut(k) PROVE ZKTypeOK' /\ LocalTypeOK'
  <2>1. ZKTypeOK' /\ nextSeq' = nextSeq
    BY <1>15, RemoveType DEF TimeOut
  <2>2. QED
    BY <1>15, <2>1 DEF TimeOut, local
<1>16. CASE UNCHANGED vars
  BY <1>16, <1>a DEF vars, local
<1>17. QED
  BY <1>1, <1>2, <1>3, <1>4, <1>5, <1>6, <1>7, <1>8, <1>9, <1>10, <1>11,
     <1>12, <1>13, <1>14, <1>15, <1>16 DEF Next, Step

LEMMA NodeStep == IInv /\ [Next]_vars => NodeInv'
<1> SUFFICES ASSUME IInv, [Next]_vars PROVE NodeInv'
  OBVIOUS
<1> USE DEF IInv, TypeOK, ZKTypeOK, NodeInv, Goto, None, Enrolled, Up, Labels
<1>1. ASSUME NEW p \in Client, Start(p) PROVE NodeInv'
  BY <1>1 DEF Start, Disconnect
<1>2. ASSUME NEW p \in Client, FindRoot(p) PROVE NodeInv'
  BY <1>2 DEF FindRoot, service
<1>3. ASSUME NEW p \in Client, CreateRoot(p) PROVE NodeInv'
  BY <1>3 DEF CreateRoot, MakeRoot
<1>4. ASSUME NEW p \in Client, LoseRootRace(p) PROVE NodeInv'
  BY <1>4 DEF LoseRootRace, Halt, service
<1>5. ASSUME NEW p \in Client, Enroll(p) PROVE NodeInv'
  BY <1>5 DEF Enroll, MakeChild
<1>6. ASSUME NEW p \in Client, List(p) PROVE NodeInv'
  BY <1>6 DEF List, service
<1>7. ASSUME NEW p \in Client, BecomeLeader(p) PROVE NodeInv'
  BY <1>7 DEF BecomeLeader, service
<1>8. ASSUME NEW p \in Client, ChooseWatch(p) PROVE NodeInv'
  BY <1>8 DEF ChooseWatch, service
<1>9. ASSUME NEW p \in Client, Watch(p) PROVE NodeInv'
  BY <1>9 DEF Watch, SetWatch
<1>10. ASSUME NEW p \in Client, OnEvent(p) PROVE NodeInv'
  BY <1>10 DEF OnEvent, Consume
<1>11. ASSUME NEW p \in Client, CallFails(p) PROVE NodeInv'
  <2>1. Calling(p) /\ UNCHANGED service
    BY <1>11 DEF CallFails
  <2>2. CASE Halt(p)
    BY <2>1, <2>2 DEF Halt, service
  <2>3. CASE thread[p] = "event" /\ Goto(p, "deaf")
             /\ UNCHANGED <<session, node, watched, view, thread>>
    BY <2>1, <2>3 DEF Calling, service
  <2>4. QED
    BY <1>11, <2>2, <2>3 DEF CallFails, Fail
<1>12. ASSUME NEW p \in Client, ReplyLost(p) PROVE NodeInv'
  BY <1>12 DEF ReplyLost, Halt, MakeRoot, MakeChild
<1>13. ASSUME NEW p \in Client, Crash(p) PROVE NodeInv'
  BY <1>13 DEF Crash, Halt, service
<1>14. ASSUME NEW p \in Client, Expire(p) PROVE NodeInv'
  BY <1>14 DEF Expire, Remove
<1>15. ASSUME NEW k \in children, TimeOut(k) PROVE NodeInv'
  BY <1>15 DEF TimeOut, Remove, local
<1>16. CASE UNCHANGED vars
  BY <1>16 DEF vars, service, local
<1>17. QED
  BY <1>1, <1>2, <1>3, <1>4, <1>5, <1>6, <1>7, <1>8, <1>9, <1>10, <1>11,
     <1>12, <1>13, <1>14, <1>15, <1>16 DEF Next, Step

LEMMA ViewStep == IInv /\ [Next]_vars => ViewInv'
<1> SUFFICES ASSUME IInv, [Next]_vars PROVE ViewInv'
  OBVIOUS
<1> USE DEF IInv, TypeOK, ZKTypeOK, NodeInv, ViewInv, Goto, None, Enrolled, Up
<1>1. ASSUME NEW p \in Client, Start(p) PROVE ViewInv'
  BY <1>1 DEF Start, Disconnect
<1>2. ASSUME NEW p \in Client, FindRoot(p) PROVE ViewInv'
  BY <1>2 DEF FindRoot, service
<1>3. ASSUME NEW p \in Client, CreateRoot(p) PROVE ViewInv'
  BY <1>3 DEF CreateRoot, MakeRoot
<1>4. ASSUME NEW p \in Client, LoseRootRace(p) PROVE ViewInv'
  BY <1>4 DEF LoseRootRace, Halt, service
<1>5. ASSUME NEW p \in Client, Enroll(p) PROVE ViewInv'
  BY <1>5 DEF Enroll, MakeChild
<1>6. ASSUME NEW p \in Client, List(p) PROVE ViewInv'
  BY <1>6 DEF List, service
<1>7. ASSUME NEW p \in Client, BecomeLeader(p) PROVE ViewInv'
  BY <1>7 DEF BecomeLeader, service
<1>8. ASSUME NEW p \in Client, ChooseWatch(p) PROVE ViewInv'
  BY <1>8 DEF ChooseWatch, service
<1>9. ASSUME NEW p \in Client, Watch(p) PROVE ViewInv'
  BY <1>9 DEF Watch, SetWatch
<1>10. ASSUME NEW p \in Client, OnEvent(p) PROVE ViewInv'
  BY <1>10 DEF OnEvent, Consume
<1>11. ASSUME NEW p \in Client, CallFails(p) PROVE ViewInv'
  BY <1>11 DEF CallFails, Calling, Fail, Halt, service
<1>12. ASSUME NEW p \in Client, ReplyLost(p) PROVE ViewInv'
  <2>1. Halt(p) /\ session[p]
    BY <1>12 DEF ReplyLost
  <2>2. children' \subseteq children \cup {nextSeq}
    BY <1>12 DEF ReplyLost, MakeRoot, MakeChild
  <2>3. QED
    BY <2>1, <2>2 DEF Halt
<1>13. ASSUME NEW p \in Client, Crash(p) PROVE ViewInv'
  BY <1>13 DEF Crash, Halt, service
<1>14. ASSUME NEW p \in Client, Expire(p) PROVE ViewInv'
  BY <1>14 DEF Expire, Remove
<1>15. ASSUME NEW k \in children, TimeOut(k) PROVE ViewInv'
  BY <1>15 DEF TimeOut, Remove, local
<1>16. CASE UNCHANGED vars
  BY <1>16 DEF vars, service, local
<1>17. QED
  BY <1>1, <1>2, <1>3, <1>4, <1>5, <1>6, <1>7, <1>8, <1>9, <1>10, <1>11,
     <1>12, <1>13, <1>14, <1>15, <1>16 DEF Next, Step

LEMMA LeaderStep == IInv /\ [Next]_vars => LeaderInv'
<1> SUFFICES ASSUME IInv, [Next]_vars PROVE LeaderInv'
  OBVIOUS
<1> USE DEF IInv, TypeOK, ZKTypeOK, NodeInv, ViewInv, LeaderInv, Goto, None, Enrolled, Up, Leads
<1>1. ASSUME NEW p \in Client, Start(p) PROVE LeaderInv'
  BY <1>1 DEF Start, Disconnect
<1>2. ASSUME NEW p \in Client, FindRoot(p) PROVE LeaderInv'
  BY <1>2 DEF FindRoot, service
<1>3. ASSUME NEW p \in Client, CreateRoot(p) PROVE LeaderInv'
  BY <1>3 DEF CreateRoot, MakeRoot
<1>4. ASSUME NEW p \in Client, LoseRootRace(p) PROVE LeaderInv'
  BY <1>4 DEF LoseRootRace, Halt, service
<1>5. ASSUME NEW p \in Client, Enroll(p) PROVE LeaderInv'
  BY <1>5 DEF Enroll, MakeChild
<1>6. ASSUME NEW p \in Client, List(p) PROVE LeaderInv'
  BY <1>6 DEF List, service
<1>7. ASSUME NEW p \in Client, BecomeLeader(p) PROVE LeaderInv'
  BY <1>7 DEF BecomeLeader, service
<1>8. ASSUME NEW p \in Client, ChooseWatch(p) PROVE LeaderInv'
  BY <1>8 DEF ChooseWatch, service
<1>9. ASSUME NEW p \in Client, Watch(p) PROVE LeaderInv'
  BY <1>9 DEF Watch, SetWatch
<1>10. ASSUME NEW p \in Client, OnEvent(p) PROVE LeaderInv'
  BY <1>10 DEF OnEvent, Consume
<1>11. ASSUME NEW p \in Client, CallFails(p) PROVE LeaderInv'
  BY <1>11 DEF CallFails, Calling, Fail, Halt, service
<1>12. ASSUME NEW p \in Client, ReplyLost(p) PROVE LeaderInv'
  <2>1. Halt(p) /\ session[p]
    BY <1>12 DEF ReplyLost
  <2>2. children' \subseteq children \cup {nextSeq}
    BY <1>12 DEF ReplyLost, MakeRoot, MakeChild
  <2>3. QED
    BY <2>1, <2>2 DEF Halt
<1>13. ASSUME NEW p \in Client, Crash(p) PROVE LeaderInv'
  BY <1>13 DEF Crash, Halt, service
<1>14. ASSUME NEW p \in Client, Expire(p) PROVE LeaderInv'
  BY <1>14 DEF Expire, Remove
<1>15. ASSUME NEW k \in children, TimeOut(k) PROVE LeaderInv'
  BY <1>15 DEF TimeOut, Remove, local
<1>16. CASE UNCHANGED vars
  BY <1>16 DEF vars, service, local
<1>17. QED
  BY <1>1, <1>2, <1>3, <1>4, <1>5, <1>6, <1>7, <1>8, <1>9, <1>10, <1>11,
     <1>12, <1>13, <1>14, <1>15, <1>16 DEF Next, Step

-----------------------------------------------------------------------------

\* The inductive invariant holds in every reachable state.
THEOREM Invariant == Spec => []IInv
<1>1. IInv /\ [Next]_vars => IInv'
  BY TypeStep, NodeStep, ViewStep, LeaderStep DEF IInv
<1>2. QED
  BY InitIInv, <1>1, PTL DEF Spec

\* Every variable of the model stays within its type.
THEOREM TypeCorrect == Spec => []TypeOK
<1>1. IInv => TypeOK
  BY DEF IInv
<1>2. QED
  BY Invariant, <1>1, PTL

\* Whatever processes crash, sessions expire and replies get lost, no two
\* processes with live sessions both believe they are the leader.
THEOREM AtMostOne == Spec => []AtMostOneLeader
<1>1. IInv => AtMostOneLeader
  <2> SUFFICES ASSUME IInv, NEW p \in Client, NEW q \in Client, Leads(p), Leads(q)
               PROVE  p = q
    BY DEF AtMostOneLeader
  <2> USE DEF IInv, TypeOK, ZKTypeOK, NodeInv, LeaderInv, Enrolled, Leads
  <2>1. node[p] \in children /\ node[q] \in children
    OBVIOUS
  <2>2. node[p] <= node[q] /\ node[q] <= node[p]
    BY <2>1
  <2>3. node[p] = node[q]
    BY <2>1, <2>2
  <2>4. QED
    BY <2>3
<1>2. QED
  BY Invariant, <1>1, PTL

\* A live leader holds the oldest znode there is.
THEOREM OldestLeads == Spec => []LeaderIsOldest
<1>1. IInv => LeaderIsOldest
  BY DEF IInv, NodeInv, LeaderInv, Leads, Enrolled, LeaderIsOldest, Oldest
<1>2. QED
  BY Invariant, <1>1, PTL

\* A process always finds itself in the list it decides from.
THEOREM FindsItself == Spec => []OwnNodeListed
<1>1. IInv => OwnNodeListed
  BY DEF IInv, ViewInv, OwnNodeListed
<1>2. QED
  BY Invariant, <1>1, PTL

\* Nobody starts to lead except by deciding so.
LEMMA OnlyByDecision ==
  ASSUME IInv, [Next]_vars, NEW p \in Client, ~ Leads(p), Leads(p)'
  PROVE  BecomeLeader(p) /\ session[p] /\ UNCHANGED <<service, session, node>>
<1> USE DEF IInv, TypeOK, NodeInv, Leads, Up, Goto
<1>1. ASSUME NEW q \in Client, Step(q), ~ BecomeLeader(p) PROVE FALSE
  BY <1>1 DEF Step, FindRoot, CreateRoot, LoseRootRace, Enroll, List,
     BecomeLeader, ChooseWatch, Watch, OnEvent, CallFails, ReplyLost, Fail, Halt
<1>2. ASSUME NEW q \in Client, Start(q) \/ Crash(q) \/ Expire(q) PROVE FALSE
  BY <1>2 DEF Start, Crash, Expire, Halt
<1>3. ASSUME NEW k \in children, TimeOut(k) PROVE FALSE
  BY <1>3 DEF TimeOut, local
<1>4. CASE UNCHANGED vars
  BY <1>4 DEF vars, local
<1>5. BecomeLeader(p)
  BY <1>1, <1>2, <1>3, <1>4 DEF Next
<1>6. QED
  BY <1>5 DEF BecomeLeader

\* A process starts to lead with a live session only when its znode is the
\* oldest at that moment, although it decides from an earlier list.
THEOREM InOrder == Spec => ElectedInOrder
<1>1. IInv /\ [Next]_vars
      => [\A p \in Client : ~ Leads(p) /\ Leads(p)' => Oldest(node[p])]_vars
  <2> SUFFICES ASSUME IInv, [Next]_vars, NEW p \in Client, ~ Leads(p), Leads(p)'
               PROVE  Oldest(node[p])
    OBVIOUS
  <2>1. BecomeLeader(p) /\ session[p]
    BY OnlyByDecision
  <2>2. QED
    BY <2>1 DEF IInv, TypeOK, ZKTypeOK, NodeInv, ViewInv, Enrolled,
                BecomeLeader, Oldest
<1>2. QED
  BY Invariant, <1>1, PTL DEF Spec, ElectedInOrder

-----------------------------------------------------------------------------

(* Refinement of Election.                                                 *)

Spent == \E k \in children : Oldest(k) /\ \A p \in Client : node[p] # k
Leading == {p \in Client : Leads(p)}

\* The token is the least of the children and of the number to come.
TokenFact ==
  /\ token \in children \cup {nextSeq}
  /\ \A j \in children \cup {nextSeq} : token <= j
  /\ token \in Nat /\ nextSeq \in Nat
  /\ \A k \in children : k \in Nat /\ 0 < k /\ k < nextSeq

\* A spent token is one whose znode has no owner; a leader owns its znode.
SpentFact ==
  /\ Spent <=> (token \in children /\ \A p \in Client : node[p] # token)
  /\ \A p \in Client : Leads(p) => node[p] = token /\ token \in children
  /\ \A p \in Client : node[p] # None => node[p] < nextSeq

LEMMA TokenIsLeast == TypeOK => TokenFact
<1> SUFFICES ASSUME TypeOK PROVE TokenFact
  OBVIOUS
<1>1. children \cup {nextSeq} \subseteq Nat
  BY DEF TypeOK, ZKTypeOK
<1>2. \E m \in children \cup {nextSeq} : \A k \in children \cup {nextSeq} : m <= k
  BY <1>1, Least
<1>3. \A k \in children : k \in Nat /\ 0 < k /\ k < nextSeq
  BY DEF TypeOK, ZKTypeOK
<1>4. /\ token \in children \cup {nextSeq}
      /\ \A j \in children \cup {nextSeq} : token <= j
  BY <1>2 DEF token
<1>5. QED
  BY <1>1, <1>3, <1>4 DEF TokenFact

LEMMA SpentIsOrphan == IInv => SpentFact
<1> SUFFICES ASSUME IInv PROVE SpentFact
  OBVIOUS
<1>1. TokenFact
  BY TokenIsLeast DEF IInv
<1>2. Spent <=> (token \in children /\ \A p \in Client : node[p] # token)
  BY <1>1 DEF Spent, Oldest, TokenFact
<1>3. ASSUME NEW p \in Client, Leads(p) PROVE node[p] = token /\ token \in children
  <2>1. node[p] \in children /\ \A k \in children : node[p] <= k
    BY <1>3 DEF IInv, NodeInv, LeaderInv, Leads, Enrolled
  <2>2. token <= node[p] /\ node[p] < nextSeq /\ node[p] \in Nat
    BY <2>1, <1>1 DEF TokenFact
  <2>3. token \in children
    BY <2>2, <1>1 DEF TokenFact
  <2>4. node[p] <= token
    BY <2>1, <2>3
  <2>5. QED
    BY <2>2, <2>3, <2>4, <1>1 DEF TokenFact
<1>4. \A p \in Client : node[p] # None => node[p] < nextSeq
  BY DEF IInv, TypeOK, ZKTypeOK, None
<1>5. QED
  BY <1>2, <1>3, <1>4 DEF SpentFact

\* What a step may do to the children and to the processes' znodes.
Changes ==
  /\ children' \subseteq children \cup {nextSeq}
  /\ nextSeq' = nextSeq \/ (nextSeq' = nextSeq + 1 /\ nextSeq \in children')
  /\ \A p \in Client : node'[p] = node[p] \/ node'[p] = None
                        \/ (node[p] = None /\ node'[p] = nextSeq)
  /\ \A p \in Client : Leads(p) =>
       Leads(p)' \/ node'[p] = None \/ node[p] \notin children'

LEMMA StepChanges == IInv /\ [Next]_vars => Changes
<1> SUFFICES ASSUME IInv, [Next]_vars PROVE Changes
  OBVIOUS
<1> USE DEF IInv, TypeOK, ZKTypeOK, Changes, Leads, Goto, None
<1>1. ASSUME NEW p \in Client, Start(p) PROVE Changes
  BY <1>1 DEF Start, Disconnect
<1>2. ASSUME NEW p \in Client, FindRoot(p) PROVE Changes
  BY <1>2 DEF FindRoot, service
<1>3. ASSUME NEW p \in Client, CreateRoot(p) PROVE Changes
  BY <1>3 DEF CreateRoot, MakeRoot
<1>4. ASSUME NEW p \in Client, LoseRootRace(p) PROVE Changes
  BY <1>4 DEF LoseRootRace, Halt, service
<1>5. ASSUME NEW p \in Client, Enroll(p) PROVE Changes
  BY <1>5 DEF Enroll, MakeChild, NodeInv, Enrolled
<1>6. ASSUME NEW p \in Client, List(p) PROVE Changes
  BY <1>6 DEF List, service
<1>7. ASSUME NEW p \in Client, BecomeLeader(p) PROVE Changes
  BY <1>7 DEF BecomeLeader, service
<1>8. ASSUME NEW p \in Client, ChooseWatch(p) PROVE Changes
  BY <1>8 DEF ChooseWatch, service
<1>9. ASSUME NEW p \in Client, Watch(p) PROVE Changes
  BY <1>9 DEF Watch, SetWatch
<1>10. ASSUME NEW p \in Client, OnEvent(p) PROVE Changes
  BY <1>10 DEF OnEvent, Consume
<1>11. ASSUME NEW p \in Client, CallFails(p) PROVE Changes
  BY <1>11 DEF CallFails, Calling, Fail, Halt, service
<1>12. ASSUME NEW p \in Client, ReplyLost(p) PROVE Changes
  BY <1>12 DEF ReplyLost, Halt, MakeRoot, MakeChild
<1>13. ASSUME NEW p \in Client, Crash(p) PROVE Changes
  BY <1>13 DEF Crash, Halt, service
<1>14. ASSUME NEW p \in Client, Expire(p) PROVE Changes
  BY <1>14 DEF Expire, Remove
<1>15. ASSUME NEW k \in children, TimeOut(k) PROVE Changes
  BY <1>15 DEF TimeOut, Remove, local
<1>16. CASE UNCHANGED vars
  BY <1>16 DEF vars, service, local
<1>17. QED
  BY <1>1, <1>2, <1>3, <1>4, <1>5, <1>6, <1>7, <1>8, <1>9, <1>10, <1>11,
     <1>12, <1>13, <1>14, <1>15, <1>16 DEF Next, Step

\* Every step of LeaderElection elects, abandons or advances, or leaves the
\* leader and the token alone.
LEMMA RefinesStep ==
  ASSUME IInv, TypeOK', TokenFact, TokenFact', SpentFact, SpentFact', [Next]_vars
  PROVE  \/ \E p \in Client :
              /\ Leading = {} /\ ~ Spent
              /\ Leading' = {p} /\ token' = token /\ Spent' = Spent
         \/ Leading' = {} /\ Spent' = TRUE /\ token' = token
         \/ Leading' = {} /\ token' \in Nat /\ token' > token /\ Spent' \in BOOLEAN
         \/ Leading' = Leading /\ token' = token /\ Spent' = Spent
<1> USE DEF TokenFact
<1>0. Changes
  BY StepChanges
<1>1. token' \in Nat /\ token \in Nat /\ token <= token'
  BY <1>0 DEF Changes
<1>2. CASE token' > token
  <2>1. ASSUME NEW p \in Client, Leads(p)' PROVE FALSE
    <3>1. CASE Leads(p)
      BY <1>0, <1>1, <1>2, <2>1, <3>1 DEF SpentFact, Changes, None
    <3>2. CASE ~ Leads(p)
      <4>1. UNCHANGED <<children, nextSeq>>
        BY <2>1, <3>2, OnlyByDecision DEF service
      <4>2. QED
        BY <1>1, <1>2, <4>1 DEF token
    <3>3. QED
      BY <3>1, <3>2
  <2>2. Leading' = {}
    BY <2>1 DEF Leading
  <2>3. Spent' \in BOOLEAN
    BY DEF Spent
  <2>4. QED
    BY <1>1, <1>2, <2>2, <2>3
<1>3. CASE token' = token /\ Spent'
  <2>1. Leading' = {}
    BY <1>3 DEF SpentFact, Leading
  <2>2. QED
    BY <1>3, <2>1
<1>4. CASE token' = token /\ ~ Spent'
  <2>1. ~ Spent
    <3> SUFFICES ASSUME Spent PROVE FALSE
      OBVIOUS
    <3>1. token \in children /\ \A p \in Client : node[p] # token
      BY DEF SpentFact
    <3>2. token < nextSeq /\ token # None
      BY <3>1 DEF IInv, TypeOK, ZKTypeOK, None
    <3>3. \A p \in Client : node'[p] # token
      BY <1>0, <3>1, <3>2 DEF Changes
    <3>4. token' \in children'
      BY <1>0, <1>4, <3>2 DEF Changes
    <3>5. QED
      BY <1>4, <3>3, <3>4 DEF SpentFact
  <2>2. Spent' = Spent
    BY <1>4, <2>1 DEF Spent
  <2>3. CASE \E p \in Client : ~ Leads(p) /\ Leads(p)'
    <3>1. PICK p \in Client : ~ Leads(p) /\ Leads(p)'
      BY <2>3
    <3>2. BecomeLeader(p) /\ UNCHANGED <<service, session, node>>
      BY <3>1, OnlyByDecision
    <3>3. node[p] = token
      BY <1>4, <3>1, <3>2 DEF SpentFact
    <3>4. ASSUME NEW q \in Client, Leads(q) PROVE FALSE
      <4>1. node[q] = token /\ q # p
        BY <3>1, <3>4 DEF SpentFact
      <4>2. QED
        BY <3>3, <3>4, <4>1 DEF IInv, NodeInv, Leads, Enrolled
    <3>5. ASSUME NEW q \in Client, Leads(q)' PROVE q = p
      <4>1. pc' = [pc EXCEPT ![p] = "leader"]
        BY <3>2 DEF BecomeLeader, Goto
      <4>2. q # p => Leads(q)
        BY <3>2, <3>5, <4>1 DEF Leads, IInv, TypeOK
      <4>3. QED
        BY <3>4, <4>2
    <3>6. Leading = {} /\ Leading' = {p}
      BY <3>1, <3>4, <3>5 DEF Leading
    <3>7. QED
      BY <1>4, <2>1, <2>2, <3>6
  <2>4. CASE ~ \E p \in Client : ~ Leads(p) /\ Leads(p)'
    <3>1. ASSUME NEW p \in Client, Leads(p), ~ Leads(p)' PROVE FALSE
      <4>1. node[p] = token /\ token \in children /\ token < nextSeq /\ token # None
        BY <3>1 DEF SpentFact, IInv, TypeOK, ZKTypeOK, None
      <4>2. token \in children'
        BY <1>0, <1>4, <4>1 DEF Changes
      <4>3. PICK q \in Client : node'[q] = token
        BY <1>4, <4>2 DEF SpentFact
      <4>4. node[q] = token
        BY <1>0, <4>1, <4>3 DEF Changes
      <4>5. q = p
        BY <3>1, <4>1, <4>4 DEF IInv, NodeInv, Leads, Enrolled
      <4>6. QED
        BY <1>0, <3>1, <4>1, <4>2, <4>3, <4>5 DEF Changes
    <3>2. Leading' = Leading
      BY <2>4, <3>1 DEF Leading
    <3>3. QED
      BY <1>4, <2>2, <3>2
  <2>5. QED
    BY <2>3, <2>4
<1>5. token' > token \/ token' = token
  BY <1>1
<1>6. QED
  BY <1>2, <1>3, <1>4, <1>5

\* ProcessNode implements the abstract election: there is one leader at a time
\* and the tokens of successive leaders grow.
THEOREM ImplementsElection == Spec => ElectionSpec
<1>1. Init => Elections!Init
  <2> SUFFICES ASSUME Init PROVE Elections!Init
    OBVIOUS
  <2>1. token \in Nat
    BY InitIInv, TokenIsLeast DEF IInv, TokenFact
  <2>2. QED
    BY <2>1 DEF Init, ZKInit, Elections!Init, Leads
<1>2. IInv /\ IInv' /\ TokenFact /\ TokenFact' /\ SpentFact /\ SpentFact' /\ [Next]_vars
      => [Elections!Next]_<<Leading, token, Spent>>
  BY RefinesStep DEF IInv, Elections!Next, Elections!Elect, Elections!Abandon,
     Elections!Advance, Leading, Spent
<1>3. IInv => TokenFact /\ SpentFact
  BY TokenIsLeast, SpentIsOrphan DEF IInv
<1>4. QED
  BY Invariant, <1>1, <1>2, <1>3, PTL DEF Spec, ElectionSpec, Elections!Spec, Leading, Spent
=============================================================================
