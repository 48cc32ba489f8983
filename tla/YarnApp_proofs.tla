----------------------------- MODULE YarnApp_proofs -----------------------------
(***************************************************************************)
(* Theorems about YarnApp, for every N, every limit on attempts and every  *)
(* combination of faults.                                                  *)
(***************************************************************************)
EXTENDS YarnApp, TLAPS

USE NAssumption, AttemptsAssumption

(* The invariant.  EachCompletionCountedOnce ties the field to the manager's *)
(* books; AsksCover says how much the requests made so far let the manager   *)
(* allocate: heartbeats sent 1, 2, .., requested at the most, and the last   *)
(* of them is not sent while unsent holds.                                   *)
Triangle(n) == n * (n + 1)
Sent == IF unsent THEN requested - 1 ELSE requested
AsksCover ==
  /\ unsent => requested > 0
  /\ 2 * (allocated + pending) <= Triangle(Sent)
SeenFinished ==
  /\ pc = "unregister" => completed >= N
  /\ appState = "FINISHED" => completed >= N
WhereAttemptIs ==
  /\ pc # "off" => appState \in {"ACCEPTED", "RUNNING"}
  /\ pc = "off" /\ appState = "ACCEPTED" => attempts < MaxAttempts
  /\ appState = "none" => attempts = 0
  /\ clientPc = "submit" => appState = "none"
  /\ clientPc # "returned" => report = "none"
IInv ==
  /\ TypeOK
  /\ WhereAttemptIs
  /\ EachCompletionCountedOnce
  /\ SeenFinished
  /\ AsksCover

\* Triangle(n) is a number that grows with n ...
LEMMA TriangleGrows ==
  ASSUME NEW m \in Nat, NEW n \in Nat, m <= n
  PROVE  Triangle(m) \in Nat /\ Triangle(m) <= Triangle(n)
<1>1. PICK d \in Nat : n = m + d
  <2>1. n - m \in Nat /\ n = m + (n - m)
    OBVIOUS
  <2> QED BY <2>1
<1>2. n * (n + 1) = m * (m + 1) + (2 * (m * d) + d * d + d)
  BY <1>1
<1>3. m * d \in Nat /\ d * d \in Nat
  OBVIOUS
<1>4. m * (m + 1) \in Nat
  OBVIOUS
<1> QED BY <1>2, <1>3, <1>4 DEF Triangle

\* ... by 2 n in the step to n.
LEMMA TriangleStep ==
  ASSUME NEW n \in Nat \ {0}
  PROVE  Triangle(n - 1) + 2 * n = Triangle(n)
BY DEF Triangle

LEMMA TriangleZero == Triangle(0) = 0
BY DEF Triangle

LEMMA InitInv == Init => IInv
<1> SUFFICES ASSUME Init PROVE IInv
  OBVIOUS
<1>1. Sent = 0 /\ 2 * (allocated + pending) = 0
  BY DEF Init, Sent
<1>2. AsksCover
  BY <1>1, TriangleZero DEF Init, AsksCover
<1>3. unsent \in BOOLEAN
  BY Zenon DEF Init
<1> QED
  BY <1>2, <1>3 DEF Init, IInv, TypeOK, WhereAttemptIs, EachCompletionCountedOnce,
              SeenFinished, Final

\* Every step preserves the invariant.
LEMMA NextInv == IInv /\ [Next]_vars => IInv'
<1> SUFFICES ASSUME IInv, [Next]_vars
             PROVE  IInv'
  OBVIOUS
<1> USE DEF TypeOK, WhereAttemptIs, EachCompletionCountedOnce, SeenFinished, Final,
          client, app, asks, places, books
<1>1. CASE Submit
  BY <1>1 DEF IInv, Submit, AsksCover, Sent
<1>2. CASE Poll
  BY <1>2 DEF IInv, Poll, AsksCover, Sent
<1>3. CASE ClientFails
  BY <1>3 DEF IInv, ClientFails, AsksCover, Sent
<1>4. CASE StartAttempt
  <2>1. Sent' = 0 /\ (2 * (allocated + pending))' = 0 /\ ~ unsent'
    BY <1>4 DEF StartAttempt, Sent
  <2>2. AsksCover'
    BY <2>1, TriangleZero DEF AsksCover
  <2>3. unsent' \in BOOLEAN
    BY <1>4, Zenon DEF StartAttempt
  <2> QED BY <1>4, <2>2, <2>3 DEF IInv, StartAttempt
<1>5. CASE Register
  BY <1>5 DEF IInv, Register, AsksCover, Sent
<1>6. CASE RequestOne
  <2>1. unsent => /\ Triangle(requested - 1) \in Nat
                  /\ Triangle(requested - 1) <= Triangle(requested)
    <3>1. unsent => requested - 1 \in Nat /\ requested \in Nat /\ requested - 1 <= requested
      BY DEF IInv, AsksCover
    <3> QED BY <3>1, TriangleGrows
  <2>2. Triangle(requested) \in Nat
    BY TriangleGrows DEF IInv
  <2>3. requested' - 1 = requested
    BY <1>6 DEF IInv, RequestOne
  <2>4. AsksCover'
    BY <1>6, <2>1, <2>2, <2>3 DEF IInv, RequestOne, AsksCover, Sent
  <2> QED BY <1>6, <2>4 DEF IInv, RequestOne
<1>7. CASE EndRequests
  BY <1>7 DEF IInv, EndRequests, AsksCover, Sent
<1>8. CASE SeeFinished
  BY <1>8 DEF IInv, SeeFinished, AsksCover, Sent
<1>9. CASE Unregister
  BY <1>9 DEF IInv, Unregister, AsksCover, Sent
<1>10. CASE Heartbeat
  <2>1. AsksCover'
    <3>1. CASE ~ unsent
      BY <1>10, <3>1 DEF IInv, Heartbeat, AsksCover, Sent
    <3>2. CASE unsent
      <4>1. requested \in Nat \ {0} /\ requested - 1 \in Nat
        BY <3>2 DEF IInv, AsksCover, AsksCover, Sent
      <4>2. Triangle(requested - 1) + 2 * requested = Triangle(requested)
        BY <4>1, TriangleStep
      <4>3. Triangle(requested - 1) \in Nat
        BY <4>1, TriangleGrows
      <4>4. 2 * allocated <= Triangle(requested - 1)
        BY <3>2, <4>3 DEF IInv, AsksCover, Sent
      <4>5. 2 * (allocated + requested) <= Triangle(requested)
        BY <4>1, <4>2, <4>3, <4>4 DEF IInv
      <4>6. Sent' = requested /\ ~ unsent' /\ (allocated + pending)' = allocated + requested
        BY <1>10, <3>2 DEF Heartbeat, Sent
      <4> QED BY <4>5, <4>6 DEF AsksCover
    <3> QED BY <3>1, <3>2 DEF IInv
  <2>2. unsent' \in BOOLEAN
    BY <1>10, Zenon DEF Heartbeat
  <2> QED BY <1>10, <2>1, <2>2 DEF IInv, Heartbeat, Registered
<1>11. CASE Launch
  BY <1>11 DEF IInv, Launch, Registered, AsksCover, Sent
<1>12. CASE Count
  BY <1>12 DEF IInv, Count, Registered, AsksCover, Sent
<1>13. CASE Allocate
  BY <1>13 DEF IInv, Allocate, Registered, AsksCover, Sent
<1>14. CASE Complete
  BY <1>14 DEF IInv, Complete, Registered, AsksCover, Sent
<1>15. CASE AttemptFails
  BY <1>15 DEF IInv, AttemptFails, AsksCover, Sent
<1>16. CASE Kill
  BY <1>16 DEF IInv, Kill, AsksCover, Sent
<1>17. CASE UNCHANGED vars
  BY <1>17 DEF IInv, vars, AsksCover, Sent
<1> QED
  BY <1>1, <1>2, <1>3, <1>4, <1>5, <1>6, <1>7, <1>8, <1>9, <1>10, <1>11,
     <1>12, <1>13, <1>14, <1>15, <1>16, <1>17
  DEF Next, Progress

\* IInv holds in every state of every behaviour.
THEOREM Invariant == Spec => []IInv
<1> QED BY InitInv, NextInv, PTL DEF Spec

\* Every variable keeps its type: attempts stay below the limit, and only the
\* field counts below zero.
THEOREM TypeCorrect == Spec => []TypeOK
<1>1. IInv => TypeOK  BY DEF IInv
<1> QED BY <1>1, Invariant, PTL

\* The AppMaster's count and the manager's books never part.
THEOREM CountsAgree == Spec => []EachCompletionCountedOnce
<1>1. IInv => EachCompletionCountedOnce  BY DEF IInv
<1> QED BY <1>1, Invariant, PTL

\* A success that is reported stands for N completed containers.
THEOREM SuccessIsEarned == Spec => []SuccessMeansCompleted
<1>1. IInv => SuccessMeansCompleted  BY DEF IInv, SeenFinished, SuccessMeansCompleted
<1> QED BY <1>1, Invariant, PTL

\* However heartbeats fall into the request loop, the over-allocation is
\* bounded by 1 + 2 + .. + N.
THEOREM AllocationsAreBounded == Spec => []OverAllocationBounded
<1>1. IInv => OverAllocationBounded
  <2> SUFFICES ASSUME IInv PROVE OverAllocationBounded
    OBVIOUS
  <2>1. Sent \in Nat /\ Sent <= N /\ allocated \in Nat /\ pending \in Nat
    BY DEF IInv, TypeOK, AsksCover, Sent
  <2>2. Triangle(Sent) \in Nat /\ Triangle(Sent) <= Triangle(N)
    BY <2>1, TriangleGrows
  <2>3. 2 * (allocated + pending) <= Triangle(Sent)
    BY DEF IInv, AsksCover
  <2>4. Triangle(N) \in Nat
    BY TriangleGrows
  <2>5. 2 * allocated <= Triangle(N)
    BY <2>1, <2>2, <2>3, <2>4
  <2> QED BY <2>5 DEF Triangle, OverAllocationBounded
<1> QED BY <1>1, Invariant, PTL
-----------------------------------------------------------------------------
(* The application implements the job.                                     *)

USE DEF Jobs!vars, Jobs!Work, Jobs!Restart, Jobs!Succeed, Jobs!Abort, Jobs!Tell

LEMMA JobInit == Init => Jobs!Init
BY DEF Init, Jobs!Init, Final

LEMMA JobStep == IInv /\ [Next]_vars => [Jobs!Next]_(Jobs!vars)
<1> SUFFICES ASSUME IInv, [Next]_vars
             PROVE  [Jobs!Next]_(Jobs!vars)
  OBVIOUS
<1> USE DEF Jobs!Next, Final, client, app, asks, places, books
<1>1. CASE Submit
  BY <1>1 DEF Submit, IInv, WhereAttemptIs
<1>2. CASE Poll
  BY <1>2 DEF Poll, IInv, TypeOK, WhereAttemptIs
<1>3. CASE ClientFails
  BY <1>3 DEF ClientFails, IInv, WhereAttemptIs
<1>4. CASE StartAttempt
  BY <1>4 DEF StartAttempt
<1>5. CASE Register \/ Unregister \/ AttemptFails \/ Kill
  BY <1>5 DEF Register, Unregister, AttemptFails, Kill, IInv, WhereAttemptIs, SeenFinished
<1>6. CASE RequestOne \/ EndRequests \/ SeeFinished \/ Heartbeat \/ Launch \/ Count \/ Allocate
  BY <1>6 DEF RequestOne, EndRequests, SeeFinished, Heartbeat, Launch, Count, Allocate
<1>7. CASE Complete
  BY <1>7 DEF Complete, Registered, IInv, WhereAttemptIs
<1>8. CASE UNCHANGED vars
  BY <1>8 DEF vars
<1> QED
  BY <1>1, <1>2, <1>3, <1>4, <1>5, <1>6, <1>7, <1>8 DEF Next, Progress

\* For every N and whatever fails: the application is a job that succeeds only
\* with N pieces done and tells its submitter nothing but its outcome.
THEOREM ImplementsJob == Spec => JobSpec
<1> QED BY JobInit, JobStep, Invariant, PTL DEF Spec, JobSpec, Jobs!Spec
=============================================================================
