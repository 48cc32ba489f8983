-------------------------------- MODULE YarnApp --------------------------------
(***************************************************************************)
(* The YARN application of yarn/myapp: Client submits it and polls for its *)
(* state, AppMaster asks for N containers, starts them and waits until     *)
(* that many have completed.                                               *)
(*                                                                         *)
(* AppMaster runs on three threads: main (pc), the heartbeat thread of     *)
(* AMRMClientAsync, which sends asks and collects responses (Heartbeat),   *)
(* and the callback thread (Launch, Count).  Containers differ in nothing  *)
(* the code looks at, so the model counts them, by where they are.         *)
(* Responses are merged: the callbacks only loop over their lists, and any *)
(* interleaving of the two loops is allowed.                               *)
(*                                                                         *)
(* pc is where main is:                                                    *)
(*   off         no AppMaster process                                      *)
(*   register    has started its clients, about to register                *)
(*   request     in the loop of addContainerRequest                        *)
(*   poll        in the loop of containersFinished() and sleep             *)
(*   unregister  has seen containerCount = 0                               *)
(***************************************************************************)
EXTENDS Integers

CONSTANTS
  N,            \* the initial containerCount (3)
  MaxAttempts,  \* the resource manager's limit on attempts
  Faults        \* what may go wrong: "am", "launch", "client", "kill"

ASSUME NAssumption == N \in Nat \ {0}
ASSUME AttemptsAssumption == MaxAttempts \in Nat \ {0}
ASSUME FaultsAssumption == Faults \subseteq {"am", "launch", "client", "kill"}

VARIABLES
  clientPc,       \* "submit", "poll", "returned", or "gone" by an exception
  report,         \* the state the client printed, or "none"
  appState,       \* the application at the resource manager
  attempts,       \* attempts so far
  pc,
  containerCount, \* the field: containers still to complete
  requested,      \* i of the loop: calls of addContainerRequest
  unsent,         \* the number asked for has changed since the last heartbeat
  pending,        \* asked for, not allocated yet, at the resource manager
  granted,        \* allocated, not yet in a response
  delivered,      \* in a response, not yet handled by onContainersAllocated
  running,        \* started
  idle,           \* startContainer failed: the manager will expire it
  ended,          \* completed, not yet in a response
  reported,       \* in a response, not yet handled by onContainersCompleted
  allocated,      \* the manager's books: allocations of this attempt ...
  completed       \* ... and completions

client == <<clientPc, report>>
app == <<appState, attempts>>
asks == <<requested, unsent, pending>>
places == <<granted, delivered, running, idle, ended, reported>>
books == <<allocated, completed>>
vars == <<client, app, pc, containerCount, asks, places, books>>

Final == {"FINISHED", "KILLED", "FAILED"}

TypeOK ==
  /\ clientPc \in {"submit", "poll", "returned", "gone"}
  /\ report \in Final \cup {"none"}
  /\ appState \in Final \cup {"none", "ACCEPTED", "RUNNING"}
  /\ attempts \in 0 .. MaxAttempts
  /\ pc \in {"off", "register", "request", "poll", "unregister"}
  /\ containerCount \in Int /\ containerCount <= N
  /\ requested \in 0 .. N /\ unsent \in BOOLEAN /\ pending \in 0 .. N
  /\ granted \in Nat /\ delivered \in Nat /\ running \in Nat
  /\ idle \in Nat /\ ended \in Nat /\ reported \in Nat
  /\ allocated \in Nat /\ completed \in Nat

Init ==
  /\ clientPc = "submit" /\ report = "none"
  /\ appState = "none" /\ attempts = 0
  /\ pc = "off" /\ containerCount = N
  /\ requested = 0 /\ unsent = FALSE /\ pending = 0
  /\ granted = 0 /\ delivered = 0 /\ running = 0 /\ idle = 0
  /\ ended = 0 /\ reported = 0
  /\ allocated = 0 /\ completed = 0

-----------------------------------------------------------------------------
(* Client.run().                                                           *)

Submit ==
  /\ clientPc = "submit"
  /\ clientPc' = "poll"
  /\ appState' = "ACCEPTED"
  /\ UNCHANGED <<report, attempts, pc, containerCount, asks, places, books>>

Poll_NotFailed ==   \* slip: the loop's condition forgets FAILED
  /\ clientPc = "poll" /\ appState \in {"FINISHED", "KILLED"}
  /\ clientPc' = "returned"
  /\ report' = appState
  /\ UNCHANGED <<app, pc, containerCount, asks, places, books>>

\* getApplicationReport, in a state that ends the loop.
Poll ==
  /\ clientPc = "poll" /\ appState \in Final
  /\ clientPc' = "returned"
  /\ report' = appState
  /\ UNCHANGED <<app, pc, containerCount, asks, places, books>>

\* A call throws, perhaps after the application was accepted: main prints the
\* exception and ends, and the application goes on without it.
ClientFails ==
  /\ "client" \in Faults /\ clientPc \in {"submit", "poll"}
  /\ clientPc' = "gone"
  /\ \/ UNCHANGED appState
     \/ clientPc = "submit" /\ appState' = "ACCEPTED"
  /\ UNCHANGED <<report, attempts, pc, containerCount, asks, places, books>>

-----------------------------------------------------------------------------
(* AppMaster's main thread.                                                *)

\* The resource manager starts an attempt; what a former one had is gone.
StartAttempt ==
  /\ appState = "ACCEPTED" /\ pc = "off"
  /\ pc' = "register"
  /\ attempts' = attempts + 1
  /\ containerCount' = N
  /\ requested' = 0 /\ unsent' = FALSE /\ pending' = 0
  /\ granted' = 0 /\ delivered' = 0 /\ running' = 0 /\ idle' = 0
  /\ ended' = 0 /\ reported' = 0
  /\ allocated' = 0 /\ completed' = 0
  /\ UNCHANGED <<client, appState>>

Register ==
  /\ pc = "register"
  /\ pc' = "request"
  /\ appState' = "RUNNING"
  /\ UNCHANGED <<client, attempts, containerCount, asks, places, books>>

RequestOne_OffByOne ==   \* slip: i <= containerCount
  /\ pc = "request" /\ requested <= containerCount
  /\ requested' = requested + 1
  /\ unsent' = TRUE
  /\ UNCHANGED <<client, app, pc, containerCount, pending, places, books>>

\* The loop's condition reads containerCount each time, without the lock that
\* onContainersCompleted takes.
RequestOne ==
  /\ pc = "request" /\ requested < containerCount
  /\ requested' = requested + 1
  /\ unsent' = TRUE
  /\ UNCHANGED <<client, app, pc, containerCount, pending, places, books>>

EndRequests ==
  /\ pc = "request" /\ requested >= containerCount
  /\ pc' = "poll"
  /\ UNCHANGED <<client, app, containerCount, asks, places, books>>

SeeFinished_LastOne ==   \* slip: containerCount <= 1
  /\ pc = "poll" /\ containerCount <= 1
  /\ pc' = "unregister"
  /\ UNCHANGED <<client, app, containerCount, asks, places, books>>

\* containersFinished(): read every 100 ms, so values in between are missed.
SeeFinished ==
  /\ pc = "poll" /\ containerCount = 0
  /\ pc' = "unregister"
  /\ UNCHANGED <<client, app, containerCount, asks, places, books>>

Unregister ==
  /\ pc = "unregister"
  /\ pc' = "off"
  /\ appState' = "FINISHED"
  /\ UNCHANGED <<client, attempts, containerCount, asks, places, books>>

-----------------------------------------------------------------------------
(* AppMaster's other threads.                                              *)

Registered == pc \in {"request", "poll", "unregister"}

\* allocate(): the ask is the number of all requests made, not of the new ones,
\* and nothing ever takes requests back that were served.
Heartbeat ==
  /\ Registered
  /\ pending' = IF unsent THEN requested ELSE pending
  /\ unsent' = FALSE
  /\ delivered' = delivered + granted
  /\ granted' = 0
  /\ reported' = reported + ended
  /\ ended' = 0
  /\ UNCHANGED <<client, app, pc, containerCount, requested, running, idle, books>>

Launch_CountFailed ==   \* slip: counts a failed start as a completion at once
  /\ Registered /\ delivered > 0
  /\ delivered' = delivered - 1
  /\ \/ running' = running + 1 /\ UNCHANGED <<idle, containerCount>>
     \/ /\ "launch" \in Faults
        /\ idle' = idle + 1
        /\ containerCount' = containerCount - 1
        /\ UNCHANGED running
  /\ UNCHANGED <<client, app, pc, asks, granted, ended, reported, books>>

\* onContainersAllocated, one container: an exception is printed, no more.
Launch ==
  /\ Registered /\ delivered > 0
  /\ delivered' = delivered - 1
  /\ \/ running' = running + 1 /\ UNCHANGED idle
     \/ "launch" \in Faults /\ idle' = idle + 1 /\ UNCHANGED running
  /\ UNCHANGED <<client, app, pc, containerCount, asks, granted, ended, reported, books>>

Count_PerCallback ==   \* slip: counts once for the whole list
  /\ Registered /\ reported > 0
  /\ reported' = 0
  /\ containerCount' = containerCount - 1
  /\ UNCHANGED <<client, app, pc, asks, granted, delivered, running, idle, ended, books>>

\* onContainersCompleted, one status, whatever it says.
Count ==
  /\ Registered /\ reported > 0
  /\ reported' = reported - 1
  /\ containerCount' = containerCount - 1
  /\ UNCHANGED <<client, app, pc, asks, granted, delivered, running, idle, ended, books>>

-----------------------------------------------------------------------------
(* The resource manager and the node managers.                             *)

Allocate ==
  /\ Registered /\ pending > 0
  /\ pending' = pending - 1
  /\ granted' = granted + 1
  /\ allocated' = allocated + 1
  /\ UNCHANGED <<client, app, pc, containerCount, requested, unsent, delivered,
                 running, idle, ended, reported, completed>>

\* A container exits, its node is lost, or it was never started and expires.
Complete ==
  /\ Registered
  /\ \/ running > 0 /\ running' = running - 1 /\ UNCHANGED idle
     \/ idle > 0 /\ idle' = idle - 1 /\ UNCHANGED running
  /\ ended' = ended + 1
  /\ completed' = completed + 1
  /\ UNCHANGED <<client, app, pc, containerCount, asks, granted, delivered,
                 reported, allocated>>

\* The AppMaster process ends without having unregistered: a crash, a call of
\* main that throws, a heartbeat that failed (onError and onShutdownRequest do
\* nothing) until the manager gave the attempt up.
AttemptFails ==
  /\ "am" \in Faults /\ pc # "off"
  /\ pc' = "off"
  /\ appState' = IF attempts < MaxAttempts THEN "ACCEPTED" ELSE "FAILED"
  /\ UNCHANGED <<client, attempts, containerCount, asks, places, books>>

Kill ==
  /\ "kill" \in Faults /\ appState \in {"ACCEPTED", "RUNNING"}
  /\ pc' = "off"
  /\ appState' = "KILLED"
  /\ UNCHANGED <<client, attempts, containerCount, asks, places, books>>

-----------------------------------------------------------------------------
Progress ==
  \/ Submit \/ Poll
  \/ StartAttempt \/ Register \/ RequestOne \/ EndRequests \/ SeeFinished
  \/ Unregister
  \/ Heartbeat \/ Launch \/ Count \/ Allocate \/ Complete

Next == Progress \/ ClientFails \/ AttemptFails \/ Kill

Spec == Init /\ [][Next]_vars

\* Threads run, heartbeats go out, the cluster has room for every container,
\* and containers end.
Fairness ==
  /\ WF_vars(Submit) /\ WF_vars(Poll)
  /\ WF_vars(StartAttempt) /\ WF_vars(Register)
  /\ WF_vars(RequestOne) /\ WF_vars(EndRequests)
  /\ WF_vars(SeeFinished) /\ WF_vars(Unregister)
  /\ WF_vars(Heartbeat) /\ WF_vars(Launch) /\ WF_vars(Count)
  /\ WF_vars(Allocate) /\ WF_vars(Complete)

FairSpec == Spec /\ Fairness

-----------------------------------------------------------------------------
(* Properties.                                                             *)

\* Every completion the manager recorded is counted once by the AppMaster of
\* the same attempt, or on its way: a status handled twice or dropped would
\* end the wait too early or never.
EachCompletionCountedOnce ==
  pc # "off" => N - containerCount + reported + ended = completed

\* SUCCEEDED is reported only when N containers of this attempt have
\* completed, although the count is read without a lock and while containers
\* that were never asked for complete too.
SuccessMeansCompleted == appState = "FINISHED" => completed >= N

\* The ask repeats all former requests, so a heartbeat inside the request loop
\* makes the manager allocate again what it has allocated; this is how far the
\* books can run past N.
OverAllocationBounded == 2 * allocated <= N * (N + 1)

\* AppMaster waits for ever on a count that is not 0 with nothing under way.
Miscounted ==
  /\ pc = "poll" /\ containerCount # 0 /\ allocated # N
  /\ ~ unsent /\ pending = 0
  /\ granted + delivered + running + idle + ended + reported = 0

\* The client comes back, unless the manager allocated another number than N:
\* then the count may pass 0 between two looks, or not get there.
ClientReturns == clientPc = "poll" ~> (clientPc # "poll" \/ Miscounted)

Jobs ==
  INSTANCE Job WITH
    Needed <- N,
    done <- completed,
    outcome <- IF appState \in Final THEN appState ELSE "none",
    told <- report

\* The application implements the abstract job.
JobSpec == Jobs!Spec
=============================================================================
