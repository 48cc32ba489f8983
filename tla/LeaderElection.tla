---------------------------- MODULE LeaderElection ----------------------------
(***************************************************************************)
(* ProcessNode, the leader election of zookeeper/leader, with the          *)
(* ZKManagerImpl calls it makes and LeaderElectionLauncher, which runs it. *)
(* Every process is a JVM with one ZooKeeper session; each call to the     *)
(* service is a step of its own, so processes, the service's session       *)
(* timeouts and the delivery of watch events interleave between any two.   *)
(*                                                                         *)
(* pc[p] is where the process is:                                          *)
(*   down       no JVM                                                     *)
(*   root       run(): about to ask for /election                          *)
(*   makeRoot   /election was missing: about to create it                  *)
(*   enroll     about to create its own ephemeral sequential znode         *)
(*   list       attemptForLeaderPosition(): about to list the children     *)
(*   decide     has the sorted list                                        *)
(*   watch      about to watch its predecessor                             *)
(*   follow     waits for the predecessor to go                            *)
(*   leader     has logged that it is the new leader                       *)
(*   deaf       an exception ended the attempt on the event thread         *)
(***************************************************************************)
EXTENDS ZooKeeper

\* Client: the processes, each with a ZooKeeper session.
CONSTANTS
  MaxStarts,  \* bound: how many times processes are started, all together
  Faults      \* what may go wrong: "crash", "expire", "connloss"

ASSUME FaultsAssumption == Faults \subseteq {"crash", "expire", "connloss"}

VARIABLES
  pc,
  session,  \* session[p]: p's session is alive at the service
  node,     \* node[p]: processNodePath, the number of p's own znode
  watched,  \* watched[p]: watchedNodePath
  view,     \* view[p]: the children p listed
  thread,   \* thread[p]: "main" in run(), "event" in a watch callback
  starts    \* how many starts so far

service == <<rootExists, children, nextSeq, watch, event>>
local == <<pc, session, node, watched, view, thread>>
vars == <<service, local, starts>>

Labels == {"down", "root", "makeRoot", "enroll", "list", "decide", "watch",
           "follow", "leader", "deaf"}

TypeOK ==
  /\ ZKTypeOK
  /\ pc \in [Client -> Labels]
  /\ session \in [Client -> BOOLEAN]
  /\ node \in [Client -> 0 .. nextSeq - 1]
  /\ watched \in [Client -> 0 .. nextSeq - 1]
  /\ view \in [Client -> SUBSET (1 .. nextSeq - 1)]
  /\ thread \in [Client -> {"main", "event"}]
  /\ starts \in Nat

Init ==
  /\ ZKInit
  /\ pc = [p \in Client |-> "down"]
  /\ session = [p \in Client |-> FALSE]
  /\ node = [p \in Client |-> None]
  /\ watched = [p \in Client |-> None]
  /\ view = [p \in Client |-> {}]
  /\ thread = [p \in Client |-> "main"]
  /\ starts = 0

Up(p) == pc[p] # "down"
Goto(p, label) == pc' = [pc EXCEPT ![p] = label]

\* The JVM ends.  Nothing closes the session, so the znode stays until the
\* service times the session out (TimeOut).
Halt(p) ==
  /\ Goto(p, "down")
  /\ session' = [session EXCEPT ![p] = FALSE]
  /\ node' = [node EXCEPT ![p] = None]
  /\ watched' = [watched EXCEPT ![p] = None]
  /\ view' = [view EXCEPT ![p] = {}]
  /\ thread' = [thread EXCEPT ![p] = "main"]

-----------------------------------------------------------------------------
(* The launcher, and run() on the executor's thread.                       *)

Start(p) ==
  /\ pc[p] = "down" /\ starts < MaxStarts
  /\ Goto(p, "root")
  /\ session' = [session EXCEPT ![p] = TRUE]
  /\ starts' = starts + 1
  /\ Disconnect(p)
  /\ UNCHANGED <<node, watched, view, thread>>

\* createNode("/election"): exists, and only when it is missing create.
FindRoot(p) ==
  /\ pc[p] = "root" /\ session[p]
  /\ Goto(p, IF rootExists THEN "enroll" ELSE "makeRoot")
  /\ UNCHANGED <<service, session, node, watched, view, thread, starts>>

CreateRoot(p) ==
  /\ pc[p] = "makeRoot" /\ session[p] /\ ~ rootExists
  /\ MakeRoot
  /\ Goto(p, "enroll")
  /\ UNCHANGED <<session, node, watched, view, thread, starts>>

\* Another process created the root between exists and create: NodeExists is
\* wrapped in IllegalStateException and ends the program.
LoseRootRace(p) ==
  /\ pc[p] = "makeRoot" /\ session[p] /\ rootExists
  /\ Halt(p)
  /\ UNCHANGED <<service, starts>>

\* createNode("/election/p_"): no child has that very name, so exists is null
\* and the znode is created.
Enroll_NextNumber(p) ==   \* slip: remembers the number after its own
  /\ pc[p] = "enroll" /\ session[p]
  /\ MakeChild
  /\ node' = [node EXCEPT ![p] = nextSeq + 1]
  /\ Goto(p, "list")
  /\ UNCHANGED <<session, watched, view, thread, starts>>

Enroll(p) ==
  /\ pc[p] = "enroll" /\ session[p]
  /\ MakeChild
  /\ node' = [node EXCEPT ![p] = nextSeq]
  /\ Goto(p, "list")
  /\ UNCHANGED <<session, watched, view, thread, starts>>

-----------------------------------------------------------------------------
(* attemptForLeaderPosition(), on either thread.                           *)

List(p) ==
  /\ pc[p] = "list" /\ session[p]
  /\ view' = [view EXCEPT ![p] = children]
  /\ Goto(p, "decide")
  /\ UNCHANGED <<service, session, node, watched, thread, starts>>

BecomeLeader_Unsorted(p) ==   \* slip: takes the first of the unsorted list
  /\ pc[p] = "decide"
  /\ node[p] \in view[p]
  /\ Goto(p, "leader")
  /\ view' = [view EXCEPT ![p] = {}]
  /\ UNCHANGED <<service, session, node, watched, thread, starts>>

BecomeLeader(p) ==
  /\ pc[p] = "decide"
  /\ node[p] \in view[p] /\ \A k \in view[p] : node[p] <= k
  /\ Goto(p, "leader")
  /\ view' = [view EXCEPT ![p] = {}]
  /\ UNCHANGED <<service, session, node, watched, thread, starts>>

ChooseWatch(p) ==
  /\ pc[p] = "decide"
  /\ \E w \in view[p] :
       /\ Precedes(w, view[p], node[p])
       /\ watched' = [watched EXCEPT ![p] = w]
  /\ Goto(p, "watch")
  /\ view' = [view EXCEPT ![p] = {}]
  /\ UNCHANGED <<service, session, node, thread, starts>>

\* watchNode: its result, whether the predecessor is still there, is ignored.
Watch(p) ==
  /\ pc[p] = "watch" /\ session[p]
  /\ SetWatch(p, watched[p])
  /\ Goto(p, "follow")
  /\ UNCHANGED <<session, node, watched, view, thread, starts>>

\* ProcessNodeWatcher.process: events of other paths and types are ignored.
OnEvent_NoRelist(p) ==   \* slip: leads at once when the predecessor goes
  /\ event[p] # None /\ Up(p)
  /\ Consume(p)
  /\ IF pc[p] = "follow" /\ event[p] = watched[p]
     THEN /\ Goto(p, "leader")
          /\ thread' = [thread EXCEPT ![p] = "event"]
     ELSE UNCHANGED <<pc, thread>>
  /\ UNCHANGED <<session, node, watched, view, starts>>

OnEvent_OtherPath(p) ==   \* slip: compares short and full path, never equal
  /\ event[p] # None /\ Up(p)
  /\ Consume(p)
  /\ UNCHANGED <<pc, thread, session, node, watched, view, starts>>

OnEvent(p) ==
  /\ event[p] # None /\ Up(p)
  /\ Consume(p)
  /\ IF pc[p] = "follow" /\ event[p] = watched[p]
     THEN /\ Goto(p, "list")
          /\ thread' = [thread EXCEPT ![p] = "event"]
     ELSE UNCHANGED <<pc, thread>>
  /\ UNCHANGED <<session, node, watched, view, starts>>

-----------------------------------------------------------------------------
(* What goes wrong.                                                        *)

Calling(p) == pc[p] \in {"root", "makeRoot", "enroll", "list", "watch"}

\* An exception on the executor's thread reaches the launcher, which logs it
\* and shuts the executor down: the JVM ends.  On the client's event thread it
\* is swallowed, and the process lives on with no watch.
Fail(p) ==
  \/ thread[p] = "main" /\ Halt(p)
  \/ /\ thread[p] = "event"
     /\ Goto(p, "deaf")
     /\ UNCHANGED <<session, node, watched, view, thread>>

\* A call raises KeeperException: the session is over, or the connection broke
\* before the request was applied.
CallFails(p) ==
  /\ Calling(p)
  /\ ~ session[p] \/ "connloss" \in Faults
  /\ Fail(p)
  /\ UNCHANGED <<service, starts>>

\* The connection breaks after the service applied a create.
ReplyLost(p) ==
  /\ "connloss" \in Faults /\ session[p]
  /\ \/ pc[p] = "makeRoot" /\ ~ rootExists /\ MakeRoot
     \/ pc[p] = "enroll" /\ MakeChild
  /\ Halt(p)
  /\ UNCHANGED starts

Crash(p) ==
  /\ "crash" \in Faults
  /\ Up(p)
  /\ Halt(p)
  /\ UNCHANGED <<service, starts>>

\* The service ends the session of a process that is cut off but alive.  The
\* client's Expired event is no NodeDeleted event: the process does nothing.
Expire(p) ==
  /\ "expire" \in Faults /\ Up(p) /\ session[p]
  /\ session' = [session EXCEPT ![p] = FALSE]
  /\ Remove(node[p], {p})
  /\ UNCHANGED <<pc, node, watched, view, thread, starts>>

\* The service times out the session of a JVM that is gone.
TimeOut(k) ==
  /\ k \in children
  /\ \A p \in Client : node[p] # k
  /\ Remove(k, {})
  /\ UNCHANGED <<local, starts>>

-----------------------------------------------------------------------------
Step(p) ==
  \/ FindRoot(p) \/ CreateRoot(p) \/ LoseRootRace(p) \/ Enroll(p)
  \/ List(p) \/ BecomeLeader(p) \/ ChooseWatch(p) \/ Watch(p) \/ OnEvent(p)
  \/ CallFails(p) \/ ReplyLost(p)

Next ==
  \/ \E p \in Client : Step(p) \/ Start(p) \/ Crash(p) \/ Expire(p)
  \/ \E k \in children : TimeOut(k)

Spec == Init /\ [][Next]_vars

\* Threads run and dead sessions time out; nobody has to start a process.
Fairness ==
  /\ \A p \in Client : WF_vars(Step(p))
  /\ WF_vars(\E k \in children : TimeOut(k))

FairSpec == Spec /\ Fairness

-----------------------------------------------------------------------------
(* Properties.                                                             *)

\* p leads as far as the service is concerned: it believes it, and its session
\* is alive.  (An expired leader never learns that it is deposed.)
Leads(p) == pc[p] = "leader" /\ session[p]

\* ProcessNode's whole point: two processes with live sessions never both
\* believe they are the leader, whatever crashes, expires or is lost.
AtMostOneLeader == \A p, q \in Client : Leads(p) /\ Leads(q) => p = q

\* indexOf(processNodePath) finds it: a process with a live session sees its
\* own znode in the list, or get(index - 1) would be asked for element -2.
OwnNodeListed ==
  \A p \in Client : pc[p] = "decide" => node[p] \in view[p]

\* A leader that has lost its znode has lost its session: no live leader
\* coexists with an older candidate, even one whose JVM is gone.
LeaderIsOldest == \A p \in Client : Leads(p) => Oldest(node[p])

\* Candidates come to lead in the order of their znodes: a process starts to
\* lead, with a live session, only when no older znode is left, however stale
\* the list it decides from.
ElectedInOrder ==
  [][\A p \in Client : ~ Leads(p) /\ Leads(p)' => Oldest(node[p])]_vars

\* The two ways in which attemptForLeaderPosition strands the next leader: the
\* predecessor was gone when watchNode looked, and its false is ignored; or
\* the attempt failed on the event thread.
LostWakeup(p) ==
  pc[p] = "follow" /\ watch[p] = watched[p] /\ watched[p] \notin children
Stranded(p) == pc[p] = "deaf" \/ LostWakeup(p)

Heir(p) == Up(p) /\ session[p] /\ Oldest(node[p])

\* These two are the only ones: in every other case the process with the
\* oldest znode comes to lead, unless it loses its session first.
HeirLeads == \A p \in Client : Heir(p) ~> (Leads(p) \/ Stranded(p) \/ ~ Heir(p))

(* The abstract election: the token is the oldest znode's number, and it is *)
(* spent when the JVM that created that znode is gone.                      *)
token == CHOOSE k \in children \cup {nextSeq} : \A j \in children \cup {nextSeq} : k <= j

Elections ==
  INSTANCE Election WITH
    Process <- Client,
    leader <- {p \in Client : Leads(p)},
    token <- token,
    spent <- \E k \in children : Oldest(k) /\ \A p \in Client : node[p] # k

\* ProcessNode implements the abstract election.
ElectionSpec == Elections!Spec
=============================================================================
