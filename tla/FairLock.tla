------------------------------- MODULE FairLock -------------------------------
(***************************************************************************)
(* FairLockTest: a lock built from ephemeral sequential znodes, and the    *)
(* tasks its main starts, each of which takes the lock once, works and     *)
(* gives it back.  Every task has its own FairLockTest, so its own session *)
(* and its own one-shot waitLatch; the tasks of one main share a JVM.      *)
(*                                                                         *)
(* pc[c] is where the task is:                                             *)
(*   root      ensureRootPath(): about to ask for /mylock                  *)
(*   makeRoot  it was missing: about to create it                          *)
(*   create    about to create its own znode                               *)
(*   list      about to list the znodes                                    *)
(*   decide    has the sorted list                                         *)
(*   watch     about to watch its predecessor                              *)
(*   await     blocked on waitLatch                                        *)
(*   held      lock() has returned                                         *)
(*   done      unlock() has returned or thrown                             *)
(*   crashed   its JVM is gone                                             *)
(***************************************************************************)
EXTENDS ZooKeeper

\* Client: the tasks, each with a ZooKeeper session.
CONSTANTS
  JvmOf,   \* JvmOf[c]: the program run that task c belongs to
  Faults   \* what may go wrong: "crash", "expire", "connloss"

ASSUME FaultsAssumption == Faults \subseteq {"crash", "expire", "connloss"}

VARIABLES
  pc,
  session,    \* session[c]: c's session is alive at the service
  znode,      \* znode[c]: the znode c's session owns, as the service knows it
  lockZnode,  \* lockZnode[c]: the field; None is null
  view,       \* view[c]: the znodes c listed
  target,     \* target[c]: watchNode, the znode c waits for
  latch       \* latch[c]: waitLatch has been counted down

service == <<rootExists, children, nextSeq, watch, event>>
local == <<pc, session, znode, lockZnode, view, target, latch>>
vars == <<service, local>>

Labels == {"root", "makeRoot", "create", "list", "decide", "watch", "await",
           "held", "done", "crashed"}

TypeOK ==
  /\ ZKTypeOK
  /\ pc \in [Client -> Labels]
  /\ session \in [Client -> BOOLEAN]
  /\ znode \in [Client -> 0 .. nextSeq - 1]
  /\ lockZnode \in [Client -> 0 .. nextSeq - 1]
  /\ view \in [Client -> SUBSET (1 .. nextSeq - 1)]
  /\ target \in [Client -> 0 .. nextSeq - 1]
  /\ latch \in [Client -> BOOLEAN]

\* main: the constructor has waited for the connection (connectionLatch).
Init ==
  /\ ZKInit
  /\ pc = [c \in Client |-> "root"]
  /\ session = [c \in Client |-> TRUE]
  /\ znode = [c \in Client |-> None]
  /\ lockZnode = [c \in Client |-> None]
  /\ view = [c \in Client |-> {}]
  /\ target = [c \in Client |-> None]
  /\ latch = [c \in Client |-> FALSE]

Goto(c, label) == pc' = [pc EXCEPT ![c] = label]

-----------------------------------------------------------------------------
(* lock()                                                                  *)

FindRoot(c) ==
  /\ pc[c] = "root" /\ session[c]
  /\ Goto(c, IF rootExists THEN "create" ELSE "makeRoot")
  /\ UNCHANGED <<service, session, znode, lockZnode, view, target, latch>>

\* NodeExists, when another task was faster, is printed and forgotten.
CreateRoot(c) ==
  /\ pc[c] = "makeRoot" /\ session[c]
  /\ IF rootExists THEN UNCHANGED service ELSE MakeRoot
  /\ Goto(c, "create")
  /\ UNCHANGED <<session, znode, lockZnode, view, target, latch>>

Create_NextNumber(c) ==   \* slip: remembers the number after its own
  /\ pc[c] = "create" /\ session[c]
  /\ MakeChild
  /\ znode' = [znode EXCEPT ![c] = nextSeq]
  /\ lockZnode' = [lockZnode EXCEPT ![c] = nextSeq + 1]
  /\ Goto(c, "list")
  /\ UNCHANGED <<session, view, target, latch>>

Create(c) ==
  /\ pc[c] = "create" /\ session[c]
  /\ MakeChild
  /\ znode' = [znode EXCEPT ![c] = nextSeq]
  /\ lockZnode' = [lockZnode EXCEPT ![c] = nextSeq]
  /\ Goto(c, "list")
  /\ UNCHANGED <<session, view, target, latch>>

List(c) ==
  /\ pc[c] = "list" /\ session[c]
  /\ view' = [view EXCEPT ![c] = children]
  /\ Goto(c, "decide")
  /\ UNCHANGED <<service, session, znode, lockZnode, target, latch>>

Acquire_Unsorted(c) ==   \* slip: takes the first of the unsorted list
  /\ pc[c] = "decide"
  /\ lockZnode[c] \in view[c]
  /\ Goto(c, "held")
  /\ view' = [view EXCEPT ![c] = {}]
  /\ UNCHANGED <<service, session, znode, lockZnode, target, latch>>

\* Its own znode is the first of the list: lock() returns.
Acquire(c) ==
  /\ pc[c] = "decide"
  /\ lockZnode[c] \in view[c] /\ \A k \in view[c] : lockZnode[c] <= k
  /\ Goto(c, "held")
  /\ view' = [view EXCEPT ![c] = {}]
  /\ UNCHANGED <<service, session, znode, lockZnode, target, latch>>

ChooseWatch(c) ==
  /\ pc[c] = "decide"
  /\ \E w \in view[c] :
       /\ Precedes(w, view[c], lockZnode[c])
       /\ target' = [target EXCEPT ![c] = w]
  /\ Goto(c, "watch")
  /\ view' = [view EXCEPT ![c] = {}]
  /\ UNCHANGED <<service, session, znode, lockZnode, latch>>

\* exists with a Watcher: a null Stat, the predecessor being gone already,
\* changes nothing but a line of output.
Watch(c) ==
  /\ pc[c] = "watch" /\ session[c]
  /\ SetWatch(c, target[c])
  /\ Goto(c, "await")
  /\ UNCHANGED <<session, znode, lockZnode, view, target, latch>>

OnEvent_OtherType(c) ==   \* slip: counts down on another event type
  /\ event[c] # None /\ pc[c] # "crashed"
  /\ Consume(c)
  /\ UNCHANGED <<latch, pc, session, znode, lockZnode, view, target>>

\* The Watcher, on the client's event thread.
OnEvent(c) ==
  /\ event[c] # None /\ pc[c] # "crashed"
  /\ Consume(c)
  /\ latch' = [latch EXCEPT ![c] = TRUE]
  /\ UNCHANGED <<pc, session, znode, lockZnode, view, target>>

Wake_TimedOut(c) ==   \* slip: a timed await whose result is ignored
  /\ pc[c] = "await"
  /\ Goto(c, "held")
  /\ UNCHANGED <<service, session, znode, lockZnode, view, target, latch>>

\* waitLatch.await() returns, and lock() with it: nobody lists again.
Wake(c) ==
  /\ pc[c] = "await" /\ latch[c]
  /\ Goto(c, "held")
  /\ UNCHANGED <<service, session, znode, lockZnode, view, target, latch>>

\* A call throws.  ensureRootPath() prints the exception and lock() goes on;
\* lock() prints it and returns, as if it had the lock.
CallFails(c) ==
  /\ ~ session[c] \/ "connloss" \in Faults \/ (pc[c] = "create" /\ ~ rootExists)
  /\ \/ pc[c] \in {"root", "makeRoot"} /\ Goto(c, "create")
     \/ pc[c] \in {"create", "list", "watch"} /\ Goto(c, "held")
  /\ UNCHANGED <<service, session, znode, lockZnode, view, target, latch>>

\* The connection breaks after the service applied a create.
ReplyLost(c) ==
  /\ "connloss" \in Faults /\ session[c]
  /\ \/ /\ pc[c] = "makeRoot" /\ ~ rootExists
        /\ MakeRoot
        /\ Goto(c, "create")
        /\ UNCHANGED znode
     \/ /\ pc[c] = "create"
        /\ MakeChild
        /\ Goto(c, "held")
        /\ znode' = [znode EXCEPT ![c] = nextSeq]
  /\ UNCHANGED <<session, lockZnode, view, target, latch>>

-----------------------------------------------------------------------------
(* unlock() and the end of the task                                        *)

\* delete(lockZnode): an exception is printed, or, for a null path, ends the
\* task; either way the task is over and the znode stays.
Unlock(c) ==
  /\ pc[c] = "held"
  /\ \/ lockZnode[c] # None /\ session[c] /\ Remove(lockZnode[c], {})
     \/ /\ lockZnode[c] = None \/ ~ session[c] \/ "connloss" \in Faults
        /\ UNCHANGED service
  /\ Goto(c, "done")
  /\ UNCHANGED <<session, znode, lockZnode, view, target, latch>>

\* All tasks of a JVM stop at once.
Crash(j) ==
  /\ "crash" \in Faults
  /\ \E c \in Client : JvmOf[c] = j /\ pc[c] \notin {"done", "crashed"}
  /\ pc' = [c \in Client |-> IF JvmOf[c] = j THEN "crashed" ELSE pc[c]]
  /\ UNCHANGED <<service, session, znode, lockZnode, view, target, latch>>

Over(c) ==
  \/ pc[c] = "crashed"
  \/ \A d \in Client : JvmOf[d] = JvmOf[c] => pc[d] = "done"

EndSession_Persistent(c) ==   \* slip: PERSISTENT_SEQUENTIAL znodes
  /\ session[c]
  /\ Over(c) \/ "expire" \in Faults
  /\ session' = [session EXCEPT ![c] = FALSE]
  /\ UNCHANGED <<service, pc, znode, lockZnode, view, target, latch>>

\* The service ends a session: of a JVM that is gone (nothing ever closes the
\* session), or of a task cut off from it.  The task's watchers get an Expired
\* event, which is no NodeDeleted event.
EndSession(c) ==
  /\ session[c]
  /\ Over(c) \/ "expire" \in Faults
  /\ session' = [session EXCEPT ![c] = FALSE]
  /\ Remove(znode[c], {c})
  /\ UNCHANGED <<pc, znode, lockZnode, view, target, latch>>

-----------------------------------------------------------------------------
Step(c) ==
  \/ FindRoot(c) \/ CreateRoot(c) \/ Create(c) \/ List(c) \/ Acquire(c)
  \/ ChooseWatch(c) \/ Watch(c) \/ OnEvent(c) \/ Wake(c)
  \/ CallFails(c) \/ ReplyLost(c) \/ Unlock(c)

Next == \E c \in Client : Step(c) \/ EndSession(c) \/ Crash(JvmOf[c])

Spec == Init /\ [][Next]_vars

\* Threads run, and sessions of JVMs that are gone time out.
Fairness ==
  /\ \A c \in Client : WF_vars(Step(c))
  /\ \A c \in Client : WF_vars(Over(c) /\ EndSession(c))

FairSpec == Spec /\ Fairness

-----------------------------------------------------------------------------
(* Properties.                                                             *)

Holds(c) == pc[c] = "held"

\* lock() "acquires the lock": no two tasks are past lock() and before
\* unlock().  Holds as long as nothing fails, although a waiter that is woken
\* never looks at the list again.
MutualExclusion == \A c, d \in Client : Holds(c) /\ Holds(d) => c = d

\* FairLock: the lock goes to the oldest znode, so no task overtakes another,
\* whether it gets the lock from its list or from its watch.
GrantedInOrder ==
  [][\A c \in Client : ~ Holds(c) /\ Holds(c)' => Oldest(lockZnode[c])]_vars

\* The waiter's predecessor was gone before it was watched: no event comes.
LostWakeup(c) ==
  pc[c] = "await" /\ watch[c] = target[c] /\ target[c] \notin children

Heir(c) == pc[c] \in {"list", "decide", "watch", "await"} /\ session[c] /\ Oldest(znode[c])

\* Whatever fails, the task with the oldest znode gets past lock(), except by
\* the wake-up lost between listing and watching, or by losing its session.
HeirEnters == \A c \in Client : Heir(c) ~> (Holds(c) \/ LostWakeup(c) \/ ~ Heir(c))

\* The lock never stays with a program that is over: every znode of such a
\* program goes away, even one whose creation the task never heard of.
NothingLeftBehind ==
  \A c \in Client : Over(c) ~> (Over(c) /\ znode[c] \notin children)

\* The queue never stands still for good: its head enters or, if its program is over,
\* makes room for the next.
QueueMoves == HeirEnters /\ NothingLeftBehind

Locks ==
  INSTANCE FifoLock WITH
    line <- children,
    held <- {znode[c] : c \in {d \in Client : Holds(d)}},
    next <- nextSeq

\* FairLockTest implements the fair lock as long as nothing fails.
FifoLockSpec == Locks!Spec
=============================================================================
