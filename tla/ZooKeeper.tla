------------------------------ MODULE ZooKeeper ------------------------------
(***************************************************************************)
(* The part of the ZooKeeper service that the zookeeper module's programs  *)
(* rely on: one persistent root znode whose children are ephemeral         *)
(* sequential znodes, one session per client, and one-shot watches.  The   *)
(* service is external: it is modelled from the calls the code makes       *)
(* (create, exists, getChildren, delete) and from what the code expects of *)
(* their results.                                                          *)
(*                                                                         *)
(* A sequential znode is its number.  ZooKeeper writes the number with ten *)
(* digits, so the sort by name that the code does is the order of numbers  *)
(* (until the 32-bit counter behind it wraps, which is not modelled).      *)
(***************************************************************************)
EXTENDS Naturals

CONSTANT Client          \* the clients, each with a session of its own

VARIABLES
  rootExists,  \* does the persistent root znode exist?
  children,    \* the numbers of its live children
  nextSeq,     \* the number the next sequential child gets
  watch,       \* watch[c]: the child c has asked to be told about, or None
  event        \* event[c]: a NodeDeleted event not yet processed by c, or None

None == 0                \* no znode: sequence numbers start at 1 here

ZKTypeOK ==
  /\ rootExists \in BOOLEAN
  /\ children \in SUBSET (1 .. nextSeq - 1)
  /\ nextSeq \in Nat \ {0}
  /\ watch \in [Client -> 0 .. nextSeq - 1]
  /\ event \in [Client -> 0 .. nextSeq - 1]

\* The service may be new, or have served earlier runs of the programs.
ZKInit ==
  /\ rootExists \in BOOLEAN
  /\ children = {}
  /\ nextSeq = 1
  /\ watch = [c \in Client |-> None]
  /\ event = [c \in Client |-> None]

Oldest(k) == k \in children /\ \A j \in children : k <= j

\* w is the last of the znodes S that sort before k.
Precedes(w, S, k) ==
  /\ w \in S /\ w < k
  /\ \A j \in S : j < k => j <= w

\* create(root, PERSISTENT)
MakeRoot ==
  /\ rootExists' = TRUE
  /\ UNCHANGED <<children, nextSeq, watch, event>>

\* create(prefix, EPHEMERAL_SEQUENTIAL): the new child is nextSeq.
MakeChild ==
  /\ rootExists
  /\ children' = children \cup {nextSeq}
  /\ nextSeq' = nextSeq + 1
  /\ UNCHANGED <<rootExists, watch, event>>

\* exists(k, watch): the watch is left whether or not k is there; since a
\* sequence number is never given twice, a watch on a missing child is dead.
SetWatch(c, k) ==
  /\ watch' = [watch EXCEPT ![c] = k]
  /\ UNCHANGED <<rootExists, children, nextSeq, event>>

\* Child k, if it is there, disappears, deleted or expired, and the sessions in
\* gone end: the watches on k fire, once, and those of ended sessions are
\* dropped.
Remove(k, gone) ==
  LET fired == {c \in Client : k \in children /\ watch[c] = k} IN
  /\ children' = children \ {k}
  /\ watch' = [c \in Client |-> IF c \in gone \cup fired THEN None ELSE watch[c]]
  /\ event' = [c \in Client |-> IF c \in fired \ gone THEN k ELSE event[c]]
  /\ UNCHANGED <<rootExists, nextSeq>>

\* Client c takes its pending event off the queue, or forgets it on a restart.
Consume(c) ==
  /\ event' = [event EXCEPT ![c] = None]
  /\ UNCHANGED <<rootExists, children, nextSeq, watch>>

Disconnect(c) ==
  /\ event' = [event EXCEPT ![c] = None]
  /\ watch' = [watch EXCEPT ![c] = None]
  /\ UNCHANGED <<rootExists, children, nextSeq>>
=============================================================================
