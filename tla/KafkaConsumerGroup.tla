--------------------------- MODULE KafkaConsumerGroup ---------------------------
(***************************************************************************)
(* App.runConsumer of the kafka module: any number of runs of it form one  *)
(* consumer group.  Each polls for a record (MAX_POLL_RECORDS is 1),       *)
(* prints it and commits its positions asynchronously; it stops when more  *)
(* than MaxEmpty polls, all together, have found nothing.                  *)
(*                                                                         *)
(* The broker side, the log, the group's generations and the committed     *)
(* offsets, is external: it is what the consumer's settings                *)
(* (ConsumerCreator) rely on.  Each consumer's commits are delivered in    *)
(* order, and before its requests to join or leave, as they share a        *)
(* connection.                                                             *)
(*                                                                         *)
(* pc[c]: new, poll, process (has a record), commit, close (left the       *)
(* loop), stopped, crashed.                                                *)
(***************************************************************************)
EXTENDS Naturals, Sequences

CONSTANTS
  Consumer,       \* runs of runConsumer
  Partition,      \* of the topic
  MaxLen,         \* bound: records per partition
  MaxEmpty,       \* MAX_NO_MESSAGE_FOUND_COUNT
  MaxGeneration,  \* bound: rebalances
  Faults,         \* "crash", "slow" (beyond max.poll.interval), "connloss"
  None            \* no partition

ASSUME MaxLenAssumption == MaxLen \in Nat
ASSUME MaxEmptyAssumption == MaxEmpty \in Nat
ASSUME NoneAssumption == None \notin Partition
ASSUME FaultsAssumption == Faults \subseteq {"crash", "slow", "connloss"}

VARIABLES
  len,         \* len[p]: records in partition p, at offsets 0 .. len[p] - 1
  committed,   \* committed[p]: the group's offset; 0 is also "none yet"
  generation,
  members,     \* of the present generation
  pc,
  gen,         \* gen[c]: the generation c believes in
  mine,        \* mine[c]: the partitions c believes it is assigned
  position,    \* position[c][p]: the offset c would fetch next
  hand,        \* hand[c]: the partition whose last fetched record is being processed
  empty,       \* empty[c]: noMessageToFetch
  commits,     \* commits[c]: commitAsync requests under way, in order
  processed    \* processed[p]: offsets that some consumer has processed

broker == <<len, committed, generation, members>>
vars == <<broker, pc, gen, mine, position, hand, empty, commits, processed>>

Offset == 0 .. MaxLen
Request == [gen : Nat, parts : SUBSET Partition, offsets : [Partition -> Offset]]

TypeOK ==
  /\ len \in [Partition -> Offset] /\ committed \in [Partition -> Offset]
  /\ generation \in Nat /\ members \in SUBSET Consumer
  /\ pc \in [Consumer -> {"new", "poll", "process", "commit", "close",
                          "stopped", "crashed"}]
  /\ gen \in [Consumer -> Nat]
  /\ mine \in [Consumer -> SUBSET Partition]
  /\ position \in [Consumer -> [Partition -> Offset]]
  /\ hand \in [Consumer -> Partition \cup {None}]
  /\ empty \in [Consumer -> 0 .. MaxEmpty + 1]
  /\ commits \in [Consumer -> Seq(Request)]
  /\ processed \in [Partition -> SUBSET Offset]

Init ==
  /\ len = [p \in Partition |-> 0] /\ committed = [p \in Partition |-> 0]
  /\ generation = 0 /\ members = {}
  /\ pc = [c \in Consumer |-> "new"]
  /\ gen = [c \in Consumer |-> 0]
  /\ mine = [c \in Consumer |-> {}]
  /\ position = [c \in Consumer |-> [p \in Partition |-> 0]]
  /\ hand = [c \in Consumer |-> None]
  /\ empty = [c \in Consumer |-> 0]
  /\ commits = [c \in Consumer |-> <<>>]
  /\ processed = [p \in Partition |-> {}]

Goto(c, label) == pc' = [pc EXCEPT ![c] = label]

-----------------------------------------------------------------------------
(* runConsumer().                                                          *)

\* createConsumer(): subscribed; the first poll joins the group.
Start(c) ==
  /\ pc[c] = "new"
  /\ Goto(c, "poll")
  /\ UNCHANGED <<broker, gen, mine, position, hand, empty, commits, processed>>

Fetch_CommitFirst(c) ==   \* slip: commits before the record is processed
  /\ pc[c] = "poll"
  /\ \E p \in mine[c] :
       /\ position[c][p] < len[p]
       /\ hand' = [hand EXCEPT ![c] = p]
       /\ position' = [position EXCEPT ![c][p] = @ + 1]
  /\ commits' = [commits EXCEPT ![c] =
       Append(@, [gen |-> gen[c], parts |-> mine[c], offsets |-> position'[c]])]
  /\ Goto(c, "process")
  /\ UNCHANGED <<broker, gen, mine, empty, processed>>

\* poll() returns a record.
Fetch(c) ==
  /\ pc[c] = "poll"
  /\ \E p \in mine[c] :
       /\ position[c][p] < len[p]
       /\ hand' = [hand EXCEPT ![c] = p]
       /\ position' = [position EXCEPT ![c][p] = @ + 1]
  /\ Goto(c, "process")
  /\ UNCHANGED <<broker, gen, mine, empty, commits, processed>>

EmptyPoll_NoBreak(c) ==   \* slip: continue where break is meant
  /\ pc[c] = "poll"
  /\ empty' = [empty EXCEPT ![c] = @ + 1]
  /\ UNCHANGED <<broker, pc, gen, mine, position, hand, commits, processed>>

\* poll() returns nothing, for lack of records or of time.  The count is never
\* reset, so it is of all empty polls, not of those in a row.
EmptyPoll(c) ==
  /\ pc[c] = "poll"
  /\ empty' = [empty EXCEPT ![c] = @ + 1]
  /\ IF empty[c] + 1 > MaxEmpty THEN Goto(c, "close") ELSE UNCHANGED pc
  /\ UNCHANGED <<broker, gen, mine, position, hand, commits, processed>>

Process(c) ==
  /\ pc[c] = "process"
  /\ processed' = [processed EXCEPT ![hand[c]] = @ \cup {position[c][hand[c]] - 1}]
  /\ hand' = [hand EXCEPT ![c] = None]
  /\ Goto(c, "commit")
  /\ UNCHANGED <<broker, gen, mine, position, empty, commits>>

Commit_RecordOffset(c) ==   \* slip: the offset of the record, not the one after it
  /\ pc[c] = "commit"
  /\ commits' = [commits EXCEPT ![c] =
       Append(@, [gen |-> gen[c],
                  parts |-> {p \in mine[c] : position[c][p] > 0},
                  offsets |-> [p \in Partition |-> position[c][p] - 1]])]
  /\ Goto(c, "poll")
  /\ UNCHANGED <<broker, gen, mine, position, hand, empty, processed>>

\* commitAsync(): the positions of all assigned partitions, no callback.
Commit(c) ==
  /\ pc[c] = "commit"
  /\ commits' = [commits EXCEPT ![c] =
       Append(@, [gen |-> gen[c], parts |-> mine[c], offsets |-> position[c]])]
  /\ Goto(c, "poll")
  /\ UNCHANGED <<broker, gen, mine, position, hand, empty, processed>>

\* close(): the commits under way are waited for, then the group is left.
Close(c) ==
  /\ pc[c] = "close" /\ commits[c] = <<>>
  /\ Goto(c, "stopped")
  /\ UNCHANGED <<broker, gen, mine, position, hand, empty, commits, processed>>

Crash(c) ==
  /\ "crash" \in Faults
  /\ pc[c] \in {"poll", "process", "commit", "close"}
  /\ Goto(c, "crashed")
  /\ UNCHANGED <<broker, gen, mine, position, hand, empty, commits, processed>>

-----------------------------------------------------------------------------
(* The broker.                                                             *)

Produce(p) ==
  /\ len[p] < MaxLen
  /\ len' = [len EXCEPT ![p] = @ + 1]
  /\ UNCHANGED <<committed, generation, members, pc, gen, mine, position, hand,
                 empty, commits, processed>>

Deliver_NoFencing(c) ==   \* slip: assign() for subscribe(), so no generations
  /\ commits[c] # <<>>
  /\ LET m == Head(commits[c]) IN
       committed' = [p \in Partition |-> IF p \in m.parts THEN m.offsets[p]
                                         ELSE committed[p]]
  /\ commits' = [commits EXCEPT ![c] = Tail(@)]
  /\ UNCHANGED <<len, generation, members, pc, gen, mine, position, hand, empty,
                 processed>>

\* A commit of the present generation counts; another one is refused, which is
\* logged and forgotten.
Deliver(c) ==
  /\ commits[c] # <<>>
  /\ LET m == Head(commits[c]) IN
       committed' =
         IF m.gen = generation /\ c \in members
         THEN [p \in Partition |-> IF p \in m.parts THEN m.offsets[p]
                                   ELSE committed[p]]
         ELSE committed
  /\ commits' = [commits EXCEPT ![c] = Tail(@)]
  /\ UNCHANGED <<len, generation, members, pc, gen, mine, position, hand, empty,
                 processed>>

Lose(c) ==
  /\ "connloss" \in Faults /\ commits[c] # <<>>
  /\ commits' = [commits EXCEPT ![c] = Tail(@)]
  /\ UNCHANGED <<broker, pc, gen, mine, position, hand, empty, processed>>

Live == {c \in Consumer : pc[c] \in {"poll", "process", "commit", "close"}}

Rebalance_Latest ==   \* slip: OFFSET_RESET_LATEST
  LET joined == {c \in Live : pc[c] = "poll"} IN
  /\ members # Live /\ generation < MaxGeneration
  /\ joined = Live \/ "slow" \in Faults
  /\ joined # {}
  /\ \A c \in joined : commits[c] = <<>>
  /\ generation' = generation + 1
  /\ members' = joined
  /\ gen' = [c \in Consumer |-> IF c \in joined THEN generation + 1 ELSE gen[c]]
  /\ \E owner \in [Partition -> joined] :
       mine' = [c \in Consumer |-> IF c \in joined
                                   THEN {p \in Partition : owner[p] = c}
                                   ELSE mine[c]]
  /\ position' = [c \in Consumer |->
                    IF c \in joined
                    THEN [p \in Partition |-> IF committed[p] = 0 THEN len[p]
                                              ELSE committed[p]]
                    ELSE position[c]]
  /\ UNCHANGED <<len, committed, pc, hand, empty, commits, processed>>

\* A consumer came, left, crashed or was thrown out: those that call poll() in
\* time form the next generation.  Each fetches the committed offsets of what it
\* is assigned; where there are none, "earliest" is offset 0.
Rebalance ==
  LET joined == {c \in Live : pc[c] = "poll"} IN
  /\ members # Live /\ generation < MaxGeneration
  /\ joined = Live \/ "slow" \in Faults
  /\ joined # {}
  /\ \A c \in joined : commits[c] = <<>>
  /\ generation' = generation + 1
  /\ members' = joined
  /\ gen' = [c \in Consumer |-> IF c \in joined THEN generation + 1 ELSE gen[c]]
  /\ \E owner \in [Partition -> joined] :
       mine' = [c \in Consumer |-> IF c \in joined
                                   THEN {p \in Partition : owner[p] = c}
                                   ELSE mine[c]]
  /\ position' = [c \in Consumer |-> IF c \in joined THEN committed ELSE position[c]]
  /\ UNCHANGED <<len, committed, pc, hand, empty, commits, processed>>

-----------------------------------------------------------------------------
Step(c) == Fetch(c) \/ Process(c) \/ Commit(c) \/ Close(c)

Next ==
  \/ \E c \in Consumer :
       Start(c) \/ Step(c) \/ EmptyPoll(c) \/ Crash(c) \/ Deliver(c) \/ Lose(c)
  \/ \E p \in Partition : Produce(p)
  \/ Rebalance

Spec == Init /\ [][Next]_vars

\* Consumers run, requests are answered one way or the other, and the group
\* settles; nobody has to start a consumer or to produce, and no poll has to
\* come back empty.
Fairness ==
  /\ \A c \in Consumer : WF_vars(Step(c)) /\ WF_vars(Deliver(c))
  /\ WF_vars(Rebalance)

FairSpec == Spec /\ Fairness

-----------------------------------------------------------------------------
(* Properties.                                                             *)

\* Whatever crashes, is lost or is thrown out of the group: a committed offset
\* means that every record before it has been processed, so no record is ever
\* skipped.
CommittedWasProcessed ==
  \A p \in Partition : \A o \in 0 .. committed[p] - 1 : o \in processed[p]

\* The late commit of a consumer that has lost its partitions never takes the
\* group back.
CommitsMoveForward ==
  [][\A p \in Partition : committed'[p] >= committed[p]]_vars

\* Unless a consumer crashes, is thrown out or loses a commit, every record that
\* was processed is committed by the time all consumers have stopped, although
\* nobody waits for a commit and consumers come and go.
StopsCommitted ==
  Live = {} /\ Faults \subseteq {"crash"} /\ (\A c \in Consumer : pc[c] # "crashed") =>
    \A p \in Partition : processed[p] = 0 .. committed[p] - 1

\* Every record is processed, unless all consumers have stopped: a consumer
\* gives up for empty polls that happened long before.
EventuallyProcessed ==
  \A p \in Partition : \A o \in 0 .. MaxLen - 1 :
    len[p] > o ~> (o \in processed[p] \/ Live = {})
=============================================================================
