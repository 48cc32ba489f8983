----------------------- MODULE KafkaConsumerGroup_proofs -----------------------
(***************************************************************************)
(* Theorems about KafkaConsumerGroup, for any consumers, partitions,       *)
(* bounds and faults.                                                      *)
(***************************************************************************)
EXTENDS KafkaConsumerGroup, SequenceTheorems, TLAPS

USE MaxLenAssumption, MaxEmptyAssumption, NoneAssumption

(* Typing, with the positions kept inside the log.                         *)
TypeInv ==
  /\ TypeOK
  /\ \A c \in Consumer : pc[c] \in {"new", "poll", "process", "commit"} => empty[c] <= MaxEmpty
  /\ \A c \in Consumer : pc[c] = "process" =>
       hand[c] \in Partition /\ position[c][hand[c]] > 0

-----------------------------------------------------------------------------
(* Type correctness.                                                       *)

LEMMA TypeInit == Init => TypeInv
BY DEF Init, TypeInv, TypeOK, Offset

LEMMA TypeNext == TypeInv /\ [Next]_vars => TypeInv'
<1> SUFFICES ASSUME TypeInv, [Next]_vars
             PROVE  TypeInv'
  OBVIOUS
<1> USE DEF TypeInv, TypeOK, Offset, broker, Goto
<1>1. ASSUME NEW c \in Consumer, Start(c) PROVE TypeInv'
  BY <1>1 DEF Start
<1>2. ASSUME NEW c \in Consumer, Fetch(c) PROVE TypeInv'
  BY <1>2 DEF Fetch
<1>3. ASSUME NEW c \in Consumer, EmptyPoll(c) PROVE TypeInv'
  <2>1. empty[c] \in 0 .. MaxEmpty /\ pc[c] = "poll"
    BY <1>3 DEF EmptyPoll
  <2>2. empty' \in [Consumer -> 0 .. MaxEmpty + 1]
    BY <1>3, <2>1 DEF EmptyPoll
  <2>3. CASE empty[c] + 1 > MaxEmpty
    BY <1>3, <2>1, <2>2, <2>3 DEF EmptyPoll
  <2>4. CASE ~ (empty[c] + 1 > MaxEmpty)
    BY <1>3, <2>1, <2>2, <2>4 DEF EmptyPoll
  <2> QED BY <2>3, <2>4
<1>4. ASSUME NEW c \in Consumer, Process(c) PROVE TypeInv'
  BY <1>4 DEF Process
<1>5. ASSUME NEW c \in Consumer, Commit(c) PROVE TypeInv'
  <2> DEFINE m == [gen |-> gen[c], parts |-> mine[c], offsets |-> position[c]]
  <2>1. m \in Request
    BY DEF Request
  <2>2. commits' \in [Consumer -> Seq(Request)]
    BY <1>5, <2>1 DEF Commit
  <2> QED BY <1>5, <2>2 DEF Commit
<1>6. ASSUME NEW c \in Consumer, Close(c) PROVE TypeInv'
  BY <1>6 DEF Close
<1>7. ASSUME NEW c \in Consumer, Crash(c) PROVE TypeInv'
  BY <1>7 DEF Crash
<1>8. ASSUME NEW c \in Consumer, Deliver(c) PROVE TypeInv'
  <2>1. Head(commits[c]) \in Request /\ Tail(commits[c]) \in Seq(Request)
    BY <1>8 DEF Deliver
  <2>2. committed' \in [Partition -> Offset]
    BY <1>8, <2>1 DEF Deliver, Request
  <2>3. commits' \in [Consumer -> Seq(Request)]
    BY <1>8, <2>1 DEF Deliver
  <2> QED BY <1>8, <2>2, <2>3 DEF Deliver
<1>9. ASSUME NEW c \in Consumer, Lose(c) PROVE TypeInv'
  <2>1. Tail(commits[c]) \in Seq(Request)
    BY <1>9 DEF Lose
  <2> QED BY <1>9, <2>1 DEF Lose
<1>10. ASSUME NEW p \in Partition, Produce(p) PROVE TypeInv'
  BY <1>10 DEF Produce
<1>11. CASE Rebalance
  BY <1>11 DEF Rebalance, Live
<1>12. CASE UNCHANGED vars
  BY <1>12 DEF vars
<1> QED
  BY <1>1, <1>2, <1>3, <1>4, <1>5, <1>6, <1>7, <1>8, <1>9, <1>10, <1>11, <1>12
  DEF Next, Step

LEMMA Typing == Spec => []TypeInv
BY TypeInit, TypeNext, PTL DEF Spec

\* Every variable keeps its type: positions and commits stay inside the log,
\* and no consumer polls on after too many empty polls.
THEOREM TypeCorrect == Spec => []TypeOK
<1>1. TypeInv => TypeOK  BY DEF TypeInv
<1> QED BY <1>1, Typing, PTL

-----------------------------------------------------------------------------
(* Nothing is skipped.  A consumer's positions, the record in its hand      *)
(* excepted, and the offsets of all commits under way have been processed,  *)
(* stale ones included; only a consumer that crashed with a record in its   *)
(* hand is ahead.                                                           *)
Before(p, n) == \A o \in Nat : o < n => o \in processed[p]
Read(c, p) == IF pc[c] = "process" /\ hand[c] = p THEN position[c][p] - 1 ELSE position[c][p]

ReadInv == \A c \in Consumer : pc[c] # "crashed" => \A p \in Partition : Before(p, Read(c, p))
SentInv ==
  \A c \in Consumer : \A i \in 1 .. Len(commits[c]) :
    \A p \in Partition : Before(p, commits[c][i].offsets[p])
CommittedInv == \A p \in Partition : Before(p, committed[p])

SkipInv == ReadInv /\ SentInv /\ CommittedInv

LEMMA SkipInit == Init => SkipInv
BY DEF Init, SkipInv, ReadInv, SentInv, CommittedInv, Before, Read

LEMMA SkipNext == TypeInv /\ TypeInv' /\ SkipInv /\ [Next]_vars => SkipInv'
<1> SUFFICES ASSUME TypeInv, TypeInv', SkipInv, [Next]_vars
             PROVE  SkipInv'
  OBVIOUS
<1> USE DEF TypeInv, TypeOK, Offset, broker, Goto
<1>a. ASSUME UNCHANGED <<processed, committed>>, SentInv',
             \A c \in Consumer : pc'[c] # "crashed" =>
               pc[c] # "crashed" /\ \A p \in Partition : Read(c, p)' = Read(c, p)
      PROVE  SkipInv'
  BY <1>a DEF SkipInv, ReadInv, CommittedInv, Before
<1>b. ASSUME UNCHANGED <<processed, commits>> PROVE SentInv'
  BY <1>b DEF SkipInv, SentInv, Before
<1>1. ASSUME NEW c \in Consumer, Start(c) \/ EmptyPoll(c) \/ Close(c) \/ Crash(c) PROVE SkipInv'
  BY <1>1, <1>a, <1>b DEF Start, EmptyPoll, Close, Crash, Read
<1>2. ASSUME NEW c \in Consumer, Fetch(c) PROVE SkipInv'
  <2>1. \A d \in Consumer : pc'[d] # "crashed" =>
          pc[d] # "crashed" /\ \A p \in Partition : Read(d, p)' = Read(d, p)
    <3>1. PICK q \in mine[c] : hand' = [hand EXCEPT ![c] = q]
                              /\ position' = [position EXCEPT ![c][q] = @ + 1]
      BY <1>2 DEF Fetch
    <3>2. pc[c] = "poll" /\ pc' = [pc EXCEPT ![c] = "process"]
      BY <1>2 DEF Fetch
    <3>3. mine[c] \subseteq Partition
      OBVIOUS
    <3>4. ASSUME NEW d \in Consumer, pc'[d] # "crashed", NEW p \in Partition
          PROVE  pc[d] # "crashed" /\ Read(d, p)' = Read(d, p)
      <4>1. CASE d = c /\ p = q
        <5>1. hand'[d] = q /\ pc'[d] = "process" /\ position'[d][p] = position[d][p] + 1
          BY <3>1, <3>2, <3>3, <4>1
        <5>2. position[d][p] \in Nat
          OBVIOUS
        <5> HIDE DEF TypeInv, TypeOK
        <5> QED BY <5>1, <5>2, <3>2, <4>1 DEF Read
      <4>2. CASE d = c /\ p # q
        <5>1. hand'[d] = q /\ pc'[d] = "process" /\ position'[d][p] = position[d][p]
          BY <3>1, <3>2, <3>3, <4>2
        <5> HIDE DEF TypeInv, TypeOK
        <5> QED BY <5>1, <3>2, <4>2 DEF Read
      <4>3. CASE d # c
        <5>1. UNCHANGED <<hand[d], pc[d], position[d]>>
          BY <3>1, <3>2, <4>3
        <5> HIDE DEF TypeInv, TypeOK
        <5> QED BY <5>1, <3>4 DEF Read
      <4> QED BY <4>1, <4>2, <4>3
    <3> HIDE DEF TypeInv, TypeOK
    <3> QED BY <3>2, <3>4
  <2> QED BY <1>2, <2>1, <1>a, <1>b DEF Fetch
<1>4. ASSUME NEW c \in Consumer, Process(c) PROVE SkipInv'
  <2>1. \A p \in Partition : processed[p] \subseteq processed'[p]
    BY <1>4 DEF Process
  <2>2. position[c][hand[c]] - 1 \in processed'[hand[c]] /\ pc'[c] = "commit"
    BY <1>4 DEF Process
  <2>3. SentInv' /\ CommittedInv'
    BY <1>4, <2>1 DEF Process, SkipInv, SentInv, CommittedInv, Before
  <2>4. ASSUME NEW d \in Consumer, pc'[d] # "crashed", NEW p \in Partition,
               NEW o \in Nat, o < Read(d, p)'
        PROVE  o \in processed'[p]
    <3>1. CASE o < Read(d, p)
      BY <1>4, <2>1, <2>4, <3>1 DEF Process, SkipInv, ReadInv, Before
    <3>2. CASE ~ (o < Read(d, p))
      <4>1. d = c /\ p = hand[c] /\ o = position[c][p] - 1
        BY <1>4, <2>4, <3>2 DEF Process, Read
      <4> QED BY <2>2, <4>1
    <3> QED BY <3>1, <3>2
  <2> QED BY <2>3, <2>4 DEF SkipInv, ReadInv, Before
<1>5. ASSUME NEW c \in Consumer, Commit(c) PROVE SkipInv'
  <2>1. ASSUME NEW d \in Consumer, NEW i \in 1 .. Len(commits'[d]), NEW p \in Partition
        PROVE  Before(p, commits'[d][i].offsets[p])
    <3>1. CASE i \in 1 .. Len(commits[d])
      <4>1. commits'[d][i] = commits[d][i]
        BY <1>5, <3>1 DEF Commit
      <4> QED BY <4>1, <3>1 DEF SkipInv, SentInv
    <3>2. CASE ~ (i \in 1 .. Len(commits[d]))
      <4>1. d = c /\ commits'[d][i].offsets = position[c]
        BY <1>5, <3>2 DEF Commit
      <4>2. Read(c, p) = position[c][p] /\ pc[c] # "crashed"
        BY <1>5 DEF Commit, Read
      <4> QED BY <4>1, <4>2 DEF SkipInv, ReadInv
    <3> QED BY <3>1, <3>2
  <2>2. SentInv'
    BY <1>5, <2>1 DEF SentInv, Before, Commit
  <2>3. \A d \in Consumer : pc'[d] # "crashed" =>
          pc[d] # "crashed" /\ \A p \in Partition : Read(d, p)' = Read(d, p)
    BY <1>5 DEF Commit, Read
  <2> QED BY <1>5, <2>2, <2>3, <1>a DEF Commit
<1>c. ASSUME NEW c \in Consumer, commits[c] # <<>>, UNCHANGED processed,
             commits' = [commits EXCEPT ![c] = Tail(@)]
      PROVE  SentInv'
  <2>1. ASSUME NEW d \in Consumer, NEW i \in 1 .. Len(commits'[d])
        PROVE  \E j \in 1 .. Len(commits[d]) : commits'[d][i] = commits[d][j]
    <3>1. CASE d = c
      <4>1. i + 1 \in 1 .. Len(commits[c]) /\ commits'[c][i] = commits[c][i + 1]
        BY <1>c, <3>1
      <4> QED BY <3>1, <4>1
    <3>2. CASE d # c
      BY <1>c, <3>2
    <3> QED BY <3>1, <3>2
  <2>2. ASSUME NEW d \in Consumer, NEW i \in 1 .. Len(commits'[d]),
               NEW p \in Partition, NEW o \in Nat, o < commits'[d][i].offsets[p]
        PROVE  o \in processed'[p]
    <3>1. PICK j \in 1 .. Len(commits[d]) : commits'[d][i] = commits[d][j]
      BY <2>1
    <3> QED BY <1>c, <2>2, <3>1 DEF SkipInv, SentInv, Before
  <2> QED BY <2>2 DEF SentInv, Before
<1>8. ASSUME NEW c \in Consumer, Deliver(c) PROVE SkipInv'
  <2>1. SentInv'
    BY <1>8, <1>c DEF Deliver
  <2>2. Head(commits[c]) = commits[c][1] /\ 1 \in 1 .. Len(commits[c])
    BY <1>8 DEF Deliver
  <2>3. \A p \in Partition :
          committed'[p] = committed[p] \/ committed'[p] = commits[c][1].offsets[p]
    BY <1>8, <2>2 DEF Deliver
  <2>4. CommittedInv'
    BY <1>8, <2>2, <2>3 DEF Deliver, SkipInv, CommittedInv, SentInv, Before
  <2>5. ReadInv'
    BY <1>8 DEF Deliver, SkipInv, ReadInv, Read, Before
  <2> QED BY <2>1, <2>4, <2>5 DEF SkipInv
<1>9. ASSUME NEW c \in Consumer, Lose(c) PROVE SkipInv'
  <2>1. SentInv'
    BY <1>9, <1>c DEF Lose
  <2> QED BY <1>9, <2>1, <1>a DEF Lose, Read
<1>10. ASSUME NEW p \in Partition, Produce(p) PROVE SkipInv'
  BY <1>10, <1>a, <1>b DEF Produce, Read
<1>11. CASE Rebalance
  <2>1. \A c \in Consumer : position'[c] = position[c] \/ (position'[c] = committed /\ pc[c] = "poll")
    BY <1>11 DEF Rebalance
  <2>2. ReadInv'
    BY <1>11, <2>1 DEF Rebalance, SkipInv, ReadInv, CommittedInv, Read, Before
  <2>3. SentInv' /\ CommittedInv'
    BY <1>11 DEF Rebalance, SkipInv, SentInv, CommittedInv, Before
  <2> QED BY <2>2, <2>3 DEF SkipInv
<1>12. CASE UNCHANGED vars
  BY <1>12, <1>a, <1>b DEF vars, Read
<1> QED
  BY <1>1, <1>2, <1>4, <1>5, <1>8, <1>9, <1>10, <1>11, <1>12 DEF Next, Step

LEMMA Skipping == Spec => []SkipInv
BY Typing, SkipInit, SkipNext, PTL DEF Spec

\* Whatever fails, no record before a committed offset is unprocessed.
THEOREM NothingSkipped == Spec => []CommittedWasProcessed
<1>1. TypeInv /\ SkipInv => CommittedWasProcessed
  BY DEF SkipInv, CommittedInv, Before, CommittedWasProcessed, TypeInv, TypeOK, Offset
<1> QED BY <1>1, Typing, Skipping, PTL

-----------------------------------------------------------------------------
(* Commits move forward.  The members of a generation share out the         *)
(* partitions; each one's commits under way are of this generation, ordered *)
(* as they were sent, and lie between the committed offset and its position.*)
ShareInv ==
  /\ \A c \in members : gen[c] = generation
  /\ \A c, d \in members : \A p \in mine[c] : p \in mine[d] => c = d
  /\ \A c \in members : \A p \in mine[c] : committed[p] <= position[c][p]
SentByMember(c) ==
  \A i \in 1 .. Len(commits[c]) :
    LET m == commits[c][i] IN
    /\ m.gen = generation /\ m.parts = mine[c]
    /\ \A p \in mine[c] : committed[p] <= m.offsets[p] /\ m.offsets[p] <= position[c][p]
    /\ \A j \in 1 .. Len(commits[c]) : \A p \in mine[c] :
         i < j => m.offsets[p] <= commits[c][j].offsets[p]

GroupInv == ShareInv /\ \A c \in members : SentByMember(c)

LEMMA GroupInit == Init => GroupInv
BY DEF Init, GroupInv, ShareInv, SentByMember

\* A commit that is applied is the oldest one of the member that owns the
\* partition, so it is not below the committed offset.
LEMMA DeliverMovesForward ==
  ASSUME TypeInv, GroupInv, NEW c \in Consumer, Deliver(c)
  PROVE  \A p \in Partition :
           /\ committed'[p] >= committed[p]
           /\ committed'[p] # committed[p] =>
                c \in members /\ p \in mine[c] /\ committed'[p] = commits[c][1].offsets[p]
<1> USE DEF TypeInv, TypeOK, Offset
<1>1. Head(commits[c]) = commits[c][1] /\ 1 \in 1 .. Len(commits[c])
  BY DEF Deliver
<1>2. CASE commits[c][1].gen = generation /\ c \in members
  <2>1. commits[c][1].parts = mine[c]
    BY <1>1, <1>2 DEF GroupInv, SentByMember
  <2>2. \A p \in mine[c] : committed[p] <= commits[c][1].offsets[p]
    BY <1>1, <1>2 DEF GroupInv, SentByMember
  <2>3. \A p \in Partition :
          committed'[p] = IF p \in mine[c] THEN commits[c][1].offsets[p] ELSE committed[p]
    BY <1>1, <1>2, <2>1 DEF Deliver
  <2>4. commits[c][1] \in Request
    BY <1>1
  <2> QED BY <1>2, <2>2, <2>3, <2>4 DEF Request
<1>3. CASE ~ (commits[c][1].gen = generation /\ c \in members)
  <2>1. committed' = committed
    BY <1>1, <1>3 DEF Deliver
  <2> QED BY <2>1
<1> QED BY <1>2, <1>3

\* What the type says of positions, committed offsets and the members' shares.
LEMMA PositionType ==
  ASSUME TypeInv
  PROVE  /\ position \in [Consumer -> [Partition -> Nat]]
         /\ \A d \in Consumer : mine[d] \subseteq Partition
         /\ \A p \in Partition : committed[p] \in Nat
         /\ members \subseteq Consumer
BY DEF TypeInv, TypeOK, Offset

LEMMA GroupNext == TypeInv /\ TypeInv' /\ GroupInv /\ [Next]_vars => GroupInv'
<1> SUFFICES ASSUME TypeInv, TypeInv', GroupInv, [Next]_vars
             PROVE  GroupInv'
  OBVIOUS
<1> USE DEF TypeInv, TypeOK, Offset, broker, Goto
<1>n. ASSUME NEW d \in Consumer, NEW p \in Partition, NEW i \in 1 .. Len(commits[d])
      PROVE  commits[d][i].offsets[p] \in Nat /\ position[d][p] \in Nat
  <2>1. commits[d][i] \in Request
    OBVIOUS
  <2>2. commits[d][i].offsets \in [Partition -> Offset]
    BY <2>1 DEF Request
  <2>3. commits[d][i].offsets[p] \in Nat
    BY <2>2
  <2>4. position \in [Consumer -> [Partition -> Nat]]
    BY PositionType
  <2> HIDE DEF TypeInv, TypeOK
  <2> QED BY <2>3, <2>4
<1>a. ASSUME UNCHANGED <<committed, generation, members, gen, mine, position, commits>>
      PROVE  GroupInv'
  BY <1>a DEF GroupInv, ShareInv, SentByMember
<1>1. ASSUME NEW c \in Consumer,
             Start(c) \/ EmptyPoll(c) \/ Process(c) \/ Close(c) \/ Crash(c)
      PROVE  GroupInv'
  BY <1>1, <1>a DEF Start, EmptyPoll, Process, Close, Crash
<1>2. ASSUME NEW c \in Consumer, Fetch(c) PROVE GroupInv'
  <2>0. UNCHANGED <<committed, generation, members, gen, mine, commits>>
    BY <1>2 DEF Fetch
  <2>1. ASSUME NEW d \in Consumer, NEW p \in Partition
        PROVE  /\ position[d][p] <= position'[d][p]
               /\ position[d][p] \in Nat /\ position'[d][p] \in Nat
    <3>1. PICK q \in mine[c] : position' = [position EXCEPT ![c][q] = @ + 1]
      BY <1>2 DEF Fetch
    <3> HIDE DEF TypeInv, TypeOK
    <3>2. position \in [Consumer -> [Partition -> Nat]] /\ q \in Partition
      BY PositionType
    <3> QED BY <3>1, <3>2
  <2>2. ShareInv'
    <3>1. ASSUME NEW d \in members, NEW p \in mine[d]
          PROVE  committed[p] <= position'[d][p]
      <4> HIDE DEF TypeInv, TypeOK
      <4>1. d \in Consumer /\ p \in Partition /\ committed[p] \in Nat
        BY PositionType
      <4>2. committed[p] <= position[d][p]
        BY DEF GroupInv, ShareInv
      <4> QED BY <4>1, <4>2, <2>1
    <3> HIDE DEF TypeInv, TypeOK
    <3> QED BY <2>0, <3>1 DEF GroupInv, ShareInv
  <2>3. ASSUME NEW d \in members PROVE SentByMember(d)'
    <3>1. d \in Consumer /\ mine[d] \subseteq Partition /\ SentByMember(d)
      BY DEF GroupInv
    <3>2. ASSUME NEW i \in 1 .. Len(commits[d]), NEW p \in mine[d]
          PROVE  commits[d][i].offsets[p] <= position'[d][p]
      <4>1. commits[d][i].offsets[p] <= position[d][p] /\ position[d][p] <= position'[d][p]
        BY <2>1, <3>1 DEF SentByMember
      <4>2. position'[d][p] \in Nat
        BY <3>1
      <4>3. p \in Partition
        BY <3>1
      <4>4. commits[d][i].offsets[p] \in Nat /\ position[d][p] \in Nat
        BY <4>3, <3>1, <1>n
      <4> HIDE DEF TypeInv, TypeOK
      <4> QED BY <4>1, <4>2, <4>4
    <3>3. UNCHANGED <<committed, generation, mine, commits>>
      BY <1>2 DEF Fetch
    <3> QED BY <3>1, <3>2, <3>3 DEF SentByMember
  <2> QED BY <1>2, <2>2, <2>3 DEF Fetch, GroupInv
<1>5. ASSUME NEW c \in Consumer, Commit(c) PROVE GroupInv'
  <2> DEFINE q == Len(commits[c]) + 1
  <2>1. ShareInv'
    BY <1>5 DEF Commit, GroupInv, ShareInv
  <2>2. ASSUME NEW d \in members PROVE SentByMember(d)'
    <3>1. CASE d # c
      BY <1>5, <3>1 DEF Commit, GroupInv, SentByMember
    <3>2. CASE d = c
      <4>1. /\ Len(commits'[c]) = q
            /\ \A i \in 1 .. q - 1 : commits'[c][i] = commits[c][i]
            /\ commits'[c][q] = [gen |-> gen[c], parts |-> mine[c], offsets |-> position[c]]
        BY <1>5 DEF Commit
      <4>2. gen[c] = generation /\ \A p \in mine[c] : committed[p] <= position[c][p]
        BY <3>2 DEF GroupInv, ShareInv
      <4>3. \A i \in 1 .. q - 1 : \A p \in mine[c] :
              commits[c][i].offsets[p] <= position[c][p]
        BY <3>2 DEF GroupInv, SentByMember
      <4>4. UNCHANGED <<committed, generation, mine, position>>
        BY <1>5 DEF Commit
      <4>5. /\ Len(commits[c]) \in Nat /\ mine[c] \subseteq Partition
            /\ \A i \in 1 .. q : i # q => i \in 1 .. q - 1 /\ i \in 1 .. Len(commits[c])
        <5>1. Len(commits[c]) \in Nat
          OBVIOUS
        <5>2. mine[c] \subseteq Partition
          OBVIOUS
        <5>3. ASSUME NEW i \in 1 .. q, i # q
              PROVE  i \in 1 .. q - 1 /\ i \in 1 .. Len(commits[c])
          BY <5>1, <5>3
        <5> QED BY <5>1, <5>2, <5>3
      <4>6. ASSUME NEW i \in 1 .. q, NEW p \in mine[c]
            PROVE  /\ commits'[c][i].gen = generation /\ commits'[c][i].parts = mine[c]
                   /\ committed[p] <= commits'[c][i].offsets[p]
                   /\ commits'[c][i].offsets[p] <= position[c][p]
        <5>1. CASE i = q
          BY <5>1, <4>1, <4>2
        <5>2. CASE i # q
          <6>1. i \in 1 .. q - 1 /\ i \in 1 .. Len(commits[c])
            BY <5>2, <4>5
          <6> QED BY <6>1, <4>1, <4>3, <3>2 DEF GroupInv, SentByMember
        <5> QED BY <5>1, <5>2
      <4>7. ASSUME NEW i \in 1 .. q
            PROVE  commits'[c][i].gen = generation /\ commits'[c][i].parts = mine[c]
        <5>1. CASE i = q
          BY <5>1, <4>1, <4>2
        <5>2. CASE i # q
          <6>1. i \in 1 .. q - 1 /\ i \in 1 .. Len(commits[c])
            BY <5>2, <4>5
          <6> QED BY <6>1, <4>1, <3>2 DEF GroupInv, SentByMember
        <5> QED BY <5>1, <5>2
      <4>8. ASSUME NEW i \in 1 .. q, NEW j \in 1 .. q, i < j, NEW p \in mine[c]
            PROVE  commits'[c][i].offsets[p] <= commits'[c][j].offsets[p]
        <5>1. CASE j = q
          BY <5>1, <4>1, <4>6
        <5>2. CASE j # q
          <6>1. j \in 1 .. q - 1 /\ j \in 1 .. Len(commits[c])
            BY <5>2, <4>5
          <6>2. i # q
            BY <6>1, <4>5, <4>8
          <6>3. i \in 1 .. q - 1 /\ i \in 1 .. Len(commits[c])
            BY <6>2, <4>5
          <6> QED BY <6>1, <6>3, <4>1, <4>8, <3>2 DEF GroupInv, SentByMember
        <5> QED BY <5>1, <5>2
      <4> QED BY <3>2, <4>1, <4>4, <4>6, <4>7, <4>8 DEF SentByMember
    <3> QED BY <3>1, <3>2
  <2> QED BY <1>5, <2>1, <2>2 DEF Commit, GroupInv
<1>c. ASSUME NEW c \in Consumer, commits[c] # <<>>,
             commits' = [commits EXCEPT ![c] = Tail(@)],
             UNCHANGED <<generation, members, gen, mine, position>>,
             NEW d \in members,
             \A p \in mine[d] : \A i \in 1 .. Len(commits'[d]) :
               committed'[p] <= commits'[d][i].offsets[p]
      PROVE  SentByMember(d)'
  <2>1. CASE d # c
    <3>1. d \in Consumer /\ SentByMember(d)
      BY DEF GroupInv
    <3>2. commits'[d] = commits[d] /\ UNCHANGED <<generation, mine, position>>
      BY <1>c, <2>1, <3>1
    <3> HIDE DEF TypeInv, TypeOK
    <3> QED BY <1>c, <3>1, <3>2 DEF SentByMember
  <2>2. CASE d = c
    <3>1. /\ Len(commits'[c]) = Len(commits[c]) - 1 /\ Len(commits[c]) \in Nat
          /\ \A i \in 1 .. Len(commits'[c]) : commits'[c][i] = commits[c][i + 1]
      BY <1>c
    <3>2. \A i \in 1 .. Len(commits'[c]) : i + 1 \in 1 .. Len(commits[c])
      BY <3>1
    <3>3. SentByMember(c) /\ UNCHANGED <<generation, mine, position>>
      BY <1>c, <2>2 DEF GroupInv
    <3>4. ASSUME NEW i \in 1 .. Len(commits'[c])
          PROVE  /\ commits'[c][i].gen = generation /\ commits'[c][i].parts = mine[c]
                 /\ \A p \in mine[c] : commits'[c][i].offsets[p] <= position[c][p]
      <4>1. i + 1 \in 1 .. Len(commits[c]) /\ commits'[c][i] = commits[c][i + 1]
        BY <3>1, <3>2
      <4> HIDE DEF TypeInv, TypeOK
      <4> QED BY <4>1, <3>3 DEF SentByMember
    <3>5. ASSUME NEW i \in 1 .. Len(commits'[c]), NEW j \in 1 .. Len(commits'[c]), i < j,
                 NEW p \in mine[c]
          PROVE  commits'[c][i].offsets[p] <= commits'[c][j].offsets[p]
      <4>1. i + 1 \in 1 .. Len(commits[c]) /\ j + 1 \in 1 .. Len(commits[c]) /\ i + 1 < j + 1
        <5> HIDE DEF TypeInv, TypeOK
        <5>1. i \in Nat /\ j \in Nat
          OBVIOUS
        <5> QED BY <3>2, <3>5, <5>1
      <4> QED BY <4>1, <3>1, <3>3 DEF SentByMember
    <3> QED BY <1>c, <2>2, <3>3, <3>4, <3>5 DEF SentByMember
  <2> QED BY <2>1, <2>2
<1>8. ASSUME NEW c \in Consumer, Deliver(c) PROVE GroupInv'
  <2>1. \A p \in Partition :
          /\ committed'[p] >= committed[p]
          /\ committed'[p] # committed[p] =>
               c \in members /\ p \in mine[c] /\ committed'[p] = commits[c][1].offsets[p]
    BY <1>8, DeliverMovesForward
  <2>2. 1 \in 1 .. Len(commits[c])
    BY <1>8 DEF Deliver
  <2>3. ShareInv'
    <3>1. ASSUME NEW d \in members, NEW p \in mine[d] PROVE committed'[p] <= position[d][p]
      <4>1. CASE committed'[p] = committed[p]
        BY <4>1, <3>1 DEF GroupInv, ShareInv
      <4>2. CASE committed'[p] # committed[p]
        <5>1. c = d /\ committed'[p] = commits[c][1].offsets[p]
          BY <2>1, <4>2, <3>1 DEF GroupInv, ShareInv
        <5> QED BY <5>1, <2>2, <3>1 DEF GroupInv, SentByMember
      <4> QED BY <4>1, <4>2
    <3> QED BY <1>8, <3>1 DEF Deliver, GroupInv, ShareInv
  <2>4. ASSUME NEW d \in members PROVE SentByMember(d)'
    <3>1. ASSUME NEW p \in mine[d], NEW i \in 1 .. Len(commits'[d])
          PROVE  committed'[p] <= commits'[d][i].offsets[p]
      <4>1. CASE d = c
        <5>1. i + 1 \in 1 .. Len(commits[c]) /\ commits'[c][i] = commits[c][i + 1] /\ 1 < i + 1
          BY <1>8, <4>1 DEF Deliver
        <5>2. committed[p] <= commits[c][i + 1].offsets[p]
          BY <4>1, <5>1 DEF GroupInv, SentByMember
        <5>3. commits[c][1].offsets[p] <= commits[c][i + 1].offsets[p]
          BY <4>1, <5>1, <2>2 DEF GroupInv, SentByMember
        <5> QED BY <2>1, <4>1, <5>1, <5>2, <5>3
      <4>2. CASE d # c
        <5>1. committed'[p] = committed[p]
          BY <2>1, <4>2 DEF GroupInv, ShareInv
        <5>2. commits'[d] = commits[d]
          BY <1>8, <4>2 DEF Deliver
        <5> QED BY <5>1, <5>2 DEF GroupInv, SentByMember
      <4> QED BY <4>1, <4>2
    <3> QED BY <1>8, <1>c, <3>1 DEF Deliver
  <2> QED BY <1>8, <2>3, <2>4 DEF Deliver, GroupInv
<1>9. ASSUME NEW c \in Consumer, Lose(c) PROVE GroupInv'
  <2>1. ASSUME NEW d \in members PROVE SentByMember(d)'
    <3>1. ASSUME NEW p \in mine[d], NEW i \in 1 .. Len(commits'[d])
          PROVE  committed'[p] <= commits'[d][i].offsets[p]
      <4>1. PICK j \in 1 .. Len(commits[d]) : commits'[d][i] = commits[d][j]
        <5>1. CASE d = c
          <6>1. i + 1 \in 1 .. Len(commits[c]) /\ commits'[c][i] = commits[c][i + 1]
            BY <1>9, <5>1 DEF Lose
          <6> QED BY <5>1, <6>1
        <5>2. CASE d # c
          BY <1>9, <5>2 DEF Lose
        <5> QED BY <5>1, <5>2
      <4> QED BY <1>9, <4>1 DEF Lose, GroupInv, SentByMember
    <3> QED BY <1>9, <1>c, <3>1 DEF Lose
  <2> QED BY <1>9, <2>1 DEF Lose, GroupInv, ShareInv
<1>10. ASSUME NEW p \in Partition, Produce(p) PROVE GroupInv'
  BY <1>10, <1>a DEF Produce
<1>11. CASE Rebalance
  <2>1. ShareInv'
    BY <1>11 DEF Rebalance, Live, ShareInv
  <2>2. ASSUME NEW d \in members' PROVE SentByMember(d)'
    <3>1. commits'[d] = <<>>
      BY <1>11 DEF Rebalance, Live
    <3>2. Len(commits'[d]) = 0
      BY <3>1
    <3> QED BY <3>2 DEF SentByMember
  <2> QED BY <2>1, <2>2 DEF GroupInv
<1>12. CASE UNCHANGED vars
  BY <1>12, <1>a DEF vars
<1> QED
  BY <1>1, <1>2, <1>5, <1>8, <1>9, <1>10, <1>11, <1>12 DEF Next, Step

LEMMA Grouping == Spec => []GroupInv
BY Typing, GroupInit, GroupNext, PTL DEF Spec

\* However consumers are thrown out, crash or lose commits, the group's
\* offsets only move forward.
THEOREM CommitsForward == Spec => CommitsMoveForward
<1>1. TypeInv /\ GroupInv /\ [Next]_vars =>
        [\A p \in Partition : committed'[p] >= committed[p]]_vars
  <2> SUFFICES ASSUME TypeInv, GroupInv, Next
               PROVE  \A p \in Partition : committed'[p] >= committed[p]
    OBVIOUS
  <2>1. CASE \E c \in Consumer : Deliver(c)
    BY <2>1, DeliverMovesForward
  <2>2. CASE ~ \E c \in Consumer : Deliver(c)
    <3>1. committed' = committed
      BY <2>2 DEF Next, Step, Start, Fetch, EmptyPoll, Process, Commit, Close, Crash,
                  Lose, Produce, Rebalance, broker
    <3> QED BY <3>1 DEF TypeInv, TypeOK, Offset
  <2> QED BY <2>1, <2>2
<1> QED BY <1>1, Typing, Grouping, PTL DEF Spec, CommitsMoveForward

-----------------------------------------------------------------------------
(* All that was processed is committed in the end.  While nobody crashes,   *)
(* every partition has an owner in the present generation, and what is      *)
(* processed of it is below the offset that this owner last asked to        *)
(* commit, or, until it commits, below its position.  Nobody else has       *)
(* partitions, except those who have stopped, whose commits have arrived.   *)
Clean == Faults \subseteq {"crash"} /\ \A c \in Consumer : pc[c] # "crashed"

Known(c, p) == IF commits[c] = <<>> THEN committed[p]
               ELSE commits[c][Len(commits[c])].offsets[p]
Below(c, p) == \A o \in processed[p] :
  o < (IF pc[c] = "commit" THEN position[c][p] ELSE Known(c, p))

OwnerInv(c) ==
  /\ pc[c] # "new"
  /\ pc[c] = "process" => hand[c] \in mine[c]
  /\ \A p \in mine[c] : Below(c, p)
OutsiderInv(c) ==
  /\ pc[c] \in {"new", "poll", "close", "stopped"}
  /\ pc[c] # "stopped" => mine[c] = {}
OwnedInv ==
  /\ members = {} => \A p \in Partition : processed[p] = {}
  /\ members # {} => \A p \in Partition : \E c \in members : p \in mine[c]

CoverInv ==
  /\ OwnedInv
  /\ \A c \in members : OwnerInv(c)
  /\ \A c \in Consumer \ members : OutsiderInv(c)
  /\ \A c \in Consumer : pc[c] = "stopped" => commits[c] = <<>>

LEMMA CoverInit == Init => CoverInv
BY DEF Init, CoverInv, OwnedInv, OutsiderInv

\* A crashed consumer stays so.
LEMMA CleanBefore == TypeInv /\ [Next]_vars /\ Clean' => Clean
<1> SUFFICES ASSUME TypeInv, [Next]_vars, Clean', NEW d \in Consumer, pc[d] = "crashed"
             PROVE  pc'[d] = "crashed"
  BY DEF Clean
<1>1. pc \in [Consumer -> {"new", "poll", "process", "commit", "close", "stopped", "crashed"}]
  BY DEF TypeInv, TypeOK
<1>2. CASE \E c \in Consumer : Start(c) \/ Fetch(c) \/ Process(c) \/ Commit(c) \/ Close(c)
                                \/ Crash(c) \/ EmptyPoll(c)
  BY <1>1, <1>2 DEF Start, Fetch, Process, Commit, Close, Crash, EmptyPoll, Goto
<1>3. CASE ~ \E c \in Consumer : Start(c) \/ Fetch(c) \/ Process(c) \/ Commit(c) \/ Close(c)
                                  \/ Crash(c) \/ EmptyPoll(c)
  BY <1>3 DEF Next, Step, Deliver, Lose, Produce, Rebalance, vars
<1> QED BY <1>2, <1>3

\* What the owner of a partition last asked to commit is not above its position.
LEMMA KnownIsRead ==
  ASSUME TypeInv, GroupInv, NEW c \in members, NEW p \in mine[c]
  PROVE  Known(c, p) \in Nat /\ position[c][p] \in Nat /\ Known(c, p) <= position[c][p]
<1>1. c \in Consumer /\ p \in Partition /\ position[c][p] \in Nat /\ committed[p] \in Nat
  BY PositionType
<1>2. commits[c] \in Seq(Request)
  BY <1>1 DEF TypeInv, TypeOK
<1>3. CASE commits[c] = <<>>
  BY <1>1, <1>3 DEF Known, GroupInv, ShareInv
<1>4. CASE commits[c] # <<>>
  <2> DEFINE n == Len(commits[c])
  <2>1. n \in 1 .. n
    BY <1>2, <1>4
  <2>2. commits[c][n] \in Request
    BY <1>2, <2>1
  <2>3. commits[c][n].offsets[p] \in Nat
    BY <1>1, <2>2 DEF Request, Offset
  <2>4. commits[c][n].offsets[p] <= position[c][p]
    BY <2>1 DEF GroupInv, SentByMember
  <2> QED BY <1>1, <1>4, <2>3, <2>4 DEF Known
<1> QED BY <1>3, <1>4

\* The last of a queue stays when its head is taken, if there is another.
LEMMA TailOfOne ==
  ASSUME NEW S, NEW s \in Seq(S), Len(s) = 1
  PROVE  Tail(s) = <<>>
<1>1. Tail(s) \in Seq(S) /\ Len(Tail(s)) = 0
  OBVIOUS
<1> QED BY <1>1, EmptySeq

LEMMA LastOfTail ==
  ASSUME NEW S, NEW s \in Seq(S), 1 \in 1 .. Len(s), Len(s) # 1
  PROVE  Tail(s) # <<>> /\ Tail(s)[Len(Tail(s))] = s[Len(s)]
<1>1. Len(s) \in Nat /\ Len(s) > 1 /\ Len(Tail(s)) = Len(s) - 1
  OBVIOUS
<1>2. Tail(s)[Len(s) - 1] = s[Len(s)]
  BY <1>1
<1> QED BY <1>1, <1>2

LEMMA CoverNext ==
  TypeInv /\ GroupInv /\ Clean /\ Clean' /\ CoverInv /\ [Next]_vars => CoverInv'
<1> SUFFICES ASSUME TypeInv, GroupInv, Clean, Clean', CoverInv, [Next]_vars
             PROVE  CoverInv'
  OBVIOUS
<1>t. /\ members \subseteq Consumer
      /\ pc \in [Consumer -> {"new", "poll", "process", "commit", "close", "stopped",
                              "crashed"}]
      /\ mine \in [Consumer -> SUBSET Partition]
      /\ hand \in [Consumer -> Partition \cup {None}]
      /\ commits \in [Consumer -> Seq(Request)]
      /\ processed \in [Partition -> SUBSET Nat]
      /\ position \in [Consumer -> [Partition -> Nat]]
      /\ committed \in [Partition -> Nat]
  BY DEF TypeInv, TypeOK, Offset
\* Steps that neither process, commit, deliver nor rebalance.
<1>a. ASSUME UNCHANGED <<committed, members, mine, commits, processed>>,
             \A c \in members : pc'[c] # "new" /\ (pc[c] # "commit" => pc'[c] # "commit")
               /\ (pc[c] = "commit" => pc'[c] = "commit" /\ position'[c] = position[c]),
             \A c \in members : pc'[c] = "process" => hand'[c] \in mine[c],
             \A c \in Consumer \ members : pc'[c] \in {"new", "poll", "close", "stopped"}
               /\ (pc[c] = "stopped" => pc'[c] = "stopped"),
             \A c \in Consumer : pc'[c] = "stopped" => commits[c] = <<>>
      PROVE  CoverInv'
  <2>1. \A c \in members : OwnerInv(c)'
    BY <1>a DEF CoverInv, OwnerInv, Below, Known
  <2>2. \A c \in Consumer \ members : OutsiderInv(c)'
    BY <1>a DEF CoverInv, OutsiderInv
  <2> QED BY <1>a, <2>1, <2>2 DEF CoverInv, OwnedInv
<1>1. ASSUME NEW c \in Consumer, Start(c) PROVE CoverInv'
  BY <1>1, <1>t, <1>a DEF Start, Goto, broker, CoverInv, OwnerInv, OutsiderInv
<1>2. ASSUME NEW c \in Consumer, Fetch(c) PROVE CoverInv'
  <2>1. PICK q \in mine[c] : /\ hand' = [hand EXCEPT ![c] = q]
                             /\ position' = [position EXCEPT ![c][q] = @ + 1]
    BY <1>2 DEF Fetch
  <2>2. c \in members
    BY <1>2 DEF Fetch, CoverInv, OutsiderInv
  <2>3. \A d \in Consumer : d # c => position'[d] = position[d] /\ hand'[d] = hand[d]
    BY <2>1, <1>t
  <2>4. hand'[c] \in mine[c]
    BY <2>1, <1>t
  <2> QED BY <1>2, <2>2, <2>3, <2>4, <1>t, <1>a
          DEF Fetch, Goto, broker, CoverInv, OwnerInv, OutsiderInv
<1>3. ASSUME NEW c \in Consumer, EmptyPoll(c) PROVE CoverInv'
  BY <1>3, <1>t, <1>a DEF EmptyPoll, Goto, broker, CoverInv, OwnerInv, OutsiderInv
<1>6. ASSUME NEW c \in Consumer, Close(c) PROVE CoverInv'
  BY <1>6, <1>t, <1>a DEF Close, Goto, broker, CoverInv, OwnerInv, OutsiderInv
<1>7. ASSUME NEW c \in Consumer, Crash(c) PROVE CoverInv'
  BY <1>7, <1>t DEF Crash, Goto, Clean
<1>9. ASSUME NEW c \in Consumer, Lose(c) PROVE CoverInv'
  BY <1>9 DEF Lose, Clean
<1>10. ASSUME NEW p \in Partition, Produce(p) PROVE CoverInv'
  BY <1>10, <1>t, <1>a DEF Produce, CoverInv, OwnerInv, OutsiderInv
<1>12. CASE UNCHANGED vars
  BY <1>12, <1>t, <1>a DEF vars, broker, CoverInv, OwnerInv, OutsiderInv
<1>4. ASSUME NEW c \in Consumer, Process(c) PROVE CoverInv'
  <2> DEFINE q == hand[c]
  <2>1. c \in members /\ q \in mine[c] /\ q \in Partition
    BY <1>4, <1>t DEF Process, CoverInv, OutsiderInv, OwnerInv
  <2>2. /\ UNCHANGED <<committed, members, mine, commits, position>>
        /\ pc' = [pc EXCEPT ![c] = "commit"] /\ pc[c] = "process"
        /\ processed' = [processed EXCEPT ![q] = @ \cup {position[c][q] - 1}]
    BY <1>4 DEF Process, Goto, broker
  <2>3. OwnedInv'
    BY <2>1, <2>2 DEF CoverInv, OwnedInv
  <2>4. ASSUME NEW d \in members PROVE OwnerInv(d)'
    <3>1. CASE d # c
      <4>1. pc'[d] = pc[d] /\ hand'[d] = hand[d] /\ d \in Consumer
        BY <1>4, <2>2, <1>t, <3>1 DEF Process
      <4>2. ASSUME NEW p \in mine[d] PROVE Below(d, p)'
        <5>1. p # q
          BY <2>1, <3>1 DEF GroupInv, ShareInv
        <5>2. processed'[p] = processed[p]
          BY <2>2, <5>1, <1>t
        <5>3. Below(d, p)
          BY DEF CoverInv, OwnerInv
        <5> QED BY <2>2, <4>1, <5>2, <5>3 DEF Below, Known
      <4> QED BY <2>2, <4>1, <4>2 DEF CoverInv, OwnerInv
    <3>2. CASE d = c
      <4>1. pc'[c] = "commit"
        BY <2>2, <1>t
      <4>2. ASSUME NEW p \in mine[c], NEW o \in processed'[p] PROVE o < position[c][p]
        <5>1. CASE o \in processed[p]
          <6>1. o < Known(c, p) /\ o \in Nat
            BY <2>1, <2>2, <5>1, <1>t DEF CoverInv, OwnerInv, Below
          <6> QED BY <6>1, <2>1, KnownIsRead
        <5>2. CASE o \notin processed[p]
          <6>1. p = q /\ o = position[c][q] - 1
            BY <2>2, <5>2, <1>t
          <6>2. position[c][q] \in Nat
            BY <2>1, <1>t
          <6> QED BY <6>1, <6>2
        <5> QED BY <5>1, <5>2
      <4> QED BY <2>2, <3>2, <4>1, <4>2 DEF OwnerInv, Below
    <3> QED BY <3>1, <3>2
  <2>5. \A d \in Consumer \ members : OutsiderInv(d)'
    BY <2>1, <2>2, <1>t DEF CoverInv, OutsiderInv
  <2>6. \A d \in Consumer : pc'[d] = "stopped" => commits'[d] = <<>>
    BY <2>2, <1>t DEF CoverInv
  <2> QED BY <2>2, <2>3, <2>4, <2>5, <2>6 DEF CoverInv
<1>5. ASSUME NEW c \in Consumer, Commit(c) PROVE CoverInv'
  <2> DEFINE m == [gen |-> gen[c], parts |-> mine[c], offsets |-> position[c]]
  <2>1. c \in members
    BY <1>5, <1>t DEF Commit, CoverInv, OutsiderInv
  <2>2. /\ UNCHANGED <<committed, members, mine, processed, position, hand>>
        /\ pc' = [pc EXCEPT ![c] = "poll"] /\ pc[c] = "commit"
        /\ commits' = [commits EXCEPT ![c] = Append(@, m)]
    BY <1>5 DEF Commit, Goto, broker
  <2>3. ASSUME NEW d \in members PROVE OwnerInv(d)'
    <3>1. CASE d # c
      <4>1. pc'[d] = pc[d] /\ commits'[d] = commits[d] /\ d \in Consumer
        BY <2>2, <1>t, <3>1
      <4>2. OwnerInv(d)
        BY DEF CoverInv
      <4> QED BY <2>2, <4>1, <4>2 DEF OwnerInv, Below, Known
    <3>2. CASE d = c
      <4>1. pc'[c] = "poll" /\ commits'[c] = Append(commits[c], m)
        BY <2>2, <1>t
      <4>2. commits[c] \in Seq(Request)
        BY <1>t
      <4>3. commits'[c] # <<>> /\ commits'[c][Len(commits'[c])] = m
        BY <4>1, <4>2
      <4>4. \A p \in mine[c] : Known(c, p)' = position[c][p]
        BY <4>3 DEF Known
      <4>5. \A p \in mine[c] : \A o \in processed[p] : o < position[c][p]
        BY <2>1, <2>2 DEF CoverInv, OwnerInv, Below
      <4>6. \A p \in mine[c] : Below(c, p)'
        BY <2>2, <4>1, <4>4, <4>5 DEF Below
      <4> QED BY <2>2, <3>2, <4>1, <4>6 DEF OwnerInv
    <3> QED BY <3>1, <3>2
  <2>4. \A d \in Consumer \ members : OutsiderInv(d)'
    BY <2>1, <2>2, <1>t DEF CoverInv, OutsiderInv
  <2>5. \A d \in Consumer : pc'[d] = "stopped" => commits'[d] = <<>>
    BY <2>2, <1>t DEF CoverInv
  <2> QED BY <2>2, <2>3, <2>4, <2>5 DEF CoverInv, OwnedInv
<1>8. ASSUME NEW c \in Consumer, Deliver(c) PROVE CoverInv'
  <2>1. /\ UNCHANGED <<members, mine, processed, position, hand, pc>>
        /\ commits[c] # <<>> /\ commits' = [commits EXCEPT ![c] = Tail(@)]
    BY <1>8 DEF Deliver
  <2>2. \A p \in Partition : committed'[p] # committed[p] => c \in members /\ p \in mine[c]
    BY <1>8, DeliverMovesForward
  <2>3. ASSUME NEW d \in members, NEW p \in mine[d] PROVE Known(d, p)' = Known(d, p)
    <3>1. CASE d # c
      <4>1. commits'[d] = commits[d]
        BY <2>1, <3>1, <1>t
      <4>2. committed'[p] = committed[p]
        BY <2>2, <3>1, <1>t DEF GroupInv, ShareInv
      <4> QED BY <4>1, <4>2 DEF Known
    <3>2. CASE d = c
      <4>1. /\ commits[c] \in Seq(Request) /\ commits'[c] = Tail(commits[c])
            /\ 1 \in 1 .. Len(commits[c]) /\ Head(commits[c]) = commits[c][1]
        BY <2>1, <1>t
      <4>2. CASE Len(commits[c]) = 1
        <5>1. commits'[c] = <<>>
          BY <4>1, <4>2, TailOfOne
        <5>2. commits[c][1].gen = generation /\ commits[c][1].parts = mine[c]
          BY <4>1, <3>2 DEF GroupInv, SentByMember
        <5>3. committed'[p] = commits[c][1].offsets[p]
          BY <1>8, <1>t, <3>2, <4>1, <5>2 DEF Deliver
        <5> QED BY <3>2, <2>1, <4>2, <5>1, <5>3 DEF Known
      <4>3. CASE Len(commits[c]) # 1
        <5>1. /\ commits'[c] # <<>>
              /\ commits'[c][Len(commits'[c])] = commits[c][Len(commits[c])]
          BY <4>1, <4>3, LastOfTail
        <5> QED BY <3>2, <2>1, <5>1 DEF Known
      <4> QED BY <4>2, <4>3
    <3> QED BY <3>1, <3>2
  <2>4. \A d \in members : OwnerInv(d)'
    BY <2>1, <2>3 DEF CoverInv, OwnerInv, Below
  <2>5. \A d \in Consumer : pc'[d] = "stopped" => commits'[d] = <<>>
    BY <2>1, <1>t DEF CoverInv
  <2> QED BY <2>1, <2>4, <2>5 DEF CoverInv, OwnedInv, OutsiderInv
<1>11. CASE Rebalance
  <2>1. /\ members' = Live /\ Live # {} /\ \A c \in Live : pc[c] = "poll" /\ commits[c] = <<>>
        /\ UNCHANGED <<committed, pc, hand, commits, processed>>
        /\ \A c \in Live : mine'[c] \subseteq Partition
        /\ \A c \in Consumer \ Live : mine'[c] = mine[c]
        /\ \A p \in Partition : \E c \in Live : p \in mine'[c]
    <3> DEFINE joined == {c \in Live : pc[c] = "poll"}
    <3>1. joined = Live
      BY <1>11 DEF Rebalance, Clean
    <3>2. /\ joined # {} /\ members' = joined /\ \A c \in joined : commits[c] = <<>>
          /\ UNCHANGED <<committed, pc, hand, commits, processed>>
          /\ \E owner \in [Partition -> joined] :
               mine' = [c \in Consumer |-> IF c \in joined THEN {p \in Partition : owner[p] = c}
                                           ELSE mine[c]]
      BY <1>11 DEF Rebalance
    <3>3. \A c \in joined : pc[c] = "poll"
      OBVIOUS
    <3> HIDE DEF joined
    <3>4. PICK owner \in [Partition -> joined] :
            mine' = [c \in Consumer |-> IF c \in joined THEN {p \in Partition : owner[p] = c}
                                        ELSE mine[c]]
      BY <3>2
    <3>5. joined \subseteq Consumer /\ \A p \in Partition : owner[p] \in joined
      BY <3>1, <3>4 DEF Live
    <3>6. /\ \A c \in joined : mine'[c] \subseteq Partition
          /\ \A c \in Consumer \ joined : mine'[c] = mine[c]
          /\ \A p \in Partition : p \in mine'[owner[p]]
      BY <3>4, <3>5
    <3> QED BY <3>1, <3>2, <3>3, <3>5, <3>6
  <2>2. Live \subseteq Consumer
    BY DEF Live
  <2>4. ASSUME NEW p \in Partition, NEW o \in processed[p] PROVE o < committed[p]
    <3>1. PICK d \in members : p \in mine[d]
      BY <2>4 DEF CoverInv, OwnedInv
    <3>2. pc[d] # "new" /\ pc[d] # "crashed" /\ Below(d, p)
      BY <1>t, <3>1 DEF CoverInv, OwnerInv, Clean
    <3>3. pc[d] \in {"poll", "stopped"}
      <4>1. CASE d \in Live
        BY <2>1, <4>1
      <4>2. CASE d \notin Live
        BY <1>t, <3>2, <4>2 DEF Live
      <4> QED BY <4>1, <4>2
    <3>4. commits[d] = <<>>
      <4>1. CASE d \in Live
        BY <2>1, <4>1
      <4>2. CASE d \notin Live
        BY <1>t, <3>3, <4>2 DEF Live, CoverInv
      <4> QED BY <4>1, <4>2
    <3> QED BY <3>2, <3>3, <3>4 DEF Below, Known
  <2>5. OwnedInv'
    BY <2>1 DEF OwnedInv
  <2>6. ASSUME NEW d \in members' PROVE OwnerInv(d)'
    <3>1. d \in Live /\ d \in Consumer /\ mine'[d] \subseteq Partition
      BY <2>1, <2>2
    <3>2. pc'[d] = "poll" /\ commits'[d] = <<>>
      BY <2>1, <3>1
    <3>3. \A p \in mine'[d] : Below(d, p)'
      BY <2>1, <2>4, <3>1, <3>2 DEF Below, Known
    <3> QED BY <3>2, <3>3 DEF OwnerInv
  <2>7. ASSUME NEW d \in Consumer \ members' PROVE OutsiderInv(d)'
    <3>1. d \notin Live /\ mine'[d] = mine[d] /\ pc'[d] = pc[d]
      BY <2>1
    <3>2. pc[d] \in {"new", "stopped"}
      BY <1>t, <3>1 DEF Live, Clean
    <3>3. pc[d] = "new" => mine[d] = {}
      BY DEF CoverInv, OwnerInv, OutsiderInv
    <3> QED BY <3>1, <3>2, <3>3 DEF OutsiderInv
  <2>8. \A d \in Consumer : pc'[d] = "stopped" => commits'[d] = <<>>
    BY <2>1 DEF CoverInv
  <2> QED BY <2>5, <2>6, <2>7, <2>8 DEF CoverInv
<1> QED
  BY <1>1, <1>2, <1>3, <1>4, <1>5, <1>6, <1>7, <1>8, <1>9, <1>10, <1>11, <1>12
  DEF Next, Step

LEMMA Covering == Spec => [](Clean => CoverInv)
<1>1. Init => (Clean => CoverInv)
  BY CoverInit
<1>2. TypeInv /\ GroupInv /\ (Clean => CoverInv) /\ [Next]_vars => (Clean => CoverInv)'
  BY CleanBefore, CoverNext
<1> QED BY <1>1, <1>2, Typing, Grouping, PTL DEF Spec

\* Unless a consumer crashes, is thrown out or loses a commit, all that was
\* processed is committed when everybody has stopped.
THEOREM AllIsCommitted == Spec => []StopsCommitted
<1>1. TypeInv /\ SkipInv /\ (Clean => CoverInv) => StopsCommitted
  <2> SUFFICES ASSUME TypeInv, SkipInv, CoverInv, Live = {}, Clean, NEW p \in Partition
               PROVE  processed[p] = 0 .. committed[p] - 1
    BY DEF StopsCommitted, Clean
  <2>1. committed[p] \in Nat /\ processed[p] \subseteq Nat /\ members \subseteq Consumer
    BY DEF TypeInv, TypeOK, Offset
  <2>2. ASSUME NEW o \in 0 .. committed[p] - 1 PROVE o \in processed[p]
    BY <2>1 DEF SkipInv, CommittedInv, Before
  <2>3. ASSUME NEW o \in processed[p] PROVE o < committed[p]
    <3>1. PICK c \in members : p \in mine[c]
      BY <2>3 DEF CoverInv, OwnedInv
    <3>2. pc[c] \in {"new", "stopped"}
      BY <2>1 DEF TypeInv, TypeOK, Live, Clean
    <3>3. pc[c] = "stopped" /\ commits[c] = <<>> /\ Below(c, p)
      BY <2>1, <3>1, <3>2 DEF CoverInv, OwnerInv
    <3> QED BY <3>3 DEF Below, Known
  <2>4. processed[p] \subseteq 0 .. committed[p] - 1
    BY <2>1, <2>3
  <2> QED BY <2>2, <2>4
<1> QED BY <1>1, Typing, Skipping, Covering, PTL
=============================================================================
