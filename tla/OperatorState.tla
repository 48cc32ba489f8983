----------------------------- MODULE OperatorState -----------------------------
(***************************************************************************)
(* Flink's operator state, as CheckpointedFunctionDemo (a sink that        *)
(* buffers elements until there are Threshold of them) and                 *)
(* ListCheckpointedDemo (a count of elements) use it: each subtask holds   *)
(* its elements in memory, copies them into a list state when a barrier    *)
(* reaches it, and takes them back from there when the job is started      *)
(* again.  With another number of subtasks the list is split evenly.       *)
(*                                                                         *)
(* A behaviour is of one of the two jobs (demo).  Elements are numbered as *)
(* the source makes them.                                                  *)
(***************************************************************************)
EXTENDS Flink

CONSTANTS
  Threshold,       \* the sink's threshold (500)
  MaxElement       \* bound: elements

ASSUME ThresholdAssumption == Threshold \in Nat \ {0}
ASSUME ElementAssumption == MaxElement \in Nat /\ Barrier \notin 1 .. MaxElement

VARIABLES
  demo,
  next,             \* the number of the next element
  bufferedElements, \* the sink's list, by subtask
  count,            \* the counter's field, by subtask
  checkpointed,     \* the list state of each subtask
  sent,             \* history: elements that were ever sent to the sink
  emitted,          \* history: elements up to the restored savepoint, and since
  cut, savedCut,    \* history: emitted at the barrier, and at the savepoint
  shrunk            \* history: was restored with fewer subtasks

operator == <<bufferedElements, count, checkpointed>>
cuts == <<cut, savedCut>>
vars == <<runtime, demo, next, operator, sent, emitted, cuts, shrunk>>

Element == 1 .. MaxElement
Sink == demo = "CheckpointedFunctionDemo"
Counter == demo = "ListCheckpointedDemo"

TypeOK ==
  /\ Sink \/ Counter
  /\ RuntimeTypeOK(Element, Seq(0 .. MaxElement))
  /\ next \in 1 .. MaxElement + 1
  /\ bufferedElements \in [Slot -> Seq(Element)]
  /\ count \in [Slot -> 0 .. MaxElement]
  /\ checkpointed \in [Slot -> Seq(0 .. MaxElement)]
  /\ sent \subseteq Element /\ emitted \subseteq Element
  /\ cut \subseteq Element /\ savedCut \subseteq Element
  /\ shrunk \in BOOLEAN

Init ==
  /\ demo \in {"CheckpointedFunctionDemo", "ListCheckpointedDemo"}
  /\ RuntimeInit
  /\ next = 1
  /\ bufferedElements = Nowhere(<<>>) /\ count = Nowhere(0)
  /\ checkpointed = Nowhere(<<>>)
  /\ sent = {} /\ emitted = {} /\ cut = {} /\ savedCut = {}
  /\ shrunk = FALSE

-----------------------------------------------------------------------------
(* The runtime.                                                            *)

\* RandomLetterAndNumberSource: the elements are dealt out to the subtasks.
Emit ==
  /\ next <= MaxElement
  /\ \E s \in Subtask : Deal(s, next)
  /\ next' = next + 1
  /\ emitted' = emitted \cup {next}
  /\ UNCHANGED <<demo, operator, sent, cuts, shrunk>>

Save ==
  /\ Trigger
  /\ cut' = emitted
  /\ UNCHANGED <<demo, next, operator, sent, emitted, savedCut, shrunk>>

\* The list state of s becomes part of the savepoint.
SaveList(s) ==
  /\ Acknowledge(s, checkpointed'[s])
  /\ savedCut' = IF Completes(s) THEN cut ELSE savedCut
  /\ UNCHANGED cut

\* getListState: as it was with as many subtasks, else the s-th of p even parts.
Share(s, p) ==
  LET all == FlattenSeq(savepoint)
      base == Len(all) \div p
      rest == Len(all) % p
      before(t) == (t - 1) * base + (IF t - 1 < rest THEN t - 1 ELSE rest)
  IN IF p = Len(savepoint) THEN savepoint[s]
     ELSE SubSeq(all, before(s) + 1, before(s + 1))

-----------------------------------------------------------------------------
(* CheckpointedFunctionDemo.                                               *)

\* Exactly at the threshold the buffer is sent and cleared.
invoke(s) ==
  /\ Sink /\ HasElement(s)
  /\ LET elements == Append(bufferedElements[s], Head(channel[s])) IN
       IF Len(elements) = Threshold
       THEN /\ sent' = sent \cup ToSet(elements)
            /\ bufferedElements' = [bufferedElements EXCEPT ![s] = <<>>]
       ELSE /\ bufferedElements' = [bufferedElements EXCEPT ![s] = elements]
            /\ UNCHANGED sent
  /\ Receive(s)
  /\ UNCHANGED <<demo, next, count, checkpointed, emitted, cuts, shrunk>>

snapshotSink_NoClear(s) ==   \* slip: checkpointedState.clear() is missing
  /\ Sink /\ AtBarrier(s)
  /\ checkpointed' = [checkpointed EXCEPT ![s] = @ \o bufferedElements[s]]
  /\ SaveList(s)
  /\ UNCHANGED <<demo, next, bufferedElements, count, sent, emitted, shrunk>>

\* snapshotState(): what an earlier snapshot or the restore left in the list
\* state is cleared.
snapshotSink(s) ==
  /\ Sink /\ AtBarrier(s)
  /\ checkpointed' = [checkpointed EXCEPT ![s] = bufferedElements[s]]
  /\ SaveList(s)
  /\ UNCHANGED <<demo, next, bufferedElements, count, sent, emitted, shrunk>>

\* initializeState(), in every subtask: the buffer is the restored list.
initializeState ==
  bufferedElements' = IF Sink THEN checkpointed' ELSE bufferedElements

-----------------------------------------------------------------------------
(* ListCheckpointedDemo.                                                   *)

flatMap_Twice(s) ==   \* slip: collects ++count
  /\ Counter /\ HasElement(s)
  /\ count' = [count EXCEPT ![s] = @ + 2]
  /\ Receive(s)
  /\ UNCHANGED <<demo, next, bufferedElements, checkpointed, sent, emitted, cuts,
                 shrunk>>

flatMap(s) ==
  /\ Counter /\ HasElement(s)
  /\ count' = [count EXCEPT ![s] = @ + 1]
  /\ Receive(s)
  /\ UNCHANGED <<demo, next, bufferedElements, checkpointed, sent, emitted, cuts,
                 shrunk>>

snapshotCounter(s) ==
  /\ Counter /\ AtBarrier(s)
  /\ checkpointed' = [checkpointed EXCEPT ![s] = <<count[s]>>]
  /\ SaveList(s)
  /\ UNCHANGED <<demo, next, bufferedElements, count, sent, emitted, shrunk>>

SumOf(list) ==
  LET sum[n \in 0 .. Len(list)] == IF n = 0 THEN 0 ELSE sum[n - 1] + list[n]
  IN sum[Len(list)]

\* restoreState(), in every subtask: the counts of all subtasks it takes over.
restoreState ==
  count' = [s \in Slot |-> IF Counter THEN SumOf(checkpointed'[s]) ELSE 0]

-----------------------------------------------------------------------------
\* The restored list state is split among p subtasks, and each initialises itself.
Restart(p) ==
  /\ Redeploy(p)
  /\ checkpointed' = [s \in Slot |-> IF savepoint # <<>> /\ s <= p THEN Share(s, p)
                                     ELSE <<>>]
  /\ initializeState /\ restoreState
  /\ emitted' = savedCut
  /\ shrunk' = (p < Len(savepoint) \/ (shrunk /\ savepoint # <<>>))
  /\ UNCHANGED <<demo, next, sent, cuts>>

Next ==
  \/ Emit \/ Save
  \/ \E s \in Subtask :
       invoke(s) \/ snapshotSink(s) \/ flatMap(s) \/ snapshotCounter(s)
  \/ \E p \in Slot : Restart(p)

Spec == Init /\ [][Next]_vars

-----------------------------------------------------------------------------
(* Properties.                                                             *)

Held == UNION {ToSet(bufferedElements[s]) : s \in Subtask}
UnderWay == (UNION {ToSet(channel[s]) : s \in Subtask}) \ {Barrier}

\* No element of the present history is lost between the buffers, whenever the
\* snapshot is taken and however many subtasks take the buffers over: it is on
\* its way, buffered, or was sent.
NothingLost == Sink => emitted \subseteq UnderWay \cup Held \cup sent

\* Nor does a restore, a second snapshot or a change of parallelism put an
\* element in two places: each buffered element will be sent once.
HeldOnce ==
  Sink => \A s, t \in Subtask :
            \A i \in DOMAIN bufferedElements[s], j \in DOMAIN bufferedElements[t] :
              bufferedElements[s][i] = bufferedElements[t][j] => s = t /\ i = j

\* The counts of all subtasks add up to the number of elements, although each
\* snapshot is taken at another time and the counts move between subtasks: each
\* element that is not on its way is counted by one of them, once.
Counted == emitted \ UnderWay
CountsAddUp ==
  Counter => \E by \in [Counted -> Subtask] :
               \A s \in Subtask : count[s] = Cardinality({e \in Counted : by[e] = s})

\* The threshold is compared for equality, so a buffer that reached it would
\* never be sent again.  Nothing but a restore with fewer subtasks, each of
\* which takes over several buffers, makes one that long.
FullOnlyWhenShrunk ==
  \A s \in Subtask : Len(bufferedElements[s]) >= Threshold => shrunk

\* Any savepoint is a sound start with any parallelism: after it both demos hold
\* each element of the present history once, and nothing but a merge of buffers
\* goes past the threshold.
SavepointsSound == NothingLost /\ HeldOnce /\ CountsAddUp /\ FullOnlyWhenShrunk
=============================================================================
