--------------------------------- MODULE Flink ---------------------------------
(***************************************************************************)
(* What the state demos rely on of Flink's runtime: the parallel subtasks  *)
(* of one operator behind a source, the barriers that cut the stream into  *)
(* what a savepoint (or checkpoint) covers and what it does not, and the   *)
(* start of a job from a savepoint, perhaps with another number of         *)
(* subtasks.  What a subtask puts into a savepoint, and what it makes of   *)
(* one, is the business of the module that uses this one.                  *)
(*                                                                         *)
(* The demos' sources keep no state: what they emitted after the savepoint *)
(* is gone when the job starts again.                                      *)
(***************************************************************************)
EXTENDS Naturals, FiniteSets, SequencesExt

CONSTANTS
  Barrier,         \* unlike any element
  MaxParallelism,  \* bound: subtasks
  MaxSavepoint,    \* bound: savepoints
  MaxRestart       \* bound: starts from a savepoint or anew

ASSUME ParallelismAssumption == MaxParallelism \in Nat \ {0}
ASSUME RuntimeBounds == MaxSavepoint \in Nat /\ MaxRestart \in Nat

VARIABLES
  par,        \* the present parallelism
  channel,    \* channel[s]: elements and barriers under way to subtask s
  saving,     \* a savepoint is under way
  acked,      \* the subtasks that have taken it
  taken,      \* taken[s]: what subtask s put into it
  savepoint,  \* the last complete one: what each subtask of then put into it
  saves, restarts  \* how many of the bounds are used up

runtime == <<par, channel, saving, acked, taken, savepoint, saves, restarts>>

Slot == 1 .. MaxParallelism
Subtask == 1 .. par
Nowhere(v) == [s \in Slot |-> v]

RuntimeTypeOK(Element, Snapshot) ==
  /\ par \in Slot
  /\ channel \in [Slot -> Seq(Element \cup {Barrier})]
  /\ saving \in BOOLEAN /\ acked \subseteq Subtask
  /\ taken \in [Slot -> Snapshot \cup {<<>>}]
  /\ savepoint \in Seq(Snapshot) /\ Len(savepoint) <= MaxParallelism
  /\ saves \in 0 .. MaxSavepoint /\ restarts \in 0 .. MaxRestart

RuntimeInit ==
  /\ par \in Slot
  /\ channel = Nowhere(<<>>)
  /\ saving = FALSE /\ acked = {} /\ taken = Nowhere(<<>>) /\ savepoint = <<>>
  /\ saves = 0 /\ restarts = 0

\* The source's element e goes to subtask s.
Deal(s, e) ==
  /\ channel' = [channel EXCEPT ![s] = Append(@, e)]
  /\ UNCHANGED <<par, saving, acked, taken, savepoint, saves, restarts>>

\* One savepoint at a time: its barrier goes to all subtasks, behind what was
\* emitted.
Trigger ==
  /\ ~ saving /\ saves < MaxSavepoint
  /\ saving' = TRUE /\ saves' = saves + 1
  /\ channel' = [s \in Slot |-> IF s \in Subtask THEN Append(channel[s], Barrier)
                                ELSE channel[s]]
  /\ UNCHANGED <<par, acked, taken, savepoint, restarts>>

HasElement(s) == channel[s] # <<>> /\ Head(channel[s]) # Barrier

Receive(s) ==
  /\ channel' = [channel EXCEPT ![s] = Tail(@)]
  /\ UNCHANGED <<par, saving, acked, taken, savepoint, saves, restarts>>

AtBarrier(s) == channel[s] # <<>> /\ Head(channel[s]) = Barrier

\* s takes its snapshot; the savepoint is complete with the last subtask's.
Completes(s) == acked \cup {s} = Subtask

Acknowledge(s, snapshot) ==
  /\ channel' = [channel EXCEPT ![s] = Tail(@)]
  /\ IF Completes(s)
     THEN /\ savepoint' = [t \in Subtask |-> IF t = s THEN snapshot ELSE taken[t]]
          /\ saving' = FALSE /\ acked' = {} /\ taken' = Nowhere(<<>>)
     ELSE /\ taken' = [taken EXCEPT ![s] = snapshot]
          /\ acked' = acked \cup {s}
          /\ UNCHANGED <<savepoint, saving>>
  /\ UNCHANGED <<par, saves, restarts>>

\* The job fails or is stopped, and is started from the last complete savepoint,
\* or anew if there is none, with p subtasks.
Redeploy(p) ==
  /\ restarts < MaxRestart
  /\ par' = p /\ restarts' = restarts + 1
  /\ channel' = Nowhere(<<>>)
  /\ saving' = FALSE /\ acked' = {} /\ taken' = Nowhere(<<>>)
  /\ UNCHANGED <<savepoint, saves>>
=============================================================================
