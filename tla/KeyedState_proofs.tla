--------------------------- MODULE KeyedState_proofs ---------------------------
(***************************************************************************)
(* Theorems about KeyedState, for any parallelism, any number of keys and  *)
(* elements, any savepoints and restarts.                                  *)
(*                                                                         *)
(* The fields and counts stay within their types because every element     *)
(* makes a count grow by at most one, and is numbered: what has been       *)
(* counted for a subtask or a key is below the number of each element      *)
(* under way to it.                                                        *)
(*                                                                         *)
(* That any savepoint is a sound start is about what a key's state holds.  *)
(* It is stated for each state by itself, and the states are those of the  *)
(* keys, those taken for the savepoint under way and those in the last     *)
(* one.  What is put out is a sequence of sequences in a row; FlattenSeq   *)
(* is a recursive function, and what it makes of one sequence more follows *)
(* from the least place where it would make anything else.                 *)
(***************************************************************************)
EXTENDS KeyedState, WellFoundedInduction, FiniteSetTheorems, TLAPS

USE ParallelismAssumption, RuntimeBounds, BoundsAssumption

Elements(s) == {i \in DOMAIN channel[s] : channel[s][i] # Barrier}

\* The elements under way to a subtask are in the order of their numbers, and
\* of keys that are its own.
ChannelInv ==
  \A s \in Slot : \A i \in Elements(s) :
    /\ channel[s][i].n < next
    /\ s = Owner(channel[s][i].key, par)
    /\ \A j \in Elements(s) : i < j => channel[s][i].n < channel[s][j].n

CountInv ==
  \A s \in Slot : count[s] < next /\ \A i \in Elements(s) : count[s] < channel[s][i].n

Early(tallies) == \A x \in Category : tallies[x].n < next
TallyInv ==
  /\ \A k \in Key : Early(tally[k])
  /\ \A s \in Slot : \A i \in Elements(s), x \in Category :
       tally[channel[s][i].key][x].n < channel[s][i].n

Good(snapshot) == snapshot \in Snapshot /\ \A k \in Key : Early(snapshot[k].tally)
SavedInv ==
  /\ \A s \in acked : Good(taken[s])
  /\ \A t \in DOMAIN savepoint : Good(savepoint[t])

\* Until the first restart, a key of ValueStateDemo is emitted once: what is
\* kept for it is nothing as long as its element is under way.
AverageInv ==
  Averaging /\ restarts = 0 =>
    /\ \A k \in Key : totals[k] = <<>> /\ (k >= sourceCount => kept[k] = <<>>)
    /\ \A s \in Slot : \A i \in Elements(s) :
         /\ channel[s][i].key < sourceCount
         /\ kept[channel[s][i].key] = <<>>
         /\ \A j \in Elements(s) : i # j => channel[s][i].key # channel[s][j].key

IInv == TypeOK /\ ChannelInv /\ CountInv /\ TallyInv /\ SavedInv /\ AverageInv

-----------------------------------------------------------------------------
(* Lemmas on keys, and on what an operation of Flink leaves under way.     *)

\* The subtask of a key is one of those there are.
LEMMA OwnerExists ==
  ASSUME NEW k \in Key, NEW p \in Nat \ {0}
  PROVE  Owner(k, p) \in 1 .. p
<1> DEFINE a == k * p
           q == a \div Keys
<1>1. Keys > 0 /\ a \in Nat
  BY DEF Key
<1>2. a < Keys * p
  <2>1. k * p <= (Keys - 1) * p
    BY DEF Key
  <2>2. (Keys - 1) * p = Keys * p - p
    OBVIOUS
  <2> QED BY <2>1, <2>2 DEF Key
<1> HIDE DEF a
<1>3. q \in Nat /\ Keys * q <= a
  BY <1>1, <1>2
<1> HIDE DEF q
<1>4. q < p
  <2>1. SUFFICES ASSUME q >= p PROVE FALSE
    BY <1>3
  <2>2. Keys * q >= Keys * p
    BY <2>1, <1>3, <1>1
  <2> QED BY <2>2, <1>1, <1>2, <1>3
<1> QED BY <1>3, <1>4 DEF q, a, Owner

LEMMA FreshType == Fresh \in StateOfKey
<1>1. [x \in Category |-> [n |-> 0, at |-> 0]] \in [Category -> Entry]
  BY DEF Entry, Time
<1>2. <<>> \in Seq(Number) /\ <<>> \in Seq(Record) /\ <<>> \in Seq(Seq(Number))
  OBVIOUS
<1> QED BY <1>1, <1>2 DEF Fresh, StateOfKey

\* What is under way to s is so still when t has taken the first of its own.
LEMMA Popped ==
  ASSUME TypeOK, NEW t \in Slot, channel[t] # <<>>,
         channel' = [channel EXCEPT ![t] = Tail(@)],
         NEW s \in Slot, NEW i \in Elements(s)'
  PROVE  /\ s = t => i + 1 \in Elements(s) /\ channel'[s][i] = channel[s][i + 1]
         /\ s # t => i \in Elements(s) /\ channel'[s][i] = channel[s][i]
         /\ i \in Nat \ {0}
<1> DEFINE E == Element \cup {Barrier}
<1>1. channel \in [Slot -> Seq(E)]
  BY DEF TypeOK, RuntimeTypeOK
<1> HIDE DEF E
<1>2. channel[t] \in Seq(E) /\ channel[s] \in Seq(E)
  BY <1>1
<1>3. CASE s = t
  <2>1. channel'[s] = Tail(channel[s])
    BY <1>1, <1>3
  <2>2. /\ DOMAIN Tail(channel[s]) = 1 .. Len(channel[s]) - 1
        /\ Tail(channel[s]) \in Seq(E)
        /\ \A j \in 1 .. Len(channel[s]) - 1 : Tail(channel[s])[j] = channel[s][j + 1]
    BY <1>2, <1>3
  <2>3. i \in DOMAIN channel'[s]
    BY DEF Elements
  <2>4. i \in 1 .. Len(channel[s]) - 1
    BY <2>1, <2>2, <2>3
  <2>5. channel'[s][i] = channel[s][i + 1]
    BY <2>1, <2>2, <2>4
  <2>6. channel'[s][i] # Barrier
    BY DEF Elements
  <2>7. i + 1 \in DOMAIN channel[s]
    BY <2>4, <1>2
  <2> QED BY <2>4, <2>5, <2>6, <2>7, <1>3 DEF Elements
<1>4. CASE s # t
  <2>1. channel'[s] = channel[s]
    BY <1>1, <1>4
  <2>2. i \in DOMAIN channel[s] /\ channel[s][i] # Barrier
    BY <2>1 DEF Elements
  <2> QED BY <2>1, <2>2, <1>2, <1>4 DEF Elements
<1> QED BY <1>3, <1>4

\* An element of a channel is one.
LEMMA ElementType ==
  ASSUME TypeOK, NEW s \in Slot, NEW i \in Elements(s)
  PROVE  /\ channel[s][i] \in Element /\ i \in Nat \ {0}
         /\ channel[s][i].n \in Number /\ channel[s][i].key \in Key
         /\ channel[s][i].cat \in Category
<1>1. channel[s] \in Seq(Element \cup {Barrier})
  BY DEF TypeOK, RuntimeTypeOK
<1>2. i \in 1 .. Len(channel[s]) /\ channel[s][i] # Barrier
  BY <1>1 DEF Elements
<1>3. channel[s][i] \in Element
  BY <1>1, <1>2
<1> QED BY <1>2, <1>3 DEF Element

LEMMA PoppedType ==
  ASSUME TypeOK, NEW t \in Slot, channel[t] # <<>>,
         channel' = [channel EXCEPT ![t] = Tail(@)]
  PROVE  channel' \in [Slot -> Seq(Element \cup {Barrier})]
<1> DEFINE E == Element \cup {Barrier}
<1>1. channel \in [Slot -> Seq(E)]
  BY DEF TypeOK, RuntimeTypeOK
<1> HIDE DEF E
<1>2. Tail(channel[t]) \in Seq(E)
  BY <1>1
<1> QED BY <1>1, <1>2 DEF E

-----------------------------------------------------------------------------
LEMMA InitInv == Init => IInv
<1> SUFFICES ASSUME Init PROVE IInv
  OBVIOUS
<1> USE DEF Init, RuntimeInit, Nowhere
<1>1. TypeOK
  <2>1. RuntimeTypeOK(Element, Snapshot)
    <3>1. /\ <<>> \in Seq(Element \cup {Barrier}) /\ <<>> \in Seq(Snapshot)
          /\ Len(<<>>) = 0
      OBVIOUS
    <3>2. /\ channel \in [Slot -> Seq(Element \cup {Barrier})]
          /\ taken \in [Slot -> Snapshot \cup {<<>>}]
      BY <3>1
    <3>3. saving \in BOOLEAN /\ acked \subseteq Subtask
      OBVIOUS
    <3>4. Len(savepoint) <= MaxParallelism /\ 0 \in 0 .. MaxSavepoint /\ 0 \in 0 .. MaxRestart
      BY <3>1
    <3> QED BY <3>1, <3>2, <3>3, <3>4 DEF RuntimeTypeOK
  <2>2. next \in 1 .. MaxElement + 1 /\ sourceCount \in 0 .. Keys /\ now \in Time
    BY DEF Time
  <2>3. count \in [Slot -> 0 .. MaxElement]
    OBVIOUS
  <2>4. /\ kept \in [Key -> Seq(Number)] /\ tally \in [Key -> [Category -> Entry]]
        /\ log \in [Key -> Seq(Record)] /\ totals \in [Key -> Seq(Seq(Number))]
    BY FreshType DEF StateOfKey
  <2> QED BY <2>1, <2>2, <2>3, <2>4 DEF TypeOK
<1>2. \A s \in Slot : Elements(s) = {}
  BY DEF Elements
<1>3. ChannelInv /\ CountInv
  BY <1>2 DEF ChannelInv, CountInv
<1>4. TallyInv
  BY <1>2 DEF TallyInv, Early, Fresh
<1>5. SavedInv
  BY DEF SavedInv
<1>6. AverageInv
  BY <1>2 DEF AverageInv, Fresh
<1> QED BY <1>1, <1>3, <1>4, <1>5, <1>6 DEF IInv

-----------------------------------------------------------------------------
(* The sources.                                                            *)

LEMMA InputType ==
  ASSUME TypeOK, next <= MaxElement, NEW e \in Inputs
  PROVE  /\ e \in Element /\ e.n = next /\ e.key \in Key
         /\ Averaging => e.key = sourceCount
<1> DEFINE some == CHOOSE x \in Category : TRUE
<1>1. some \in Category
  BY CategoryAssumption
<1> HIDE DEF some
<1>2. next \in Number
  BY DEF TypeOK, Number
<1>3. CASE Periodic
  <2>1. Inputs = [n : {next}, key : Key, cat : {some}]
    BY <1>3 DEF Inputs, some, Periodic, Averaging, Raining, Statistics
  <2> QED BY <2>1, <1>1, <1>2, <1>3 DEF Element, Periodic, Averaging
<1>4. CASE Averaging
  <2>1. Inputs = [n : {next}, key : Key \cap {sourceCount}, cat : {some}]
    BY <1>4 DEF Inputs, some, Periodic, Averaging, Raining, Statistics
  <2> QED BY <2>1, <1>1, <1>2 DEF Element
<1>5. CASE Raining
  <2>1. Inputs = [n : {next}, key : {RainKey(d) : d \in RainDays}, cat : Category]
    BY <1>5 DEF Inputs, some, Periodic, Averaging, Raining, Statistics
  <2>2. e.key \in Key
    BY <2>1, RainAssumption
  <2> QED BY <2>1, <2>2, <1>2, <1>5 DEF Element, Raining, Averaging
<1>6. CASE Statistics
  <2>1. e \in [n : {next}, key : Key, cat : Category]
    BY <1>6 DEF Inputs, Periodic, Averaging, Raining, Statistics
  <2> QED BY <2>1, <1>2, <1>6 DEF Element, Statistics, Averaging
<1> QED
  BY <1>3, <1>4, <1>5, <1>6, DemosAssumption
     DEF TypeOK, Periodic, Averaging, Raining, Statistics

LEMMA EmitInv == ASSUME IInv, Emit PROVE IInv'
<1> USE DEF IInv
<1>1. PICK e \in Inputs : Deal(Owner(e.key, par), e)
  BY DEF Emit
<1> DEFINE t == Owner(e.key, par)
           E == Element \cup {Barrier}
<1>2. /\ e \in Element /\ e.n = next /\ e.key \in Key
      /\ Averaging => e.key = sourceCount
  BY InputType DEF Emit
<1>3. t \in Slot
  <2>1. par \in Nat \ {0} /\ par <= MaxParallelism
    BY DEF TypeOK, RuntimeTypeOK, Slot
  <2>2. Owner(e.key, par) \in 1 .. par
    BY <2>1, <1>2, OwnerExists
  <2> QED BY <2>1, <2>2 DEF Slot
<1>4. /\ channel' = [channel EXCEPT ![t] = Append(@, e)]
      /\ UNCHANGED <<par, saving, acked, taken, savepoint, saves, restarts>>
      /\ UNCHANGED <<demo, now, count, kept, tally, log, totals>>
      /\ next' = next + 1 /\ next \in 1 .. MaxElement
      /\ sourceCount' = IF Averaging THEN sourceCount + 1 ELSE sourceCount
  <2>1. next \in 1 .. MaxElement
    BY DEF Emit, TypeOK
  <2>2. next' = next + 1 /\ UNCHANGED <<demo, now, count, keyed>>
        /\ sourceCount' = IF Averaging THEN sourceCount + 1 ELSE sourceCount
    BY DEF Emit
  <2> QED BY <1>1, <2>1, <2>2 DEF Deal, keyed
<1>5. channel \in [Slot -> Seq(E)] /\ e \in E
  BY <1>2 DEF TypeOK, RuntimeTypeOK
<1> HIDE DEF E, t
<1>6. channel'[t] = Append(channel[t], e) /\ channel[t] \in Seq(E)
  BY <1>3, <1>4, <1>5
<1>7. TypeOK'
  <2>1. channel' \in [Slot -> Seq(E)]
    BY <1>3, <1>4, <1>5
  <2>2. sourceCount' \in 0 .. Keys
    BY <1>2, <1>4 DEF TypeOK, Key
  <2>3. RuntimeTypeOK(Element, Snapshot)'
    BY <2>1, <1>4 DEF TypeOK, RuntimeTypeOK, E, Subtask
  <2> QED BY <2>2, <2>3, <1>4 DEF TypeOK
<1>8. ASSUME NEW s \in Slot, NEW i \in Elements(s)'
      PROVE  \/ i \in Elements(s) /\ channel'[s][i] = channel[s][i]
             \/ s = t /\ i = Len(channel[s]) + 1 /\ channel'[s][i] = e
  <2>1. CASE s # t
    <3>1. channel'[s] = channel[s]
      BY <2>1, <1>4, <1>5
    <3> QED BY <3>1 DEF Elements
  <2>2. CASE s = t
    <3>1. i \in 1 .. Len(channel[s]) + 1 /\ channel'[s][i] # Barrier
      BY <2>2, <1>6 DEF Elements
    <3>2. CASE i \in 1 .. Len(channel[s])
      <4>1. channel'[s][i] = channel[s][i]
        BY <3>2, <2>2, <1>6
      <4> QED BY <4>1, <3>1, <3>2, <2>2, <1>6 DEF Elements
    <3>3. CASE i = Len(channel[s]) + 1
      <4>1. channel'[s][i] = e
        BY <3>3, <2>2, <1>6
      <4> QED BY <4>1, <3>3, <2>2
    <3> QED BY <3>1, <3>2, <3>3, <2>2, <1>6
  <2> QED BY <2>1, <2>2
<1>9. ASSUME NEW s \in Slot, NEW i \in Elements(s)
      PROVE  i \in 1 .. Len(channel[s])
  BY <1>5 DEF Elements
<1>10. ChannelInv'
  <2> SUFFICES ASSUME NEW s \in Slot, NEW i \in Elements(s)'
               PROVE  /\ channel'[s][i].n < next'
                      /\ s = Owner(channel'[s][i].key, par')
                      /\ \A j \in Elements(s)' : i < j => channel'[s][i].n < channel'[s][j].n
    BY DEF ChannelInv
  <2>1. CASE i \in Elements(s) /\ channel'[s][i] = channel[s][i]
    <3>1. channel[s][i].n < next /\ s = Owner(channel[s][i].key, par)
      BY <2>1 DEF ChannelInv
    <3>2. channel[s][i].n \in Number
      BY <2>1, ElementType
    <3>3. ASSUME NEW j \in Elements(s)', i < j PROVE channel'[s][i].n < channel'[s][j].n
      <4>1. CASE j \in Elements(s) /\ channel'[s][j] = channel[s][j]
        BY <4>1, <3>3, <2>1 DEF ChannelInv
      <4> QED BY <4>1, <1>8, <3>1, <2>1, <1>2
    <3>4. channel'[s][i].n < next'
      BY <3>1, <3>2, <2>1, <1>4 DEF Number
    <3> QED BY <3>1, <3>3, <3>4, <2>1, <1>4
  <2>2. CASE s = t /\ i = Len(channel[s]) + 1 /\ channel'[s][i] = e
    <3>1. \A j \in Elements(s)' : ~ i < j
      BY <2>2, <1>8, <1>9, <1>6
    <3> QED BY <3>1, <2>2, <1>2, <1>4 DEF t
  <2> QED BY <2>1, <2>2, <1>8
<1>11. CountInv'
  <2> SUFFICES ASSUME NEW s \in Slot
               PROVE  /\ count[s] < next'
                      /\ \A i \in Elements(s)' : count[s] < channel'[s][i].n
    BY <1>4 DEF CountInv
  <2>1. count[s] < next /\ count[s] \in Nat /\ next \in Nat
    BY <1>4 DEF CountInv, TypeOK
  <2>2. ASSUME NEW i \in Elements(s)' PROVE count[s] < channel'[s][i].n
    BY <1>8, <1>2, <2>1 DEF CountInv
  <2>3. count[s] < next'
    BY <2>1, <1>4
  <2> QED BY <2>2, <2>3
<1>12. ASSUME NEW k \in Key, NEW x \in Category
       PROVE  tally[k][x].n < next /\ tally[k][x].n \in Nat
  BY DEF TallyInv, Early, TypeOK, Entry
<1>13. TallyInv'
  <2>1. \A k \in Key : Early(tally[k])'
    BY <1>4, <1>12 DEF Early
  <2>2. ASSUME NEW s \in Slot, NEW i \in Elements(s)', NEW x \in Category
        PROVE  tally'[channel'[s][i].key][x].n < channel'[s][i].n
    BY <1>8, <1>12, <1>2, <1>4 DEF TallyInv
  <2> QED BY <2>1, <2>2 DEF TallyInv
<1>14. SavedInv'
  <2>1. ASSUME NEW a, Good(a) PROVE Good(a)'
    <3>1. ASSUME NEW k \in Key, NEW x \in Category PROVE a[k].tally[x].n < next'
      <4>1. a[k].tally[x].n \in Nat
        BY <2>1 DEF Good, Snapshot, StateOfKey, Entry
      <4> QED BY <4>1, <2>1, <1>4 DEF Good, Early
    <3> QED BY <3>1, <2>1 DEF Good, Early
  <2> QED BY <2>1, <1>4 DEF SavedInv
<1>15. AverageInv'
  <2> SUFFICES ASSUME Averaging, restarts = 0
               PROVE  /\ \A k \in Key : totals[k] = <<>> /\ (k >= sourceCount' => kept[k] = <<>>)
                      /\ \A s \in Slot : \A i \in Elements(s)' :
                           /\ channel'[s][i].key < sourceCount'
                           /\ kept[channel'[s][i].key] = <<>>
                           /\ \A j \in Elements(s)' :
                                i # j => channel'[s][i].key # channel'[s][j].key
    BY <1>4 DEF AverageInv, Averaging
  <2>1. sourceCount' = sourceCount + 1 /\ sourceCount \in Nat /\ e.key = sourceCount
    BY <1>2, <1>4 DEF TypeOK
  <2>2. \A k \in Key : totals[k] = <<>> /\ (k >= sourceCount => kept[k] = <<>>)
    BY DEF AverageInv
  <2>3. \A k \in Key : k >= sourceCount + 1 => kept[k] = <<>>
    BY <2>1, <2>2 DEF Key
  <2>4. ASSUME NEW s \in Slot, NEW i \in Elements(s)
        PROVE  /\ channel[s][i].key < sourceCount /\ channel[s][i].key \in Nat
               /\ kept[channel[s][i].key] = <<>>
               /\ \A j \in Elements(s) : i # j => channel[s][i].key # channel[s][j].key
    BY ElementType DEF AverageInv, Key
  <2>5. kept[e.key] = <<>>
    BY <2>1, <2>2, <1>2
  <2>6. ASSUME NEW s \in Slot, NEW i \in Elements(s)'
        PROVE  /\ channel'[s][i].key < sourceCount'
               /\ kept[channel'[s][i].key] = <<>>
    BY <2>1, <2>4, <2>5, <1>8
  <2>7. ASSUME NEW s \in Slot, NEW i \in Elements(s)', NEW j \in Elements(s)', i # j
        PROVE  channel'[s][i].key # channel'[s][j].key
    <3>1. CASE i \in Elements(s) /\ channel'[s][i] = channel[s][i]
      BY <3>1, <2>7, <2>4, <2>1, <1>8
    <3>2. CASE s = t /\ i = Len(channel[s]) + 1 /\ channel'[s][i] = e
      BY <3>2, <2>7, <2>4, <2>1, <1>8
    <3> QED BY <3>1, <3>2, <1>8
  <2> QED BY <2>1, <2>2, <2>3, <2>6, <2>7
<1> QED BY <1>7, <1>10, <1>11, <1>13, <1>14, <1>15

LEMMA TickInv == ASSUME IInv, Tick PROVE IInv'
<1>1. /\ UNCHANGED <<par, channel, saving, acked, taken, savepoint, saves, restarts>>
      /\ UNCHANGED <<demo, next, sourceCount, count, kept, tally, log, totals>>
      /\ now' \in Time
  BY DEF Tick, runtime, keyed, IInv, TypeOK, Time
<1>2. TypeOK'
  BY <1>1 DEF IInv, TypeOK, RuntimeTypeOK, Subtask
<1>3. \A s : Elements(s)' = Elements(s)
  BY <1>1 DEF Elements
<1> USE DEF IInv
<1>4. ChannelInv' /\ CountInv'
  BY <1>1, <1>3 DEF ChannelInv, CountInv
<1>5. TallyInv' /\ SavedInv'
  BY <1>1, <1>3 DEF TallyInv, SavedInv, Good, Early
<1>6. AverageInv'
  BY <1>1, <1>3 DEF AverageInv, Averaging
<1> QED BY <1>2, <1>4, <1>5, <1>6

\* The first element or barrier under way to s is taken.
Pops(s) ==
  /\ channel[s] # <<>> /\ channel' = [channel EXCEPT ![s] = Tail(@)]
  /\ UNCHANGED <<par, next>>

LEMMA Shift ==
  ASSUME IInv, NEW s \in Slot, Pops(s), NEW t \in Slot
  PROVE  \A i \in Elements(t)' :
           /\ t = s => i + 1 \in Elements(t) /\ channel'[t][i] = channel[t][i + 1]
           /\ t # s => i \in Elements(t) /\ channel'[t][i] = channel[t][i]
           /\ i \in Nat \ {0}
<1>1. TypeOK
  BY DEF IInv
<1> QED BY <1>1, Popped DEF Pops

LEMMA WasUnderWay ==
  ASSUME IInv, NEW s \in Slot, Pops(s), NEW t \in Slot, NEW i \in Elements(t)'
  PROVE  \E j \in Elements(t) : channel'[t][i] = channel[t][j]
<1>1. /\ t = s => i + 1 \in Elements(t) /\ channel'[t][i] = channel[t][i + 1]
      /\ t # s => i \in Elements(t) /\ channel'[t][i] = channel[t][i]
  BY Shift
<1>2. CASE t = s
  <2>1. i + 1 \in Elements(t) /\ channel'[t][i] = channel[t][i + 1]
    BY <1>1, <1>2
  <2> QED BY <2>1
<1> QED BY <1>1, <1>2

\* What is under way stays in order.
LEMMA ChannelStays == ASSUME IInv, NEW s \in Slot, Pops(s) PROVE ChannelInv'
<1> USE DEF IInv
<1>1. UNCHANGED <<next, par>>
  BY DEF Pops
<1> SUFFICES ASSUME NEW t \in Slot, NEW i \in Elements(t)'
             PROVE  /\ channel'[t][i].n < next'
                    /\ t = Owner(channel'[t][i].key, par')
                    /\ \A j \in Elements(t)' : i < j => channel'[t][i].n < channel'[t][j].n
  BY DEF ChannelInv
<1>2. \A j \in Elements(t)' :
        /\ t = s => j + 1 \in Elements(t) /\ channel'[t][j] = channel[t][j + 1]
        /\ t # s => j \in Elements(t) /\ channel'[t][j] = channel[t][j]
        /\ j \in Nat \ {0}
  BY Shift
<1>3. CASE t = s
  <2>1. \A j \in Elements(t)' : i < j => i + 1 < j + 1
    BY <1>2
  <2> QED BY <1>1, <1>2, <1>3, <2>1 DEF ChannelInv
<1>4. CASE t # s
  BY <1>1, <1>2, <1>4 DEF ChannelInv
<1> QED BY <1>3, <1>4

\* Where nothing more is counted for a subtask, nor for a key.
LEMMA CountStays ==
  ASSUME IInv, NEW s \in Slot, Pops(s), UNCHANGED count
  PROVE  CountInv'
<1> USE DEF IInv
<1>1. next' = next
  BY DEF Pops
<1>2. ASSUME NEW t \in Slot, NEW i \in Elements(t)' PROVE count[t] < channel'[t][i].n
  BY WasUnderWay DEF CountInv
<1> QED BY <1>1, <1>2 DEF CountInv

LEMMA TallyStays ==
  ASSUME IInv, NEW s \in Slot, Pops(s), UNCHANGED tally
  PROVE  TallyInv'
<1> USE DEF IInv
<1>1. next' = next
  BY DEF Pops
<1>2. ASSUME NEW t \in Slot, NEW i \in Elements(t)', NEW x \in Category
      PROVE  tally[channel'[t][i].key][x].n < channel'[t][i].n
  BY WasUnderWay DEF TallyInv
<1>3. \A k \in Key : Early(tally[k])'
  BY <1>1 DEF TallyInv, Early
<1> QED BY <1>2, <1>3 DEF TallyInv

-----------------------------------------------------------------------------
(* The functions.  Each takes the first element under way to its subtask   *)
(* and adds one to at most one count: that of the subtask, or one of the   *)
(* key's.                                                                  *)

Takes(s, e) ==
  /\ HasElement(s) /\ e = channel[s][1]
  /\ channel' = [channel EXCEPT ![s] = Tail(@)]
  /\ UNCHANGED <<par, saving, acked, taken, savepoint, saves, restarts>>
  /\ UNCHANGED <<demo, next, sourceCount, now>>
  /\ log' = [log EXCEPT ![e.key] = Append(@, [n |-> e.n, cat |-> e.cat, at |-> now])]

\* What is still under way to the subtask comes after e; what is under way to
\* another is of other keys.
LEMMA TakesFirst ==
  ASSUME IInv, NEW s \in Subtask, NEW e, Takes(s, e)
  PROVE  /\ s \in Slot /\ 1 \in Elements(s) /\ e \in Element
         /\ \A t \in Slot : \A i \in Elements(t)' :
              /\ channel'[t][i].key = e.key => t = s
              /\ t = s => e.n < channel'[t][i].n
<1> USE DEF IInv
<1>1. s \in Slot
  BY DEF TypeOK, RuntimeTypeOK, Slot, Subtask
<1>2. channel[s] # <<>> /\ channel[s][1] # Barrier
  BY DEF Takes, HasElement
<1>3. channel[s] \in Seq(Element \cup {Barrier})
  BY <1>1 DEF TypeOK, RuntimeTypeOK
<1>4. 1 \in DOMAIN channel[s]
  BY <1>2, <1>3
<1>5. 1 \in Elements(s)
  BY <1>2, <1>4 DEF Elements
<1>6. e \in Element /\ s = Owner(e.key, par)
  BY <1>1, <1>5, ElementType DEF Takes, ChannelInv
<1>7. ASSUME NEW t \in Slot, NEW i \in Elements(t)'
      PROVE  /\ channel'[t][i].key = e.key => t = s
             /\ t = s => e.n < channel'[t][i].n
  <2>1. /\ t = s => i + 1 \in Elements(t) /\ channel'[t][i] = channel[t][i + 1]
        /\ t # s => i \in Elements(t) /\ channel'[t][i] = channel[t][i]
        /\ i \in Nat \ {0}
    BY <1>1, <1>2, Popped DEF Takes
  <2>2. CASE t = s
    <3>1. i + 1 \in Elements(s) /\ 1 < i + 1
      BY <2>1, <2>2
    <3>2. channel[s][1].n < channel[s][i + 1].n
      BY <3>1, <1>1, <1>5 DEF ChannelInv
    <3> QED BY <3>2, <2>1, <2>2 DEF Takes
  <2>3. CASE t # s
    <3>1. t = Owner(channel[t][i].key, par)
      BY <2>1, <2>3 DEF ChannelInv
    <3> QED BY <3>1, <2>1, <2>3, <1>6
  <2> QED BY <2>2, <2>3
<1> QED BY <1>1, <1>5, <1>6, <1>7

\* The type of what runs, and of the history, after any of them.
LEMMA TakesType ==
  ASSUME IInv, NEW s \in Subtask, NEW e, Takes(s, e)
  PROVE  RuntimeTypeOK(Element, Snapshot)' /\ log' \in [Key -> Seq(Record)]
<1> USE DEF IInv
<1>1. s \in Slot /\ e \in Element
  BY TakesFirst
<1>2. channel' \in [Slot -> Seq(Element \cup {Barrier})]
  BY <1>1, PoppedType DEF Takes, HasElement
<1>3. RuntimeTypeOK(Element, Snapshot)'
  BY <1>2 DEF Takes, TypeOK, RuntimeTypeOK, Subtask
<1>4. [n |-> e.n, cat |-> e.cat, at |-> now] \in Record
  BY <1>1 DEF Element, Record, TypeOK
<1>5. log \in [Key -> Seq(Record)] /\ e.key \in Key
  BY <1>1 DEF TypeOK, Element
<1>6. Append(log[e.key], [n |-> e.n, cat |-> e.cat, at |-> now]) \in Seq(Record)
  BY <1>4, <1>5
<1>7. log' \in [Key -> Seq(Record)]
  BY <1>5, <1>6 DEF Takes
<1> QED BY <1>3, <1>7

\* What is in savepoints stays good.
LEMMA SavedStays ==
  ASSUME IInv, NEW s \in Subtask, NEW e, Takes(s, e)
  PROVE  SavedInv'
BY DEF IInv, Takes, SavedInv, Good, Early

LEMMA TakesPops ==
  ASSUME IInv, NEW s \in Subtask, NEW e, Takes(s, e)
  PROVE  s \in Slot /\ Pops(s)
BY TakesFirst DEF Takes, HasElement, Pops

\* Where one more is counted for a category of e's key.
LEMMA TallyGrows ==
  ASSUME IInv, NEW s \in Subtask, NEW e, Takes(s, e),
         NEW m \in Nat, m <= tally[e.key][e.cat].n,
         tally' = [tally EXCEPT ![e.key][e.cat] = [n |-> m + 1, at |-> now]]
  PROVE  TallyInv' /\ tally' \in [Key -> [Category -> Entry]]
<1> USE DEF IInv
<1>1. /\ s \in Slot /\ channel[s] # <<>> /\ next' = next /\ 1 \in Elements(s)
      /\ e \in Element /\ e = channel[s][1]
  BY TakesFirst DEF Takes, HasElement
<1>2. /\ e.key \in Key /\ e.cat \in Category /\ e.n \in Number /\ next \in Nat /\ now \in Time
      /\ tally \in [Key -> [Category -> Entry]]
  BY <1>1 DEF Element, TypeOK
<1>3. tally[e.key][e.cat].n \in Nat
  BY <1>2 DEF Entry
<1>4. tally[e.key][e.cat].n < e.n /\ e.n < next
  BY <1>1, <1>2 DEF TallyInv, ChannelInv
<1>5. m + 1 <= e.n /\ m + 1 \in 0 .. MaxElement /\ m + 1 < next
  BY <1>2, <1>3, <1>4 DEF Number
<1>6. [n |-> m + 1, at |-> now] \in Entry
  BY <1>2, <1>5 DEF Entry
<1>7. tally' \in [Key -> [Category -> Entry]]
  BY <1>2, <1>6
<1>8. ASSUME NEW k \in Key, NEW x \in Category
      PROVE  /\ k = e.key /\ x = e.cat => tally'[k][x].n = m + 1
             /\ ~ (k = e.key /\ x = e.cat) => tally'[k][x] = tally[k][x]
  BY <1>2
<1>9. \A k \in Key : Early(tally[k])'
  BY <1>1, <1>5, <1>8 DEF TallyInv, Early
<1>10. ASSUME NEW t \in Slot, NEW i \in Elements(t)', NEW x \in Category
       PROVE  tally'[channel'[t][i].key][x].n < channel'[t][i].n
  <2> DEFINE f == channel'[t][i]
  <2>1. /\ f.key = e.key => t = s
        /\ t = s => e.n < f.n
    BY TakesFirst
  <2>2. f.key \in Key /\ f.n \in Number /\ tally[f.key][x].n < f.n
    BY <1>1, TakesPops, WasUnderWay, ElementType DEF TallyInv
  <2> HIDE DEF f
  <2>3. CASE f.key = e.key /\ x = e.cat
    <3>1. tally'[f.key][x].n = m + 1
      BY <2>2, <2>3, <1>8
    <3>2. e.n < f.n
      BY <2>1, <2>3
    <3>3. m + 1 < f.n
      BY <3>2, <1>2, <1>5, <2>2 DEF Number
    <3> QED BY <3>1, <3>3 DEF f
  <2>4. CASE ~ (f.key = e.key /\ x = e.cat)
    BY <2>2, <2>4, <1>8 DEF f
  <2> QED BY <2>3, <2>4
<1> QED BY <1>7, <1>9, <1>10 DEF TallyInv

\* The four functions: e, and what they do beside taking it.
LEMMA FunctionTakes ==
  ASSUME IInv, NEW s \in Subtask,
         CountFunction(s) \/ CountWindowAverage(s) \/ RainCount(s) \/ CountFuntion(s)
  PROVE  Takes(s, Head(channel[s]))
<1>1. s \in Slot /\ HasElement(s)
  BY DEF IInv, TypeOK, RuntimeTypeOK, Slot, Subtask, CountFunction, CountWindowAverage,
         RainCount, CountFuntion
<1>2. Head(channel[s]) = channel[s][1]
  BY <1>1 DEF IInv, TypeOK, RuntimeTypeOK, HasElement
<1> QED
  BY <1>1, <1>2 DEF Takes, CountFunction, CountWindowAverage, RainCount, CountFuntion,
                    Receive, Log

\* What PutOut and Keep leave in the state of a key.
LEMMA KeepType ==
  ASSUME IInv, NEW k \in Key, NEW n \in Number,
         NEW what \in {kept[k], Append(kept[k], n)}, PutOut(k, what) \/ Keep(k, what)
  PROVE  kept' \in [Key -> Seq(Number)] /\ totals' \in [Key -> Seq(Seq(Number))]
<1>1. /\ kept \in [Key -> Seq(Number)] /\ totals \in [Key -> Seq(Seq(Number))]
      /\ <<>> \in Seq(Number)
  BY DEF IInv, TypeOK
<1>2. what \in Seq(Number)
  <2>1. kept[k] \in Seq(Number)
    BY <1>1
  <2>2. Append(kept[k], n) \in Seq(Number)
    BY <2>1
  <2> QED BY <2>1, <2>2
<1>3. Append(totals[k], what) \in Seq(Seq(Number))
  BY <1>1, <1>2
<1>4. kept' \in [Key -> Seq(Number)]
  BY <1>1, <1>2 DEF PutOut, Keep
<1>5. totals' \in [Key -> Seq(Seq(Number))]
  <2>1. CASE Keep(k, what)
    BY <2>1, <1>1 DEF Keep
  <2>2. CASE PutOut(k, what)
    <3> DEFINE T == Seq(Seq(Number))
    <3>1. totals \in [Key -> T] /\ Append(totals[k], what) \in T
      BY <1>1, <1>3
    <3>2. totals' = [totals EXCEPT ![k] = Append(totals[k], what)]
      BY <2>2 DEF PutOut
    <3> HIDE DEF T
    <3>3. totals' \in [Key -> T]
      BY <3>1, <3>2
    <3> QED BY <3>3 DEF T
  <2> QED BY <2>1, <2>2
<1> QED BY <1>4, <1>5

LEMMA CountFunctionInv ==
  ASSUME IInv, NEW s \in Subtask, CountFunction(s)
  PROVE  IInv'
<1> DEFINE e == Head(channel[s])
<1>1. Takes(s, e)
  BY FunctionTakes
<1>2. s \in Slot /\ 1 \in Elements(s) /\ e \in Element
  BY <1>1, TakesFirst
<1>3. /\ Periodic /\ count' = [count EXCEPT ![s] = @ + 1]
      /\ PutOut(e.key, kept[e.key]) \/ Keep(e.key, Append(kept[e.key], e.n))
      /\ UNCHANGED tally
  BY DEF CountFunction
<1>4. e = channel[s][1]
  BY <1>1 DEF Takes
<1> HIDE DEF e
<1>5. e.key \in Key /\ e.n \in Number
  BY <1>2 DEF Element
<1>6. ChannelInv' /\ SavedInv' /\ TallyInv'
  BY <1>1, <1>3, TakesPops, ChannelStays, SavedStays, TallyStays
<1> USE DEF IInv
<1>7. /\ count \in [Slot -> 0 .. MaxElement] /\ next \in Nat /\ next' = next
      /\ e.n < next /\ count[s] < e.n
  BY <1>1, <1>2, <1>4 DEF TypeOK, Takes, ChannelInv, CountInv
<1>8. /\ count[s] + 1 \in 0 .. MaxElement /\ count[s] + 1 <= e.n
      /\ count'[s] = count[s] + 1 /\ \A t \in Slot \ {s} : count'[t] = count[t]
  BY <1>2, <1>3, <1>5, <1>7 DEF Number
<1>9. CountInv'
  <2>1. ASSUME NEW t \in Slot PROVE count'[t] < next'
    BY <1>5, <1>7, <1>8 DEF CountInv, Number
  <2>2. ASSUME NEW t \in Slot, NEW i \in Elements(t)' PROVE count'[t] < channel'[t][i].n
    <3>1. CASE t = s
      <4>1. e.n < channel'[t][i].n /\ channel'[t][i].n \in Number
        BY <3>1, <1>1, TakesPops, TakesFirst, WasUnderWay, ElementType
      <4> QED BY <4>1, <3>1, <1>5, <1>7, <1>8 DEF Number
    <3>2. CASE t # s
      BY <3>2, <1>1, <1>8, TakesPops, WasUnderWay DEF CountInv
    <3> QED BY <3>1, <3>2
  <2> QED BY <2>1, <2>2 DEF CountInv
<1>10. TypeOK'
  <2>1. kept' \in [Key -> Seq(Number)] /\ totals' \in [Key -> Seq(Seq(Number))]
    BY <1>3, <1>5, KeepType
  <2>2. RuntimeTypeOK(Element, Snapshot)' /\ log' \in [Key -> Seq(Record)]
    BY <1>1, TakesType
  <2>3. count' \in [Slot -> 0 .. MaxElement]
    BY <1>2, <1>3, <1>7, <1>8
  <2> QED BY <2>1, <2>2, <2>3, <1>1, <1>3 DEF TypeOK, Takes
<1>11. AverageInv'
  BY <1>1, <1>3 DEF AverageInv, Averaging, Periodic, Takes
<1> QED BY <1>6, <1>9, <1>10, <1>11

\* The element of a key that is taken is the first of its key, until the restart.
LEMMA CountWindowAverageInv ==
  ASSUME IInv, NEW s \in Subtask, CountWindowAverage(s)
  PROVE  IInv'
<1> DEFINE e == Head(channel[s])
           sum == Append(kept[e.key], e.n)
<1>1. Takes(s, e)
  BY FunctionTakes
<1>2. s \in Slot /\ 1 \in Elements(s) /\ e \in Element /\ channel[s] # <<>>
  BY <1>1, TakesFirst DEF Takes, HasElement
<1>3. /\ Averaging /\ UNCHANGED <<count, tally>>
      /\ IF Len(sum) >= 2 THEN PutOut(e.key, sum) ELSE Keep(e.key, sum)
  BY DEF CountWindowAverage
<1>4. e = channel[s][1]
  BY <1>1 DEF Takes
<1> HIDE DEF e
<1>5. e.key \in Key /\ e.n \in Number
  BY <1>2 DEF Element
<1>6. ChannelInv' /\ SavedInv' /\ TallyInv' /\ CountInv'
  BY <1>1, <1>3, TakesPops, ChannelStays, SavedStays, TallyStays, CountStays
<1> USE DEF IInv
<1>7. TypeOK'
  <2>1. kept' \in [Key -> Seq(Number)] /\ totals' \in [Key -> Seq(Seq(Number))]
    BY <1>3, <1>5, KeepType
  <2>2. RuntimeTypeOK(Element, Snapshot)' /\ log' \in [Key -> Seq(Record)]
    BY <1>1, TakesType
  <2> QED BY <2>1, <2>2, <1>1, <1>3 DEF TypeOK, Takes
<1>8. AverageInv'
  <2> SUFFICES ASSUME restarts = 0
               PROVE  /\ \A k \in Key : totals'[k] = <<>> /\ (k >= sourceCount => kept'[k] = <<>>)
                      /\ \A t \in Slot : \A i \in Elements(t)' :
                           /\ channel'[t][i].key < sourceCount
                           /\ kept'[channel'[t][i].key] = <<>>
                           /\ \A j \in Elements(t)' :
                                i # j => channel'[t][i].key # channel'[t][j].key
    BY <1>1 DEF AverageInv, Averaging, Takes
  <2>1. /\ \A k \in Key : totals[k] = <<>> /\ (k >= sourceCount => kept[k] = <<>>)
        /\ \A t \in Slot : \A i \in Elements(t) :
             /\ channel[t][i].key < sourceCount
             /\ kept[channel[t][i].key] = <<>>
             /\ \A j \in Elements(t) : i # j => channel[t][i].key # channel[t][j].key
    BY <1>3 DEF AverageInv
  <2>2. kept[e.key] = <<>> /\ e.key < sourceCount /\ sourceCount \in Nat
    BY <2>1, <1>2, <1>4 DEF TypeOK
  <2>3. Len(sum) = 1
    BY <2>2, <1>5
  <2>4. Keep(e.key, sum)
    BY <2>3, <1>3
  <2>5. totals' = totals /\ \A k \in Key : k # e.key => kept'[k] = kept[k]
    BY <2>4 DEF Keep, TypeOK
  <2>6. \A k \in Key : totals'[k] = <<>> /\ (k >= sourceCount => kept'[k] = <<>>)
    BY <2>1, <2>2, <2>5 DEF Key
  <2>7. ASSUME NEW t \in Slot, NEW i \in Elements(t)'
        PROVE  channel'[t][i].key < sourceCount /\ kept'[channel'[t][i].key] = <<>>
    <3>1. PICK j \in Elements(t) : channel'[t][i] = channel[t][j] /\ (t = s => j = i + 1)
      BY <1>1, <1>2, Popped DEF Takes
    <3>2. i \in Nat \ {0}
      BY <1>1, <1>2, Popped DEF Takes
    <3>3. channel'[t][i].key # e.key
      <4>1. CASE t = s
        BY <4>1, <3>1, <3>2, <2>1, <1>2, <1>4
      <4>2. CASE t # s
        BY <4>2, <1>1, TakesFirst
      <4> QED BY <4>1, <4>2
    <3>4. channel[t][j].key \in Key
      BY ElementType
    <3> QED BY <3>1, <3>3, <3>4, <2>1, <2>5
  <2>8. ASSUME NEW t \in Slot, NEW i \in Elements(t)', NEW j \in Elements(t)', i # j
        PROVE  channel'[t][i].key # channel'[t][j].key
    <3>1. \A l \in Elements(t)' :
            /\ t = s => l + 1 \in Elements(t) /\ channel'[t][l] = channel[t][l + 1]
            /\ t # s => l \in Elements(t) /\ channel'[t][l] = channel[t][l]
            /\ l \in Nat \ {0}
      BY <1>1, <1>2, Popped DEF Takes
    <3>2. i + 1 # j + 1
      BY <3>1, <2>8
    <3>3. CASE t = s
      BY <3>1, <3>2, <3>3, <2>1
    <3>4. CASE t # s
      BY <3>1, <3>4, <2>1, <2>8
    <3> QED BY <3>3, <3>4
  <2> QED BY <2>6, <2>7, <2>8
<1> QED BY <1>6, <1>7, <1>8

LEMMA TallyInvs ==
  ASSUME IInv, NEW s \in Subtask, RainCount(s) \/ CountFuntion(s)
  PROVE  IInv'
<1> DEFINE e == Head(channel[s])
           m == IF Raining THEN tally[e.key][e.cat].n ELSE Visible(e.key, e.cat)
<1>1. Takes(s, e)
  BY FunctionTakes
<1>2. e \in Element
  BY <1>1, TakesFirst
<1>3. /\ Raining \/ Statistics
      /\ tally' = [tally EXCEPT ![e.key][e.cat] = [n |-> m + 1, at |-> now]]
      /\ UNCHANGED <<count, kept, totals>>
  <2>1. CASE RainCount(s)
    BY <2>1 DEF RainCount
  <2>2. CASE CountFuntion(s)
    <3>1. ~ Raining /\ Statistics
      BY <2>2 DEF CountFuntion, Raining, Statistics
    <3> QED BY <3>1, <2>2 DEF CountFuntion
  <2> QED BY <2>1, <2>2
<1> HIDE DEF e
<1> USE DEF IInv
<1>4. m \in Nat /\ m <= tally[e.key][e.cat].n
  <2>1. tally[e.key][e.cat].n \in Nat
    BY <1>2 DEF Element, TypeOK, Entry
  <2> QED BY <2>1 DEF Visible
<1> HIDE DEF m
<1>5. TallyInv' /\ tally' \in [Key -> [Category -> Entry]]
  BY <1>1, <1>3, <1>4, TallyGrows
<1>6. ChannelInv' /\ SavedInv' /\ CountInv'
  BY <1>1, <1>3, TakesPops, ChannelStays, SavedStays, CountStays
<1>7. TypeOK'
  <2>1. RuntimeTypeOK(Element, Snapshot)' /\ log' \in [Key -> Seq(Record)]
    BY <1>1, TakesType
  <2> QED BY <2>1, <1>1, <1>3, <1>5 DEF TypeOK, Takes
<1>8. AverageInv'
  BY <1>1, <1>3 DEF AverageInv, Averaging, Raining, Statistics, Takes
<1> QED BY <1>5, <1>6, <1>7, <1>8

-----------------------------------------------------------------------------
(* Savepoints, restarts.                                                   *)

LEMMA SaveInv == ASSUME IInv, Save PROVE IInv'
<1> USE DEF IInv
<1> DEFINE E == Element \cup {Barrier}
<1>1. /\ ~ saving /\ saves < MaxSavepoint /\ saves' = saves + 1 /\ saving' = TRUE
      /\ channel' = [s \in Slot |-> IF s \in Subtask THEN Append(channel[s], Barrier)
                                    ELSE channel[s]]
      /\ UNCHANGED <<par, acked, taken, savepoint, restarts>>
      /\ UNCHANGED <<demo, next, sourceCount, now, count, kept, tally, log, totals>>
  BY DEF Save, Trigger, keyed
<1>2. channel \in [Slot -> Seq(E)] /\ Barrier \in E
  BY DEF TypeOK, RuntimeTypeOK
<1> HIDE DEF E
<1>3. channel' \in [Slot -> Seq(E)]
  BY <1>1, <1>2
<1>4. saves' \in 0 .. MaxSavepoint
  BY <1>1 DEF TypeOK, RuntimeTypeOK
<1>5. TypeOK'
  <2>1. RuntimeTypeOK(Element, Snapshot)'
    BY <1>1, <1>3, <1>4 DEF TypeOK, RuntimeTypeOK, Subtask, E
  <2> QED BY <2>1, <1>1 DEF TypeOK
<1>6. ASSUME NEW s \in Slot, NEW i \in Elements(s)'
      PROVE  i \in Elements(s) /\ channel'[s][i] = channel[s][i]
  <2>1. channel[s] \in Seq(E)
    BY <1>2
  <2>2. CASE s \in Subtask
    <3>1. channel'[s] = Append(channel[s], Barrier)
      BY <1>1, <2>2
    <3>2. i \in 1 .. Len(channel[s]) + 1 /\ channel'[s][i] # Barrier
      BY <3>1, <1>2, <2>1 DEF Elements
    <3>3. i # Len(channel[s]) + 1
      BY <3>1, <3>2, <2>1
    <3>4. i \in 1 .. Len(channel[s])
      BY <3>2, <3>3, <2>1
    <3>5. channel'[s][i] = channel[s][i]
      BY <3>1, <3>4, <2>1
    <3> QED BY <3>2, <3>4, <3>5, <2>1 DEF Elements
  <2>3. CASE s \notin Subtask
    <3>1. channel'[s] = channel[s]
      BY <1>1, <2>3
    <3> QED BY <3>1 DEF Elements
  <2> QED BY <2>2, <2>3
<1>7. /\ UNCHANGED <<par, restarts, demo, next, sourceCount, count, kept, tally, totals>>
      /\ UNCHANGED <<acked, taken, savepoint>>
  BY <1>1
<1>8. ChannelInv'
  BY <1>6, <1>7 DEF ChannelInv
<1>9. CountInv'
  BY <1>6, <1>7 DEF CountInv
<1>10. TallyInv'
  BY <1>6, <1>7 DEF TallyInv, Early
<1>11. SavedInv'
  BY <1>7 DEF SavedInv, Good, Early
<1>12. AverageInv'
  BY <1>6, <1>7 DEF AverageInv, Averaging
<1> QED BY <1>5, <1>8, <1>9, <1>10, <1>11, <1>12

LEMMA SnapInv == ASSUME IInv, NEW s \in Subtask, Snap(s) PROVE IInv'
<1> USE DEF IInv
<1> DEFINE snapshot == [k \in Key |->
             IF Owner(k, par) = s
             THEN [kept |-> kept[k], tally |-> tally[k], log |-> log[k], totals |-> totals[k]]
             ELSE Fresh]
<1>1. /\ channel[s] # <<>> /\ Acknowledge(s, snapshot)
      /\ UNCHANGED <<demo, next, sourceCount, now, count, kept, tally, log, totals>>
  BY DEF Snap, AtBarrier, keyed
<1>2. Good(snapshot)
  <2>1. ASSUME NEW k \in Key PROVE snapshot[k] \in StateOfKey
    BY FreshType DEF TypeOK, StateOfKey
  <2>2. snapshot \in Snapshot
    BY <2>1 DEF Snapshot
  <2>3. ASSUME NEW k \in Key PROVE Early(snapshot[k].tally)
    <3>1. Early(tally[k])
      BY DEF TallyInv
    <3>2. Early(Fresh.tally)
      BY DEF Fresh, Early, TypeOK
    <3> QED BY <3>1, <3>2
  <2> QED BY <2>2, <2>3 DEF Good
<1> HIDE DEF snapshot
<1>3. /\ channel' = [channel EXCEPT ![s] = Tail(@)]
      /\ UNCHANGED <<par, saves, restarts>>
      /\ \/ /\ acked \cup {s} = Subtask
            /\ savepoint' = [t \in Subtask |-> IF t = s THEN snapshot ELSE taken[t]]
            /\ saving' = FALSE /\ acked' = {} /\ taken' = [t \in Slot |-> <<>>]
         \/ /\ taken' = [taken EXCEPT ![s] = snapshot]
            /\ acked' = acked \cup {s}
            /\ UNCHANGED <<savepoint, saving>>
  BY <1>1 DEF Acknowledge, Completes, Nowhere
<1>4. s \in Slot /\ Pops(s)
  BY <1>1, <1>3 DEF Pops, TypeOK, RuntimeTypeOK, Slot, Subtask
<1>5. /\ par \in Slot /\ acked \subseteq Subtask /\ taken \in [Slot -> Snapshot \cup {<<>>}]
      /\ savepoint \in Seq(Snapshot) /\ Len(savepoint) <= MaxParallelism
      /\ saving \in BOOLEAN /\ Subtask' = Subtask
      /\ saves' \in 0 .. MaxSavepoint /\ restarts' \in 0 .. MaxRestart
  BY <1>3 DEF TypeOK, RuntimeTypeOK, Subtask
<1>6. /\ acked' \subseteq Subtask' /\ taken' \in [Slot -> Snapshot \cup {<<>>}]
      /\ savepoint' \in Seq(Snapshot) /\ Len(savepoint') <= MaxParallelism
      /\ saving' \in BOOLEAN /\ SavedInv'
  <2>1. ASSUME NEW a, Good(a) PROVE Good(a)'
    BY <2>1, <1>1 DEF Good, Early
  <2>2. CASE /\ acked \cup {s} = Subtask
             /\ savepoint' = [t \in Subtask |-> IF t = s THEN snapshot ELSE taken[t]]
             /\ saving' = FALSE /\ acked' = {} /\ taken' = [t \in Slot |-> <<>>]
    <3>1. ASSUME NEW t \in Subtask PROVE Good(savepoint'[t])
      BY <2>2, <1>2 DEF SavedInv
    <3>2. /\ \A t \in 1 .. par : savepoint'[t] \in Snapshot
          /\ savepoint' = [t \in 1 .. par |-> savepoint'[t]]
      BY <3>1, <2>2 DEF Good, Subtask
    <3>3. par \in Nat /\ par <= MaxParallelism
      BY <1>5 DEF Slot
    <3>4. savepoint' \in Seq(Snapshot) /\ Len(savepoint') = par
      BY <3>2, <3>3
    <3>5. SavedInv'
      BY <3>1, <3>2, <2>1, <2>2 DEF SavedInv, Subtask
    <3>6. taken' \in [Slot -> Snapshot \cup {<<>>}]
      BY <2>2
    <3> QED BY <3>3, <3>4, <3>5, <3>6, <2>2
  <2>3. CASE /\ taken' = [taken EXCEPT ![s] = snapshot]
             /\ acked' = acked \cup {s}
             /\ UNCHANGED <<savepoint, saving>>
    <3>1. snapshot \in Snapshot
      BY <1>2 DEF Good
    <3>2. taken' \in [Slot -> Snapshot \cup {<<>>}]
      BY <3>1, <2>3, <1>5
    <3>3. \A t \in acked' : Good(taken'[t])
      BY <2>3, <1>2, <1>4, <1>5 DEF SavedInv, Subtask, Slot
    <3>4. SavedInv'
      BY <3>3, <2>1, <2>3 DEF SavedInv
    <3>5. acked' \subseteq Subtask'
      BY <2>3, <1>5
    <3> QED BY <3>2, <3>4, <3>5, <2>3, <1>5
  <2> QED BY <2>2, <2>3, <1>3
<1>7. TypeOK'
  <2>1. channel' \in [Slot -> Seq(Element \cup {Barrier})]
    BY <1>1, <1>3, <1>4, PoppedType
  <2>2. RuntimeTypeOK(Element, Snapshot)'
    BY <2>1, <1>3, <1>5, <1>6 DEF RuntimeTypeOK
  <2> QED BY <2>2, <1>1 DEF TypeOK
<1>8. ChannelInv' /\ CountInv' /\ TallyInv'
  BY <1>1, <1>4, ChannelStays, CountStays, TallyStays
<1>9. AverageInv'
  <2> SUFFICES ASSUME Averaging, restarts = 0
               PROVE  /\ \A k \in Key : totals[k] = <<>> /\ (k >= sourceCount => kept[k] = <<>>)
                      /\ \A t \in Slot : \A i \in Elements(t)' :
                           /\ channel'[t][i].key < sourceCount
                           /\ kept[channel'[t][i].key] = <<>>
                           /\ \A j \in Elements(t)' :
                                i # j => channel'[t][i].key # channel'[t][j].key
    BY <1>1, <1>3 DEF AverageInv, Averaging
  <2>1. ASSUME NEW t \in Slot, NEW i \in Elements(t)'
        PROVE  channel'[t][i].key < sourceCount /\ kept[channel'[t][i].key] = <<>>
    BY <1>4, WasUnderWay DEF AverageInv
  <2>2. ASSUME NEW t \in Slot, NEW i \in Elements(t)', NEW j \in Elements(t)', i # j
        PROVE  channel'[t][i].key # channel'[t][j].key
    <3>1. \A l \in Elements(t)' :
            /\ t = s => l + 1 \in Elements(t) /\ channel'[t][l] = channel[t][l + 1]
            /\ t # s => l \in Elements(t) /\ channel'[t][l] = channel[t][l]
            /\ l \in Nat \ {0}
      BY <1>4, Shift
    <3>2. i + 1 # j + 1
      BY <3>1, <2>2
    <3>3. CASE t = s
      BY <3>1, <3>2, <3>3 DEF AverageInv
    <3>4. CASE t # s
      BY <3>1, <3>4, <2>2 DEF AverageInv
    <3> QED BY <3>3, <3>4
  <2>3. \A k \in Key : totals[k] = <<>> /\ (k >= sourceCount => kept[k] = <<>>)
    BY DEF AverageInv
  <2> QED BY <2>1, <2>2, <2>3
<1> QED BY <1>6, <1>7, <1>8, <1>9

\* What a key gets back is the state of it that its subtask of then has saved.
LEMMA SavedGood ==
  ASSUME IInv, NEW k \in Key
  PROVE  Saved(k) \in StateOfKey /\ Early(Saved(k).tally)
<1> USE DEF IInv
<1>1. CASE savepoint = <<>>
  <2>1. Early(Fresh.tally)
    BY DEF Fresh, Early, TypeOK
  <2> QED BY <2>1, <1>1, FreshType DEF Saved
<1>2. CASE savepoint # <<>>
  <2>1. savepoint \in Seq(Snapshot)
    BY DEF TypeOK, RuntimeTypeOK
  <2>2. Len(savepoint) \in Nat \ {0}
    BY <2>1, <1>2
  <2>3. Owner(k, Len(savepoint)) \in DOMAIN savepoint
    BY <2>1, <2>2, OwnerExists
  <2> DEFINE a == savepoint[Owner(k, Len(savepoint))]
  <2>4. Good(a)
    BY <2>3 DEF SavedInv
  <2>5. Saved(k) = a[k]
    BY <1>2 DEF Saved
  <2> HIDE DEF a
  <2> QED BY <2>4, <2>5 DEF Good, Snapshot
<1> QED BY <1>1, <1>2

LEMMA RestartInv == ASSUME IInv, NEW p \in Slot, Restart(p) PROVE IInv'
<1> USE DEF IInv
<1>1. /\ restarts < MaxRestart /\ par' = p /\ restarts' = restarts + 1
      /\ channel' = [s \in Slot |-> <<>>]
      /\ saving' = FALSE /\ acked' = {} /\ taken' = [s \in Slot |-> <<>>]
      /\ UNCHANGED <<savepoint, saves, demo, next, now>>
      /\ count' = [s \in Slot |-> 0] /\ sourceCount' = 0
  BY DEF Restart, Redeploy, Nowhere
<1>2. /\ kept' = [k \in Key |-> Saved(k).kept] /\ tally' = [k \in Key |-> Saved(k).tally]
      /\ log' = [k \in Key |-> Saved(k).log] /\ totals' = [k \in Key |-> Saved(k).totals]
  BY DEF Restart
<1>3. ASSUME NEW k \in Key
      PROVE  /\ Saved(k).kept \in Seq(Number) /\ Saved(k).tally \in [Category -> Entry]
             /\ Saved(k).log \in Seq(Record) /\ Saved(k).totals \in Seq(Seq(Number))
  BY SavedGood DEF StateOfKey
<1>4. TypeOK'
  <2>1. /\ kept' \in [Key -> Seq(Number)] /\ tally' \in [Key -> [Category -> Entry]]
        /\ log' \in [Key -> Seq(Record)] /\ totals' \in [Key -> Seq(Seq(Number))]
    BY <1>2, <1>3
  <2>2. /\ channel' \in [Slot -> Seq(Element \cup {Barrier})]
        /\ taken' \in [Slot -> Snapshot \cup {<<>>}]
        /\ acked' \subseteq Subtask' /\ saving' \in BOOLEAN
    <3>1. <<>> \in Seq(Element \cup {Barrier})
      OBVIOUS
    <3> QED BY <3>1, <1>1
  <2>3. restarts' \in 0 .. MaxRestart
    BY <1>1 DEF TypeOK, RuntimeTypeOK
  <2>4. RuntimeTypeOK(Element, Snapshot)'
    BY <2>2, <2>3, <1>1 DEF TypeOK, RuntimeTypeOK
  <2>5. count' \in [Slot -> 0 .. MaxElement] /\ sourceCount' \in 0 .. Keys
    BY <1>1
  <2> QED BY <2>1, <2>4, <2>5, <1>1 DEF TypeOK
<1>5. \A s \in Slot : Elements(s)' = {}
  BY <1>1 DEF Elements
<1>6. ChannelInv' /\ CountInv'
  BY <1>1, <1>5 DEF ChannelInv, CountInv, TypeOK
<1>7. TallyInv'
  <2>1. \A k \in Key : Early(tally[k])'
    BY <1>1, <1>2, SavedGood DEF Early
  <2> QED BY <2>1, <1>5 DEF TallyInv
<1>8. SavedInv'
  BY <1>1 DEF SavedInv, Good, Early
<1>9. AverageInv'
  BY <1>1 DEF AverageInv, TypeOK, RuntimeTypeOK
<1> QED BY <1>4, <1>6, <1>7, <1>8, <1>9

LEMMA StepInv == IInv /\ [Next]_vars => IInv'
<1> SUFFICES ASSUME IInv, [Next]_vars PROVE IInv'
  OBVIOUS
<1>1. CASE Emit
  BY <1>1, EmitInv
<1>2. CASE Tick
  BY <1>2, TickInv
<1>3. CASE Save
  BY <1>3, SaveInv
<1>4. ASSUME NEW s \in Subtask,
             CountFunction(s) \/ CountWindowAverage(s) \/ RainCount(s) \/ CountFuntion(s)
      PROVE  IInv'
  <2>1. CASE CountFunction(s)
    BY <2>1, CountFunctionInv
  <2>2. CASE CountWindowAverage(s)
    BY <2>2, CountWindowAverageInv
  <2>3. CASE RainCount(s) \/ CountFuntion(s)
    BY <2>3, TallyInvs
  <2> QED BY <2>1, <2>2, <2>3, <1>4
<1>5. ASSUME NEW s \in Subtask, Snap(s) PROVE IInv'
  BY <1>5, SnapInv
<1>7. ASSUME NEW p \in Slot, Restart(p) PROVE IInv'
  BY <1>7, RestartInv
<1>6. CASE UNCHANGED vars
  <2>1. UNCHANGED <<par, channel, saving, acked, taken, savepoint, saves, restarts, demo, next,
                    sourceCount, now, count, kept, tally, log, totals>>
    BY <1>6 DEF vars, runtime, keyed
  <2>2. \A s : Elements(s)' = Elements(s)
    BY <2>1 DEF Elements
  <2> USE DEF IInv
  <2>3. TypeOK'
    BY <2>1 DEF TypeOK, RuntimeTypeOK, Subtask
  <2>4. ChannelInv' /\ CountInv'
    BY <2>1, <2>2 DEF ChannelInv, CountInv
  <2>5. TallyInv' /\ SavedInv'
    BY <2>1, <2>2 DEF TallyInv, SavedInv, Good, Early
  <2>6. AverageInv'
    BY <2>1, <2>2 DEF AverageInv, Averaging
  <2> QED BY <2>3, <2>4, <2>5, <2>6
<1> QED BY Zenon, <1>1, <1>2, <1>3, <1>4, <1>5, <1>6, <1>7 DEF Next

-----------------------------------------------------------------------------
LEMMA Inductive == Spec => []IInv
<1> QED BY InitInv, StepInv, PTL DEF Spec

\* Whatever is emitted, expires, is saved and restored with whatever parallelism,
\* every variable keeps its type; no field, and no count of a key, passes the
\* number of elements there were.
THEOREM TypeCorrect == Spec => []TypeOK
<1>1. IInv => TypeOK
  BY DEF IInv
<1> QED BY <1>1, Inductive, PTL

\* ValueStateDemo: no average ever appears before a restart, as its source never
\* repeats a key.
THEOREM NothingBeforeRestart == Spec => []AveragesOnlyAfterRestart
<1>1. IInv => AveragesOnlyAfterRestart
  BY DEF IInv, AverageInv, AveragesOnlyAfterRestart
<1> QED BY <1>1, Inductive, PTL

-----------------------------------------------------------------------------
(* What is put out, kept and counted.                                      *)

\* The state of a key as a savepoint takes it.
OfKey(k) == [kept |-> kept[k], tally |-> tally[k], log |-> log[k], totals |-> totals[k]]

\* EachElementOnce for the state of one key.
OnceIn(st) ==
  /\ Within(Told(st.totals, st.kept), Numbers(st.log))
  /\ Len(st.log) - Len(Told(st.totals, st.kept)) = IF Periodic THEN Len(st.totals) ELSE 0

\* A count is written with the last record of its category, and was right then.
Tallied(st, c) ==
  \/ Hits(st.log, c) = {} /\ st.tally[c].n = 0
  \/ \E m \in Hits(st.log, c) :
       /\ \A j \in Hits(st.log, c) : j <= m
       /\ st.tally[c] = [n |-> Cardinality(Recent(st.log, c, st.log[m].at)), at |-> st.log[m].at]

\* The records of a key were written one after the other, up to now.
Ordered(records) ==
  /\ \A i \in DOMAIN records : records[i].at <= now
  /\ \A i, j \in DOMAIN records : i <= j => records[i].at <= records[j].at

Sound(st) ==
  /\ Periodic \/ Averaging => OnceIn(st)
  /\ Raining \/ Statistics => Ordered(st.log) /\ \A c \in Category : Tallied(st, c)

\* Not only the keys' states are sound: what is being saved, and what is saved,
\* is so as well.
StatesSound == \A k \in Key : \A st \in {OfKey(k)} : Sound(st)
SavedSound ==
  /\ \A s \in acked, k \in Key : \A st \in {taken[s][k]} : Sound(st)
  /\ \A t \in DOMAIN savepoint, k \in Key : \A st \in {savepoint[t][k]} : Sound(st)
SoundInv == StatesSound /\ SavedSound

-----------------------------------------------------------------------------
(* What a flattened sequence is.                                           *)

\* Every non-empty set of numbers has a least one.
LEMMA Least ==
  ASSUME NEW S, S \subseteq Nat, S # {}
  PROVE  \E m \in S : \A k \in S : m <= k
<1>1. PICK m \in S : \A k \in S : ~ (<<k, m>> \in OpToRel(<, Nat))
  BY NatLessThanWellFounded, WFMin
<1>2. \A k \in S : ~ (k < m)
  BY <1>1 DEF OpToRel
<1>3. \A k \in S : k \in Nat /\ m \in Nat
  OBVIOUS
<1> QED BY <1>2, <1>3

\* f is the recursive function of FlattenSeq for the first n elements of v.
Flattens(v, n, f) == f = [i \in 1 .. n |-> IF i = 1 THEN v[i] ELSE f[i - 1] \o v[i]]

\* What such a function is at each place.
LEMMA FlattensAt ==
  ASSUME NEW v, NEW n \in Nat, NEW f, Flattens(v, n, f), NEW i \in 1 .. n
  PROVE  f[i] = IF i = 1 THEN v[i] ELSE f[i - 1] \o v[i]
<1> DEFINE g == [j \in 1 .. n |-> IF j = 1 THEN v[j] ELSE f[j - 1] \o v[j]]
<1>1. g[i] = IF i = 1 THEN v[i] ELSE f[i - 1] \o v[i]
  OBVIOUS
<1>2. f = g
  BY DEF Flattens
<1> HIDE DEF g
<1> QED BY <1>1, <1>2

\* A function whose values are right flattens.
LEMMA FlattensByValues ==
  ASSUME NEW v, NEW n \in Nat, NEW f, f = [i \in 1 .. n |-> f[i]],
         \A i \in 1 .. n : f[i] = IF i = 1 THEN v[i] ELSE f[i - 1] \o v[i]
  PROVE  Flattens(v, n, f)
BY DEF Flattens

\* There is one for each sequence: one for one place more, ...
LEMMA FlattensOneMore ==
  ASSUME NEW v, NEW n \in Nat, NEW f, Flattens(v, n, f)
  PROVE  \E g : Flattens(v, n + 1, g)
<1> DEFINE g == [i \in 1 .. n + 1 |->
                   IF i \in 1 .. n THEN f[i] ELSE IF i = 1 THEN v[i] ELSE f[i - 1] \o v[i]]
<1>1. g = [i \in 1 .. n + 1 |-> g[i]]
  OBVIOUS
<1>2. \A i \in 1 .. n : g[i] = f[i]
  OBVIOUS
<1>3. g[n + 1] = IF n + 1 = 1 THEN v[n + 1] ELSE f[(n + 1) - 1] \o v[n + 1]
  OBVIOUS
<1> HIDE DEF g
<1>4. ASSUME NEW i \in 1 .. n + 1
      PROVE  g[i] = IF i = 1 THEN v[i] ELSE g[i - 1] \o v[i]
  <2>1. CASE i \in 1 .. n
    <3>1. g[i] = f[i] /\ f[i] = IF i = 1 THEN v[i] ELSE f[i - 1] \o v[i]
      BY <1>2, <2>1, FlattensAt
    <3>2. i # 1 => i - 1 \in 1 .. n
      BY <2>1
    <3>3. i # 1 => g[i - 1] = f[i - 1]
      BY <1>2, <3>2
    <3> QED BY <3>1, <3>3
  <2>2. CASE i \notin 1 .. n
    <3>1. i = n + 1
      BY <2>2
    <3>2. i # 1 => i - 1 \in 1 .. n /\ (n + 1) - 1 = i - 1
      BY <3>1
    <3>3. i # 1 => g[i - 1] = f[i - 1]
      BY <1>2, <3>2
    <3> QED BY <1>3, <3>1, <3>2, <3>3
  <2> QED BY <2>1, <2>2
<1>5. Flattens(v, n + 1, g)
  <2>1. n + 1 \in Nat
    OBVIOUS
  <2> QED BY <1>1, <1>4, <2>1, FlattensByValues
<1> QED BY <1>5

\* ... and so none is the first without.
LEMMA FlattensExists ==
  ASSUME NEW v, NEW n \in Nat
  PROVE  \E f : Flattens(v, n, f)
<1> DEFINE B == {m \in Nat : ~ \E f : Flattens(v, m, f)}
<1>1. SUFFICES ASSUME B # {} PROVE FALSE
  BY DEF B
<1>2. PICK m \in B : \A k \in B : m <= k
  BY <1>1, Least
<1>3. m # 0
  <2>1. Flattens(v, 0, <<>>)
    BY DEF Flattens
  <2> QED BY <2>1
<1>4. m - 1 \in Nat /\ (m - 1) + 1 = m
  BY <1>3
<1>5. m - 1 \notin B
  BY <1>2, <1>4
<1>6. PICK f : Flattens(v, m - 1, f)
  BY <1>4, <1>5
<1>7. \E g : Flattens(v, m, g)
  BY <1>4, <1>6, FlattensOneMore
<1> QED BY <1>2, <1>7

\* Two such functions agree where the sequences do.
LEMMA FlattensAgree ==
  ASSUME NEW v, NEW n \in Nat, NEW f, Flattens(v, n, f),
         NEW w, NEW m \in Nat, NEW g, Flattens(w, m, g), n <= m,
         \A i \in 1 .. n : v[i] = w[i]
  PROVE  \A i \in 1 .. n : f[i] = g[i]
<1> DEFINE B == {i \in 1 .. n : f[i] # g[i]}
<1>1. SUFFICES ASSUME B # {} PROVE FALSE
  OBVIOUS
<1>2. PICK i \in B : \A k \in B : i <= k
  <2>1. B \subseteq Nat
    OBVIOUS
  <2> HIDE DEF B
  <2> QED BY <1>1, <2>1, Least
<1>3. i \in 1 .. n /\ i \in 1 .. m /\ f[i] # g[i]
  OBVIOUS
<1>4. /\ f[i] = IF i = 1 THEN v[i] ELSE f[i - 1] \o v[i]
      /\ g[i] = IF i = 1 THEN w[i] ELSE g[i - 1] \o w[i]
  BY <1>3, FlattensAt
<1>5. i # 1 => i - 1 \in 1 .. n /\ ~ (i <= i - 1)
  BY <1>3
<1>6. i # 1 => f[i - 1] = g[i - 1]
  BY <1>2, <1>5
<1> QED BY <1>3, <1>4, <1>6

\* FlattenSeq's result is that of such a function.
LEMMA FlattenIs ==
  ASSUME NEW S, NEW v \in Seq(S), v # <<>>
  PROVE  \E f : Flattens(v, Len(v), f) /\ FlattenSeq(v) = f[Len(v)]
<1> DEFINE g == CHOOSE f : Flattens(v, Len(v), f)
<1>1. Len(v) \in Nat /\ Len(v) # 0
  OBVIOUS
<1>2. \E f : Flattens(v, Len(v), f)
  BY <1>1, FlattensExists
<1>3. FlattenSeq(v) = g[Len(v)]
  BY <1>1 DEF FlattenSeq, Flattens
<1>4. Flattens(v, Len(v), g)
  BY <1>2
<1> QED BY <1>3, <1>4

\* Nothing put out is nothing in a row.
LEMMA FlattenEmpty == FlattenSeq(<<>>) = <<>>
BY DEF FlattenSeq

\* What a total adds to what was put out.
LEMMA FlattenAppend ==
  ASSUME NEW S, NEW v \in Seq(Seq(S)), NEW x \in Seq(S)
  PROVE  FlattenSeq(Append(v, x)) = FlattenSeq(v) \o x
<1>1. SUFFICES ASSUME NEW w, w = Append(v, x) PROVE FlattenSeq(w) = FlattenSeq(v) \o x
  OBVIOUS
<1>2. /\ w \in Seq(Seq(S)) /\ w # <<>> /\ Len(w) = Len(v) + 1 /\ Len(v) \in Nat
      /\ w[Len(v) + 1] = x /\ \A i \in 1 .. Len(v) : v[i] = w[i]
  <2> DEFINE T == Seq(S)
  <2>1. v \in Seq(T) /\ x \in T
    OBVIOUS
  <2> HIDE DEF T
  <2>2. w \in Seq(T) /\ Len(w) = Len(v) + 1 /\ Len(v) \in Nat
        /\ w[Len(v) + 1] = x /\ \A i \in 1 .. Len(v) : v[i] = w[i]
    BY <1>1, <2>1
  <2>3. w # <<>>
    BY <2>2
  <2> QED BY <2>2, <2>3 DEF T
<1>3. PICK g : Flattens(w, Len(w), g) /\ FlattenSeq(w) = g[Len(w)]
  BY <1>2, FlattenIs
<1>4. g[Len(v) + 1] = IF Len(v) + 1 = 1 THEN x ELSE g[(Len(v) + 1) - 1] \o x
  BY <1>2, <1>3, FlattensAt
<1>5. CASE v = <<>>
  <2>1. Len(v) = 0 /\ Len(v) + 1 = 1 /\ <<>> \o x = x
    BY <1>5
  <2>2. FlattenSeq(w) = x
    BY <1>2, <1>3, <1>4, <2>1
  <2>3. FlattenSeq(v) \o x = x
    BY <1>5, <2>1, FlattenEmpty
  <2> QED BY <2>2, <2>3
<1>6. CASE v # <<>>
  <2>1. PICK f : Flattens(v, Len(v), f) /\ FlattenSeq(v) = f[Len(v)]
    BY <1>6, FlattenIs
  <2>2. Len(v) \in 1 .. Len(v) /\ Len(v) + 1 # 1 /\ (Len(v) + 1) - 1 = Len(v)
    BY <1>2, <1>6
  <2>3. \A i \in 1 .. Len(v) : f[i] = g[i]
    <3> DEFINE n == Len(v)
               m == Len(w)
    <3>1. n \in Nat /\ m \in Nat /\ n <= m /\ Flattens(v, n, f) /\ Flattens(w, m, g)
          /\ \A i \in 1 .. n : v[i] = w[i]
      BY <1>2, <1>3, <2>1
    <3> HIDE DEF n, m
    <3>2. \A i \in 1 .. n : f[i] = g[i]
      BY <3>1, FlattensAgree
    <3> QED BY <3>2 DEF n
  <2>4. f[Len(v)] = g[Len(v)]
    BY <2>2, <2>3
  <2> QED BY <1>2, <1>3, <1>4, <2>1, <2>2, <2>4
<1> QED BY <1>5, <1>6

\* Numbers put out are numbers in a row.
LEMMA FlattenType ==
  ASSUME NEW S, NEW v \in Seq(Seq(S))
  PROVE  FlattenSeq(v) \in Seq(S)
<1>1. CASE v = <<>>
  <2>1. <<>> \in Seq(S)
    OBVIOUS
  <2> QED BY <1>1, <2>1, FlattenEmpty
<1>2. CASE v # <<>>
  <2>1. PICK f : Flattens(v, Len(v), f) /\ FlattenSeq(v) = f[Len(v)]
    BY <1>2, FlattenIs
  <2> DEFINE B == {i \in 1 .. Len(v) : f[i] \notin Seq(S)}
  <2>2. ASSUME B # {} PROVE FALSE
    <3>1. B \subseteq Nat
      OBVIOUS
    <3>2. PICK i \in B : \A k \in B : i <= k
      <4> HIDE DEF B
      <4> QED BY <2>2, <3>1, Least
    <3>3. i \in 1 .. Len(v) /\ f[i] \notin Seq(S) /\ v[i] \in Seq(S)
      OBVIOUS
    <3>4. f[i] = IF i = 1 THEN v[i] ELSE f[i - 1] \o v[i]
      BY <2>1, <3>3, FlattensAt
    <3>5. i # 1 => i - 1 \in 1 .. Len(v) /\ ~ (i <= i - 1)
      BY <3>3
    <3>6. i # 1 => f[i - 1] \in Seq(S)
      BY <3>2, <3>5
    <3>7. i # 1 => f[i - 1] \o v[i] \in Seq(S)
      BY <3>3, <3>6
    <3> QED BY <3>3, <3>4, <3>7
  <2>3. Len(v) \in 1 .. Len(v)
    BY <1>2
  <2> QED BY <2>1, <2>2, <2>3
<1> QED BY <1>1, <1>2

-----------------------------------------------------------------------------
(* Lemmas on what is put out and kept.                                     *)

\* The numbers of the records are as many as they.
LEMMA NumbersType ==
  ASSUME NEW r \in Seq(Record)
  PROVE  Numbers(r) \in Seq(Number) /\ Len(Numbers(r)) = Len(r)
<1>1. \A i \in 1 .. Len(r) : r[i].n \in Number
  <2>1. \A i \in 1 .. Len(r) : r[i] \in Record
    OBVIOUS
  <2> QED BY <2>1 DEF Record
<1>2. Numbers(r) = [i \in 1 .. Len(r) |-> r[i].n]
  BY DEF Numbers
<1>3. Len(r) \in Nat
  OBVIOUS
<1> QED BY <1>1, <1>2, <1>3

\* A record adds its number.
LEMMA NumbersAppend ==
  ASSUME NEW r \in Seq(Record), NEW x \in Record
  PROVE  Numbers(Append(r, x)) = Append(Numbers(r), x.n)
<1> DEFINE a == Numbers(Append(r, x))
           b == Append(Numbers(r), x.n)
<1>1. Append(r, x) \in Seq(Record) /\ Len(Append(r, x)) = Len(r) + 1 /\ Len(r) \in Nat
  OBVIOUS
<1>2. Numbers(r) \in Seq(Number) /\ Len(Numbers(r)) = Len(r) /\ x.n \in Number
  BY NumbersType DEF Record
<1>3. a \in Seq(Number) /\ Len(a) = Len(r) + 1
  BY <1>1, NumbersType
<1>4. b \in Seq(Number) /\ Len(b) = Len(r) + 1
  BY <1>1, <1>2
<1> HIDE DEF a, b
<1>5. ASSUME NEW i \in 1 .. Len(r) + 1 PROVE a[i] = b[i]
  <2>1. a[i] = Append(r, x)[i].n
    BY <1>1 DEF Numbers, a
  <2>2. CASE i \in 1 .. Len(r)
    <3>1. Append(r, x)[i] = r[i]
      BY <2>2
    <3>2. b[i] = Numbers(r)[i]
      BY <1>2, <2>2 DEF b
    <3>3. Numbers(r)[i] = r[i].n
      BY <2>2 DEF Numbers
    <3> QED BY <2>1, <3>1, <3>2, <3>3
  <2>3. CASE i = Len(r) + 1
    <3>1. Append(r, x)[i] = x
      BY <2>3
    <3>2. b[i] = x.n
      BY <1>2, <2>3 DEF b
    <3> QED BY <2>1, <3>1, <3>2
  <2> QED BY <1>1, <2>2, <2>3
<1>6. a = b
  BY <1>1, <1>3, <1>4, <1>5
<1> QED BY <1>6 DEF a, b

\* What is part of a sequence is part of a longer one, ...
LEMMA WithinLonger ==
  ASSUME NEW S, NEW part \in Seq(S), NEW whole \in Seq(S), NEW x \in S, Within(part, whole)
  PROVE  Within(part, Append(whole, x))
<1>1. PICK place \in [DOMAIN part -> DOMAIN whole] :
        /\ \A i \in DOMAIN part : part[i] = whole[place[i]]
        /\ \A i, j \in DOMAIN part : i < j => place[i] < place[j]
  BY DEF Within
<1>2. DOMAIN whole \subseteq DOMAIN Append(whole, x)
      /\ \A i \in DOMAIN whole : Append(whole, x)[i] = whole[i]
  OBVIOUS
<1>3. place \in [DOMAIN part -> DOMAIN Append(whole, x)]
  BY <1>2
<1>4. \A i \in DOMAIN part : part[i] = Append(whole, x)[place[i]]
  BY <1>1, <1>2
<1> QED BY <1>1, <1>3, <1>4 DEF Within

\* ... and remains so when the same is added to both.
LEMMA WithinBoth ==
  ASSUME NEW S, NEW part \in Seq(S), NEW whole \in Seq(S), NEW x \in S, Within(part, whole)
  PROVE  Within(Append(part, x), Append(whole, x))
<1>1. PICK place \in [DOMAIN part -> DOMAIN whole] :
        /\ \A i \in DOMAIN part : part[i] = whole[place[i]]
        /\ \A i, j \in DOMAIN part : i < j => place[i] < place[j]
  BY DEF Within
<1> DEFINE n == Len(part)
           m == Len(whole)
           p == Append(part, x)
           w == Append(whole, x)
           to == [i \in 1 .. n + 1 |-> IF i \in 1 .. n THEN place[i] ELSE m + 1]
<1>2. /\ DOMAIN part = 1 .. n /\ DOMAIN whole = 1 .. m /\ n \in Nat /\ m \in Nat
      /\ DOMAIN p = 1 .. n + 1 /\ DOMAIN w = 1 .. m + 1
      /\ \A i \in 1 .. n : p[i] = part[i]
      /\ \A i \in 1 .. m : w[i] = whole[i]
      /\ p[n + 1] = x /\ w[m + 1] = x
  OBVIOUS
<1> HIDE DEF n, m, p, w
<1>3. \A i \in 1 .. n : to[i] = place[i] /\ place[i] \in 1 .. m
  BY <1>2
<1>4. to[n + 1] = m + 1
  BY <1>2
<1>5. to \in [DOMAIN p -> DOMAIN w]
  BY <1>2
<1> HIDE DEF to
<1>6. ASSUME NEW i \in 1 .. n + 1 PROVE p[i] = w[to[i]]
  <2>1. CASE i \in 1 .. n
    BY <1>1, <1>2, <1>3, <2>1
  <2>2. CASE i = n + 1
    BY <1>2, <1>4, <2>2
  <2> QED BY <1>2, <2>1, <2>2
<1>7. ASSUME NEW i \in 1 .. n + 1, NEW j \in 1 .. n + 1, i < j PROVE to[i] < to[j]
  <2>1. i \in 1 .. n
    BY <1>2, <1>7
  <2>2. CASE j \in 1 .. n
    BY <1>1, <1>2, <1>3, <1>7, <2>1, <2>2
  <2>3. CASE j = n + 1
    BY <1>2, <1>3, <1>4, <2>1, <2>3
  <2> QED BY <1>2, <2>2, <2>3
<1>8. Within(p, w)
  BY <1>2, <1>5, <1>6, <1>7 DEF Within
<1> QED BY <1>8 DEF p, w

\* What was put out and is kept are numbers.
LEMMA ToldType ==
  ASSUME NEW st \in StateOfKey
  PROVE  /\ st.kept \in Seq(Number) /\ st.log \in Seq(Record) /\ st.totals \in Seq(Seq(Number))
         /\ FlattenSeq(st.totals) \in Seq(Number)
         /\ Told(st.totals, st.kept) \in Seq(Number)
<1>1. /\ st.kept \in Seq(Number) /\ st.log \in Seq(Record) /\ st.totals \in Seq(Seq(Number))
  BY DEF StateOfKey
<1>2. FlattenSeq(st.totals) \in Seq(Number)
  BY <1>1, FlattenType
<1> QED BY <1>1, <1>2 DEF Told

\* An element that is kept.
LEMMA KeptOnce ==
  ASSUME NEW a \in StateOfKey, NEW b \in StateOfKey, NEW x \in Record, OnceIn(a),
         b.totals = a.totals, b.kept = Append(a.kept, x.n), b.log = Append(a.log, x)
  PROVE  OnceIn(b)
<1> DEFINE before == Told(a.totals, a.kept)
           after == Told(b.totals, b.kept)
<1>1. /\ x.n \in Number /\ Len(a.log) \in Nat /\ Len(b.log) = Len(a.log) + 1
      /\ before \in Seq(Number) /\ Len(before) \in Nat
  <2>1. x.n \in Number
    BY DEF Record
  <2>2. a.log \in Seq(Record) /\ before \in Seq(Number)
    BY ToldType
  <2> HIDE DEF before
  <2>3. Len(before) \in Nat
    BY <2>2
  <2>4. Len(a.log) \in Nat /\ Len(b.log) = Len(a.log) + 1
    BY <2>2
  <2> QED BY <2>1, <2>2, <2>3, <2>4
<1>2. after = Append(before, x.n)
  <2>1. \A u \in Seq(Number), v \in Seq(Number) : u \o Append(v, x.n) = Append(u \o v, x.n)
    BY <1>1
  <2> QED BY <2>1, ToldType DEF Told
<1>3. Numbers(b.log) = Append(Numbers(a.log), x.n) /\ Numbers(a.log) \in Seq(Number)
  BY ToldType, NumbersAppend, NumbersType
<1>4. Within(before, Numbers(a.log))
  BY DEF OnceIn
<1>5. Len(a.log) - Len(before) = IF Periodic THEN Len(a.totals) ELSE 0
  BY DEF OnceIn
<1> HIDE DEF before, after
<1>6. Within(after, Numbers(b.log))
  BY <1>1, <1>2, <1>3, <1>4, WithinBoth
<1>7. Len(after) = Len(before) + 1
  BY <1>1, <1>2
<1>8. Len(b.log) - Len(after) = Len(a.log) - Len(before)
  BY <1>1, <1>7
<1>9. Len(b.log) - Len(after) = IF Periodic THEN Len(b.totals) ELSE 0
  BY <1>5, <1>8
<1> QED BY <1>6, <1>9 DEF OnceIn, after

\* Putting out what is held leaves it told, once.
LEMMA TotalAdds ==
  ASSUME NEW S, NEW put \in Seq(Seq(S)), NEW held \in Seq(S)
  PROVE  Told(Append(put, held), <<>>) = Told(put, held)
<1>1. FlattenSeq(Append(put, held)) = FlattenSeq(put) \o held
  BY FlattenAppend
<1>2. FlattenSeq(put) \in Seq(S)
  BY FlattenType
<1>3. (FlattenSeq(put) \o held) \o <<>> = FlattenSeq(put) \o held
  BY <1>2
<1> QED BY <1>1, <1>3 DEF Told

\* A total, of what is kept.  The element that sets it off is left out.
LEMMA PutOnce ==
  ASSUME NEW a \in StateOfKey, NEW b \in StateOfKey, NEW x \in Record, OnceIn(a), Periodic,
         b.totals = Append(a.totals, a.kept), b.kept = <<>>, b.log = Append(a.log, x)
  PROVE  OnceIn(b)
<1> DEFINE before == Told(a.totals, a.kept)
<1>1. /\ x.n \in Number /\ Len(a.log) \in Nat /\ Len(b.log) = Len(a.log) + 1
      /\ before \in Seq(Number) /\ Len(before) \in Nat
  <2>1. x.n \in Number
    BY DEF Record
  <2>2. a.log \in Seq(Record) /\ before \in Seq(Number)
    BY ToldType
  <2> HIDE DEF before
  <2>3. Len(before) \in Nat
    BY <2>2
  <2>4. Len(a.log) \in Nat /\ Len(b.log) = Len(a.log) + 1
    BY <2>2
  <2> QED BY <2>1, <2>2, <2>3, <2>4
<1>2. Len(a.totals) \in Nat /\ Len(b.totals) = Len(a.totals) + 1
  <2> DEFINE T == Seq(Number)
  <2>1. a.totals \in Seq(T) /\ a.kept \in T
    BY ToldType
  <2> HIDE DEF T
  <2> QED BY <2>1
<1>3. Told(b.totals, b.kept) = before
  BY ToldType, TotalAdds
<1>4. Numbers(b.log) = Append(Numbers(a.log), x.n) /\ Numbers(a.log) \in Seq(Number)
  BY ToldType, NumbersAppend, NumbersType
<1>5. Within(before, Numbers(a.log)) /\ Len(a.log) - Len(before) = Len(a.totals)
  BY DEF OnceIn
<1> HIDE DEF before
<1>6. Within(before, Numbers(b.log))
  BY <1>1, <1>4, <1>5, WithinLonger
<1>7. Len(b.log) - Len(before) = Len(b.totals)
  <2>1. Len(a.log) - Len(before) = Len(a.totals)
    BY <1>5
  <2> DEFINE i == Len(a.log)
             j == Len(before)
             l == Len(a.totals)
  <2>2. i \in Nat /\ j \in Nat /\ l \in Nat /\ i - j = l
    BY <1>1, <1>2, <2>1
  <2>3. Len(b.log) = i + 1 /\ Len(b.totals) = l + 1
    BY <1>1, <1>2
  <2> HIDE DEF i, j, l
  <2>4. (i + 1) - j = l + 1
    BY <2>2
  <2> QED BY <2>3, <2>4 DEF j
<1> QED BY <1>3, <1>6, <1>7 DEF OnceIn

\* An average, of what was kept and the element that sets it off.
LEMMA AverageOnce ==
  ASSUME NEW a \in StateOfKey, NEW b \in StateOfKey, NEW x \in Record, OnceIn(a), ~ Periodic,
         b.totals = Append(a.totals, Append(a.kept, x.n)), b.kept = <<>>,
         b.log = Append(a.log, x)
  PROVE  OnceIn(b)
<1> DEFINE mid == [b EXCEPT !.totals = a.totals, !.kept = Append(a.kept, x.n)]
<1>1. x.n \in Number /\ Append(a.kept, x.n) \in Seq(Number) /\ a.totals \in Seq(Seq(Number))
  BY ToldType DEF Record
<1>2. /\ mid \in StateOfKey
      /\ mid.totals = a.totals /\ mid.kept = Append(a.kept, x.n) /\ mid.log = b.log
  BY <1>1 DEF StateOfKey
<1> HIDE DEF mid
<1>3. OnceIn(mid)
  BY <1>2, KeptOnce
<1>4. Told(b.totals, b.kept) = Told(mid.totals, mid.kept)
  BY <1>1, <1>2, TotalAdds
<1> QED BY <1>2, <1>3, <1>4 DEF OnceIn

-----------------------------------------------------------------------------
(* Lemmas on what is counted.                                              *)

\* What the records of a key are, for the provers.
LEMMA RecordsType ==
  ASSUME NEW r \in Seq(Record)
  PROVE  /\ Len(r) \in Nat /\ DOMAIN r = 1 .. Len(r)
         /\ \A i \in 1 .. Len(r) : r[i] \in Record /\ r[i].at \in Nat /\ r[i].at \in Int
<1>1. Len(r) \in Nat /\ DOMAIN r = 1 .. Len(r) /\ \A i \in 1 .. Len(r) : r[i] \in Record
  OBVIOUS
<1>2. \A x \in Record : x.at \in Nat
  BY DEF Record, Time
<1> QED BY <1>1, <1>2

\* Recent records can be counted.
LEMMA RecentFinite ==
  ASSUME NEW r \in Seq(Record), NEW c, NEW t
  PROVE  IsFiniteSet(Recent(r, c, t)) /\ Cardinality(Recent(r, c, t)) \in Nat
<1>1. Len(r) \in Int /\ 1 \in Int /\ DOMAIN r = 1 .. Len(r)
  BY RecordsType
<1>2. IsFiniteSet(1 .. Len(r))
  BY <1>1, FS_Interval
<1>3. Recent(r, c, t) \in SUBSET (1 .. Len(r))
  BY <1>1 DEF Recent, Hits
<1> QED BY <1>2, <1>3, FS_Subset, FS_CardinalityType

\* What one more record leaves of those there were.
LEMMA AppendRecord ==
  ASSUME NEW r \in Seq(Record), NEW x \in Record
  PROVE  /\ Append(r, x) \in Seq(Record) /\ Len(Append(r, x)) = Len(r) + 1
         /\ DOMAIN r = 1 .. Len(r) /\ DOMAIN Append(r, x) = 1 .. Len(r) + 1
         /\ \A i \in 1 .. Len(r) : Append(r, x)[i] = r[i]
         /\ Append(r, x)[Len(r) + 1] = x
OBVIOUS

\* A record is one more of its category.
LEMMA HitsAppend ==
  ASSUME NEW r \in Seq(Record), NEW x \in Record, NEW c
  PROVE  Hits(Append(r, x), c) = IF x.cat = c THEN Hits(r, c) \cup {Len(r) + 1} ELSE Hits(r, c)
<1>1. SUFFICES ASSUME NEW w, w = Append(r, x)
               PROVE  Hits(w, c) = IF x.cat = c THEN Hits(r, c) \cup {Len(r) + 1} ELSE Hits(r, c)
  OBVIOUS
<1>2. /\ DOMAIN r = 1 .. Len(r) /\ DOMAIN w = 1 .. Len(r) + 1 /\ Len(r) \in Nat
      /\ \A i \in 1 .. Len(r) : w[i] = r[i]
      /\ w[Len(r) + 1] = x
  BY <1>1, AppendRecord, RecordsType
<1>3. \A i \in 1 .. Len(r) + 1 : i \in 1 .. Len(r) \/ i = Len(r) + 1
  BY <1>2
<1>4. 1 .. Len(r) \subseteq 1 .. Len(r) + 1 /\ Len(r) + 1 \in 1 .. Len(r) + 1
  BY <1>2
<1> QED BY <1>2, <1>3, <1>4 DEF Hits

\* The state shows, for the time to live, what was recent when it was written,
\* and then nothing.
LEMMA RecentLater ==
  ASSUME NEW r \in Seq(Record), NEW c, NEW t \in Int,
         NEW m \in Hits(r, c), \A j \in Hits(r, c) : j <= m, r[m].at <= t
  PROVE  Recent(r, c, t) = IF Statistics /\ t - r[m].at >= Ttl THEN {}
                           ELSE Recent(r, c, r[m].at)
<1>1. /\ \A j \in Hits(r, c) : j \in Int /\ r[j].at \in Int
      /\ Ttl \in Nat /\ Ttl > 0
  BY RecordsType, TtlAssumption DEF Hits
<1>2. CASE Statistics /\ t - r[m].at >= Ttl
  <2>1. ~ Followed(r, c, t, m)
    BY <1>1, <1>2 DEF Followed
  <2>2. \A i \in Hits(r, c) : i <= m
    OBVIOUS
  <2> QED BY <1>2, <2>1, <2>2 DEF Recent
<1>3. CASE ~ (Statistics /\ t - r[m].at >= Ttl)
  <2>1. CASE ~ Statistics
    BY <2>1 DEF Recent
  <2>2. CASE Statistics
    <3>1. t - r[m].at < Ttl
      BY <1>1, <1>3, <2>2
    <3>2. ASSUME NEW j \in Hits(r, c)
          PROVE  Followed(r, c, t, j) <=> Followed(r, c, r[m].at, j)
      <4>1. CASE j = m
        <5>1. Followed(r, c, t, m)
          BY <3>1 DEF Followed
        <5>2. r[m].at - r[m].at < Ttl
          BY <1>1
        <5>3. Followed(r, c, r[m].at, m)
          BY <5>2 DEF Followed
        <5> QED BY <4>1, <5>1, <5>3
      <4>2. CASE j # m
        <5>1. j < m
          BY <1>1, <4>2
        <5>2. t - r[j].at < Ttl => r[m].at - r[j].at < Ttl
          BY <1>1
        <5>3. r[m].at - r[j].at < Ttl => Followed(r, c, t, j)
          BY <5>1 DEF Followed
        <5> QED BY <5>2, <5>3 DEF Followed
      <4> QED BY <4>1, <4>2
    <3> QED BY <3>2, <1>3 DEF Recent
  <2> QED BY <2>1, <2>2, <1>3
<1> QED BY <1>2, <1>3

\* A new record, at the time t: it is recent, and what was remains so.
LEMMA RecentGrows ==
  ASSUME NEW r \in Seq(Record), NEW x \in Record, \A i \in DOMAIN r : r[i].at <= x.at
  PROVE  Cardinality(Recent(Append(r, x), x.cat, x.at))
           = Cardinality(Recent(r, x.cat, x.at)) + 1
<1> DEFINE c == x.cat
           t == x.at
           l == Len(r) + 1
<1>1. SUFFICES ASSUME NEW w, w = Append(r, x)
               PROVE  Cardinality(Recent(w, c, t)) = Cardinality(Recent(r, c, t)) + 1
  OBVIOUS
<1>2. /\ Hits(w, c) = Hits(r, c) \cup {l}
      /\ \A j \in Hits(r, c) : j \in Int /\ j < l /\ w[j] = r[j] /\ r[j].at \in Int
      /\ l \in Int /\ w[l].at = t /\ t \in Int /\ l \notin Hits(r, c)
  <2>1. Hits(w, c) = Hits(r, c) \cup {l}
    BY <1>1, HitsAppend
  <2>2. \A j \in Hits(r, c) : j \in 1 .. Len(r)
    BY RecordsType DEF Hits
  <2>3. Len(r) \in Nat /\ \A j \in 1 .. Len(r) : w[j] = r[j] /\ r[j].at \in Int
    BY <1>1, RecordsType, AppendRecord
  <2>4. w[l].at = t /\ t \in Int
    BY <1>1, AppendRecord DEF Record, Time
  <2> QED BY <2>1, <2>2, <2>3, <2>4
<1>3. Ttl \in Nat /\ Ttl > 0
  BY TtlAssumption
<1> HIDE DEF l, c, t
<1>4. Followed(w, c, t, l)
  BY <1>2, <1>3 DEF Followed
<1>5. ASSUME NEW j \in Hits(r, c) PROVE Followed(w, c, t, j) <=> Followed(r, c, t, j)
  <2>1. t - w[j].at < Ttl <=> t - r[j].at < Ttl
    BY <1>2
  <2>2. \A k \in Hits(r, c) : w[k].at - w[j].at < Ttl <=> r[k].at - r[j].at < Ttl
    BY <1>2
  <2>3. w[l].at - w[j].at < Ttl <=> t - r[j].at < Ttl
    BY <1>2
  <2> QED BY <1>2, <2>1, <2>2, <2>3 DEF Followed
<1>6. \A j \in Hits(r, c) : j <= l
  BY <1>2
<1>7. \A j \in Hits(r, c) : ~ (l <= j)
  BY <1>2
<1>8. Recent(w, c, t) = Recent(r, c, t) \cup {l}
  BY <1>2, <1>4, <1>5, <1>6, <1>7 DEF Recent
<1>9. l \notin Recent(r, c, t)
  BY <1>2 DEF Recent
<1> QED BY <1>8, <1>9, RecentFinite, FS_AddElement

\* A record of another category is none of this one's.
LEMMA RecentOther ==
  ASSUME NEW r \in Seq(Record), NEW x \in Record, NEW c \in Category, c # x.cat
  PROVE  /\ \A t : Recent(Append(r, x), c, t) = Recent(r, c, t)
         /\ Hits(Append(r, x), c) = Hits(r, c)
<1>1. SUFFICES ASSUME NEW w, w = Append(r, x), NEW t
               PROVE  Recent(w, c, t) = Recent(r, c, t) /\ Hits(w, c) = Hits(r, c)
  OBVIOUS
<1>2. Hits(w, c) = Hits(r, c)
  BY <1>1, HitsAppend
<1>3. \A j \in Hits(r, c) : w[j] = r[j]
  BY <1>1, AppendRecord DEF Hits
<1>4. \A j \in Hits(r, c) : Followed(w, c, t, j) <=> Followed(r, c, t, j)
  BY <1>2, <1>3 DEF Followed
<1> QED BY <1>2, <1>4 DEF Recent

\* What get() shows of a sound state.
LEMMA Shown ==
  ASSUME NEW st \in StateOfKey, NEW c \in Category, Tallied(st, c), Ordered(st.log),
         now \in Int
  PROVE  (IF Statistics /\ now - st.tally[c].at >= Ttl THEN 0 ELSE st.tally[c].n)
           = Cardinality(Recent(st.log, c, now))
<1>1. st.log \in Seq(Record)
  BY DEF StateOfKey
<1>2. CASE Hits(st.log, c) = {} /\ st.tally[c].n = 0
  <2>1. Recent(st.log, c, now) = {}
    BY <1>2 DEF Recent
  <2> QED BY <1>2, <2>1, FS_EmptySet
<1>3. CASE \E m \in Hits(st.log, c) :
             /\ \A j \in Hits(st.log, c) : j <= m
             /\ st.tally[c] = [n |-> Cardinality(Recent(st.log, c, st.log[m].at)),
                               at |-> st.log[m].at]
  <2>1. PICK m \in Hits(st.log, c) :
             /\ \A j \in Hits(st.log, c) : j <= m
             /\ st.tally[c] = [n |-> Cardinality(Recent(st.log, c, st.log[m].at)),
                               at |-> st.log[m].at]
    BY <1>3
  <2>2. st.log[m].at <= now
    BY DEF Ordered, Hits
  <2>3. Recent(st.log, c, now) = IF Statistics /\ now - st.log[m].at >= Ttl THEN {}
                                 ELSE Recent(st.log, c, st.log[m].at)
    <3> DEFINE r == st.log
    <3>1. r \in Seq(Record) /\ m \in Hits(r, c) /\ r[m].at <= now
          /\ \A j \in Hits(r, c) : j <= m
      BY <1>1, <2>1, <2>2
    <3> HIDE DEF r
    <3>2. Recent(r, c, now) = IF Statistics /\ now - r[m].at >= Ttl THEN {}
                              ELSE Recent(r, c, r[m].at)
      BY <3>1, RecentLater
    <3> QED BY <3>2 DEF r
  <2>4. st.tally[c].at = st.log[m].at
        /\ st.tally[c].n = Cardinality(Recent(st.log, c, st.log[m].at))
    BY <2>1
  <2> QED BY <2>3, <2>4, FS_EmptySet
<1> QED BY <1>2, <1>3 DEF Tallied

\* One element more, counted.
LEMMA CountedOnce ==
  ASSUME NEW a \in StateOfKey, NEW b \in StateOfKey, NEW x \in Record, now \in Int,
         Ordered(a.log), \A c \in Category : Tallied(a, c), x.at = now,
         b.log = Append(a.log, x),
         b.tally = [a.tally EXCEPT ![x.cat] =
           [n |-> (IF Statistics /\ now - a.tally[x.cat].at >= Ttl THEN 0
                   ELSE a.tally[x.cat].n) + 1,
            at |-> now]]
  PROVE  Ordered(b.log) /\ \A c \in Category : Tallied(b, c)
<1>1. /\ a.log \in Seq(Record) /\ b.log \in Seq(Record) /\ x.cat \in Category
      /\ a.tally \in [Category -> Entry]
  BY DEF StateOfKey, Record
<1> DEFINE l == Len(a.log) + 1
<1>2. /\ DOMAIN a.log = 1 .. Len(a.log) /\ DOMAIN b.log = 1 .. l /\ Len(a.log) \in Nat
      /\ \A i \in 1 .. Len(a.log) : b.log[i] = a.log[i] /\ a.log[i].at \in Int
      /\ b.log[l] = x
  BY <1>1, AppendRecord, RecordsType
<1>3. \A i \in 1 .. l : i \in 1 .. Len(a.log) \/ i = l
  BY <1>2
<1>4. Ordered(b.log)
  <2>1. \A i \in DOMAIN b.log : b.log[i].at <= now
    BY <1>2, <1>3 DEF Ordered
  <2>2. ASSUME NEW i \in 1 .. l, NEW j \in 1 .. l, i <= j PROVE b.log[i].at <= b.log[j].at
    <3>1. CASE j = l
      BY <1>2, <2>1, <3>1
    <3>2. CASE j \in 1 .. Len(a.log)
      <4>1. i \in 1 .. Len(a.log)
        BY <1>2, <2>2, <3>2
      <4> QED BY <1>2, <2>2, <3>2, <4>1 DEF Ordered
    <3> QED BY <1>3, <3>1, <3>2
  <2> QED BY <1>2, <2>1, <2>2 DEF Ordered
<1>5. Tallied(b, x.cat)
  <2>1. Hits(b.log, x.cat) = Hits(a.log, x.cat) \cup {l}
    BY <1>1, HitsAppend
  <2>2. \A j \in Hits(b.log, x.cat) : j <= l
    BY <1>2 DEF Hits
  <2>3. b.tally[x.cat] = [n |-> Cardinality(Recent(a.log, x.cat, now)) + 1, at |-> now]
    BY <1>1, Shown
  <2>4. Cardinality(Recent(b.log, x.cat, now)) = Cardinality(Recent(a.log, x.cat, now)) + 1
    BY <1>1, RecentGrows DEF Ordered
  <2>5. b.log[l].at = now
    BY <1>2
  <2> QED BY <2>1, <2>2, <2>3, <2>4, <2>5 DEF Tallied
<1>6. ASSUME NEW c \in Category, c # x.cat PROVE Tallied(b, c)
  <2>1. b.tally[c] = a.tally[c]
    BY <1>1, <1>6
  <2>2. Hits(b.log, c) = Hits(a.log, c) /\ \A t : Recent(b.log, c, t) = Recent(a.log, c, t)
    <3> DEFINE r == a.log
    <3>1. r \in Seq(Record) /\ b.log = Append(r, x)
      BY <1>1
    <3> HIDE DEF r
    <3>2. /\ \A t : Recent(Append(r, x), c, t) = Recent(r, c, t)
          /\ Hits(Append(r, x), c) = Hits(r, c)
      BY <1>6, <3>1, RecentOther
    <3> QED BY <3>1, <3>2 DEF r
  <2>3. \A j \in Hits(a.log, c) : b.log[j] = a.log[j]
    BY <1>2 DEF Hits
  <2>4. Tallied(a, c)
    OBVIOUS
  <2> QED BY <2>1, <2>2, <2>3, <2>4 DEF Tallied
<1> QED BY <1>4, <1>5, <1>6

-----------------------------------------------------------------------------
(* What is sound stays so.                                                 *)

\* A key's state is one.
LEMMA OfKeyType ==
  ASSUME TypeOK, NEW k \in Key
  PROVE  OfKey(k) \in StateOfKey
BY DEF TypeOK, OfKey, StateOfKey

\* The state of a key that never had any is sound.
LEMMA FreshSound == Sound(Fresh)
<1>1. Hits(<<>>, 0) = {} /\ \A c : Hits(<<>>, c) = {}
  BY DEF Hits
<1>2. ASSUME NEW c \in Category PROVE Tallied(Fresh, c)
  BY <1>1 DEF Tallied, Fresh
<1>3. Ordered(Fresh.log)
  BY DEF Ordered, Fresh
<1>4. OnceIn(Fresh)
  <2>1. Told(<<>>, <<>>) = <<>>
    BY FlattenEmpty DEF Told
  <2>2. Numbers(<<>>) = <<>>
    BY DEF Numbers
  <2>3. Within(<<>>, <<>>)
    <3>1. <<>> \in [DOMAIN <<>> -> DOMAIN <<>>] /\ DOMAIN <<>> = {}
      OBVIOUS
    <3> QED BY <3>1 DEF Within
  <2>4. Len(<<>>) - Len(<<>>) = IF Periodic THEN Len(<<>>) ELSE 0
    OBVIOUS
  <2> QED BY <2>1, <2>2, <2>3, <2>4 DEF OnceIn, Fresh
<1> QED BY <1>2, <1>3, <1>4 DEF Sound

\* A state stays sound for as long as it is not written.
LEMMA SoundStays ==
  ASSUME NEW st \in StateOfKey, Sound(st), demo' = demo, now \in Int, now' \in Int, now <= now'
  PROVE  Sound(st)'
<1>1. Periodic' = Periodic /\ Averaging' = Averaging /\ Raining' = Raining
      /\ Statistics' = Statistics
  BY DEF Periodic, Averaging, Raining, Statistics
<1>2. OnceIn(st)' = OnceIn(st)
  BY <1>1 DEF OnceIn
<1>3. \A r, c, t : Recent(r, c, t)' = Recent(r, c, t)
  BY <1>1 DEF Recent
<1>4. \A c \in Category : Tallied(st, c)' = Tallied(st, c)
  BY <1>3 DEF Tallied
<1>5. Ordered(st.log) => Ordered(st.log)'
  <2>1. st.log \in Seq(Record)
    BY DEF StateOfKey
  <2>2. \A i \in DOMAIN st.log : st.log[i].at \in Int
    BY <2>1, RecordsType
  <2> QED BY <2>2 DEF Ordered
<1> QED BY <1>1, <1>2, <1>4, <1>5 DEF Sound

\* A saved state has its type.
LEMMA SavedType ==
  ASSUME IInv, NEW k \in Key
  PROVE  /\ \A s \in acked : taken[s][k] \in StateOfKey
         /\ \A t \in DOMAIN savepoint : savepoint[t][k] \in StateOfKey
BY DEF IInv, SavedInv, Good, Snapshot

\* Where no savepoint takes a step.
LEMMA SavedSoundStays ==
  ASSUME IInv, SavedSound, UNCHANGED <<acked, taken, savepoint, demo>>,
         now \in Int, now' \in Int, now <= now'
  PROVE  SavedSound'
<1>1. ASSUME NEW s \in acked, NEW k \in Key, NEW st, st = taken[s][k] PROVE Sound(st)'
  <2>1. st \in StateOfKey /\ Sound(st)
    BY <1>1, SavedType DEF SavedSound
  <2> QED BY <2>1, SoundStays
<1>2. ASSUME NEW t \in DOMAIN savepoint, NEW k \in Key, NEW st, st = savepoint[t][k]
      PROVE  Sound(st)'
  <2>1. st \in StateOfKey /\ Sound(st)
    BY <1>2, SavedType DEF SavedSound
  <2> QED BY <2>1, SoundStays
<1> QED BY <1>1, <1>2 DEF SavedSound

\* Nor any function.
LEMMA IdleSound ==
  ASSUME IInv, SoundInv,
         UNCHANGED <<acked, taken, savepoint, demo, kept, tally, log, totals>>,
         now' \in Int, now <= now'
  PROVE  SoundInv'
<1>1. now \in Int
  BY DEF IInv, TypeOK, Time
<1>2. ASSUME NEW k \in Key, NEW st, st = OfKey(k)' PROVE Sound(st)'
  <2>1. st = OfKey(k)
    BY <1>2 DEF OfKey
  <2>2. st \in StateOfKey /\ Sound(st)
    BY <2>1, OfKeyType DEF SoundInv, StatesSound, IInv
  <2> QED BY <2>2, <1>1, SoundStays
<1> QED BY <1>1, <1>2, SavedSoundStays DEF SoundInv, StatesSound

\* A function that leaves the state of its element's key sound.
LEMMA TakesSound ==
  ASSUME IInv, SoundInv, NEW s \in Subtask, NEW e, Takes(s, e),
         \A k \in Key \ {e.key} : OfKey(k)' = OfKey(k),
         \A st \in {OfKey(e.key)'} : Sound(st)'
  PROVE  SoundInv'
<1>1. now \in Int /\ now' = now /\ UNCHANGED <<acked, taken, savepoint, demo>>
  BY DEF IInv, TypeOK, Time, Takes
<1>2. ASSUME NEW k \in Key, NEW st, st = OfKey(k)' PROVE Sound(st)'
  <2>1. CASE k = e.key
    BY <1>2, <2>1
  <2>2. CASE k # e.key
    <3>1. st = OfKey(k)
      BY <1>2, <2>2
    <3>2. st \in StateOfKey /\ Sound(st)
      BY <3>1, OfKeyType DEF SoundInv, StatesSound, IInv
    <3> QED BY <3>2, <1>1, SoundStays
  <2> QED BY <2>1, <2>2
<1> QED BY <1>1, <1>2, SavedSoundStays DEF SoundInv, StatesSound

-----------------------------------------------------------------------------
(* The functions, savepoints and restarts leave every state sound.         *)

RecordOf(e) == [n |-> e.n, cat |-> e.cat, at |-> now]

\* A function that changes no state but that of its element's key.
LEMMA OneKey ==
  ASSUME IInv, IInv', NEW s \in Subtask, NEW e, Takes(s, e),
         \A k \in Key \ {e.key} : kept'[k] = kept[k] /\ tally'[k] = tally[k]
                                  /\ totals'[k] = totals[k]
  PROVE  /\ e.key \in Key /\ RecordOf(e) \in Record /\ now \in Int
         /\ \A k \in Key \ {e.key} : OfKey(k)' = OfKey(k)
         /\ OfKey(e.key)' \in StateOfKey /\ OfKey(e.key) \in StateOfKey
         /\ OfKey(e.key)'.log = Append(OfKey(e.key).log, RecordOf(e))
<1>1. e \in Element
  BY TakesFirst
<1>2. e.key \in Key /\ RecordOf(e) \in Record /\ now \in Int
  BY <1>1 DEF IInv, TypeOK, Element, Record, RecordOf, Time
<1>3. log \in [Key -> Seq(Record)]
      /\ log' = [log EXCEPT ![e.key] = Append(@, RecordOf(e))]
  BY DEF Takes, IInv, TypeOK, RecordOf
<1>4. \A k \in Key \ {e.key} : OfKey(k)' = OfKey(k)
  BY <1>2, <1>3 DEF OfKey
<1>5. \A k \in Key : OfKey(k) \in StateOfKey
  BY OfKeyType DEF IInv
<1>6. \A k \in Key : OfKey(k)' \in StateOfKey
  BY DEF IInv, TypeOK, OfKey, StateOfKey
<1>7. OfKey(e.key)'.log = Append(OfKey(e.key).log, RecordOf(e))
  BY <1>2, <1>3 DEF OfKey
<1> QED BY <1>2, <1>4, <1>5, <1>6, <1>7

\* A number is kept, or sets off the total of those kept.
LEMMA CountFunctionSound ==
  ASSUME IInv, IInv', SoundInv, NEW s \in Subtask, CountFunction(s)
  PROVE  SoundInv'
<1>0. PICK e : e = Head(channel[s])
  OBVIOUS
<1>1. Takes(s, e)
  BY <1>0, FunctionTakes
<1>2. /\ Periodic /\ tally' = tally
      /\ PutOut(e.key, kept[e.key]) \/ Keep(e.key, Append(kept[e.key], e.n))
  BY <1>0 DEF CountFunction
<1>3. e.key \in Key
  BY <1>1, TakesFirst DEF Element
<1>4. kept \in [Key -> Seq(Number)] /\ totals \in [Key -> Seq(Seq(Number))]
  BY DEF IInv, TypeOK
<1>5. \A k \in Key \ {e.key} : kept'[k] = kept[k] /\ tally'[k] = tally[k]
                               /\ totals'[k] = totals[k]
  BY <1>2, <1>3, <1>4 DEF PutOut, Keep
<1>6. /\ RecordOf(e) \in Record
      /\ \A k \in Key \ {e.key} : OfKey(k)' = OfKey(k)
      /\ OfKey(e.key)' \in StateOfKey /\ OfKey(e.key) \in StateOfKey
      /\ OfKey(e.key)'.log = Append(OfKey(e.key).log, RecordOf(e))
  BY <1>1, <1>5, OneKey
<1>7. PICK a \in StateOfKey : a = OfKey(e.key)
  BY <1>6
<1>8. PICK b \in StateOfKey : b = OfKey(e.key)'
  BY <1>6
<1>9. OnceIn(a)
  BY <1>2, <1>3, <1>7 DEF SoundInv, StatesSound, Sound
<1>10. a.kept = kept[e.key] /\ a.totals = totals[e.key] /\ b.log = Append(a.log, RecordOf(e))
  BY <1>6, <1>7, <1>8 DEF OfKey
<1>11. b.kept = kept'[e.key] /\ b.totals = totals'[e.key] /\ RecordOf(e).n = e.n
  BY <1>8 DEF OfKey, RecordOf
<1>12. OnceIn(b)
  <2>1. CASE PutOut(e.key, kept[e.key])
    <3>1. b.totals = Append(a.totals, a.kept) /\ b.kept = <<>>
      BY <1>3, <1>4, <1>10, <1>11, <2>1 DEF PutOut
    <3> QED BY <1>2, <1>6, <1>9, <1>10, <3>1, PutOnce
  <2>2. CASE Keep(e.key, Append(kept[e.key], e.n))
    <3>1. b.totals = a.totals /\ b.kept = Append(a.kept, RecordOf(e).n)
      BY <1>3, <1>4, <1>10, <1>11, <2>2 DEF Keep
    <3> QED BY <1>6, <1>9, <1>10, <3>1, KeptOnce
  <2> QED BY <1>2, <2>1, <2>2
<1>13. Sound(b)'
  <2>1. Periodic' /\ ~ Raining' /\ ~ Statistics'
    BY <1>1, <1>2 DEF Takes, Periodic, Raining, Statistics
  <2>2. OnceIn(b)'
    BY <1>2, <1>12, <2>1 DEF OnceIn
  <2> QED BY <2>1, <2>2 DEF Sound
<1> QED BY <1>1, <1>6, <1>8, <1>13, TakesSound

\* A number is kept, or is in the average.
LEMMA CountWindowAverageSound ==
  ASSUME IInv, IInv', SoundInv, NEW s \in Subtask, CountWindowAverage(s)
  PROVE  SoundInv'
<1>0. PICK e : e = Head(channel[s])
  OBVIOUS
<1> DEFINE sum == Append(kept[e.key], e.n)
<1>1. Takes(s, e)
  BY <1>0, FunctionTakes
<1>2. Averaging /\ tally' = tally /\ (PutOut(e.key, sum) \/ Keep(e.key, sum))
  BY <1>0 DEF CountWindowAverage
<1> HIDE DEF sum
<1>3. e.key \in Key
  BY <1>1, TakesFirst DEF Element
<1>4. kept \in [Key -> Seq(Number)] /\ totals \in [Key -> Seq(Seq(Number))]
  BY DEF IInv, TypeOK
<1>5. \A k \in Key \ {e.key} : kept'[k] = kept[k] /\ tally'[k] = tally[k]
                               /\ totals'[k] = totals[k]
  BY <1>2, <1>3, <1>4 DEF PutOut, Keep
<1>6. /\ RecordOf(e) \in Record
      /\ \A k \in Key \ {e.key} : OfKey(k)' = OfKey(k)
      /\ OfKey(e.key)' \in StateOfKey /\ OfKey(e.key) \in StateOfKey
      /\ OfKey(e.key)'.log = Append(OfKey(e.key).log, RecordOf(e))
  BY <1>1, <1>5, OneKey
<1>7. PICK a \in StateOfKey : a = OfKey(e.key)
  BY <1>6
<1>8. PICK b \in StateOfKey : b = OfKey(e.key)'
  BY <1>6
<1>9. OnceIn(a)
  BY <1>2, <1>3, <1>7 DEF SoundInv, StatesSound, Sound
<1>10. /\ a.totals = totals[e.key] /\ b.log = Append(a.log, RecordOf(e))
       /\ sum = Append(a.kept, RecordOf(e).n)
  BY <1>6, <1>7, <1>8 DEF OfKey, RecordOf, sum
<1>11. b.kept = kept'[e.key] /\ b.totals = totals'[e.key]
  BY <1>8 DEF OfKey
<1>12. ~ Periodic
  BY <1>2 DEF Averaging, Periodic
<1>13. OnceIn(b)
  <2>1. CASE PutOut(e.key, sum)
    <3>1. b.totals = Append(a.totals, Append(a.kept, RecordOf(e).n)) /\ b.kept = <<>>
      BY <1>3, <1>4, <1>10, <1>11, <2>1 DEF PutOut
    <3> QED BY <1>6, <1>9, <1>10, <1>12, <3>1, AverageOnce
  <2>2. CASE Keep(e.key, sum)
    <3>1. b.totals = a.totals /\ b.kept = Append(a.kept, RecordOf(e).n)
      BY <1>3, <1>4, <1>10, <1>11, <2>2 DEF Keep
    <3> QED BY <1>6, <1>9, <1>10, <3>1, KeptOnce
  <2> QED BY <1>2, <2>1, <2>2
<1>14. Sound(b)'
  <2>1. Averaging' /\ ~ Periodic' /\ ~ Raining' /\ ~ Statistics'
    BY <1>1, <1>2 DEF Takes, Averaging, Periodic, Raining, Statistics
  <2>2. OnceIn(b)'
    BY <1>12, <1>13, <2>1 DEF OnceIn
  <2> QED BY <2>1, <2>2 DEF Sound
<1> QED BY <1>1, <1>6, <1>8, <1>14, TakesSound

\* A category of the key is counted.
LEMMA TallySound ==
  ASSUME IInv, IInv', SoundInv, NEW s \in Subtask, RainCount(s) \/ CountFuntion(s)
  PROVE  SoundInv'
<1>0. PICK e : e = Head(channel[s])
  OBVIOUS
<1> DEFINE shown == IF Statistics /\ now - tally[e.key][e.cat].at >= Ttl THEN 0
                    ELSE tally[e.key][e.cat].n
<1>1. Takes(s, e)
  BY <1>0, FunctionTakes
<1>2. /\ Raining \/ Statistics
      /\ tally' = [tally EXCEPT ![e.key][e.cat] = [n |-> shown + 1, at |-> now]]
      /\ UNCHANGED <<kept, totals>>
  <2>1. CASE RainCount(s)
    <3>1. Raining /\ ~ Statistics
      BY <2>1 DEF RainCount, Raining, Statistics
    <3> QED BY <1>0, <2>1, <3>1 DEF RainCount
  <2>2. CASE CountFuntion(s)
    BY <1>0, <2>2 DEF CountFuntion, Visible
  <2> QED BY <2>1, <2>2
<1>3. e.key \in Key /\ e.cat \in Category
  BY <1>1, TakesFirst DEF Element
<1>4. tally \in [Key -> [Category -> Entry]]
  BY DEF IInv, TypeOK
<1>5. \A k \in Key \ {e.key} : kept'[k] = kept[k] /\ tally'[k] = tally[k]
                               /\ totals'[k] = totals[k]
  BY <1>2, <1>3, <1>4
<1>6. /\ RecordOf(e) \in Record /\ now \in Int
      /\ \A k \in Key \ {e.key} : OfKey(k)' = OfKey(k)
      /\ OfKey(e.key)' \in StateOfKey /\ OfKey(e.key) \in StateOfKey
      /\ OfKey(e.key)'.log = Append(OfKey(e.key).log, RecordOf(e))
  BY <1>1, <1>5, OneKey
<1>7. PICK a \in StateOfKey : a = OfKey(e.key)
  BY <1>6
<1>8. PICK b \in StateOfKey : b = OfKey(e.key)'
  BY <1>6
<1>9. Ordered(a.log) /\ \A c \in Category : Tallied(a, c)
  BY <1>2, <1>3, <1>7 DEF SoundInv, StatesSound, Sound
<1>10. /\ a.tally = tally[e.key] /\ b.tally = tally'[e.key]
       /\ b.log = Append(a.log, RecordOf(e))
       /\ RecordOf(e).cat = e.cat /\ RecordOf(e).at = now
  BY <1>6, <1>7, <1>8 DEF OfKey, RecordOf
<1>11. b.tally = [a.tally EXCEPT ![RecordOf(e).cat] =
           [n |-> (IF Statistics /\ now - a.tally[RecordOf(e).cat].at >= Ttl THEN 0
                   ELSE a.tally[RecordOf(e).cat].n) + 1,
            at |-> now]]
  BY <1>2, <1>3, <1>4, <1>10
<1> HIDE DEF shown
<1>12. Ordered(b.log) /\ \A c \in Category : Tallied(b, c)
  BY <1>6, <1>9, <1>10, <1>11, CountedOnce
<1>13. Sound(b)'
  <2>1. UNCHANGED <<demo, now>>
    BY <1>1 DEF Takes
  <2>2. (Raining' \/ Statistics') /\ ~ Periodic' /\ ~ Averaging' /\ Statistics' = Statistics
    BY <1>2, <2>1 DEF Periodic, Averaging, Raining, Statistics
  <2>3. \A r, c, t : Recent(r, c, t)' = Recent(r, c, t)
    BY <2>2 DEF Recent
  <2>4. Ordered(b.log)' /\ \A c \in Category : Tallied(b, c)'
    BY <1>12, <2>1, <2>3 DEF Ordered, Tallied
  <2> QED BY <2>2, <2>4 DEF Sound
<1> QED BY <1>1, <1>6, <1>8, <1>13, TakesSound

\* A subtask saves the states of its keys, and none of another's.
LEMMA SnapSound ==
  ASSUME IInv, SoundInv, NEW s \in Subtask, Snap(s)
  PROVE  SoundInv'
<1> DEFINE snapshot == [k \in Key |-> IF Owner(k, par) = s THEN OfKey(k) ELSE Fresh]
<1>1. /\ Acknowledge(s, snapshot)
      /\ UNCHANGED <<demo, now, kept, tally, log, totals>>
  BY DEF Snap, keyed, OfKey
<1>2. PICK a : a = snapshot
  OBVIOUS
<1>3. ASSUME NEW k \in Key PROVE a[k] \in StateOfKey /\ Sound(a[k])
  <2>1. OfKey(k) \in StateOfKey /\ Sound(OfKey(k))
    BY OfKeyType DEF SoundInv, StatesSound, IInv
  <2>2. Fresh \in StateOfKey /\ Sound(Fresh)
    BY FreshType, FreshSound
  <2>3. a[k] = OfKey(k) \/ a[k] = Fresh
    BY <1>2
  <2> QED BY <2>1, <2>2, <2>3
<1>4. /\ \/ /\ savepoint' = [t \in Subtask |-> IF t = s THEN a ELSE taken[t]]
            /\ acked' = {} /\ acked \cup {s} = Subtask
         \/ /\ taken' = [taken EXCEPT ![s] = a]
            /\ acked' = acked \cup {s}
            /\ UNCHANGED savepoint
  BY <1>1, <1>2 DEF Acknowledge, Completes
<1> HIDE DEF snapshot
<1>5. now \in Int /\ now' \in Int /\ now <= now' /\ demo' = demo
  BY <1>1 DEF IInv, TypeOK, Time
<1>6. ASSUME NEW st \in StateOfKey, Sound(st) PROVE Sound(st)'
  BY <1>5, <1>6, SoundStays
<1>7. StatesSound'
  <2>1. ASSUME NEW k \in Key, NEW st, st = OfKey(k)' PROVE Sound(st)'
    <3>1. st = OfKey(k)
      BY <1>1, <2>1 DEF OfKey
    <3>2. st \in StateOfKey /\ Sound(st)
      BY <3>1, OfKeyType DEF SoundInv, StatesSound, IInv
    <3> QED BY <1>6, <3>2
  <2> QED BY <2>1 DEF StatesSound
<1>8. ASSUME NEW t \in acked, NEW k \in Key
      PROVE  taken[t][k] \in StateOfKey /\ Sound(taken[t][k])
  BY SavedType DEF SoundInv, SavedSound
<1>9. ASSUME NEW t \in DOMAIN savepoint, NEW k \in Key
      PROVE  savepoint[t][k] \in StateOfKey /\ Sound(savepoint[t][k])
  BY SavedType DEF SoundInv, SavedSound
<1>10. SavedSound'
  <2>1. ASSUME NEW t \in acked', NEW k \in Key, NEW st, st = taken'[t][k] PROVE Sound(st)'
    <3>1. \/ st = a[k]
          \/ t \in acked /\ st = taken[t][k]
      <4>1. /\ taken' = [taken EXCEPT ![s] = a] /\ acked' = acked \cup {s}
        BY <1>4, <2>1
      <4>2. DOMAIN taken = Slot /\ par \in Slot /\ acked \subseteq 1 .. par
        BY DEF IInv, TypeOK, RuntimeTypeOK, Subtask
      <4>3. s \in Slot /\ acked \subseteq Slot
        <5>1. s \in 1 .. par /\ par \in 1 .. MaxParallelism
          BY <4>2 DEF Slot, Subtask
        <5>2. 1 .. par \subseteq 1 .. MaxParallelism
          BY <5>1, ParallelismAssumption
        <5> QED BY <4>2, <5>1, <5>2 DEF Slot
      <4>4. taken'[s] = a /\ \A u \in acked : u # s => taken'[u] = taken[u]
        BY <4>1, <4>2, <4>3
      <4> QED BY <2>1, <4>1, <4>4
    <3>2. st \in StateOfKey /\ Sound(st)
      BY <1>3, <1>8, <3>1
    <3> QED BY <1>6, <3>2
  <2>2. ASSUME NEW t \in DOMAIN savepoint', NEW k \in Key, NEW st, st = savepoint'[t][k]
        PROVE  Sound(st)'
    <3>1. \/ st = a[k]
          \/ t \in acked /\ st = taken[t][k]
          \/ t \in DOMAIN savepoint /\ st = savepoint[t][k]
      BY <1>4, <2>2
    <3>2. st \in StateOfKey /\ Sound(st)
      BY <1>3, <1>8, <1>9, <3>1
    <3> QED BY <1>6, <3>2
  <2> QED BY <2>1, <2>2 DEF SavedSound
<1> QED BY <1>7, <1>10 DEF SoundInv

\* What a key gets back is sound.
LEMMA SavedIsSound ==
  ASSUME IInv, SoundInv, NEW k \in Key
  PROVE  Saved(k) \in StateOfKey /\ Sound(Saved(k))
<1>1. CASE savepoint = <<>>
  BY <1>1, FreshType, FreshSound DEF Saved
<1>2. CASE savepoint # <<>>
  <2>1. savepoint \in Seq(Snapshot)
    BY DEF IInv, TypeOK, RuntimeTypeOK
  <2>2. Len(savepoint) \in Nat \ {0}
    BY <2>1, <1>2
  <2>3. Owner(k, Len(savepoint)) \in DOMAIN savepoint
    BY <2>1, <2>2, OwnerExists
  <2>4. Saved(k) = savepoint[Owner(k, Len(savepoint))][k]
    BY <1>2 DEF Saved
  <2>5. Sound(Saved(k))
    BY <2>3, <2>4 DEF SoundInv, SavedSound
  <2> QED BY <2>5, SavedGood
<1> QED BY <1>1, <1>2

\* Every key starts from what was saved for it, whichever its subtask is.
LEMMA RestartSound ==
  ASSUME IInv, SoundInv, NEW p \in Slot, Restart(p)
  PROVE  SoundInv'
<1>1. acked' = {} /\ UNCHANGED <<savepoint, demo, now>>
  BY DEF Restart, Redeploy
<1>2. now \in Int /\ now' \in Int /\ now <= now' /\ demo' = demo
  BY <1>1 DEF IInv, TypeOK, Time
<1>3. StatesSound'
  <2>1. ASSUME NEW k \in Key, NEW st, st = OfKey(k)' PROVE Sound(st)'
    <3>1. st = [kept |-> Saved(k).kept, tally |-> Saved(k).tally,
                log |-> Saved(k).log, totals |-> Saved(k).totals]
      BY <2>1 DEF Restart, OfKey
    <3>2. Saved(k) \in StateOfKey
      BY SavedIsSound
    <3>3. st = Saved(k)
      BY <3>1, <3>2 DEF StateOfKey
    <3>4. st \in StateOfKey /\ Sound(st)
      BY <3>3, SavedIsSound
    <3> QED BY <1>2, <3>4, SoundStays
  <2> QED BY <2>1 DEF StatesSound
<1>4. SavedSound'
  <2>1. ASSUME NEW t \in DOMAIN savepoint, NEW k \in Key, NEW st, st = savepoint[t][k]
        PROVE  Sound(st)'
    <3>1. st \in StateOfKey /\ Sound(st)
      BY <2>1, SavedType DEF SoundInv, SavedSound
    <3> QED BY <3>1, <1>2, SoundStays
  <2> QED BY <1>1, <2>1 DEF SavedSound
<1> QED BY <1>3, <1>4 DEF SoundInv

\* At the start.
LEMMA InitSound == Init => SoundInv
<1> SUFFICES ASSUME Init PROVE SoundInv
  OBVIOUS
<1>1. acked = {} /\ savepoint = <<>>
  BY DEF Init, RuntimeInit
<1>2. \A k \in Key : OfKey(k) = Fresh
  BY DEF Init, OfKey, Fresh
<1>3. StatesSound
  BY <1>2, FreshSound DEF StatesSound
<1> QED BY <1>1, <1>3 DEF SoundInv, SavedSound

\* Every step leaves all states sound.
LEMMA StepSound == IInv /\ IInv' /\ SoundInv /\ [Next]_vars => SoundInv'
<1> SUFFICES ASSUME IInv, IInv', SoundInv, [Next]_vars PROVE SoundInv'
  OBVIOUS
<1>1. CASE Emit \/ Tick \/ Save \/ UNCHANGED vars
  <2>1. /\ UNCHANGED <<acked, taken, savepoint, demo, kept, tally, log, totals>>
        /\ now' = now \/ now' = now + 1
    BY <1>1 DEF Emit, Deal, Tick, Save, Trigger, vars, runtime, keyed
  <2>2. now' \in Int /\ now <= now'
    BY <2>1 DEF IInv, TypeOK, Time
  <2> QED BY <2>1, <2>2, IdleSound
<1>2. ASSUME NEW s \in Subtask,
             CountFunction(s) \/ CountWindowAverage(s) \/ RainCount(s) \/ CountFuntion(s)
      PROVE  SoundInv'
  BY <1>2, CountFunctionSound, CountWindowAverageSound, TallySound
<1>3. ASSUME NEW s \in Subtask, Snap(s) PROVE SoundInv'
  BY <1>3, SnapSound
<1>4. ASSUME NEW p \in Slot, Restart(p) PROVE SoundInv'
  BY <1>4, RestartSound
<1> QED BY Zenon, <1>1, <1>2, <1>3, <1>4 DEF Next

\* Whatever savepoints, restores, moves of keys and expiries there were: what was
\* put out for a key and what is kept for it are its elements, each once and in
\* their order, without those that set off totals; no average comes before a
\* restart; and each count shown is that of the elements of its category since it
\* was last idle for the time to live.
THEOREM AnySavepointIsASoundStart == Spec => []SavepointsSound
<1>1. Spec => [](IInv /\ SoundInv)
  <2>1. Spec => []IInv
    BY Inductive
  <2>2. Init => SoundInv
    BY InitSound
  <2>3. IInv /\ IInv' /\ SoundInv /\ [Next]_vars => SoundInv'
    BY StepSound
  <2> QED BY <2>1, <2>2, <2>3, PTL DEF Spec
<1>2. IInv /\ SoundInv => SavepointsSound
  <2> SUFFICES ASSUME IInv, SoundInv PROVE SavepointsSound
    OBVIOUS
  <2>1. ASSUME NEW k \in Key PROVE OfKey(k) \in StateOfKey /\ Sound(OfKey(k))
    BY OfKeyType DEF IInv, SoundInv, StatesSound
  <2>2. EachElementOnce
    <3>1. ASSUME Periodic \/ Averaging, NEW k \in Key
          PROVE  /\ Within(Told(totals[k], kept[k]), Numbers(log[k]))
                 /\ Len(log[k]) - Len(Told(totals[k], kept[k]))
                      = IF Periodic THEN Len(totals[k]) ELSE 0
      BY <2>1, <3>1 DEF Sound, OnceIn, OfKey
    <3> QED BY <3>1 DEF EachElementOnce
  <2>3. AveragesOnlyAfterRestart
    BY DEF IInv, AverageInv, AveragesOnlyAfterRestart
  <2>4. TallyAgrees
    <3>1. ASSUME Raining \/ Statistics, NEW k \in Key, NEW c \in Category
          PROVE  Visible(k, c) = Cardinality(Recent(log[k], c, now))
      <4>1. PICK st \in StateOfKey : st = OfKey(k)
        BY <2>1
      <4>2. Ordered(st.log) /\ Tallied(st, c)
        BY <2>1, <3>1, <4>1 DEF Sound
      <4>3. now \in Int
        BY DEF IInv, TypeOK, Time
      <4>4. (IF Statistics /\ now - st.tally[c].at >= Ttl THEN 0 ELSE st.tally[c].n)
              = Cardinality(Recent(st.log, c, now))
        BY <4>2, <4>3, Shown
      <4>5. st.log = log[k] /\ st.tally = tally[k]
        BY <4>1 DEF OfKey
      <4> QED BY <4>4, <4>5 DEF Visible
    <3> QED BY <3>1 DEF TallyAgrees
  <2> QED BY <2>2, <2>3, <2>4 DEF SavepointsSound
<1> QED BY <1>1, <1>2, PTL
=============================================================================
