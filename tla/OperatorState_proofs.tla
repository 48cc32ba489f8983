----------------------- MODULE OperatorState_proofs -----------------------
(***************************************************************************)
(* Theorems about OperatorState, for any parallelism, any threshold and    *)
(* number of elements, any savepoints and restarts.                        *)
(*                                                                         *)
(* Of the sink, the invariant says that its buffers, what the subtasks     *)
(* have put or will put into the savepoint under way, and the lists of the *)
(* last savepoint each hold every element of their own history once        *)
(* (Complete), but for what is still under way before the barrier, and     *)
(* what was sent.  Of the counter, that each counted element belongs to    *)
(* one subtask (Divided): adding up is then a union of disjoint sets, and  *)
(* no sum over the subtasks is ever taken.                                 *)
(*                                                                         *)
(* A restore splits one list, that of all of the savepoint's lists in a    *)
(* row, in another way (Splits); what is at a place of it does not depend  *)
(* on how it is split.                                                     *)
(***************************************************************************)
EXTENDS OperatorState, WellFoundedInduction, FiniteSetTheorems, TLAPS

\* The places of a channel that hold elements, and those of them before a barrier.
Items(s) == {i \in DOMAIN channel[s] : channel[s][i] # Barrier}
Ahead(s) == {i \in Items(s) : \E j \in DOMAIN channel[s] : i < j /\ channel[s][j] = Barrier}

\* The elements under way, and those of them that are part of the savepoint.
Going == {e \in Element : \E s \in Slot : \E i \in Items(s) : channel[s][i] = e}
Cutting == {e \in Element : \E s \in Slot : \E i \in Ahead(s) : channel[s][i] = e}

\* While a savepoint is taken, each subtask that has not taken it has one barrier
\* to come, and nobody else has any.
BarrierInv ==
  /\ ~ saving => acked = {}
  /\ \A s \in Slot : \A i \in DOMAIN channel[s] :
       channel[s][i] = Barrier =>
         /\ saving /\ s \in Subtask \ acked
         /\ \A j \in DOMAIN channel[s] : channel[s][j] = Barrier => j = i
  /\ saving => \A s \in Subtask \ acked : \E i \in DOMAIN channel[s] : channel[s][i] = Barrier

IdleInv ==
  /\ \A s \in Slot \ Subtask :
       channel[s] = <<>> /\ bufferedElements[s] = <<>> /\ count[s] = 0
  /\ Counter => \A s \in Slot : bufferedElements[s] = <<>>
  /\ Sink => \A s \in Slot : count[s] = 0

\* Each element under way is so once, and is of the present history; it is of the
\* history of the savepoint if it is before the barrier.
GoingInv ==
  /\ \A s, t \in Slot : \A i \in Items(s), j \in Items(t) :
       channel[s][i] = channel[t][j] => s = t /\ i = j
  /\ Going \subseteq emitted
  /\ emitted \subseteq 1 .. next - 1 /\ cut \subseteq 1 .. next - 1 /\ savedCut \subseteq 1 .. next - 1
  /\ saving => Going \cap cut = Cutting
  /\ saving => cut \subseteq emitted
  /\ savepoint = <<>> => savedCut = {}

\* In the lists f, each element is once.
Once(f) ==
  \A s, t \in DOMAIN f : \A i \in DOMAIN f[s], j \in DOMAIN f[t] :
    f[s][i] = f[t][j] => s = t /\ i = j
Listed(f) == {e \in Element : \E s \in DOMAIN f : \E i \in DOMAIN f[s] : f[s][i] = e}

\* They are of the history all, which is what they list, what is gone, and,
\* apart from what they list, what is yet to come.
Complete(f, all, coming, gone) ==
  /\ Once(f)
  /\ \A s \in DOMAIN f : \A i \in DOMAIN f[s] : f[s][i] \in all \ coming
  /\ all \subseteq Listed(f) \cup coming \cup gone

\* What a subtask puts into the savepoint, or has put.
Part == [s \in Slot |-> IF s \in acked THEN taken[s] ELSE bufferedElements[s]]

SinkInv ==
  Sink => /\ Complete(bufferedElements, emitted, Going, sent)
          /\ saving => Complete(Part, cut, Cutting, sent)
          /\ Complete(savepoint, savedCut, {}, sent)

\* Each of the elements is counted by one of D, once.
Divided(elements, D, n) ==
  \E by \in [elements -> D] : \A s \in D : n[s] = Cardinality({e \in elements : by[e] = s})

CountPart == [s \in Slot |-> IF s \in acked THEN taken[s][1] ELSE count[s]]

CounterInv ==
  Counter => /\ Divided(emitted \ Going, Subtask, count)
             /\ saving => Divided(cut \ Cutting, Subtask, CountPart)
             /\ \A s \in acked : Len(taken[s]) = 1
             /\ \A s \in DOMAIN savepoint : Len(savepoint[s]) = 1
             /\ savepoint # <<>> =>
                  Divided(savedCut, DOMAIN savepoint, [s \in DOMAIN savepoint |-> savepoint[s][1]])

\* Until buffers are merged, all that are held or saved are below the threshold.
Short(list) == Len(list) < Threshold
FullInv ==
  Sink /\ ~ shrunk =>
    /\ \A s \in Slot : Short(bufferedElements[s])
    /\ \A s \in acked : Short(taken[s])
    /\ \A s \in DOMAIN savepoint : Short(savepoint[s])

IInv ==
  TypeOK /\ BarrierInv /\ IdleInv /\ GoingInv /\ SinkInv /\ CounterInv /\ FullInv

-----------------------------------------------------------------------------
(* Lemmas on channels.                                                     *)

\* What is under way is an element, unless it is a barrier.
LEMMA ChannelType ==
  ASSUME TypeOK, NEW s \in Slot
  PROVE  /\ channel[s] \in Seq(Element \cup {Barrier})
         /\ Len(channel[s]) \in Nat /\ DOMAIN channel[s] = 1 .. Len(channel[s])
         /\ Items(s) \subseteq 1 .. Len(channel[s]) /\ Ahead(s) \subseteq Items(s)
         /\ \A i \in Items(s) : channel[s][i] \in Element
<1> DEFINE E == Element \cup {Barrier}
<1>1. channel[s] \in Seq(E)
  BY DEF TypeOK, RuntimeTypeOK
<1> HIDE DEF E
<1>2. Len(channel[s]) \in Nat /\ DOMAIN channel[s] = 1 .. Len(channel[s])
      /\ \A i \in 1 .. Len(channel[s]) : channel[s][i] \in E
  BY <1>1
<1> QED BY <1>1, <1>2 DEF E, Items, Ahead

\* What is left when the first of a channel is taken.
LEMMA Pop ==
  ASSUME TypeOK, NEW s \in Slot, channel[s] # <<>>, channel' = [channel EXCEPT ![s] = Tail(@)]
  PROVE  /\ Len(channel[s]) \in Nat \ {0}
         /\ DOMAIN channel[s] = 1 .. Len(channel[s])
         /\ DOMAIN channel'[s] = 1 .. Len(channel[s]) - 1
         /\ \A i \in 1 .. Len(channel[s]) - 1 : channel'[s][i] = channel[s][i + 1]
         /\ Head(channel[s]) = channel[s][1]
         /\ \A t \in Slot \ {s} : channel'[t] = channel[t]
         /\ channel' \in [Slot -> Seq(Element \cup {Barrier})]
<1> DEFINE E == Element \cup {Barrier}
<1>1. channel \in [Slot -> Seq(E)]
  BY DEF TypeOK, RuntimeTypeOK
<1> HIDE DEF E
<1>2. channel[s] \in Seq(E) /\ channel'[s] = Tail(channel[s])
      /\ \A t \in Slot \ {s} : channel'[t] = channel[t]
  BY <1>1
<1>3. /\ Len(channel[s]) \in Nat \ {0} /\ DOMAIN channel[s] = 1 .. Len(channel[s])
      /\ Head(channel[s]) = channel[s][1]
      /\ DOMAIN Tail(channel[s]) = 1 .. Len(channel[s]) - 1
      /\ Tail(channel[s]) \in Seq(E)
      /\ \A i \in 1 .. Len(channel[s]) - 1 : Tail(channel[s])[i] = channel[s][i + 1]
  BY <1>2
<1>4. channel' \in [Slot -> Seq(E)]
  BY <1>1, <1>2, <1>3
<1> QED BY <1>2, <1>3, <1>4 DEF E

\* ... and where its elements and those before a barrier are.
LEMMA PopPlaces ==
  ASSUME TypeOK, NEW s \in Slot, channel[s] # <<>>, channel' = [channel EXCEPT ![s] = Tail(@)]
  PROVE  /\ \A i \in Nat \ {0} : i \in Items(s)' <=> i + 1 \in Items(s)
         /\ \A i \in Nat \ {0} : i \in Ahead(s)' <=> i + 1 \in Ahead(s)
         /\ \A t \in Slot \ {s} : Items(t)' = Items(t) /\ Ahead(t)' = Ahead(t)
<1> DEFINE n == Len(channel[s])
<1>1. /\ n \in Nat \ {0}
      /\ DOMAIN channel[s] = 1 .. n /\ DOMAIN channel'[s] = 1 .. n - 1
      /\ \A i \in 1 .. n - 1 : channel'[s][i] = channel[s][i + 1]
      /\ \A t \in Slot \ {s} : channel'[t] = channel[t]
  BY Pop
<1> HIDE DEF n
<1>2. ASSUME NEW i \in Nat \ {0} PROVE i \in Items(s)' <=> i + 1 \in Items(s)
  <2>1. i \in 1 .. n - 1 <=> i + 1 \in 1 .. n
    BY <1>1
  <2> QED BY <1>1, <2>1 DEF Items
<1>3. ASSUME NEW i \in Nat \ {0} PROVE i \in Ahead(s)' <=> i + 1 \in Ahead(s)
  <2>1. ASSUME NEW j \in DOMAIN channel'[s], i < j, channel'[s][j] = Barrier
        PROVE  \E k \in DOMAIN channel[s] : i + 1 < k /\ channel[s][k] = Barrier
    <3>1. j + 1 \in DOMAIN channel[s] /\ i + 1 < j + 1 /\ channel[s][j + 1] = Barrier
      BY <1>1, <2>1
    <3> QED BY <3>1
  <2>2. ASSUME NEW k \in DOMAIN channel[s], i + 1 < k, channel[s][k] = Barrier
        PROVE  \E j \in DOMAIN channel'[s] : i < j /\ channel'[s][j] = Barrier
    <3>1. k - 1 \in 1 .. n - 1 /\ i < k - 1 /\ (k - 1) + 1 = k
      BY <1>1, <2>2
    <3> QED BY <1>1, <2>2, <3>1
  <2> QED BY <1>2, <2>1, <2>2 DEF Ahead
<1>4. ASSUME NEW t \in Slot \ {s} PROVE Items(t)' = Items(t) /\ Ahead(t)' = Ahead(t)
  BY <1>1 DEF Items, Ahead
<1> QED BY <1>2, <1>3, <1>4

\* Each element that is left was a place further back, ...
LEMMA PopElement ==
  ASSUME TypeOK, NEW s \in Slot, channel[s] # <<>>, channel' = [channel EXCEPT ![s] = Tail(@)],
         NEW t \in Slot, NEW i \in Items(t)'
  PROVE  /\ i \in Nat \ {0}
         /\ t = s => i + 1 \in Items(s) /\ channel'[s][i] = channel[s][i + 1] /\ i + 1 # 1
         /\ t # s => i \in Items(t) /\ channel'[t][i] = channel[t][i]
<1> DEFINE n == Len(channel[s])
<1>1. /\ n \in Nat \ {0} /\ DOMAIN channel[s] = 1 .. n
      /\ DOMAIN channel'[s] = 1 .. n - 1
      /\ \A k \in 1 .. n - 1 : channel'[s][k] = channel[s][k + 1]
      /\ \A u \in Slot \ {s} : channel'[u] = channel[u]
  BY Pop
<1> HIDE DEF n
<1>2. \A u \in Slot \ {s} : Items(u)' = Items(u)
  BY PopPlaces
<1>3. CASE t = s
  <2>1. i \in 1 .. n - 1 /\ channel'[s][i] # Barrier
    BY <1>1, <1>3 DEF Items
  <2>2. i + 1 \in 1 .. n /\ i + 1 # 1 /\ i \in Nat \ {0}
    BY <1>1, <2>1
  <2>3. channel'[s][i] = channel[s][i + 1]
    BY <1>1, <2>1
  <2>4. i + 1 \in Items(s)
    BY <1>1, <2>1, <2>2, <2>3 DEF Items
  <2> QED BY <1>3, <2>2, <2>3, <2>4
<1>4. CASE t # s
  <2>1. Items(t)' = Items(t) /\ channel'[t] = channel[t]
    BY <1>1, <1>2, <1>4
  <2>2. i \in Nat \ {0}
    <3>1. Items(t) \subseteq 1 .. Len(channel[t]) /\ Len(channel[t]) \in Nat
      BY ChannelType
    <3> QED BY <2>1, <3>1
  <2> QED BY <1>4, <2>1, <2>2
<1> QED BY <1>3, <1>4

\* ... and each but the first is left.
LEMMA PopKeeps ==
  ASSUME TypeOK, NEW s \in Slot, channel[s] # <<>>, channel' = [channel EXCEPT ![s] = Tail(@)],
         NEW t \in Slot, NEW i \in Items(t), t # s \/ i # 1
  PROVE  \E j \in Items(t)' : channel'[t][j] = channel[t][i] /\ (i \in Ahead(t) <=> j \in Ahead(t)')
<1> DEFINE n == Len(channel[s])
<1>1. /\ n \in Nat \ {0} /\ DOMAIN channel[s] = 1 .. n
      /\ \A k \in 1 .. n - 1 : channel'[s][k] = channel[s][k + 1]
      /\ \A u \in Slot \ {s} : channel'[u] = channel[u]
  BY Pop
<1> HIDE DEF n
<1>2. /\ \A k \in Nat \ {0} : k \in Items(s)' <=> k + 1 \in Items(s)
      /\ \A k \in Nat \ {0} : k \in Ahead(s)' <=> k + 1 \in Ahead(s)
      /\ \A u \in Slot \ {s} : Items(u)' = Items(u) /\ Ahead(u)' = Ahead(u)
  BY PopPlaces
<1>3. CASE t = s
  <2>1. i - 1 \in 1 .. n - 1 /\ (i - 1) + 1 = i /\ i - 1 \in Nat \ {0}
    BY <1>1, <1>3 DEF Items
  <2> QED BY <1>1, <1>2, <1>3, <2>1
<1>4. CASE t # s
  BY <1>1, <1>2, <1>4
<1> QED BY <1>3, <1>4

\* The subtasks are the first of the slots.
LEMMA SubtaskIsSlot ==
  ASSUME TypeOK
  PROVE  Subtask \subseteq Slot /\ par \in Nat \ {0} /\ MaxParallelism \in Nat
<1>1. par \in 1 .. MaxParallelism /\ MaxParallelism \in Nat
  BY ParallelismAssumption DEF TypeOK, RuntimeTypeOK, Slot
<1>2. 1 .. par \subseteq 1 .. MaxParallelism
  BY <1>1
<1> QED BY <1>1, <1>2 DEF Slot, Subtask

\* s takes the element e.
Takes(s, e) ==
  /\ HasElement(s) /\ e = channel[s][1]
  /\ channel' = [channel EXCEPT ![s] = Tail(@)]
  /\ UNCHANGED <<par, saving, acked, taken, savepoint, saves, restarts>>
  /\ UNCHANGED <<demo, next, checkpointed, emitted, cut, savedCut, shrunk>>

\* It is no longer under way; it is part of the savepoint unless s has taken that.
LEMMA TakesOne ==
  ASSUME IInv, NEW s \in Subtask, NEW e, Takes(s, e)
  PROVE  /\ s \in Slot /\ e \in Going /\ e \in Element
         /\ Going' = Going \ {e} /\ Cutting' = Cutting \ {e}
         /\ saving => (e \in Cutting <=> s \notin acked)
<1> USE DEF IInv
<1>1. s \in Slot /\ channel[s] # <<>> /\ channel' = [channel EXCEPT ![s] = Tail(@)]
  BY SubtaskIsSlot DEF Takes, HasElement
<1>2. DOMAIN channel[s] = 1 .. Len(channel[s]) /\ Len(channel[s]) \in Nat \ {0}
      /\ Head(channel[s]) = channel[s][1]
  BY <1>1, Pop
<1>3. \A t \in Slot : Ahead(t) \subseteq Items(t) /\ Ahead(t)' \subseteq Items(t)'
  BY DEF Ahead
<1>4. 1 \in Items(s) /\ 1 \in 1 .. Len(channel[s])
  BY <1>2 DEF Items, Takes, HasElement
<1>5. e \in Element /\ e \in Going
  BY <1>1, <1>4, ChannelType DEF Takes, Going
<1>6. ASSUME NEW t \in Slot, NEW i \in Items(t), t # s \/ i # 1
      PROVE  channel[t][i] # e
  BY <1>1, <1>4, <1>6 DEF GoingInv, Takes
<1>7. ASSUME NEW t \in Slot, NEW i \in Items(t)'
      PROVE  /\ i \in Nat
             /\ \E j \in Items(t) : /\ channel[t][j] = channel'[t][i] /\ channel'[t][i] # e
                                    /\ i \in Ahead(t)' <=> j \in Ahead(t)
  <2>1. /\ i \in Nat \ {0}
        /\ t = s => i + 1 \in Items(s) /\ channel'[s][i] = channel[s][i + 1] /\ i + 1 # 1
        /\ t # s => i \in Items(t) /\ channel'[t][i] = channel[t][i]
    BY <1>1, PopElement
  <2>2. /\ \A k \in Nat \ {0} : k \in Ahead(s)' <=> k + 1 \in Ahead(s)
        /\ \A u \in Slot \ {s} : Ahead(u)' = Ahead(u)
    BY <1>1, PopPlaces
  <2>3. CASE t = s
    BY <1>1, <1>6, <2>1, <2>2, <2>3
  <2>4. CASE t # s
    BY <1>1, <1>6, <2>1, <2>2, <2>4
  <2> QED BY <2>3, <2>4
<1>8. ASSUME NEW t \in Slot, NEW i \in Items(t), channel[t][i] # e
      PROVE  \E j \in Items(t)' : channel'[t][j] = channel[t][i] /\ (i \in Ahead(t) <=> j \in Ahead(t)')
  <2>1. t # s \/ i # 1
    BY <1>8 DEF Takes
  <2> QED BY <1>1, <2>1, PopKeeps
<1>9. Going' = Going \ {e}
  <2>1. ASSUME NEW x \in Element, x \in Going' PROVE x \in Going /\ x # e
    <3>1. PICK t \in Slot, i \in Nat : i \in Items(t)' /\ channel'[t][i] = x
      BY <1>7, <2>1 DEF Going
    <3> QED BY <1>7, <3>1 DEF Going
  <2>2. ASSUME NEW x \in Element, x \in Going, x # e PROVE x \in Going'
    <3>1. PICK t \in Slot : \E i \in Items(t) : channel[t][i] = x
      BY <2>2 DEF Going
    <3>2. PICK i \in Items(t) : channel[t][i] = x
      BY <3>1
    <3> QED BY <1>8, <2>2, <3>2 DEF Going
  <2>3. Going \subseteq Element /\ Going' \subseteq Element
    BY DEF Going
  <2> QED BY <2>1, <2>2, <2>3
<1>10. Cutting' = Cutting \ {e}
  <2>1. ASSUME NEW x \in Element, x \in Cutting' PROVE x \in Cutting /\ x # e
    <3>1. PICK t \in Slot, i \in Nat : i \in Ahead(t)' /\ channel'[t][i] = x
      BY <1>3, <1>7, <2>1 DEF Cutting
    <3> QED BY <1>3, <1>7, <3>1 DEF Cutting
  <2>2. ASSUME NEW x \in Element, x \in Cutting, x # e PROVE x \in Cutting'
    <3>1. PICK t \in Slot : \E i \in Ahead(t) : channel[t][i] = x
      BY <2>2 DEF Cutting
    <3>2. PICK i \in Ahead(t) : channel[t][i] = x
      BY <3>1
    <3> QED BY <1>3, <1>8, <2>2, <3>2 DEF Cutting
  <2>3. Cutting \subseteq Element /\ Cutting' \subseteq Element
    BY DEF Cutting
  <2> QED BY <2>1, <2>2, <2>3
<1>11. ASSUME saving PROVE e \in Cutting <=> s \notin acked
  <2>1. CASE s \notin acked
    <3>1. PICK j \in DOMAIN channel[s] : channel[s][j] = Barrier
      BY <1>11, <2>1 DEF BarrierInv
    <3>2. 1 < j
      BY <1>2, <1>4, <3>1 DEF Items
    <3>3. 1 \in Ahead(s)
      BY <1>4, <3>1, <3>2 DEF Ahead
    <3>4. e = channel[s][1]
      BY DEF Takes
    <3> QED BY <1>1, <1>5, <2>1, <3>3, <3>4 DEF Cutting
  <2>2. CASE s \in acked
    <3>1. Ahead(s) = {}
      BY <1>1, <2>2 DEF BarrierInv, Ahead
    <3>2. ASSUME NEW t \in Slot, NEW i \in Ahead(t) PROVE channel[t][i] # e
      BY <1>3, <1>6, <3>1
    <3> QED BY <2>2, <3>2 DEF Cutting
  <2> QED BY <2>1, <2>2
<1> QED BY <1>1, <1>5, <1>9, <1>10, <1>11

\* What a pop of one channel leaves of the invariant: elements stay distinct, ...
LEMMA PopDistinct ==
  ASSUME TypeOK, GoingInv, NEW s \in Slot, channel[s] # <<>>,
         channel' = [channel EXCEPT ![s] = Tail(@)]
  PROVE  \A t, u \in Slot : \A i \in Items(t)', j \in Items(u)' :
           channel'[t][i] = channel'[u][j] => t = u /\ i = j
<1>0. ASSUME NEW x \in Slot, NEW k \in Items(x)'
      PROVE  /\ k \in Nat \ {0}
             /\ x = s => k + 1 \in Items(s) /\ channel'[s][k] = channel[s][k + 1] /\ k + 1 # 1
             /\ x # s => k \in Items(x) /\ channel'[x][k] = channel[x][k]
  BY PopElement
<1> SUFFICES ASSUME NEW t \in Slot, NEW u \in Slot, NEW i \in Items(t)', NEW j \in Items(u)',
                    channel'[t][i] = channel'[u][j]
             PROVE  t = u /\ i = j
  OBVIOUS
<1>1. /\ i \in Nat \ {0}
      /\ t = s => i + 1 \in Items(s) /\ channel'[s][i] = channel[s][i + 1]
      /\ t # s => i \in Items(t) /\ channel'[t][i] = channel[t][i]
  BY <1>0
<1>2. /\ j \in Nat \ {0}
      /\ u = s => j + 1 \in Items(s) /\ channel'[s][j] = channel[s][j + 1]
      /\ u # s => j \in Items(u) /\ channel'[u][j] = channel[u][j]
  BY <1>0
<1>3. \A x, y \in Slot : \A k \in Items(x), l \in Items(y) :
        channel[x][k] = channel[y][l] => x = y /\ k = l
  BY DEF GoingInv
<1>4. CASE t = s /\ u = s
  <2>1. channel[s][i + 1] = channel[s][j + 1]
    BY <1>1, <1>2, <1>4
  <2>2. i + 1 = j + 1
    BY <1>1, <1>2, <1>3, <1>4, <2>1
  <2> QED BY <1>1, <1>2, <1>4, <2>2
<1>5. CASE t = s /\ u # s
  BY <1>1, <1>2, <1>3, <1>5
<1>6. CASE t # s /\ u = s
  BY <1>1, <1>2, <1>3, <1>6
<1>7. CASE t # s /\ u # s
  BY <1>1, <1>2, <1>3, <1>7
<1> QED BY <1>4, <1>5, <1>6, <1>7

\* ... and the barriers that are left were there.
LEMMA PopBarrier ==
  ASSUME TypeOK, NEW s \in Slot, channel[s] # <<>>, channel' = [channel EXCEPT ![s] = Tail(@)],
         NEW t \in Slot, NEW i \in DOMAIN channel'[t], channel'[t][i] = Barrier
  PROVE  /\ t = s => i \in Nat /\ i + 1 \in DOMAIN channel[s] /\ channel[s][i + 1] = Barrier
         /\ t # s => i \in DOMAIN channel[t] /\ channel[t][i] = Barrier
<1> DEFINE n == Len(channel[s])
<1>1. /\ n \in Nat \ {0} /\ DOMAIN channel[s] = 1 .. n
      /\ DOMAIN channel'[s] = 1 .. n - 1
      /\ \A k \in 1 .. n - 1 : channel'[s][k] = channel[s][k + 1]
      /\ \A u \in Slot \ {s} : channel'[u] = channel[u]
  BY Pop
<1> HIDE DEF n
<1>2. CASE t = s
  <2>1. i \in 1 .. n - 1 /\ i + 1 \in 1 .. n
    BY <1>1, <1>2
  <2> QED BY <1>1, <1>2, <2>1
<1>3. CASE t # s
  BY <1>1, <1>3
<1> QED BY <1>2, <1>3

\* What holds of the channels and the histories once s has taken e.
LEMMA TakesInv ==
  ASSUME IInv, NEW s \in Subtask, NEW e, Takes(s, e)
  PROVE  /\ RuntimeTypeOK(Element, Seq(0 .. MaxElement))'
         /\ BarrierInv' /\ GoingInv'
<1> USE DEF IInv
<1>1. /\ s \in Slot /\ e \in Going /\ e \in Element
      /\ Going' = Going \ {e} /\ Cutting' = Cutting \ {e}
  BY TakesOne
<1>2. channel[s] # <<>> /\ Head(channel[s]) # Barrier /\ channel' = [channel EXCEPT ![s] = Tail(@)]
  BY DEF Takes, HasElement
<1>3. /\ DOMAIN channel[s] = 1 .. Len(channel[s]) /\ Len(channel[s]) \in Nat \ {0}
      /\ DOMAIN channel'[s] = 1 .. Len(channel[s]) - 1
      /\ \A i \in 1 .. Len(channel[s]) - 1 : channel'[s][i] = channel[s][i + 1]
      /\ Head(channel[s]) = channel[s][1]
      /\ \A t \in Slot \ {s} : channel'[t] = channel[t]
      /\ channel' \in [Slot -> Seq(Element \cup {Barrier})]
  BY <1>1, <1>2, Pop
<1>4. RuntimeTypeOK(Element, Seq(0 .. MaxElement))'
  BY <1>3 DEF TypeOK, RuntimeTypeOK, Takes, Subtask
<1>5. Subtask' = Subtask
  BY DEF Takes, Subtask
<1>6. BarrierInv'
  <2>1. ~ saving' => acked' = {}
    BY DEF BarrierInv, Takes
  <2>2. ASSUME NEW t \in Slot, NEW i \in DOMAIN channel'[t], channel'[t][i] = Barrier
        PROVE  /\ saving' /\ t \in Subtask' \ acked'
               /\ \A j \in DOMAIN channel'[t] : channel'[t][j] = Barrier => j = i
    <3>1. /\ t = s => i \in Nat /\ i + 1 \in DOMAIN channel[s] /\ channel[s][i + 1] = Barrier
          /\ t # s => i \in DOMAIN channel[t] /\ channel[t][i] = Barrier
      BY <1>1, <1>2, <2>2, PopBarrier
    <3>2. saving /\ t \in Subtask \ acked
      BY <3>1 DEF BarrierInv
    <3>3. ASSUME NEW j \in DOMAIN channel'[t], channel'[t][j] = Barrier PROVE j = i
      <4>1. /\ t = s => j \in Nat /\ j + 1 \in DOMAIN channel[s] /\ channel[s][j + 1] = Barrier
            /\ t # s => j \in DOMAIN channel[t] /\ channel[t][j] = Barrier
        BY <1>1, <1>2, <3>3, PopBarrier
      <4>2. CASE t = s
        <5>1. j + 1 = i + 1
          BY <1>1, <3>1, <4>1, <4>2 DEF BarrierInv
        <5> QED BY <3>1, <4>1, <4>2, <5>1
      <4>3. CASE t # s
        BY <3>1, <4>1, <4>3 DEF BarrierInv
      <4> QED BY <4>2, <4>3
    <3> QED BY <1>5, <3>2, <3>3 DEF Takes
  <2>3. ASSUME saving', NEW t \in Subtask' \ acked'
        PROVE  \E i \in DOMAIN channel'[t] : channel'[t][i] = Barrier
    <3>1. saving /\ t \in Subtask \ acked /\ t \in Slot
      BY <1>5, <2>3, SubtaskIsSlot DEF Takes
    <3>2. PICK i \in DOMAIN channel[t] : channel[t][i] = Barrier
      BY <3>1 DEF BarrierInv
    <3>3. CASE t = s
      <4>1. i - 1 \in 1 .. Len(channel[s]) - 1 /\ (i - 1) + 1 = i
        BY <1>2, <1>3, <3>2, <3>3
      <4> QED BY <1>3, <3>2, <3>3, <4>1
    <3>4. CASE t # s
      BY <1>3, <3>1, <3>2, <3>4
    <3> QED BY <3>3, <3>4
  <2> QED BY <2>1, <2>2, <2>3 DEF BarrierInv
<1>7. GoingInv'
  <2>1. \A t, u \in Slot : \A i \in Items(t)', j \in Items(u)' :
          channel'[t][i] = channel'[u][j] => t = u /\ i = j
    BY <1>1, <1>2, PopDistinct
  <2>2. /\ Going' \subseteq emitted'
        /\ saving' => Going' \cap cut' = Cutting'
    BY <1>1 DEF GoingInv, Takes
  <2>3. /\ emitted' \subseteq 1 .. next' - 1 /\ cut' \subseteq 1 .. next' - 1
        /\ savedCut' \subseteq 1 .. next' - 1
        /\ saving' => cut' \subseteq emitted'
        /\ savepoint' = <<>> => savedCut' = {}
    BY DEF GoingInv, Takes
  <2> QED BY <2>1, <2>2, <2>3 DEF GoingInv
<1> QED BY <1>4, <1>6, <1>7

-----------------------------------------------------------------------------
(* Lemmas on lists that hold each element of a history once.               *)

\* s takes over an element that was yet to come.
LEMMA CompleteTake ==
  ASSUME NEW f, NEW g, NEW all, all \subseteq Element, NEW coming, NEW gone,
         Complete(f, all, coming, gone),
         NEW s \in DOMAIN f, f[s] \in Seq(Element), NEW e \in coming, e \in all,
         DOMAIN g = DOMAIN f, \A t \in DOMAIN f \ {s} : g[t] = f[t],
         g[s] = Append(f[s], e)
  PROVE  Complete(g, all, coming \ {e}, gone)
<1> DEFINE n == Len(f[s])
<1>1. /\ n \in Nat /\ DOMAIN f[s] = 1 .. n /\ DOMAIN g[s] = 1 .. n + 1
      /\ g[s][n + 1] = e
      /\ \A i \in 1 .. n : g[s][i] = f[s][i]
  <2>1. e \in Element
    OBVIOUS
  <2> QED BY <2>1
<1> HIDE DEF n
<1>2. ASSUME NEW t \in DOMAIN f, NEW i \in DOMAIN g[t], ~ (t = s /\ i = n + 1)
      PROVE  i \in DOMAIN f[t] /\ g[t][i] = f[t][i]
  <2>1. CASE t = s
    <3>1. i \in 1 .. n
      BY <1>1, <1>2, <2>1
    <3> QED BY <1>1, <2>1, <3>1
  <2>2. CASE t # s
    BY <2>2
  <2> QED BY <2>1, <2>2
<1>3. ASSUME NEW t \in DOMAIN f, NEW i \in DOMAIN f[t]
      PROVE  i \in DOMAIN g[t] /\ g[t][i] = f[t][i] /\ f[t][i] # e
  <2>1. f[t][i] # e
    BY DEF Complete
  <2>2. CASE t = s
    <3>1. i \in 1 .. n /\ i \in 1 .. n + 1
      BY <1>1, <2>2
    <3> QED BY <1>1, <2>1, <2>2, <3>1
  <2>3. CASE t # s
    BY <2>1, <2>3
  <2> QED BY <2>2, <2>3
<1>4. Once(g)
  <2>1. SUFFICES ASSUME NEW t \in DOMAIN f, NEW u \in DOMAIN f,
                        NEW i \in DOMAIN g[t], NEW j \in DOMAIN g[u], g[t][i] = g[u][j]
                 PROVE  t = u /\ i = j
    BY DEF Once
  <2>2. CASE ~ (t = s /\ i = n + 1) /\ ~ (u = s /\ j = n + 1)
    <3>1. i \in DOMAIN f[t] /\ g[t][i] = f[t][i] /\ j \in DOMAIN f[u] /\ g[u][j] = f[u][j]
      BY <1>2, <2>2
    <3>2. f[t][i] = f[u][j]
      BY <2>1, <3>1
    <3>3. Once(f)
      BY DEF Complete
    <3> QED BY <3>1, <3>2, <3>3 DEF Once
  <2>3. CASE t = s /\ i = n + 1
    <3>1. g[t][i] = e
      BY <1>1, <2>3
    <3> QED BY <1>2, <1>3, <2>1, <2>3, <3>1
  <2>4. CASE u = s /\ j = n + 1
    <3>1. g[u][j] = e
      BY <1>1, <2>4
    <3> QED BY <1>2, <1>3, <2>1, <2>4, <3>1
  <2> QED BY <2>2, <2>3, <2>4
<1>5. ASSUME NEW t \in DOMAIN g, NEW i \in DOMAIN g[t] PROVE g[t][i] \in all \ (coming \ {e})
  <2>1. CASE t = s /\ i = n + 1
    BY <1>1, <2>1
  <2>2. CASE ~ (t = s /\ i = n + 1)
    <3>1. i \in DOMAIN f[t] /\ g[t][i] = f[t][i] /\ t \in DOMAIN f
      BY <1>2, <2>2
    <3> QED BY <3>1 DEF Complete
  <2> QED BY <2>1, <2>2
<1>6. ASSUME NEW x \in all PROVE x \in Listed(g) \cup (coming \ {e}) \cup gone
  <2>1. CASE x = e
    <3>1. n + 1 \in DOMAIN g[s] /\ g[s][n + 1] = x /\ s \in DOMAIN g
      BY <1>1, <2>1
    <3> QED BY <3>1 DEF Listed
  <2>2. CASE x # e /\ x \in Listed(f)
    <3>1. PICK t \in DOMAIN f : \E i \in DOMAIN f[t] : f[t][i] = x
      BY <2>2 DEF Listed
    <3>2. PICK i \in DOMAIN f[t] : f[t][i] = x
      BY <3>1
    <3> QED BY <1>3, <3>2 DEF Listed
  <2>3. CASE x # e /\ x \notin Listed(f)
    BY <2>3 DEF Complete
  <2> QED BY <2>1, <2>2, <2>3
<1> QED BY <1>4, <1>5, <1>6 DEF Complete

\* s sends what it holds, and the last of all with it.
LEMMA CompleteSend ==
  ASSUME NEW f, NEW g, NEW all, all \subseteq Element, NEW coming, NEW gone, NEW left,
         Complete(f, all, coming, gone), gone \subseteq left,
         NEW s \in DOMAIN f, DOMAIN g = DOMAIN f, \A t \in DOMAIN f \ {s} : g[t] = f[t],
         g[s] = <<>>, \A i \in DOMAIN f[s] : f[s][i] \in left
  PROVE  Complete(g, all, coming, left)
<1>1. DOMAIN g[s] = {}
  OBVIOUS
<1>2. ASSUME NEW t \in DOMAIN g, NEW i \in DOMAIN g[t]
      PROVE  t # s /\ t \in DOMAIN f /\ i \in DOMAIN f[t] /\ g[t][i] = f[t][i]
  BY <1>1
<1>3. Once(g)
  BY <1>2 DEF Once, Complete
<1>4. \A t \in DOMAIN g : \A i \in DOMAIN g[t] : g[t][i] \in all \ coming
  BY <1>2 DEF Complete
<1>5. ASSUME NEW x \in Listed(f) PROVE x \in Listed(g) \cup left
  <2>1. PICK t \in DOMAIN f : \E i \in DOMAIN f[t] : f[t][i] = x
    BY DEF Listed
  <2>2. x \in Element
    BY DEF Listed
  <2> QED BY <2>1, <2>2 DEF Listed
<1> QED BY <1>3, <1>4, <1>5 DEF Complete

\* The same lists, empty where there is none.
LEMMA CompleteElsewhere ==
  ASSUME NEW f, NEW g, NEW all, NEW coming, NEW gone, Complete(f, all, coming, gone),
         \A s \in DOMAIN g : DOMAIN g[s] # {} => s \in DOMAIN f /\ g[s] = f[s],
         \A s \in DOMAIN f : DOMAIN f[s] # {} => s \in DOMAIN g /\ g[s] = f[s]
  PROVE  Complete(g, all, coming, gone)
<1>1. Once(g)
  BY DEF Once, Complete
<1>2. \A t \in DOMAIN g : \A i \in DOMAIN g[t] : g[t][i] \in all \ coming
  BY DEF Complete
<1>3. Listed(f) \subseteq Listed(g)
  BY DEF Listed
<1> QED BY <1>1, <1>2, <1>3 DEF Complete

\* They hold no more elements than there are.
LEMMA CompleteType ==
  ASSUME NEW f, NEW all, all \subseteq Element, NEW coming, NEW gone,
         Complete(f, all, coming, gone), NEW s \in DOMAIN f, NEW S, f[s] \in Seq(S)
  PROVE  f[s] \in Seq(Element)
<1>1. \A i \in DOMAIN f[s] : f[s][i] \in Element
  BY DEF Complete
<1>2. f[s] = [i \in 1 .. Len(f[s]) |-> f[s][i]] /\ DOMAIN f[s] = 1 .. Len(f[s]) /\ Len(f[s]) \in Nat
  OBVIOUS
<1> QED BY <1>1, <1>2

-----------------------------------------------------------------------------
(* Lemmas on a list that is split.                                         *)

\* Every set of numbers has a least one.
LEMMA Least ==
  ASSUME NEW S, S \subseteq Nat, S # {}
  PROVE  \E m \in S : \A k \in S : m <= k
<1>1. PICK m \in S : \A k \in S : ~ (<<k, m>> \in OpToRel(<, Nat))
  BY NatLessThanWellFounded, WFMin
<1>2. \A k \in S : ~ (k < m)
  BY <1>1 DEF OpToRel
<1>3. \A k \in S : k \in Nat /\ m \in Nat
  OBVIOUS
<1> QED BY <1>2, <1>3

\* f[1], ..., f[p] are the list all, in a row: f[t] is what is behind b[t].
Splits(f, p, all, b) ==
  /\ b \in [1 .. p + 1 -> Nat] /\ b[1] = 0 /\ b[p + 1] = Len(all)
  /\ \A t \in 1 .. p :
       /\ Len(f[t]) \in Nat /\ DOMAIN f[t] = 1 .. Len(f[t])
       /\ b[t + 1] = b[t] + Len(f[t])
       /\ \A i \in 1 .. Len(f[t]) : f[t][i] = all[b[t] + i]

\* What has the same lists is split in the same way.
LEMMA SplitSame ==
  ASSUME NEW p, NEW f, NEW all, NEW b, Splits(f, p, all, b),
         NEW g, \A t \in 1 .. p : g[t] = f[t]
  PROVE  Splits(g, p, all, b)
BY DEF Splits

\* Later lists begin further back.
LEMMA SplitMonotone ==
  ASSUME NEW p \in Nat, NEW f, NEW all, NEW b, Splits(f, p, all, b),
         NEW t \in 1 .. p + 1, NEW u \in 1 .. p + 1, t <= u
  PROVE  b[t] <= b[u]
<1> DEFINE B == {v \in 1 .. p + 1 : t <= v /\ ~ (b[t] <= b[v])}
<1>1. SUFFICES ASSUME B # {} PROVE FALSE
  OBVIOUS
<1>2. B \subseteq Nat
  OBVIOUS
<1>3. PICK v \in B : \A k \in B : v <= k
  <2> HIDE DEF B
  <2> QED BY <1>1, <1>2, Least
<1>4. v \in 1 .. p + 1 /\ t <= v /\ ~ (b[t] <= b[v])
  OBVIOUS
<1>5. b[t] \in Nat /\ b[v] \in Nat
  BY <1>4 DEF Splits
<1>6. v # t /\ v - 1 \in 1 .. p /\ v - 1 \in 1 .. p + 1 /\ t <= v - 1 /\ ~ (v <= v - 1) /\ (v - 1) + 1 = v
  BY <1>4, <1>5
<1>7. b[t] <= b[v - 1]
  BY <1>3, <1>6
<1>8. b[v] = b[v - 1] + Len(f[v - 1]) /\ Len(f[v - 1]) \in Nat /\ b[v - 1] \in Nat
  BY <1>6 DEF Splits
<1> QED BY <1>4, <1>5, <1>7, <1>8

\* Each place of the list is one of one part.
LEMMA SplitPlaces ==
  ASSUME NEW p \in Nat, NEW f, NEW all, NEW b, Splits(f, p, all, b)
  PROVE  /\ \A t \in 1 .. p : \A i \in 1 .. Len(f[t]) : b[t] + i \in 1 .. Len(all)
         /\ \A j \in 1 .. Len(all) : \E t \in 1 .. p : b[t] < j /\ j <= b[t + 1]
         /\ \A t, u \in 1 .. p : \A j \in Nat :
              b[t] < j /\ j <= b[t + 1] /\ b[u] < j /\ j <= b[u + 1] => t = u
<1>1. /\ Len(all) \in Nat /\ b[1] = 0 /\ b[p + 1] = Len(all)
      /\ \A t \in 1 .. p + 1 : b[t] \in Nat
  <2>1. b \in [1 .. p + 1 -> Nat] /\ b[1] = 0 /\ b[p + 1] = Len(all)
    BY DEF Splits
  <2>2. p + 1 \in 1 .. p + 1
    OBVIOUS
  <2> QED BY <2>1, <2>2
<1>2. ASSUME NEW t \in 1 .. p
      PROVE  /\ t \in 1 .. p + 1 /\ t + 1 \in 1 .. p + 1 /\ b[t + 1] <= b[p + 1]
             /\ Len(f[t]) \in Nat /\ b[t + 1] = b[t] + Len(f[t])
  <2>1. t \in 1 .. p + 1 /\ t + 1 \in 1 .. p + 1 /\ p + 1 \in 1 .. p + 1 /\ t + 1 <= p + 1
    OBVIOUS
  <2>2. b[t + 1] <= b[p + 1]
    BY <2>1, SplitMonotone
  <2>3. Len(f[t]) \in Nat /\ b[t + 1] = b[t] + Len(f[t])
    BY DEF Splits
  <2> QED BY <2>1, <2>2, <2>3
<1>3. ASSUME NEW t \in 1 .. p, NEW i \in 1 .. Len(f[t]) PROVE b[t] + i \in 1 .. Len(all)
  <2>1. b[t] \in Nat /\ b[t + 1] \in Nat /\ b[t + 1] <= Len(all) /\ b[t + 1] = b[t] + Len(f[t])
        /\ Len(f[t]) \in Nat
    BY <1>1, <1>2
  <2> QED BY <1>1, <2>1
<1>4. ASSUME NEW j \in 1 .. Len(all) PROVE \E t \in 1 .. p : b[t] < j /\ j <= b[t + 1]
  <2> DEFINE B == {v \in 1 .. p + 1 : j <= b[v]}
  <2>1. p + 1 \in B /\ B \subseteq Nat
    BY <1>1
  <2>2. PICK v \in B : \A k \in B : v <= k
    <3> HIDE DEF B
    <3> QED BY <2>1, Least
  <2>3. v \in 1 .. p + 1 /\ j <= b[v]
    OBVIOUS
  <2>4. v # 1
    BY <1>1, <2>3
  <2>5. v - 1 \in 1 .. p /\ v - 1 \in 1 .. p + 1 /\ (v - 1) + 1 = v /\ ~ (v <= v - 1)
    BY <2>3, <2>4
  <2>6. ~ (j <= b[v - 1])
    BY <2>2, <2>5
  <2>7. b[v - 1] < j
    BY <1>1, <2>5, <2>6
  <2> QED BY <2>3, <2>5, <2>7
<1>5. ASSUME NEW t \in 1 .. p, NEW u \in 1 .. p, NEW j \in Nat,
             b[t] < j, j <= b[t + 1], b[u] < j, j <= b[u + 1]
      PROVE  t = u
  <2>1. ASSUME NEW x \in 1 .. p, NEW y \in 1 .. p, x < y PROVE b[x + 1] <= b[y]
    <3>1. x + 1 \in 1 .. p + 1 /\ y \in 1 .. p + 1 /\ x + 1 <= y
      BY <2>1
    <3> QED BY <3>1, SplitMonotone
  <2>2. b[t] \in Nat /\ b[t + 1] \in Nat /\ b[u] \in Nat /\ b[u + 1] \in Nat
    BY <1>1, <1>2
  <2>3. ~ (t < u)
    BY <1>5, <2>1, <2>2
  <2>4. ~ (u < t)
    BY <1>5, <2>1, <2>2
  <2> QED BY <2>3, <2>4
<1> QED BY <1>3, <1>4, <1>5

\* Where an element of a part is in the list, and the other way round.
LEMMA SplitElement ==
  ASSUME NEW p \in Nat, NEW f, NEW all, NEW b, Splits(f, p, all, b), NEW j \in 1 .. Len(all)
  PROVE  \E t \in 1 .. p : \E i \in DOMAIN f[t] : b[t] + i = j /\ f[t][i] = all[j]
<1>1. PICK t \in 1 .. p : b[t] < j /\ j <= b[t + 1]
  BY SplitPlaces
<1>2. /\ b[t] \in Nat /\ Len(f[t]) \in Nat /\ b[t + 1] = b[t] + Len(f[t])
      /\ DOMAIN f[t] = 1 .. Len(f[t])
      /\ \A i \in 1 .. Len(f[t]) : f[t][i] = all[b[t] + i]
  <2>1. t \in 1 .. p + 1
    OBVIOUS
  <2> QED BY <2>1 DEF Splits
<1>3. j - b[t] \in 1 .. Len(f[t]) /\ b[t] + (j - b[t]) = j
  BY <1>1, <1>2
<1> QED BY <1>2, <1>3

\* Split in another way, the lists still hold each element of the history once.
LEMMA SplitComplete ==
  ASSUME NEW p \in Nat, NEW f, DOMAIN f = 1 .. p, NEW b,
         NEW r \in Nat, NEW g, DOMAIN g = 1 .. r, NEW c,
         NEW all, Splits(f, p, all, b), Splits(g, r, all, c),
         NEW H, NEW gone, Complete(f, H, {}, gone)
  PROVE  Complete(g, H, {}, gone)
<1>1. \A j \in 1 .. Len(all) : \E t \in 1 .. p : \E i \in DOMAIN f[t] : b[t] + i = j /\ f[t][i] = all[j]
  BY SplitElement
<1>2. \A j \in 1 .. Len(all) : \E t \in 1 .. r : \E i \in DOMAIN g[t] : c[t] + i = j /\ g[t][i] = all[j]
  BY SplitElement
<1>3. ASSUME NEW j \in 1 .. Len(all), NEW k \in 1 .. Len(all), all[j] = all[k]
      PROVE  j = k /\ all[j] \in H
  <2>1. PICK t \in 1 .. p : \E i \in DOMAIN f[t] : b[t] + i = j /\ f[t][i] = all[j]
    BY <1>1
  <2>2. PICK i \in DOMAIN f[t] : b[t] + i = j /\ f[t][i] = all[j]
    BY <2>1
  <2>3. PICK u \in 1 .. p : \E i1 \in DOMAIN f[u] : b[u] + i1 = k /\ f[u][i1] = all[k]
    BY <1>1
  <2>4. PICK i1 \in DOMAIN f[u] : b[u] + i1 = k /\ f[u][i1] = all[k]
    BY <2>3
  <2>5. Once(f)
    BY DEF Complete
  <2>6. f[t][i] = f[u][i1]
    BY <1>3, <2>2, <2>4
  <2>7. t = u /\ i = i1
    BY <2>5, <2>6 DEF Once
  <2>8. f[t][i] \in H
    BY DEF Complete
  <2> QED BY <2>2, <2>4, <2>7, <2>8
<1>4. ASSUME NEW t \in 1 .. r, NEW i \in DOMAIN g[t]
      PROVE  /\ c[t] + i \in 1 .. Len(all) /\ g[t][i] = all[c[t] + i]
             /\ c[t] < c[t] + i /\ c[t] + i <= c[t + 1] /\ c[t] \in Nat /\ i \in Nat
  <2>1. /\ c[t] \in Nat /\ Len(g[t]) \in Nat /\ i \in 1 .. Len(g[t])
        /\ g[t][i] = all[c[t] + i] /\ c[t + 1] = c[t] + Len(g[t])
    <3>1. t \in 1 .. r + 1
      OBVIOUS
    <3> QED BY <3>1 DEF Splits
  <2>2. c[t] + i \in 1 .. Len(all)
    BY <2>1, SplitPlaces
  <2>3. c[t] < c[t] + i /\ c[t] + i <= c[t + 1]
    BY <2>1
  <2> QED BY <2>1, <2>2, <2>3
<1>5. Once(g)
  <2>1. SUFFICES ASSUME NEW t \in 1 .. r, NEW u \in 1 .. r,
                        NEW i \in DOMAIN g[t], NEW j \in DOMAIN g[u], g[t][i] = g[u][j]
                 PROVE  t = u /\ i = j
    BY DEF Once
  <2>2. c[t] + i = c[u] + j
    <3>1. all[c[t] + i] = all[c[u] + j]
      BY <1>4, <2>1
    <3>2. c[t] + i \in 1 .. Len(all) /\ c[u] + j \in 1 .. Len(all)
      BY <1>4
    <3> QED BY <1>3, <3>1, <3>2
  <2>3. t = u
    <3> DEFINE k == c[t] + i
    <3>1. k \in Nat /\ c[t] < k /\ k <= c[t + 1]
      BY <1>4
    <3>2. c[u] < k /\ k <= c[u + 1]
      BY <1>4, <2>2
    <3> HIDE DEF k
    <3> QED BY <3>1, <3>2, SplitPlaces
  <2> QED BY <1>4, <2>2, <2>3
<1>6. \A t \in DOMAIN g : \A i \in DOMAIN g[t] : g[t][i] \in H \ {}
  BY <1>3, <1>4
<1>7. ASSUME NEW x \in Listed(f) PROVE x \in Listed(g)
  <2>1. x \in Element
    BY DEF Listed
  <2>2. PICK t \in 1 .. p : \E i \in DOMAIN f[t] : f[t][i] = x
    BY DEF Listed
  <2>3. PICK i \in DOMAIN f[t] : f[t][i] = x
    BY <2>2
  <2>4. i \in 1 .. Len(f[t]) /\ f[t][i] = all[b[t] + i]
    BY DEF Splits
  <2>5. b[t] + i \in 1 .. Len(all)
    BY <2>4, SplitPlaces
  <2>6. PICK u \in 1 .. r : \E k \in DOMAIN g[u] : c[u] + k = b[t] + i /\ g[u][k] = all[b[t] + i]
    BY <1>2, <2>5
  <2> QED BY <2>1, <2>3, <2>4, <2>6 DEF Listed
<1> QED BY <1>5, <1>6, <1>7 DEF Complete

-----------------------------------------------------------------------------
(* What FlattenSeq makes of a savepoint.                                   *)

\* f is the recursive function of FlattenSeq for the first n elements of v.
Flattens(v, n, f) == f = [i \in 1 .. n |-> IF i = 1 THEN v[i] ELSE f[i - 1] \o v[i]]

\* What such a function is at each place.
LEMMA FlattensAt ==
  ASSUME NEW v, NEW n \in Nat, NEW f, Flattens(v, n, f), NEW i \in 1 .. n
  PROVE  f[i] = IF i = 1 THEN v[i] ELSE f[i - 1] \o v[i]
<1> DEFINE g == [j \in 1 .. n |-> IF j = 1 THEN v[j] ELSE f[j - 1] \o v[j]]
<1>1. g[i] = IF i = 1 THEN v[i] ELSE f[i - 1] \o v[i]
  OBVIOUS
<1>2. f = g
  BY DEF Flattens
<1> HIDE DEF g
<1> QED BY <1>1, <1>2

\* A function whose values are right flattens.
LEMMA FlattensByValues ==
  ASSUME NEW v, NEW n \in Nat, NEW f, f = [i \in 1 .. n |-> f[i]],
         \A i \in 1 .. n : f[i] = IF i = 1 THEN v[i] ELSE f[i - 1] \o v[i]
  PROVE  Flattens(v, n, f)
BY DEF Flattens

\* There is one for each sequence: one for one place more, ...
LEMMA FlattensOneMore ==
  ASSUME NEW v, NEW n \in Nat, NEW f, Flattens(v, n, f)
  PROVE  \E g : Flattens(v, n + 1, g)
<1> DEFINE g == [i \in 1 .. n + 1 |->
                   IF i \in 1 .. n THEN f[i] ELSE IF i = 1 THEN v[i] ELSE f[i - 1] \o v[i]]
<1>1. g = [i \in 1 .. n + 1 |-> g[i]]
  OBVIOUS
<1>2. \A i \in 1 .. n : g[i] = f[i]
  OBVIOUS
<1>3. g[n + 1] = IF n + 1 = 1 THEN v[n + 1] ELSE f[(n + 1) - 1] \o v[n + 1]
  OBVIOUS
<1> HIDE DEF g
<1>4. ASSUME NEW i \in 1 .. n + 1
      PROVE  g[i] = IF i = 1 THEN v[i] ELSE g[i - 1] \o v[i]
  <2>1. CASE i \in 1 .. n
    <3>1. g[i] = f[i] /\ f[i] = IF i = 1 THEN v[i] ELSE f[i - 1] \o v[i]
      BY <1>2, <2>1, FlattensAt
    <3>2. i # 1 => i - 1 \in 1 .. n
      BY <2>1
    <3>3. i # 1 => g[i - 1] = f[i - 1]
      BY <1>2, <3>2
    <3> QED BY <3>1, <3>3
  <2>2. CASE i \notin 1 .. n
    <3>1. i = n + 1
      BY <2>2
    <3>2. i # 1 => i - 1 \in 1 .. n /\ (n + 1) - 1 = i - 1
      BY <3>1
    <3>3. i # 1 => g[i - 1] = f[i - 1]
      BY <1>2, <3>2
    <3> QED BY <1>3, <3>1, <3>2, <3>3
  <2> QED BY <2>1, <2>2
<1>5. Flattens(v, n + 1, g)
  <2>1. n + 1 \in Nat
    OBVIOUS
  <2> QED BY <1>1, <1>4, <2>1, FlattensByValues
<1> QED BY <1>5

\* ... and so none is the first without.
LEMMA FlattensExists ==
  ASSUME NEW v, NEW n \in Nat
  PROVE  \E f : Flattens(v, n, f)
<1> DEFINE B == {m \in Nat : ~ \E f : Flattens(v, m, f)}
<1>1. SUFFICES ASSUME B # {} PROVE FALSE
  BY DEF B
<1>2. PICK m \in B : \A k \in B : m <= k
  BY <1>1, Least
<1>3. m # 0
  <2>1. Flattens(v, 0, <<>>)
    BY DEF Flattens
  <2> QED BY <2>1
<1>4. m - 1 \in Nat /\ (m - 1) + 1 = m
  BY <1>3
<1>5. m - 1 \notin B
  BY <1>2, <1>4
<1>6. PICK f : Flattens(v, m - 1, f)
  BY <1>4, <1>5
<1>7. \E g : Flattens(v, m, g)
  BY <1>4, <1>6, FlattensOneMore
<1> QED BY <1>2, <1>7

\* Two such functions agree where the sequences do.
LEMMA FlattensAgree ==
  ASSUME NEW v, NEW n \in Nat, NEW f, Flattens(v, n, f),
         NEW w, NEW m \in Nat, NEW g, Flattens(w, m, g), n <= m,
         \A i \in 1 .. n : v[i] = w[i]
  PROVE  \A i \in 1 .. n : f[i] = g[i]
<1> DEFINE B == {i \in 1 .. n : f[i] # g[i]}
<1>1. SUFFICES ASSUME B # {} PROVE FALSE
  OBVIOUS
<1>2. PICK i \in B : \A k \in B : i <= k
  <2>1. B \subseteq Nat
    OBVIOUS
  <2> HIDE DEF B
  <2> QED BY <1>1, <2>1, Least
<1>3. i \in 1 .. n /\ i \in 1 .. m /\ f[i] # g[i]
  OBVIOUS
<1>4. /\ f[i] = IF i = 1 THEN v[i] ELSE f[i - 1] \o v[i]
      /\ g[i] = IF i = 1 THEN w[i] ELSE g[i - 1] \o w[i]
  BY <1>3, FlattensAt
<1>5. i # 1 => i - 1 \in 1 .. n /\ ~ (i <= i - 1)
  BY <1>3
<1>6. i # 1 => f[i - 1] = g[i - 1]
  BY <1>2, <1>5
<1> QED BY <1>3, <1>4, <1>6

\* FlattenSeq's result is that of such a function.
LEMMA FlattenIs ==
  ASSUME NEW S, NEW v \in Seq(S), v # <<>>
  PROVE  \E f : Flattens(v, Len(v), f) /\ FlattenSeq(v) = f[Len(v)]
<1> DEFINE g == CHOOSE f : Flattens(v, Len(v), f)
<1>1. Len(v) \in Nat /\ Len(v) # 0
  OBVIOUS
<1>2. \E f : Flattens(v, Len(v), f)
  BY <1>1, FlattensExists
<1>3. FlattenSeq(v) = g[Len(v)]
  BY <1>1 DEF FlattenSeq, Flattens
<1>4. Flattens(v, Len(v), g)
  BY <1>2
<1> QED BY <1>3, <1>4

\* No lists are nothing in a row.
LEMMA FlattenEmpty == FlattenSeq(<<>>) = <<>>
BY DEF FlattenSeq

\* Where the elements of a concatenation are.
LEMMA Concat ==
  ASSUME NEW S, NEW a \in Seq(S), NEW c \in Seq(S)
  PROVE  /\ Len(a) \in Nat /\ Len(c) \in Nat
         /\ a \o c \in Seq(S) /\ Len(a \o c) = Len(a) + Len(c)
         /\ \A i \in 1 .. Len(a) : (a \o c)[i] = a[i]
         /\ \A i \in 1 .. Len(c) : (a \o c)[Len(a) + i] = c[i]
OBVIOUS

\* What it has for the first lists are lists, each the start of the later ones.
LEMMA FlattensType ==
  ASSUME NEW S, NEW n \in Nat, NEW v, \A i \in 1 .. n : v[i] \in Seq(S),
         NEW f, Flattens(v, n, f)
  PROVE  \A i \in 1 .. n : f[i] \in Seq(S)
<1> DEFINE B == {i \in 1 .. n : f[i] \notin Seq(S)}
<1>1. SUFFICES ASSUME B # {} PROVE FALSE
  OBVIOUS
<1>2. B \subseteq Nat
  OBVIOUS
<1>3. PICK i \in B : \A k \in B : i <= k
  <2> HIDE DEF B
  <2> QED BY <1>1, <1>2, Least
<1>4. i \in 1 .. n /\ f[i] \notin Seq(S) /\ v[i] \in Seq(S)
  OBVIOUS
<1>5. f[i] = IF i = 1 THEN v[i] ELSE f[i - 1] \o v[i]
  BY <1>4, FlattensAt
<1>6. i # 1 => i - 1 \in 1 .. n /\ ~ (i <= i - 1)
  BY <1>4
<1>7. i # 1 => f[i - 1] \in Seq(S)
  BY <1>3, <1>6
<1>8. i # 1 => f[i - 1] \o v[i] \in Seq(S)
  BY <1>4, <1>7
<1> QED BY <1>4, <1>5, <1>8

\* The lists flattened so far begin all those flattened later.
LEMMA FlattensPrefix ==
  ASSUME NEW S, NEW n \in Nat, NEW v, \A i \in 1 .. n : v[i] \in Seq(S),
         NEW f, Flattens(v, n, f), NEW t \in 1 .. n, NEW u \in 1 .. n, t <= u
  PROVE  Len(f[t]) <= Len(f[u]) /\ \A i \in 1 .. Len(f[t]) : f[u][i] = f[t][i]
<1> DEFINE Starts(w) == Len(f[t]) <= Len(f[w]) /\ \A i \in 1 .. Len(f[t]) : f[w][i] = f[t][i]
           B == {w \in 1 .. n : t <= w /\ ~ Starts(w)}
<1>0. \A i \in 1 .. n : f[i] \in Seq(S)
  BY FlattensType
<1>1. SUFFICES ASSUME B # {} PROVE FALSE
  OBVIOUS
<1>2. B \subseteq Nat
  OBVIOUS
<1>3. PICK w \in B : \A k \in B : w <= k
  <2> HIDE DEF B
  <2> QED BY <1>1, <1>2, Least
<1>4. w \in 1 .. n /\ t <= w /\ ~ Starts(w)
  OBVIOUS
<1>5. Starts(t)
  BY <1>0
<1>6. w # t
  BY <1>4, <1>5
<1>7. w - 1 \in 1 .. n /\ t <= w - 1 /\ ~ (w <= w - 1) /\ w # 1
  BY <1>4, <1>6
<1>8. Starts(w - 1)
  <2>1. w - 1 \notin B
    BY <1>3, <1>7
  <2> QED BY <1>7, <2>1
<1> HIDE DEF B, Starts
<1>9. f[w] = f[w - 1] \o v[w] /\ f[w - 1] \in Seq(S) /\ v[w] \in Seq(S) /\ f[t] \in Seq(S)
  <2>1. f[w] = IF w = 1 THEN v[w] ELSE f[w - 1] \o v[w]
    BY <1>4, FlattensAt
  <2> QED BY <1>0, <1>4, <1>7, <2>1
<1>10. Starts(w)
  <2>1. /\ Len(f[w]) = Len(f[w - 1]) + Len(v[w])
        /\ Len(f[w - 1]) \in Nat /\ Len(v[w]) \in Nat
        /\ \A i \in 1 .. Len(f[w - 1]) : f[w][i] = f[w - 1][i]
    <3>1. ASSUME NEW a \in Seq(S), NEW c \in Seq(S), f[w] = a \o c
          PROVE  /\ Len(f[w]) = Len(a) + Len(c) /\ Len(a) \in Nat /\ Len(c) \in Nat
                 /\ \A i \in 1 .. Len(a) : f[w][i] = a[i]
      BY <3>1, Concat
    <3> QED BY <1>9, <3>1
  <2>2. Len(f[t]) \in Nat
    BY <1>9
  <2>3. Len(f[t]) <= Len(f[w])
    <3>1. Len(f[t]) <= Len(f[w - 1])
      BY <1>8 DEF Starts
    <3>2. \A x, y, d \in Nat : x <= y => x <= y + d
      OBVIOUS
    <3> QED BY <2>1, <2>2, <3>1, <3>2
  <2>4. ASSUME NEW i \in 1 .. Len(f[t]) PROVE f[w][i] = f[t][i]
    <3>1. i \in 1 .. Len(f[w - 1])
      BY <1>8, <2>1, <2>2 DEF Starts
    <3> QED BY <1>8, <2>1, <3>1 DEF Starts
  <2> QED BY <2>3, <2>4 DEF Starts
<1> QED BY <1>4, <1>10

\* The lists of a savepoint are a split of all of them in a row.
LEMMA SplitSaved ==
  ASSUME NEW S, NEW v \in Seq(Seq(S))
  PROVE  /\ FlattenSeq(v) \in Seq(S)
         /\ \E b : Splits(v, Len(v), FlattenSeq(v), b)
<1>2. CASE v = <<>>
  <2>0. <<>> \in Seq(S) /\ Len(<<>>) = 0
    OBVIOUS
  <2>1. FlattenSeq(v) = <<>> /\ Len(v) = 0 /\ Len(FlattenSeq(v)) = 0
        /\ FlattenSeq(v) \in Seq(S)
    BY <1>2, <2>0, FlattenEmpty
  <2> DEFINE b == [t \in 1 .. 1 |-> 0]
  <2>2. b \in [1 .. 0 + 1 -> Nat] /\ b[1] = 0 /\ b[0 + 1] = 0
    OBVIOUS
  <2> HIDE DEF b
  <2>3. Splits(v, Len(v), FlattenSeq(v), b)
    BY <2>1, <2>2 DEF Splits
  <2> QED BY <2>1, <2>3
<1>3. CASE v # <<>>
  <2> DEFINE q == Len(v)
  <2>1. q \in Nat \ {0} /\ \A i \in 1 .. q : v[i] \in Seq(S)
    <3> DEFINE T == Seq(S)
    <3>1. v \in Seq(T)
      OBVIOUS
    <3> HIDE DEF T
    <3>2. Len(v) \in Nat /\ \A i \in 1 .. Len(v) : v[i] \in T
      BY <3>1
    <3>3. Len(v) # 0
      BY <1>3, <3>1
    <3> QED BY <3>2, <3>3 DEF T
  <2>2. PICK f : Flattens(v, q, f) /\ FlattenSeq(v) = f[q]
    BY <1>3, FlattenIs
  <2> HIDE DEF q
  <2>3. \A i \in 1 .. q : f[i] \in Seq(S) /\ Len(f[i]) \in Nat
    <3>1. \A i \in 1 .. q : f[i] \in Seq(S)
      BY <2>1, <2>2, FlattensType
    <3> QED BY <3>1
  <2> DEFINE b == [t \in 1 .. q + 1 |-> IF t = 1 THEN 0 ELSE Len(f[t - 1])]
  <2>4. b \in [1 .. q + 1 -> Nat]
    <3>1. \A t \in 1 .. q + 1 : t # 1 => t - 1 \in 1 .. q
      BY <2>1
    <3> QED BY <2>3, <3>1
  <2>5. b[1] = 0 /\ \A t \in 1 .. q : b[t + 1] = Len(f[t])
    <3>1. \A t \in 1 .. q : t + 1 \in 1 .. q + 1 /\ t + 1 # 1 /\ (t + 1) - 1 = t
      BY <2>1
    <3>2. 1 \in 1 .. q + 1
      BY <2>1
    <3> QED BY <3>1, <3>2
  <2> HIDE DEF b
  <2>6. b[q + 1] = Len(FlattenSeq(v))
    BY <2>1, <2>2, <2>5
  <2>7. ASSUME NEW t \in 1 .. q
        PROVE  /\ Len(v[t]) \in Nat /\ DOMAIN v[t] = 1 .. Len(v[t])
               /\ b[t + 1] = b[t] + Len(v[t])
               /\ \A i \in 1 .. Len(v[t]) : v[t][i] = f[q][b[t] + i]
    <3>1. v[t] \in Seq(S) /\ Len(v[t]) \in Nat /\ DOMAIN v[t] = 1 .. Len(v[t])
      BY <2>1
    <3>2. f[t] = IF t = 1 THEN v[t] ELSE f[t - 1] \o v[t]
      BY <2>1, <2>2, FlattensAt
    <3>3. /\ Len(f[t]) = b[t] + Len(v[t]) /\ b[t] \in Nat
          /\ \A i \in 1 .. Len(v[t]) : v[t][i] = f[t][b[t] + i]
      <4>1. CASE t = 1
        <5>1. b[t] = 0 /\ f[t] = v[t]
          BY <2>5, <3>2, <4>1
        <5> QED BY <3>1, <5>1
      <4>2. CASE t # 1
        <5>1. t - 1 \in 1 .. q /\ (t - 1) + 1 = t
          BY <2>1, <4>2
        <5>2. b[t] = Len(f[t - 1]) /\ f[t - 1] \in Seq(S) /\ f[t] = f[t - 1] \o v[t]
          <6>1. b[(t - 1) + 1] = Len(f[t - 1])
            BY <2>5, <5>1
          <6> QED BY <2>3, <3>2, <4>2, <5>1, <6>1
        <5>3. ASSUME NEW a \in Seq(S), NEW c \in Seq(S), f[t] = a \o c
              PROVE  /\ Len(f[t]) = Len(a) + Len(c) /\ Len(a) \in Nat
                     /\ \A i \in 1 .. Len(c) : c[i] = f[t][Len(a) + i]
          BY <5>3, Concat
        <5> QED BY <3>1, <5>2, <5>3
      <4> QED BY <4>1, <4>2
    <3>4. q \in 1 .. q /\ t <= q
      BY <2>1
    <3>5. Len(f[t]) <= Len(f[q]) /\ \A i \in 1 .. Len(f[t]) : f[q][i] = f[t][i]
      BY <2>1, <2>2, <3>4, FlattensPrefix
    <3>6. \A i \in 1 .. Len(v[t]) : b[t] + i \in 1 .. Len(f[t])
      BY <3>1, <3>3
    <3> QED BY <2>5, <3>1, <3>3, <3>5, <3>6
  <2>8. Splits(v, q, FlattenSeq(v), b)
    BY <2>2, <2>4, <2>5, <2>6, <2>7 DEF Splits
  <2>9. FlattenSeq(v) \in Seq(S)
    BY <2>1, <2>2, <2>3
  <2> QED BY <2>8, <2>9 DEF q
<1> QED BY <1>2, <1>3

-----------------------------------------------------------------------------
(* What Share makes of it.                                                 *)

\* Where the t-th of p even parts of n places begins.
Before(n, p, t) ==
  (t - 1) * (n \div p) + (IF t - 1 < n % p THEN t - 1 ELSE n % p)

\* Quotient and remainder.
LEMMA Division ==
  ASSUME NEW n \in Nat, NEW p \in Nat \ {0}
  PROVE  \E d \in Nat, r \in 0 .. p - 1 : d = n \div p /\ r = n % p /\ n = p * d + r
<1>1. PICK d : d = n \div p
  OBVIOUS
<1>2. PICK r : r = n % p
  OBVIOUS
<1>3. d \in Nat /\ r \in 0 .. p - 1
  BY <1>1, <1>2
<1>4. r = n - p * d
  <2>1. n % p = n - p * (n \div p)
    OBVIOUS
  <2> QED BY <1>1, <1>2, <2>1
<1>5. ASSUME NEW x \in Nat, NEW y \in Nat, y = n - p * x PROVE n = p * x + y
  BY <1>5
<1>6. r \in Nat
  BY <1>3
<1>7. n = p * d + r
  BY <1>3, <1>4, <1>5, <1>6
<1> QED BY <1>1, <1>2, <1>3, <1>7

\* The even parts of n adjoin each other, from 0 to n, and differ by one at most.
LEMMA EvenParts ==
  ASSUME NEW n \in Nat, NEW p \in Nat \ {0}
  PROVE  /\ Before(n, p, 1) = 0 /\ Before(n, p, p + 1) = n
         /\ \A t \in 1 .. p + 1 : Before(n, p, t) \in Nat
         /\ \A t \in 1 .. p : /\ Before(n, p, t + 1) - Before(n, p, t) \in Nat
                              /\ Before(n, p, t + 1) - Before(n, p, t) =
                                   (n \div p) + (IF t - 1 < n % p THEN 1 ELSE 0)
                              /\ Before(n, p, t + 1) <= n
<1>0. PICK d \in Nat, r \in 0 .. p - 1 : d = n \div p /\ r = n % p /\ n = p * d + r
  BY Division
<1> DEFINE B(t) == (t - 1) * d + (IF t - 1 < r THEN t - 1 ELSE r)
<1>1. d \in Nat /\ r \in Nat /\ r < p /\ n = p * d + r
  BY <1>0
<1>2. \A t : Before(n, p, t) = B(t)
  BY <1>0 DEF Before
<1>3. B(1) = 0 /\ B(p + 1) = n
  <2>1. (1 - 1) * d = 0 /\ ((p + 1) - 1) * d = p * d
    BY <1>1
  <2> QED BY <1>1, <2>1
<1>4. ASSUME NEW t \in 1 .. p + 1 PROVE B(t) \in Nat
  <2>1. t - 1 \in Nat
    OBVIOUS
  <2>2. (t - 1) * d \in Nat
    BY <1>1, <2>1
  <2> QED BY <1>1, <2>1, <2>2
<1>5. ASSUME NEW t \in 1 .. p
      PROVE  B(t + 1) - B(t) = d + (IF t - 1 < r THEN 1 ELSE 0) /\ B(t + 1) <= n
  <2>1. ((t + 1) - 1) * d = (t - 1) * d + d /\ (t - 1) * d \in Nat /\ t \in Nat
    BY <1>1
  <2>2. B(t + 1) - B(t) = d + (IF t - 1 < r THEN 1 ELSE 0)
    BY <1>1, <2>1
  <2>3. t * d <= p * d /\ t * d \in Nat /\ p * d \in Nat
    BY <1>1
  <2>4. B(t + 1) <= n
    <3>1. B(t + 1) = t * d + (IF t < r THEN t ELSE r)
      BY <2>1
    <3> QED BY <1>1, <2>1, <2>3, <3>1
  <2> QED BY <2>2, <2>4
<1>6. ASSUME NEW t \in 1 .. p PROVE B(t + 1) - B(t) \in Nat
  BY <1>1, <1>5
<1> HIDE DEF B
<1> QED BY <1>0, <1>2, <1>3, <1>4, <1>5, <1>6

\* Where the elements of a part of a list are.
LEMMA PartOf ==
  ASSUME NEW S, NEW all \in Seq(S), NEW lo \in Nat, NEW hi \in Nat, lo <= hi, hi <= Len(all)
  PROVE  /\ Len(SubSeq(all, lo + 1, hi)) = hi - lo
         /\ DOMAIN SubSeq(all, lo + 1, hi) = 1 .. hi - lo
         /\ \A i \in 1 .. hi - lo : SubSeq(all, lo + 1, hi)[i] = all[lo + i]
         /\ SubSeq(all, lo + 1, hi) \in Seq(S)
<1>1. Len(SubSeq(all, lo + 1, hi)) = hi - lo
  OBVIOUS
<1>2. DOMAIN SubSeq(all, lo + 1, hi) = 1 .. hi - lo
  OBVIOUS
<1>3. ASSUME NEW i \in 1 .. hi - lo PROVE SubSeq(all, lo + 1, hi)[i] = all[lo + i]
  OBVIOUS
<1>4. SubSeq(all, lo + 1, hi) \in Seq(S)
  OBVIOUS
<1> QED BY <1>1, <1>2, <1>3, <1>4

\* Parts of a list are a split of it.
LEMMA SplitEven ==
  ASSUME NEW S, NEW all \in Seq(S), NEW p \in Nat \ {0}, NEW g,
         \A t \in 1 .. p : g[t] = SubSeq(all, Before(Len(all), p, t) + 1, Before(Len(all), p, t + 1))
  PROVE  \E b : Splits(g, p, all, b)
<1> DEFINE n == Len(all)
           b == [t \in 1 .. p + 1 |-> Before(n, p, t)]
<1>1. n \in Nat
  OBVIOUS
<1>2. /\ b \in [1 .. p + 1 -> Nat] /\ b[1] = 0 /\ b[p + 1] = n
      /\ \A t \in 1 .. p : /\ b[t + 1] - b[t] \in Nat /\ b[t + 1] <= n /\ b[t] \in Nat
                           /\ g[t] = SubSeq(all, b[t] + 1, b[t + 1])
  <2> HIDE DEF n
  <2>1. 1 \in 1 .. p + 1 /\ p + 1 \in 1 .. p + 1
        /\ \A t \in 1 .. p : t \in 1 .. p + 1 /\ t + 1 \in 1 .. p + 1
    OBVIOUS
  <2>2. /\ Before(n, p, 1) = 0 /\ Before(n, p, p + 1) = n
        /\ \A t \in 1 .. p + 1 : Before(n, p, t) \in Nat
        /\ \A t \in 1 .. p : /\ Before(n, p, t + 1) - Before(n, p, t) \in Nat
                             /\ Before(n, p, t + 1) <= n
    BY <1>1, EvenParts
  <2>3. \A t \in 1 .. p : g[t] = SubSeq(all, Before(n, p, t) + 1, Before(n, p, t + 1))
    BY DEF n
  <2> QED BY <2>1, <2>2, <2>3
<1> HIDE DEF b
<1>3. ASSUME NEW t \in 1 .. p
      PROVE  /\ Len(g[t]) \in Nat /\ DOMAIN g[t] = 1 .. Len(g[t])
             /\ b[t + 1] = b[t] + Len(g[t])
             /\ \A i \in 1 .. Len(g[t]) : g[t][i] = all[b[t] + i]
  <2> DEFINE lo == b[t]
             hi == b[t + 1]
  <2>1. lo \in Nat /\ hi \in Nat /\ lo <= hi /\ hi <= n /\ g[t] = SubSeq(all, lo + 1, hi)
    <3>1. t + 1 \in 1 .. p + 1
      OBVIOUS
    <3>2. lo \in Nat /\ hi - lo \in Nat /\ hi <= n /\ g[t] = SubSeq(all, lo + 1, hi)
      BY <1>2
    <3>3. hi \in Nat
      BY <1>2, <3>1
    <3> HIDE DEF lo, hi
    <3> QED BY <3>2, <3>3
  <2> HIDE DEF lo, hi
  <2>2. /\ Len(SubSeq(all, lo + 1, hi)) = hi - lo
        /\ DOMAIN SubSeq(all, lo + 1, hi) = 1 .. hi - lo
        /\ \A i \in 1 .. hi - lo : SubSeq(all, lo + 1, hi)[i] = all[lo + i]
    BY <2>1, PartOf DEF n
  <2>3. /\ Len(g[t]) = hi - lo /\ hi - lo \in Nat /\ hi = lo + (hi - lo)
        /\ DOMAIN g[t] = 1 .. hi - lo
        /\ \A i \in 1 .. hi - lo : g[t][i] = all[lo + i]
    BY <2>1, <2>2
  <2>4. /\ Len(g[t]) \in Nat /\ DOMAIN g[t] = 1 .. Len(g[t]) /\ hi = lo + Len(g[t])
        /\ \A i \in 1 .. Len(g[t]) : g[t][i] = all[lo + i]
    BY <2>3
  <2> QED BY <2>4 DEF lo, hi
<1>4. Splits(g, p, all, b)
  BY <1>2, <1>3 DEF Splits
<1> QED BY <1>4

\* If no list of some is longer than m, no even part of as many or more is.
LEMMA SplitShort ==
  ASSUME NEW q \in Nat, NEW v, NEW all, NEW b, Splits(v, q, all, b),
         NEW m \in Nat, \A t \in 1 .. q : Len(v[t]) <= m
  PROVE  Len(all) \in Nat /\ Len(all) <= q * m
<1>0. /\ b \in [1 .. q + 1 -> Nat] /\ b[1] = 0 /\ b[q + 1] = Len(all)
      /\ \A t \in 1 .. q : b[t + 1] = b[t] + Len(v[t]) /\ Len(v[t]) \in Nat
  BY DEF Splits
<1> DEFINE B == {t \in 1 .. q + 1 : ~ (b[t] <= (t - 1) * m)}
<1>1. ASSUME B # {} PROVE FALSE
  <2>1. B \subseteq Nat
    OBVIOUS
  <2>2. PICK t \in B : \A k \in B : t <= k
    <3> HIDE DEF B
    <3> QED BY <1>1, <2>1, Least
  <2>3. t \in 1 .. q + 1 /\ ~ (b[t] <= (t - 1) * m)
    OBVIOUS
  <2>4. t # 1
    BY <1>0, <2>3
  <2>5. t - 1 \in 1 .. q /\ t - 1 \in 1 .. q + 1 /\ (t - 1) + 1 = t /\ ~ (t <= t - 1)
    BY <2>3, <2>4
  <2>6. b[t - 1] <= ((t - 1) - 1) * m
    BY <2>2, <2>5
  <2>7. b[t] = b[t - 1] + Len(v[t - 1]) /\ Len(v[t - 1]) \in Nat /\ Len(v[t - 1]) <= m
        /\ b[t - 1] \in Nat /\ b[t] \in Nat
    <3>1. b[(t - 1) + 1] = b[t - 1] + Len(v[t - 1])
      BY <1>0, <2>5
    <3> QED BY <1>0, <2>3, <2>5, <3>1
  <2>8. ((t - 1) - 1) * m + m = (t - 1) * m /\ ((t - 1) - 1) * m \in Int /\ (t - 1) * m \in Int
    BY <2>3
  <2> QED BY <2>3, <2>6, <2>7, <2>8
<1>2. q + 1 \in 1 .. q + 1 /\ (q + 1) - 1 = q
  OBVIOUS
<1> QED BY <1>0, <1>1, <1>2

\* Of no more than q lists of m elements each, more parts are no longer than m.
LEMMA EvenShort ==
  ASSUME NEW n \in Nat, NEW p \in Nat \ {0}, NEW q \in Nat, q <= p, NEW m \in Nat, n <= q * m,
         NEW t \in 1 .. p
  PROVE  Before(n, p, t + 1) - Before(n, p, t) <= m
<1>0. PICK d \in Nat, r \in 0 .. p - 1 : d = n \div p /\ r = n % p /\ n = p * d + r
  BY Division
<1>1. d \in Nat /\ r \in Nat /\ r < p /\ n = p * d + r
  BY <1>0
<1>2. Before(n, p, t + 1) - Before(n, p, t) = d + (IF t - 1 < r THEN 1 ELSE 0)
  BY <1>0, EvenParts
<1>3. q * m <= p * m /\ q * m \in Nat /\ p * m \in Nat /\ p * d \in Nat
  BY <1>1
<1>4. p * d + r <= p * m
  BY <1>1, <1>3
<1>5. d <= m
  <2>1. ASSUME ~ (d <= m) PROVE FALSE
    <3>1. p * (m + 1) <= p * d /\ p * (m + 1) = p * m + p
      BY <1>1, <2>1
    <3> QED BY <1>1, <1>3, <1>4, <3>1
  <2> QED BY <2>1
<1>6. CASE d = m
  <2>1. r = 0
    BY <1>1, <1>3, <1>4, <1>6
  <2> QED BY <1>1, <1>2, <2>1
<1>7. CASE d # m
  BY <1>1, <1>2, <1>5, <1>7
<1> QED BY <1>6, <1>7

\* What the restored savepoint's lists are, and what p subtasks get: one list split
\* in two ways.
LEMMA ShareSplits ==
  ASSUME NEW S, savepoint \in Seq(Seq(S)), NEW p \in Nat \ {0}, NEW g,
         \A s \in 1 .. p : g[s] = Share(s, p)
  PROVE  \E all \in Seq(S) :
           /\ \E a : Splits(savepoint, Len(savepoint), all, a)
           /\ \E b : Splits(g, p, all, b)
           /\ p # Len(savepoint) =>
                \A t \in 1 .. p :
                  g[t] = SubSeq(all, Before(Len(all), p, t) + 1, Before(Len(all), p, t + 1))
           /\ \A t \in 1 .. p : g[t] \in Seq(S)
<1> DEFINE all == FlattenSeq(savepoint)
<1>1. all \in Seq(S) /\ \E a : Splits(savepoint, Len(savepoint), all, a)
  BY SplitSaved
<1>2. CASE p = Len(savepoint)
  <2>1. \A s \in 1 .. p : g[s] = savepoint[s]
    BY <1>2 DEF Share
  <2>2. PICK a : Splits(savepoint, p, all, a)
    BY <1>1, <1>2
  <2> HIDE DEF all
  <2>3. PICK v : v = savepoint
    OBVIOUS
  <2>4. Splits(g, p, all, a)
    <3>1. Splits(v, p, all, a) /\ \A s \in 1 .. p : g[s] = v[s]
      BY <2>1, <2>2, <2>3
    <3> QED BY <3>1, SplitSame
  <2>5. \A s \in 1 .. p : g[s] \in Seq(S)
    <3> DEFINE T == Seq(S)
    <3>1. savepoint \in Seq(T)
      OBVIOUS
    <3> HIDE DEF T
    <3>2. \A s \in 1 .. p : savepoint[s] \in T
      BY <1>2, <3>1
    <3> QED BY <2>1, <3>2 DEF T
  <2> QED BY <1>1, <1>2, <2>4, <2>5
<1>3. CASE p # Len(savepoint)
  <2>1. \A s \in 1 .. p : g[s] = SubSeq(all, Before(Len(all), p, s) + 1, Before(Len(all), p, s + 1))
    BY <1>3 DEF Share, Before
  <2> HIDE DEF all
  <2>2. \E b : Splits(g, p, all, b)
    BY <1>1, <2>1, SplitEven
  <2>3. ASSUME NEW s \in 1 .. p PROVE g[s] \in Seq(S)
    <3> DEFINE n == Len(all)
               lo == Before(n, p, s)
               hi == Before(n, p, s + 1)
    <3>1. n \in Nat
      BY <1>1
    <3> HIDE DEF n
    <3>2. s \in 1 .. p + 1 /\ s + 1 \in 1 .. p + 1
      OBVIOUS
    <3>3. lo \in Nat /\ hi \in Nat /\ hi - lo \in Nat /\ hi <= n
      BY <3>1, <3>2, EvenParts
    <3> HIDE DEF lo, hi
    <3>4. SubSeq(all, lo + 1, hi) \in Seq(S)
      BY <1>1, <3>3, PartOf DEF n
    <3> QED BY <2>1, <3>4 DEF n, lo, hi
  <2> QED BY <1>1, <2>1, <2>2, <2>3
<1> QED BY <1>2, <1>3

-----------------------------------------------------------------------------
(* Lemmas on counts.                                                       *)

\* The elements of E at place i, and at the n places behind base.
At(E, by, i) == {e \in E : by[e] = i}
Behind(E, by, base, n) == {e \in E : base < by[e] /\ by[e] <= base + n}

\* One more place.
LEMMA CountOneMore ==
  ASSUME NEW E, IsFiniteSet(E), NEW by \in [E -> Nat], NEW base \in Nat, NEW n \in Nat
  PROVE  /\ Cardinality(Behind(E, by, base, n + 1)) =
              Cardinality(Behind(E, by, base, n)) + Cardinality(At(E, by, base + (n + 1)))
         /\ Cardinality(Behind(E, by, base, n)) \in Nat
         /\ Cardinality(Behind(E, by, base, 0)) = 0
<1> DEFINE A == Behind(E, by, base, n)
           B == At(E, by, base + (n + 1))
           C == Behind(E, by, base, n + 1)
<1>1. A \subseteq E /\ B \subseteq E /\ C = A \cup B /\ A \cap B = {}
  BY DEF Behind, At
<1>2. Behind(E, by, base, 0) = {}
  BY DEF Behind
<1> HIDE DEF A, B, C
<1>3. IsFiniteSet(A) /\ IsFiniteSet(B)
  BY <1>1, FS_Subset
<1>4. Cardinality(A) \in Nat /\ Cardinality(B) \in Nat /\ Cardinality({}) = 0
  BY <1>3, FS_CardinalityType, FS_EmptySet
<1>5. Cardinality(A \cup B) = Cardinality(A) + Cardinality(B) - Cardinality(A \cap B)
  BY <1>3, FS_Union
<1>6. Cardinality(C) = Cardinality(A) + Cardinality(B)
  <2>1. Cardinality(C) = Cardinality(A \cup B)
    BY <1>1
  <2>2. Cardinality(A \cap B) = 0
    BY <1>1, <1>4
  <2> QED BY <1>4, <1>5, <2>1, <2>2
<1> QED BY <1>2, <1>4, <1>6 DEF A, B, C

\* f is the recursive function of SumOf.
Sums(list, f) ==
  f = [n \in 0 .. Len(list) |-> IF n = 0 THEN 0 ELSE f[n - 1] + list[n]]

\* If each number of a list counts the elements of one place, their sum counts the
\* elements of all.
LEMMA SumIs ==
  ASSUME NEW E, IsFiniteSet(E), NEW by \in [E -> Nat], NEW base \in Nat,
         NEW list, Len(list) \in Nat,
         \A i \in 1 .. Len(list) : list[i] = Cardinality(At(E, by, base + i))
  PROVE  SumOf(list) = Cardinality(Behind(E, by, base, Len(list)))
<1> DEFINE G(n) == Cardinality(Behind(E, by, base, n))
           g == [n \in 0 .. Len(list) |-> G(n)]
           sum == CHOOSE f : Sums(list, f)
<1>1. G(0) = 0
  BY CountOneMore
<1>2. ASSUME NEW n \in 0 .. Len(list), n # 0 PROVE G(n) = G(n - 1) + list[n] /\ n - 1 \in 0 .. Len(list)
  <2> DEFINE m == n - 1
  <2>1. m \in Nat /\ m + 1 = n /\ n \in 1 .. Len(list) /\ m \in 0 .. Len(list)
    BY <1>2
  <2> HIDE DEF m
  <2>2. G(m + 1) = G(m) + Cardinality(At(E, by, base + (m + 1)))
    BY <2>1, CountOneMore
  <2>3. list[n] = Cardinality(At(E, by, base + n))
    BY <2>1
  <2>4. G(n) = G(m) + list[n] /\ m \in 0 .. Len(list)
    BY <2>1, <2>2, <2>3
  <2> QED BY <2>4 DEF m
<1> HIDE DEF G
<1>3. Sums(list, g)
  BY <1>1, <1>2 DEF Sums
<1>4. Sums(list, sum)
  <2> HIDE DEF g
  <2> QED BY <1>3
<1>5. SumOf(list) = sum[Len(list)]
  BY DEF SumOf, Sums
<1> HIDE DEF g, sum
<1>6. ASSUME NEW n \in 0 .. Len(list) PROVE sum[n] = IF n = 0 THEN 0 ELSE sum[n - 1] + list[n]
  <2> DEFINE h == [k \in 0 .. Len(list) |-> IF k = 0 THEN 0 ELSE sum[k - 1] + list[k]]
  <2>1. h[n] = IF n = 0 THEN 0 ELSE sum[n - 1] + list[n]
    OBVIOUS
  <2>2. sum = h
    BY <1>4 DEF Sums
  <2> HIDE DEF h
  <2> QED BY <2>1, <2>2
<1> DEFINE B == {n \in 0 .. Len(list) : sum[n] # G(n)}
<1>7. ASSUME B # {} PROVE FALSE
  <2>1. B \subseteq Nat
    OBVIOUS
  <2>2. PICK n \in B : \A k \in B : n <= k
    <3> HIDE DEF B
    <3> QED BY <1>7, <2>1, Least
  <2>3. n \in 0 .. Len(list) /\ sum[n] # G(n)
    OBVIOUS
  <2>4. n # 0
    BY <1>1, <1>6, <2>3
  <2>5. G(n) = G(n - 1) + list[n] /\ n - 1 \in 0 .. Len(list) /\ ~ (n <= n - 1)
    BY <1>2, <2>3, <2>4
  <2>6. sum[n - 1] = G(n - 1)
    BY <2>2, <2>5
  <2>7. sum[n] = sum[n - 1] + list[n]
    BY <1>6, <2>3, <2>4
  <2> QED BY <2>3, <2>5, <2>6, <2>7
<1>8. sum[Len(list)] = G(Len(list))
  <2>1. Len(list) \in 0 .. Len(list)
    OBVIOUS
  <2> QED BY <1>7, <2>1
<1> QED BY <1>5, <1>8 DEF G

\* D has counted one more element, s has.
LEMMA DividedTake ==
  ASSUME NEW E, IsFiniteSet(E), NEW D, NEW n, Divided(E, D, n), NEW e, e \notin E, NEW s \in D,
         NEW m, m[s] = n[s] + 1, \A t \in D \ {s} : m[t] = n[t]
  PROVE  Divided(E \cup {e}, D, m)
<1>1. PICK by \in [E -> D] : \A t \in D : n[t] = Cardinality({x \in E : by[x] = t})
  BY DEF Divided
<1> DEFINE F == E \cup {e}
           to == [x \in F |-> IF x = e THEN s ELSE by[x]]
<1>2. to \in [F -> D]
  BY <1>1
<1>3. \A x \in F : to[x] = IF x = e THEN s ELSE by[x]
  OBVIOUS
<1> HIDE DEF to
<1>4. ASSUME NEW t \in D, t # s PROVE m[t] = Cardinality({x \in F : to[x] = t})
  <2>1. {x \in F : to[x] = t} = {x \in E : by[x] = t}
    BY <1>3, <1>4
  <2> QED BY <1>1, <1>4, <2>1
<1>5. m[s] = Cardinality({x \in F : to[x] = s})
  <2> DEFINE A == {x \in E : by[x] = s}
  <2>1. {x \in F : to[x] = s} = A \cup {e} /\ A \subseteq E /\ e \notin A
    BY <1>3
  <2>2. n[s] = Cardinality(A)
    BY <1>1
  <2> HIDE DEF A
  <2>3. IsFiniteSet(A)
    BY <2>1, FS_Subset
  <2>4. Cardinality(A \cup {e}) = Cardinality(A) + 1
    BY <2>1, <2>3, FS_AddElement
  <2> QED BY <2>1, <2>2, <2>4
<1>6. \A t \in D : m[t] = Cardinality({x \in F : to[x] = t})
  BY <1>4, <1>5
<1> QED BY <1>2, <1>6 DEF Divided

\* Only what D's members have matters, ...
LEMMA DividedSame ==
  ASSUME NEW E, NEW D, NEW n, Divided(E, D, n), NEW m, \A t \in D : m[t] = n[t]
  PROVE  Divided(E, D, m)
BY DEF Divided

\* ... which is nothing if there is nothing, ...
LEMMA DividedNone ==
  ASSUME NEW D, NEW n, \A t \in D : n[t] = 0
  PROVE  Divided({}, D, n)
<1> DEFINE by == [x \in {} |-> x]
<1>1. by \in [{} -> D]
  OBVIOUS
<1> HIDE DEF by
<1>2. ASSUME NEW t \in D PROVE n[t] = Cardinality({x \in {} : by[x] = t})
  <2>1. {x \in {} : by[x] = t} = {}
    OBVIOUS
  <2> QED BY <2>1, FS_EmptySet
<1> QED BY <1>1, <1>2 DEF Divided

\* ... and no more than there are elements.
LEMMA DividedType ==
  ASSUME NEW E, E \subseteq Element, NEW D, NEW n, Divided(E, D, n), NEW t \in D
  PROVE  n[t] \in 0 .. MaxElement
<1>1. PICK by \in [E -> D] : \A u \in D : n[u] = Cardinality({x \in E : by[x] = u})
  BY DEF Divided
<1> DEFINE A == {x \in E : by[x] = t}
<1>2. n[t] = Cardinality(A) /\ A \subseteq Element
  BY <1>1
<1> HIDE DEF A
<1>3. IsFiniteSet(Element) /\ Cardinality(Element) = MaxElement
  <2>1. 1 \in Int /\ MaxElement \in Int /\ MaxElement \in Nat
    BY ElementAssumption
  <2>2. IsFiniteSet(1 .. MaxElement)
        /\ Cardinality(1 .. MaxElement) = IF 1 > MaxElement THEN 0 ELSE MaxElement - 1 + 1
    BY <2>1, FS_Interval
  <2> QED BY <2>1, <2>2 DEF Element
<1>4. IsFiniteSet(A) /\ Cardinality(A) <= Cardinality(Element)
  BY <1>2, <1>3, FS_Subset
<1>5. Cardinality(A) \in Nat
  BY <1>4, FS_CardinalityType
<1>6. MaxElement \in Nat
  BY ElementAssumption
<1> QED BY <1>2, <1>3, <1>4, <1>5, <1>6

\* The counts of a savepoint, split in another way and added up, count the same.
LEMMA DividedSplit ==
  ASSUME NEW E, IsFiniteSet(E), NEW q \in Nat, NEW v, NEW all, NEW a, Splits(v, q, all, a),
         \A t \in 1 .. q : Len(v[t]) = 1,
         NEW n, \A t \in 1 .. q : n[t] = v[t][1], Divided(E, 1 .. q, n),
         NEW p \in Nat, NEW g, NEW b, Splits(g, p, all, b)
  PROVE  Divided(E, 1 .. p, [t \in 1 .. p |-> SumOf(g[t])])
<1>1. PICK by \in [E -> 1 .. q] : \A t \in 1 .. q : n[t] = Cardinality({x \in E : by[x] = t})
  BY DEF Divided
<1>2. by \in [E -> Nat]
  OBVIOUS
\* The t-th list is the t-th of all.
<1>3. ASSUME NEW t \in 1 .. q + 1 PROVE a[t] = t - 1
  <2> DEFINE B == {u \in 1 .. q + 1 : a[u] # u - 1}
  <2>1. ASSUME B # {} PROVE FALSE
    <3>1. B \subseteq Nat
      OBVIOUS
    <3>2. PICK u \in B : \A k \in B : u <= k
      <4> HIDE DEF B
      <4> QED BY <2>1, <3>1, Least
    <3>3. u \in 1 .. q + 1 /\ a[u] # u - 1
      OBVIOUS
    <3>4. u # 1
      BY <3>3 DEF Splits
    <3>5. u - 1 \in 1 .. q /\ u - 1 \in 1 .. q + 1 /\ (u - 1) + 1 = u /\ ~ (u <= u - 1)
      BY <3>3, <3>4
    <3>6. a[u - 1] = (u - 1) - 1
      BY <3>2, <3>5
    <3>7. a[(u - 1) + 1] = a[u - 1] + Len(v[u - 1]) /\ Len(v[u - 1]) = 1
      BY <3>5 DEF Splits
    <3> QED BY <3>3, <3>5, <3>6, <3>7
  <2> QED BY <2>1
<1>4. Len(all) = q /\ \A t \in 1 .. q : all[t] = n[t]
  <2>1. q + 1 \in 1 .. q + 1 /\ (q + 1) - 1 = q
    OBVIOUS
  <2>2. Len(all) = q
    <3>1. a[q + 1] = Len(all)
      BY DEF Splits
    <3> QED BY <1>3, <2>1, <3>1
  <2>3. ASSUME NEW t \in 1 .. q PROVE all[t] = n[t]
    <3>1. t \in 1 .. q + 1 /\ (t - 1) + 1 = t /\ 1 \in 1 .. 1
      OBVIOUS
    <3>2. v[t][1] = all[a[t] + 1]
      BY <3>1 DEF Splits
    <3> QED BY <1>3, <3>1, <3>2
  <2> QED BY <2>2, <2>3
<1>5. ASSUME NEW j \in 1 .. q PROVE \E t \in 1 .. p : b[t] < j /\ j <= b[t + 1]
  BY <1>4, SplitPlaces
<1> DEFINE to == [x \in E |-> CHOOSE t \in 1 .. p : b[t] < by[x] /\ by[x] <= b[t + 1]]
<1>6. ASSUME NEW x \in E
      PROVE  to[x] \in 1 .. p /\ b[to[x]] < by[x] /\ by[x] <= b[to[x] + 1]
  <2>1. by[x] \in 1 .. q
    OBVIOUS
  <2>2. \E t \in 1 .. p : b[t] < by[x] /\ by[x] <= b[t + 1]
    BY <1>5, <2>1
  <2> QED BY <2>2
<1>7. to \in [E -> 1 .. p]
  <2>1. to = [x \in E |-> to[x]]
    OBVIOUS
  <2> HIDE DEF to
  <2> QED BY <1>6, <2>1
<1> HIDE DEF to
<1>8. ASSUME NEW t \in 1 .. p PROVE SumOf(g[t]) = Cardinality({x \in E : to[x] = t})
  <2>1. /\ b[t] \in Nat /\ Len(g[t]) \in Nat /\ b[t + 1] = b[t] + Len(g[t])
        /\ \A i \in 1 .. Len(g[t]) : g[t][i] = all[b[t] + i]
    <3>1. t \in 1 .. p + 1
      OBVIOUS
    <3> QED BY <3>1 DEF Splits
  <2>2. {x \in E : to[x] = t} = Behind(E, by, b[t], Len(g[t]))
    <3>1. ASSUME NEW x \in E, to[x] = t PROVE b[t] < by[x] /\ by[x] <= b[t] + Len(g[t])
      BY <1>6, <2>1, <3>1
    <3>2. ASSUME NEW x \in E, b[t] < by[x], by[x] <= b[t] + Len(g[t]) PROVE to[x] = t
      <4>1. b[t] < by[x] /\ by[x] <= b[t + 1] /\ by[x] \in Nat
        BY <1>2, <2>1, <3>2
      <4>2. to[x] \in 1 .. p /\ b[to[x]] < by[x] /\ by[x] <= b[to[x] + 1]
        BY <1>6
      <4> QED BY <4>1, <4>2, SplitPlaces
    <3> QED BY <3>1, <3>2 DEF Behind
  <2>3. ASSUME NEW i \in 1 .. Len(g[t]) PROVE g[t][i] = Cardinality(At(E, by, b[t] + i))
    <3>1. b[t] + i \in 1 .. q
      BY <1>4, SplitPlaces
    <3>2. g[t][i] = n[b[t] + i]
      BY <1>4, <2>1, <3>1
    <3>3. n[b[t] + i] = Cardinality(At(E, by, b[t] + i))
      BY <1>1, <3>1 DEF At
    <3> QED BY <3>2, <3>3
  <2>4. SumOf(g[t]) = Cardinality(Behind(E, by, b[t], Len(g[t])))
    BY <1>2, <2>1, <2>3, SumIs
  <2> QED BY <2>2, <2>4
<1>9. \A t \in 1 .. p : [u \in 1 .. p |-> SumOf(g[u])][t] = Cardinality({x \in E : to[x] = t})
  BY <1>8
<1> QED BY <1>7, <1>9 DEF Divided

-----------------------------------------------------------------------------
(* Each step of the sink and of the counter.                               *)

\* A subtask that takes an element that was to come keeps it, or sends all it holds.
LEMMA CompleteStep ==
  ASSUME NEW f, NEW g, NEW all, all \subseteq Element, NEW coming, NEW gone, NEW left,
         Complete(f, all, coming, gone), gone \subseteq left,
         NEW s \in DOMAIN f, f[s] \in Seq(Element), NEW e \in coming, e \in all,
         DOMAIN g = DOMAIN f, \A t \in DOMAIN f \ {s} : g[t] = f[t],
         \/ g[s] = Append(f[s], e)
         \/ g[s] = <<>> /\ e \in left /\ \A i \in DOMAIN f[s] : f[s][i] \in left
  PROVE  Complete(g, all, coming \ {e}, left)
<1> DEFINE h == [f EXCEPT ![s] = Append(f[s], e)]
<1>1. h = [t \in DOMAIN f |-> IF t = s THEN Append(f[s], e) ELSE f[t]]
  OBVIOUS
<1>2. DOMAIN h = DOMAIN f /\ h[s] = Append(f[s], e) /\ \A t \in DOMAIN f \ {s} : h[t] = f[t]
  BY <1>1
<1> HIDE DEF h
<1>3. Complete(h, all, coming \ {e}, gone)
  BY <1>2, CompleteTake
<1>4. CASE g[s] = Append(f[s], e)
  <2>1. Complete(g, all, coming \ {e}, gone)
    BY <1>4, CompleteTake
  <2> QED BY <2>1 DEF Complete
<1>5. CASE g[s] = <<>> /\ e \in left /\ \A i \in DOMAIN f[s] : f[s][i] \in left
  <2>1. DOMAIN h[s] = 1 .. Len(f[s]) + 1 /\ h[s][Len(f[s]) + 1] = e /\ DOMAIN f[s] = 1 .. Len(f[s])
        /\ Len(f[s]) \in Nat /\ \A i \in 1 .. Len(f[s]) : h[s][i] = f[s][i]
    <3>1. e \in Element
      OBVIOUS
    <3> QED BY <1>2, <3>1
  <2>2. \A i \in DOMAIN h[s] : h[s][i] \in left
    <3>1. ASSUME NEW i \in DOMAIN h[s] PROVE i = Len(f[s]) + 1 \/ i \in 1 .. Len(f[s])
      BY <2>1
    <3> QED BY <1>5, <2>1, <3>1
  <2> HIDE <2>1
  <2>3. s \in DOMAIN h /\ DOMAIN g = DOMAIN h /\ \A t \in DOMAIN h \ {s} : g[t] = h[t]
    BY <1>2
  <2> QED BY <1>3, <1>5, <2>2, <2>3, CompleteSend
<1> QED BY <1>4, <1>5

\* CheckpointedFunctionDemo.invoke: the element is buffered, or goes with all that are.
LEMMA InvokeInv ==
  ASSUME IInv, NEW s \in Subtask, invoke(s)
  PROVE  IInv'
<1> USE DEF IInv
<1>0. PICK e : e = channel[s][1]
  OBVIOUS
<1>1. /\ s \in Slot /\ channel[s] # <<>> /\ channel' = [channel EXCEPT ![s] = Tail(@)]
      /\ Sink /\ ~ Counter /\ demo' = demo
  BY SubtaskIsSlot DEF invoke, HasElement, Receive, Sink, Counter
<1>2. Head(channel[s]) = e /\ \A t \in Slot \ {s} : channel'[t] = channel[t]
  BY <1>0, <1>1, Pop
<1>3. Takes(s, e)
  BY <1>0, <1>2 DEF invoke, Receive, Takes, cuts
<1>4. /\ e \in Going /\ e \in Element
      /\ Going' = Going \ {e} /\ Cutting' = Cutting \ {e}
      /\ saving => (e \in Cutting <=> s \notin acked)
      /\ RuntimeTypeOK(Element, Seq(0 .. MaxElement))' /\ BarrierInv' /\ GoingInv'
  BY <1>3, TakesOne, TakesInv
<1>5. bufferedElements \in [Slot -> Seq(Element)]
  BY DEF TypeOK
<1> DEFINE list == bufferedElements[s]
<1>6. /\ list \in Seq(Element) /\ Len(list) \in Nat /\ DOMAIN list = 1 .. Len(list)
      /\ Append(list, e) \in Seq(Element) /\ Len(Append(list, e)) = Len(list) + 1
      /\ DOMAIN Append(list, e) = 1 .. Len(list) + 1
      /\ \A i \in 1 .. Len(list) : Append(list, e)[i] = list[i]
      /\ Append(list, e)[Len(list) + 1] = e
  BY <1>1, <1>4, <1>5
<1>7. /\ DOMAIN bufferedElements' = Slot
      /\ \A t \in Slot \ {s} : bufferedElements'[t] = bufferedElements[t]
      /\ \/ /\ Len(list) + 1 # Threshold
            /\ bufferedElements'[s] = Append(list, e) /\ sent' = sent
         \/ /\ bufferedElements'[s] = <<>> /\ sent' = sent \cup ToSet(Append(list, e))
      /\ bufferedElements' \in [Slot -> Seq(Element)]
  <2>1. \/ /\ Len(list) + 1 # Threshold
           /\ bufferedElements' = [bufferedElements EXCEPT ![s] = Append(list, e)]
           /\ sent' = sent
        \/ /\ bufferedElements' = [bufferedElements EXCEPT ![s] = <<>>]
           /\ sent' = sent \cup ToSet(Append(list, e))
    BY <1>2, <1>6 DEF invoke
  <2>2. <<>> \in Seq(Element)
    OBVIOUS
  <2> HIDE DEF list
  <2> QED BY <1>1, <1>5, <1>6, <2>1, <2>2
<1>8. /\ sent \subseteq sent' /\ sent' \subseteq Element
      /\ \/ bufferedElements'[s] = Append(list, e)
         \/ bufferedElements'[s] = <<>> /\ e \in sent' /\ \A i \in DOMAIN list : list[i] \in sent'
  <2>1. sent \subseteq Element
    BY DEF TypeOK
  <2>2. ToSet(Append(list, e)) \subseteq Element /\ e \in ToSet(Append(list, e))
        /\ \A i \in DOMAIN list : list[i] \in ToSet(Append(list, e))
    <3> HIDE DEF list
    <3>1. Len(list) + 1 \in 1 .. Len(list) + 1 /\ 1 .. Len(list) \subseteq 1 .. Len(list) + 1
      BY <1>6
    <3>2. \A i \in 1 .. Len(list) + 1 : Append(list, e)[i] \in Element
      BY <1>6
    <3> QED BY <1>6, <3>1, <3>2 DEF ToSet
  <2> HIDE DEF list
  <2> QED BY <1>7, <2>1, <2>2
<1>9. TypeOK'
  <2>1. /\ next' = next /\ count' = count /\ checkpointed' = checkpointed /\ emitted' = emitted
        /\ cut' = cut /\ savedCut' = savedCut /\ shrunk' = shrunk
    BY DEF invoke, cuts
  <2> QED BY <1>1, <1>4, <1>7, <1>8, <2>1 DEF TypeOK, Sink, Counter
<1>10. emitted \subseteq Element /\ cut \subseteq Element /\ emitted' = emitted /\ cut' = cut
       /\ savedCut' = savedCut /\ savepoint' = savepoint /\ saving' = saving /\ acked' = acked
       /\ taken' = taken /\ shrunk' = shrunk /\ par' = par /\ count' = count
  BY DEF TypeOK, invoke, cuts, Receive
<1>11. IdleInv'
  <2>1. \A t \in Slot \ Subtask : t # s
    OBVIOUS
  <2> QED BY <1>1, <1>2, <1>7, <1>10, <2>1 DEF IdleInv, Subtask, Sink, Counter
<1>12. Complete(bufferedElements', emitted', Going', sent')
  <2>1. Complete(bufferedElements, emitted, Going, sent) /\ e \in emitted
    BY <1>1, <1>4 DEF SinkInv, GoingInv
  <2>2. PICK f : f = bufferedElements
    OBVIOUS
  <2>3. PICK g : g = bufferedElements'
    OBVIOUS
  <2>4. /\ Complete(f, emitted, Going, sent) /\ e \in Going /\ e \in emitted
        /\ emitted \subseteq Element /\ sent \subseteq sent'
        /\ DOMAIN f = Slot /\ DOMAIN g = Slot /\ s \in DOMAIN f /\ f[s] \in Seq(Element)
        /\ \A t \in DOMAIN f \ {s} : g[t] = f[t]
        /\ \/ g[s] = Append(f[s], e)
           \/ g[s] = <<>> /\ e \in sent' /\ \A i \in DOMAIN f[s] : f[s][i] \in sent'
    BY <1>1, <1>4, <1>5, <1>6, <1>7, <1>8, <1>10, <2>1, <2>2, <2>3
  <2>5. Complete(g, emitted, Going \ {e}, sent')
    BY <2>4, CompleteStep
  <2> QED BY <1>4, <1>10, <2>3, <2>5
<1>13. ASSUME saving PROVE Complete(Part', cut', Cutting', sent')
  <2>1. Complete(Part, cut, Cutting, sent)
    BY <1>1, <1>13 DEF SinkInv
  <2>2. /\ DOMAIN Part = Slot /\ DOMAIN Part' = Slot
        /\ \A t \in Slot \ {s} : Part'[t] = Part[t]
        /\ s \in acked => Part'[s] = Part[s]
        /\ s \notin acked => Part[s] = list /\ Part'[s] = bufferedElements'[s]
    BY <1>1, <1>7, <1>10 DEF Part
  <2>3. CASE s \in acked
    <3>1. Part' = Part
      <4>1. Part = [t \in Slot |-> Part[t]] /\ Part' = [t \in Slot |-> Part'[t]]
        BY DEF Part
      <4> QED BY <2>2, <2>3, <4>1
    <3>2. Cutting' = Cutting
      BY <1>4, <1>13, <2>3
    <3> QED BY <1>8, <1>10, <2>1, <3>1, <3>2 DEF Complete
  <2>4. CASE s \notin acked
    <3>1. e \in Cutting /\ e \in cut
      BY <1>4, <1>13, <2>4 DEF GoingInv
    <3>2. PICK f : f = Part
      OBVIOUS
    <3>3. PICK g : g = Part'
      OBVIOUS
    <3>4. /\ Complete(f, cut, Cutting, sent) /\ e \in Cutting /\ e \in cut
          /\ cut \subseteq Element /\ sent \subseteq sent'
          /\ DOMAIN f = Slot /\ DOMAIN g = Slot /\ s \in DOMAIN f /\ f[s] \in Seq(Element)
          /\ \A t \in DOMAIN f \ {s} : g[t] = f[t]
          /\ \/ g[s] = Append(f[s], e)
             \/ g[s] = <<>> /\ e \in sent' /\ \A i \in DOMAIN f[s] : f[s][i] \in sent'
      BY <1>1, <1>6, <1>8, <1>10, <2>1, <2>2, <2>4, <3>1, <3>2, <3>3
    <3>5. Complete(g, cut, Cutting \ {e}, sent')
      BY <3>4, CompleteStep
    <3> QED BY <1>4, <1>10, <3>3, <3>5
  <2> QED BY <2>3, <2>4
<1>14. SinkInv'
  <2>1. Complete(savepoint', savedCut', {}, sent')
    BY <1>1, <1>8, <1>10 DEF SinkInv, Complete
  <2> QED BY <1>10, <1>12, <1>13, <2>1 DEF SinkInv
<1>15. CounterInv'
  BY <1>1 DEF CounterInv, Counter
<1>16. FullInv'
  <2>1. ASSUME ~ shrunk PROVE \A t \in Slot : Short(bufferedElements'[t])
    <3>1. Short(list) /\ \A t \in Slot : Short(bufferedElements[t])
      BY <1>1, <2>1 DEF FullInv
    <3>2. Short(bufferedElements'[s])
      <4>1. Threshold \in Nat \ {0} /\ Len(<<>>) = 0
        BY ThresholdAssumption
      <4> QED BY <1>6, <1>7, <3>1, <4>1 DEF Short
    <3> QED BY <1>7, <3>1, <3>2
  <2> QED BY <1>1, <1>10, <2>1 DEF FullInv, Sink, Short
<1> QED BY <1>4, <1>9, <1>11, <1>14, <1>15, <1>16

\* The elements are finitely many.
LEMMA SomeFinite ==
  ASSUME NEW E, E \subseteq Element
  PROVE  IsFiniteSet(E)
<1>1. 1 \in Int /\ MaxElement \in Int
  BY ElementAssumption
<1>2. IsFiniteSet(Element)
  BY <1>1, FS_Interval DEF Element
<1> QED BY <1>2, FS_Subset

\* ListCheckpointedDemo.flatMap: the element is counted.
LEMMA FlatMapInv ==
  ASSUME IInv, NEW s \in Subtask, flatMap(s)
  PROVE  IInv'
<1> USE DEF IInv
<1>0. PICK e : e = channel[s][1]
  OBVIOUS
<1>1. /\ s \in Slot /\ channel[s] # <<>> /\ channel' = [channel EXCEPT ![s] = Tail(@)]
      /\ Counter /\ ~ Sink /\ demo' = demo
  BY SubtaskIsSlot DEF flatMap, HasElement, Receive, Sink, Counter
<1>2. Head(channel[s]) = e /\ \A t \in Slot \ {s} : channel'[t] = channel[t]
  BY <1>0, <1>1, Pop
<1>3. Takes(s, e)
  BY <1>0, <1>2 DEF flatMap, Receive, Takes, cuts
<1>4. /\ e \in Going /\ e \in Element
      /\ Going' = Going \ {e} /\ Cutting' = Cutting \ {e}
      /\ saving => (e \in Cutting <=> s \notin acked)
      /\ RuntimeTypeOK(Element, Seq(0 .. MaxElement))' /\ BarrierInv' /\ GoingInv'
  BY <1>3, TakesOne, TakesInv
<1>5. count \in [Slot -> 0 .. MaxElement]
  BY DEF TypeOK
<1>6. /\ DOMAIN count' = Slot /\ count' = [t \in Slot |-> count'[t]]
      /\ count'[s] = count[s] + 1 /\ \A t \in Slot \ {s} : count'[t] = count[t]
  BY <1>1, <1>5 DEF flatMap
<1>7. emitted \subseteq Element /\ cut \subseteq Element /\ emitted' = emitted /\ cut' = cut
      /\ savedCut' = savedCut /\ savepoint' = savepoint /\ saving' = saving /\ acked' = acked
      /\ taken' = taken /\ shrunk' = shrunk /\ par' = par /\ sent' = sent /\ next' = next
      /\ bufferedElements' = bufferedElements /\ checkpointed' = checkpointed
  BY DEF TypeOK, flatMap, cuts, Receive
<1>8. Subtask' = Subtask /\ Subtask \subseteq Slot
  BY <1>7, SubtaskIsSlot DEF Subtask
<1>9. Divided(emitted' \ Going', Subtask, count')
  <2>1. Divided(emitted \ Going, Subtask, count) /\ e \in emitted
    BY <1>1, <1>4 DEF CounterInv, GoingInv
  <2>2. PICK E : E = emitted \ Going
    OBVIOUS
  <2>3. PICK m : m = count'
    OBVIOUS
  <2>4. IsFiniteSet(E)
    BY <1>7, <2>2, SomeFinite
  <2>5. Divided(E, Subtask, count) /\ e \notin E /\ m[s] = count[s] + 1
        /\ \A t \in Subtask \ {s} : m[t] = count[t]
    BY <1>4, <1>6, <1>8, <2>1, <2>2, <2>3
  <2>6. Divided(E \cup {e}, Subtask, m)
    BY <2>4, <2>5, DividedTake
  <2>7. emitted' \ Going' = E \cup {e}
    BY <1>4, <1>7, <2>1, <2>2
  <2> QED BY <2>3, <2>6, <2>7
<1>10. ASSUME saving PROVE Divided(cut' \ Cutting', Subtask, CountPart')
  <2>1. Divided(cut \ Cutting, Subtask, CountPart)
    BY <1>1, <1>10 DEF CounterInv
  <2>2. PICK n : n = CountPart
    OBVIOUS
  <2>3. PICK m : m = CountPart'
    OBVIOUS
  <2>4. /\ \A t \in Slot \ {s} : m[t] = n[t]
        /\ s \in acked => m[s] = n[s]
        /\ s \notin acked => m[s] = n[s] + 1
    BY <1>1, <1>6, <1>7, <2>2, <2>3 DEF CountPart
  <2>5. CASE s \in acked
    <3>1. cut' \ Cutting' = cut \ Cutting
      BY <1>4, <1>7, <1>10, <2>5
    <3>2. Divided(cut \ Cutting, Subtask, m)
      <4>1. \A t \in Subtask : m[t] = n[t]
        BY <1>8, <2>4, <2>5
      <4> QED BY <2>1, <2>2, <4>1, DividedSame
    <3> QED BY <2>3, <3>1, <3>2
  <2>6. CASE s \notin acked
    <3>1. e \in Cutting /\ e \in cut
      BY <1>4, <1>10, <2>6 DEF GoingInv
    <3>2. PICK E : E = cut \ Cutting
      OBVIOUS
    <3>3. IsFiniteSet(E)
      BY <1>7, <3>2, SomeFinite
    <3>4. Divided(E, Subtask, n) /\ e \notin E /\ m[s] = n[s] + 1
          /\ \A t \in Subtask \ {s} : m[t] = n[t]
      BY <1>8, <2>1, <2>2, <2>4, <2>6, <3>1, <3>2
    <3>5. Divided(E \cup {e}, Subtask, m)
      BY <3>3, <3>4, DividedTake
    <3>6. cut' \ Cutting' = E \cup {e}
      BY <1>4, <1>7, <3>1, <3>2
    <3> QED BY <2>3, <3>5, <3>6
  <2> QED BY <2>5, <2>6
<1>11. CounterInv'
  BY <1>1, <1>7, <1>8, <1>9, <1>10 DEF CounterInv
<1>12. count' \in [Slot -> 0 .. MaxElement]
  <2>1. PICK m : m = count'
    OBVIOUS
  <2>2. PICK E : E = emitted' \ Going'
    OBVIOUS
  <2>3. Divided(E, Subtask, m) /\ E \subseteq Element
    BY <1>7, <1>9, <2>1, <2>2
  <2>4. m[s] \in 0 .. MaxElement
    BY <2>3, DividedType
  <2>5. \A t \in Slot : m[t] \in 0 .. MaxElement
    BY <1>5, <1>6, <2>1, <2>4
  <2> QED BY <1>6, <2>1, <2>5
<1>13. TypeOK'
  BY <1>1, <1>4, <1>7, <1>12 DEF TypeOK, Sink, Counter
<1>14. IdleInv'
  <2>1. \A t \in Slot \ Subtask : t # s
    OBVIOUS
  <2> QED BY <1>1, <1>2, <1>6, <1>7, <1>8, <2>1 DEF IdleInv, Sink, Counter
<1>15. SinkInv' /\ FullInv'
  BY <1>1 DEF SinkInv, FullInv, Sink
<1> QED BY <1>4, <1>11, <1>13, <1>14, <1>15

\* The runtime's element, behind all others.
LEMMA EmitInv ==
  ASSUME IInv, Emit
  PROVE  IInv'
<1> USE DEF IInv
<1> DEFINE e == next
<1>1. PICK s \in Subtask : Deal(s, e)
  BY DEF Emit
<1>2. s \in Slot /\ Subtask \subseteq Slot
  BY <1>1, SubtaskIsSlot
<1>3. /\ e \in Nat /\ e \in Element /\ e # Barrier /\ next' = e + 1 /\ next' \in 1 .. MaxElement + 1
      /\ e \notin emitted /\ e \notin cut /\ e \notin savedCut
      /\ emitted' = emitted \cup {e} /\ cut' = cut /\ savedCut' = savedCut
      /\ 1 .. next' - 1 = (1 .. e - 1) \cup {e}
  <2>1. next \in 1 .. MaxElement + 1 /\ next <= MaxElement /\ MaxElement \in Nat
    BY ElementAssumption DEF Emit, TypeOK
  <2>2. next \in 1 .. MaxElement /\ next + 1 \in 1 .. MaxElement + 1
    BY <2>1
  <2>3. next \notin 1 .. next - 1 /\ 1 .. (next + 1) - 1 = (1 .. next - 1) \cup {next}
    BY <2>2
  <2>4. next # Barrier
    BY <2>2, ElementAssumption
  <2>5. next \notin emitted /\ next \notin cut /\ next \notin savedCut
    BY <2>3 DEF GoingInv
  <2>6. next' = next + 1 /\ emitted' = emitted \cup {next} /\ cut' = cut /\ savedCut' = savedCut
    BY DEF Emit, cuts
  <2> QED BY <2>2, <2>3, <2>4, <2>5, <2>6 DEF Element
<1>4. /\ channel' = [channel EXCEPT ![s] = Append(@, e)]
      /\ par' = par /\ saving' = saving /\ acked' = acked /\ taken' = taken
      /\ savepoint' = savepoint /\ saves' = saves /\ restarts' = restarts
      /\ demo' = demo /\ bufferedElements' = bufferedElements /\ count' = count
      /\ checkpointed' = checkpointed /\ sent' = sent /\ shrunk' = shrunk
  BY <1>1 DEF Emit, Deal, operator, cuts
<1> DEFINE n == Len(channel[s])
<1>5. /\ channel' \in [Slot -> Seq(Element \cup {Barrier})]
      /\ n \in Nat /\ DOMAIN channel[s] = 1 .. n /\ DOMAIN channel'[s] = 1 .. n + 1
      /\ channel'[s][n + 1] = e /\ \A i \in 1 .. n : channel'[s][i] = channel[s][i]
      /\ \A t \in Slot \ {s} : channel'[t] = channel[t]
  <2> DEFINE S == Element \cup {Barrier}
  <2>1. channel \in [Slot -> Seq(S)] /\ e \in S
    BY <1>3 DEF TypeOK, RuntimeTypeOK
  <2> HIDE DEF S, e
  <2>2. channel[s] \in Seq(S) /\ channel'[s] = Append(channel[s], e)
        /\ \A t \in Slot \ {s} : channel'[t] = channel[t]
    BY <1>2, <1>4, <2>1
  <2>3. Append(channel[s], e) \in Seq(S)
    BY <2>1, <2>2
  <2>4. /\ Len(channel[s]) \in Nat /\ DOMAIN channel[s] = 1 .. Len(channel[s])
        /\ DOMAIN Append(channel[s], e) = 1 .. Len(channel[s]) + 1
        /\ Append(channel[s], e)[Len(channel[s]) + 1] = e
        /\ \A i \in 1 .. Len(channel[s]) : Append(channel[s], e)[i] = channel[s][i]
    BY <2>1, <2>2
  <2>5. channel' \in [Slot -> Seq(S)]
    BY <1>4, <2>1, <2>2, <2>3
  <2> QED BY <2>2, <2>4, <2>5 DEF S
<1> HIDE DEF e, n
<1>6. /\ \A i \in DOMAIN channel'[s] : i \in 1 .. n \/ i = n + 1
      /\ n + 1 \in DOMAIN channel'[s] /\ 1 .. n \subseteq DOMAIN channel'[s]
      /\ n + 1 \notin 1 .. n
  BY <1>5
\* A place of a channel is one it had, or the new one.
<1>7. ASSUME NEW t \in Slot, NEW i \in DOMAIN channel'[t], ~ (t = s /\ i = n + 1)
      PROVE  i \in DOMAIN channel[t] /\ channel'[t][i] = channel[t][i]
  <2>1. CASE t = s
    <3>1. i \in 1 .. n
      BY <1>6, <1>7, <2>1
    <3> QED BY <1>5, <2>1, <3>1
  <2>2. CASE t # s
    BY <1>5, <2>2
  <2> QED BY <2>1, <2>2
<1>8. ASSUME NEW t \in Slot, NEW i \in DOMAIN channel[t]
      PROVE  i \in DOMAIN channel'[t] /\ channel'[t][i] = channel[t][i] /\ ~ (t = s /\ i = n + 1)
  <2>1. CASE t = s
    BY <1>5, <1>6, <2>1
  <2>2. CASE t # s
    BY <1>5, <2>2
  <2> QED BY <2>1, <2>2
<1>9. ASSUME NEW t \in Slot, NEW i
      PROVE  /\ i \in Items(t)' <=> i \in Items(t) \/ (t = s /\ i = n + 1)
             /\ i \in Ahead(t)' <=> i \in Ahead(t)
  <2>1. i \in Items(t)' <=> i \in Items(t) \/ (t = s /\ i = n + 1)
    <3>1. CASE t = s /\ i = n + 1
      BY <1>3, <1>5, <1>6, <3>1 DEF Items
    <3>2. CASE ~ (t = s /\ i = n + 1)
      BY <1>7, <1>8, <3>2 DEF Items
    <3> QED BY <3>1, <3>2
  <2>2. ASSUME i \in Ahead(t)' PROVE i \in Ahead(t)
    <3>1. PICK j \in DOMAIN channel'[t] : i < j /\ channel'[t][j] = Barrier
      BY <2>2 DEF Ahead
    <3>2. j \in DOMAIN channel[t] /\ channel[t][j] = Barrier
      <4>1. ~ (t = s /\ j = n + 1)
        BY <1>3, <1>5, <3>1
      <4> QED BY <1>7, <3>1, <4>1
    <3>3. ~ (t = s /\ i = n + 1)
      <4>1. t = s => j \in 1 .. n
        BY <1>5, <3>2
      <4>2. t = s => ~ (n + 1 < j)
        BY <1>5, <4>1
      <4> QED BY <3>1, <4>2
    <3>4. i \in Items(t)
      BY <2>1, <2>2, <3>3 DEF Ahead
    <3> QED BY <3>1, <3>2, <3>4 DEF Ahead
  <2>3. ASSUME i \in Ahead(t) PROVE i \in Ahead(t)'
    <3>1. PICK j \in DOMAIN channel[t] : i < j /\ channel[t][j] = Barrier
      BY <2>3 DEF Ahead
    <3>2. j \in DOMAIN channel'[t] /\ channel'[t][j] = Barrier
      BY <1>8, <3>1
    <3>3. i \in Items(t)'
      BY <2>1, <2>3 DEF Ahead
    <3> QED BY <3>1, <3>2, <3>3 DEF Ahead
  <2> QED BY <2>1, <2>2, <2>3
<1>10. \A t \in Slot : /\ Items(t) \subseteq DOMAIN channel[t] /\ Ahead(t) \subseteq Items(t)
                       /\ Items(t)' \subseteq DOMAIN channel'[t]
  BY DEF Items, Ahead
<1>11. Going' = Going \cup {e}
  <2>1. ASSUME NEW x \in Element, x \in Going' PROVE x \in Going \/ x = e
    <3>1. PICK t \in Slot : \E i : i \in Items(t)' /\ channel'[t][i] = x
      BY <2>1 DEF Going
    <3>2. PICK i : i \in Items(t)' /\ channel'[t][i] = x
      BY <3>1
    <3>3. CASE t = s /\ i = n + 1
      BY <1>5, <3>2, <3>3
    <3>4. CASE ~ (t = s /\ i = n + 1)
      <4>1. i \in Items(t)
        BY <1>9, <3>2, <3>4
      <4>2. channel[t][i] = x
        BY <1>8, <1>10, <3>2, <4>1
      <4> QED BY <4>1, <4>2 DEF Going
    <3> QED BY <3>3, <3>4
  <2>2. ASSUME NEW x \in Element, x \in Going PROVE x \in Going'
    <3>1. PICK t \in Slot : \E i \in Items(t) : channel[t][i] = x
      BY <2>2 DEF Going
    <3>2. PICK i \in Items(t) : channel[t][i] = x
      BY <3>1
    <3>3. i \in Items(t)' /\ channel'[t][i] = x
      BY <1>8, <1>9, <1>10, <3>2
    <3> QED BY <3>3 DEF Going
  <2>3. e \in Going'
    <3>1. n + 1 \in Items(s)' /\ channel'[s][n + 1] = e
      BY <1>2, <1>5, <1>9
    <3> QED BY <1>2, <1>3, <3>1 DEF Going
  <2>4. Going \subseteq Element /\ Going' \subseteq Element
    BY DEF Going
  <2> QED BY <1>3, <2>1, <2>2, <2>3, <2>4
<1>12. Cutting' = Cutting
  <2>1. \A t \in Slot : \A i : /\ i \in Ahead(t)' <=> i \in Ahead(t)
                               /\ i \in Ahead(t) => channel'[t][i] = channel[t][i]
    BY <1>8, <1>9, <1>10
  <2> QED BY <2>1 DEF Cutting
<1>13. TypeOK'
  <2>1. RuntimeTypeOK(Element, Seq(0 .. MaxElement))'
    BY <1>4, <1>5 DEF TypeOK, RuntimeTypeOK, Subtask
  <2>2. emitted' \subseteq Element
    BY <1>3 DEF TypeOK
  <2> QED BY <1>3, <1>4, <2>1, <2>2 DEF TypeOK, Sink, Counter
<1>14. Subtask' = Subtask
  BY <1>4 DEF Subtask
<1>15. BarrierInv'
  <2>1. ~ saving' => acked' = {}
    BY <1>4 DEF BarrierInv
  <2>2. ASSUME NEW t \in Slot, NEW i \in DOMAIN channel'[t], channel'[t][i] = Barrier
        PROVE  i \in DOMAIN channel[t] /\ channel[t][i] = Barrier
    <3>1. ~ (t = s /\ i = n + 1)
      BY <1>3, <1>5, <2>2
    <3> QED BY <1>7, <2>2, <3>1
  <2>3. ASSUME NEW t \in Slot, NEW i \in DOMAIN channel'[t], channel'[t][i] = Barrier
        PROVE  /\ saving' /\ t \in Subtask' \ acked'
               /\ \A j \in DOMAIN channel'[t] : channel'[t][j] = Barrier => j = i
    <3>1. i \in DOMAIN channel[t] /\ channel[t][i] = Barrier
      BY <2>2, <2>3
    <3>2. \A j \in DOMAIN channel'[t] : channel'[t][j] = Barrier => j = i
      BY <2>2, <3>1 DEF BarrierInv
    <3> QED BY <1>4, <1>14, <3>1, <3>2 DEF BarrierInv
  <2>4. ASSUME saving', NEW t \in Subtask' \ acked'
        PROVE  \E i \in DOMAIN channel'[t] : channel'[t][i] = Barrier
    <3>1. saving /\ t \in Subtask \ acked /\ t \in Slot
      BY <1>2, <1>4, <1>14, <2>4
    <3>2. PICK i \in DOMAIN channel[t] : channel[t][i] = Barrier
      BY <3>1 DEF BarrierInv
    <3> QED BY <1>8, <3>1, <3>2
  <2> QED BY <2>1, <2>3, <2>4 DEF BarrierInv
<1>16. IdleInv'
  <2>1. \A t \in Slot \ Subtask : channel'[t] = channel[t]
    BY <1>5
  <2> QED BY <1>4, <1>14, <2>1 DEF IdleInv, Sink, Counter
<1>17. GoingInv'
  <2>0. ASSUME NEW t \in Slot, NEW i \in Items(t)', ~ (t = s /\ i = n + 1)
        PROVE  i \in Items(t) /\ channel'[t][i] = channel[t][i] /\ channel[t][i] # e
    <3>1. i \in Items(t)
      BY <1>9, <2>0
    <3>2. channel'[t][i] = channel[t][i]
      BY <1>8, <1>10, <3>1
    <3>3. channel[t][i] \in Going
      BY <3>1, ChannelType DEF Going
    <3>4. channel[t][i] # e
      BY <1>3, <3>3 DEF GoingInv
    <3> QED BY <3>1, <3>2, <3>4
  <2>1. ASSUME NEW t \in Slot, NEW u \in Slot, NEW i \in Items(t)', NEW j \in Items(u)',
               channel'[t][i] = channel'[u][j]
        PROVE  t = u /\ i = j
    <3>1. CASE ~ (t = s /\ i = n + 1) /\ ~ (u = s /\ j = n + 1)
      BY <2>0, <2>1, <3>1 DEF GoingInv
    <3>2. CASE t = s /\ i = n + 1
      BY <1>5, <2>0, <2>1, <3>2
    <3>3. CASE u = s /\ j = n + 1
      BY <1>5, <2>0, <2>1, <3>3
    <3> QED BY <3>1, <3>2, <3>3
  <2>2. Going' \subseteq emitted'
    BY <1>3, <1>11 DEF GoingInv
  <2>3. emitted' \subseteq 1 .. next' - 1 /\ cut' \subseteq 1 .. next' - 1
        /\ savedCut' \subseteq 1 .. next' - 1
    BY <1>3 DEF GoingInv, e
  <2>4. saving' => Going' \cap cut' = Cutting' /\ cut' \subseteq emitted'
    BY <1>3, <1>4, <1>11, <1>12 DEF GoingInv
  <2>5. savepoint' = <<>> => savedCut' = {}
    BY <1>3, <1>4 DEF GoingInv
  <2> QED BY <2>1, <2>2, <2>3, <2>4, <2>5 DEF GoingInv
<1>18. Part' = Part /\ CountPart' = CountPart
  BY <1>4 DEF Part, CountPart
<1>19. SinkInv'
  <2>1. ASSUME Sink PROVE Complete(bufferedElements', emitted', Going', sent')
    <3>1. Complete(bufferedElements, emitted, Going, sent)
      BY <2>1 DEF SinkInv
    <3>2. Complete(bufferedElements, emitted \cup {e}, Going \cup {e}, sent)
      BY <1>3, <3>1 DEF Complete
    <3> QED BY <1>3, <1>4, <1>11, <3>2
  <2>2. ASSUME Sink, saving PROVE Complete(Part', cut', Cutting', sent')
    BY <1>3, <1>4, <1>12, <1>18, <2>2 DEF SinkInv
  <2>3. Sink => Complete(savepoint', savedCut', {}, sent')
    BY <1>3, <1>4 DEF SinkInv
  <2>4. Sink' = Sink /\ saving' = saving
    BY <1>4 DEF Sink
  <2> QED BY <2>1, <2>2, <2>3, <2>4 DEF SinkInv
<1>20. CounterInv'
  <2>1. emitted' \ Going' = emitted \ Going
    BY <1>3, <1>11
  <2> QED BY <1>3, <1>4, <1>12, <1>14, <1>18, <2>1 DEF CounterInv, Counter
<1>21. FullInv'
  BY <1>4 DEF FullInv, Sink
<1> QED BY <1>13, <1>15, <1>16, <1>17, <1>19, <1>20, <1>21

\* A savepoint is begun: all that is under way is ahead of its barriers.
LEMMA SaveInv ==
  ASSUME IInv, Save
  PROVE  IInv'
<1> USE DEF IInv
<1>1. /\ ~ saving /\ saving' = TRUE /\ saves' = saves + 1 /\ saves < MaxSavepoint
      /\ channel' = [t \in Slot |-> IF t \in Subtask THEN Append(channel[t], Barrier)
                                    ELSE channel[t]]
      /\ par' = par /\ acked' = acked /\ taken' = taken /\ savepoint' = savepoint
      /\ restarts' = restarts /\ cut' = emitted
      /\ demo' = demo /\ next' = next /\ bufferedElements' = bufferedElements
      /\ count' = count /\ checkpointed' = checkpointed /\ sent' = sent
      /\ emitted' = emitted /\ savedCut' = savedCut /\ shrunk' = shrunk
  BY DEF Save, Trigger, operator
<1>2. acked = {} /\ Subtask' = Subtask /\ Subtask \subseteq Slot
      /\ \A t \in Slot : \A i \in DOMAIN channel[t] : channel[t][i] # Barrier
  BY <1>1, SubtaskIsSlot DEF BarrierInv, Subtask
<1>3. ASSUME NEW t \in Slot
      PROVE  /\ channel'[t] \in Seq(Element \cup {Barrier})
             /\ Len(channel[t]) \in Nat /\ DOMAIN channel[t] = 1 .. Len(channel[t])
             /\ t \in Subtask => DOMAIN channel'[t] = 1 .. Len(channel[t]) + 1
                                 /\ channel'[t][Len(channel[t]) + 1] = Barrier
             /\ \A i \in 1 .. Len(channel[t]) : channel'[t][i] = channel[t][i]
             /\ t \notin Subtask => channel'[t] = channel[t]
  <2> DEFINE S == Element \cup {Barrier}
  <2>1. channel[t] \in Seq(S) /\ Barrier \in S
    BY DEF TypeOK, RuntimeTypeOK
  <2> HIDE DEF S
  <2>2. /\ Len(channel[t]) \in Nat /\ DOMAIN channel[t] = 1 .. Len(channel[t])
        /\ Append(channel[t], Barrier) \in Seq(S)
        /\ DOMAIN Append(channel[t], Barrier) = 1 .. Len(channel[t]) + 1
        /\ Append(channel[t], Barrier)[Len(channel[t]) + 1] = Barrier
        /\ \A i \in 1 .. Len(channel[t]) : Append(channel[t], Barrier)[i] = channel[t][i]
    BY <2>1
  <2>3. channel'[t] = IF t \in Subtask THEN Append(channel[t], Barrier) ELSE channel[t]
    BY <1>1
  <2> QED BY <2>1, <2>2, <2>3 DEF S
<1>4. ASSUME NEW t \in Slot \ Subtask PROVE channel[t] = <<>> /\ DOMAIN channel[t] = {}
  BY DEF IdleInv
<1>5. ASSUME NEW t \in Slot, NEW i \in DOMAIN channel'[t]
      PROVE  \/ i \in 1 .. Len(channel[t]) /\ channel'[t][i] = channel[t][i] /\ channel'[t][i] # Barrier
             \/ t \in Subtask /\ i = Len(channel[t]) + 1 /\ channel'[t][i] = Barrier
  <2>1. CASE t \in Subtask
    <3>1. i \in 1 .. Len(channel[t]) \/ i = Len(channel[t]) + 1
      BY <1>3, <2>1
    <3> QED BY <1>2, <1>3, <2>1, <3>1
  <2>2. CASE t \notin Subtask
    BY <1>3, <1>4, <2>2
  <2> QED BY <2>1, <2>2
<1>6. ASSUME NEW t \in Slot
      PROVE  Items(t)' = Items(t) /\ Ahead(t)' = Items(t) /\ Items(t) = 1 .. Len(channel[t])
             /\ \A i \in Items(t) : channel'[t][i] = channel[t][i]
  <2>1. Items(t) = 1 .. Len(channel[t])
    BY <1>2, <1>3 DEF Items
  <2>2. 1 .. Len(channel[t]) \subseteq DOMAIN channel'[t] /\ Len(channel[t]) + 1 \notin 1 .. Len(channel[t])
    <3>1. CASE t \in Subtask
      BY <1>3, <3>1
    <3>2. CASE t \notin Subtask
      BY <1>3, <3>2
    <3> QED BY <3>1, <3>2
  <2>3. ASSUME NEW i PROVE i \in Items(t)' <=> i \in 1 .. Len(channel[t])
    <3>1. i \in 1 .. Len(channel[t]) => channel'[t][i] # Barrier
      BY <1>2, <1>3
    <3> QED BY <1>5, <2>2, <3>1 DEF Items
  <2>4. ASSUME NEW i \in 1 .. Len(channel[t]) PROVE i \in Ahead(t)'
    <3>1. t \in Subtask
      BY <1>3, <1>4
    <3>2. Len(channel[t]) + 1 \in DOMAIN channel'[t] /\ i < Len(channel[t]) + 1
          /\ channel'[t][Len(channel[t]) + 1] = Barrier
      BY <1>3, <3>1
    <3> QED BY <2>3, <3>2 DEF Ahead
  <2>5. Ahead(t)' \subseteq Items(t)'
    BY DEF Ahead
  <2>6. Items(t)' = 1 .. Len(channel[t])
    BY <2>3
  <2>7. Ahead(t)' = 1 .. Len(channel[t])
    BY <2>4, <2>5, <2>6
  <2> QED BY <1>3, <2>1, <2>6, <2>7
<1>7. Going' = Going /\ Cutting' = Going
  <2>1. Going' = Going
    BY <1>6 DEF Going
  <2>2. Cutting' = Going
    BY <1>6 DEF Going, Cutting
  <2> QED BY <2>1, <2>2
<1>8. TypeOK'
  <2>1. channel' \in [Slot -> Seq(Element \cup {Barrier})]
    BY <1>1, <1>3
  <2>2. saves' \in 0 .. MaxSavepoint
    BY <1>1, RuntimeBounds DEF TypeOK, RuntimeTypeOK
  <2>3. RuntimeTypeOK(Element, Seq(0 .. MaxElement))'
    BY <1>1, <1>2, <2>1, <2>2 DEF TypeOK, RuntimeTypeOK
  <2> QED BY <1>1, <2>3 DEF TypeOK, Sink, Counter
<1>9. BarrierInv'
  <2>1. ASSUME NEW t \in Slot, NEW i \in DOMAIN channel'[t], channel'[t][i] = Barrier
        PROVE  /\ saving' /\ t \in Subtask' \ acked'
               /\ \A j \in DOMAIN channel'[t] : channel'[t][j] = Barrier => j = i
    BY <1>1, <1>2, <1>5, <2>1
  <2>2. ASSUME NEW t \in Subtask' \ acked'
        PROVE  \E i \in DOMAIN channel'[t] : channel'[t][i] = Barrier
    <3>1. t \in Subtask /\ t \in Slot
      BY <1>2, <2>2
    <3>2. Len(channel[t]) + 1 \in DOMAIN channel'[t] /\ channel'[t][Len(channel[t]) + 1] = Barrier
      BY <1>3, <3>1
    <3> QED BY <3>2
  <2> QED BY <1>1, <2>1, <2>2 DEF BarrierInv
<1>10. IdleInv'
  BY <1>1, <1>2, <1>3 DEF IdleInv, Sink, Counter
<1>11. GoingInv'
  <2>1. \A t, u \in Slot : \A i \in Items(t)', j \in Items(u)' :
          channel'[t][i] = channel'[u][j] => t = u /\ i = j
    BY <1>6 DEF GoingInv
  <2> QED BY <1>1, <1>7, <2>1 DEF GoingInv
<1>12. SinkInv'
  <2>1. Part' = bufferedElements
    <3>1. bufferedElements = [t \in Slot |-> bufferedElements[t]]
      BY DEF TypeOK
    <3> QED BY <1>1, <1>2, <3>1 DEF Part
  <2> QED BY <1>1, <1>7, <2>1 DEF SinkInv, Sink
<1>13. CounterInv'
  <2>1. CountPart' = count
    <3>1. count = [t \in Slot |-> count[t]]
      BY DEF TypeOK
    <3> QED BY <1>1, <1>2, <3>1 DEF CountPart
  <2> QED BY <1>1, <1>2, <1>7, <2>1 DEF CounterInv, Counter
<1>14. FullInv'
  BY <1>1 DEF FullInv, Sink
<1> QED BY <1>8, <1>9, <1>10, <1>11, <1>12, <1>13, <1>14

\* s takes its snapshot, which is x.
Snap(s, x) ==
  /\ AtBarrier(s) /\ Acknowledge(s, x)
  /\ checkpointed' = [checkpointed EXCEPT ![s] = x]
  /\ savedCut' = IF Completes(s) THEN cut ELSE savedCut
  /\ UNCHANGED <<cut, demo, next, bufferedElements, count, sent, emitted, shrunk>>

\* Behind its barrier nothing is part of the savepoint; what is ahead of others is.
LEMMA SnapOne ==
  ASSUME IInv, NEW s \in Subtask, NEW x, Snap(s, x)
  PROVE  /\ s \in Slot /\ s \notin acked /\ saving /\ Subtask' = Subtask
         /\ channel' \in [Slot -> Seq(Element \cup {Barrier})]
         /\ \A t \in Slot \ {s} : channel'[t] = channel[t]
         /\ \A i \in DOMAIN channel'[s] : channel'[s][i] # Barrier
         /\ Going' = Going /\ Cutting' = Cutting
         /\ \A t, u \in Slot : \A i \in Items(t)', j \in Items(u)' :
              channel'[t][i] = channel'[u][j] => t = u /\ i = j
         /\ Completes(s) => Cutting = {}
<1> USE DEF IInv
<1>1. s \in Slot /\ channel[s] # <<>> /\ channel' = [channel EXCEPT ![s] = Tail(@)]
  BY SubtaskIsSlot DEF Snap, AtBarrier, Acknowledge
<1>2. /\ DOMAIN channel[s] = 1 .. Len(channel[s]) /\ Len(channel[s]) \in Nat \ {0}
      /\ Head(channel[s]) = channel[s][1] /\ \A t \in Slot \ {s} : channel'[t] = channel[t]
      /\ channel' \in [Slot -> Seq(Element \cup {Barrier})]
  BY <1>1, Pop
<1>3. 1 \in DOMAIN channel[s] /\ channel[s][1] = Barrier
  BY <1>2 DEF Snap, AtBarrier
<1>4. /\ saving /\ s \notin acked
      /\ \A j \in DOMAIN channel[s] : channel[s][j] = Barrier => j = 1
  BY <1>1, <1>3 DEF BarrierInv
<1>5. \A t \in Slot : Ahead(t) \subseteq Items(t) /\ Ahead(t)' \subseteq Items(t)'
  BY DEF Ahead
<1>6. ASSUME NEW t \in Slot, NEW i \in Items(t) PROVE t # s \/ i # 1
  BY <1>3 DEF Items
<1>7. ASSUME NEW t \in Slot, NEW i \in Items(t)'
      PROVE  /\ i \in Nat
             /\ \E j \in Items(t) : /\ channel[t][j] = channel'[t][i]
                                    /\ i \in Ahead(t)' <=> j \in Ahead(t)
  <2>1. /\ i \in Nat \ {0}
        /\ t = s => i + 1 \in Items(s) /\ channel'[s][i] = channel[s][i + 1] /\ i + 1 # 1
        /\ t # s => i \in Items(t) /\ channel'[t][i] = channel[t][i]
    BY <1>1, PopElement
  <2>2. /\ \A k \in Nat \ {0} : k \in Ahead(s)' <=> k + 1 \in Ahead(s)
        /\ \A u \in Slot \ {s} : Ahead(u)' = Ahead(u)
    BY <1>1, PopPlaces
  <2>3. CASE t = s
    BY <1>1, <2>1, <2>2, <2>3
  <2>4. CASE t # s
    BY <1>1, <2>1, <2>2, <2>4
  <2> QED BY <2>3, <2>4
<1>8. ASSUME NEW t \in Slot, NEW i \in Items(t)
      PROVE  \E j \in Items(t)' : channel'[t][j] = channel[t][i] /\ (i \in Ahead(t) <=> j \in Ahead(t)')
  BY <1>1, <1>6, PopKeeps
<1>9. Going' = Going
  <2>1. ASSUME NEW e \in Element, e \in Going' PROVE e \in Going
    <3>1. PICK t \in Slot, i \in Nat : i \in Items(t)' /\ channel'[t][i] = e
      BY <1>7, <2>1 DEF Going
    <3> QED BY <1>7, <3>1 DEF Going
  <2>2. ASSUME NEW e \in Element, e \in Going PROVE e \in Going'
    <3>1. PICK t \in Slot : \E i \in Items(t) : channel[t][i] = e
      BY <2>2 DEF Going
    <3>2. PICK i \in Items(t) : channel[t][i] = e
      BY <3>1
    <3> QED BY <1>8, <3>2 DEF Going
  <2>3. Going \subseteq Element /\ Going' \subseteq Element
    BY DEF Going
  <2> QED BY <2>1, <2>2, <2>3
<1>10. Cutting' = Cutting
  <2>1. ASSUME NEW e \in Element, e \in Cutting' PROVE e \in Cutting
    <3>1. PICK t \in Slot, i \in Nat : i \in Ahead(t)' /\ channel'[t][i] = e
      BY <1>5, <1>7, <2>1 DEF Cutting
    <3> QED BY <1>5, <1>7, <3>1 DEF Cutting
  <2>2. ASSUME NEW e \in Element, e \in Cutting PROVE e \in Cutting'
    <3>1. PICK t \in Slot : \E i \in Ahead(t) : channel[t][i] = e
      BY <2>2 DEF Cutting
    <3>2. PICK i \in Ahead(t) : channel[t][i] = e
      BY <3>1
    <3> QED BY <1>5, <1>8, <3>2 DEF Cutting
  <2>3. Cutting \subseteq Element /\ Cutting' \subseteq Element
    BY DEF Cutting
  <2> QED BY <2>1, <2>2, <2>3
<1>11. ASSUME NEW i \in DOMAIN channel'[s] PROVE channel'[s][i] # Barrier
  <2>1. ASSUME channel'[s][i] = Barrier PROVE FALSE
    <3>1. /\ DOMAIN channel'[s] = 1 .. Len(channel[s]) - 1
          /\ \A k \in 1 .. Len(channel[s]) - 1 : channel'[s][k] = channel[s][k + 1]
      BY <1>1, Pop
    <3>2. i + 1 \in 1 .. Len(channel[s]) /\ i + 1 # 1 /\ channel'[s][i] = channel[s][i + 1]
      BY <1>2, <3>1
    <3> QED BY <1>2, <1>4, <2>1, <3>2
  <2> QED BY <2>1
<1>12. \A t, u \in Slot : \A i \in Items(t)', j \in Items(u)' :
         channel'[t][i] = channel'[u][j] => t = u /\ i = j
  BY <1>1, PopDistinct
<1>13. ASSUME Completes(s) PROVE Cutting = {}
  <2>1. ASSUME NEW t \in Slot, NEW i \in Ahead(t) PROVE FALSE
    <3>1. PICK j \in DOMAIN channel[t] : i < j /\ channel[t][j] = Barrier
      BY <2>1 DEF Ahead
    <3>2. t \in Subtask \ acked
      BY <3>1 DEF BarrierInv
    <3>3. t = s
      BY <1>13, <3>2 DEF Completes
    <3>4. i < 1 /\ i \in 1 .. Len(channel[s])
      BY <1>2, <1>4, <2>1, <3>1, <3>3 DEF Ahead, Items
    <3> QED BY <1>2, <3>4
  <2> QED BY <2>1 DEF Cutting
<1>14. Subtask' = Subtask
  BY DEF Snap, Acknowledge, Subtask
<1> QED BY <1>1, <1>2, <1>4, <1>9, <1>10, <1>11, <1>12, <1>13, <1>14

\* A list of some elements is one of any that include these.
LEMMA Wider ==
  ASSUME NEW A, NEW B, A \subseteq B, NEW x \in Seq(A)
  PROVE  x \in Seq(B)
<1>1. x = [i \in 1 .. Len(x) |-> x[i]] /\ Len(x) \in Nat /\ \A i \in 1 .. Len(x) : x[i] \in A
  OBVIOUS
<1>2. \A i \in 1 .. Len(x) : x[i] \in B
  BY <1>1
<1> QED BY <1>1, <1>2

\* A subtask takes its snapshot x, of either job.
LEMMA SnapInv ==
  ASSUME IInv, NEW s \in Subtask, NEW x, Snap(s, x),
         Sink => x = bufferedElements[s], Counter => x = <<count[s]>>
  PROVE  IInv'
<1> USE DEF IInv
<1>1. /\ s \in Slot /\ s \notin acked /\ saving /\ Subtask' = Subtask
      /\ channel' \in [Slot -> Seq(Element \cup {Barrier})]
      /\ \A t \in Slot \ {s} : channel'[t] = channel[t]
      /\ \A i \in DOMAIN channel'[s] : channel'[s][i] # Barrier
      /\ Going' = Going /\ Cutting' = Cutting
      /\ \A t, u \in Slot : \A i \in Items(t)', j \in Items(u)' :
           channel'[t][i] = channel'[u][j] => t = u /\ i = j
      /\ Completes(s) => Cutting = {}
  BY SnapOne
<1>2. /\ par' = par /\ saves' = saves /\ restarts' = restarts /\ cut' = cut /\ demo' = demo
      /\ next' = next /\ bufferedElements' = bufferedElements /\ count' = count
      /\ sent' = sent /\ emitted' = emitted /\ shrunk' = shrunk
      /\ checkpointed' = [checkpointed EXCEPT ![s] = x]
  BY DEF Snap, Acknowledge
<1>3. Subtask \subseteq Slot /\ acked \subseteq Subtask /\ Subtask = 1 .. par /\ par \in Nat \ {0}
      /\ par <= MaxParallelism
  BY SubtaskIsSlot, ParallelismAssumption DEF TypeOK, RuntimeTypeOK, Subtask, Slot
<1> DEFINE S == Seq(0 .. MaxElement)
<1>4. x \in S /\ <<>> \in S
  <2>0. <<>> \in S
    OBVIOUS
  <2>1. CASE Sink
    <3>1. x \in Seq(Element)
      BY <1>1, <2>1 DEF TypeOK
    <3>2. Element \subseteq 0 .. MaxElement
      BY ElementAssumption DEF Element
    <3>3. x \in S
      BY <3>1, <3>2, Wider
    <3> HIDE DEF S
    <3> QED BY <2>0, <3>3
  <2>2. CASE Counter
    <3>1. count[s] \in 0 .. MaxElement
      BY <1>1 DEF TypeOK
    <3>2. PICK c \in 0 .. MaxElement : c = count[s]
      BY <3>1
    <3>3. <<c>> \in S
      OBVIOUS
    <3> HIDE DEF S
    <3> QED BY <2>0, <2>2, <3>2, <3>3
  <2> QED BY <2>1, <2>2 DEF TypeOK
<1> HIDE DEF S
<1>5. /\ taken \in [Slot -> S] /\ savepoint \in Seq(S) /\ checkpointed \in [Slot -> S]
      /\ Len(savepoint) <= MaxParallelism
  BY <1>4 DEF TypeOK, RuntimeTypeOK, S
<1>6. checkpointed' \in [Slot -> S]
  BY <1>2, <1>4, <1>5
<1>7. cut \subseteq Element /\ savedCut \subseteq Element /\ savedCut' \subseteq Element
      /\ (savedCut' = cut \/ savedCut' = savedCut)
  BY DEF TypeOK, Snap
\* What each puts in, or has put in.
<1>8. Sink => Complete(Part, cut, Cutting, sent) /\ Part[s] = x
  BY <1>1 DEF SinkInv, Part
<1>9. Counter => Divided(cut \ Cutting, Subtask, CountPart) /\ CountPart[s] = x[1] /\ Len(x) = 1
  BY <1>1 DEF CounterInv, CountPart
<1>10. Sink /\ ~ shrunk => Short(x)
  BY <1>1 DEF FullInv
<1>11. CASE Completes(s)
  <2>1. /\ savepoint' = [t \in Subtask |-> IF t = s THEN x ELSE taken[t]]
        /\ saving' = FALSE /\ acked' = {} /\ taken' = Nowhere(<<>>) /\ savedCut' = cut
    BY <1>11 DEF Snap, Acknowledge
  <2>2. \A t \in Subtask : t # s => t \in acked
    BY <1>11 DEF Completes
  <2>3. /\ savepoint' \in Seq(S) /\ Len(savepoint') = par /\ DOMAIN savepoint' = Subtask
        /\ savepoint' # <<>>
    <3>1. \A t \in Subtask : taken[t] \in S
      BY <1>3, <1>5
    <3>2. savepoint' \in [1 .. par -> S]
      BY <1>3, <1>4, <2>1, <3>1
    <3> QED BY <1>3, <3>2
  <2>4. TypeOK'
    <3>1. taken' \in [Slot -> S]
      BY <1>4, <2>1 DEF Nowhere
    <3>2. RuntimeTypeOK(Element, S)'
      BY <1>1, <1>2, <1>3, <2>1, <2>3, <3>1 DEF TypeOK, RuntimeTypeOK
    <3> QED BY <1>2, <1>6, <1>7, <3>2 DEF TypeOK, S, Sink, Counter
  <2>5. BarrierInv'
    <3>1. ASSUME NEW t \in Slot, NEW i \in DOMAIN channel'[t] PROVE channel'[t][i] # Barrier
      <4>1. CASE t = s
        BY <1>1, <4>1
      <4>2. CASE t # s
        BY <1>1, <2>2, <4>2 DEF BarrierInv
      <4> QED BY <4>1, <4>2
    <3> QED BY <2>1, <3>1 DEF BarrierInv
  <2>6. IdleInv'
    BY <1>1, <1>2 DEF IdleInv, Sink, Counter
  <2>7. GoingInv'
    BY <1>1, <1>2, <2>1, <2>3 DEF GoingInv
  <2>8. SinkInv'
    <3>1. ASSUME Sink PROVE Complete(savepoint', cut, {}, sent)
      <4>1. PICK f : f = Part
        OBVIOUS
      <4>2. PICK g : g = savepoint'
        OBVIOUS
      <4>3. DOMAIN f = Slot /\ DOMAIN g = Subtask /\ \A t \in Subtask : g[t] = f[t]
        BY <1>3, <1>8, <2>1, <2>2, <3>1, <4>1, <4>2 DEF Part
      <4>4. ASSUME NEW t \in Slot \ Subtask PROVE DOMAIN f[t] = {}
        <5>1. f[t] = <<>>
          BY <1>3, <4>1 DEF Part, IdleInv
        <5> QED BY <5>1
      <4>5. Complete(f, cut, {}, sent)
        BY <1>1, <1>8, <1>11, <3>1, <4>1
      <4>6. Complete(g, cut, {}, sent)
        BY <1>3, <4>3, <4>4, <4>5, CompleteElsewhere
      <4> QED BY <4>2, <4>6
    <3>2. Sink => Complete(bufferedElements', emitted', Going', sent')
      BY <1>1, <1>2 DEF SinkInv
    <3> QED BY <1>2, <2>1, <3>1, <3>2 DEF SinkInv, Sink
  <2>9. CounterInv'
    <3>1. ASSUME Counter
          PROVE  /\ \A t \in Subtask : Len(savepoint'[t]) = 1
                 /\ Divided(cut, Subtask, [t \in Subtask |-> savepoint'[t][1]])
      <4>1. \A t \in Subtask : Len(savepoint'[t]) = 1 /\ savepoint'[t][1] = CountPart[t]
        <5>1. ASSUME NEW t \in Subtask PROVE Len(savepoint'[t]) = 1 /\ savepoint'[t][1] = CountPart[t]
          <6>1. CASE t = s
            BY <1>9, <2>1, <3>1, <6>1
          <6>2. CASE t # s
            <7>1. t \in acked /\ t \in Slot /\ savepoint'[t] = taken[t]
              BY <1>3, <2>1, <2>2, <6>2
            <7> QED BY <3>1, <7>1 DEF CounterInv, CountPart
          <6> QED BY <6>1, <6>2
        <5> QED BY <5>1
      <4>2. PICK n : n = CountPart
        OBVIOUS
      <4>3. PICK m : m = [t \in Subtask |-> savepoint'[t][1]]
        OBVIOUS
      <4>4. Divided(cut, Subtask, n) /\ \A t \in Subtask : m[t] = n[t]
        BY <1>1, <1>9, <1>11, <3>1, <4>1, <4>2, <4>3
      <4>5. Divided(cut, Subtask, m)
        BY <4>4, DividedSame
      <4> QED BY <4>1, <4>3, <4>5
    <3>2. Counter => Divided(emitted' \ Going', Subtask', count')
      BY <1>1, <1>2 DEF CounterInv
    <3> QED BY <1>2, <2>1, <2>3, <3>1, <3>2 DEF CounterInv, Counter
  <2>10. FullInv'
    <3>1. ASSUME Sink, ~ shrunk, NEW t \in Subtask PROVE Short(savepoint'[t])
      <4>1. CASE t = s
        BY <1>10, <2>1, <3>1, <4>1
      <4>2. CASE t # s
        BY <2>1, <2>2, <3>1, <4>2 DEF FullInv
      <4> QED BY <4>1, <4>2
    <3>2. Sink /\ ~ shrunk => \A t \in Slot : Short(bufferedElements[t])
      BY DEF FullInv
    <3> QED BY <1>2, <2>1, <2>3, <3>1, <3>2 DEF FullInv, Sink, Short
  <2> QED BY <2>4, <2>5, <2>6, <2>7, <2>8, <2>9, <2>10
<1>12. CASE ~ Completes(s)
  <2>1. /\ taken' = [taken EXCEPT ![s] = x] /\ acked' = acked \cup {s}
        /\ savepoint' = savepoint /\ saving' = saving /\ savedCut' = savedCut
    BY <1>12 DEF Snap, Acknowledge
  <2>2. taken' \in [Slot -> S] /\ taken'[s] = x /\ \A t \in Slot \ {s} : taken'[t] = taken[t]
    BY <1>1, <1>4, <1>5, <2>1
  <2>3. TypeOK'
    <3>1. RuntimeTypeOK(Element, S)'
      BY <1>1, <1>2, <1>3, <1>5, <2>1, <2>2 DEF TypeOK, RuntimeTypeOK
    <3> QED BY <1>2, <1>6, <1>7, <3>1 DEF TypeOK, S, Sink, Counter
  <2>4. BarrierInv'
    <3>1. ASSUME NEW t \in Slot, NEW i \in DOMAIN channel'[t], channel'[t][i] = Barrier
          PROVE  /\ saving' /\ t \in Subtask' \ acked'
                 /\ \A j \in DOMAIN channel'[t] : channel'[t][j] = Barrier => j = i
      <4>1. t # s
        BY <1>1, <3>1
      <4>2. channel'[t] = channel[t]
        BY <1>1, <4>1
      <4> QED BY <1>1, <2>1, <3>1, <4>1, <4>2 DEF BarrierInv
    <3>2. ASSUME NEW t \in Subtask' \ acked'
          PROVE  \E i \in DOMAIN channel'[t] : channel'[t][i] = Barrier
      <4>1. t \in Subtask \ acked /\ t # s /\ t \in Slot
        BY <1>1, <1>3, <2>1, <3>2
      <4> QED BY <1>1, <4>1 DEF BarrierInv
    <3> QED BY <1>1, <2>1, <3>1, <3>2 DEF BarrierInv
  <2>5. IdleInv'
    BY <1>1, <1>2 DEF IdleInv, Sink, Counter
  <2>6. GoingInv'
    BY <1>1, <1>2, <2>1 DEF GoingInv
  <2>7. SinkInv'
    <3>1. Sink => Part' = Part
      <4>1. ASSUME Sink, NEW t \in Slot
            PROVE  (IF t \in acked' THEN taken'[t] ELSE bufferedElements'[t]) =
                     (IF t \in acked THEN taken[t] ELSE bufferedElements[t])
        BY <1>1, <1>2, <2>1, <2>2, <4>1
      <4> QED BY <4>1 DEF Part
    <3> QED BY <1>1, <1>2, <2>1, <3>1 DEF SinkInv, Sink
  <2>8. CounterInv'
    <3>1. Counter => CountPart' = CountPart
      <4>1. ASSUME Counter, NEW t \in Slot
            PROVE  (IF t \in acked' THEN taken'[t][1] ELSE count'[t]) =
                     (IF t \in acked THEN taken[t][1] ELSE count[t])
        BY <1>1, <1>2, <2>1, <2>2, <4>1
      <4> QED BY <4>1 DEF CountPart
    <3>2. Counter => \A t \in acked' : Len(taken'[t]) = 1
      BY <1>3, <1>9, <2>1, <2>2 DEF CounterInv
    <3> QED BY <1>1, <1>2, <2>1, <3>1, <3>2 DEF CounterInv, Counter
  <2>9. FullInv'
    <3>1. Sink /\ ~ shrunk => \A t \in acked' : Short(taken'[t])
      BY <1>3, <1>10, <2>1, <2>2 DEF FullInv
    <3> QED BY <1>2, <2>1, <3>1 DEF FullInv, Sink, Short
  <2> QED BY <2>3, <2>4, <2>5, <2>6, <2>7, <2>8, <2>9
<1> QED BY <1>11, <1>12

\* Both demos' snapshots are such a step.
LEMMA SnapshotInv ==
  ASSUME IInv, NEW s \in Subtask, snapshotSink(s) \/ snapshotCounter(s)
  PROVE  IInv'
<1>1. s \in Slot /\ checkpointed \in [Slot -> Seq(0 .. MaxElement)]
  BY SubtaskIsSlot DEF IInv, TypeOK
<1>2. CASE snapshotSink(s)
  <2>1. checkpointed'[s] = bufferedElements[s] /\ Sink /\ ~ Counter
    BY <1>1, <1>2 DEF snapshotSink, Sink, Counter
  <2>2. Snap(s, bufferedElements[s])
    BY <1>2, <2>1 DEF snapshotSink, SaveList, Snap
  <2> QED BY <2>1, <2>2, SnapInv
<1>3. CASE snapshotCounter(s)
  <2>1. checkpointed'[s] = <<count[s]>> /\ Counter /\ ~ Sink
    BY <1>1, <1>3 DEF snapshotCounter, Sink, Counter
  <2>2. Snap(s, <<count[s]>>)
    BY <1>3, <2>1 DEF snapshotCounter, SaveList, Snap
  <2> QED BY <2>1, <2>2, SnapInv
<1> QED BY <1>2, <1>3

\* Nothing adds up to nothing.
LEMMA SumNone == SumOf(<<>>) = 0
<1> DEFINE by == [e \in {} |-> 0]
<1>1. by \in [{} -> Nat] /\ IsFiniteSet({}) /\ Cardinality({}) = 0 /\ 0 \in Nat /\ Len(<<>>) = 0
  BY FS_EmptySet
<1> HIDE DEF by
<1>2. PICK list : list = <<>>
  OBVIOUS
<1>3. Len(list) \in Nat /\ \A i \in 1 .. Len(list) : list[i] = Cardinality(At({}, by, 0 + i))
  BY <1>1, <1>2
<1>4. SumOf(list) = Cardinality(Behind({}, by, 0, Len(list)))
  BY <1>1, <1>3, SumIs
<1>5. Behind({}, by, 0, Len(list)) = {}
  BY DEF Behind
<1> QED BY <1>1, <1>2, <1>4, <1>5

\* The job is started again: each restored list is one of an even split of all lists.
LEMMA RestartInv ==
  ASSUME IInv, NEW p \in Slot, Restart(p)
  PROVE  IInv'
<1> USE DEF IInv
<1> DEFINE S == 0 .. MaxElement
           q == Len(savepoint)
<1>1. /\ par' = p /\ restarts < MaxRestart /\ restarts' = restarts + 1
      /\ channel' = Nowhere(<<>>) /\ saving' = FALSE /\ acked' = {} /\ taken' = Nowhere(<<>>)
      /\ savepoint' = savepoint /\ saves' = saves
      /\ demo' = demo /\ next' = next /\ sent' = sent /\ cut' = cut /\ savedCut' = savedCut
      /\ emitted' = savedCut
      /\ shrunk' = (p < q \/ (shrunk /\ savepoint # <<>>))
  BY DEF Restart, Redeploy, cuts
<1>2. /\ checkpointed' = [s \in Slot |-> IF savepoint # <<>> /\ s <= p THEN Share(s, p) ELSE <<>>]
      /\ bufferedElements' = IF Sink THEN checkpointed' ELSE bufferedElements
      /\ count' = [s \in Slot |-> IF Counter THEN SumOf(checkpointed'[s]) ELSE 0]
  BY DEF Restart, initializeState, restoreState
<1>3. /\ p \in Nat \ {0} /\ MaxParallelism \in Nat /\ p <= MaxParallelism
      /\ 1 .. p \subseteq Slot /\ Subtask' = 1 .. p
      /\ \A t \in Slot : t \in Nat /\ (t <= p <=> t \in 1 .. p)
  BY <1>1, ParallelismAssumption DEF Slot, Subtask
<1>4. /\ savepoint \in Seq(Seq(S)) /\ q \in Nat /\ DOMAIN savepoint = 1 .. q
      /\ \A t \in 1 .. q : savepoint[t] \in Seq(S) /\ Len(savepoint[t]) \in Nat
      /\ savepoint # <<>> => q # 0
  <2> DEFINE T == Seq(S)
  <2>1. savepoint \in Seq(T)
    BY DEF TypeOK, RuntimeTypeOK
  <2> HIDE DEF T
  <2>2. Len(savepoint) \in Nat /\ DOMAIN savepoint = 1 .. Len(savepoint)
        /\ (\A t \in 1 .. Len(savepoint) : savepoint[t] \in T)
        /\ (savepoint # <<>> => Len(savepoint) # 0)
    BY <2>1
  <2>3. \A x \in T : Len(x) \in Nat
    BY DEF T
  <2> QED BY <2>1, <2>2, <2>3 DEF T
<1> DEFINE g == [t \in 1 .. p |-> Share(t, p)]
<1>5. DOMAIN g = 1 .. p /\ \A t \in 1 .. p : g[t] = Share(t, p)
  OBVIOUS
<1> HIDE DEF g, q, S
<1>6. PICK all \in Seq(S) :
        /\ \E a : Splits(savepoint, q, all, a)
        /\ \E b : Splits(g, p, all, b)
        /\ p # q =>
             \A t \in 1 .. p :
               g[t] = SubSeq(all, Before(Len(all), p, t) + 1, Before(Len(all), p, t + 1))
        /\ \A t \in 1 .. p : g[t] \in Seq(S)
  BY <1>3, <1>4, <1>5, ShareSplits DEF q
<1>7. PICK a : Splits(savepoint, q, all, a)
  BY <1>6
<1>8. PICK b : Splits(g, p, all, b)
  BY <1>6
<1>9. /\ DOMAIN checkpointed' = Slot
      /\ \A t \in Slot : checkpointed'[t] = IF savepoint # <<>> /\ t \in 1 .. p THEN g[t] ELSE <<>>
  BY <1>2, <1>3, <1>5
<1>10. checkpointed' \in [Slot -> Seq(S)]
  <2>1. <<>> \in Seq(S)
    OBVIOUS
  <2>2. \A t \in Slot : checkpointed'[t] \in Seq(S)
    BY <1>6, <1>9, <2>1
  <2>3. checkpointed' = [t \in Slot |-> checkpointed'[t]]
    BY <1>2
  <2> QED BY <2>2, <2>3
\* Nothing is under way.
<1>11. /\ \A t \in Slot : channel'[t] = <<>> /\ DOMAIN channel'[t] = {}
       /\ \A t \in Slot : Items(t)' = {} /\ Ahead(t)' = {}
       /\ Going' = {} /\ Cutting' = {}
  <2>1. \A t \in Slot : channel'[t] = <<>>
    BY <1>1 DEF Nowhere
  <2>2. DOMAIN <<>> = {}
    OBVIOUS
  <2>3. \A t \in Slot : DOMAIN channel'[t] = {}
    BY <2>1, <2>2
  <2>4. \A t \in Slot : Items(t)' = {} /\ Ahead(t)' = {}
    BY <2>3 DEF Items, Ahead
  <2> QED BY <2>1, <2>3, <2>4 DEF Going, Cutting
<1>12. savedCut \subseteq Element /\ cut \subseteq Element /\ (savepoint = <<>> => savedCut = {})
  BY DEF TypeOK, GoingInv
\* The sink's lists.
<1>13. ASSUME Sink PROVE Complete(checkpointed', savedCut, {}, sent)
  <2>1. PICK f : f = checkpointed'
    OBVIOUS
  <2>2. DOMAIN <<>> = {}
    OBVIOUS
  <2>3. CASE savepoint = <<>>
    <3>1. DOMAIN f = Slot /\ \A t \in Slot : DOMAIN f[t] = {}
      BY <1>9, <2>1, <2>2, <2>3
    <3>2. Complete(f, {}, {}, sent)
      BY <3>1 DEF Complete, Once
    <3> QED BY <1>12, <2>1, <2>3, <3>2
  <2>4. CASE savepoint # <<>>
    <3>1. PICK v : v = savepoint
      OBVIOUS
    <3>2. Complete(v, savedCut, {}, sent) /\ DOMAIN v = 1 .. q /\ Splits(v, q, all, a)
      BY <1>4, <1>7, <1>13, <3>1 DEF SinkInv
    <3>3. Complete(g, savedCut, {}, sent)
      BY <1>3, <1>4, <1>5, <1>8, <3>2, SplitComplete
    <3>4. DOMAIN f = Slot /\ (\A t \in 1 .. p : t \in Slot /\ f[t] = g[t])
          /\ \A t \in Slot \ 1 .. p : DOMAIN f[t] = {}
      BY <1>3, <1>9, <2>1, <2>2, <2>4
    <3>5. Complete(f, savedCut, {}, sent)
      BY <1>5, <3>3, <3>4, CompleteElsewhere
    <3> QED BY <2>1, <3>5
  <2> QED BY <2>3, <2>4
\* The counter's sums.
<1>14. ASSUME Counter PROVE Divided(savedCut, 1 .. p, count')
  <2>1. PICK m : m = count'
    OBVIOUS
  <2>2. CASE savepoint = <<>>
    <3>1. \A t \in 1 .. p : m[t] = 0
      BY <1>2, <1>3, <1>9, <1>14, <2>1, <2>2, SumNone
    <3> QED BY <1>12, <2>1, <2>2, <3>1, DividedNone
  <2>3. CASE savepoint # <<>>
    <3>1. PICK v : v = savepoint
      OBVIOUS
    <3>2. PICK n : n = [s \in DOMAIN savepoint |-> savepoint[s][1]]
      OBVIOUS
    <3>3. /\ \A t \in 1 .. q : Len(v[t]) = 1
          /\ \A t \in 1 .. q : n[t] = v[t][1]
          /\ Divided(savedCut, 1 .. q, n) /\ Splits(v, q, all, a)
      BY <1>4, <1>7, <1>14, <2>3, <3>1, <3>2 DEF CounterInv
    <3>4. PICK e, w : e = savedCut /\ w = g
      OBVIOUS
    <3>5. /\ IsFiniteSet(e) /\ Divided(e, 1 .. q, n) /\ Splits(w, p, all, b)
          /\ p \in Nat /\ q \in Nat
      BY <1>3, <1>4, <1>8, <1>12, <3>3, <3>4, SomeFinite
    <3>6. Divided(e, 1 .. p, [t \in 1 .. p |-> SumOf(w[t])])
      BY <3>3, <3>5, DividedSplit
    <3>7. \A t \in 1 .. p : m[t] = [u \in 1 .. p |-> SumOf(w[u])][t]
      BY <1>2, <1>3, <1>9, <1>14, <2>1, <2>3, <3>4
    <3>8. Divided(savedCut, 1 .. p, m)
      BY <3>4, <3>6, <3>7, DividedSame
    <3> QED BY <2>1, <3>8
  <2> QED BY <2>2, <2>3
<1>15. ASSUME NEW t \in Slot \ 1 .. p PROVE checkpointed'[t] = <<>> /\ count'[t] = 0
  BY <1>2, <1>9, SumNone
<1>16. ASSUME Sink PROVE ~ Counter /\ \A t \in Slot : count'[t] = 0
  BY <1>2, <1>16 DEF Sink, Counter
<1>17. TypeOK'
  <2>1. bufferedElements' \in [Slot -> Seq(Element)]
    <3>1. CASE Sink
      <4>1. PICK f : f = checkpointed'
        OBVIOUS
      <4>2. Complete(f, savedCut, {}, sent) /\ f \in [Slot -> Seq(S)]
        BY <1>10, <1>13, <3>1, <4>1
      <4>3. ASSUME NEW t \in Slot PROVE f[t] \in Seq(Element)
        <5>1. t \in DOMAIN f /\ f[t] \in Seq(S)
          BY <4>2
        <5> QED BY <1>12, <4>2, <5>1, CompleteType
      <4>4. f = [t \in Slot |-> f[t]]
        BY <4>2
      <4>5. f \in [Slot -> Seq(Element)]
        BY <4>3, <4>4
      <4> QED BY <1>2, <3>1, <4>1, <4>5
    <3>2. CASE ~ Sink
      BY <1>2, <3>2 DEF TypeOK
    <3> QED BY <3>1, <3>2
  <2>2. count' \in [Slot -> 0 .. MaxElement]
    <3>1. \A t \in Slot : count'[t] \in 0 .. MaxElement
      <4>0. 0 \in 0 .. MaxElement
        BY ElementAssumption
      <4>1. CASE Counter
        <5>1. PICK m : m = count'
          OBVIOUS
        <5>2. Divided(savedCut, 1 .. p, m)
          BY <1>14, <4>1, <5>1
        <5>3. \A t \in 1 .. p : m[t] \in 0 .. MaxElement
          BY <1>12, <5>2, DividedType
        <5> QED BY <1>15, <4>0, <5>1, <5>3
      <4>2. CASE ~ Counter
        BY <1>2, <4>0, <4>2
      <4> QED BY <4>1, <4>2
    <3>2. count' = [t \in Slot |-> count'[t]]
      BY <1>2
    <3> QED BY <3>1, <3>2
  <2>3. RuntimeTypeOK(Element, Seq(S))'
    <3>1. channel' \in [Slot -> Seq(Element \cup {Barrier})]
      BY <1>1 DEF Nowhere
    <3>2. taken' \in [Slot -> Seq(S) \cup {<<>>}]
      BY <1>1 DEF Nowhere
    <3>3. restarts' \in 0 .. MaxRestart
      BY <1>1, RuntimeBounds DEF TypeOK, RuntimeTypeOK
    <3>4. savepoint' \in Seq(Seq(S)) /\ Len(savepoint') <= MaxParallelism /\ saves' \in 0 .. MaxSavepoint
      BY <1>1, <1>4 DEF TypeOK, RuntimeTypeOK
    <3> QED BY <1>1, <3>1, <3>2, <3>3, <3>4 DEF RuntimeTypeOK
  <2>4. (Sink \/ Counter)' /\ next' \in 1 .. MaxElement + 1 /\ sent' \subseteq Element
        /\ emitted' \subseteq Element /\ cut' \subseteq Element /\ savedCut' \subseteq Element
        /\ shrunk' \in BOOLEAN
    BY <1>1, <1>12 DEF TypeOK, Sink, Counter
  <2> QED BY <1>10, <2>1, <2>2, <2>3, <2>4 DEF TypeOK, S
<1>18. BarrierInv'
  BY <1>1, <1>11 DEF BarrierInv
<1>19. IdleInv'
  <2>1. Counter => ~ Sink /\ \A t \in Slot : bufferedElements'[t] = <<>>
    BY <1>2 DEF IdleInv, Sink, Counter
  <2>2. \A t \in Slot \ 1 .. p : bufferedElements'[t] = <<>>
    BY <1>2, <1>15, <2>1 DEF TypeOK
  <2>3. (Counter' <=> Counter) /\ (Sink' <=> Sink)
    BY <1>1 DEF Sink, Counter
  <2> QED BY <1>3, <1>11, <1>15, <1>16, <2>1, <2>2, <2>3 DEF IdleInv
<1>20. GoingInv'
  BY <1>1, <1>11 DEF GoingInv
<1>21. SinkInv'
  <2>1. Sink => Complete(bufferedElements', savedCut, {}, sent)
    BY <1>2, <1>13
  <2> QED BY <1>1, <1>11, <2>1 DEF SinkInv, Sink
<1>22. CounterInv'
  <2>1. Counter => Divided(savedCut \ {}, 1 .. p, count')
    <3>1. savedCut \ {} = savedCut
      OBVIOUS
    <3> QED BY <1>14, <3>1
  <2> QED BY <1>1, <1>3, <1>11, <2>1 DEF CounterInv, Counter
<1>23. FullInv'
  <2>1. ASSUME Sink, ~ shrunk', NEW t \in Slot PROVE Short(checkpointed'[t])
    <3>0. Threshold \in Nat \ {0} /\ Len(<<>>) = 0
      BY ThresholdAssumption
    <3>1. CASE ~ (savepoint # <<>> /\ t \in 1 .. p)
      BY <1>9, <3>0, <3>1 DEF Short
    <3>2. CASE savepoint # <<>> /\ t \in 1 .. p
      <4>1. ~ shrunk /\ ~ (p < q) /\ checkpointed'[t] = g[t]
        BY <1>1, <1>9, <2>1, <3>2
      <4>2. \A u \in 1 .. q : Short(savepoint[u])
        BY <1>4, <2>1, <4>1 DEF FullInv
      <4>3. CASE p = q
        <5>1. g[t] = savepoint[t]
          BY <1>5, <3>2, <4>3 DEF Share, q
        <5> QED BY <3>2, <4>1, <4>2, <4>3, <5>1
      <4>4. CASE p # q
        <5> DEFINE m == Threshold - 1
                   n == Len(all)
        <5>1. m \in Nat /\ (\A u \in 1 .. q : Len(savepoint[u]) <= m) /\ q <= p
          BY <1>3, <1>4, <3>0, <4>1, <4>2 DEF Short
        <5> HIDE DEF m
        <5>2. n \in Nat /\ n <= q * m
          BY <1>4, <1>7, <5>1, SplitShort
        <5> HIDE DEF n
        <5>3. Before(n, p, t + 1) - Before(n, p, t) <= m
          BY <1>3, <1>4, <3>2, <5>1, <5>2, EvenShort
        <5>4. /\ Before(n, p, t) \in Nat /\ Before(n, p, t + 1) \in Nat
              /\ Before(n, p, t + 1) - Before(n, p, t) \in Nat /\ Before(n, p, t + 1) <= n
          <6>1. t \in 1 .. p + 1 /\ t + 1 \in 1 .. p + 1
            BY <1>3, <3>2
          <6> QED BY <1>3, <3>2, <5>2, <6>1, EvenParts
        <5>5. Len(g[t]) = Before(n, p, t + 1) - Before(n, p, t)
          <6> DEFINE lo == Before(n, p, t)
                     hi == Before(n, p, t + 1)
          <6>1. g[t] = SubSeq(all, lo + 1, hi)
            BY <1>6, <3>2, <4>4 DEF n
          <6>2. lo \in Nat /\ hi \in Nat /\ lo <= hi /\ hi <= Len(all)
            <7>1. lo \in Nat /\ hi \in Nat /\ hi - lo \in Nat /\ hi <= n
              BY <5>4
            <7> HIDE DEF lo, hi
            <7> QED BY <7>1 DEF n
          <6> HIDE DEF lo, hi
          <6>3. Len(g[t]) = hi - lo
            BY <1>6, <6>1, <6>2, PartOf
          <6> QED BY <6>3 DEF lo, hi
        <5>6. Len(g[t]) < Threshold
          <6> DEFINE d == Before(n, p, t + 1) - Before(n, p, t)
          <6>1. d \in Nat /\ d <= m /\ Len(g[t]) = d
            BY <5>3, <5>4, <5>5
          <6> HIDE DEF d
          <6> QED BY <3>0, <6>1 DEF m
        <5> QED BY <4>1, <5>6 DEF Short
      <4> QED BY <4>3, <4>4
    <3> QED BY <3>1, <3>2
  <2>2. ASSUME Sink, ~ shrunk', NEW t \in DOMAIN savepoint PROVE Short(savepoint[t])
    <3>1. savepoint # <<>>
      BY <1>4, <2>2 DEF q
    <3> QED BY <1>1, <2>2, <3>1 DEF FullInv
  <2>3. Sink' <=> Sink
    BY <1>1 DEF Sink
  <2> QED BY <1>1, <1>2, <2>1, <2>2, <2>3 DEF FullInv, Short
<1> QED BY <1>17, <1>18, <1>19, <1>20, <1>21, <1>22, <1>23

\* At the start nothing was made yet.
LEMMA InitInv == Init => IInv
<1> SUFFICES ASSUME Init PROVE IInv
  OBVIOUS
<1>1. /\ par \in Slot /\ channel = Nowhere(<<>>) /\ saving = FALSE /\ acked = {}
      /\ taken = Nowhere(<<>>) /\ savepoint = <<>> /\ saves = 0 /\ restarts = 0
      /\ demo \in {"CheckpointedFunctionDemo", "ListCheckpointedDemo"} /\ next = 1
      /\ bufferedElements = Nowhere(<<>>) /\ count = Nowhere(0) /\ checkpointed = Nowhere(<<>>)
      /\ sent = {} /\ emitted = {} /\ cut = {} /\ savedCut = {} /\ shrunk = FALSE
  BY DEF Init, RuntimeInit
<1>2. DOMAIN <<>> = {} /\ Len(<<>>) = 0 /\ 0 < Threshold /\ MaxElement \in Nat
      /\ MaxParallelism \in Nat /\ MaxSavepoint \in Nat /\ MaxRestart \in Nat
  BY ThresholdAssumption, ElementAssumption, ParallelismAssumption, RuntimeBounds
<1>3. \A t \in Slot : /\ channel[t] = <<>> /\ bufferedElements[t] = <<>> /\ count[t] = 0
                      /\ DOMAIN channel[t] = {} /\ DOMAIN bufferedElements[t] = {}
  BY <1>1, <1>2 DEF Nowhere
<1>4. (\A t \in Slot : Items(t) = {} /\ Ahead(t) = {}) /\ Going = {} /\ Cutting = {}
  BY <1>3 DEF Items, Ahead, Going, Cutting
<1>5. TypeOK
  <2> DEFINE S == 0 .. MaxElement
             T == Seq(S)
  <2>1. channel \in [Slot -> Seq(Element \cup {Barrier})] /\ bufferedElements \in [Slot -> Seq(Element)]
        /\ checkpointed \in [Slot -> Seq(S)] /\ taken \in [Slot -> Seq(S) \cup {<<>>}]
        /\ count \in [Slot -> S]
    BY <1>1, <1>2 DEF Nowhere
  <2>2. <<>> \in Seq(T)
    <3> HIDE DEF T
    <3> QED OBVIOUS
  <2>3. RuntimeTypeOK(Element, Seq(S))
    <3>1. savepoint \in Seq(T) /\ Len(savepoint) <= MaxParallelism
      <4>1. Len(savepoint) = 0
        BY <1>1, <1>2
      <4> QED BY <1>1, <1>2, <2>2, <4>1
    <3>2. saves \in 0 .. MaxSavepoint /\ restarts \in 0 .. MaxRestart
      BY <1>1, <1>2
    <3>3. saving \in BOOLEAN /\ acked \subseteq Subtask
      BY <1>1
    <3> QED BY <1>1, <2>1, <3>1, <3>2, <3>3 DEF RuntimeTypeOK
  <2>4. next \in 1 .. MaxElement + 1
    BY <1>1, <1>2
  <2>5. sent \subseteq Element /\ emitted \subseteq Element
        /\ cut \subseteq Element /\ savedCut \subseteq Element /\ shrunk \in BOOLEAN
    BY <1>1
  <2>6. Sink \/ Counter
    BY <1>1 DEF Sink, Counter
  <2> QED BY <2>1, <2>3, <2>4, <2>5, <2>6 DEF TypeOK
<1>6. BarrierInv
  BY <1>1, <1>3 DEF BarrierInv
<1>7. IdleInv
  BY <1>3 DEF IdleInv
<1>8. GoingInv
  BY <1>1, <1>4 DEF GoingInv
<1>9. SinkInv
  <2>1. \A f : (\A t \in DOMAIN f : DOMAIN f[t] = {}) => Complete(f, {}, {}, {})
    BY DEF Complete, Once
  <2>2. Complete(bufferedElements, {}, {}, {}) /\ Complete(savepoint, {}, {}, {})
    <3>1. DOMAIN bufferedElements = Slot
      BY <1>1 DEF Nowhere
    <3> QED BY <1>1, <1>2, <1>3, <2>1, <3>1
  <2> QED BY <1>1, <1>4, <2>2 DEF SinkInv
<1>10. CounterInv
  <2>1. \A t \in Subtask : count[t] = 0
    BY <1>1, <1>3, SubtaskIsSlot, <1>5
  <2>2. Divided({}, Subtask, count)
    BY <2>1, DividedNone
  <2>3. {} \ {} = {}
    OBVIOUS
  <2> QED BY <1>1, <1>2, <1>4, <2>2, <2>3 DEF CounterInv
<1>11. FullInv
  BY <1>1, <1>2, <1>3 DEF FullInv, Short
<1> QED BY <1>5, <1>6, <1>7, <1>8, <1>9, <1>10, <1>11 DEF IInv

\* Each step keeps the invariant.
LEMMA StepInv == IInv /\ [Next]_vars => IInv'
<1> SUFFICES ASSUME IInv, [Next]_vars PROVE IInv'
  OBVIOUS
<1>1. CASE Emit
  BY <1>1, EmitInv
<1>2. CASE Save
  BY <1>2, SaveInv
<1>3. ASSUME NEW s \in Subtask, invoke(s) PROVE IInv'
  BY <1>3, InvokeInv
<1>4. ASSUME NEW s \in Subtask, snapshotSink(s) \/ snapshotCounter(s) PROVE IInv'
  BY <1>4, SnapshotInv
<1>5. ASSUME NEW s \in Subtask, flatMap(s) PROVE IInv'
  BY <1>5, FlatMapInv
<1>6. ASSUME NEW p \in Slot, Restart(p) PROVE IInv'
  BY <1>6, RestartInv
<1>7. CASE UNCHANGED vars
  <2>1. /\ par' = par /\ channel' = channel /\ saving' = saving /\ acked' = acked
        /\ taken' = taken /\ savepoint' = savepoint /\ saves' = saves /\ restarts' = restarts
        /\ demo' = demo /\ next' = next /\ bufferedElements' = bufferedElements
        /\ count' = count /\ checkpointed' = checkpointed /\ sent' = sent
        /\ emitted' = emitted /\ cut' = cut /\ savedCut' = savedCut /\ shrunk' = shrunk
    BY <1>7 DEF vars, runtime, operator, cuts
  <2>2. (\A t \in Slot : Items(t)' = Items(t) /\ Ahead(t)' = Ahead(t))
        /\ Going' = Going /\ Cutting' = Cutting
    BY <2>1 DEF Items, Ahead, Going, Cutting
  <2>3. Subtask' = Subtask /\ (Sink' <=> Sink) /\ (Counter' <=> Counter)
        /\ Part' = Part /\ CountPart' = CountPart
    BY <2>1 DEF Subtask, Sink, Counter, Part, CountPart
  <2>4. TypeOK'
    BY <2>1, <2>3 DEF IInv, TypeOK, RuntimeTypeOK
  <2>5. BarrierInv' /\ IdleInv' /\ FullInv'
    BY <2>1, <2>3 DEF IInv, BarrierInv, IdleInv, FullInv
  <2>6. GoingInv'
    BY <2>1, <2>2 DEF IInv, GoingInv
  <2>7. SinkInv' /\ CounterInv'
    BY <2>1, <2>2, <2>3 DEF IInv, SinkInv, CounterInv
  <2> QED BY <2>4, <2>5, <2>6, <2>7 DEF IInv
<1> QED BY <1>1, <1>2, <1>3, <1>4, <1>5, <1>6, <1>7 DEF Next

\* The invariant holds always.
LEMMA Inductive == Spec => []IInv
BY InitInv, StepInv, PTL DEF Spec

-----------------------------------------------------------------------------
(* The theorems.                                                           *)

\* The state has the types it was declared with: a buffer holds elements only,
\* and a count never goes past the number of elements, whatever the counts that
\* a restore adds up.
THEOREM TypeCorrect == Spec => []TypeOK
<1>1. IInv => TypeOK
  BY DEF IInv
<1> QED BY <1>1, Inductive, PTL

\* What is under way is what the invariant counts as going.
LEMMA GoingIsUnderWay == IInv => Going = UnderWay
<1> SUFFICES ASSUME IInv PROVE Going = UnderWay
  OBVIOUS
<1> USE DEF IInv
<1> DEFINE U == UNION {ToSet(channel[s]) : s \in Subtask}
<1>0. UnderWay = U \ {Barrier}
  BY DEF UnderWay
<1> HIDE DEF U
<1>1. ASSUME NEW e \in Going PROVE e \in UnderWay
  <2>1. PICK s \in Slot : \E i \in Items(s) : channel[s][i] = e
    BY DEF Going
  <2>2. PICK i \in Items(s) : channel[s][i] = e
    BY <2>1
  <2>3. i \in DOMAIN channel[s] /\ e # Barrier
    BY <2>2 DEF Items
  <2>4. s \in Subtask
    <3>1. DOMAIN <<>> = {}
      OBVIOUS
    <3> QED BY <2>3, <3>1 DEF IdleInv
  <2>5. e \in ToSet(channel[s])
    BY <2>2, <2>3 DEF ToSet
  <2>6. e \in U
    BY <2>4, <2>5 DEF U
  <2> QED BY <1>0, <2>3, <2>6
<1>2. ASSUME NEW e \in UnderWay PROVE e \in Going
  <2>1. e # Barrier /\ \E s \in Subtask : e \in ToSet(channel[s])
    <3>1. e \in U /\ e # Barrier
      BY <1>0, <1>2
    <3> QED BY <3>1 DEF U
  <2>2. PICK s \in Subtask : e \in ToSet(channel[s])
    BY <2>1
  <2>3. PICK i \in DOMAIN channel[s] : channel[s][i] = e
    BY <2>2 DEF ToSet
  <2>4. s \in Slot
    BY SubtaskIsSlot
  <2>5. i \in Items(s)
    BY <2>1, <2>3 DEF Items
  <2>6. e \in Element
    BY <2>3, <2>4, <2>5, ChannelType
  <2> QED BY <2>3, <2>4, <2>5, <2>6 DEF Going
<1> QED BY <1>1, <1>2

\* What the buffers list is what their subtasks hold.
LEMMA ListedIsHeld == IInv => Listed(bufferedElements) \subseteq Held
<1> SUFFICES ASSUME IInv, NEW e \in Listed(bufferedElements) PROVE e \in Held
  OBVIOUS
<1>1. DOMAIN bufferedElements = Slot /\ DOMAIN <<>> = {}
  BY DEF IInv, TypeOK
<1>2. PICK s \in Slot : \E i \in DOMAIN bufferedElements[s] : bufferedElements[s][i] = e
  BY <1>1 DEF Listed
<1>3. s \in Subtask
  BY <1>1, <1>2 DEF IInv, IdleInv
<1>4. e \in ToSet(bufferedElements[s])
  BY <1>2 DEF ToSet
<1> QED BY <1>3, <1>4 DEF Held

\* The invariant is what SavepointsSound says, and more.
LEMMA InvSound == IInv => SavepointsSound
<1> SUFFICES ASSUME IInv PROVE SavepointsSound
  OBVIOUS
<1>1. Going = UnderWay /\ Listed(bufferedElements) \subseteq Held
  BY GoingIsUnderWay, ListedIsHeld
<1>2. DOMAIN bufferedElements = Slot /\ \A s \in Subtask : s \in Slot
  BY SubtaskIsSlot DEF IInv, TypeOK
<1>3. Sink => Complete(bufferedElements, emitted, Going, sent)
  BY DEF IInv, SinkInv
<1>4. NothingLost
  BY <1>1, <1>3 DEF NothingLost, Complete
<1>5. HeldOnce
  BY <1>2, <1>3 DEF HeldOnce, Complete, Once
<1>6. CountsAddUp
  <2>1. Counter => Divided(Counted, Subtask, count)
    BY <1>1 DEF IInv, CounterInv, Counted
  <2> QED BY <2>1 DEF CountsAddUp, Divided
<1>7. FullOnlyWhenShrunk
  <2>1. ASSUME NEW s \in Subtask, ~ shrunk PROVE ~ (Len(bufferedElements[s]) >= Threshold)
    <3>1. Threshold \in Nat \ {0} /\ Len(<<>>) = 0 /\ (Sink \/ Counter)
      BY ThresholdAssumption DEF IInv, TypeOK
    <3>2. bufferedElements[s] \in Seq(Element)
      BY <1>2 DEF IInv, TypeOK
    <3>3. Len(bufferedElements[s]) \in Nat
      BY <3>2
    <3>4. Len(bufferedElements[s]) < Threshold
      BY <1>2, <2>1, <3>1 DEF IInv, FullInv, IdleInv, Short
    <3> QED BY <3>1, <3>3, <3>4
  <2> QED BY <2>1 DEF FullOnlyWhenShrunk
<1> QED BY <1>4, <1>5, <1>6, <1>7 DEF SavepointsSound

\* Each savepoint is a sound start with any parallelism: whenever it was taken,
\* and however its lists are split, the sink holds or has sent each element of the
\* present history once, the counts add up to its elements, and no buffer is past
\* the threshold unless buffers were merged.
THEOREM AnySavepointIsASoundStart == Spec => []SavepointsSound
BY Inductive, InvSound, PTL
===============================================================================
