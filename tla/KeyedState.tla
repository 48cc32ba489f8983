------------------------------ MODULE KeyedState ------------------------------
(***************************************************************************)
(* Flink's keyed state, as the demos of state/basic/keyedstate and         *)
(* SkeletonDemo use it: state that belongs to a key, moves with it when    *)
(* the parallelism changes, and comes back with a restore; beside it some  *)
(* demos have a field, which belongs to a subtask and does not.            *)
(*                                                                         *)
(*   ListStateDemo, ReducingStateDemo, AggregatingStateDemo, all with a    *)
(*     function CountFunction: numbers are kept per key; whenever a        *)
(*     subtask has seen Period elements, what is kept for the key of the   *)
(*     last one is put out as a total.  The three differ in how they fold  *)
(*     the numbers: what is kept, or put out, is here the sequence of the  *)
(*     elements that are in it.                                            *)
(*   ValueStateDemo: the same, whenever a key has two elements.            *)
(*   MapStateDemo, SkeletonDemo: a count for each category of a key, in    *)
(*     SkeletonDemo with a time to live.                                   *)
(***************************************************************************)
EXTENDS Flink, Integers

CONSTANTS
  Demos,       \* the demos considered
  Keys,        \* the number of keys
  Category,    \* the categories of an element (UserBehavior's, levels of rain)
  Period,      \* 1000
  Ttl,         \* SkeletonDemo's time to live, in ticks
  Today,       \* RainfallSource: the day it was started
  RainDays,    \* RainfallSource: some of the 800 days before that
  MaxElement,  \* bound: elements
  MaxTime      \* bound: ticks

ASSUME BoundsAssumption == Keys \in Nat /\ MaxElement \in Nat /\ MaxTime \in Nat
ASSUME CategoryAssumption == Category # {}
ASSUME PeriodAssumption == Period \in Nat \ {0, 1}
ASSUME TtlAssumption == Ttl \in Nat \ {0}
ASSUME DemosAssumption ==
  Demos \subseteq {"CountFunction", "ValueStateDemo", "MapStateDemo", "SkeletonDemo"}

VARIABLES
  demo,
  next,        \* the number of the next element
  sourceCount, \* SlowlyIncrementTupleSource's count
  now,
  count,       \* the field, by subtask
  kept,        \* list, reducing, aggregating or value state, by key
  tally,       \* map state, by key: the count and the time it was written
  log,         \* history, by key: elements processed, up to the restored
               \* savepoint and since
  totals       \* history, by key: what was put out, likewise

keyed == <<kept, tally, log, totals>>
vars == <<runtime, demo, next, sourceCount, now, count, keyed>>

Periodic == demo = "CountFunction"
Averaging == demo = "ValueStateDemo"
Raining == demo = "MapStateDemo"
Statistics == demo = "SkeletonDemo"

Key == 0 .. Keys - 1
Time == 0 .. MaxTime
Number == 1 .. MaxElement
Element == [n : Number, key : Key, cat : Category]
Entry == [n : 0 .. MaxElement, at : Time]
Record == [n : Number, cat : Category, at : Time]
StateOfKey == [kept : Seq(Number), tally : [Category -> Entry],
               log : Seq(Record), totals : Seq(Seq(Number))]
Snapshot == [Key -> StateOfKey]

\* KeyGroupRangeAssignment: the subtask that a key is sent to, where there are
\* as many key groups as keys.
Owner(k, p) == (k * p) \div Keys + 1

TypeOK ==
  /\ demo \in Demos
  /\ RuntimeTypeOK(Element, Snapshot)
  /\ next \in 1 .. MaxElement + 1 /\ sourceCount \in 0 .. Keys
  /\ now \in Time
  /\ count \in [Slot -> 0 .. MaxElement]
  /\ kept \in [Key -> Seq(Number)]
  /\ tally \in [Key -> [Category -> Entry]]
  /\ log \in [Key -> Seq(Record)]
  /\ totals \in [Key -> Seq(Seq(Number))]

Fresh == [kept |-> <<>>, tally |-> [c \in Category |-> [n |-> 0, at |-> 0]],
          log |-> <<>>, totals |-> <<>>]

Init ==
  /\ demo \in Demos
  /\ RuntimeInit
  /\ next = 1 /\ sourceCount = 0 /\ now = 0
  /\ count = Nowhere(0)
  /\ kept = [k \in Key |-> Fresh.kept] /\ tally = [k \in Key |-> Fresh.tally]
  /\ log = [k \in Key |-> Fresh.log] /\ totals = [k \in Key |-> Fresh.totals]

-----------------------------------------------------------------------------
(* The sources.                                                            *)

\* RainfallSource's dates, in units of 128 ms: noon of Today, less a number of
\* days multiplied out in 32-bit arithmetic (2^25 units are 2^32 ms).
Day == 675000
Hour == 28125
Wrapped(x) == ((x + 16777216) % 33554432) - 16777216
Date(d) == Today * Day + 12 * Hour - Wrapped(d * Day)

\* The date's text loses its first ten characters, the date, at the source; the
\* first four of the rest, by which MapStateDemo groups, are the hour.
HourOf(d) == (Date(d) \div Hour) % 24
RainKey(d) == Cardinality({HourOf(e) : e \in {f \in RainDays : HourOf(f) < HourOf(d)}})

\* There are keys enough for the hours.
ASSUME RainAssumption == \A d \in RainDays : RainKey(d) \in Key

\* What the source of each demo may emit next: letters, an ever increasing
\* number, dates, or behaviours and categories.
Inputs ==
  LET some == CHOOSE c \in Category : TRUE IN
  CASE Periodic -> [n : {next}, key : Key, cat : {some}]
    [] Averaging -> [n : {next}, key : Key \cap {sourceCount}, cat : {some}]
    [] Raining -> [n : {next}, key : {RainKey(d) : d \in RainDays}, cat : Category]
    [] Statistics -> [n : {next}, key : Key, cat : Category]

\* keyBy sends the element to the subtask of its key.
Emit ==
  /\ next <= MaxElement
  /\ \E e \in Inputs : Deal(Owner(e.key, par), e)
  /\ next' = next + 1
  /\ sourceCount' = IF Averaging THEN sourceCount + 1 ELSE sourceCount
  /\ UNCHANGED <<demo, now, count, keyed>>

Tick ==
  /\ Statistics /\ now < MaxTime
  /\ now' = now + 1
  /\ UNCHANGED <<runtime, demo, next, sourceCount, count, keyed>>

-----------------------------------------------------------------------------
(* The functions.                                                          *)

Log(e) ==
  log' = [log EXCEPT ![e.key] = Append(@, [n |-> e.n, cat |-> e.cat, at |-> now])]

PutOut_NoClear(k, what) ==   \* slip: the state is not cleared
  /\ totals' = [totals EXCEPT ![k] = Append(@, what)]
  /\ kept' = [kept EXCEPT ![k] = what]

\* collect(get()) and clear().  Of nothing the total is <<>>: 0 in ListStateDemo,
\* null in the other two, which print() shows as such.  Where collect(null) fails
\* instead (a sink that is not chained has to serialize it), the job has failed
\* here, and Restart is what follows.
PutOut(k, what) ==
  /\ totals' = [totals EXCEPT ![k] = Append(@, what)]
  /\ kept' = [kept EXCEPT ![k] = <<>>]

Keep(k, what) ==
  /\ kept' = [kept EXCEPT ![k] = what]
  /\ UNCHANGED totals

\* The Period-th element is counted, and is not part of any total.
CountFunction(s) ==
  /\ Periodic /\ HasElement(s)
  /\ LET e == Head(channel[s]) IN
       /\ count' = [count EXCEPT ![s] = @ + 1]
       /\ IF count'[s] % Period = 0 THEN PutOut(e.key, kept[e.key])
          ELSE Keep(e.key, Append(kept[e.key], e.n))
       /\ Log(e)
  /\ Receive(s)
  /\ UNCHANGED <<demo, next, sourceCount, now, tally>>

CountWindowAverage(s) ==
  /\ Averaging /\ HasElement(s)
  /\ LET e == Head(channel[s])
         sum == Append(kept[e.key], e.n)
     IN /\ IF Len(sum) >= 2 THEN PutOut(e.key, sum) ELSE Keep(e.key, sum)
        /\ Log(e)
  /\ Receive(s)
  /\ UNCHANGED <<demo, next, sourceCount, now, count, tally>>

RainCount_Twice(s) ==   \* slip: counts the record and its level
  /\ Raining /\ HasElement(s)
  /\ LET e == Head(channel[s]) IN
       /\ tally' = [tally EXCEPT ![e.key][e.cat] = [n |-> @.n + 2, at |-> now]]
       /\ Log(e)
  /\ Receive(s)
  /\ UNCHANGED <<demo, next, sourceCount, now, count, kept, totals>>

RainCount(s) ==
  /\ Raining /\ HasElement(s)
  /\ LET e == Head(channel[s]) IN
       /\ tally' = [tally EXCEPT ![e.key][e.cat] = [n |-> @.n + 1, at |-> now]]
       /\ Log(e)
  /\ Receive(s)
  /\ UNCHANGED <<demo, next, sourceCount, now, count, kept, totals>>

\* NeverReturnExpired: what get() and the iteration over the entries show.
Visible(k, c) ==
  IF Statistics /\ now - tally[k][c].at >= Ttl THEN 0 ELSE tally[k][c].n

\* OnCreateAndWrite.  Its count only says when the entries are printed.
CountFuntion(s) ==
  /\ Statistics /\ HasElement(s)
  /\ LET e == Head(channel[s]) IN
       /\ tally' = [tally EXCEPT ![e.key][e.cat] =
                      [n |-> Visible(e.key, e.cat) + 1, at |-> now]]
       /\ Log(e)
  /\ Receive(s)
  /\ UNCHANGED <<demo, next, sourceCount, now, count, kept, totals>>

-----------------------------------------------------------------------------
Save ==
  /\ Trigger
  /\ UNCHANGED <<demo, next, sourceCount, now, count, keyed>>

\* A barrier: the state of the subtask's keys, and no field, is saved.
Snap(s) ==
  /\ AtBarrier(s)
  /\ Acknowledge(s, [k \in Key |->
       IF Owner(k, par) = s
       THEN [kept |-> kept[k], tally |-> tally[k], log |-> log[k], totals |-> totals[k]]
       ELSE Fresh])
  /\ UNCHANGED <<demo, next, sourceCount, now, count, keyed>>

Saved(k) ==
  IF savepoint = <<>> THEN Fresh ELSE savepoint[Owner(k, Len(savepoint))][k]

\* Keyed state is restored; the fields of functions and sources begin anew.
Restart(p) ==
  /\ Redeploy(p)
  /\ kept' = [k \in Key |-> Saved(k).kept] /\ tally' = [k \in Key |-> Saved(k).tally]
  /\ log' = [k \in Key |-> Saved(k).log] /\ totals' = [k \in Key |-> Saved(k).totals]
  /\ count' = Nowhere(0)
  /\ sourceCount' = 0
  /\ UNCHANGED <<demo, next, now>>

Next ==
  \/ Emit \/ Tick \/ Save
  \/ \E s \in Subtask :
       CountFunction(s) \/ CountWindowAverage(s) \/ RainCount(s) \/ CountFuntion(s)
       \/ Snap(s)
  \/ \E p \in Slot : Restart(p)

Spec == Init /\ [][Next]_vars

-----------------------------------------------------------------------------
(* Properties.                                                             *)

\* The sequence part consists of elements of whole, in their order and each once.
Within(part, whole) ==
  \E place \in [DOMAIN part -> DOMAIN whole] :
    /\ \A i \in DOMAIN part : part[i] = whole[place[i]]
    /\ \A i, j \in DOMAIN part : i < j => place[i] < place[j]

Numbers(records) == [i \in DOMAIN records |-> records[i].n]
Told(put, held) == FlattenSeq(put) \o held

\* Whatever savepoints, restores and moves of keys there were: what was put out
\* for a key and what is kept for it are together the key's elements, in their
\* order, each once, all but the one that set off each total; an average leaves
\* none out.
EachElementOnce ==
  Periodic \/ Averaging =>
    \A k \in Key :
      /\ Within(Told(totals[k], kept[k]), Numbers(log[k]))
      /\ Len(log[k]) - Len(Told(totals[k], kept[k]))
           = IF Periodic THEN Len(totals[k]) ELSE 0

\* The source of ValueStateDemo never repeats a key, so nothing ever reaches two
\* elements and every key's state stays for good; only a start from a savepoint,
\* with which the source counts from 0 again, lets an average appear.
AveragesOnlyAfterRestart ==
  Averaging /\ restarts = 0 => \A k \in Key : totals[k] = <<>>

\* Seen at the time t, the records of a category since it was last idle for the
\* time to live (in MapStateDemo since the beginning): each was followed by
\* another, or by t, in less.
Hits(records, c) == {i \in DOMAIN records : records[i].cat = c}

Followed(records, c, t, i) ==
  \/ t - records[i].at < Ttl
  \/ \E j \in Hits(records, c) : i < j /\ records[j].at - records[i].at < Ttl

Recent(records, c, t) ==
  {i \in Hits(records, c) :
     Statistics => \A j \in Hits(records, c) : i <= j => Followed(records, c, t, j)}

\* Each count is the number of those elements, whenever entries expire, are
\* saved, come back older than they were, or change subtask.
TallyAgrees ==
  Raining \/ Statistics =>
    \A k \in Key, c \in Category : Visible(k, c) = Cardinality(Recent(log[k], c, now))

\* Any savepoint is a sound start with any parallelism, for each of the demos:
\* their state goes with the keys, and only with them.
SavepointsSound == EachElementOnce /\ AveragesOnlyAfterRestart /\ TallyAgrees
=============================================================================
