# TLA+ specifications of bigdata_learn

bigdata_learn is a collection of small programs against ZooKeeper, YARN, Kafka,
Flink, Spark, HDFS, HBase, Hive and others.  Most are a main method and a few
callbacks; the ones with a protocol of their own, where processes, threads,
sessions, callbacks, snapshots and restarts interleave, are what these
specifications are about.  The largest of them by far is the socket.io client in
the real-time dashboard under `doc/`.  The programs do not talk to each other:
what they share is the service each is a client of, and that is where the modules
compose (two programs over one `ZooKeeper` module, the Flink jobs over one `Flink`
module, the socket.io Manager over what `Wire` promises of an engine.io Socket).

Contents: 1 the system, 2 the modules, 3 the runs, 4 disagreements found,
5 the proofs, 6 what is not modelled, 7 the plan.

## 1. The system

| part | state it keeps | operations | what is hard | what makes it correct |
|---|---|---|---|---|
| zookeeper: leader election (`ProcessNode`, `LeaderElectionLauncher`, `ZKManagerImpl`) | own znode, watched znode; at the service: znodes, watches, sessions | create root, enroll, list, lead or watch, react to the watch | decisions from stale lists, watch set after the fact, expiry, exceptions on the event thread, dead sessions | one leader at a time, in the order of the znodes; the heir leads |
| zookeeper: fair lock (`FairLockTest`) | own znode, one-shot latch | `lock`, `unlock`, watcher | the woken waiter never looks again, lost wake-up, exceptions that look like success | exclusion, first come first served, no waiter forgotten, nothing left behind |
| zookeeper: Curator demos (`InterProcessMutexDemo`, `LeaderLatchDemo`, `CuratorDemo`) | the resource in use; the list of latches | timed acquire, use, release; start, await leader, close | timed-out acquire, closing twice | the resource is used by one client; no latch is closed twice |
| yarn: application (`Client`, `AppMaster`, `Utils`, `Container`) | containers asked for, completed; the application's state at the resource manager | submit, poll, register, request, launch, count down, unregister | three AM threads, over-allocation, counting past zero, failed launches, AM restart | success means N completions, each counted once; the client returns |
| yarn: job tools (`JobStatusFetcher`, `DistcpSubmit`) | none | one call each | none beyond the service's | |
| kafka: consumer (`App.runConsumer`, `ConsumerCreator`) | position, empty-poll counter; at the broker: log, committed offset, group | poll, process, commitAsync, close | crash between processing and commit, rebalance, late commits, giving up | no record skipped; offsets never go back |
| kafka: producer and plug-ins (`App.runProducer`, `ProducerCreator`, `CustomPartitioner`, `CustomSerializer`, `CustomDeserializer`, `MonitorConsumer`) | none | send and wait; one function each | late acknowledgements, negative and missing keys | each key to one valid partition |
| hdfs: `HadoopProxy`, `HdfsOperation`, `HdfsKerberos`, rpc | one file system handle per proxy | tree, mkdir, copy, retry, close | handle reuse, retry loop, partial copy | a copy is whole or reported; no use of a closed handle |
| flink streaming: operator state (`CheckpointedFunctionDemo`, `ListCheckpointedDemo`) | a buffer or a count per subtask, and its snapshot | process an element, snapshot, restore | barriers at different times, other parallelism after a restore, threshold | nothing lost or doubled between memory and snapshot |
| flink streaming: keyed state (`ReducingStateDemo`, `AggregatingStateDemo`, `ListStateDemo`, `ValueState…`, `CountFuntion`, TTL) | keyed state, fields | process an element, snapshot, restore | fields outside the checkpoint, null at the first element, expiry | the same result with and without a restart |
| flink streaming: broadcast state (`BroadcastStateDemo`) | rules per subtask, partial matches, counter | match, update rules | rules and items arrive in different orders | every subtask holds every rule |
| flink streaming: joins and co-streams (`Connect`, `IntervalJoin`, `WindowJoin`, `CoGroup`, `Union`, `Iterate`, `SplitAndSelect`) | one pending element per key | assemble order and payment | order of arrival, duplicates | each pair assembled once |
| flink streaming: windows, triggers, evictors | window contents | fire, purge, evict | late data, state never evicted | each element counted in its windows or put out as late |
| flink connectors (HBase, Kafka), binlog demo (`HdfsSink`) | static connection and table, buckets | open, invoke, close | statics shared by subtasks | no subtask uses what another closed |
| flink tables and SQL (`TopNFunction`, UDFs, queries) | accumulators | accumulate, retract, emit | retraction | what is retracted was emitted |
| flink mock data | none | generate and parse records | none | |
| spark (`StructuredSessionization`, `HelloEndpoint`, KPI jobs, word counts) | session per key; an RPC endpoint | update a session, receive | timeouts | a session ends once |
| dashboard: engine.io client (`Socket`, `Transport`, polling by XHR and JSONP, `WS` in `socket.io.js`) | the transport, the write buffer, upgrade and probe, ping timers, requests under way | open, write, flush, probe, pause, upgrade, ping, close | writes and closes during an upgrade, lost and late answers, two requests at once, drains that are not what they seem | one connection over both transports, in order and without a gap; `close()` loses nothing; a dead server is noticed |
| dashboard: socket.io client (`Manager`, `Socket`, `Backoff`) | the engine, listeners, reconnection, namespaces, buffers, acks | open, connect, emit, ack, disconnect, reconnect | late callbacks of old engines, several namespaces over one engine, asynchronous encoding, buffers over reconnects | events once and in order; acks of received events; a Socket in use comes back |
| dashboard: packet parsers (engine.io-parser, socket.io-parser, `binary.js`, wtf8, base64) | a half-finished binary packet | encode, decode, read blobs | lengths of encoded text, cut payloads, blobs in any order, a reconnect inside a packet | what arrives is what was sent |
| dashboard: `app.py`, `highcharts.js`, `exporting.js` and page | a thread; charts | pass on messages; draw | none in this code | |
| hive (`MySerde`, ORC and RC tools, `Strip`), hbase client, janusgraph, clickhouse, es-example, MapReduce | none of their own | calls into a library | none in this code | |

The `components` of PROJECT.json hold the same inventory by file.  Its `hazards` are
those of the modelled parts, at their lines.  The hazards of the parts that have no
module yet are:

* `BroadcastStateDemo.java:164`, `:122`, `:135`: the rule counter starts again at 0
  after a restore; items of a colour overtake each other; four `flatMap` subtasks
  may number the rules differently.
* `Connect.java:57`, `:65`: order and payment come in either order, and neither state
  is ever cleared.
* `GlobalWindows.java:57`, `SlidingWindows.java:115`, `DelayedData.java:32`: a set that
  is never evicted, the ranking timer, late elements.
* `HbaseSinkFunction.java:13`, `HbaseUtil.java:30`, `HbaseSourceFunction.java:22`: the
  static table, the unsynchronised connection, the flag that is never set again.
* `HadoopProxy.java:47`, `:85`, `:129`: the file system that stays open, the half-open
  copy, the retry loop.
* `TopNFunction.java:55`: `contains` by identity.
* `App.java:53`, `CustomPartitioner.java:20`: the late acknowledgement; the key without
  a partition.
* `InterProcessMutexDemo.java:28`, `LeaderLatchDemo.java:60`, `:66`: the timed-out mutex;
  the latches that are closed twice.
* `StructuredSessionization.scala:82`: a session that times out in a batch.

Two more in modelled parts have no property: an exception in `lock()` is printed and
looks like success (`FairLockTest.java:103`; with failing calls the lock promises
nothing), and the int overflow of `RainfallSource.java:26`, which is in `KeyedState` as
the code computes it.

## 2. The modules

| module | what it is |
|---|---|
| `ZooKeeper` | the service as the zookeeper programs use it: a root znode, ephemeral sequential children, one-shot watches and their events, the end of sessions (external) |
| `Election` | abstract election: a token that passes from the oldest candidate to the next, at most one leader per token |
| `LeaderElection` | `ProcessNode` and its launcher over `ZooKeeper`; implements `Election` |
| `FifoLock` | abstract lock: numbered tickets, served in order, one holder |
| `FairLock` | `FairLockTest` over `ZooKeeper`; implements `FifoLock` when nothing fails |
| `Job` | abstract job: work done by attempts, an outcome decided once, told to the submitter |
| `YarnApp` | `Client`, `AppMaster` and the resource manager; implements `Job` |
| `KafkaConsumerGroup` | `App.runConsumer`, several times in one group, and the broker |
| `Flink` | what the state demos rely on of the runtime: subtasks, channels, barriers, savepoints, starts with another parallelism (mostly external) |
| `OperatorState` | `CheckpointedFunctionDemo` and `ListCheckpointedDemo` over `Flink` |
| `KeyedState` | the demos of `state/basic/keyedstate` and `SkeletonDemo` over `Flink` |
| `Wire` | abstract connection: opens and ends at most once, hands out what was written in order, at most once, without a gap unless JSONP lost it, nothing after the end |
| `EngineSocket` | engine.io's `Socket` with its transports, the browser's requests and the server's half; implements `Wire` |
| `SocketIO` | socket.io's `Manager` and `Socket`s over a series of engines |
| `Text` | wtf8 and base64 |
| `EngineParser` | engine.io-parser: packets and payloads |
| `SocketParser` | socket.io-parser and `binary.js`: packets, frames, placeholders, `Decoder` |
| `Codec` | both parsers between two ends: blobs being read, payloads, cuts, reconnects |
| `LeaderElection_proofs`, `FairLock_proofs`, `YarnApp_proofs`, `KafkaConsumerGroup_proofs`, `OperatorState_proofs`, `KeyedState_proofs`, `EngineSocket_proofs`, `SocketIO_proofs` | lemmas and theorems |
| `MCLeaderElection`, `MCFairLock`, `MCYarnApp`, `MCKafkaConsumerGroup`, `MCOperatorState`, `MCKeyedState`, `MCEngineSocket`, `MCSocketIO`, `MCCodec` | values of the constants for TLC |

In every component module the operators with a suffix (`Launch_CountFailed`, …,
marked *slip*) are not part of the specification: each is an action as a
plausible mistake would have it, and the property named beside it in
PROJECT.json (`mutants`) fails when it takes the action's place.

### ZooKeeper

A sequential znode is its number, and the sort by name is the order of numbers.
A watch is what the programs' watches are: one per client, on one znode, gone
with its event.  The service's reads are modelled as if they were linearised (a
lagging follower of the ensemble is not modelled), and the wrap of the service's
32-bit counter is not.

### LeaderElection

`pc[p]` names the call the process makes next.  Every call to the service is an
action of its own, as the service and the other processes may act between two
of them: `FindRoot` and `CreateRoot` are the exists and the create of
`createNode`, `Enroll` creates the process's znode, `List` is getChildren,
`BecomeLeader` and `ChooseWatch` are the two branches on `index`, `Watch` is
`watchNode`, `OnEvent` is `ProcessNodeWatcher.process`.  `Halt` is the end of the
JVM: nothing closes the session, so the znode stays until `TimeOut`.  `Fail` is an
exception: on the executor's thread it ends the program, on the client's event
thread it is swallowed and the process lives on (`deaf`).  `Expire` ends the session
of a live process: its znode goes, and the process is not told in any way it
reacts to.

### FairLock

The same style.  Each task of `main` has a session and a latch of its own;
`JvmOf` says which tasks share a program, because a crash takes all of them and
the sessions of a finished program end only when all its tasks are done.
`CallFails` is the catch-all of `lock()`: the exception is printed and `lock()`
returns, so the task behaves as if it held the lock.

### YarnApp

`AppMaster` runs on three threads: `main` (`pc`), the heartbeat thread of
`AMRMClientAsync` (`Heartbeat`) and its callback thread (`Launch`, `Count`).
Containers differ in nothing the code looks at, so the model counts them by
where they are: asked for (`pending`), allocated (`granted`), in a response
(`delivered`), started (`running`), failed to start (`idle`), completed
(`ended`), in a response (`reported`), counted.  `RequestOne` and `EndRequests`
are the loop of `addContainerRequest`, whose condition reads `containerCount`
anew each time; `SeeFinished` is the polling loop; `Count` is one status of
`onContainersCompleted`, whatever exit status it carries.  `Heartbeat` sends the
*absolute* number of requests whenever one was added since the last one, as
`AMRMClientImpl` does; nothing in `AppMaster` ever removes a request.
`StartAttempt`, `AttemptFails` and `Kill` are the resource manager's, over several
attempts; `Submit`, `Poll` and `ClientFails` are `Client.run`.

The launch commands in the source name `com.nathan.bigdata.yarn.AppMaster` and
`…yarn.Container`, while the classes are in `com.nathan.bigdata.yarn.myapp`; the
specification takes the commands to start the classes they mean.

### KafkaConsumerGroup

`pc[c]` is where a run of `runConsumer` is.  `Fetch` is a poll that returns a
record (`MAX_POLL_RECORDS` is 1) and moves the position; `Process` prints it;
`Commit` is `commitAsync()`, which puts the positions of all assigned partitions
in a queue of requests and does not wait; `EmptyPoll` counts polls that found
nothing, for lack of records or of time, and breaks out of the loop; `Close`
waits for the requests under way, then leaves the group.  The broker (external)
is a log per partition, the committed offsets and the generations of the group:
`Deliver` applies a commit of the present generation and refuses another,
`Rebalance` forms the next generation of those that poll in time, and they start
at the committed offsets (`earliest` where there are none).  `Lose` is a commit
lost with its connection: there is no callback and no retry of it.

### Flink

`channel[s]` holds the elements and barriers under way to subtask `s`.  `Trigger`
puts a barrier behind the elements of every channel, one savepoint at a time
(`setMaxConcurrentCheckpoints(1)`); each subtask takes its snapshot when the barrier
reaches it (`Acknowledge`), at another moment than the others, and the savepoint
is complete with the last.  `Redeploy` is a failure or a stop followed by a start
from the last complete savepoint, or anew if there is none, with any
parallelism.  What was in the channels then is gone, as the sources keep no
state.  In most of the demos checkpointing is not enabled, so that these are
savepoints made by hand; in `SkeletonDemo` they are checkpoints.

### OperatorState

A behaviour is of one of the two jobs (`demo`).  `invoke` and `flatMap` take an
element, `snapshotSink` and `snapshotCounter` the barrier: they are `snapshotState`,
which puts a copy of the field into the list state.  `Restart` splits the list
state evenly (`Share`, external, as Flink redistributes even-split list state when
the parallelism changes), and `initializeState` or `restoreState` runs in every
subtask.

What the elements contain and what `flatMap` collects is left out.  To the
outside world the buffering sink sends at least once: after a restore it may send
again what it had sent since the savepoint, and `sent` therefore is a set.

### KeyedState

`kept` and `tally` are the state of each key: list, reducing, aggregating and value
state in the one, map state in the other.  A folded number is represented by the
sequence of the elements in it, so that the properties can tell which those are.
`CountFunction` is the function of that name of `ListStateDemo`,
`ReducingStateDemo` and `AggregatingStateDemo`, whose control is the same (`count`,
`PutOut`, `Keep`); `CountWindowAverage` is that of `ValueStateDemo`, `RainCount` that of
`MapStateDemo`, `CountFuntion` that of `SkeletonDemo`.  The fields (`count`, the
source's `sourceCount`) belong to a subtask and begin anew with a `Restart`; keyed
state is found again wherever its key now is (`Owner`, `Saved`).  A total may be of
nothing, when it is set off by a key's first element: 0 in `ListStateDemo`, null in the
other two, which `print()` shows; should a sink refuse null, the job fails there, and that
is the `Restart` that may follow each step.  `log` and `totals`
are histories of what each key's state is made of, and go back with a restore.
`now` is processing time, for the time to live; an entry is visible for less than
`Ttl` ticks after it was last written (`Visible`).

`RainfallSource`'s dates are modelled as they are computed, with the multiplication
in 32 bits (`Wrapped`), in units of 128 ms, so that every number fits TLC's
integers.  What `CountFuntion` prints every 100 elements is `Visible`; when it
prints is left out.

### EngineSocket

JavaScript runs one callback at a time, and most of the library's control is calls
within a callback: `onDrain` may call what `close()` left behind, which closes the
transport, which ends a probe.  So the client is one record `c`, every function of
the source an operator from a state of it to the next, a nested call an application,
and an action is one callback of the browser: a timer (`PingInterval`,
`PingTimeout`), the end of a request (`TakeAnswer`, `PollFails`, `PostDone`,
`PostFails`), an event of the WebSocket (`WsOpens`, `WsMessage`, `WsDrained`, `WsLost`),
or the page (`PageWrites`, `PageCloses`).  The packets of a payload are read one by one
(`NextPacket`, `EndOfPayload`); in between nothing runs but what the handlers of the
page do (`act`).

A listener that is removed is a flag (`poll.heard`), a `once` an element of a set
(`poll.waits`, `closing`).  `get` and `post` are the two requests the polling may have
under way: asked, answered or failed at the other side, idle when the callback ran.
The WebSocket is `link` with what is under way in it (`up`, `down`); `ws.drains` counts
the "fake drain" timeouts.  `opened`, `owed`, `threw`, `failed`, `sent` and `got` are
histories.  A page chooses its transport in `Init`: polling by XHR with an upgrade,
JSONP in a browser that has no WebSocket, in which the probe never answers, or the
WebSocket at once.

The server, the network and the browser's requests are external: they answer,
refuse what belongs to no session, break, or cut a session off (`Answer` …
`Garbage`).  The packets differ in what the client tells apart; messages carry a
number.

### SocketIO

The same style: `m` is the Manager with its engines and the Socket of each namespace.
An engine is what `Wire` promises and no more: it is opening, open, closing or closed,
carries packets both ways, fails or ends at any moment, and closes late when it still
has something to write (`closing`).  A `close()` before the handshake waits in the same way
(`unopened`), but the handshake opens the engine nevertheless, and until it has been
drained it takes packets again (`reopened`).  `eng[e].subs` are the listeners the Manager keeps on
engine `e`, so that a late event of an old engine finds the listeners of a new one
removed or not exactly as in the code.  `ReconnectTimer`, `ConnectTimeout`,
`EngineOpens`, `EngineFails`, `EngineEnds`, `EngineData` and `BlobRead` are the
callbacks; `PageEmits`, `PageConnects`, `PageDisconnects` the page (one of `Pages`, chosen
in `Init`), which may
disconnect what is not connected and call `connect()` again while it waits.  `busy` chooses
whether an engine that is closed is still writing or upgrading, and so closes late.
Packets with a blob are encoded over several steps, all others
at once.  `hasty` says that the page called `connect()` while the reconnect timer or a
draining engine was pending, or for a "/" that it had disconnected while another namespace
kept the Manager open (`connect` of "/" is then never answered), which
`ConnectedIsHeard`, `OneConnection` and `Reconnects` except, `stale` that a blob was read over a reconnect, and
`greetings` are events emitted from the connect handler.

### Text, EngineParser, SocketParser, Codec

These modules are about data, so the data is there: a string is the sequence of its
UTF-16 units, a buffer that of its bytes.  `encodePacket`, `encodePayload`,
`decodePayload`, `encode`, `add` and the rest are the functions of those names.
`Codec` puts them between two ends: the Manager encodes a packet, `removeBlobs` starts a
reader for each blob (`BlobRead`, in any order), the frames leave in payloads of any
number of packets (`Post`) or as messages of the WebSocket (`WsSend`), a payload is cut
short at any character (`Cut`), and the connection ends while the `Decoder` holds half a
packet (`Reconnect`).  Halves of surrogate pairs survive polling, whose utf8 lets them pass, but
a browser's WebSocket replaces them (`Scalars`, external), and `sent` is what the transport
can carry.  (A browser of 2019 or later escapes them in `JSON.stringify`, and nothing is
replaced: that is the text without halves.)  `browser` is one that can send binary data, one that cannot and
uses base64, and one that sends Blobs.  JSON and `btoa` are external.  The modules take
operators of the community modules by `LOCAL INSTANCE`, as some of their names
are also names of the source.

## 3. The runs

| run | instance | distinct states | what it shows |
|---|---|---|---|
| `leader` | 3 processes, 3 starts, all faults, fairness | 59,582 | one leader at a time, owner of the oldest znode; refines `Election`; the heir leads, apart from the two ways to be stranded |
| `fairlock_safety` | the 4 tasks of one main, no faults, symmetry | 2,208 | exclusion; refines `FifoLock` |
| `fairlock_faults` | 3 programs, crashes and lost replies, fairness | 181,401 | the oldest waiter enters, apart from the lost wake-up; what a finished program created goes away |
| `fairlock_crash` | 3 programs, crashes | | violation of `MutualExclusion` |
| `yarn` | 3 containers, 2 attempts, all faults, fairness | 60,096 | completions counted once, success earned, over-allocation bounded; refines `Job`; the client returns |
| `kafka_faults` | 2 consumers, 2 partitions of 2 records, 3 generations, all faults, symmetry | 823,118 | no record skipped, offsets never go back |
| `kafka_progress` | 2 consumers, 2 partitions of 1 record, 5 generations, crashes, fairness | 57,572 | every record is processed unless all consumers have stopped; what was processed is committed |
| `operator_state` | up to 3 subtasks, threshold 2, 4 elements, 2 savepoints, 2 restarts | 841,529 | nothing lost or held twice, counts add up, full buffers only after shrinking (`SavepointsSound`) |
| `keyed_state` | 2 keys, 2 categories, up to 2 subtasks, period 2, time to live 2, 4 elements, 4 instants, 1 savepoint, 2 restarts | 5,068,616 | every element in one total, counts agree with the log, averages only after a restart (`SavepointsSound`) |
| `engine` | 1 message up, 2 down, 1 ping, each first transport, 1 failure of any kind, fairness | 819,638 | implements `Wire` across the upgrade; nothing thrown or lost by `close()`; timers armed; upgrades and dead sessions end |
| `socketio` | 2 namespaces, 2 events, 1 event of the server, 1 `connect()` each, 3 engines, 2 reconnection attempts in a row, 2 kinds of page, blobs, fairness | 823,461 | events once and in order, acks; for pages that are not hasty one engine, no namespace cut off, Sockets come back |
| `codec` | 4 kinds of packet, 2 emits, 1 reconnect, 3 kinds of browser, every cut | 147,561 | what is decoded is what was encoded; a cut inside a packet is noticed |

### Bounds

* `leader`, `fairlock_*`: three processes are the least at which a waiter has a
  predecessor that is not the head, which is where waking the wrong one or waking
  too early shows.  `MaxStarts` bounds the sequence numbers; nothing else is
  bounded.  A start beyond the first of each process is one that comes back while
  the znode of its former life is still there (it happens when another process is
  never started).  The safety properties are proved for any number of both.
  `fairlock_safety` uses four tasks because the main starts four.
* `yarn`: N = 3 is the program's `containerCount`; two attempts are the least at
  which one leaves something behind for another.
* `kafka_*`: `MaxLen` records per partition, `MaxGeneration` rebalances, and
  `MaxEmpty` empty polls (100 in the program).  Two partitions are needed for a commit that
  covers a partition nothing was read from, two consumers and three generations
  for a partition that is taken away and given back.  In the run for progress
  five generations are enough for each consumer to come, go and crash without
  using the bound up: `EventuallyProcessed` would fail by a group that may not
  rebalance any more, and does not.
* `operator_state`: three subtasks are the least at which an even split cuts a
  list; the second savepoint and restart are those that find something in the
  list state of the first.  `Threshold` is 500 in the program.
* `keyed_state`: two keys are enough for a field shared by keys, and for keys that
  move between one subtask and two; the second restart is of a job that went on
  from the savepoint.  With three ticks and a time to live of two an entry can
  be renewed, expire, and come back older than it was.  `Period` is 1000 in the
  program; two days of rain, now and 25 days before, are on either side of the
  overflow.

* `engine`: a message and a ping upwards, and two messages downwards, are the least whose
  order can be wrong: in one payload, over one link, or with the upgrade between them.
  One ping and one failure are enough for each event to fall before, into and after each
  step of the handshake, the probe and the pause, as the page may also write and close
  within handlers.  After a
  failure there is mostly no connection left to fail a second time; a failed probe,
  which it does outlive, counts as the failure (`Sound`).
* `socketio`: two namespaces are the least that share an engine.  Two events can be out of order; three engines are an old one that
  drains, one in use and one to come, and the last one does not fail, so that there
  is an end to reach.  One of the two pages (`Pages`) emits in "/" and
  leaves and joins only that; the other emits nothing, and both namespaces may be
  disconnected and connected again by it and by the server, so that the Manager is closed
  with the last, in every state, and opened again by a page that waits for the old engine
  to be gone.  Two attempts in a row may fail.  `MaxAttempts` is unlimited by default in the program.
* `codec`: a packet with text of every length of code and a surrogate pair, one with
  half a pair and two buffers, one with two blobs (whose bytes look like packets), one
  without data; two of them in a row, so that one may be in the other's way.  Every text
  payload is cut at every character.

Deadlock is not checked: all these programs may legitimately end or wait for
ever.

### Fairness

* `LeaderElection`, `FairLock`: `Step(p)` is weakly fair: it is the next
  instruction of a thread, or an event that waits in the client's queue, and both
  are run by the JVM as long as it is up.  The service's session timeouts are
  fair, since it counts time itself.  Starting, crashing and expiring are not.
* `YarnApp`: the threads of the AM and of the client run, heartbeats go out, the
  cluster has room for every container, and containers end.  Nothing that fails
  is fair.
* `KafkaConsumerGroup`: consumers run (`Step`), requests are answered one way or
  the other (`Deliver`), and the group settles (`Rebalance`).  Nobody has to start
  a consumer or to produce, and no poll has to come back empty.
* `EngineSocket`: answers that have arrived are read (`Reads`), and each event that
  waits in the browser's queue is handled although polls keep arriving, hence strong
  fairness of `Events`; the server reads what reaches it, answers polls for which it
  has something, and refuses what belongs to no session.  A ping timeout is only
  fair when nothing else can come any more (`Silence`): no timer outruns a server
  that answers.  Nothing that fails is fair, nor is the page.
* `SocketIO`: timers and readers go off, the network delivers or closes, the server
  answers.  An engine that neither opens nor fails is given up by the timeout.
* `OperatorState`, `KeyedState` and `Codec` state no liveness: nothing in them must happen.

## 4. Disagreements found

* `fairlock_crash`: `lock()` returns when the watched znode disappears and does
  not list the znodes again.  When the waiter in the middle of the queue crashes,
  the one behind it enters while the head still holds the lock.

Three more that no run shows by itself, as they are exceptions named in properties
or constants of the models:

* A predecessor of `FairLockTest` can be gone by the time it is watched.  The null
  `Stat` only suppresses a line of output, and the task waits on a latch that nobody
  counts down (`LostWakeup` in `HeirEnters`).
* The AM prints that it requests `containerCount` containers.  A heartbeat between
  two `addContainerRequest` calls makes the next one ask again for those before, up
  to N(N+1)/2 in all (`OverAllocationBounded`).
* `MapStateDemo` says that it partitions by year (`MapStateDemo.java:24`) and takes the
  first four characters of the record's date; `RainfallSource` has cut the date off,
  so that these are the hour (`RainKey` in `KeyedState`), and from the 25th day on the
  days overflow an int.

Weaknesses that are part of the modelled behaviour, and that the properties name
rather than hide: `ProcessNode` shares the lost wake-up (`LostWakeup`, and the
attempt that failed on the event thread, in `HeirLeads`); an expired leader never
learns that it is deposed (`Leads` asks for a live session); after an
over-allocation `containerCount` may pass 0 between two looks, or, as it shortens
the request loop, not get there, and `AppMaster` waits for ever (`Miscounted` in
`ClientReturns`); a container that failed counts as completed
(`SuccessMeansCompleted` says completed, not succeeded); a consumer gives up for
empty polls that were never in a row (`EventuallyProcessed`); a sink restored with
fewer subtasks may hold more than the threshold, and as the threshold is compared
for equality it never sends again (`FullOnlyWhenShrunk`); the element that sets off
a total is in none, and the state of a key that never sets one off grows
(`EachElementOnce`); `ValueStateDemo` puts nothing out before a restart
(`AveragesOnlyAfterRestart`).  In `socket.io.js`: a probe that fails in the middle of the
upgrade leaves `upgrading` set and the polling pausing, and nothing moves until the
ping timeout (`UpgradeEnds` allows it); a Socket closed before its handshake opens once
more, and what is written then may go (`GracefulClose` counts what was written before
the close); JSONP does not notice a lost POST (`whole` in `Wire`); the close packet of a
polling transport that is closed while opening is never posted; a page that calls
`connect()` while the reconnect timer or a draining engine is pending may end with
reconnection switched off, with the new engine's listeners cleaned up by the old one's
late close, or with "/" never connected again on a Manager that another namespace kept
open (`hasty`); what the connect handler emits overtakes what was buffered
(`greetings`); a blob that is read over a reconnect is sent in the new connection, past
the queue (`stale`).  A payload that is cut between two packets looks whole, so the loss
is not noticed there; a cut anywhere else is (`CutIsNoticed`).

## 5. The proofs

`tlapm` checks every theorem and lemma below for all values of the constants that
the modules' named assumptions allow (`FaultsAssumption`, `NAssumption`,
`AttemptsAssumption`, `MaxLenAssumption`, `MaxEmptyAssumption`, `NoneAssumption`,
`BoundsAssumption`, `TransportsAssumption`, `NspAssumption`, `PagesAssumption`; of Flink's jobs
`ParallelismAssumption`, `RuntimeBounds`, `ThresholdAssumption`, `ElementAssumption`,
that a barrier is no element, `DemosAssumption`, `CategoryAssumption`, that
there is a category, and `RainAssumption`, that there are keys enough for the hours that
`MapStateDemo` groups by).  Only `NspAssumption` says that a
set is finite, that of the namespaces, as `onOpen` asks for them one after another; any
number of processes, tasks, consumers and partitions is allowed.  Each proof has the same outline: type
correctness, an inductive invariant preserved action by action, and a last step
by temporal logic.

| module | theorems | inductive invariant |
|---|---|---|
| `LeaderElection_proofs` | `TypeCorrect`, `AtMostOne`, `OldestLeads`, `FindsItself`, `InOrder`, `ImplementsElection` | `IInv` |
| `FairLock_proofs` | `TypeCorrect` whatever fails; `LockIsExclusive`, `LockIsFair`, `ImplementsFifoLock` under `Faults = {}` | `IInv` |
| `YarnApp_proofs` | `TypeCorrect`, `CountsAgree`, `SuccessIsEarned`, `AllocationsAreBounded`, `ImplementsJob` | `IInv` |
| `KafkaConsumerGroup_proofs` | `TypeCorrect`, `NothingSkipped`, `CommitsForward`, `AllIsCommitted` | `TypeInv`, `SkipInv`, `GroupInv`, `CoverInv` |
| `OperatorState_proofs` | `TypeCorrect`, `AnySavepointIsASoundStart` | `IInv` |
| `KeyedState_proofs` | `TypeCorrect`, `NothingBeforeRestart`, `AnySavepointIsASoundStart` | `IInv`, `SoundInv` |
| `EngineSocket_proofs` | `TypeCorrect`, `NeverNotOpen`, `TimersGuard`, `NothingOwedIsLost`, `SocketIsConnection` | `SafeInv`, `Armed(c)`; `FlowInv`, `Down` |
| `SocketIO_proofs` | `TypeCorrect`, `AcksAreEarned`, `NoOtherEngine`, `WhoIsConnectedHears`, `OnceAndInOrder` | `IInv`, `Queue` |

* **LeaderElection.**  "At most one leader" is not inductive, because a process
  leads on the strength of a list that may be stale.  `ViewInv` says what a stale
  list still guarantees: it contains the process's own znode and every older one
  that still exists, since znodes only get larger numbers.  Hence `LeaderInv`: a
  leader with a live session owns the oldest znode, and two leaders own the same
  one.  `NodeInv` ties the field to the session.  The refinement maps the token to
  the oldest znode.
* **FairLock.**  Without faults: `ListInv` is the same fact about the list,
  `WaitInv` says that no znode lies between a waiter's target and its own,
  `WatchInv` that an event is delivered only after the target went, so that
  `HeldInv`, the holder has the oldest znode, survives the wake-up, which does not
  look again.  `Faults = {}` is needed: `fairlock_crash` is the counterexample
  otherwise.  Expiry occurs in `TypeCorrect` only, and in no run.
* **YarnApp.**  Completions are counted: those recorded equal those counted and
  on their way.  For the bound, what is allocated and pending is at most
  the sum of the asks sent, and the ask that repeats `requested` requests is sent
  at most once for each value of `requested`, hence 1 + 2 + … + N.
* **KafkaConsumerGroup.**  `SkipInv`: every offset that is read, under way in a
  commit, or committed has only processed records before it, except the record in
  hand, for which `Read` takes one off.  `GroupInv` is what makes late commits
  harmless: the members share the partitions without overlap (`ShareInv`), and a
  member's commits under way are of the present generation, in ascending order,
  between the committed offset and its position (`SentByMember`); everybody else's
  are refused.  `CoverInv` is what keeps a record from being processed and never
  committed when nothing fails: every partition has an owner, and what is processed of
  it is below the offset its owner asked to commit last, or below its position until it
  commits; who is not a member holds nothing, and who has stopped has no commit under
  way, as `close()` waits.
* **OperatorState.**  Types and soundness need one another: a count is bounded only because
  each element is counted once.  Of the sink, `Complete` says of a collection of lists that
  it holds each element of a history once, but for those yet to come and those sent.  It
  holds of three collections: the buffers with the present history (`emitted`), what each
  subtask has put or will put into the savepoint under way (`Part`) with the history at
  its barrier (`cut`), and the savepoint with its own (`savedCut`).  An element that is
  taken leaves what is to come of the first, and of the second if it is ahead of the
  subtask's barrier (`Cutting`): `BarrierInv` and `GoingInv` say that each subtask still to
  acknowledge has one barrier to come, and that what is ahead of it is what of `cut` is
  still under way.  Of the counter, `Divided` says the same with numbers: each counted
  element is counted by one subtask.  `CountsAddUp` and `HeldOnce` are stated so, rather
  than as a sum over the subtasks, which nothing can be proved about without induction.

  A restore splits the list of all saved lists in another way.  `Splits` describes a split
  by where each part begins; `SplitComplete` and `DividedSplit` say that neither `Complete`
  nor `Divided` depends on the split, `SplitSaved` that `FlattenSeq` yields a list that
  the savepoint is a split of, `SplitEven` that the parts of `Share` are another, and
  `SumIs` what `restoreState` adds up.  With as many subtasks or more, no even part is
  longer than the longest saved list (`EvenShort`), hence `FullOnlyWhenShrunk`.
* **KeyedState.**  The types are not inductive: a count is bounded by the number of elements
  only because each element is counted once.  Rather than add up what is counted and what
  is under way, the invariant uses that elements are numbered: what has been counted for a
  subtask (`CountInv`), or for a key and category (`TallyInv`), is below the number of each
  element under way to it, as channels are in ascending order and a key has one channel
  (`ChannelInv`); and what a savepoint holds is below the next number (`SavedInv`), so that
  this is so again after a restart.  That a restart finds a key's state at all rests on
  `OwnerExists`, the arithmetic of the key groups.  `AverageInv` is for
  `ValueStateDemo`: the keys under way are distinct, new to the state and below the
  source's count, until the restart that sets this count to 0.

  `AnySavepointIsASoundStart` is `SavepointsSound`, of which `NothingBeforeRestart` is one
  part.  `SoundInv` says the other two of each state by itself (`Sound`), wherever it is:
  with its key, taken for the savepoint under way, or in the last one (`SavedSound`).  Of
  numbers (`OnceIn`), that what is told is `Within` the log; of counts (`Tallied`), that
  each was right when it was written, with the last record of its category, and the log is
  in order of time (`Ordered`).  `RecentLater` and `RecentGrows` say that it stays right
  until the next record, with which it becomes right again.  What `FlattenSeq` makes of one
  total more (`FlattenAppend`) is shown without an induction theorem: there would be a
  least place at which its recursive function is anything else (`Least`, from the
  well-foundedness of <).
* **EngineSocket.**  `Guarded` is inductive once the fields it speaks of are known to be
  there (`Armed`).  The work is in the handlers, each a composition of operators from one
  state of the client to the next: a lemma for each operator says that it leaves the
  timers alone (`SameTimers`) or what it does to them (`OnCloseDisarms`: a Socket that
  closes leaves none, whatever was armed), and a lemma for each group of actions composes
  these.  `NeverThrows` is not inductive: whether `flush()` may write depends on which
  transport is the Socket's, whether it is pausing, and which callbacks are still to
  come.  `Safe` says of a Socket that is not closed: while the polling is its transport
  and no upgrade is under way, the polling is opening or open and heard (`PollOpen`); the
  WebSocket is open when it may be written to, when a drain of it is due, and when it
  answered the probe (`WsOpened`).  `Coherent` holds of a closed Socket and within handlers too:
  no POST is under way before the polling has opened, and a link that is up belongs to
  an open WebSocket.  It includes the types, as `prevBufferLen` must not pass the length of
  the buffer for `onDrain` to take off what was sent.
* **EngineSocket, the flow.**  Two invariants beside `SafeInv`.
  Upwards, `FlowInv`.  `Flow` says that what the server has received, followed by what is
  on the wire (the POST under way, or what the WebSocket holds behind its probe and upgrade
  packets), is what the Socket has given to its transport; that is all that was sent but
  for the buffer past `prevBufferLen`, as the buffer is a suffix of what was sent
  (`Words`).  Once something is lost it is a prefix of it, and nothing is written any more
  that gets through: a POST that failed leaves the polling unwritable, a link that is down
  drops all.  Over JSONP, which may lose a POST unnoticed, it is a subsequence.  For
  `onDrain` to take the right packets off the buffer, `Mode` relates `prevBufferLen` to the
  POST and the pause, and `Ready` says that a transport that may be written to has
  nothing in hand.  For `GracefulClose`, `Awaits` says that a close that waits for the
  upgrade has given all it owes to the polling, `Ended` that a Socket closed without a
  failure has written what it owed, and `Fine` that nothing is lost and nothing ends the
  connection while nothing fails; `Peer` is the server's side of that.

  Downwards, `Down`.  `Numbered`: what was handed out is 1, 2, … n.  `Followed`: the
  messages in the payload being read, in the answer or on the WebSocket, whichever the
  transport reads from (`Coming`), go on from there without a gap, and those in the
  server's `out` from where these end, unless none of them can come any more
  (`CanLeave`).  That rests on `Polls`: one poll at most, none while a payload is read, and
  none beside the WebSocket, which carries only the probe before the upgrade.

  A handler reaches the invariant through states that do not satisfy it (`OnDrain` within
  `Pause`, `Close` within the page's callback), so each lemma says how little an operator
  changes: `Ceases`, `Shuts`, `Relabels`, `SideOnly`, `Kept`.  Of a whole callback of the
  browser, `Moves` and `InStep` say what it may take in and hand out; of a step of the
  outside, `Outside`.  These are what the refinement needs: `SocketIsConnection` maps a step
  to `Wire`'s `Next` by the age of the connection, which only grows (`SeenAges`), what is
  sent and served, which is only added to, and what is received and handed out, which
  `FlowInv` and `Down` bound.  `Wire` is a safety specification; that the end is noticed
  and the upgrade ends is not part of it.
* **SocketIO.**  One invariant for four properties.  Its types say more than `TypeOK`:
  a packet of the page carries the ack id that belongs to its number (`Upward`), and the
  server acknowledges only what it received (`Downward`), so that, with callbacks kept
  once for each event (`Sound`), an ack of whatever age calls the right callback or
  none.  `OneEngine` relates `readyState` to the state of the engine and to the
  listeners on it, and says that all other engines are deaf and on their way out, but
  for the one that `close()` left to drain; `Heard` and `Slots` relate the Sockets to
  their Manager.  All of that holds as long as the page was not `hasty`; the types and
  the acks hold always.

  `OnceAndInOrder` holds of a hasty page too, and has an invariant of its own, `Queue`,
  relative to the types in `IInv`.  The number of an event sits in one place at a time:
  in the `sendBuffer` of its Socket, in `packetBuffer`, in a blob being read, under way
  in an engine, or at the server.  `Ahead` says that the numbers of one place come before
  those of another, and `Sorted` that they ascend within one, in both cases but for the
  numbers that are excused: those of greetings, and all of a stretch that a blob read
  over a reconnect has made `stale`.  `BetweenInv`, `EnginesInv`, `WaitingInv` and
  `EmittedInv` compare the places with each other and with what has been emitted;
  `Encoder` says that nothing waits in `packetBuffer` unless a packet is being encoded,
  and that one blob is read at a time unless stale; `Flushed`, that a connected Socket
  has an empty `sendBuffer`, without which an event could overtake those in it.  Most
  handlers only drop packets (`Drops`), which keeps every order; those that write append
  behind all that waits (`SentOrder`).

Only model-checked: everything under fairness (`HeirLeads`, `HeirEnters`,
`NothingLeftBehind`, together `QueueMoves`, `ClientReturns`, `EventuallyProcessed`, `UpgradeEnds`, `EndNoticed`,
`Reconnects`), as TLAPS 1.4.5 has no
rule for ENABLED; and `Codec`, whose encoders and decoders are recursive.

## 6. What is not modelled, and why

* The broadcast, window, join and table programs of Flink, the HBase connector, `HadoopProxy`, the Kafka producer, the Curator demos and
  Spark's sessions are planned (section 7).
* In `socket.io.js`: proxies, certificates, query strings and the cache of Managers;
  `forceJSONP` together with a WebSocket; Blobs at the level of engine.io; nested objects
  in the arguments of an event; `Backoff`'s times (whose power overflows to Infinity, and
  the delay to 0, after about 1,014 attempts: doubles are out of TLC's reach); binary
  payloads that are cut short (`decodePayloadAsBinary` is modelled whole, but has no check
  of a packet's length, so that a cut shortens the last packet); packets of more than
  999 characters; `debug`, `json3`, the DOM of JSONP's form and iframe.
* `highcharts.js` and `exporting.js` (minified libraries that draw), and `app.py`.
* `StateTimeToLiveDemo`, `CheckPointDemo` and `StateBackendDemo`: they overwrite one
  value, or configure the library.
* Programs that are a straight sequence of library calls (yarn job tools, hive,
  hbase, janusgraph, clickhouse, elasticsearch, MapReduce, Spark's batch jobs,
  Flink's demos, queries and mock data): they keep no state of their own and
  nothing in them interleaves.
* Formatting, logging, the environment and class path `Client` and `AppMaster`
  assemble, and what `Container` prints.
* Libraries: ZooKeeper's ensemble, Kafka's replication, YARN's scheduler, Flink's
  checkpoint coordinator are modelled by what their clients here may observe.

## 7. The plan

Next modules, in this order.  Related programs share a module and are told apart
by a variable chosen in `Init`, as `demo` in `KeyedState`; jobs over `Flink` can also
be composed into one specification for one run, since they share its variables.

1. `EventWindows`: a pipeline of parallel subtasks with watermarks: `SlidingWindows`
   with its ranking by a timer, `TumblingWindows`, `WinContinue`, `DelayedData`,
   `SessionWindows`.  Each order is counted in its windows or put out as late, no
   order of `OrderSource` (at most 3 s late) is dropped behind a bound of 5 s,
   and the ranking of a window is made once, of all its counts.
2. `CountWindows`: `GlobalWindows` ("the last two minutes" against a set that is
   never evicted), `CountEvictor`, `WinCount`.
3. `BroadcastMatch`: rules and items that reach the subtasks in different orders,
   with the rule counter that is not restored; `Assembly` (`Connect`): each pair of
   order and payment is assembled once, whichever comes first.
4. `TopN`: accumulate, and the two ways to emit, with retraction.
5. `HbaseStatics`: the static connection, table and flag among the subtasks of a
   JVM.
6. `HadoopProxy`, `KafkaProducer`, `CuratorDemos`, `Sessions`.

Theorems worth proving next: the completeness of a ranking in `EventWindows`, from
an invariant that ties the watermark of each channel to what went before it; the
pairing of `Assembly`; the retry bound of `HadoopProxy`.
