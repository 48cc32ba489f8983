-------------------------------- MODULE SocketIO --------------------------------
(***************************************************************************)
(* The socket.io client of the dashboard page: the Manager of socket.io.js *)
(* with the Socket of each namespace.  The Manager opens one engine (see   *)
(* EngineSocket) at a time, reconnects with a backoff, and carries the     *)
(* packets of all namespaces over it; a Socket buffers what the page emits *)
(* until its namespace is connected, and keeps the callbacks of acks.      *)
(*                                                                         *)
(* As in EngineSocket, JavaScript runs one callback at a time: a handler   *)
(* is an operator from the state of the client to the next, an action is   *)
(* one callback.  Engines, with what Wire promises of them, and the server *)
(* are external.                                                           *)
(***************************************************************************)
EXTENDS Naturals, Sequences, FiniteSets, SequencesExt

CONSTANTS
  Nsp,          \* namespaces; "/" is the one the server connects by itself
  Pages,        \* what pages do with them besides opening them, see PagesAssumption
  MaxEvents,    \* bound: events the page emits in a namespace
  MaxServed,    \* bound: events of the server that are under way or buffered
  MaxConnects,  \* bound: calls of connect() in a namespace
  MaxEngines,   \* bound: engines; the last one does not fail
  MaxAttempts,  \* reconnectionAttempts
  Blobs         \* whether the page emits blobs, which are read asynchronously

ASSUME NspAssumption == "/" \in Nsp /\ IsFiniteSet(Nsp)
\* Namespaces with events, and those that are disconnected and connected again.
ASSUME PagesAssumption == Pages \subseteq [emits : SUBSET Nsp, leaves : SUBSET Nsp]
ASSUME BoundsAssumption ==
  /\ MaxEvents \in Nat /\ MaxServed \in Nat /\ MaxConnects \in Nat
  /\ MaxEngines \in Nat \ {0} /\ MaxAttempts \in Nat /\ Blobs \in BOOLEAN

VARIABLES
  m,    \* the Manager, its engines and Sockets, see TypeOK
  srv   \* the server: namespaces connected in each session, events received

vars == <<m, srv>>

Engine == 1 .. MaxEngines

Packet == [type : {"connect", "disconnect", "event", "blob", "ack"}, nsp : Nsp,
           n : Nat, id : Nat]
Control(type, n) == [type |-> type, nsp |-> n, n |-> 0, id |-> 0]

\* close() of an engine that is not open yet waits for what is written to it
\* (unopened), and the handshake opens it nevertheless (reopened).
EngineState ==
  [state : {"none", "opening", "open", "unopened", "reopened", "closing", "closed"},
   subs : SUBSET {"open", "error", "timer", "live"},  \* listeners kept in Manager.subs
   fn : BOOLEAN,                                      \* opened by the reconnect timer
   up : Seq(Packet), down : Seq(Packet)]

SocketState ==
  [subs : BOOLEAN, connected : BOOLEAN,
   sendBuffer : Seq(Packet), receiveBuffer : Seq(Packet),
   ids : Nat, acks : SUBSET (Nat \X Nat),
   connects : 0 .. MaxConnects, emitted : Nat, greetings : SUBSET Nat,  \* history
   acked : Seq(Nat)]

Client ==
  [page : Pages, ready : {"closed", "opening", "open"}, engine : 0 .. MaxEngines,
   skipReconnect : BOOLEAN, reconnecting : BOOLEAN, attempts : 0 .. MaxAttempts,
   timer : BOOLEAN,                         \* the timer of reconnect()
   encoding : BOOLEAN, packetBuffer : Seq(Packet), blobs : SUBSET Packet,
   connecting : SUBSET Nsp,
   eng : [Engine -> EngineState], sock : [Nsp -> SocketState],
   stale : BOOLEAN, hasty : BOOLEAN, gaveUp : BOOLEAN]  \* history

Server ==
  [nsps : [Engine -> SUBSET Nsp],
   received : [Nsp -> Seq([n : Nat, by : Engine])]]

TypeOK ==
  /\ m \in Client /\ srv \in Server
  /\ \A n \in Nsp : m.sock[n].emitted <= MaxEvents /\ m.sock[n].ids = m.sock[n].emitted

-----------------------------------------------------------------------------
(* Manager: packets.                                                       *)

\* engine.write(): a closing or closed engine drops the packet, one that the
\* handshake opened after close() does not.
WriteAll(s, ps) ==
  IF s.engine # 0 /\ s.eng[s.engine].state \in {"opening", "open", "reopened"}
  THEN [s EXCEPT !.eng[s.engine].up = @ \o ps] ELSE s
Write(s, p) == WriteAll(s, <<p>>)

\* packet(): one packet is encoded at a time; only a blob takes more than a step.
SendPacket(s, p) ==
  CASE s.encoding -> [s EXCEPT !.packetBuffer = Append(@, p)]
    [] ~ s.encoding /\ p.type = "blob" ->
         [s EXCEPT !.encoding = TRUE, !.blobs = @ \cup {p}]
    [] OTHER -> Write(s, p)

SendAll_NoQueue(ps, s) ==   \* slip: does not wait for a blob that is being read
  LET blobs == {k \in DOMAIN ps : ps[k].type = "blob"}
  IN [WriteAll(s, SelectSeq(ps, LAMBDA p : p.type # "blob")) EXCEPT
        !.encoding = @ \/ blobs # {}, !.blobs = @ \cup {ps[k] : k \in blobs}]

\* packet() of each in turn: what follows a blob waits until it has been read.
SendAll(ps, s) ==
  LET blobs == {k \in DOMAIN ps : ps[k].type = "blob"}
      first == CHOOSE k \in blobs : \A j \in blobs : k <= j
  IN CASE s.encoding -> [s EXCEPT !.packetBuffer = @ \o ps]
       [] ~ s.encoding /\ blobs = {} -> WriteAll(s, ps)
       [] OTHER -> [WriteAll(s, SubSeq(ps, 1, first - 1)) EXCEPT
                      !.encoding = TRUE, !.blobs = @ \cup {ps[first]},
                      !.packetBuffer = @ \o SubSeq(ps, first + 1, Len(ps))]

\* processPacketQueue(), which goes on until the next blob.
ProcessPacketQueue(s) == SendAll(s.packetBuffer, [s EXCEPT !.packetBuffer = <<>>])

\* cleanup(): every listener and timer in subs, the queue, and the encoder; a
\* blob that is being read is not stopped (stale).  What an engine without listeners
\* still receives is not modelled.
Cleanup(s) ==
  [s EXCEPT !.eng = [e \in Engine |-> [@[e] EXCEPT !.subs = {}, !.down = <<>>]],
            !.timer = FALSE,
            !.packetBuffer = <<>>, !.encoding = FALSE, !.stale = @ \/ s.blobs # {}]

-----------------------------------------------------------------------------
(* Manager: opening, closing, reconnecting.                                *)

OpenEngine_StillSkips(s, fn) ==   \* slip: skipReconnect is not cleared
  IF s.ready \in {"opening", "open"} THEN s
  ELSE LET e == s.engine + 1 IN
       [s EXCEPT !.engine = e, !.ready = "opening",
                 !.eng[e] = [@ EXCEPT !.state = "opening", !.fn = fn,
                                      !.subs = {"open", "error", "timer"}]]

\* open(fn)
OpenEngine(s, fn) ==
  IF s.ready \in {"opening", "open"} THEN s
  ELSE LET e == s.engine + 1 IN
       [s EXCEPT !.engine = e, !.ready = "opening", !.skipReconnect = FALSE,
                 !.eng[e] = [@ EXCEPT !.state = "opening", !.fn = fn,
                                      !.subs = {"open", "error", "timer"}]]

\* Backoff.reset(), and duration() without the time it says to wait.
Reset(s) == [s EXCEPT !.attempts = 0]
Duration(s) == [s EXCEPT !.attempts = @ + 1]

\* reconnect()
Reconnect(s) ==
  CASE s.reconnecting \/ s.skipReconnect -> s
    [] ~ (s.reconnecting \/ s.skipReconnect) /\ s.attempts >= MaxAttempts ->
         [Reset(s) EXCEPT !.reconnecting = FALSE, !.gaveUp = TRUE]
    [] OTHER -> [Duration(s) EXCEPT !.reconnecting = TRUE, !.timer = TRUE]

\* maybeReconnectOnOpen()
MaybeReconnectOnOpen(s) ==
  IF ~ s.reconnecting /\ s.attempts = 0 THEN Reconnect(s) ELSE s

OnError_StillReconnecting(s, e) ==   \* slip: the loop is not taken up again
  IF "error" \notin s.eng[e].subs THEN s
  ELSE LET t == [Cleanup(s) EXCEPT !.ready = "closed"] IN
       IF s.eng[e].fn THEN Reconnect(t) ELSE MaybeReconnectOnOpen(t)

\* The listener of open() to the engine's error, with the callback of reconnect().
OnError(s, e) ==
  IF "error" \notin s.eng[e].subs THEN s
  ELSE LET t == [Cleanup(s) EXCEPT !.ready = "closed"] IN
       IF s.eng[e].fn THEN Reconnect([t EXCEPT !.reconnecting = FALSE])
       ELSE MaybeReconnectOnOpen(t)

\* Socket.onclose() of every Socket that listens to the Manager.
AllClose(s) ==
  [s EXCEPT !.sock = [n \in Nsp |-> IF @[n].subs THEN [@[n] EXCEPT !.connected = FALSE]
                                    ELSE @[n]]]

\* onclose()
OnClose(s) ==
  Reconnect(AllClose([Reset(Cleanup(s)) EXCEPT !.ready = "closed"]))

\* The engine is closed, and tells so to a listener.
EngineClosed(s, e) ==
  LET t == [s EXCEPT !.eng[e].state = "closed", !.eng[e].down = <<>>] IN
  IF "live" \in s.eng[e].subs THEN OnClose(t) ELSE t

\* engine.close(): at once, or later when it is still busy writing or upgrading.
CloseEngine(s, busy) ==
  IF s.engine = 0 \/ s.eng[s.engine].state \notin {"opening", "open", "reopened"} THEN s
  ELSE LET x == s.eng[s.engine] IN
       CASE busy /\ x.state = "opening" /\ x.up # <<>> ->
              [s EXCEPT !.eng[s.engine].state = "unopened"]
         [] busy /\ x.state # "opening" -> [s EXCEPT !.eng[s.engine].state = "closing"]
         [] OTHER -> EngineClosed(s, s.engine)

CloseManager_OnlyOpen(s, busy) ==   \* slip: does not close an engine that is opening
  LET t == [s EXCEPT !.skipReconnect = TRUE, !.reconnecting = FALSE] IN
  IF s.ready = "opening" THEN [Reset(Cleanup(t)) EXCEPT !.ready = "closed"]
  ELSE CloseEngine([Reset(t) EXCEPT !.ready = "closed"], busy)

\* close()
CloseManager(s, busy) ==
  LET t == [s EXCEPT !.skipReconnect = TRUE, !.reconnecting = FALSE]
      u == IF s.ready = "opening" THEN Cleanup(t) ELSE t
  IN CloseEngine([Reset(u) EXCEPT !.ready = "closed"], busy)

Destroy_Always(s, n, busy) ==   \* slip: closes although other namespaces are in use
  CloseManager([s EXCEPT !.connecting = @ \ {n}], busy)

\* destroy(): the last namespace closes the Manager.
Destroy(s, n, busy) ==
  LET t == [s EXCEPT !.connecting = @ \ {n}] IN
  IF t.connecting = {} THEN CloseManager(t, busy) ELSE t

-----------------------------------------------------------------------------
(* Socket.                                                                 *)

\* onopen(): asks for every namespace but "/".
AskFor(s, n) == IF n = "/" THEN s ELSE SendPacket(s, Control("connect", n))

\* open(), connect()
Connect(s, n) ==
  IF s.sock[n].connected THEN s
  ELSE LET t == OpenEngine([s EXCEPT !.sock[n].subs = TRUE], FALSE)
           u == IF t.ready = "open" THEN AskFor(t, n) ELSE t
       IN [u EXCEPT !.connecting = @ \cup {n}]

\* onclose()
Disconnected(s, n) == [s EXCEPT !.sock[n].connected = FALSE]

\* destroy() of the Socket, and ondisconnect(): it no longer listens to the Manager.
SocketDestroy(s, n, busy) == Destroy([s EXCEPT !.sock[n].subs = FALSE], n, busy)
OnDisconnect(s, n, busy) == Disconnected(SocketDestroy(s, n, busy), n)

\* close(), disconnect()
Disconnect(s, n, busy) ==
  LET t == IF s.sock[n].connected THEN SendPacket(s, Control("disconnect", n)) ELSE s
  IN Disconnected(SocketDestroy(t, n, busy), n)

Emit_SameId(s, n, kind) ==   \* slip: ids is not counted up while buffering
  LET k == s.sock[n].emitted + 1
      id == s.sock[n].ids
      p == [type |-> kind, nsp |-> n, n |-> k, id |-> id]
      t == [s EXCEPT !.sock[n].emitted = k, !.sock[n].acks = @ \cup {<<id, k>>}]
  IN IF s.sock[n].connected THEN SendPacket([t EXCEPT !.sock[n].ids = id + 1], p)
     ELSE [t EXCEPT !.sock[n].sendBuffer = Append(@, p)]

\* emit() with an ack callback
Emit(s, n, kind) ==
  LET k == s.sock[n].emitted + 1
      id == s.sock[n].ids
      p == [type |-> kind, nsp |-> n, n |-> k, id |-> id]
      x == [s.sock[n] EXCEPT !.emitted = k, !.ids = id + 1, !.acks = @ \cup {<<id, k>>}]
      t == [s EXCEPT !.sock[n] = x]
  IN IF s.sock[n].connected THEN SendPacket(t, p)
     ELSE [t EXCEPT !.sock[n].sendBuffer = Append(@, p)]

EmitBuffered_Again(s, n) ==   \* slip: sendBuffer is not emptied
  SendAll(s.sock[n].sendBuffer,
          [s EXCEPT !.sock[n].receiveBuffer = <<>>])

\* emitBuffered(): what was received goes to the page, then what it emitted is sent.
EmitBuffered(s, n) ==
  SendAll(s.sock[n].sendBuffer,
          [s EXCEPT !.sock[n] = [@ EXCEPT !.receiveBuffer = <<>>, !.sendBuffer = <<>>]])

\* onconnect(): the page's handler of connect, which emits a greeting, runs
\* before the buffered events are written.
OnConnect(s, n) ==
  LET t == [s EXCEPT !.sock[n].connected = TRUE]
      k == s.sock[n].emitted + 1
  IN EmitBuffered(IF n \in s.page.emits /\ k <= MaxEvents
                  THEN Emit([t EXCEPT !.sock[n].greetings = @ \cup {k}], n, "event")
                  ELSE t, n)

OnAck_ByOrder(s, p) ==   \* slip: takes the oldest callback, whatever the id
  LET owed == s.sock[p.nsp].acks
      a == CHOOSE x \in owed : \A y \in owed : x[1] <= y[1]
  IN IF owed = {} THEN s
     ELSE [s EXCEPT !.sock[p.nsp].acks = @ \ {a}, !.sock[p.nsp].acked = Append(@, a[2])]

\* onack(): the callback is called once and forgotten.
OnAck(s, p) ==
  LET owed == {a \in s.sock[p.nsp].acks : a[1] = p.id} IN
  IF owed = {} THEN s
  ELSE LET a == CHOOSE b \in owed : TRUE
           x == [s.sock[p.nsp] EXCEPT !.acks = @ \ {a}, !.acked = Append(@, a[2])]
       IN [s EXCEPT !.sock[p.nsp] = x]

\* onevent(): handed to the page, or kept for it.
OnEvent(s, p) ==
  IF s.sock[p.nsp].connected THEN s
  ELSE [s EXCEPT !.sock[p.nsp].receiveBuffer = Append(@, p)]

\* ondata(), ondecoded(), onpacket() of the Socket of the packet's namespace.
OnPacket(s, p, busy) ==
  CASE ~ s.sock[p.nsp].subs -> s
    [] s.sock[p.nsp].subs /\ p.type = "connect" -> OnConnect(s, p.nsp)
    [] s.sock[p.nsp].subs /\ p.type = "event" -> OnEvent(s, p)
    [] s.sock[p.nsp].subs /\ p.type = "ack" -> OnAck(s, p)
    [] s.sock[p.nsp].subs /\ p.type = "disconnect" -> OnDisconnect(s, p.nsp, busy)

-----------------------------------------------------------------------------
(* The page calls io() once for each namespace: the Manager is opened and  *)
(* every Socket waits for it.                                              *)

Idle == [state |-> "none", subs |-> {}, fn |-> FALSE, up |-> <<>>, down |-> <<>>]
Fresh == [subs |-> TRUE, connected |-> FALSE, sendBuffer |-> <<>>, receiveBuffer |-> <<>>,
          ids |-> 0, acks |-> {}, connects |-> 0, emitted |-> 0, greetings |-> {}, acked |-> <<>>]

\* The constructors of Manager and Socket, with autoConnect.
Init ==
  /\ \E page \in Pages :
     m = OpenEngine([page |-> page, ready |-> "closed", engine |-> 0,
                     skipReconnect |-> FALSE,
                     reconnecting |-> FALSE, attempts |-> 0, timer |-> FALSE,
                     encoding |-> FALSE, packetBuffer |-> <<>>, blobs |-> {},
                     connecting |-> Nsp, eng |-> [e \in Engine |-> Idle],
                     sock |-> [n \in Nsp |-> Fresh],
                     stale |-> FALSE, hasty |-> FALSE, gaveUp |-> FALSE], FALSE)
  /\ srv = [nsps |-> [e \in Engine |-> {"/"}], received |-> [n \in Nsp |-> <<>>]]

(* The page. *)

PageEmits(n, kind) ==
  /\ n \in m.page.emits /\ m.sock[n].emitted < MaxEvents /\ (kind = "blob" => Blobs)
  /\ m' = Emit(m, n, kind)
  /\ UNCHANGED srv

PageDisconnects(n, busy) ==
  /\ n \in m.page.leaves
  /\ m' = Disconnect(m, n, busy)
  /\ UNCHANGED srv

\* connect() is hasty while a reconnect is under way, while the engine of an
\* earlier close is still draining, and for a "/" that was closed while the Manager
\* stayed open.
PageConnects(n) ==
  /\ n \in m.page.leaves /\ m.sock[n].connects < MaxConnects
  /\ ~ m.sock[n].connected
  /\ m.ready = "closed" => m.engine < MaxEngines
  /\ LET hasty == \/ m.ready = "closed" /\ (m.reconnecting \/ \E e \in Engine : "live" \in m.eng[e].subs)
                  \/ m.ready = "open" /\ n = "/" /\ ~ m.sock[n].subs
     IN m' = [Connect(m, n) EXCEPT !.hasty = @ \/ hasty, !.sock[n].connects = @ + 1]
  /\ UNCHANGED srv

(* Timers and the encoder. *)

\* The timer of reconnect().
ReconnectTimer ==
  /\ m.timer /\ (m.skipReconnect \/ m.engine < MaxEngines)
  /\ LET t == [m EXCEPT !.timer = FALSE] IN
     m' = IF t.skipReconnect THEN t ELSE OpenEngine(t, TRUE)
  /\ UNCHANGED srv

ConnectTimeout_LeftOpen(e, busy) ==   \* slip: the engine is not closed
  /\ "timer" \in m.eng[e].subs /\ e < MaxEngines /\ ~ busy
  /\ m' = OnError([m EXCEPT !.eng[e].subs = @ \ {"open", "timer"}], e)
  /\ UNCHANGED srv

\* The timer of open(): the engine is closed, and the error is made by hand.
ConnectTimeout(e, busy) ==
  /\ "timer" \in m.eng[e].subs /\ e < MaxEngines
  /\ m' = OnError(CloseEngine([m EXCEPT !.eng[e].subs = @ \ {"open", "timer"}], busy), e)
  /\ UNCHANGED srv

\* A blob has been read, for whatever engine there is by now.
BlobRead(p) ==
  /\ p \in m.blobs
  /\ m' = ProcessPacketQueue(
            [Write([m EXCEPT !.blobs = @ \ {p}], p) EXCEPT !.encoding = FALSE])
  /\ UNCHANGED srv

(* Engines and their events. *)

\* onreconnect()
OnReconnect(s) == [Reset(s) EXCEPT !.reconnecting = FALSE]

\* onopen() with the onopen() of every Socket, and the callback of reconnect().
OnOpen(s, e) ==
  LET t == [Cleanup(s) EXCEPT !.ready = "open", !.eng[e].subs = {"live"}]
      asked == SetToSeq({n \in Nsp \ {"/"} : s.sock[n].subs})
      u == SendAll([i \in DOMAIN asked |-> Control("connect", asked[i])], t)
  IN IF s.eng[e].fn THEN OnReconnect(u) ELSE u

\* onOpen() of the engine: it is open, whatever it was before.
EngineOpens(e) ==
  /\ m.eng[e].state \in {"opening", "unopened"}
  /\ LET opened == IF m.eng[e].state = "opening" THEN "open" ELSE "reopened"
         t == [m EXCEPT !.eng[e].state = opened] IN
     m' = IF "open" \in t.eng[e].subs
          THEN [OnOpen(t, e) EXCEPT !.eng[e].down = <<Control("connect", "/")>>] ELSE t
  /\ UNCHANGED srv

\* error, then close.
EngineFails(e) ==
  /\ m.eng[e].state \notin {"none", "closed"} /\ e < MaxEngines
  /\ m' = EngineClosed(OnError([m EXCEPT !.eng[e].up = <<>>, !.eng[e].state = "closed"], e), e)
  /\ UNCHANGED srv

\* close alone: the server closed the connection, or close() is done at last.
EngineEnds(e) ==
  /\ \/ m.eng[e].state \notin {"none", "closing", "closed"} /\ e < MaxEngines
        /\ m' = EngineClosed([m EXCEPT !.eng[e].up = <<>>], e)
     \/ m.eng[e].state \in {"closing", "reopened"} /\ m.eng[e].up = <<>>
        /\ m' = EngineClosed(m, e)
  /\ UNCHANGED srv

EngineData(e, busy) ==
  /\ "live" \in m.eng[e].subs /\ m.eng[e].down # <<>>
  /\ LET p == Head(m.eng[e].down)
         t == [m EXCEPT !.eng[e].down = Tail(@)]
     IN m' = OnPacket(t, p, busy)
  /\ UNCHANGED srv

(* External: the server. *)

ServerReads(e) ==
  /\ m.eng[e].state \notin {"opening", "unopened"} /\ m.eng[e].up # <<>>
  /\ LET p == Head(m.eng[e].up)
         t == [m EXCEPT !.eng[e].up = Tail(@)]
         Says(packet) == m' = IF "live" \in t.eng[e].subs
                              THEN [t EXCEPT !.eng[e].down = Append(@, packet)] ELSE t
     IN CASE p.type = "connect" ->
               /\ srv' = [srv EXCEPT !.nsps[e] = @ \cup {p.nsp}]
               /\ Says(Control("connect", p.nsp))
          [] p.type = "disconnect" ->
               m' = t /\ srv' = [srv EXCEPT !.nsps[e] = @ \ {p.nsp}]
          [] p.type \in {"event", "blob"} /\ p.nsp \in srv.nsps[e] ->
               /\ srv' = [srv EXCEPT !.received[p.nsp] = Append(@, [n |-> p.n, by |-> e])]
               /\ Says([Control("ack", p.nsp) EXCEPT !.id = p.id])
          [] OTHER -> m' = t /\ UNCHANGED srv

ServerEmits(e, n) ==
  /\ n \in m.page.emits /\ "live" \in m.eng[e].subs /\ n \in srv.nsps[e]
  /\ Len(SelectSeq(m.eng[e].down \o m.sock[n].receiveBuffer, LAMBDA p : p.type = "event")) < MaxServed
  /\ m' = [m EXCEPT !.eng[e].down = Append(@, Control("event", n))]
  /\ UNCHANGED srv

ServerDisconnects(e, n) ==
  /\ n \in m.page.leaves /\ "live" \in m.eng[e].subs /\ n \in srv.nsps[e] /\ e < MaxEngines
  /\ srv' = [srv EXCEPT !.nsps[e] = @ \ {n}]
  /\ m' = [m EXCEPT !.eng[e].down = Append(@, Control("disconnect", n))]

-----------------------------------------------------------------------------
Runs ==
  \/ ReconnectTimer \/ (\E p \in m.blobs : BlobRead(p))
  \/ \E e \in Engine :
       \/ EngineOpens(e)
       \/ \E busy \in BOOLEAN : EngineData(e, busy)

Ends == \E e \in Engine : m.eng[e].state \in {"closing", "reopened"} /\ EngineEnds(e)

Timeouts == \E e \in Engine, busy \in BOOLEAN : ConnectTimeout(e, busy)

Serves == \E e \in Engine : ServerReads(e)

Next ==
  \/ Runs \/ Timeouts \/ Serves
  \/ \E e \in Engine : \/ EngineFails(e) \/ EngineEnds(e)
                        \/ \E n \in Nsp : ServerEmits(e, n) \/ ServerDisconnects(e, n)
  \/ \E n \in Nsp : \/ \E kind \in {"event", "blob"} : PageEmits(n, kind)
                      \/ \E busy \in BOOLEAN : PageDisconnects(n, busy)
                      \/ PageConnects(n)

\* Timers and readers go off, the network delivers, and the server answers; an
\* engine that does not open is given up by ConnectTimeout.
Fairness == WF_vars(Runs) /\ WF_vars(Ends) /\ WF_vars(Timeouts) /\ WF_vars(Serves)

Spec == Init /\ [][Next]_vars /\ Fairness

-----------------------------------------------------------------------------
(* Properties.                                                             *)

\* Over all reconnects, an event of the page reaches the server at most once,
\* and over one connection in the order of emission.  Two things overtake: what
\* the handler of connect emits, and whatever follows a blob that was read over a
\* reconnect.
EventsInOrder ==
  \A n \in Nsp : \A j \in DOMAIN srv.received[n] : \A i \in 1 .. j - 1 :
    LET a == srv.received[n][i]  b == srv.received[n][j] IN
    /\ a.n # b.n
    /\ a.by = b.by /\ a.n > b.n => m.stale \/ a.n \in m.sock[n].greetings

\* The callback of an event is called once, and only when the server has that
\* event, whatever was lost, buffered or reconnected in between.
AckMeansReceived ==
  \A n \in Nsp : \A j \in DOMAIN m.sock[n].acked :
    /\ \E i \in DOMAIN srv.received[n] : srv.received[n][i].n = m.sock[n].acked[j]
    /\ \A i \in 1 .. j - 1 : m.sock[n].acked[i] # m.sock[n].acked[j]

\* A Socket that says it is connected has an open engine under it that it hears:
\* one namespace's disconnect does not cut another off.  (A page that connects
\* while its old engine drains is told of the old connection.)
ConnectedIsHeard ==
  \A n \in Nsp : m.sock[n].connected /\ ~ m.hasty =>
    /\ m.ready = "open" /\ "live" \in m.eng[m.engine].subs
    /\ m.sock[n].subs /\ n \in m.connecting

\* No engine is left open behind the Manager's back, however often it timed out,
\* failed, was closed and opened again, unless the page was hasty.  (One that the
\* handshake opened after close() closes as soon as it has been drained.)
OneConnection ==
  ~ m.hasty => \A e \in Engine \ {m.engine} : m.eng[e].state \notin {"opening", "open"}

\* A Socket the page did not close is connected again and again, until the
\* reconnection attempts are used up or the page was hasty.
Reconnects ==
  \A n \in Nsp :
    m.sock[n].subs ~> m.sock[n].connected \/ ~ m.sock[n].subs \/ m.gaveUp \/ m.hasty
=============================================================================
