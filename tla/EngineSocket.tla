------------------------------ MODULE EngineSocket ------------------------------
(***************************************************************************)
(* The connection under the dashboard page: the Socket of engine.io-client *)
(* in socket.io.js, with its Polling (XHR, JSONP) and WebSocket transports.*)
(* It opens by a poll, probes a WebSocket, pauses the polling and moves    *)
(* over, and keeps itself alive by pings.                                  *)
(*                                                                         *)
(* JavaScript runs one callback at a time, so each handler is an operator  *)
(* from the state of the client to its next state, a nested call is an     *)
(* application, and an action is one callback of the browser.  Only a      *)
(* payload of several packets is read in several steps, during which no    *)
(* other callback runs but the page's own, called from a packet's handler. *)
(*                                                                         *)
(* The browser's requests, the network and the server are external.        *)
(***************************************************************************)
EXTENDS Naturals, Sequences, FiniteSets

CONSTANTS
  MaxSent,     \* bound: messages the page writes
  MaxServed,   \* bound: messages the server sends
  MaxPings,    \* bound: pings
  Transports,  \* the transports open() may begin with
  Faults       \* "net", "server", "garbage"

ASSUME BoundsAssumption == MaxSent \in Nat /\ MaxServed \in Nat /\ MaxPings \in Nat
ASSUME TransportsAssumption == Transports \subseteq {"polling", "jsonp", "websocket"}
ASSUME FaultsAssumption == Faults \subseteq {"net", "server", "garbage"}

VARIABLES
  c,    \* the client, see TypeOK
  srv   \* the server's half of the session

vars == <<c, srv>>

\* A packet; n tells one message from another.
Packet(type) == [type |-> type, n |-> 0]
Message(n) == [type |-> "message", n |-> n]

UpPacket == [type : {"message"}, n : 1 .. MaxSent]
            \cup [type : {"ping", "probe", "upgrade"}, n : {0}]
DownPacket == [type : {"message"}, n : 1 .. MaxServed]
              \cup [type : {"open", "pong", "noop", "probe", "close", "error"}, n : {0}]

Polling == [state : {"", "opening", "open", "pausing", "paused", "closed"},
            polling : BOOLEAN,     \* a poll is under way
            writable : BOOLEAN,
            waits : SUBSET {"pollComplete", "drain"},  \* pause()'s once-listeners
            deferred : BOOLEAN,    \* doClose()'s once('open') was set
            heard : BOOLEAN]       \* the Socket listens to it
WS == [state : {"", "opening", "open", "closed"}, writable : BOOLEAN,
       drains : Nat]               \* "fake drain" timeouts under way

Request == {"idle", "asked", "answered", "failed"}

Client ==
  [jsonp : BOOLEAN,                \* an old browser: JSONP polling and no WebSocket
   ready : {"opening", "open", "closing", "closed"},
   transport : {"polling", "websocket"},
   writeBuffer : Seq(UpPacket), prevBufferLen : Nat,
   upgrading : BOOLEAN,
   probe : {"none", "opening", "pinged", "ponged", "over"},
   closing : {"nothing", "drain", "upgrade"},  \* what close() waits for
   pingInterval : BOOLEAN, pingTimeout : BOOLEAN, beating : BOOLEAN,
   poll : Polling, ws : WS,
   reading : BOOLEAN, payload : Seq(DownPacket),  \* in Polling.onData
   get : Request, answer : Seq(DownPacket), post : Request, posted : Seq(UpPacket),
   bye : BOOLEAN,                  \* the close packet is being posted
   link : {"none", "connecting", "accepted", "up", "down", "closed"},
   up : Seq(UpPacket), down : Seq(DownPacket),
   sent : Seq(UpPacket), got : Seq(1 .. MaxServed),     \* history
   opened : BOOLEAN, owed : Nat, threw : BOOLEAN, failed : BOOLEAN]

Server ==
  [state : {"none", "open", "gone"}, on : {"polling", "websocket"},
   probed : BOOLEAN, out : Seq(DownPacket), received : Seq(UpPacket), served : Nat]

\* onDrain() takes off the buffer no more than is in it.
TypeOK == c \in Client /\ srv \in Server /\ c.prevBufferLen <= Len(c.writeBuffer)

-----------------------------------------------------------------------------
(* Transports.                                                             *)

\* A Request is created and sent; an exception is an error on a later tick.
Create(s, request) == [s EXCEPT ![request] = "asked"]

\* onSuccess(), onError(), cleanup() of a Request.
CleanUp(s, request) == [s EXCEPT ![request] = "idle"]

\* Polling.write(): one POST carries all packets.
PollWrite(s, ps) ==
  [Create(s, "post") EXCEPT !.poll.writable = FALSE, !.posted = ps]

\* doWrite() of XHR and of JSONP, whose iframe loads whether or not the POST arrived.
PostSucceeds(s) == s.post = "answered" \/ (s.jsonp /\ s.post = "failed")

WsWrite_Backwards(s, ps) ==   \* slip: the loop over the packets counts down
  [s EXCEPT !.ws.writable = FALSE, !.ws.drains = @ + 1,
            !.up = IF s.link = "up" THEN @ \o [i \in DOMAIN ps |-> ps[Len(ps) + 1 - i]] ELSE @]

\* WS.write(): the browser takes every packet at once, or drops it when the
\* connection is gone already; the drain event comes on a later tick.
WsWrite(s, ps) ==
  [s EXCEPT !.ws.writable = FALSE, !.ws.drains = @ + 1,
            !.up = IF s.link = "up" THEN @ \o ps ELSE @]

\* Transport.send() of the current transport.
Send(s, ps) ==
  IF s.transport = "polling"
  THEN IF s.poll.state = "open" THEN PollWrite(s, ps) ELSE [s EXCEPT !.threw = TRUE]
  ELSE IF s.ws.state = "open" THEN WsWrite(s, ps) ELSE [s EXCEPT !.threw = TRUE]

\* Polling.poll(), doPoll().
Poll(s) == [Create(s, "get") EXCEPT !.poll.polling = TRUE]

\* WS.doOpen(): without a WebSocket nothing happens ("let probe timeout").
WsOpen(s) ==
  [s EXCEPT !.ws.state = "opening", !.link = IF s.jsonp THEN @ ELSE "connecting"]

\* Transport.close() of the polling transport, with Polling.doClose().
PollClose(s) ==
  CASE s.poll.state = "open" ->
         [s EXCEPT !.poll.state = "closed", !.poll.writable = FALSE, !.bye = TRUE]
    [] s.poll.state = "opening" ->
         [s EXCEPT !.poll.state = "closed", !.poll.deferred = TRUE]
    [] OTHER -> s

\* Transport.close() of the WebSocket, with WS.doClose().
WsClose(s) ==
  IF s.ws.state \in {"opening", "open"}
  THEN [s EXCEPT !.ws.state = "closed", !.link = IF @ = "down" THEN @ ELSE "closed"]
  ELSE s

CloseTransport(s) == IF s.transport = "polling" THEN PollClose(s) ELSE WsClose(s)

-----------------------------------------------------------------------------
(* Socket: writing and closing.                                            *)

Writable(s) == IF s.transport = "polling" THEN s.poll.writable ELSE s.ws.writable

Flush_Always(s) ==   \* slip: flushes while a transport is being paused
  IF s.ready # "closed" /\ Writable(s) /\ s.writeBuffer # <<>>
  THEN [Send(s, s.writeBuffer) EXCEPT !.prevBufferLen = Len(s.writeBuffer)]
  ELSE s

Flush(s) ==
  IF s.ready # "closed" /\ Writable(s) /\ ~ s.upgrading /\ s.writeBuffer # <<>>
  THEN [Send(s, s.writeBuffer) EXCEPT !.prevBufferLen = Len(s.writeBuffer)]
  ELSE s

\* sendPacket()
SendPacket(s, p) ==
  IF s.ready \in {"closing", "closed"} THEN s
  ELSE Flush([s EXCEPT !.writeBuffer = Append(@, p), !.sent = Append(@, p)])

\* freezeTransport() in probe(): upgrading is left as it is.
Freeze(s) == [WsClose(s) EXCEPT !.probe = "over"]

Probing(s) == s.probe \in {"opening", "pinged", "ponged"}

OnClose_KeepTimers(s) ==   \* slip: the ping timers are not cleared
  IF s.ready = "closed" THEN s
  ELSE LET shut == CloseTransport(s)
           told == [shut EXCEPT !.ready = "closed",
                      !.poll.heard = FALSE, !.poll.waits = {}]
       IN [(IF Probing(told) THEN Freeze(told) ELSE told)
             EXCEPT !.writeBuffer = <<>>, !.prevBufferLen = 0]

\* onClose(): the transport is silenced and closed, the timers are cleared, the
\* close event ends a probe, and what was not written is dropped.
OnClose(s) ==
  IF s.ready = "closed" THEN s
  ELSE LET shut == CloseTransport(s)
           told == [shut EXCEPT !.ready = "closed",
                      !.pingInterval = FALSE, !.pingTimeout = FALSE,
                      !.poll.heard = FALSE, !.poll.waits = {}]
       IN [(IF Probing(told) THEN Freeze(told) ELSE told)
             EXCEPT !.writeBuffer = <<>>, !.prevBufferLen = 0]

\* close() inside close(): "forced close".
ForcedClose(s) == CloseTransport(OnClose([s EXCEPT !.closing = "nothing"]))

\* How much was written before the first close(), for GracefulClose.
Owed(s) == IF s.owed = 0 THEN Len(s.sent) ELSE s.owed

Close_AtOnce(s) ==   \* slip: does not wait for the write buffer
  IF s.ready \notin {"opening", "open"} THEN s
  ELSE LET t == [s EXCEPT !.ready = "closing", !.owed = Owed(s)] IN
       CASE t.upgrading -> [t EXCEPT !.closing = "upgrade"]
         [] OTHER -> ForcedClose(t)

\* close(): after the write buffer has drained and an upgrade is over.
Close(s) ==
  IF s.ready \notin {"opening", "open"} THEN s
  ELSE LET t == [s EXCEPT !.ready = "closing", !.owed = Owed(s)] IN
       CASE t.writeBuffer # <<>> -> [t EXCEPT !.closing = "drain"]
         [] t.writeBuffer = <<>> /\ t.upgrading -> [t EXCEPT !.closing = "upgrade"]
         [] OTHER -> ForcedClose(t)

OnDrain_Keeps(s) ==   \* slip: prevBufferLen is not reset
  LET t == [s EXCEPT !.writeBuffer = SubSeq(@, s.prevBufferLen + 1, Len(@))] IN
  CASE t.writeBuffer # <<>> -> Flush(t)
    [] t.writeBuffer = <<>> /\ t.closing = "drain" /\ t.upgrading ->
         [t EXCEPT !.closing = "upgrade"]
    [] t.writeBuffer = <<>> /\ t.closing = "drain" /\ ~ t.upgrading -> ForcedClose(t)
    [] OTHER -> t

\* onDrain(), with close()'s once('drain').
OnDrain(s) ==
  LET t == [s EXCEPT !.writeBuffer = SubSeq(@, s.prevBufferLen + 1, Len(@)),
                     !.prevBufferLen = 0] IN
  CASE t.writeBuffer # <<>> -> Flush(t)
    [] t.writeBuffer = <<>> /\ t.closing = "drain" /\ t.upgrading ->
         [t EXCEPT !.closing = "upgrade"]
    [] t.writeBuffer = <<>> /\ t.closing = "drain" /\ ~ t.upgrading -> ForcedClose(t)
    [] OTHER -> t

-----------------------------------------------------------------------------
(* Socket: the upgrade.                                                    *)

\* probe(): a second transport is created and opened.
Probe(s) == [WsOpen(s) EXCEPT !.probe = "opening"]

\* onerror() in probe(); upgradeError also ends the wait of close().
ProbeError(s) ==
  LET t == Freeze(s) IN IF t.closing = "upgrade" THEN ForcedClose(t) ELSE t

\* setTransport() of the probed transport: the other one loses its listeners.
SetTransport(s) ==
  [s EXCEPT !.transport = "websocket", !.poll.heard = FALSE, !.poll.waits = {}]

\* The callback that probe() gives to pause(): the polling transport is paused.
Upgrade(s) ==
  IF s.probe # "ponged" \/ s.ready = "closed" THEN s
  ELSE LET over == Send(SetTransport([s EXCEPT !.probe = "over"]), <<Packet("upgrade")>>)
           told == IF over.closing = "upgrade" THEN ForcedClose(over) ELSE over
       IN Flush([told EXCEPT !.upgrading = FALSE])

\* pollComplete or drain reaches pause()'s listener.
WaitOver(s, event) ==
  LET t == [s EXCEPT !.poll.waits = @ \ {event}] IN
  IF event \in s.poll.waits /\ t.poll.waits = {}
  THEN Upgrade([t EXCEPT !.poll.state = "paused"])
  ELSE t

Pause_PollOnly(s) ==   \* slip: does not wait for the POST under way
  LET waits == IF s.poll.polling THEN {"pollComplete"} ELSE {} IN
  IF waits = {} THEN Upgrade([s EXCEPT !.poll.state = "paused"])
  ELSE [s EXCEPT !.poll.state = "pausing", !.poll.waits = waits]

\* Polling.pause()
Pause(s) ==
  LET waits == (IF s.poll.polling THEN {"pollComplete"} ELSE {})
                 \cup (IF s.poll.writable THEN {} ELSE {"drain"}) IN
  IF waits = {} THEN Upgrade([s EXCEPT !.poll.state = "paused"])
  ELSE [s EXCEPT !.poll.state = "pausing", !.poll.waits = waits]

-----------------------------------------------------------------------------
(* Socket: packets.                                                        *)

Page == {"nothing", "write", "close"}

\* What the page does in a handler: write the next message, or close.
NextMessage(s) ==
  1 + Cardinality({i \in DOMAIN s.sent : s.sent[i].type = "message"})
Does(s, act) ==
  CASE act = "write" /\ NextMessage(s) <= MaxSent -> SendPacket(s, Message(NextMessage(s)))
    [] act = "close" -> Close(s)
    [] OTHER -> s

\* onOpen(), also of a closing Socket: act is what the page does in its open handler.
OnOpen(s, act) ==
  LET opened == Flush(Does([s EXCEPT !.ready = "open", !.opened = TRUE], act)) IN
  IF opened.ready = "open" /\ opened.transport = "polling" THEN Probe(opened) ELSE opened

OnHandshake_NoPing(s, act) == OnOpen(s, act)   \* slip: setPing() is not called

\* onHandshake()
OnHandshake(s, act) ==
  LET opened == OnOpen(s, act) IN
  IF opened.ready = "closed" THEN opened
  ELSE [opened EXCEPT !.pingInterval = TRUE, !.beating = TRUE]

OnPacket_NoPing(s, p, act) ==   \* slip: a pong does not start the next interval
  IF s.ready = "closed" THEN s
  ELSE LET t == [s EXCEPT !.pingTimeout = IF s.beating THEN p.type # "pong" ELSE @] IN
       CASE p.type = "open" -> OnHandshake(t, act)
         [] p.type = "error" -> OnClose(t)
         [] p.type = "message" -> [t EXCEPT !.got = Append(@, p.n)]
         [] OTHER -> t

\* onPacket(): every packet is a heartbeat once the handshake is over.
OnPacket(s, p, act) ==
  IF s.ready = "closed" THEN s
  ELSE LET t == [s EXCEPT !.pingTimeout = @ \/ s.beating] IN
       CASE p.type = "open" -> OnHandshake(t, act)
         [] p.type = "pong" -> [t EXCEPT !.pingInterval = TRUE]
         [] p.type = "error" -> OnClose(t)
         [] p.type = "message" -> [t EXCEPT !.got = Append(@, p.n)]
         [] OTHER -> t

Idle ==
  [jsonp |-> FALSE, ready |-> "opening", transport |-> "polling", writeBuffer |-> <<>>, prevBufferLen |-> 0,
   upgrading |-> FALSE, probe |-> "none", closing |-> "nothing",
   pingInterval |-> FALSE, pingTimeout |-> FALSE, beating |-> FALSE,
   poll |-> [state |-> "", polling |-> FALSE, writable |-> FALSE, waits |-> {},
             deferred |-> FALSE, heard |-> FALSE],
   ws |-> [state |-> "", writable |-> FALSE, drains |-> 0],
   reading |-> FALSE, payload |-> <<>>, get |-> "idle", answer |-> <<>>,
   post |-> "idle", posted |-> <<>>, bye |-> FALSE, link |-> "none",
   up |-> <<>>, down |-> <<>>, sent |-> <<>>, got |-> <<>>,
   opened |-> FALSE, owed |-> 0, threw |-> FALSE, failed |-> FALSE]

\* polling(): by XHR, or by JSONP where the browser has none for the server.
polling(jsonp) ==
  Poll([Idle EXCEPT !.jsonp = jsonp, !.poll.state = "opening", !.poll.heard = TRUE])

\* The constructor, open(), createTransport(): the first transport is opened.
Open(transport) ==
  IF transport = "websocket" THEN WsOpen([Idle EXCEPT !.transport = "websocket"])
  ELSE polling(transport = "jsonp")

Init ==
  /\ \E transport \in Transports : c = Open(transport)
  /\ srv = [state |-> "none", on |-> "polling", probed |-> FALSE,
            out |-> <<>>, received |-> <<>>, served |-> 0]

-----------------------------------------------------------------------------
(* The page, and the timers.                                               *)

\* write(), from an event or from the handler of a message being read.
PageWrites ==
  /\ c.ready \in {"opening", "open"} /\ NextMessage(c) <= MaxSent
  /\ c' = SendPacket(c, Message(NextMessage(c)))
  /\ UNCHANGED srv

PageCloses ==
  /\ c.ready \in {"opening", "open"}
  /\ c' = Close(c)
  /\ UNCHANGED srv

Pings == Cardinality({i \in DOMAIN c.sent : c.sent[i].type = "ping"})

\* The interval of setPing(): ping(), onHeartbeat().
PingInterval ==
  /\ c.pingInterval /\ ~ c.reading /\ (Pings < MaxPings \/ c.ready = "closing")
  /\ c' = [SendPacket(c, Packet("ping")) EXCEPT !.pingInterval = FALSE, !.pingTimeout = TRUE]
  /\ UNCHANGED srv

\* The timer of onHeartbeat().
PingTimeout ==
  /\ c.pingTimeout /\ ~ c.reading
  /\ c' = OnClose([c EXCEPT !.pingTimeout = FALSE, !.failed = TRUE])
  /\ UNCHANGED srv

-----------------------------------------------------------------------------
(* Requests, Polling.onData().                                             *)

\* Request.onLoad() of the poll: its packets are read one by one.
TakeAnswer ==
  /\ c.get = "answered" /\ ~ c.reading
  /\ c' = [CleanUp(c, "get") EXCEPT !.answer = <<>>, !.reading = TRUE, !.payload = c.answer]
  /\ UNCHANGED srv

\* The callback of decodePayload().
NextPacket(act) ==
  /\ c.reading /\ c.payload # <<>>
  /\ LET p == Head(c.payload)
         open == IF c.poll.state = "opening"
                 THEN [c EXCEPT !.poll.state = "open", !.poll.writable = TRUE] ELSE c
         t == [open EXCEPT !.payload = Tail(@)]
     IN c' = CASE p.type = "close" /\ t.poll.heard ->
                    OnClose([t EXCEPT !.poll.state = "closed", !.payload = <<>>])
               [] p.type = "close" /\ ~ t.poll.heard ->
                    [t EXCEPT !.poll.state = "closed", !.payload = <<>>]
               [] p.type # "close" /\ t.poll.heard -> OnPacket(t, p, act)
               [] OTHER -> t
  /\ UNCHANGED srv

\* The rest of onData(): polls again unless paused, pausing or closed.
EndOfPayload ==
  /\ c.reading /\ c.payload = <<>>
  /\ LET t == [c EXCEPT !.reading = FALSE]
         over == WaitOver([t EXCEPT !.poll.polling = FALSE], "pollComplete")
     IN c' = CASE t.poll.state = "closed" -> t
               [] t.poll.state # "closed" /\ over.poll.state = "open" -> Poll(over)
               [] OTHER -> over
  /\ UNCHANGED srv

\* onError() of a transport the Socket listens to.
TransportError(s) == IF s.poll.heard THEN OnClose(s) ELSE s

PollFails ==
  /\ c.get = "failed" /\ ~ c.reading
  /\ c' = CleanUp(TransportError(c), "get")
  /\ UNCHANGED srv

PostFails ==
  /\ c.post = "failed" /\ ~ c.jsonp /\ ~ c.reading
  /\ c' = CleanUp(TransportError(c), "post")
  /\ UNCHANGED srv

\* Polling.write()'s callback: drain reaches the Socket, then pause().
PostDone ==
  /\ PostSucceeds(c) /\ ~ c.reading
  /\ LET t == [CleanUp(c, "post") EXCEPT !.poll.writable = TRUE] IN
     c' = WaitOver(IF t.poll.heard THEN OnDrain(t) ELSE t, "drain")
  /\ UNCHANGED srv

-----------------------------------------------------------------------------
(* WebSocket events.                                                       *)

\* onopen, and onTransportOpen() of the probe.
WsOpens ==
  /\ c.link = "accepted" /\ ~ c.reading
  /\ LET t == [c EXCEPT !.link = "up", !.ws.state = "open", !.ws.writable = TRUE] IN
     c' = IF t.probe = "opening"
          THEN [WsWrite(t, <<Packet("probe")>>) EXCEPT !.probe = "pinged"] ELSE t
  /\ UNCHANGED srv

\* onmessage: the answer to the probe, or a packet for the Socket.
WsMessage(act) ==
  /\ c.down # <<>> /\ c.link = "up" /\ ~ c.reading
  /\ LET p == Head(c.down)
         t == [c EXCEPT !.down = Tail(@)]
     IN c' = CASE t.transport = "websocket" -> OnPacket(t, p, act)
               [] t.transport # "websocket" /\ t.probe = "pinged" /\ p.type = "probe" ->
                    Pause([t EXCEPT !.upgrading = TRUE, !.probe = "ponged"])
               [] OTHER -> t
  /\ UNCHANGED srv

\* The "fake drain" of WS.write().
WsDrained ==
  /\ c.ws.drains > 0 /\ ~ c.reading
  /\ LET t == [c EXCEPT !.ws.drains = @ - 1, !.ws.writable = TRUE] IN
     c' = IF t.transport = "websocket" /\ t.ready # "closed" THEN OnDrain(t) ELSE t
  /\ UNCHANGED srv

\* onerror, onclose.
WsLost ==
  /\ c.link = "down" /\ c.ws.state # "closed" /\ ~ c.reading
  /\ LET t == [c EXCEPT !.ws.state = "closed"] IN
     c' = CASE t.transport = "websocket" -> OnClose(t)
            [] t.transport # "websocket" /\ Probing(t) -> ProbeError(t)
            [] OTHER -> t
  /\ UNCHANGED srv

-----------------------------------------------------------------------------
(* External: the server and the network.  What they do after the Socket is *)
(* closed is left out, but for taking in what was under way.               *)

\* Messages and pings; a ping is answered by a pong.
Take(packets) ==
  LET pings == Cardinality({i \in DOMAIN packets : packets[i].type = "ping"})
  IN [srv EXCEPT !.received = @ \o packets, !.out = @ \o [i \in 1 .. pings |-> Packet("pong")]]

Accept ==
  /\ srv.state = "none"
  /\ \/ c.get = "asked" /\ UNCHANGED c
     \/ /\ c.transport = "websocket" /\ c.link = "connecting"
        /\ c' = [c EXCEPT !.link = "accepted"]
  /\ srv' = [srv EXCEPT !.state = "open", !.on = c.transport, !.out = <<Packet("open")>>]

AcceptProbe ==
  /\ srv.state = "open" /\ srv.on = "polling" /\ c.link = "connecting"
  /\ c' = [c EXCEPT !.link = "accepted"]
  /\ UNCHANGED srv

Serve ==
  /\ srv.state = "open" /\ srv.served < MaxServed /\ c.ready # "closed"
  /\ srv' = [srv EXCEPT !.served = @ + 1, !.out = Append(@, Message(srv.served + 1))]
  /\ UNCHANGED c

\* A poll that a probing client is waiting for is answered by a noop.
Answer ==
  /\ srv.state = "open" /\ c.get = "asked" /\ (srv.out # <<>> \/ srv.probed)
  /\ c' = [c EXCEPT !.get = "answered",
                    !.answer = IF srv.out = <<>> THEN <<Packet("noop")>> ELSE srv.out]
  /\ srv' = [srv EXCEPT !.out = <<>>]

ReadPost ==
  /\ srv.state = "open" /\ c.post = "asked"
  /\ c' = [c EXCEPT !.post = "answered", !.posted = <<>>]
  /\ srv' = Take(c.posted)

ReadBye ==
  /\ srv.state = "open" /\ c.bye
  /\ c' = [c EXCEPT !.bye = FALSE]
  /\ srv' = [srv EXCEPT !.state = "gone"]

ReadWs ==
  /\ srv.state = "open" /\ c.up # <<>> /\ c.link \in {"up", "closed"}
  /\ LET p == Head(c.up) IN
     /\ c' = [c EXCEPT !.up = Tail(@),
                       !.down = IF p.type = "probe" THEN Append(@, p) ELSE @]
     /\ srv' = CASE p.type = "probe" -> [srv EXCEPT !.probed = TRUE]
                 [] p.type = "upgrade" -> [srv EXCEPT !.on = "websocket", !.probed = FALSE]
                 [] OTHER -> Take(<<p>>)

PushWs ==
  /\ srv.state = "open" /\ srv.on = "websocket" /\ srv.out # <<>> /\ c.link = "up"
  /\ c' = [c EXCEPT !.down = @ \o srv.out]
  /\ srv' = [srv EXCEPT !.out = <<>>]

SeesWsClosed ==
  /\ srv.state = "open" /\ (srv.on = "websocket" \/ srv.probed)
  /\ c.up = <<>> /\ c.link \in {"closed", "down"}
  /\ srv' = [srv EXCEPT !.probed = FALSE,
                        !.state = IF srv.on = "websocket" THEN "gone" ELSE @]
  /\ UNCHANGED c

\* Bound: one failure, which the connection seldom outlives.
Sound == ~ c.failed /\ c.ready # "closed"

\* The session ends: by a close packet, by a closed link, or unsaid.
ServerEnds ==
  /\ "server" \in Faults /\ srv.state = "open" /\ Sound
  /\ srv' = [srv EXCEPT !.state = "gone"]
  /\ \/ c' = [c EXCEPT !.failed = TRUE]
     \/ /\ c.get = "asked"
        /\ c' = [c EXCEPT !.failed = TRUE, !.get = "answered",
                          !.answer = Append(srv.out, Packet("close"))]

\* Requests of a session that is gone are refused.
Refuse ==
  /\ srv.state = "gone"
  /\ \/ c.get = "asked" /\ c' = [c EXCEPT !.get = "failed"]
     \/ c.post = "asked" /\ c' = [c EXCEPT !.post = "failed", !.posted = <<>>]
     \/ c.bye /\ c' = [c EXCEPT !.bye = FALSE]
     \/ /\ c.link \in {"connecting", "accepted", "up", "closed"} /\ c.down = <<>>
        /\ c' = [c EXCEPT !.link = "down", !.up = <<>>]
  /\ UNCHANGED srv

NetworkFails ==
  /\ "net" \in Faults /\ Sound
  /\ \/ /\ c.get \in {"asked", "answered"}
        /\ c' = [c EXCEPT !.get = "failed", !.answer = <<>>, !.failed = TRUE]
     \/ /\ c.post \in {"asked", "answered"}
        /\ c' = [c EXCEPT !.post = "failed", !.posted = <<>>, !.failed = TRUE]
     \/ c.bye /\ c' = [c EXCEPT !.bye = FALSE, !.failed = TRUE]
     \/ /\ c.link \in {"connecting", "accepted", "up", "closed"}
        /\ c' = [c EXCEPT !.link = "down", !.up = <<>>, !.down = <<>>, !.failed = TRUE]
  /\ UNCHANGED srv

\* An answer that the parser makes an error packet of.
Garbage ==
  /\ "garbage" \in Faults /\ Sound /\ c.get = "answered"
  /\ c' = [c EXCEPT !.answer = <<Packet("error")>>, !.failed = TRUE]
  /\ UNCHANGED srv

-----------------------------------------------------------------------------
Reads == TakeAnswer \/ (\E act \in Page : NextPacket(act)) \/ EndOfPayload

Events ==
  \/ PollFails \/ PostFails \/ PostDone \/ WsOpens \/ WsDrained \/ WsLost
  \/ (\E act \in Page : WsMessage(act)) \/ PingInterval

Serves == Accept \/ AcceptProbe \/ ReadPost \/ ReadBye \/ ReadWs \/ PushWs
          \/ SeesWsClosed \/ Refuse

Next == \/ Reads \/ Events \/ PingTimeout \/ Answer \/ Serves
        \/ PageWrites \/ PageCloses \/ Serve \/ ServerEnds \/ NetworkFails \/ Garbage

\* Nothing is on its way to the Socket, and nothing will be: the ping timeout is
\* only sure to come when no packet does.
Silence == ~ ENABLED (Reads \/ Events \/ Answer \/ Serves)

\* The browser's queue of events is fair: an event is not overtaken for ever by
\* the polls, whose answers keep the loop busy while a probe is under way.
Fairness ==
  /\ WF_vars(Reads) /\ SF_vars(Events) /\ WF_vars(Answer) /\ WF_vars(Serves)
  /\ WF_vars(PingTimeout /\ Silence)

Spec == Init /\ [][Next]_vars /\ Fairness

-----------------------------------------------------------------------------
(* Properties.                                                             *)

\* No packets are given to a transport that is not open (send() throws
\* "Transport not open"), whenever the page writes during an upgrade.
NeverThrows == ~ c.threw

\* After the handshake one of the ping timers is always armed, so that a dead
\* connection is noticed; a closed Socket has none.
Guarded ==
  /\ c.beating /\ c.ready # "closed" => c.pingInterval \/ c.pingTimeout
  /\ c.ready = "closed" => ~ c.pingInterval /\ ~ c.pingTimeout

\* close() loses nothing written before it: unless something failed, the server
\* has it, also when the close fell into an upgrade or before the handshake.
\* (onOpen() makes a closing Socket open again; what is written then may go.)
GracefulClose ==
  c.ready = "closed" /\ ~ c.failed /\ c.up = <<>> => Len(srv.received) >= c.owed

Connection == INSTANCE Wire WITH
  state <- CASE c.ready = "closed" -> "over"
             [] c.ready # "closed" /\ c.opened -> "open"
             [] OTHER -> "opening",
  sent <- c.sent, received <- srv.received,
  served <- [i \in 1 .. srv.served |-> i], got <- c.got, whole <- ~ c.jsonp

\* Over both transports and the change between them, the Socket is a connection:
\* in order, without duplicate, silent after the end, and without a gap but where
\* JSONP does not notice a POST that is lost.
IsConnection == Connection!Spec

\* An upgrade that began ends, or the Socket does.
UpgradeEnds == c.upgrading ~> ~ c.upgrading \/ c.ready = "closed"

\* The end of the session at the server is noticed.
EndNoticed == srv.state = "gone" ~> c.ready = "closed"
=============================================================================
