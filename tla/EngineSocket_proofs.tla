--------------------------- MODULE EngineSocket_proofs ---------------------------
(***************************************************************************)
(* Theorems about EngineSocket, for any number of messages and pings, any  *)
(* first transport and any faults: its types, that nothing is written to a *)
(* transport that is not open, that the timers guard the Socket, that a    *)
(* close loses nothing that was owed, and that the Socket is the           *)
(* connection of Wire.                                                     *)
(*                                                                         *)
(* A handler is a composition of operators from one state of the client to *)
(* the next, so a proof has one lemma for each operator: what it does to   *)
(* the timers (Armed), and to the fields that decide who may write         *)
(* (SafeInv).                                                              *)
(*                                                                         *)
(* From the Socket to the server, the inductive invariant is FlowInv: what *)
(* the server has received and what is on the wire is what the Socket has  *)
(* given to its transport (Flow), the buffer holds the rest of what was    *)
(* sent (Words), and the modes of the Socket say who is to write next      *)
(* (Mode, Awaits, Ready, Fine).  That a closed Socket has written all that *)
(* it owed (Ended, GracefulClose) follows.                                 *)
(*                                                                         *)
(* From the server to the Socket, it is Down: the messages that were       *)
(* handed out, those on their way and those at the server are numbered one *)
(* after the other, in this order (Numbered, Followed), for the Socket has *)
(* at most one poll and never one beside the WebSocket (Polls).            *)
(*                                                                         *)
(* Both together, and what no callback of the browser (Moves, InStep) and  *)
(* no step of the outside (Outside) ever does, make the Socket the         *)
(* connection of Wire (SocketIsConnection).                                *)
(***************************************************************************)
EXTENDS EngineSocket, FiniteSetTheorems, SequenceTheorems, TLAPS

HasTimers(s) == {"ready", "pingInterval", "pingTimeout", "beating"} \subseteq DOMAIN s

SameTimers(s, t) ==
  /\ DOMAIN t = DOMAIN s
  /\ t.ready = s.ready /\ t.beating = s.beating
  /\ t.pingInterval = s.pingInterval /\ t.pingTimeout = s.pingTimeout

\* Guarded, of a state between two calls.
Armed(s) ==
  /\ HasTimers(s)
  /\ s.beating /\ s.ready # "closed" => s.pingInterval \/ s.pingTimeout
  /\ s.ready = "closed" => ~ s.pingInterval /\ ~ s.pingTimeout

LEMMA SameArmed ==
  ASSUME NEW s, NEW t, Armed(s), SameTimers(s, t)
  PROVE  Armed(t)
BY DEF Armed, SameTimers, HasTimers

-----------------------------------------------------------------------------
(* What leaves the timers alone.                                           *)

LEMMA RequestKeeps ==
  ASSUME NEW s, NEW r \in {"get", "post"}, HasTimers(s)
  PROVE  SameTimers(s, Create(s, r)) /\ SameTimers(s, CleanUp(s, r))
BY DEF HasTimers, SameTimers, Create, CleanUp

LEMMA SendKeeps ==
  ASSUME NEW s, NEW ps, HasTimers(s)
  PROVE  SameTimers(s, Send(s, ps)) /\ SameTimers(s, WsWrite(s, ps))
<1>1. SameTimers(s, PollWrite(s, ps))
  BY DEF HasTimers, SameTimers, PollWrite, Create
<1>2. SameTimers(s, WsWrite(s, ps))
  BY DEF HasTimers, SameTimers, WsWrite
<1>3. SameTimers(s, [s EXCEPT !.threw = TRUE])
  BY DEF HasTimers, SameTimers
<1> QED BY <1>1, <1>2, <1>3 DEF Send

LEMMA PollKeeps ==
  ASSUME NEW s, HasTimers(s)
  PROVE  SameTimers(s, Poll(s))
BY DEF HasTimers, SameTimers, Poll, Create

LEMMA CloseKeeps ==
  ASSUME NEW s, HasTimers(s)
  PROVE  /\ SameTimers(s, PollClose(s)) /\ SameTimers(s, WsClose(s))
         /\ SameTimers(s, CloseTransport(s)) /\ SameTimers(s, Freeze(s))
<1>1. SameTimers(s, PollClose(s))
  <2>1. CASE s.poll.state = "open"
    BY <2>1 DEF HasTimers, SameTimers, PollClose
  <2>2. CASE s.poll.state = "opening"
    BY <2>2 DEF HasTimers, SameTimers, PollClose
  <2>3. CASE s.poll.state \notin {"open", "opening"}
    BY <2>3 DEF HasTimers, SameTimers, PollClose
  <2> QED BY <2>1, <2>2, <2>3
<1>2. SameTimers(s, WsClose(s))
  BY DEF HasTimers, SameTimers, WsClose
<1>3. SameTimers(s, Freeze(s))
  BY <1>2 DEF HasTimers, SameTimers, Freeze
<1> QED BY <1>1, <1>2, <1>3 DEF CloseTransport

LEMMA FlushKeeps ==
  ASSUME NEW s, HasTimers(s)
  PROVE  SameTimers(s, Flush(s))
<1>1. SameTimers(s, Send(s, s.writeBuffer))
  BY SendKeeps
<1>2. SameTimers(s, [Send(s, s.writeBuffer) EXCEPT !.prevBufferLen = Len(s.writeBuffer)])
  BY <1>1 DEF HasTimers, SameTimers
<1> QED BY <1>2 DEF Flush, SameTimers

LEMMA PacketKeeps ==
  ASSUME NEW s, NEW p, HasTimers(s)
  PROVE  SameTimers(s, SendPacket(s, p))
<1> DEFINE t == [s EXCEPT !.writeBuffer = Append(@, p), !.sent = Append(@, p)]
<1>1. SameTimers(s, t) /\ HasTimers(t)
  BY DEF HasTimers, SameTimers
<1>2. SameTimers(t, Flush(t))
  BY <1>1, FlushKeeps
<1> QED BY <1>1, <1>2 DEF SendPacket, SameTimers

-----------------------------------------------------------------------------
(* Closing.                                                                *)

\* onClose() of a Socket that is not closed leaves no timer, whatever was armed.
LEMMA OnCloseDisarms ==
  ASSUME NEW s, HasTimers(s), s.ready # "closed"
  PROVE  Armed(OnClose(s)) /\ OnClose(s).ready = "closed"
<1> DEFINE shut == CloseTransport(s)
           told == [shut EXCEPT !.ready = "closed", !.pingInterval = FALSE,
                      !.pingTimeout = FALSE, !.poll.heard = FALSE, !.poll.waits = {}]
           over == IF Probing(told) THEN Freeze(told) ELSE told
<1>1. HasTimers(shut)
  BY CloseKeeps DEF SameTimers, HasTimers
<1>2. /\ HasTimers(told) /\ told.ready = "closed"
      /\ told.pingInterval = FALSE /\ told.pingTimeout = FALSE
  BY <1>1 DEF HasTimers
<1> HIDE DEF told
<1>3. SameTimers(told, over)
  BY <1>2, CloseKeeps DEF SameTimers
<1> HIDE DEF over
<1>4. HasTimers(over) /\ over.ready = "closed"
      /\ over.pingInterval = FALSE /\ over.pingTimeout = FALSE
  BY <1>2, <1>3 DEF SameTimers, HasTimers
<1>5. OnClose(s) = [over EXCEPT !.writeBuffer = <<>>, !.prevBufferLen = 0]
  BY DEF OnClose, over, told
<1> QED BY <1>4, <1>5 DEF Armed, HasTimers

LEMMA OnCloseArmed ==
  ASSUME NEW s, Armed(s)
  PROVE  Armed(OnClose(s))
BY OnCloseDisarms DEF OnClose, Armed

LEMMA ForcedCloseArmed ==
  ASSUME NEW s, Armed(s)
  PROVE  Armed(ForcedClose(s))
<1> DEFINE t == [s EXCEPT !.closing = "nothing"]
<1>1. Armed(t)
  BY DEF Armed, HasTimers
<1>2. Armed(OnClose(t))
  BY <1>1, OnCloseArmed
<1> QED BY <1>2, CloseKeeps, SameArmed DEF ForcedClose, Armed

LEMMA CloseArmed ==
  ASSUME NEW s, Armed(s)
  PROVE  Armed(Close(s))
<1>1. CASE s.ready \notin {"opening", "open"}
  BY <1>1 DEF Close
<1>2. CASE s.ready \in {"opening", "open"}
  <2> DEFINE t == [s EXCEPT !.ready = "closing", !.owed = Owed(s)]
  <2>1. Armed(t)
    BY <1>2 DEF Armed, HasTimers
  <2>2. Armed(ForcedClose(t)) /\ Armed([t EXCEPT !.closing = "drain"])
        /\ Armed([t EXCEPT !.closing = "upgrade"])
    <3> HIDE DEF t
    <3> QED BY <2>1, ForcedCloseArmed DEF Armed, HasTimers
  <2>3. \/ Close(s) = ForcedClose(t) \/ Close(s) = [t EXCEPT !.closing = "drain"]
        \/ Close(s) = [t EXCEPT !.closing = "upgrade"]
    <3>1. CASE t.writeBuffer # <<>>
      BY <1>2, <3>1 DEF Close
    <3>2. CASE t.writeBuffer = <<>> /\ t.upgrading
      BY <1>2, <3>2 DEF Close
    <3>3. CASE t.writeBuffer = <<>> /\ ~ t.upgrading
      BY <1>2, <3>3 DEF Close
    <3> QED BY <3>1, <3>2, <3>3
  <2> QED BY <2>2, <2>3
<1> QED BY <1>1, <1>2

LEMMA DrainArmed ==
  ASSUME NEW s, Armed(s)
  PROVE  Armed(OnDrain(s))
<1> DEFINE t == [s EXCEPT !.writeBuffer = SubSeq(@, s.prevBufferLen + 1, Len(@)),
                          !.prevBufferLen = 0]
<1>1. Armed(t)
  BY DEF Armed, HasTimers
<1>2. Armed(Flush(t)) /\ Armed(ForcedClose(t)) /\ Armed([t EXCEPT !.closing = "upgrade"])
  <2> HIDE DEF t
  <2>1. Armed(Flush(t))
    BY <1>1, FlushKeeps, SameArmed DEF Armed
  <2> QED BY <1>1, <2>1, ForcedCloseArmed DEF Armed, HasTimers
<1>3. \/ OnDrain(s) = Flush(t) \/ OnDrain(s) = ForcedClose(t) \/ OnDrain(s) = t
      \/ OnDrain(s) = [t EXCEPT !.closing = "upgrade"]
  <2>1. CASE t.writeBuffer # <<>>
    BY <2>1 DEF OnDrain
  <2>2. CASE t.writeBuffer = <<>> /\ t.closing = "drain" /\ t.upgrading
    BY <2>2 DEF OnDrain
  <2>3. CASE t.writeBuffer = <<>> /\ t.closing = "drain" /\ ~ t.upgrading
    BY <2>3 DEF OnDrain
  <2>4. CASE t.writeBuffer = <<>> /\ t.closing # "drain"
    BY <2>4 DEF OnDrain
  <2> QED BY <2>1, <2>2, <2>3, <2>4
<1> QED BY <1>1, <1>2, <1>3

-----------------------------------------------------------------------------
(* The upgrade.                                                            *)

LEMMA ProbeArmed ==
  ASSUME NEW s, Armed(s)
  PROVE  Armed(Probe(s)) /\ Armed(ProbeError(s))
<1>1. Armed(Probe(s))
  BY DEF Armed, HasTimers, Probe, WsOpen
<1>2. Armed(Freeze(s))
  BY CloseKeeps, SameArmed DEF Armed
<1> QED BY <1>1, <1>2, ForcedCloseArmed DEF ProbeError

LEMMA UpgradeArmed ==
  ASSUME NEW s, Armed(s)
  PROVE  Armed(Upgrade(s))
<1>1. CASE s.probe # "ponged" \/ s.ready = "closed"
  BY <1>1 DEF Upgrade
<1>2. CASE s.probe = "ponged" /\ s.ready # "closed"
  <2> DEFINE moved == SetTransport([s EXCEPT !.probe = "over"])
             over == Send(moved, <<Packet("upgrade")>>)
             told == IF over.closing = "upgrade" THEN ForcedClose(over) ELSE over
             done == [told EXCEPT !.upgrading = FALSE]
  <2>1. Armed(moved)
    BY DEF Armed, HasTimers, SetTransport
  <2>2. Armed(over)
    BY <2>1, SendKeeps, SameArmed DEF Armed
  <2>3. Armed(told)
    BY <2>2, ForcedCloseArmed
  <2>4. Upgrade(s) = Flush(done)
    BY <1>2 DEF Upgrade
  <2> HIDE DEF told
  <2>5. Armed(done)
    BY <2>3 DEF Armed, HasTimers
  <2> QED BY <2>4, <2>5, FlushKeeps, SameArmed DEF Armed
<1> QED BY <1>1, <1>2

LEMMA PauseArmed ==
  ASSUME NEW s, Armed(s)
  PROVE  /\ Armed(Pause(s))
         /\ \A event \in {"pollComplete", "drain"} : Armed(WaitOver(s, event))
<1>1. Armed(Upgrade([s EXCEPT !.poll.state = "paused"]))
  <2>1. Armed([s EXCEPT !.poll.state = "paused"])
    BY DEF Armed, HasTimers
  <2> QED BY <2>1, UpgradeArmed
<1>2. Armed(Pause(s))
  BY <1>1 DEF Armed, HasTimers, Pause
<1>3. ASSUME NEW event \in {"pollComplete", "drain"}
      PROVE  Armed(WaitOver(s, event))
  <2> DEFINE t == [s EXCEPT !.poll.waits = @ \ {event}]
             paused == [t EXCEPT !.poll.state = "paused"]
  <2>1. Armed(t) /\ Armed(paused)
    BY DEF Armed, HasTimers
  <2>2. WaitOver(s, event) = Upgrade(paused) \/ WaitOver(s, event) = t
    BY DEF WaitOver
  <2> QED BY <2>1, <2>2, UpgradeArmed
<1> QED BY <1>2, <1>3

-----------------------------------------------------------------------------
(* Opening, and packets.                                                   *)

LEMMA DoesArmed ==
  ASSUME NEW s, NEW act \in Page, Armed(s)
  PROVE  Armed(Does(s, act))
<1>1. Armed(SendPacket(s, Message(NextMessage(s))))
  BY PacketKeeps, SameArmed DEF Armed
<1>2. Armed(Close(s))
  BY CloseArmed
<1>3. \/ Does(s, act) = SendPacket(s, Message(NextMessage(s)))
      \/ Does(s, act) = Close(s) \/ Does(s, act) = s
  <2>1. CASE act = "write" /\ NextMessage(s) <= MaxSent
    BY <2>1 DEF Does
  <2>2. CASE act = "close"
    BY <2>2 DEF Does
  <2>3. CASE act # "close" /\ ~ (act = "write" /\ NextMessage(s) <= MaxSent)
    BY <2>3 DEF Does
  <2> QED BY <2>1, <2>2, <2>3
<1> QED BY <1>1, <1>2, <1>3

\* The handshake comes to a Socket without timers only once, so opening one is no
\* harm: setPing() follows unless the page closed it.
LEMMA HandshakeArmed ==
  ASSUME NEW s, NEW act \in Page, Armed(s), s.ready # "closed"
  PROVE  Armed(OnHandshake(s, act))
<1> DEFINE open == [s EXCEPT !.ready = "open", !.opened = TRUE]
           done == Does(open, act)
           opened == Flush(done)
<1>1. Armed(open)
  BY DEF Armed, HasTimers
<1>2. Armed(done)
  BY <1>1, DoesArmed
<1>3. Armed(opened)
  BY <1>2, FlushKeeps, SameArmed DEF Armed
<1>4. Armed(OnOpen(s, act))
  BY <1>3, ProbeArmed DEF OnOpen
<1> DEFINE o == OnOpen(s, act)
<1> HIDE DEF o
<1>5. o.ready # "closed" => Armed([o EXCEPT !.pingInterval = TRUE, !.beating = TRUE])
  BY <1>4 DEF o, Armed, HasTimers
<1> QED BY <1>4, <1>5 DEF OnHandshake, o

LEMMA PacketArmed ==
  ASSUME NEW s, NEW p, NEW act \in Page, Armed(s)
  PROVE  Armed(OnPacket(s, p, act))
<1>1. CASE s.ready = "closed"
  BY <1>1 DEF OnPacket
<1>2. CASE s.ready # "closed"
  <2> DEFINE t == [s EXCEPT !.pingTimeout = @ \/ s.beating]
  <2>1. Armed(t) /\ t.ready # "closed"
    BY <1>2 DEF Armed, HasTimers
  <2>2. /\ p.type = "open" => OnPacket(s, p, act) = OnHandshake(t, act)
        /\ p.type = "pong" => OnPacket(s, p, act) = [t EXCEPT !.pingInterval = TRUE]
        /\ p.type = "error" => OnPacket(s, p, act) = OnClose(t)
        /\ p.type = "message" => OnPacket(s, p, act) = [t EXCEPT !.got = Append(@, p.n)]
        /\ p.type \notin {"open", "pong", "error", "message"} => OnPacket(s, p, act) = t
    BY <1>2 DEF OnPacket
  <2> HIDE DEF t
  <2>3. Armed([t EXCEPT !.pingInterval = TRUE]) /\ Armed([t EXCEPT !.got = Append(@, p.n)])
    BY <2>1 DEF Armed, HasTimers
  <2> QED BY <2>1, <2>2, <2>3, HandshakeArmed, OnCloseArmed
<1> QED BY <1>1, <1>2

-----------------------------------------------------------------------------
(* The invariant.                                                          *)

LEMMA InitArmed == Init => Armed(c)
<1> SUFFICES ASSUME NEW transport \in Transports, c = Open(transport)
             PROVE  Armed(c)
  BY DEF Init
<1>1. Armed(Idle) /\ HasTimers(Idle)
  BY DEF Armed, HasTimers, Idle
<1>2. Armed(polling(transport = "jsonp"))
  <2> DEFINE t == [Idle EXCEPT !.jsonp = transport = "jsonp", !.poll.state = "opening",
                               !.poll.heard = TRUE]
  <2>1. Armed(t)
    BY <1>1 DEF Armed, HasTimers
  <2> HIDE DEF t
  <2>2. Armed(Poll(t))
    BY <2>1, PollKeeps, SameArmed DEF Armed
  <2> QED BY <2>2 DEF polling, t
<1>3. Armed(WsOpen([Idle EXCEPT !.transport = "websocket"]))
  BY <1>1 DEF Armed, HasTimers, WsOpen
<1> QED BY <1>2, <1>3 DEF Open

LEMMA ReadsArmed == Armed(c) /\ Reads => Armed(c')
<1> SUFFICES ASSUME Armed(c), Reads
             PROVE  Armed(c')
  OBVIOUS
<1>1. CASE TakeAnswer
  BY <1>1 DEF TakeAnswer, CleanUp, Armed, HasTimers
<1>2. ASSUME NEW act \in Page, NextPacket(act)
      PROVE  Armed(c')
  <2> DEFINE p == Head(c.payload)
             open == IF c.poll.state = "opening"
                     THEN [c EXCEPT !.poll.state = "open", !.poll.writable = TRUE] ELSE c
             t == [open EXCEPT !.payload = Tail(@)]
             shut == [t EXCEPT !.poll.state = "closed", !.payload = <<>>]
  <2>1. Armed(t)
    BY DEF Armed, HasTimers
  <2>2. \/ c' = OnClose(shut) \/ c' = shut \/ c' = OnPacket(t, p, act) \/ c' = t
    <3>1. CASE p.type = "close" /\ t.poll.heard
      BY <1>2, <3>1 DEF NextPacket
    <3>2. CASE p.type = "close" /\ ~ t.poll.heard
      BY <1>2, <3>2 DEF NextPacket
    <3>3. CASE p.type # "close" /\ t.poll.heard
      BY <1>2, <3>3 DEF NextPacket
    <3>4. CASE p.type # "close" /\ ~ t.poll.heard
      BY <1>2, <3>4 DEF NextPacket
    <3> QED BY <3>1, <3>2, <3>3, <3>4
  <2> HIDE DEF t
  <2>3. Armed(shut)
    BY <2>1 DEF Armed, HasTimers
  <2> QED BY <2>1, <2>2, <2>3, OnCloseArmed, PacketArmed
<1>3. CASE EndOfPayload
  <2> DEFINE t == [c EXCEPT !.reading = FALSE]
             idle == [t EXCEPT !.poll.polling = FALSE]
             over == WaitOver(idle, "pollComplete")
  <2>1. Armed(t) /\ Armed(idle)
    BY DEF Armed, HasTimers
  <2>2. Armed(over)
    BY <2>1, PauseArmed
  <2>3. Armed(Poll(over))
    BY <2>2, PollKeeps, SameArmed DEF Armed
  <2>4. c' = t \/ c' = Poll(over) \/ c' = over
    <3>1. CASE t.poll.state = "closed"
      BY <1>3, <3>1 DEF EndOfPayload
    <3>2. CASE t.poll.state # "closed" /\ over.poll.state = "open"
      BY <1>3, <3>2 DEF EndOfPayload
    <3>3. CASE t.poll.state # "closed" /\ over.poll.state # "open"
      BY <1>3, <3>3 DEF EndOfPayload
    <3> QED BY <3>1, <3>2, <3>3
  <2> QED BY <2>1, <2>2, <2>3, <2>4
<1> QED BY <1>1, <1>2, <1>3 DEF Reads

LEMMA RequestsArmed ==
  Armed(c) /\ (PollFails \/ PostFails \/ PostDone) => Armed(c')
<1> SUFFICES ASSUME Armed(c), PollFails \/ PostFails \/ PostDone
             PROVE  Armed(c')
  OBVIOUS
<1>1. Armed(TransportError(c))
  BY OnCloseArmed DEF TransportError
<1>2. CASE PollFails
  <2>1. c' = CleanUp(TransportError(c), "get")
    BY <1>2 DEF PollFails
  <2> QED BY <1>1, <2>1, RequestKeeps, SameArmed DEF Armed
<1>3. CASE PostFails
  <2>1. c' = CleanUp(TransportError(c), "post")
    BY <1>3 DEF PostFails
  <2> QED BY <1>1, <2>1, RequestKeeps, SameArmed DEF Armed
<1>4. CASE PostDone
  <2> DEFINE t == [CleanUp(c, "post") EXCEPT !.poll.writable = TRUE]
             drained == IF t.poll.heard THEN OnDrain(t) ELSE t
  <2>1. Armed(t)
    BY DEF CleanUp, Armed, HasTimers
  <2>2. Armed(drained)
    BY <2>1, DrainArmed
  <2>3. c' = WaitOver(drained, "drain")
    BY <1>4 DEF PostDone
  <2> QED BY <2>2, <2>3, PauseArmed
<1> QED BY <1>2, <1>3, <1>4

LEMMA WebSocketArmed ==
  Armed(c) /\ (WsOpens \/ (\E act \in Page : WsMessage(act)) \/ WsDrained \/ WsLost)
    => Armed(c')
<1> SUFFICES ASSUME Armed(c)
             PROVE  /\ WsOpens => Armed(c')
                    /\ \A act \in Page : WsMessage(act) => Armed(c')
                    /\ WsDrained => Armed(c')
                    /\ WsLost => Armed(c')
  OBVIOUS
<1>1. ASSUME WsOpens
      PROVE  Armed(c')
  <2> DEFINE t == [c EXCEPT !.link = "up", !.ws.state = "open", !.ws.writable = TRUE]
             pinged == WsWrite(t, <<Packet("probe")>>)
  <2>1. Armed(t)
    BY DEF Armed, HasTimers
  <2>2. c' = [pinged EXCEPT !.probe = "pinged"] \/ c' = t
    BY <1>1 DEF WsOpens
  <2>3. Armed(pinged)
    <3> HIDE DEF t
    <3> QED BY <2>1, SendKeeps, SameArmed DEF Armed
  <2> HIDE DEF pinged
  <2>4. Armed([pinged EXCEPT !.probe = "pinged"])
    BY <2>3 DEF Armed, HasTimers
  <2> QED BY <2>1, <2>2, <2>4
<1>2. ASSUME NEW act \in Page, WsMessage(act)
      PROVE  Armed(c')
  <2> DEFINE t == [c EXCEPT !.down = Tail(@)]
             p == Head(c.down)
             ponged == [t EXCEPT !.upgrading = TRUE, !.probe = "ponged"]
  <2>1. Armed(t) /\ Armed(ponged)
    BY DEF Armed, HasTimers
  <2>2. c' = OnPacket(t, p, act) \/ c' = Pause(ponged) \/ c' = t
    <3>1. CASE t.transport = "websocket"
      BY <1>2, <3>1 DEF WsMessage
    <3>2. CASE t.transport # "websocket" /\ t.probe = "pinged" /\ p.type = "probe"
      BY <1>2, <3>2 DEF WsMessage
    <3>3. CASE t.transport # "websocket" /\ ~ (t.probe = "pinged" /\ p.type = "probe")
      BY <1>2, <3>3 DEF WsMessage
    <3> QED BY <3>1, <3>2, <3>3
  <2>3. Armed(OnPacket(t, p, act)) /\ Armed(Pause(ponged))
    <3> HIDE DEF t, p, ponged
    <3> QED BY <2>1, PacketArmed, PauseArmed
  <2> QED BY <2>1, <2>2, <2>3
<1>3. ASSUME WsDrained
      PROVE  Armed(c')
  <2> DEFINE t == [c EXCEPT !.ws.drains = @ - 1, !.ws.writable = TRUE]
  <2>1. Armed(t)
    BY DEF Armed, HasTimers
  <2>2. c' = OnDrain(t) \/ c' = t
    BY <1>3 DEF WsDrained
  <2> QED BY <2>1, <2>2, DrainArmed
<1>4. ASSUME WsLost
      PROVE  Armed(c')
  <2> DEFINE t == [c EXCEPT !.ws.state = "closed"]
  <2>1. Armed(t)
    BY DEF Armed, HasTimers
  <2>2. c' = OnClose(t) \/ c' = ProbeError(t) \/ c' = t
    <3>1. CASE t.transport = "websocket"
      BY <1>4, <3>1 DEF WsLost
    <3>2. CASE t.transport # "websocket" /\ Probing(t)
      BY <1>4, <3>2 DEF WsLost
    <3>3. CASE t.transport # "websocket" /\ ~ Probing(t)
      BY <1>4, <3>3 DEF WsLost
    <3> QED BY <3>1, <3>2, <3>3
  <2> QED BY <2>1, <2>2, OnCloseArmed, ProbeArmed
<1> QED BY <1>1, <1>2, <1>3, <1>4

\* The timers themselves, and the page.
LEMMA TimersArmed ==
  Armed(c) /\ (PingInterval \/ PingTimeout \/ PageWrites \/ PageCloses) => Armed(c')
<1> SUFFICES ASSUME Armed(c), PingInterval \/ PingTimeout \/ PageWrites \/ PageCloses
             PROVE  Armed(c')
  OBVIOUS
<1>1. CASE PingInterval
  <2> DEFINE t == SendPacket(c, Packet("ping"))
  <2>1. SameTimers(c, t)
    BY PacketKeeps DEF Armed
  <2>2. c.ready # "closed"
    BY <1>1 DEF PingInterval, Armed
  <2>3. c' = [t EXCEPT !.pingInterval = FALSE, !.pingTimeout = TRUE]
    BY <1>1 DEF PingInterval
  <2> HIDE DEF t
  <2> QED BY <2>1, <2>2, <2>3 DEF Armed, HasTimers, SameTimers
<1>2. CASE PingTimeout
  <2> DEFINE t == [c EXCEPT !.pingTimeout = FALSE, !.failed = TRUE]
  <2>1. HasTimers(t) /\ t.ready # "closed"
    BY <1>2 DEF PingTimeout, Armed, HasTimers
  <2>2. c' = OnClose(t)
    BY <1>2 DEF PingTimeout
  <2> QED BY <2>1, <2>2, OnCloseDisarms
<1>3. CASE PageWrites
  <2>1. c' = SendPacket(c, Message(NextMessage(c)))
    BY <1>3 DEF PageWrites
  <2> QED BY <2>1, PacketKeeps, SameArmed DEF Armed
<1>4. CASE PageCloses
  <2>1. c' = Close(c)
    BY <1>4 DEF PageCloses
  <2> QED BY <2>1, CloseArmed
<1> QED BY <1>1, <1>2, <1>3, <1>4

\* What is external touches no timer.
LEMMA ExternalArmed ==
  Armed(c) /\ (Answer \/ Serves \/ Serve \/ ServerEnds \/ NetworkFails \/ Garbage)
    => Armed(c')
<1> SUFFICES ASSUME Armed(c), HasTimers(c),
                    Answer \/ Serves \/ Serve \/ ServerEnds \/ NetworkFails \/ Garbage
             PROVE  SameTimers(c, c')
  BY SameArmed DEF Armed
<1> USE DEF SameTimers, HasTimers
<1>1. CASE Answer
  BY <1>1 DEF Answer
<1>2. CASE Serves
  <2>1. CASE Accept
    BY <2>1 DEF Accept
  <2>2. CASE AcceptProbe
    BY <2>2 DEF AcceptProbe
  <2>3. CASE ReadPost
    BY <2>3 DEF ReadPost
  <2>4. CASE ReadBye
    BY <2>4 DEF ReadBye
  <2>5. CASE ReadWs
    BY <2>5 DEF ReadWs
  <2>6. CASE PushWs
    BY <2>6 DEF PushWs
  <2>7. CASE SeesWsClosed
    BY <2>7 DEF SeesWsClosed
  <2>8. CASE Refuse
    BY <2>8 DEF Refuse
  <2> QED BY <1>2, <2>1, <2>2, <2>3, <2>4, <2>5, <2>6, <2>7, <2>8 DEF Serves
<1>3. CASE Serve
  BY <1>3 DEF Serve
<1>4. CASE ServerEnds
  BY <1>4 DEF ServerEnds
<1>5. CASE NetworkFails
  BY <1>5 DEF NetworkFails
<1>6. CASE Garbage
  BY <1>6 DEF Garbage
<1> QED BY <1>1, <1>2, <1>3, <1>4, <1>5, <1>6

\* Whatever the page, the server and the network do, an open Socket that has had
\* its handshake has a ping timer armed, and a closed one has none: no dead
\* connection stays unnoticed for want of a timer.
THEOREM TimersGuard == Spec => []Guarded
<1>1. Init => Armed(c)
  BY InitArmed
<1>2. Armed(c) /\ [Next]_vars => Armed(c)'
  <2> SUFFICES ASSUME Armed(c), [Next]_vars
               PROVE  Armed(c')
    BY DEF Armed, HasTimers
  <2>1. CASE Next
    BY <2>1, ReadsArmed, RequestsArmed, WebSocketArmed, TimersArmed, ExternalArmed
       DEF Next, Events
  <2>2. CASE UNCHANGED vars
    BY <2>2 DEF vars
  <2> QED BY <2>1, <2>2
<1>3. Armed(c) => Guarded
  BY DEF Armed, Guarded
<1> QED BY <1>1, <1>2, <1>3, PTL DEF Spec

-----------------------------------------------------------------------------
(* Types, and what each transport is ready for.  Packets are only given to *)
(* the current transport when it says it is writable, or, for the upgrade,  *)
(* to the WebSocket that answered the probe.  A polling transport that is   *)
(* not being paused is open once it is writable; no POST is under way       *)
(* before that.  A WebSocket that is writable, or has drains to come, is    *)
(* open until the Socket is closed, and so is one that answered the probe.  *)

USE BoundsAssumption

Typed(s) == s \in Client /\ s.prevBufferLen <= Len(s.writeBuffer)

\* Of any state, also of one in the middle of closing.
Coherent(s) ==
  /\ ~ s.threw
  /\ s.poll.state \in {"", "opening"} => s.post = "idle" /\ ~ s.poll.writable
  /\ s.link = "up" => s.ws.state = "open"
  /\ s.jsonp => s.link \notin {"connecting", "accepted", "up"}

\* Of a Socket that is not closed, between two calls.
PollOpen(s) ==
  /\ s.transport = "polling" =>
       s.poll.heard /\ (~ s.upgrading => s.poll.state \in {"opening", "open"})
  /\ s.poll.waits # {} => s.upgrading
WsOpened(s) ==
  /\ s.transport = "websocket" =>
       /\ s.ws.state \in {"opening", "open"}
       /\ s.ws.writable \/ s.ws.drains > 0 => s.ws.state = "open"
  /\ s.probe = "ponged" => s.ws.state = "open"

Basic(s) == Typed(s) /\ Coherent(s)
Safe(s) == Basic(s) /\ (s.ready # "closed" => PollOpen(s) /\ WsOpened(s))

LEMMA ClosedSafe ==
  ASSUME NEW s, Basic(s), s.ready = "closed"
  PROVE  Safe(s)
BY DEF Safe

\* What Safe and Typed are about, but the write buffer.
SameSafe(s, t) ==
  /\ t.threw = s.threw /\ t.poll = s.poll /\ t.post = s.post /\ t.link = s.link
  /\ t.ws = s.ws /\ t.jsonp = s.jsonp /\ t.upgrading = s.upgrading
  /\ t.transport = s.transport /\ t.probe = s.probe /\ t.ready = s.ready
SameBuffer(s, t) == t.prevBufferLen = s.prevBufferLen /\ t.writeBuffer = s.writeBuffer

LEMMA SameIsSafe ==
  ASSUME NEW s, NEW t, Typed(t), SameSafe(s, t)
  PROVE  (Basic(s) => Basic(t)) /\ (Safe(s) => Safe(t))
BY DEF SameSafe, Safe, Basic, Coherent, PollOpen, WsOpened

\* What sending a packet leaves alone.
SameRest(s, t) ==
  /\ t.ready = s.ready /\ t.closing = s.closing /\ t.upgrading = s.upgrading
  /\ t.writeBuffer = s.writeBuffer /\ t.transport = s.transport /\ t.probe = s.probe
  /\ t.poll.waits = s.poll.waits

LEMMA WsWriteSafe ==
  ASSUME NEW s, NEW ps \in Seq(UpPacket), Safe(s), s.ws.state = "open"
  PROVE  Safe(WsWrite(s, ps)) /\ SameRest(s, WsWrite(s, ps))
<1> DEFINE t == WsWrite(s, ps)
<1>1. s \in Client
  BY DEF Safe, Basic, Typed
<1>2. t \in Client
  <2>1. s.up \in Seq(UpPacket) /\ s.ws \in WS
    BY <1>1 DEF Client
  <2>2. (IF s.link = "up" THEN s.up \o ps ELSE s.up) \in Seq(UpPacket)
    BY <2>1
  <2>3. s.ws.drains \in Nat
    BY <2>1 DEF WS
  <2>4. s.ws.drains + 1 \in Nat
    BY <2>3
  <2> QED BY <1>1, <2>2, <2>4 DEF Client, WS, WsWrite
<1>3. Typed(t) /\ SameRest(s, t)
  BY <1>1, <1>2 DEF Safe, Basic, Typed, SameRest, WsWrite, Client, Polling
<1>4. Coherent(t)
  <2>1. /\ t.threw = s.threw /\ t.poll = s.poll /\ t.post = s.post /\ t.link = s.link
        /\ t.ws.state = s.ws.state /\ t.jsonp = s.jsonp /\ t.upgrading = s.upgrading
    BY <1>1 DEF WsWrite, Client, WS
  <2> QED BY <2>1 DEF Safe, Basic, Coherent
<1>5. s.ready # "closed" => PollOpen(t) /\ WsOpened(t)
  BY <1>1 DEF Safe, PollOpen, WsOpened, WsWrite, Client, WS
<1> QED BY <1>3, <1>4, <1>5 DEF Safe, Basic, SameRest

LEMMA PollWriteSafe ==
  ASSUME NEW s, NEW ps \in Seq(UpPacket), Safe(s), s.poll.state = "open"
  PROVE  Safe(PollWrite(s, ps)) /\ SameRest(s, PollWrite(s, ps))
<1> DEFINE t == PollWrite(s, ps)
<1>1. s \in Client
  BY DEF Safe, Basic, Typed
<1>2. t \in Client
  <2> DEFINE asked == Create(s, "post")
  <2>1. asked \in Client
    BY <1>1 DEF Client, Create, Request
  <2>2. t = [asked EXCEPT !.poll.writable = FALSE, !.posted = ps]
    BY DEF PollWrite
  <2> HIDE DEF asked, t
  <2>3. [asked.poll EXCEPT !.writable = FALSE] \in Polling
    BY <2>1 DEF Client, Polling
  <2>4. [asked EXCEPT !.poll.writable = FALSE] \in Client
    BY <2>1, <2>3 DEF Client
  <2> QED BY ZenonT(60), <2>2, <2>4 DEF Client
<1>3. Typed(t) /\ SameRest(s, t)
  BY <1>1, <1>2 DEF Safe, Basic, Typed, SameRest, PollWrite, Create, Client, Polling
<1>4. Coherent(t)
  <2>1. /\ t.threw = s.threw /\ t.poll.state = s.poll.state /\ t.link = s.link
        /\ t.poll.waits = s.poll.waits
        /\ t.ws = s.ws /\ t.jsonp = s.jsonp /\ t.upgrading = s.upgrading
    BY <1>1 DEF PollWrite, Create, Client, Polling
  <2> QED BY <2>1 DEF Safe, Basic, Coherent
<1>5. s.ready # "closed" => PollOpen(t) /\ WsOpened(t)
  BY <1>1 DEF Safe, PollOpen, WsOpened, PollWrite, Create, Client, Polling
<1> QED BY <1>3, <1>4, <1>5 DEF Safe, Basic, SameRest

LEMMA SendSafe ==
  ASSUME NEW s, NEW ps \in Seq(UpPacket), Safe(s),
         s.transport = "polling" => s.poll.state = "open",
         s.transport = "websocket" => s.ws.state = "open"
  PROVE  Safe(Send(s, ps)) /\ SameRest(s, Send(s, ps))
<1>1. s.transport \in {"polling", "websocket"}
  BY DEF Safe, Basic, Typed, Client
<1> QED BY <1>1, WsWriteSafe, PollWriteSafe DEF Send

LEMMA FlushSafe ==
  ASSUME NEW s, Safe(s)
  PROVE  Safe(Flush(s)) /\ (SameRest(s, Flush(s)))
<1> DEFINE t == Send(s, s.writeBuffer)
           done == [t EXCEPT !.prevBufferLen = Len(s.writeBuffer)]
           must == s.ready # "closed" /\ Writable(s) /\ ~ s.upgrading /\ s.writeBuffer # <<>>
<1>1. CASE must
  <2>1. s \in Client /\ s.writeBuffer \in Seq(UpPacket)
    BY DEF Safe, Basic, Typed, Client
  <2>2. s.transport = "polling" => s.poll.state = "open"
    BY <1>1 DEF Safe, Basic, Coherent, PollOpen, Writable
  <2>3. s.transport = "websocket" => s.ws.state = "open"
    BY <1>1 DEF Safe, WsOpened, Writable
  <2>4. Safe(t) /\ SameRest(s, t)
    BY <2>1, <2>2, <2>3, SendSafe
  <2>5. Len(s.writeBuffer) \in Nat
    BY <2>1
  <2> HIDE DEF t
  <2>6. t \in Client
    BY <2>4 DEF Safe, Basic, Typed
  <2>7. done \in Client
    BY <2>5, <2>6 DEF Client
  <2>8. /\ done.prevBufferLen = Len(s.writeBuffer) /\ done.writeBuffer = t.writeBuffer
        /\ SameRest(t, done)
    BY <2>6 DEF Client, SameRest, Polling
  <2>9. Typed(done)
    BY <2>4, <2>5, <2>7, <2>8 DEF Typed, SameRest
  <2>10. SameSafe(t, done)
    BY <2>6 DEF Client, SameSafe
  <2>11. Flush(s) = done
    BY <1>1 DEF Flush, t
  <2> QED BY <2>4, <2>8, <2>9, <2>10, <2>11, SameIsSafe DEF SameRest
<1>2. CASE ~ must
  BY <1>2 DEF Flush, SameRest
<1> QED BY <1>1, <1>2

\* A packet that can be on its way up.
LEMMA UpPackets ==
  /\ \A n \in 1 .. MaxSent : Message(n) \in UpPacket
  /\ \A type \in {"ping", "probe", "upgrade"} : Packet(type) \in UpPacket
BY DEF Message, Packet, UpPacket

LEMMA SendPacketSafe ==
  ASSUME NEW s, NEW p \in UpPacket, Safe(s)
  PROVE  Safe(SendPacket(s, p)) /\ SendPacket(s, p).ready = s.ready
<1> DEFINE t == [s EXCEPT !.writeBuffer = Append(@, p), !.sent = Append(@, p)]
<1>1. s \in Client
  BY DEF Safe, Basic, Typed
<1>2. s.writeBuffer \in Seq(UpPacket) /\ s.sent \in Seq(UpPacket) /\ s.prevBufferLen \in Nat
  BY <1>1 DEF Client
<1>3. /\ Append(s.writeBuffer, p) \in Seq(UpPacket) /\ Append(s.sent, p) \in Seq(UpPacket)
      /\ s.prevBufferLen <= Len(Append(s.writeBuffer, p))
  BY <1>2 DEF Safe, Basic, Typed
<1>4. t \in Client
  BY <1>1, <1>3 DEF Client
<1>5. /\ SameSafe(s, t)
      /\ t.prevBufferLen = s.prevBufferLen /\ t.writeBuffer = Append(s.writeBuffer, p)
  BY <1>1 DEF Client, SameSafe
<1> HIDE DEF t
<1>6. Safe(t)
  BY <1>3, <1>4, <1>5, SameIsSafe DEF Typed
<1>7. Safe(Flush(t)) /\ Flush(t).ready = s.ready
  BY <1>5, <1>6, FlushSafe DEF SameRest, SameSafe
<1> QED BY <1>7 DEF SendPacket, t

-----------------------------------------------------------------------------
(* Closing: whatever the state of the transport, a Socket that is closed    *)
(* keeps what holds of all states.                                          *)

LEMMA CloseTransportSure ==
  ASSUME NEW s, Basic(s)
  PROVE  /\ Basic(PollClose(s)) /\ Basic(WsClose(s)) /\ Basic(CloseTransport(s))
         /\ WsClose(s).ready = s.ready /\ CloseTransport(s).ready = s.ready
         /\ WsClose(s).transport = s.transport /\ WsClose(s).poll = s.poll
         /\ WsClose(s).upgrading = s.upgrading
<1>1. s \in Client
  BY DEF Basic, Typed
<1>2. Basic(PollClose(s)) /\ PollClose(s).ready = s.ready
  <2>1. CASE s.poll.state = "open"
    <3> DEFINE t == [s EXCEPT !.poll.state = "closed", !.poll.writable = FALSE, !.bye = TRUE]
    <3>1. PollClose(s) = t
      BY <2>1 DEF PollClose
    <3>2. t \in Client
      BY <1>1 DEF Client, Polling
    <3>3. /\ t.threw = s.threw /\ t.poll.waits = s.poll.waits /\ t.poll.state = "closed"
          /\ t.link = s.link /\ t.ws = s.ws /\ t.jsonp = s.jsonp /\ t.upgrading = s.upgrading
          /\ t.ready = s.ready
          /\ t.prevBufferLen = s.prevBufferLen /\ t.writeBuffer = s.writeBuffer
      BY <1>1 DEF Client, Polling
    <3> HIDE DEF t
    <3> QED BY <3>1, <3>2, <3>3 DEF Basic, Typed, Coherent
  <2>2. CASE s.poll.state = "opening"
    <3> DEFINE t == [s EXCEPT !.poll.state = "closed", !.poll.deferred = TRUE]
    <3>1. PollClose(s) = t
      BY <2>2 DEF PollClose
    <3>2. t \in Client
      BY <1>1 DEF Client, Polling
    <3>3. /\ t.threw = s.threw /\ t.poll.waits = s.poll.waits /\ t.poll.state = "closed"
          /\ t.link = s.link /\ t.ws = s.ws /\ t.jsonp = s.jsonp /\ t.upgrading = s.upgrading
          /\ t.ready = s.ready
          /\ t.prevBufferLen = s.prevBufferLen /\ t.writeBuffer = s.writeBuffer
      BY <1>1 DEF Client, Polling
    <3> HIDE DEF t
    <3> QED BY <3>1, <3>2, <3>3 DEF Basic, Typed, Coherent
  <2>3. CASE s.poll.state \notin {"open", "opening"}
    BY <2>3 DEF PollClose
  <2> QED BY <2>1, <2>2, <2>3
<1>3. /\ Basic(WsClose(s)) /\ WsClose(s).ready = s.ready
      /\ WsClose(s).transport = s.transport /\ WsClose(s).poll = s.poll
      /\ WsClose(s).upgrading = s.upgrading
  <2>1. CASE s.ws.state \in {"opening", "open"}
    <3> DEFINE t == [s EXCEPT !.ws.state = "closed",
                              !.link = IF @ = "down" THEN @ ELSE "closed"]
    <3>1. WsClose(s) = t
      BY <2>1 DEF WsClose
    <3>2. t \in Client
      BY ZenonT(60), <1>1 DEF Client, WS
    <3>3. /\ t.threw = s.threw /\ t.poll = s.poll /\ t.post = s.post
          /\ t.link \in {"down", "closed"} /\ t.jsonp = s.jsonp /\ t.upgrading = s.upgrading
          /\ t.ready = s.ready /\ t.transport = s.transport
          /\ t.prevBufferLen = s.prevBufferLen /\ t.writeBuffer = s.writeBuffer
      BY <1>1 DEF Client
    <3> HIDE DEF t
    <3> QED BY <3>1, <3>2, <3>3 DEF Basic, Typed, Coherent
  <2>2. CASE s.ws.state \notin {"opening", "open"}
    BY <2>2 DEF WsClose
  <2> QED BY <2>1, <2>2
<1> QED BY <1>2, <1>3 DEF CloseTransport

LEMMA FreezeSure ==
  ASSUME NEW s, Basic(s)
  PROVE  /\ Basic(Freeze(s)) /\ Freeze(s).ready = s.ready /\ Freeze(s).probe = "over"
         /\ Freeze(s).transport = s.transport /\ Freeze(s).poll = s.poll
         /\ Freeze(s).upgrading = s.upgrading
<1> DEFINE w == WsClose(s)
           t == [w EXCEPT !.probe = "over"]
<1>1. /\ Basic(w) /\ w.ready = s.ready /\ w.transport = s.transport
      /\ w.poll = s.poll /\ w.upgrading = s.upgrading
  BY CloseTransportSure
<1> HIDE DEF w
<1>2. w \in Client
  BY <1>1 DEF Basic, Typed
<1>3. t \in Client
  BY <1>2 DEF Client
<1>4. /\ t.threw = w.threw /\ t.poll = w.poll /\ t.post = w.post /\ t.link = w.link
      /\ t.ws = w.ws /\ t.jsonp = w.jsonp /\ t.upgrading = w.upgrading
      /\ t.transport = w.transport /\ t.probe = "over" /\ t.ready = w.ready
      /\ t.prevBufferLen = w.prevBufferLen /\ t.writeBuffer = w.writeBuffer
  BY <1>2 DEF Client
<1>5. Freeze(s) = t
  BY DEF Freeze, w
<1> HIDE DEF t
<1> QED BY <1>1, <1>3, <1>4, <1>5 DEF Basic, Typed, Coherent

LEMMA OnCloseSure ==
  ASSUME NEW s, Basic(s)
  PROVE  Basic(OnClose(s)) /\ OnClose(s).ready = "closed"
<1>1. CASE s.ready = "closed"
  BY <1>1 DEF OnClose
<1>2. CASE s.ready # "closed"
  <2> DEFINE shut == CloseTransport(s)
             told == [shut EXCEPT !.ready = "closed", !.pingInterval = FALSE,
                        !.pingTimeout = FALSE, !.poll.heard = FALSE, !.poll.waits = {}]
             over == IF Probing(told) THEN Freeze(told) ELSE told
             t == [over EXCEPT !.writeBuffer = <<>>, !.prevBufferLen = 0]
  <2>1. Basic(shut)
    BY CloseTransportSure
  <2> HIDE DEF shut
  <2>2. shut \in Client
    BY <2>1 DEF Basic, Typed
  <2>3. told \in Client
    BY <2>2 DEF Client, Polling
  <2>4. /\ told.threw = shut.threw /\ told.poll.waits = {} /\ told.poll.state = shut.poll.state
        /\ told.poll.writable = shut.poll.writable
        /\ told.post = shut.post /\ told.link = shut.link /\ told.ws = shut.ws
        /\ told.jsonp = shut.jsonp /\ told.ready = "closed"
        /\ told.prevBufferLen = shut.prevBufferLen /\ told.writeBuffer = shut.writeBuffer
    BY <2>2 DEF Client, Polling
  <2> HIDE DEF told
  <2>5. Basic(told)
    BY <2>1, <2>3, <2>4 DEF Basic, Typed, Coherent
  <2>6. Basic(over) /\ over.ready = "closed"
    BY <2>4, <2>5, FreezeSure
  <2> HIDE DEF over
  <2>7. over \in Client
    BY <2>6 DEF Basic, Typed
  <2>0. <<>> \in Seq(UpPacket) /\ Len(<<>>) = 0
    OBVIOUS
  <2>8. t \in Client
    BY <2>0, <2>7 DEF Client
  <2>9. SameSafe(over, t) /\ t.prevBufferLen = 0 /\ t.writeBuffer = <<>>
    BY <2>7 DEF Client, SameSafe
  <2>10. OnClose(s) = t
    BY <1>2 DEF OnClose, shut, told, over
  <2> HIDE DEF t
  <2> QED BY <2>0, <2>6, <2>8, <2>9, <2>10, SameIsSafe DEF Typed, SameSafe
<1> QED BY <1>1, <1>2

LEMMA ForcedCloseSure ==
  ASSUME NEW s, Basic(s)
  PROVE  Basic(ForcedClose(s)) /\ ForcedClose(s).ready = "closed"
<1> DEFINE t == [s EXCEPT !.closing = "nothing"]
<1>1. s \in Client
  BY DEF Basic, Typed
<1>2. t \in Client
  BY <1>1 DEF Client
<1>3. SameSafe(s, t) /\ SameBuffer(s, t)
  BY <1>1 DEF Client, SameSafe, SameBuffer
<1> HIDE DEF t
<1>4. Basic(t)
  BY <1>2, <1>3, SameIsSafe DEF Basic, Typed, SameBuffer
<1>5. Basic(OnClose(t)) /\ OnClose(t).ready = "closed"
  BY <1>4, OnCloseSure
<1> QED BY <1>5, CloseTransportSure DEF ForcedClose, t


\* Changing what close() waits for changes nothing else.
LEMMA ClosingSafe ==
  ASSUME NEW s, Safe(s), NEW what \in {"nothing", "drain", "upgrade"}
  PROVE  Safe([s EXCEPT !.closing = what])
<1> DEFINE t == [s EXCEPT !.closing = what]
<1>1. s \in Client
  BY DEF Safe, Basic, Typed
<1>2. t \in Client
  BY <1>1 DEF Client
<1>3. SameSafe(s, t) /\ SameBuffer(s, t)
  BY <1>1 DEF Client, SameSafe, SameBuffer
<1> QED BY <1>2, <1>3, SameIsSafe DEF Safe, Basic, Typed, SameBuffer

LEMMA CloseSafe ==
  ASSUME NEW s, Safe(s)
  PROVE  Safe(Close(s))
<1>1. CASE s.ready \notin {"opening", "open"}
  BY <1>1 DEF Close
<1>2. CASE s.ready \in {"opening", "open"}
  <2> DEFINE t == [s EXCEPT !.ready = "closing", !.owed = Owed(s)]
  <2>1. s \in Client
    BY DEF Safe, Basic, Typed
  <2>2. s.sent \in Seq(UpPacket) /\ s.owed \in Nat
    BY <2>1 DEF Client
  <2>3. Owed(s) \in Nat
    BY <2>2 DEF Owed
  <2>4. t \in Client
    BY <2>1, <2>3 DEF Client
  <2>5. /\ SameSafe(s, [t EXCEPT !.ready = s.ready]) /\ SameBuffer(s, t) /\ t.ready = "closing"
    BY <2>1 DEF Client, SameSafe, SameBuffer
  <2>6. /\ t.threw = s.threw /\ t.poll = s.poll /\ t.post = s.post /\ t.link = s.link
        /\ t.ws = s.ws /\ t.jsonp = s.jsonp /\ t.upgrading = s.upgrading
        /\ t.transport = s.transport /\ t.probe = s.probe
    BY <2>1 DEF Client
  <2>7. \/ Close(s) = ForcedClose(t) \/ Close(s) = [t EXCEPT !.closing = "drain"]
        \/ Close(s) = [t EXCEPT !.closing = "upgrade"]
    <3>1. CASE t.writeBuffer # <<>>
      BY <1>2, <3>1 DEF Close
    <3>2. CASE t.writeBuffer = <<>> /\ t.upgrading
      BY <1>2, <3>2 DEF Close
    <3>3. CASE t.writeBuffer = <<>> /\ ~ t.upgrading
      BY <1>2, <3>3 DEF Close
    <3> QED BY <3>1, <3>2, <3>3
  <2> HIDE DEF t
  <2>8. Safe(t)
    BY <1>2, <2>4, <2>5, <2>6 DEF Safe, Basic, Typed, SameBuffer, Coherent, PollOpen, WsOpened
  <2> QED BY <2>7, <2>8, ClosingSafe, ForcedCloseSure, ClosedSafe DEF Safe
<1> QED BY <1>1, <1>2

LEMMA DrainSafe ==
  ASSUME NEW s, Safe(s)
  PROVE  Safe(OnDrain(s))
<1> DEFINE t == [s EXCEPT !.writeBuffer = SubSeq(@, s.prevBufferLen + 1, Len(@)),
                          !.prevBufferLen = 0]
           rest == SubSeq(s.writeBuffer, s.prevBufferLen + 1, Len(s.writeBuffer))
<1>1. s \in Client
  BY DEF Safe, Basic, Typed
<1>2. s.writeBuffer \in Seq(UpPacket) /\ s.prevBufferLen \in Nat
  BY <1>1 DEF Client
<1>3. rest \in Seq(UpPacket) /\ 0 <= Len(rest)
  BY <1>2
<1>4. t \in Client
  BY <1>1, <1>3 DEF Client
<1>5. SameSafe(s, t) /\ t.writeBuffer = rest /\ t.prevBufferLen = 0
  BY <1>1 DEF Client, SameSafe
<1>6. \/ OnDrain(s) = Flush(t) \/ OnDrain(s) = ForcedClose(t) \/ OnDrain(s) = t
      \/ OnDrain(s) = [t EXCEPT !.closing = "upgrade"]
  <2>1. CASE t.writeBuffer # <<>>
    BY <2>1 DEF OnDrain
  <2>2. CASE t.writeBuffer = <<>> /\ t.closing = "drain" /\ t.upgrading
    BY <2>2 DEF OnDrain
  <2>3. CASE t.writeBuffer = <<>> /\ t.closing = "drain" /\ ~ t.upgrading
    BY <2>3 DEF OnDrain
  <2>4. CASE t.writeBuffer = <<>> /\ t.closing # "drain"
    BY <2>4 DEF OnDrain
  <2> QED BY <2>1, <2>2, <2>3, <2>4
<1> HIDE DEF t, rest
<1>7. Safe(t)
  BY <1>3, <1>4, <1>5, SameIsSafe DEF Typed
<1> QED BY <1>6, <1>7, FlushSafe, ClosingSafe, ForcedCloseSure, ClosedSafe DEF Safe

-----------------------------------------------------------------------------
(* The upgrade.                                                            *)

\* probe(): the second transport is not used before it has been set.
LEMMA ProbeSafe ==
  ASSUME NEW s, Safe(s), s.transport = "polling"
  PROVE  Safe(Probe(s))
<1> DEFINE w == WsOpen(s)
           t == [w EXCEPT !.probe = "opening"]
<1>1. s \in Client
  BY DEF Safe, Basic, Typed
<1>2. w \in Client
  BY <1>1 DEF WsOpen, Client, WS
<1>3. /\ w.threw = s.threw /\ w.poll = s.poll /\ w.post = s.post
      /\ w.link = (IF s.jsonp THEN s.link ELSE "connecting")
      /\ w.jsonp = s.jsonp /\ w.upgrading = s.upgrading
      /\ w.transport = s.transport /\ w.ready = s.ready /\ SameBuffer(s, w)
  BY <1>1 DEF WsOpen, Client, SameBuffer
<1> HIDE DEF w
<1>4. t \in Client
  BY <1>2 DEF Client
<1>5. /\ t.threw = w.threw /\ t.poll = w.poll /\ t.post = w.post /\ t.link = w.link
      /\ t.jsonp = w.jsonp /\ t.upgrading = w.upgrading /\ t.probe = "opening"
      /\ t.transport = w.transport /\ t.ready = w.ready /\ SameBuffer(w, t)
  BY <1>2 DEF Client, SameBuffer
<1>6. Probe(s) = t
  BY DEF Probe, w
<1> HIDE DEF t
<1>7. Typed(t)
  BY <1>3, <1>4, <1>5 DEF Typed, Safe, Basic, SameBuffer
<1>8. Coherent(t)
  BY <1>3, <1>5 DEF Safe, Basic, Coherent
<1>9. s.ready # "closed" => PollOpen(t) /\ WsOpened(t)
  BY <1>3, <1>5 DEF Safe, PollOpen, WsOpened
<1> QED BY <1>3, <1>5, <1>6, <1>7, <1>8, <1>9 DEF Safe, Basic

\* A probe that fails leaves the polling transport as it was.
LEMMA ProbeErrorSafe ==
  ASSUME NEW s, Basic(s), s.transport = "polling", s.ready # "closed" => PollOpen(s)
  PROVE  Safe(ProbeError(s))
<1> DEFINE t == Freeze(s)
<1>1. /\ Basic(t) /\ t.ready = s.ready /\ t.probe = "over" /\ t.transport = s.transport
      /\ t.poll = s.poll /\ t.upgrading = s.upgrading
  BY FreezeSure
<1> HIDE DEF t
<1>2. Safe(t)
  BY <1>1 DEF Safe, PollOpen, WsOpened
<1> QED BY <1>2, ForcedCloseSure, ClosedSafe DEF ProbeError, t, Safe

LEMMA UpgradeSafe ==
  ASSUME NEW s, Safe(s)
  PROVE  Safe(Upgrade(s))
<1>1. CASE s.probe # "ponged" \/ s.ready = "closed"
  BY <1>1 DEF Upgrade
<1>2. CASE s.probe = "ponged" /\ s.ready # "closed"
  <2> DEFINE before == [s EXCEPT !.probe = "over"]
             moved == SetTransport(before)
             over == Send(moved, <<Packet("upgrade")>>)
             told == IF over.closing = "upgrade" THEN ForcedClose(over) ELSE over
             done == [told EXCEPT !.upgrading = FALSE]
  <2>1. s \in Client /\ s.ws.state = "open"
    BY <1>2 DEF Safe, Basic, Typed, WsOpened
  <2>2. before \in Client
    BY <2>1 DEF Client
  <2>3. moved \in Client
    <3> HIDE DEF before
    <3> QED BY <2>2 DEF SetTransport, Client, Polling
  <2>4. /\ moved.threw = s.threw /\ moved.poll.waits = {} /\ moved.poll.state = s.poll.state
        /\ moved.poll.writable = s.poll.writable /\ moved.post = s.post
        /\ moved.link = s.link /\ moved.ws = s.ws /\ moved.jsonp = s.jsonp
        /\ moved.upgrading = s.upgrading /\ moved.transport = "websocket"
        /\ moved.probe = "over" /\ moved.ready = s.ready /\ SameBuffer(s, moved)
    BY <2>1 DEF SetTransport, Client, Polling, SameBuffer
  <2>5. Upgrade(s) = Flush(done)
    BY <1>2 DEF Upgrade
  <2> HIDE DEF before, moved
  <2>6. Safe(moved)
    <3>1. Typed(moved) /\ Coherent(moved)
      BY <2>3, <2>4 DEF Safe, Basic, Typed, Coherent, SameBuffer
    <3>2. PollOpen(moved) /\ WsOpened(moved)
      BY <2>1, <2>4 DEF PollOpen, WsOpened
    <3> QED BY <3>1, <3>2 DEF Safe, Basic
  <2>7. <<Packet("upgrade")>> \in Seq(UpPacket)
    BY UpPackets
  <2>8. /\ Safe(over) /\ over.transport = "websocket" /\ over.ready # "closed"
        /\ over.poll.waits = {}
    <3>1. moved.transport = "websocket" /\ moved.ws.state = "open"
      BY <2>1, <2>4
    <3>2. Safe(over) /\ SameRest(moved, over)
      BY <2>6, <2>7, <3>1, SendSafe
    <3> QED BY <1>2, <2>4, <3>2 DEF SameRest
  <2> HIDE DEF over
  <2>9. /\ Safe(told)
        /\ told.ready = "closed" \/ (told.transport = "websocket" /\ told.poll.waits = {})
    BY <2>8, ForcedCloseSure, ClosedSafe DEF Safe
  <2>10. Safe(done)
    <3> HIDE DEF told
    <3>1. told \in Client
      BY <2>9 DEF Safe, Basic, Typed
    <3>2. done \in Client
      BY <3>1 DEF Client
    <3>3. /\ done.threw = told.threw /\ done.poll = told.poll /\ done.post = told.post
          /\ done.link = told.link /\ done.ws = told.ws /\ done.jsonp = told.jsonp
          /\ done.transport = told.transport /\ done.probe = told.probe
          /\ done.ready = told.ready /\ SameBuffer(told, done)
      BY <3>1 DEF Client, SameBuffer
    <3> HIDE DEF done
    <3> QED BY <2>9, <3>2, <3>3
            DEF Safe, Basic, Typed, Coherent, SameBuffer, PollOpen, WsOpened
  <2> QED BY <2>5, <2>10, FlushSafe
<1> QED BY <1>1, <1>2

LEMMA PauseSafe ==
  ASSUME NEW s, Safe(s)
  PROVE  /\ s.upgrading => Safe(Pause(s))
         /\ \A event \in {"pollComplete", "drain"} : Safe(WaitOver(s, event))
<1>1. s \in Client
  BY DEF Safe, Basic, Typed
<1>2. ASSUME NEW t, Safe(t), t.upgrading \/ t.ready = "closed"
      PROVE  Safe(Upgrade([t EXCEPT !.poll.state = "paused"]))
  <2> DEFINE p == [t EXCEPT !.poll.state = "paused"]
  <2>1. t \in Client
    BY <1>2 DEF Safe, Basic, Typed
  <2>2. p \in Client
    BY <2>1 DEF Client, Polling
  <2>3. /\ p.threw = t.threw /\ p.poll.state = "paused" /\ p.poll.heard = t.poll.heard
        /\ p.poll.waits = t.poll.waits /\ p.link = t.link
        /\ p.ws = t.ws /\ p.jsonp = t.jsonp /\ p.upgrading = t.upgrading
        /\ p.transport = t.transport /\ p.probe = t.probe /\ p.ready = t.ready
        /\ SameBuffer(t, p)
    BY <2>1 DEF Client, Polling, SameBuffer
  <2> HIDE DEF p
  <2>4. Safe(p)
    BY <1>2, <2>2, <2>3 DEF Safe, Basic, Typed, Coherent, PollOpen, WsOpened, SameBuffer
  <2> QED BY <2>4, UpgradeSafe DEF p
<1>3. ASSUME s.upgrading
      PROVE  Safe(Pause(s))
  <2> DEFINE waits == (IF s.poll.polling THEN {"pollComplete"} ELSE {})
                       \cup (IF s.poll.writable THEN {} ELSE {"drain"})
             t == [s EXCEPT !.poll.state = "pausing", !.poll.waits = waits]
  <2>1. waits \subseteq {"pollComplete", "drain"}
    OBVIOUS
  <2>2. \/ Pause(s) = Upgrade([s EXCEPT !.poll.state = "paused"])
        \/ Pause(s) = t
    BY DEF Pause
  <2> HIDE DEF waits
  <2>3. t \in Client
    BY <1>1, <2>1 DEF Client, Polling
  <2>4. /\ t.threw = s.threw /\ t.poll.state = "pausing" /\ t.poll.heard = s.poll.heard
        /\ t.link = s.link
        /\ t.ws = s.ws /\ t.jsonp = s.jsonp /\ t.upgrading = s.upgrading
        /\ t.transport = s.transport /\ t.probe = s.probe /\ t.ready = s.ready
        /\ SameBuffer(s, t)
    BY <1>1 DEF Client, Polling, SameBuffer
  <2> HIDE DEF t
  <2>5. Safe(t)
    BY <1>3, <2>3, <2>4 DEF Safe, Basic, Typed, Coherent, PollOpen, WsOpened, SameBuffer
  <2> QED BY <1>2, <1>3, <2>2, <2>5
<1>4. ASSUME NEW event \in {"pollComplete", "drain"}
      PROVE  Safe(WaitOver(s, event))
  <2> DEFINE t == [s EXCEPT !.poll.waits = @ \ {event}]
  <2>1. t \in Client
    BY <1>1 DEF Client, Polling
  <2>2. /\ t.threw = s.threw /\ t.poll.state = s.poll.state /\ t.poll.heard = s.poll.heard
        /\ t.poll.writable = s.poll.writable /\ t.poll.waits = s.poll.waits \ {event}
        /\ t.post = s.post /\ t.link = s.link
        /\ t.ws = s.ws /\ t.jsonp = s.jsonp /\ t.upgrading = s.upgrading
        /\ t.transport = s.transport /\ t.probe = s.probe /\ t.ready = s.ready
        /\ SameBuffer(s, t)
    BY <1>1 DEF Client, Polling, SameBuffer
  <2>3. \/ WaitOver(s, event) = t
        \/ /\ event \in s.poll.waits
           /\ WaitOver(s, event) = Upgrade([t EXCEPT !.poll.state = "paused"])
    BY DEF WaitOver
  <2> HIDE DEF t
  <2>4. Safe(t)
    BY <2>1, <2>2 DEF Safe, Basic, Typed, Coherent, PollOpen, WsOpened, SameBuffer
  <2>5. event \in s.poll.waits => t.upgrading \/ t.ready = "closed"
    BY <2>2 DEF Safe, PollOpen
  <2> QED BY <1>2, <2>3, <2>4, <2>5
<1> QED BY <1>3, <1>4

-----------------------------------------------------------------------------
(* Opening, and packets.                                                   *)

\* Messages are counted from 1.
LEMMA NextMessageType ==
  ASSUME NEW s, Typed(s)
  PROVE  NextMessage(s) \in Nat \ {0}
<1> DEFINE D == {i \in DOMAIN s.sent : s.sent[i].type = "message"}
<1>1. s.sent \in Seq(UpPacket)
  BY DEF Typed, Client
<1>2. DOMAIN s.sent = 1 .. Len(s.sent) /\ Len(s.sent) \in Nat
  BY <1>1
<1>3. IsFiniteSet(1 .. Len(s.sent))
  BY <1>2, FS_Interval
<1>4. IsFiniteSet(D)
  BY <1>2, <1>3, FS_Subset
<1>5. Cardinality(D) \in Nat
  BY <1>4, FS_CardinalityType
<1> QED BY <1>5 DEF NextMessage

LEMMA DoesSafe ==
  ASSUME NEW s, NEW act \in Page, Safe(s)
  PROVE  Safe(Does(s, act))
<1>1. CASE act = "write" /\ NextMessage(s) <= MaxSent
  <2>1. NextMessage(s) \in 1 .. MaxSent
    BY <1>1, NextMessageType DEF Safe, Basic
  <2>2. Message(NextMessage(s)) \in UpPacket
    BY <2>1, UpPackets
  <2> QED BY <1>1, <2>2, SendPacketSafe DEF Does
<1>2. CASE act = "close"
  BY <1>2, CloseSafe DEF Does
<1>3. CASE act # "close" /\ ~ (act = "write" /\ NextMessage(s) <= MaxSent)
  BY <1>3 DEF Does
<1> QED BY <1>1, <1>2, <1>3

LEMMA HandshakeSafe ==
  ASSUME NEW s, NEW act \in Page, Safe(s), s.ready # "closed"
  PROVE  Safe(OnHandshake(s, act))
<1> DEFINE open == [s EXCEPT !.ready = "open", !.opened = TRUE]
           done == Does(open, act)
           opened == Flush(done)
           o == OnOpen(s, act)
           h == [o EXCEPT !.pingInterval = TRUE, !.beating = TRUE]
<1>1. Safe(open)
  <2>1. s \in Client
    BY DEF Safe, Basic, Typed
  <2>2. open \in Client
    BY <2>1 DEF Client
  <2>3. /\ open.threw = s.threw /\ open.poll = s.poll /\ open.post = s.post
        /\ open.link = s.link /\ open.ws = s.ws /\ open.jsonp = s.jsonp
        /\ open.upgrading = s.upgrading /\ open.transport = s.transport
        /\ open.probe = s.probe /\ SameBuffer(s, open)
    BY <2>1 DEF Client, SameBuffer
  <2> HIDE DEF open
  <2> QED BY <2>2, <2>3 DEF Safe, Basic, Typed, Coherent, PollOpen, WsOpened, SameBuffer
<1>2. Safe(done)
  BY <1>1, DoesSafe
<1>3. Safe(opened)
  BY <1>2, FlushSafe
<1>4. Safe(o)
  BY <1>3, ProbeSafe DEF OnOpen
<1>5. OnHandshake(s, act) = o \/ OnHandshake(s, act) = h
  BY DEF OnHandshake
<1> HIDE DEF o
<1>6. o \in Client
  BY <1>4 DEF Safe, Basic, Typed
<1>7. h \in Client
  BY <1>6 DEF Client
<1>8. SameSafe(o, h) /\ SameBuffer(o, h)
  BY <1>6 DEF Client, SameSafe, SameBuffer
<1> QED BY <1>4, <1>5, <1>7, <1>8, SameIsSafe DEF Safe, Basic, Typed, SameBuffer

LEMMA PacketSafe ==
  ASSUME NEW s, NEW p \in DownPacket, NEW act \in Page, Safe(s)
  PROVE  Safe(OnPacket(s, p, act))
<1>1. CASE s.ready = "closed"
  BY <1>1 DEF OnPacket
<1>2. CASE s.ready # "closed"
  <2> DEFINE t == [s EXCEPT !.pingTimeout = @ \/ s.beating]
             again == [t EXCEPT !.pingInterval = TRUE]
             got == [t EXCEPT !.got = Append(@, p.n)]
  <2>1. s \in Client
    BY DEF Safe, Basic, Typed
  <2>2. t \in Client
    <3>1. (s.pingTimeout \/ s.beating) \in BOOLEAN
      OBVIOUS
    <3> QED BY <2>1, <3>1 DEF Client
  <2>3. SameSafe(s, t) /\ SameBuffer(s, t)
    BY <2>1 DEF Client, SameSafe, SameBuffer
  <2>4. /\ p.type = "open" => OnPacket(s, p, act) = OnHandshake(t, act)
        /\ p.type = "pong" => OnPacket(s, p, act) = again
        /\ p.type = "error" => OnPacket(s, p, act) = OnClose(t)
        /\ p.type = "message" => OnPacket(s, p, act) = got
        /\ p.type \notin {"open", "pong", "error", "message"} => OnPacket(s, p, act) = t
    BY <1>2 DEF OnPacket
  <2> HIDE DEF t
  <2>5. Safe(t) /\ t.ready # "closed"
    BY <1>2, <2>2, <2>3, SameIsSafe DEF Safe, Basic, Typed, SameBuffer, SameSafe
  <2>6. Safe(again)
    <3>1. again \in Client
      BY <2>2 DEF Client
    <3>2. SameSafe(t, again) /\ SameBuffer(t, again)
      BY <2>2 DEF Client, SameSafe, SameBuffer
    <3> QED BY <2>5, <3>1, <3>2, SameIsSafe DEF Safe, Basic, Typed, SameBuffer
  <2>7. p.type = "message" => Safe(got)
    <3> SUFFICES ASSUME p.type = "message"
                 PROVE  Safe(got)
      OBVIOUS
    <3>1. p.n \in 1 .. MaxServed
      BY DEF DownPacket
    <3>2. t.got \in Seq(1 .. MaxServed)
      BY <2>2 DEF Client
    <3>3. Append(t.got, p.n) \in Seq(1 .. MaxServed)
      BY <3>1, <3>2
    <3>4. got \in Client
      BY <2>2, <3>3 DEF Client
    <3>5. SameSafe(t, got) /\ SameBuffer(t, got)
      BY <2>2 DEF Client, SameSafe, SameBuffer
    <3> QED BY <2>5, <3>4, <3>5, SameIsSafe DEF Safe, Basic, Typed, SameBuffer
  <2> QED BY <2>4, <2>5, <2>6, <2>7, HandshakeSafe, OnCloseSure, ClosedSafe DEF Safe
<1> QED BY <1>1, <1>2

-----------------------------------------------------------------------------
(* The steps.                                                              *)

SafeInv == Safe(c) /\ srv \in Server

\* Requests and their answers are none of Safe's business, but that no POST is
\* under way before the polling transport has opened.
SameButPost(s, t) ==
  /\ t.threw = s.threw /\ t.poll.state = s.poll.state /\ t.poll.heard = s.poll.heard
  /\ t.poll.waits = s.poll.waits /\ t.poll.writable = s.poll.writable
  /\ t.ws = s.ws /\ t.jsonp = s.jsonp /\ t.upgrading = s.upgrading
  /\ t.transport = s.transport /\ t.probe = s.probe /\ t.ready = s.ready
  /\ \/ t.link = s.link \/ t.link \in {"down", "closed"}
     \/ t.link = "accepted" /\ s.link = "connecting"
  /\ (t.post = s.post \/ t.post = "idle" \/ s.post # "idle")

LEMMA SameButPostSafe ==
  ASSUME NEW s, NEW t, Typed(t), SameButPost(s, t), Safe(s)
  PROVE  Safe(t)
BY DEF SameButPost, Safe, Basic, Coherent, PollOpen, WsOpened

LEMMA InitSafe == Init => SafeInv
<1> SUFFICES ASSUME Init
             PROVE  SafeInv
  OBVIOUS
<1>0. <<>> \in Seq(UpPacket) /\ <<>> \in Seq(DownPacket) /\ <<>> \in Seq(1 .. MaxServed)
      /\ Len(<<>>) = 0
  OBVIOUS
<1>1. srv \in Server
  BY <1>0 DEF Init, Server
<1>2. Idle \in Client
  BY <1>0 DEF Idle, Client, Polling, WS, Request
<1>i. /\ Idle.threw = FALSE /\ Idle.post = "idle" /\ Idle.link = "none"
      /\ Idle.transport = "polling" /\ Idle.probe = "none" /\ Idle.upgrading = FALSE
      /\ Idle.prevBufferLen = 0 /\ Idle.writeBuffer = <<>>
      /\ Idle.poll.state = "" /\ Idle.poll.writable = FALSE /\ Idle.poll.waits = {}
  BY DEF Idle
<1>3. PICK transport \in Transports : c = Open(transport)
  BY DEF Init
<1>4. CASE transport = "websocket"
  <2> DEFINE t == [Idle EXCEPT !.transport = "websocket"]
  <2>1. c = WsOpen(t)
    BY <1>3, <1>4 DEF Open
  <2>2. t \in Client
    BY <1>2 DEF Client
  <2>3. c \in Client
    <3> HIDE DEF t
    <3> QED BY ZenonT(60), <2>1, <2>2 DEF WsOpen, Client, WS
  <2>4. /\ c.threw = FALSE /\ c.poll = Idle.poll /\ c.post = "idle" /\ c.link = "connecting"
        /\ c.ws.state = "opening" /\ c.ws.writable = FALSE /\ c.ws.drains = 0
        /\ c.jsonp = FALSE /\ c.transport = "websocket" /\ c.probe = "none"
        /\ c.prevBufferLen = 0 /\ c.writeBuffer = <<>>
    BY <2>1 DEF WsOpen, Idle
  <2>5. c.poll.state = "" /\ c.poll.writable = FALSE /\ c.poll.waits = {}
    BY <1>i, <2>4
  <2>6. Typed(c)
    BY <1>0, <2>3, <2>4 DEF Typed
  <2>7. Coherent(c)
    BY <2>4, <2>5 DEF Coherent
  <2>8. PollOpen(c)
    BY <2>4, <2>5 DEF PollOpen
  <2>9. WsOpened(c)
    <3>1. ~ c.ws.writable /\ ~ (c.ws.drains > 0)
      BY <2>4
    <3> QED BY <2>4, <3>1 DEF WsOpened
  <2> QED BY <1>1, <2>6, <2>7, <2>8, <2>9 DEF SafeInv, Safe, Basic
<1>5. CASE transport # "websocket"
  <2> DEFINE t == [Idle EXCEPT !.jsonp = transport = "jsonp", !.poll.state = "opening",
                               !.poll.heard = TRUE]
             u == Create(t, "get")
  <2>1. c = [u EXCEPT !.poll.polling = TRUE]
    BY <1>3, <1>5 DEF Open, polling, Poll
  <2>2. t \in Client
    BY <1>2 DEF Client, Polling
  <2>3. u \in Client
    <3> HIDE DEF t
    <3> QED BY <2>2 DEF Create, Client, Request
  <2>4. c \in Client
    <3> HIDE DEF u
    <3> QED BY ZenonT(60), <2>1, <2>3 DEF Client, Polling
  <2>5. /\ c.threw = FALSE /\ c.poll.state = "opening" /\ c.poll.writable = FALSE
        /\ c.poll.heard = TRUE /\ c.poll.waits = {} /\ c.post = "idle" /\ c.link = "none"
        /\ c.transport = "polling" /\ c.probe = "none" /\ c.upgrading = FALSE
        /\ c.prevBufferLen = 0 /\ c.writeBuffer = <<>>
    <3>1. /\ t.threw = FALSE /\ t.poll.state = "opening" /\ t.poll.writable = FALSE
          /\ t.poll.heard = TRUE /\ t.poll.waits = {} /\ t.post = "idle" /\ t.link = "none"
          /\ t.transport = "polling" /\ t.probe = "none" /\ t.upgrading = FALSE
          /\ t.prevBufferLen = 0 /\ t.writeBuffer = <<>>
      BY <1>2, <1>i DEF Client, Polling
    <3> HIDE DEF t
    <3>2. SameButPost(t, u) /\ SameBuffer(t, u) /\ u.post = t.post /\ u.link = t.link
      BY <2>2 DEF Create, Client, SameButPost, SameBuffer
    <3> HIDE DEF u
    <3>3. /\ SameButPost(u, c) /\ SameBuffer(u, c) /\ c.post = u.post /\ c.link = u.link
      BY <2>1, <2>3 DEF Client, Polling, SameButPost, SameBuffer
    <3> QED BY <3>1, <3>2, <3>3 DEF SameButPost, SameBuffer
  <2>6. Typed(c)
    BY <1>0, <2>4, <2>5 DEF Typed
  <2>7. Coherent(c)
    BY <2>5 DEF Coherent
  <2>8. PollOpen(c) /\ WsOpened(c)
    BY <2>5 DEF PollOpen, WsOpened
  <2> QED BY <1>1, <2>6, <2>7, <2>8 DEF SafeInv, Safe, Basic
<1> QED BY <1>4, <1>5

LEMMA ReadsSafe == SafeInv /\ Reads => Safe(c')
<1> SUFFICES ASSUME SafeInv, Reads
             PROVE  Safe(c')
  OBVIOUS
<1>0. /\ c \in Client /\ Safe(c) /\ c.payload \in Seq(DownPacket)
      /\ c.answer \in Seq(DownPacket)
  BY DEF SafeInv, Safe, Basic, Typed, Client
<1>e. <<>> \in Seq(DownPacket)
  OBVIOUS
<1>1. CASE TakeAnswer
  <2> DEFINE t == CleanUp(c, "get")
             u == [t EXCEPT !.answer = <<>>, !.reading = TRUE, !.payload = c.answer]
  <2>1. t \in Client
    BY <1>0 DEF CleanUp, Client, Request
  <2>2. SameButPost(c, t) /\ SameBuffer(c, t)
    BY <1>0 DEF CleanUp, Client, SameButPost, SameBuffer
  <2>3. c' = u
    BY <1>1 DEF TakeAnswer
  <2> HIDE DEF t
  <2>4. u \in Client
    BY <1>0, <1>e, <2>1 DEF Client
  <2>5. SameSafe(t, u) /\ SameBuffer(t, u)
    BY <2>1 DEF Client, SameSafe, SameBuffer
  <2>6. Safe(t)
    BY <1>0, <2>1, <2>2, SameButPostSafe DEF Safe, Basic, Typed, SameBuffer
  <2> QED BY <2>3, <2>4, <2>5, <2>6, SameIsSafe DEF Safe, Basic, Typed, SameBuffer
<1>2. ASSUME NEW act \in Page, NextPacket(act)
      PROVE  Safe(c')
  <2> DEFINE p == Head(c.payload)
             open == IF c.poll.state = "opening"
                     THEN [c EXCEPT !.poll.state = "open", !.poll.writable = TRUE] ELSE c
             t == [open EXCEPT !.payload = Tail(@)]
             shut == [t EXCEPT !.poll.state = "closed", !.payload = <<>>]
  <2>1. p \in DownPacket /\ Tail(c.payload) \in Seq(DownPacket)
    BY <1>0, <1>2 DEF NextPacket
  <2>2. open \in Client
    <3>1. [c EXCEPT !.poll.state = "open", !.poll.writable = TRUE] \in Client
      BY <1>0 DEF Client, Polling
    <3> QED BY <1>0, <3>1
  <2>3. /\ open.threw = c.threw
        /\ open.poll.state = "open" \/ open.poll = c.poll
        /\ open.poll.heard = c.poll.heard /\ open.poll.waits = c.poll.waits
        /\ open.post = c.post /\ open.link = c.link /\ open.ws = c.ws
        /\ open.jsonp = c.jsonp /\ open.upgrading = c.upgrading
        /\ open.transport = c.transport /\ open.probe = c.probe /\ open.ready = c.ready
        /\ open.payload = c.payload /\ SameBuffer(c, open)
    BY <1>0 DEF Client, Polling, SameBuffer
  <2>4. \/ c' = OnClose(shut) \/ c' = OnPacket(t, p, act) \/ c' = t
        \/ c' = shut /\ ~ t.poll.heard
    <3>1. CASE p.type = "close" /\ t.poll.heard
      BY <1>2, <3>1 DEF NextPacket
    <3>2. CASE p.type = "close" /\ ~ t.poll.heard
      BY <1>2, <3>2 DEF NextPacket
    <3>3. CASE p.type # "close" /\ t.poll.heard
      BY <1>2, <3>3 DEF NextPacket
    <3>4. CASE p.type # "close" /\ ~ t.poll.heard
      BY <1>2, <3>4 DEF NextPacket
    <3> QED BY <3>1, <3>2, <3>3, <3>4
  <2> HIDE DEF open, p
  <2>5. Safe(open)
    BY <1>0, <2>2, <2>3 DEF Safe, Basic, Typed, Coherent, PollOpen, WsOpened, SameBuffer
  <2>6. t \in Client
    BY <2>1, <2>2, <2>3 DEF Client
  <2>7. SameSafe(open, t) /\ SameBuffer(open, t)
    BY <2>2 DEF Client, SameSafe, SameBuffer
  <2> HIDE DEF t
  <2>8. Safe(t)
    BY <2>5, <2>6, <2>7, SameIsSafe DEF Safe, Basic, Typed, SameBuffer
  <2>9. shut \in Client
    BY <1>e, <2>6 DEF Client, Polling
  <2>10. /\ shut.threw = t.threw /\ shut.poll.state = "closed" /\ shut.poll.waits = t.poll.waits
         /\ shut.post = t.post /\ shut.link = t.link /\ shut.ws = t.ws
         /\ shut.jsonp = t.jsonp /\ shut.upgrading = t.upgrading
         /\ shut.transport = t.transport /\ shut.probe = t.probe /\ shut.ready = t.ready
         /\ SameBuffer(t, shut)
    BY <2>6 DEF Client, Polling, SameBuffer
  <2> HIDE DEF shut
  <2>11. Basic(shut) /\ (~ t.poll.heard => Safe(shut))
    BY <2>8, <2>9, <2>10 DEF Safe, Basic, Typed, Coherent, PollOpen, WsOpened, SameBuffer
  <2> QED BY <2>1, <2>4, <2>8, <2>11, OnCloseSure, ClosedSafe, PacketSafe
<1>3. CASE EndOfPayload
  <2> DEFINE t == [c EXCEPT !.reading = FALSE]
             idle == [t EXCEPT !.poll.polling = FALSE]
             over == WaitOver(idle, "pollComplete")
             asked == Create(over, "get")
  <2>1. t \in Client
    BY <1>0 DEF Client
  <2>2. SameButPost(c, t) /\ SameBuffer(c, t)
    BY <1>0 DEF Client, SameButPost, SameBuffer
  <2>3. c' = t \/ c' = [asked EXCEPT !.poll.polling = TRUE] \/ c' = over
    <3>1. CASE t.poll.state = "closed"
      BY <1>3, <3>1 DEF EndOfPayload
    <3>2. CASE t.poll.state # "closed" /\ over.poll.state = "open"
      BY <1>3, <3>2 DEF EndOfPayload, Poll
    <3>3. CASE t.poll.state # "closed" /\ over.poll.state # "open"
      BY <1>3, <3>3 DEF EndOfPayload
    <3> QED BY <3>1, <3>2, <3>3
  <2> HIDE DEF t
  <2>4. Safe(t)
    BY <1>0, <2>1, <2>2, SameButPostSafe DEF Safe, Basic, Typed, SameBuffer
  <2>5. idle \in Client
    BY <2>1 DEF Client, Polling
  <2>6. SameButPost(t, idle) /\ SameBuffer(t, idle)
    BY <2>1 DEF Client, Polling, SameButPost, SameBuffer
  <2> HIDE DEF idle
  <2>7. Safe(idle)
    BY <2>4, <2>5, <2>6, SameButPostSafe DEF Safe, Basic, Typed, SameBuffer
  <2>8. Safe(over)
    BY <2>7, PauseSafe
  <2> HIDE DEF over
  <2>9. over \in Client
    BY <2>8 DEF Safe, Basic, Typed
  <2>10. asked \in Client
    BY <2>9 DEF Create, Client, Request
  <2>11. SameButPost(over, asked) /\ SameBuffer(over, asked)
    BY <2>9 DEF Create, Client, SameButPost, SameBuffer
  <2> HIDE DEF asked
  <2>12. [asked EXCEPT !.poll.polling = TRUE] \in Client
    BY <2>10 DEF Client, Polling
  <2>13. /\ SameButPost(asked, [asked EXCEPT !.poll.polling = TRUE])
         /\ SameBuffer(asked, [asked EXCEPT !.poll.polling = TRUE])
    BY <2>10 DEF Client, Polling, SameButPost, SameBuffer
  <2>14. Safe(asked)
    BY <2>8, <2>10, <2>11, SameButPostSafe DEF Safe, Basic, Typed, SameBuffer
  <2>15. Safe([asked EXCEPT !.poll.polling = TRUE])
    BY <2>12, <2>13, <2>14, SameButPostSafe DEF Safe, Basic, Typed, SameBuffer
  <2> QED BY <2>3, <2>4, <2>8, <2>15
<1> QED BY <1>1, <1>2, <1>3 DEF Reads

LEMMA CleanUpSafe ==
  ASSUME NEW s, NEW r \in {"get", "post"}, Safe(s)
  PROVE  Safe(CleanUp(s, r))
<1> DEFINE t == CleanUp(s, r)
<1>1. s \in Client
  BY DEF Safe, Basic, Typed
<1>2. CASE r = "get"
  <2>1. t \in Client
    BY ZenonT(60), <1>1, <1>2 DEF CleanUp, Client, Request
  <2>2. SameButPost(s, t) /\ SameBuffer(s, t)
    BY <1>1, <1>2 DEF CleanUp, Client, SameButPost, SameBuffer
  <2> QED BY <2>1, <2>2, SameButPostSafe DEF Safe, Basic, Typed, SameBuffer
<1>3. CASE r = "post"
  <2>1. t \in Client
    BY ZenonT(60), <1>1, <1>3 DEF CleanUp, Client, Request
  <2>2. SameButPost(s, t) /\ SameBuffer(s, t)
    BY <1>1, <1>3 DEF CleanUp, Client, SameButPost, SameBuffer
  <2> QED BY <2>1, <2>2, SameButPostSafe DEF Safe, Basic, Typed, SameBuffer
<1> QED BY <1>2, <1>3

LEMMA RequestsSafe ==
  SafeInv /\ (PollFails \/ PostFails \/ PostDone) => Safe(c')
<1> SUFFICES ASSUME SafeInv, PollFails \/ PostFails \/ PostDone
             PROVE  Safe(c')
  OBVIOUS
<1>0. c \in Client /\ Safe(c) /\ Basic(c)
  BY DEF SafeInv, Safe, Basic, Typed
<1>1. Safe(TransportError(c))
  BY <1>0, OnCloseSure, ClosedSafe DEF TransportError
<1>2. CASE PollFails
  <2>1. c' = CleanUp(TransportError(c), "get")
    BY <1>2 DEF PollFails
  <2> QED BY <1>1, <2>1, CleanUpSafe
<1>3. CASE PostFails
  <2>1. c' = CleanUp(TransportError(c), "post")
    BY <1>3 DEF PostFails
  <2> QED BY <1>1, <2>1, CleanUpSafe
<1>4. CASE PostDone
  <2> DEFINE idle == CleanUp(c, "post")
             t == [idle EXCEPT !.poll.writable = TRUE]
             drained == IF t.poll.heard THEN OnDrain(t) ELSE t
  <2>1. c.post # "idle"
    BY <1>4 DEF PostDone, PostSucceeds
  <2>2. c.poll.state \notin {"", "opening"}
    BY <1>0, <2>1 DEF Basic, Coherent
  <2>3. Safe(idle)
    BY <1>0, CleanUpSafe
  <2>4. idle.poll = c.poll
    BY <1>0 DEF CleanUp, Client
  <2>5. c' = WaitOver(drained, "drain")
    BY <1>4 DEF PostDone
  <2> HIDE DEF idle
  <2>6. idle \in Client
    BY <2>3 DEF Safe, Basic, Typed
  <2>7. t \in Client
    BY <2>6 DEF Client, Polling
  <2>8. /\ t.threw = idle.threw /\ t.poll.state = idle.poll.state
        /\ t.poll.heard = idle.poll.heard /\ t.poll.waits = idle.poll.waits
        /\ t.ws = idle.ws /\ t.jsonp = idle.jsonp /\ t.upgrading = idle.upgrading
        /\ t.transport = idle.transport /\ t.probe = idle.probe /\ t.ready = idle.ready
        /\ t.link = idle.link /\ SameBuffer(idle, t)
    BY <2>6 DEF Client, Polling, SameBuffer
  <2> HIDE DEF t
  <2>9. Safe(t)
    BY <2>2, <2>3, <2>4, <2>7, <2>8
       DEF Safe, Basic, Typed, Coherent, PollOpen, WsOpened, SameBuffer
  <2>10. Safe(drained)
    BY <2>9, DrainSafe
  <2> QED BY <2>5, <2>10, PauseSafe
<1> QED BY <1>2, <1>3, <1>4

LEMMA WebSocketSafe ==
  SafeInv /\ (WsOpens \/ (\E act \in Page : WsMessage(act)) \/ WsDrained \/ WsLost)
    => Safe(c')
<1> SUFFICES ASSUME SafeInv
             PROVE  /\ WsOpens => Safe(c')
                    /\ \A act \in Page : WsMessage(act) => Safe(c')
                    /\ WsDrained => Safe(c')
                    /\ WsLost => Safe(c')
  OBVIOUS
<1>0. c \in Client /\ Safe(c) /\ Basic(c)
  BY DEF SafeInv, Safe, Basic, Typed
<1>1. ASSUME WsOpens
      PROVE  Safe(c')
  <2> DEFINE t == [c EXCEPT !.link = "up", !.ws.state = "open", !.ws.writable = TRUE]
             pinged == WsWrite(t, <<Packet("probe")>>)
             done == [pinged EXCEPT !.probe = "pinged"]
  <2>1. ~ c.jsonp
    BY <1>0, <1>1 DEF WsOpens, Basic, Coherent
  <2>2. t \in Client
    BY <1>0 DEF Client, WS
  <2>3. /\ t.threw = c.threw /\ t.poll = c.poll /\ t.post = c.post /\ t.link = "up"
        /\ t.ws.state = "open" /\ t.jsonp = c.jsonp /\ t.upgrading = c.upgrading
        /\ t.transport = c.transport /\ t.probe = c.probe /\ t.ready = c.ready
        /\ SameBuffer(c, t)
    BY <1>0 DEF Client, WS, SameBuffer
  <2>4. c' = done \/ c' = t
    BY <1>1 DEF WsOpens
  <2> HIDE DEF t
  <2>5. Safe(t)
    BY <1>0, <2>1, <2>2, <2>3
       DEF Safe, Basic, Typed, Coherent, PollOpen, WsOpened, SameBuffer
  <2>6. <<Packet("probe")>> \in Seq(UpPacket)
    BY UpPackets
  <2>7. Safe(pinged) /\ pinged.ws.state = "open"
    <3>1. Safe(pinged)
      BY <2>3, <2>5, <2>6, WsWriteSafe
    <3>2. pinged.ws.state = "open"
      BY <2>2, <2>3 DEF WsWrite, Client, WS
    <3> QED BY <3>1, <3>2
  <2> HIDE DEF pinged
  <2>8. pinged \in Client
    BY <2>7 DEF Safe, Basic, Typed
  <2>9. done \in Client
    BY <2>8 DEF Client
  <2>10. /\ done.threw = pinged.threw /\ done.poll = pinged.poll /\ done.post = pinged.post
         /\ done.link = pinged.link /\ done.ws = pinged.ws /\ done.jsonp = pinged.jsonp
         /\ done.upgrading = pinged.upgrading /\ done.transport = pinged.transport
         /\ done.probe = "pinged" /\ done.ready = pinged.ready /\ SameBuffer(pinged, done)
    BY <2>8 DEF Client, SameBuffer
  <2> HIDE DEF done
  <2>11. Safe(done)
    BY <2>7, <2>9, <2>10 DEF Safe, Basic, Typed, Coherent, PollOpen, WsOpened, SameBuffer
  <2> QED BY <2>4, <2>5, <2>11
<1>2. ASSUME NEW act \in Page, WsMessage(act)
      PROVE  Safe(c')
  <2> DEFINE t == [c EXCEPT !.down = Tail(@)]
             p == Head(c.down)
             ponged == [t EXCEPT !.upgrading = TRUE, !.probe = "ponged"]
  <2>1. c.down \in Seq(DownPacket) /\ c.down # <<>> /\ c.link = "up"
    BY <1>0, <1>2 DEF WsMessage, Client
  <2>2. p \in DownPacket /\ Tail(c.down) \in Seq(DownPacket)
    BY <2>1
  <2>3. t \in Client
    BY <1>0, <2>2 DEF Client
  <2>4. SameSafe(c, t) /\ SameBuffer(c, t)
    BY <1>0 DEF Client, SameSafe, SameBuffer
  <2>5. \/ c' = OnPacket(t, p, act) \/ c' = t
        \/ c' = Pause(ponged) /\ t.transport # "websocket"
    <3>1. CASE t.transport = "websocket"
      BY <1>2, <3>1 DEF WsMessage
    <3>2. CASE t.transport # "websocket" /\ t.probe = "pinged" /\ p.type = "probe"
      BY <1>2, <3>2 DEF WsMessage
    <3>3. CASE t.transport # "websocket" /\ ~ (t.probe = "pinged" /\ p.type = "probe")
      BY <1>2, <3>3 DEF WsMessage
    <3> QED BY <3>1, <3>2, <3>3
  <2> HIDE DEF t, p
  <2>6. Safe(t)
    BY <1>0, <2>3, <2>4, SameIsSafe DEF Safe, Basic, Typed, SameBuffer
  <2>7. t.ws.state = "open"
    BY <1>0, <2>1, <2>4 DEF Basic, Coherent, SameSafe
  <2>8. ponged \in Client
    BY <2>3 DEF Client
  <2>9. /\ ponged.threw = t.threw /\ ponged.poll = t.poll /\ ponged.post = t.post
        /\ ponged.link = t.link /\ ponged.ws = t.ws /\ ponged.jsonp = t.jsonp
        /\ ponged.upgrading = TRUE /\ ponged.transport = t.transport
        /\ ponged.ready = t.ready /\ SameBuffer(t, ponged)
    BY <2>3 DEF Client, SameBuffer
  <2> HIDE DEF ponged
  <2>10. Safe(ponged)
    BY <2>6, <2>7, <2>8, <2>9 DEF Safe, Basic, Typed, Coherent, PollOpen, WsOpened, SameBuffer
  <2> QED BY <2>2, <2>5, <2>6, <2>9, <2>10, PacketSafe, PauseSafe
<1>3. ASSUME WsDrained
      PROVE  Safe(c')
  <2> DEFINE t == [c EXCEPT !.ws.drains = @ - 1, !.ws.writable = TRUE]
  <2>1. c.ws \in WS
    BY <1>0 DEF Client
  <2>2. c.ws.drains \in Nat
    BY <2>1 DEF WS
  <2>3. c.ws.drains - 1 \in Nat
    BY <1>3, <2>2 DEF WsDrained
  <2>4. t \in Client
    BY <1>0, <2>3 DEF Client, WS
  <2>5. /\ t.threw = c.threw /\ t.poll = c.poll /\ t.post = c.post /\ t.link = c.link
        /\ t.ws.state = c.ws.state /\ t.jsonp = c.jsonp /\ t.upgrading = c.upgrading
        /\ t.transport = c.transport /\ t.probe = c.probe /\ t.ready = c.ready
        /\ SameBuffer(c, t)
    BY <1>0 DEF Client, WS, SameBuffer
  <2>6. c' = OnDrain(t) \/ c' = t
    BY <1>3 DEF WsDrained
  <2>7. c.ws.drains > 0
    BY <1>3 DEF WsDrained
  <2> HIDE DEF t
  <2>8. Safe(t)
    BY <1>0, <2>4, <2>5, <2>7
       DEF Safe, Basic, Typed, Coherent, PollOpen, WsOpened, SameBuffer
  <2> QED BY <2>6, <2>8, DrainSafe
<1>4. ASSUME WsLost
      PROVE  Safe(c')
  <2> DEFINE t == [c EXCEPT !.ws.state = "closed"]
  <2>1. t \in Client
    BY <1>0 DEF Client, WS
  <2>2. /\ t.threw = c.threw /\ t.poll = c.poll /\ t.post = c.post /\ t.link = "down"
        /\ t.jsonp = c.jsonp /\ t.upgrading = c.upgrading
        /\ t.transport = c.transport /\ t.probe = c.probe /\ t.ready = c.ready
        /\ SameBuffer(c, t)
    BY <1>0, <1>4 DEF WsLost, Client, SameBuffer
  <2>3. \/ c' = OnClose(t)
        \/ c' = ProbeError(t) /\ t.transport # "websocket"
        \/ c' = t /\ t.transport # "websocket" /\ ~ Probing(t)
    <3>1. CASE t.transport = "websocket"
      BY <1>4, <3>1 DEF WsLost
    <3>2. CASE t.transport # "websocket" /\ Probing(t)
      BY <1>4, <3>2 DEF WsLost
    <3>3. CASE t.transport # "websocket" /\ ~ Probing(t)
      BY <1>4, <3>3 DEF WsLost
    <3> QED BY <3>1, <3>2, <3>3
  <2> HIDE DEF t
  <2>4. Basic(t) /\ (t.ready # "closed" => PollOpen(t))
    BY <1>0, <2>1, <2>2 DEF Safe, Basic, Typed, Coherent, PollOpen, SameBuffer
  <2>5. t.transport \in {"polling", "websocket"}
    BY <2>1 DEF Client
  <2>6. t.transport # "websocket" /\ ~ Probing(t) => Safe(t)
    BY <2>4 DEF Safe, WsOpened, Probing
  <2> QED BY <2>3, <2>4, <2>5, <2>6, OnCloseSure, ClosedSafe, ProbeErrorSafe
<1> QED BY <1>1, <1>2, <1>3, <1>4

LEMMA TimersSafe ==
  SafeInv /\ (PingInterval \/ PingTimeout \/ PageWrites \/ PageCloses) => Safe(c')
<1> SUFFICES ASSUME SafeInv, PingInterval \/ PingTimeout \/ PageWrites \/ PageCloses
             PROVE  Safe(c')
  OBVIOUS
<1>0. c \in Client /\ Safe(c) /\ Basic(c) /\ Typed(c)
  BY DEF SafeInv, Safe, Basic, Typed
<1>1. CASE PingInterval
  <2> DEFINE t == SendPacket(c, Packet("ping"))
             u == [t EXCEPT !.pingInterval = FALSE, !.pingTimeout = TRUE]
  <2>1. Safe(t)
    BY <1>0, UpPackets, SendPacketSafe
  <2>2. c' = u
    BY <1>1 DEF PingInterval
  <2> HIDE DEF t
  <2>3. t \in Client
    BY <2>1 DEF Safe, Basic, Typed
  <2>4. u \in Client
    BY <2>3 DEF Client
  <2>5. SameSafe(t, u) /\ SameBuffer(t, u)
    BY <2>3 DEF Client, SameSafe, SameBuffer
  <2> QED BY <2>1, <2>2, <2>4, <2>5, SameIsSafe DEF Safe, Basic, Typed, SameBuffer
<1>2. CASE PingTimeout
  <2> DEFINE t == [c EXCEPT !.pingTimeout = FALSE, !.failed = TRUE]
  <2>1. t \in Client
    BY <1>0 DEF Client
  <2>2. SameSafe(c, t) /\ SameBuffer(c, t)
    BY <1>0 DEF Client, SameSafe, SameBuffer
  <2>3. c' = OnClose(t)
    BY <1>2 DEF PingTimeout
  <2> HIDE DEF t
  <2>4. Basic(t)
    BY <1>0, <2>1, <2>2, SameIsSafe DEF Typed, SameBuffer
  <2> QED BY <2>3, <2>4, OnCloseSure, ClosedSafe
<1>3. CASE PageWrites
  <2>1. c' = SendPacket(c, Message(NextMessage(c))) /\ NextMessage(c) <= MaxSent
    BY <1>3 DEF PageWrites
  <2>2. NextMessage(c) \in 1 .. MaxSent
    BY <1>0, <2>1, NextMessageType
  <2> QED BY <1>0, <2>1, <2>2, UpPackets, SendPacketSafe
<1>4. CASE PageCloses
  <2>1. c' = Close(c)
    BY <1>4 DEF PageCloses
  <2> QED BY <1>0, <2>1, CloseSafe
<1> QED BY <1>1, <1>2, <1>3, <1>4

\* The server and the network: what they put into requests and onto the link has
\* its type, and they touch nothing else.
LEMMA DownPackets ==
  /\ \A n \in 1 .. MaxServed : Message(n) \in DownPacket
  /\ \A type \in {"open", "pong", "noop", "close", "error"} : Packet(type) \in DownPacket
BY DEF Message, Packet, DownPacket

LEMMA TakeType ==
  ASSUME srv \in Server, NEW ps \in Seq(UpPacket)
  PROVE  Take(ps) \in Server
<1> DEFINE D == {i \in DOMAIN ps : ps[i].type = "ping"}
           pings == Cardinality(D)
           pongs == [i \in 1 .. pings |-> Packet("pong")]
<1>1. DOMAIN ps = 1 .. Len(ps) /\ Len(ps) \in Nat
  OBVIOUS
<1>2. IsFiniteSet(1 .. Len(ps)) /\ D \subseteq 1 .. Len(ps)
  BY <1>1, FS_Interval
<1>3. pings \in Nat
  BY <1>2, FS_Subset, FS_CardinalityType
<1> HIDE DEF pings
<1>4. pongs \in Seq(DownPacket)
  BY <1>3, DownPackets
<1>5. srv.received \in Seq(UpPacket) /\ srv.out \in Seq(DownPacket)
  BY DEF Server
<1> HIDE DEF pongs
<1>6. srv.received \o ps \in Seq(UpPacket) /\ srv.out \o pongs \in Seq(DownPacket)
  BY <1>4, <1>5
<1>7. [srv EXCEPT !.received = @ \o ps, !.out = @ \o pongs] \in Server
  BY <1>6 DEF Server
<1> QED BY <1>7 DEF Take, pongs, pings

LEMMA ExternalSafe ==
  SafeInv /\ (Answer \/ Serves \/ Serve \/ ServerEnds \/ NetworkFails \/ Garbage)
    => SafeInv'
<1> SUFFICES ASSUME SafeInv,
                    Answer \/ Serves \/ Serve \/ ServerEnds \/ NetworkFails \/ Garbage
             PROVE  SafeInv'
  OBVIOUS
<1>0. /\ c \in Client /\ Safe(c) /\ Typed(c) /\ srv \in Server
      /\ c.answer \in Seq(DownPacket) /\ c.posted \in Seq(UpPacket)
      /\ c.up \in Seq(UpPacket) /\ c.down \in Seq(DownPacket)
      /\ srv.out \in Seq(DownPacket) /\ srv.served \in Nat
  BY DEF SafeInv, Safe, Basic, Typed, Client, Server
<1>e. <<>> \in Seq(DownPacket) /\ <<>> \in Seq(UpPacket)
  OBVIOUS
<1>a. ASSUME c' \in Client, SameButPost(c, c'), SameBuffer(c, c'), srv' \in Server
      PROVE  SafeInv'
  BY <1>0, <1>a, SameButPostSafe DEF SafeInv, Typed, SameBuffer
<1>b. ASSUME UNCHANGED c, srv' \in Server
      PROVE  SafeInv'
  BY <1>b DEF SafeInv
<1>1. CASE Answer
  <2>1. (IF srv.out = <<>> THEN <<Packet("noop")>> ELSE srv.out) \in Seq(DownPacket)
    BY <1>0, DownPackets
  <2>2. c' \in Client
    BY ZenonT(60), <1>0, <1>1, <2>1 DEF Answer, Client, Request
  <2>3. SameButPost(c, c') /\ SameBuffer(c, c')
    BY <1>0, <1>1 DEF Answer, Client, SameButPost, SameBuffer
  <2>4. srv' \in Server
    BY <1>0, <1>e, <1>1 DEF Answer, Server
  <2> QED BY <1>a, <2>2, <2>3, <2>4
<1>2. CASE Serves
  <2>1. CASE Accept
    <3>1. srv' \in Server
      <4>1. <<Packet("open")>> \in Seq(DownPacket) /\ c.transport \in {"polling", "websocket"}
        BY <1>0, DownPackets DEF Client
      <4> QED BY <1>0, <2>1, <4>1 DEF Accept, Server
    <3>2. CASE UNCHANGED c
      BY <1>b, <3>1, <3>2
    <3>3. CASE c.link = "connecting" /\ c' = [c EXCEPT !.link = "accepted"]
      <4>1. c' \in Client
        BY <1>0, <3>3 DEF Client
      <4>2. SameButPost(c, c') /\ SameBuffer(c, c')
        BY <1>0, <3>3 DEF Client, SameButPost, SameBuffer
      <4> QED BY <1>a, <3>1, <4>1, <4>2
    <3> QED BY <2>1, <3>2, <3>3 DEF Accept
  <2>2. CASE AcceptProbe
    <3>1. c.link = "connecting" /\ c' = [c EXCEPT !.link = "accepted"] /\ srv' = srv
      BY <2>2 DEF AcceptProbe
    <3>2. c' \in Client
      BY ZenonT(60), <1>0, <3>1 DEF Client
    <3>3. SameButPost(c, c') /\ SameBuffer(c, c')
      BY <1>0, <3>1 DEF Client, SameButPost, SameBuffer
    <3> QED BY <1>0, <1>a, <3>1, <3>2, <3>3
  <2>3. CASE ReadPost
    <3>1. c.post = "asked" /\ c' = [c EXCEPT !.post = "answered", !.posted = <<>>]
          /\ srv' = Take(c.posted)
      BY <2>3 DEF ReadPost
    <3>2. c' \in Client
      BY ZenonT(60), <1>0, <1>e, <3>1 DEF Client, Request
    <3>3. SameButPost(c, c') /\ SameBuffer(c, c')
      BY <1>0, <3>1 DEF Client, SameButPost, SameBuffer
    <3> QED BY <1>0, <1>a, <3>1, <3>2, <3>3, TakeType
  <2>4. CASE ReadBye
    <3>1. c' \in Client
      BY ZenonT(60), <1>0, <2>4 DEF ReadBye, Client
    <3>2. SameButPost(c, c') /\ SameBuffer(c, c')
      BY <1>0, <2>4 DEF ReadBye, Client, SameButPost, SameBuffer
    <3>3. srv' \in Server
      BY <1>0, <2>4 DEF ReadBye, Server
    <3> QED BY <1>a, <3>1, <3>2, <3>3
  <2>5. CASE ReadWs
    <3> DEFINE p == Head(c.up)
    <3>1. p \in UpPacket /\ Tail(c.up) \in Seq(UpPacket) /\ <<p>> \in Seq(UpPacket)
      BY <1>0, <2>5 DEF ReadWs
    <3>2. p.type = "probe" => p \in DownPacket
      BY <3>1 DEF UpPacket, DownPacket
    <3>3. (IF p.type = "probe" THEN Append(c.down, p) ELSE c.down) \in Seq(DownPacket)
      BY <1>0, <3>2
    <3>4. c' = [c EXCEPT !.up = Tail(@), !.down = IF p.type = "probe" THEN Append(@, p) ELSE @]
      BY <2>5 DEF ReadWs
    <3>5. \/ srv' = [srv EXCEPT !.probed = TRUE]
          \/ srv' = [srv EXCEPT !.on = "websocket", !.probed = FALSE]
          \/ srv' = Take(<<p>>)
      <4>1. CASE p.type = "probe"
        BY <2>5, <4>1 DEF ReadWs
      <4>2. CASE p.type = "upgrade"
        BY <2>5, <4>2 DEF ReadWs
      <4>3. CASE p.type \notin {"probe", "upgrade"}
        BY <2>5, <4>3 DEF ReadWs
      <4> QED BY <4>1, <4>2, <4>3
    <3> HIDE DEF p
    <3>6. c' \in Client
      BY ZenonT(60), <1>0, <3>1, <3>3, <3>4 DEF Client
    <3>7. SameButPost(c, c') /\ SameBuffer(c, c')
      BY <1>0, <3>4 DEF Client, SameButPost, SameBuffer
    <3>8. srv' \in Server
      <4>1. [srv EXCEPT !.probed = TRUE] \in Server
            /\ [srv EXCEPT !.on = "websocket", !.probed = FALSE] \in Server
        BY <1>0 DEF Server
      <4> QED BY <1>0, <3>1, <3>5, <4>1, TakeType
    <3> QED BY <1>a, <3>6, <3>7, <3>8
  <2>6. CASE PushWs
    <3>1. c.down \o srv.out \in Seq(DownPacket)
      BY <1>0
    <3>2. c' \in Client
      BY <1>0, <2>6, <3>1 DEF PushWs, Client
    <3>3. SameButPost(c, c') /\ SameBuffer(c, c')
      BY <1>0, <2>6 DEF PushWs, Client, SameButPost, SameBuffer
    <3>4. srv' \in Server
      BY <1>0, <1>e, <2>6 DEF PushWs, Server
    <3> QED BY <1>a, <3>2, <3>3, <3>4
  <2>7. CASE SeesWsClosed
    <3>1. srv' \in Server
      BY <1>0, <2>7 DEF SeesWsClosed, Server
    <3> QED BY <1>b, <2>7, <3>1 DEF SeesWsClosed
  <2>8. CASE Refuse
    <3> SUFFICES c' \in Client /\ SameButPost(c, c') /\ SameBuffer(c, c')
      BY <1>0, <1>a, <2>8 DEF Refuse
    <3>1. CASE c.get = "asked" /\ c' = [c EXCEPT !.get = "failed"]
      <4>1. c' \in Client
        BY ZenonT(60), <1>0, <1>e, <3>1 DEF Client, Request
      <4>2. SameButPost(c, c') /\ SameBuffer(c, c')
        BY <1>0, <3>1 DEF Client, SameButPost, SameBuffer
      <4> QED BY <4>1, <4>2
    <3>2. CASE c.post = "asked" /\ c' = [c EXCEPT !.post = "failed", !.posted = <<>>]
      <4>1. c' \in Client
        BY ZenonT(60), <1>0, <1>e, <3>2 DEF Client, Request
      <4>2. SameButPost(c, c') /\ SameBuffer(c, c')
        BY <1>0, <3>2 DEF Client, SameButPost, SameBuffer
      <4> QED BY <4>1, <4>2
    <3>3. CASE c' = [c EXCEPT !.bye = FALSE]
      <4>1. c' \in Client
        BY ZenonT(60), <1>0, <3>3 DEF Client
      <4>2. SameButPost(c, c') /\ SameBuffer(c, c')
        BY <1>0, <3>3 DEF Client, SameButPost, SameBuffer
      <4> QED BY <4>1, <4>2
    <3>4. CASE c' = [c EXCEPT !.link = "down", !.up = <<>>]
      <4>1. c' \in Client
        BY ZenonT(60), <1>0, <1>e, <3>4 DEF Client
      <4>2. SameButPost(c, c') /\ SameBuffer(c, c')
        BY <1>0, <3>4 DEF Client, SameButPost, SameBuffer
      <4> QED BY <4>1, <4>2
    <3> QED BY <2>8, <3>1, <3>2, <3>3, <3>4 DEF Refuse
  <2> QED BY <1>2, <2>1, <2>2, <2>3, <2>4, <2>5, <2>6, <2>7, <2>8 DEF Serves
<1>3. CASE Serve
  <2>1. srv.served + 1 \in 1 .. MaxServed
    BY <1>0, <1>3 DEF Serve
  <2>2. Append(srv.out, Message(srv.served + 1)) \in Seq(DownPacket) /\ srv.served + 1 \in Nat
    BY <1>0, <2>1, DownPackets
  <2>3. srv' \in Server
    BY <1>0, <1>3, <2>2 DEF Serve, Server
  <2> QED BY <1>b, <1>3, <2>3 DEF Serve
<1>4. CASE ServerEnds
  <2>1. srv' \in Server
    BY <1>0, <1>4 DEF ServerEnds, Server
  <2>2. Append(srv.out, Packet("close")) \in Seq(DownPacket)
    BY <1>0, DownPackets
  <2>3. c' \in Client
    <3>1. CASE c' = [c EXCEPT !.failed = TRUE]
      BY <1>0, <3>1 DEF Client
    <3>2. CASE c' = [c EXCEPT !.failed = TRUE, !.get = "answered",
                              !.answer = Append(srv.out, Packet("close"))]
      BY ZenonT(60), <1>0, <2>2, <3>2 DEF Client, Request
    <3> QED BY <1>4, <3>1, <3>2 DEF ServerEnds
  <2>4. SameButPost(c, c') /\ SameBuffer(c, c')
    <3>1. CASE c' = [c EXCEPT !.failed = TRUE]
      BY <1>0, <3>1 DEF Client, SameButPost, SameBuffer
    <3>2. CASE c' = [c EXCEPT !.failed = TRUE, !.get = "answered",
                              !.answer = Append(srv.out, Packet("close"))]
      BY <1>0, <3>2 DEF Client, SameButPost, SameBuffer
    <3> QED BY <1>4, <3>1, <3>2 DEF ServerEnds
  <2> QED BY <1>a, <2>1, <2>3, <2>4
<1>5. CASE NetworkFails
  <2> SUFFICES c' \in Client /\ SameButPost(c, c') /\ SameBuffer(c, c')
    BY <1>0, <1>a, <1>5 DEF NetworkFails
  <2>1. CASE c' = [c EXCEPT !.get = "failed", !.answer = <<>>, !.failed = TRUE]
    <3>1. c' \in Client
      BY ZenonT(60), <1>0, <1>e, <2>1 DEF Client, Request
    <3>2. SameButPost(c, c') /\ SameBuffer(c, c')
      BY <1>0, <2>1 DEF Client, SameButPost, SameBuffer
    <3> QED BY <3>1, <3>2
  <2>2. CASE c.post # "idle" /\ c' = [c EXCEPT !.post = "failed", !.posted = <<>>, !.failed = TRUE]
    <3>1. c' \in Client
      BY ZenonT(60), <1>0, <1>e, <2>2 DEF Client, Request
    <3>2. SameButPost(c, c') /\ SameBuffer(c, c')
      BY <1>0, <2>2 DEF Client, SameButPost, SameBuffer
    <3> QED BY <3>1, <3>2
  <2>3. CASE c' = [c EXCEPT !.bye = FALSE, !.failed = TRUE]
    <3>1. c' \in Client
      BY ZenonT(60), <1>0, <2>3 DEF Client
    <3>2. SameButPost(c, c') /\ SameBuffer(c, c')
      BY <1>0, <2>3 DEF Client, SameButPost, SameBuffer
    <3> QED BY <3>1, <3>2
  <2>4. CASE c' = [c EXCEPT !.link = "down", !.up = <<>>, !.down = <<>>, !.failed = TRUE]
    <3>1. c' \in Client
      BY ZenonT(60), <1>0, <1>e, <2>4 DEF Client
    <3>2. SameButPost(c, c') /\ SameBuffer(c, c')
      BY <1>0, <2>4 DEF Client, SameButPost, SameBuffer
    <3> QED BY <3>1, <3>2
  <2> QED BY <1>5, <2>1, <2>2, <2>3, <2>4 DEF NetworkFails
<1>6. CASE Garbage
  <2>1. <<Packet("error")>> \in Seq(DownPacket)
    BY DownPackets
  <2>2. c' \in Client
    BY <1>0, <1>6, <2>1 DEF Garbage, Client
  <2>3. SameButPost(c, c') /\ SameBuffer(c, c')
    BY <1>0, <1>6 DEF Garbage, Client, SameButPost, SameBuffer
  <2> QED BY <1>0, <1>a, <1>6, <2>2, <2>3 DEF Garbage
<1> QED BY <1>1, <1>2, <1>3, <1>4, <1>5, <1>6

LEMMA SafeStep == SafeInv /\ [Next]_vars => SafeInv'
<1> SUFFICES ASSUME SafeInv, [Next]_vars
             PROVE  SafeInv'
  OBVIOUS
<1>1. CASE Reads \/ Events \/ PingTimeout \/ PageWrites \/ PageCloses
  <2>1. Safe(c')
    BY <1>1, ReadsSafe, RequestsSafe, WebSocketSafe, TimersSafe DEF Events
  <2>2. UNCHANGED srv
    BY <1>1 DEF Reads, TakeAnswer, NextPacket, EndOfPayload, Events, PollFails, PostFails,
                PostDone, WsOpens, WsDrained, WsLost, WsMessage, PingInterval,
                PingTimeout, PageWrites, PageCloses
  <2> QED BY <2>1, <2>2 DEF SafeInv
<1>2. CASE Answer \/ Serves \/ Serve \/ ServerEnds \/ NetworkFails \/ Garbage
  BY <1>2, ExternalSafe
<1>3. CASE UNCHANGED vars
  BY <1>3 DEF vars, SafeInv
<1> QED BY <1>1, <1>2, <1>3 DEF Next

LEMMA Safety == Spec => []SafeInv
BY InitSafe, SafeStep, PTL DEF Spec

\* Every variable keeps its type, and onDrain() never takes more off the write
\* buffer than is in it.
THEOREM TypeCorrect == Spec => []TypeOK
<1>1. SafeInv => TypeOK
  BY DEF SafeInv, Safe, Basic, Typed, TypeOK
<1> QED BY <1>1, Safety, PTL

\* No transport is given packets before it is open or after it was closed,
\* whenever the page writes or closes during an upgrade.
THEOREM NeverNotOpen == Spec => []NeverThrows
<1>1. SafeInv => NeverThrows
  BY DEF SafeInv, Safe, Basic, Coherent, NeverThrows
<1> QED BY <1>1, Safety, PTL

-----------------------------------------------------------------------------
(* The flow of packets.  The bounds do not matter from here on.            *)

HIDE BoundsAssumption

\* An increasing map of places, continued one by one.
Increasing(f, m) == \A i \in 1 .. m : \A j \in 1 .. i - 1 : f[j] < f[i]
Continues(e, f, m, n, l) ==
  /\ \A i \in 1 .. m : e[i] = f[i]
  /\ \A i \in 1 .. l : e[m + i] = n + i
  /\ Increasing(e, m + l)

\* A map that was continued stays increasing.
LEMMA Continued ==
  \A m, n, l \in Nat : \A f \in [1 .. m -> 1 .. n] :
    Increasing(f, m) => \E e \in [1 .. m + l -> 1 .. n + l] : Continues(e, f, m, n, l)
<1> SUFFICES ASSUME NEW m \in Nat, NEW n \in Nat, NEW l \in Nat, NEW f \in [1 .. m -> 1 .. n],
                    Increasing(f, m)
             PROVE  \E e \in [1 .. m + l -> 1 .. n + l] : Continues(e, f, m, n, l)
  OBVIOUS
<1> DEFINE e == [i \in 1 .. m + l |-> IF i \in 1 .. m THEN f[i] ELSE n + (i - m)]
<1>1. \A i \in 1 .. m : f[i] \in 1 .. n
  OBVIOUS
<1>2. \A i \in 1 .. m + l : i \in 1 .. m => e[i] = f[i]
  OBVIOUS
<1>3. \A i \in 1 .. m + l : i \notin 1 .. m => e[i] = n + (i - m)
  OBVIOUS
<1>4. DOMAIN e = 1 .. m + l /\ e = [i \in 1 .. m + l |-> e[i]]
  OBVIOUS
<1> HIDE DEF e
<1>5. ASSUME NEW i \in 1 .. m + l
      PROVE  e[i] \in 1 .. n + l
  <2>1. CASE i \in 1 .. m
    <3>1. e[i] = f[i] /\ f[i] \in 1 .. n
      BY <1>1, <1>2, <2>1
    <3> QED BY <3>1
  <2>2. CASE i \notin 1 .. m
    <3>1. e[i] = n + (i - m)
      BY <1>3, <2>2
    <3> QED BY <2>2, <3>1
  <2> QED BY <2>1, <2>2
<1>6. e \in [1 .. m + l -> 1 .. n + l]
  BY <1>4, <1>5
<1>7. \A i \in 1 .. l : e[m + i] = n + i
  <2> TAKE i \in 1 .. l
  <2>1. m + i \in 1 .. m + l /\ m + i \notin 1 .. m
    OBVIOUS
  <2>2. e[m + i] = n + ((m + i) - m)
    BY <1>3, <2>1
  <2> QED BY <2>2
<1>8. ASSUME NEW i \in 1 .. m + l, NEW j \in 1 .. i - 1
      PROVE  e[j] < e[i]
  <2>1. j \in 1 .. m + l /\ j < i /\ 1 <= j /\ i \in Nat /\ j \in Nat
    OBVIOUS
  <2>2. CASE i \in 1 .. m
    <3>1. j \in 1 .. m
      BY <2>1, <2>2
    <3>2. e[i] = f[i] /\ e[j] = f[j] /\ f[j] < f[i]
      BY <1>2, <2>1, <2>2, <3>1 DEF Increasing
    <3> QED BY <3>2
  <2>3. CASE i \notin 1 .. m /\ j \in 1 .. m
    <3>1. e[j] = f[j] /\ f[j] \in 1 .. n /\ e[i] = n + (i - m)
      BY <1>1, <1>2, <1>3, <2>1, <2>3
    <3>2. i > m
      BY <2>1, <2>3
    <3> QED BY <2>1, <3>1, <3>2
  <2>4. CASE i \notin 1 .. m /\ j \notin 1 .. m
    <3>1. e[j] = n + (j - m) /\ e[i] = n + (i - m)
      BY <1>3, <2>1, <2>4
    <3> QED BY <2>1, <3>1
  <2>5. ~ (i \in 1 .. m /\ j \notin 1 .. m)
    BY <2>1
  <2> QED BY <2>2, <2>3, <2>4, <2>5
<1>9. \A i \in 1 .. m : e[i] = f[i]
  BY <1>2
<1>10. \A i \in 1 .. m + l : \A j \in 1 .. i - 1 : e[j] < e[i]
  BY <1>8
<1> QED BY <1>6, <1>7, <1>9, <1>10 DEF Continues, Increasing

Arrives(whole, x, g) == IF whole THEN Connection!Begins(x, g) ELSE Connection!Within(x, g)

\* What arrived of g arrived of anything that goes on after g.
LEMMA ArrivesOfMore ==
  ASSUME NEW S, NEW whole \in BOOLEAN, NEW x \in Seq(S), NEW g \in Seq(S), NEW q \in Seq(S),
         Arrives(whole, x, g)
  PROVE  Arrives(whole, x, g \o q)
<1> DEFINE h == g \o q
<1>1. /\ h \in Seq(S) /\ Len(h) = Len(g) + Len(q) /\ Len(g) \in Nat /\ Len(q) \in Nat
      /\ DOMAIN h = 1 .. Len(h) /\ DOMAIN g = 1 .. Len(g)
      /\ DOMAIN x = 1 .. Len(x) /\ Len(x) \in Nat
      /\ \A i \in DOMAIN g : h[i] = g[i]
  OBVIOUS
<1> HIDE DEF h
<1>2. CASE whole
  <2>1. Len(x) <= Len(g) /\ x = SubSeq(g, 1, Len(x))
    BY <1>2 DEF Arrives, Connection!Begins
  <2>2. SubSeq(h, 1, Len(x)) = SubSeq(g, 1, Len(x))
    BY <1>1, <2>1
  <2> QED BY <1>1, <1>2, <2>1, <2>2 DEF Arrives, Connection!Begins, h
<1>3. CASE ~ whole
  <2>1. PICK f \in [DOMAIN x -> DOMAIN g] :
          \A i \in DOMAIN x : x[i] = g[f[i]] /\ \A j \in 1 .. i - 1 : f[j] < f[i]
    BY <1>3 DEF Arrives, Connection!Within
  <2>2. DOMAIN g \subseteq DOMAIN h
    BY <1>1
  <2>3. f \in [DOMAIN x -> DOMAIN h]
    BY <2>1, <2>2
  <2>4. \A i \in DOMAIN x : x[i] = h[f[i]] /\ \A j \in 1 .. i - 1 : f[j] < f[i]
    BY <1>1, <2>1
  <2> QED BY <1>3, <2>3, <2>4 DEF Arrives, Connection!Within, h
<1> QED BY <1>2, <1>3

\* What is added to both ends arrives too, if nothing before it is still missing.
LEMMA ArrivesToo ==
  ASSUME NEW S, NEW whole \in BOOLEAN, NEW x \in Seq(S), NEW g \in Seq(S), NEW q \in Seq(S),
         Arrives(whole, x, g), whole => Len(x) = Len(g)
  PROVE  Arrives(whole, x \o q, g \o q)
<1> DEFINE h == g \o q
           y == x \o q
           m == Len(x)
           n == Len(g)
           l == Len(q)
<1>1. /\ h \in Seq(S) /\ Len(h) = n + l /\ DOMAIN h = 1 .. n + l
      /\ y \in Seq(S) /\ Len(y) = m + l /\ DOMAIN y = 1 .. m + l
      /\ n \in Nat /\ l \in Nat /\ m \in Nat /\ DOMAIN g = 1 .. n /\ DOMAIN x = 1 .. m
  OBVIOUS
<1>2. /\ \A i \in 1 .. n : h[i] = g[i]
      /\ \A i \in 1 .. m : y[i] = x[i]
      /\ \A i \in 1 .. l : h[n + i] = q[i] /\ y[m + i] = q[i]
  OBVIOUS
<1>3. CASE whole
  <2>1. Len(x) = Len(g) /\ x = SubSeq(g, 1, Len(x))
    BY <1>3 DEF Arrives, Connection!Begins
  <2>2. x = g
    BY <2>1, SubSeqFull
  <2>3. h = SubSeq(h, 1, Len(h))
    BY <1>1, SubSeqFull
  <2> QED BY <1>1, <1>3, <2>2, <2>3 DEF Arrives, Connection!Begins
<1>4. CASE ~ whole
  <2>1. PICK f \in [1 .. m -> 1 .. n] :
          \A i \in 1 .. m : x[i] = g[f[i]] /\ \A j \in 1 .. i - 1 : f[j] < f[i]
    BY <1>1, <1>4 DEF Arrives, Connection!Within
  <2> HIDE DEF h, y, m, n, l
  <2>2. Increasing(f, m)
    BY <2>1 DEF Increasing
  <2>3. PICK e \in [1 .. m + l -> 1 .. n + l] : Continues(e, f, m, n, l)
    BY <1>1, <2>2, Continued
  <2>4. ASSUME NEW i \in 1 .. m + l
        PROVE  y[i] = h[e[i]]
    <3>1. CASE i \in 1 .. m
      <4>1. f[i] \in 1 .. n
        BY <2>1, <3>1
      <4>2. y[i] = x[i] /\ x[i] = g[f[i]] /\ e[i] = f[i] /\ h[f[i]] = g[f[i]]
        BY <1>2, <2>1, <2>3, <3>1, <4>1 DEF Continues
      <4> QED BY <4>2
    <3>2. CASE i \notin 1 .. m
      <4>1. i - m \in 1 .. l /\ m + (i - m) = i
        BY <1>1, <3>2
      <4>2. e[m + (i - m)] = n + (i - m)
        BY <2>3, <4>1 DEF Continues
      <4>3. h[n + (i - m)] = q[i - m] /\ y[m + (i - m)] = q[i - m]
        BY <1>2, <4>1
      <4> QED BY <4>1, <4>2, <4>3
    <3> QED BY <3>1, <3>2
  <2>5. e \in [DOMAIN y -> DOMAIN h]
    BY <1>1, <2>3
  <2>6. \A i \in DOMAIN y : y[i] = h[e[i]] /\ \A j \in 1 .. i - 1 : e[j] < e[i]
    BY <1>1, <2>3, <2>4 DEF Continues, Increasing
  <2>7. Connection!Within(y, h)
    BY <2>5, <2>6 DEF Connection!Within
  <2> QED BY <1>4, <2>7 DEF Arrives, h, y
<1> QED BY <1>3, <1>4

\* The first part of what arrives arrives by itself.
LEMMA ArrivesLess ==
  ASSUME NEW S, NEW whole \in BOOLEAN, NEW x \in Seq(S), NEW g \in Seq(S), NEW q \in Seq(S),
         Arrives(whole, x \o q, g)
  PROVE  Arrives(whole, x, g)
<1> DEFINE y == x \o q
<1>1. /\ Len(g) \in Nat /\ Len(q) \in Nat
      /\ DOMAIN g = 1 .. Len(g)
      /\ DOMAIN x = 1 .. Len(x) /\ Len(x) \in Nat
      /\ y \in Seq(S) /\ Len(y) = Len(x) + Len(q) /\ DOMAIN y = 1 .. Len(y)
      /\ \A i \in 1 .. Len(x) : y[i] = x[i]
  OBVIOUS
<1>2. Arrives(whole, y, g)
  OBVIOUS
<1> HIDE DEF y
<1>3. CASE whole
  <2>1. Len(y) <= Len(g) /\ y = SubSeq(g, 1, Len(y))
    BY <1>2, <1>3 DEF Arrives, Connection!Begins
  <2>2. \A i \in 1 .. Len(y) : y[i] = g[i]
    BY <1>1, <2>1
  <2>3. Len(x) <= Len(g)
    BY <1>1, <2>1
  <2>4. /\ SubSeq(g, 1, Len(x)) \in Seq(S) /\ Len(SubSeq(g, 1, Len(x))) = Len(x)
        /\ \A i \in 1 .. Len(x) : SubSeq(g, 1, Len(x))[i] = g[i]
    BY <1>1, <2>3
  <2>5. \A i \in 1 .. Len(x) : x[i] = g[i]
    BY <1>1, <2>2
  <2>6. x = SubSeq(g, 1, Len(x))
    BY <2>4, <2>5, SeqEqual
  <2> QED BY <1>3, <2>3, <2>6 DEF Arrives, Connection!Begins
<1>4. CASE ~ whole
  <2>1. PICK f \in [DOMAIN y -> DOMAIN g] :
          \A i \in DOMAIN y : y[i] = g[f[i]] /\ \A j \in 1 .. i - 1 : f[j] < f[i]
    BY <1>2, <1>4 DEF Arrives, Connection!Within
  <2> DEFINE e == [i \in DOMAIN x |-> f[i]]
  <2>2. DOMAIN x \subseteq DOMAIN y
    BY <1>1
  <2>3. e \in [DOMAIN x -> DOMAIN g] /\ \A i \in DOMAIN x : e[i] = f[i]
    BY <2>1, <2>2
  <2> HIDE DEF e
  <2>4. \A i \in DOMAIN x : \A j \in 1 .. i - 1 : j \in DOMAIN x
    BY <1>1
  <2>5. \A i \in DOMAIN x : x[i] = g[e[i]] /\ \A j \in 1 .. i - 1 : e[j] < e[i]
    BY <1>1, <2>1, <2>2, <2>3, <2>4
  <2> QED BY <1>4, <2>3, <2>5 DEF Arrives, Connection!Within
<1> QED BY <1>3, <1>4

\* A sequence and the two parts of it on either side of a place.
LEMMA CutInTwo ==
  ASSUME NEW S, NEW t \in Seq(S), NEW m \in 0 .. Len(t)
  PROVE  /\ SubSeq(t, 1, m) \in Seq(S) /\ Len(SubSeq(t, 1, m)) = m
         /\ SubSeq(t, m + 1, Len(t)) \in Seq(S) /\ Len(SubSeq(t, m + 1, Len(t))) = Len(t) - m
         /\ \A i \in 1 .. Len(t) - m : SubSeq(t, m + 1, Len(t))[i] = t[m + i]
         /\ SubSeq(t, 1, m) \o SubSeq(t, m + 1, Len(t)) = t
<1>1. Len(t) \in Nat /\ m \in Nat /\ m <= Len(t) /\ \A i \in 1 .. Len(t) : t[i] \in S
  OBVIOUS
<1>2. SubSeq(t, 1, m) \in Seq(S) /\ Len(SubSeq(t, 1, m)) = m
  BY <1>1, SubSeqProperties
<1>3. /\ SubSeq(t, m + 1, Len(t)) \in Seq(S) /\ Len(SubSeq(t, m + 1, Len(t))) = Len(t) - m
      /\ \A i \in 1 .. Len(t) - m : SubSeq(t, m + 1, Len(t))[i] = t[m + i]
  BY <1>1, SubSeqProperties
<1>4. SubSeq(t, 1, m) \o SubSeq(t, m + 1, Len(t)) = SubSeq(t, 1, Len(t))
  <2>1. 1 \in 1 .. Len(t) + 1 /\ m \in 1 - 1 .. Len(t) /\ Len(t) \in m .. Len(t)
    BY <1>1
  <2> HIDE <1>2
  <2> QED BY <2>1, ConcatAdjacentSubSeq
<1> QED BY <1>2, <1>3, <1>4, SubSeqFull

\* A sequence that begins as a and goes on as b.
LEMMA Joined ==
  ASSUME NEW S, NEW a \in Seq(S), NEW b \in Seq(S), NEW d \in Seq(S),
         Len(d) = Len(a) + Len(b),
         \A i \in 1 .. Len(a) : d[i] = a[i],
         \A i \in 1 .. Len(b) : d[Len(a) + i] = b[i]
  PROVE  d = a \o b
<1>1. /\ a \o b \in Seq(S) /\ Len(a \o b) = Len(a) + Len(b)
      /\ \A i \in 1 .. Len(a) : (a \o b)[i] = a[i]
      /\ \A i \in 1 .. Len(b) : (a \o b)[Len(a) + i] = b[i]
      /\ Len(a) \in Nat /\ Len(b) \in Nat
  OBVIOUS
<1>2. ASSUME NEW i \in 1 .. Len(d)
      PROVE  d[i] = (a \o b)[i]
  <2>1. CASE i \in 1 .. Len(a)
    BY <1>1, <2>1
  <2>2. CASE i \notin 1 .. Len(a)
    <3> DEFINE j == i - Len(a)
    <3>1. j \in 1 .. Len(b) /\ Len(a) + j = i
      BY <1>1, <2>2
    <3> HIDE DEF j
    <3>2. d[Len(a) + j] = b[j] /\ (a \o b)[Len(a) + j] = b[j]
      BY <1>1, <3>1
    <3> QED BY <3>1, <3>2
  <2> QED BY <2>1, <2>2
<1> QED BY <1>1, <1>2, SeqEqual

\* What is put behind the k-th place of a sequence is put behind the rest of it.
LEMMA PutBehind ==
  ASSUME NEW S, NEW s \in Seq(S), NEW q \in Seq(S), NEW k \in 0 .. Len(s)
  PROVE  SubSeq(s \o q, k + 1, Len(s \o q)) = SubSeq(s, k + 1, Len(s)) \o q
<1> DEFINE y == s \o q
           a == SubSeq(s, k + 1, Len(s))
           b == SubSeq(y, k + 1, Len(y))
<1>1. /\ Len(s) \in Nat /\ Len(q) \in Nat /\ k \in Nat /\ k <= Len(s)
      /\ y \in Seq(S) /\ Len(y) = Len(s) + Len(q)
      /\ \A i \in 1 .. Len(s) : y[i] = s[i]
      /\ \A i \in 1 .. Len(q) : y[Len(s) + i] = q[i]
  OBVIOUS
<1> HIDE DEF y
<1>2. /\ a \in Seq(S) /\ Len(a) = Len(s) - k
      /\ \A i \in 1 .. Len(s) - k : a[i] = s[k + i]
  BY <1>1, CutInTwo
<1>3. k \in 0 .. Len(y)
  BY <1>1
<1>4. /\ b \in Seq(S) /\ Len(b) = Len(y) - k
      /\ \A i \in 1 .. Len(y) - k : b[i] = y[k + i]
  BY <1>1, <1>3, CutInTwo
<1> HIDE DEF a, b
<1>5. Len(b) = Len(a) + Len(q)
  BY <1>1, <1>2, <1>4
<1>6. ASSUME NEW i \in 1 .. Len(a)
      PROVE  b[i] = a[i]
  <2>1. i \in 1 .. Len(y) - k /\ k + i \in 1 .. Len(s) /\ i \in 1 .. Len(s) - k
    BY <1>1, <1>2
  <2> QED BY <1>1, <1>2, <1>4, <2>1
<1>7. ASSUME NEW i \in 1 .. Len(q)
      PROVE  b[Len(a) + i] = q[i]
  <2>1. Len(a) + i \in 1 .. Len(y) - k /\ k + (Len(a) + i) = Len(s) + i
    BY <1>1, <1>2
  <2>2. b[Len(a) + i] = y[k + (Len(a) + i)]
    BY <1>4, <2>1
  <2> QED BY <1>1, <2>1, <2>2
<1>8. b = a \o q
  BY <1>2, <1>4, <1>5, <1>6, <1>7, Joined
<1> QED BY <1>8 DEF a, b, y

\* The rest of the rest.
LEMMA CutTwice ==
  ASSUME NEW S, NEW t \in Seq(S), NEW m \in 0 .. Len(t), NEW p \in 0 .. Len(t) - m
  PROVE  SubSeq(SubSeq(t, m + 1, Len(t)), p + 1, Len(t) - m) = SubSeq(t, m + p + 1, Len(t))
<1> DEFINE a == SubSeq(t, m + 1, Len(t))
           b == SubSeq(a, p + 1, Len(a))
           d == SubSeq(t, (m + p) + 1, Len(t))
<1>1. Len(t) \in Nat /\ m \in Nat /\ p \in Nat /\ m <= Len(t) /\ p <= Len(t) - m
  OBVIOUS
<1>2. /\ a \in Seq(S) /\ Len(a) = Len(t) - m
      /\ \A i \in 1 .. Len(t) - m : a[i] = t[m + i]
  BY CutInTwo
<1> HIDE DEF a
<1>3. p \in 0 .. Len(a)
  BY <1>1, <1>2
<1>4. /\ b \in Seq(S) /\ Len(b) = Len(a) - p
      /\ \A i \in 1 .. Len(a) - p : b[i] = a[p + i]
  BY <1>2, <1>3, CutInTwo
<1>5. m + p \in 0 .. Len(t)
  BY <1>1
<1>6. /\ d \in Seq(S) /\ Len(d) = Len(t) - (m + p)
      /\ \A i \in 1 .. Len(t) - (m + p) : d[i] = t[(m + p) + i]
  BY <1>5, CutInTwo
<1> HIDE DEF b, d
<1>7. ASSUME NEW i \in 1 .. Len(b)
      PROVE  b[i] = d[i]
  <2>1. i \in 1 .. Len(t) - (m + p) /\ p + i \in 1 .. Len(t) - m /\ m + (p + i) = (m + p) + i
    BY <1>1, <1>2, <1>4
  <2>2. b[i] = a[p + i] /\ a[p + i] = t[m + (p + i)] /\ d[i] = t[(m + p) + i]
    BY <1>1, <1>2, <1>4, <1>6, <2>1
  <2> QED BY <2>1, <2>2
<1>8. Len(b) = Len(d)
  BY <1>1, <1>2, <1>4, <1>6
<1>9. b = d
  BY <1>4, <1>6, <1>7, <1>8, SeqEqual
<1>10. Len(a) = Len(t) - m /\ (m + p) + 1 = m + p + 1
  BY <1>1, <1>2
<1> QED BY <1>9, <1>10 DEF a, b, d

\* The head is put behind r, and the rest of the tail is the rest of the whole.
LEMMA TakeHead ==
  ASSUME NEW S, NEW u \in Seq(S), u # <<>>
  PROVE  /\ <<Head(u)>> \in Seq(S) /\ Tail(u) \in Seq(S) /\ Len(Tail(u)) = Len(u) - 1
         /\ Head(u) = u[1] /\ \A i \in 1 .. Len(u) - 1 : Tail(u)[i] = u[i + 1]
         /\ <<Head(u)>> \o Tail(u) = u
         /\ \A k \in 1 .. Len(u) : SubSeq(Tail(u), k, Len(u) - 1) = SubSeq(u, k + 1, Len(u))
<1>1. Len(u) \in Nat /\ 1 <= Len(u) /\ u[1] \in S /\ Head(u) = u[1]
  OBVIOUS
<1>2. /\ Tail(u) \in Seq(S) /\ Len(Tail(u)) = Len(u) - 1
      /\ \A i \in 1 .. Len(u) - 1 : Tail(u)[i] = u[i + 1]
  OBVIOUS
<1>3. <<Head(u)>> \in Seq(S) /\ Len(<<Head(u)>>) = 1 /\ <<Head(u)>>[1] = u[1]
  BY <1>1
<1>4. <<Head(u)>> \o Tail(u) = u
  <2>1. Len(u) = Len(<<Head(u)>>) + Len(Tail(u))
    BY <1>1, <1>2, <1>3
  <2>2. \A i \in 1 .. Len(<<Head(u)>>) : u[i] = <<Head(u)>>[i]
    BY <1>3
  <2>3. \A i \in 1 .. Len(Tail(u)) : u[Len(<<Head(u)>>) + i] = Tail(u)[i]
    BY <1>2, <1>3
  <2> QED BY <1>2, <1>3, <2>1, <2>2, <2>3, Joined
<1>5. ASSUME NEW k \in 1 .. Len(u)
      PROVE  SubSeq(Tail(u), k, Len(u) - 1) = SubSeq(u, k + 1, Len(u))
  <2>1. Tail(u) = SubSeq(u, 1 + 1, Len(u))
    BY TailIsSubSeq
  <2>2. 1 \in 0 .. Len(u) /\ k - 1 \in 0 .. Len(u) - 1
    BY <1>1
  <2>3. SubSeq(SubSeq(u, 1 + 1, Len(u)), (k - 1) + 1, Len(u) - 1)
          = SubSeq(u, 1 + (k - 1) + 1, Len(u))
    BY <2>2, CutTwice
  <2>4. (k - 1) + 1 = k /\ 1 + (k - 1) + 1 = k + 1
    OBVIOUS
  <2> QED BY <2>1, <2>3, <2>4
<1> QED BY <1>1, <1>2, <1>3, <1>4, <1>5

-----------------------------------------------------------------------------
(* Buffers.                                                                *)

\* The buffer b holds the last of what was sent.
Suffix(b, v) == Len(b) <= Len(v) /\ b = SubSeq(v, (Len(v) - Len(b)) + 1, Len(v))

\* The elements of a suffix, counted from where it begins.
LEMMA SuffixElements ==
  ASSUME NEW S, NEW b \in Seq(S), NEW v \in Seq(S), Suffix(b, v)
  PROVE  /\ Len(v) - Len(b) \in 0 .. Len(v)
         /\ \A i \in 1 .. Len(b) : b[i] = v[(Len(v) - Len(b)) + i]
<1> DEFINE m == Len(v) - Len(b)
<1>1. Len(b) \in Nat /\ Len(v) \in Nat /\ Len(b) <= Len(v) /\ b = SubSeq(v, m + 1, Len(v))
  BY DEF Suffix
<1>2. m \in 0 .. Len(v) /\ Len(v) - m = Len(b)
  BY <1>1
<1> HIDE DEF m
<1>3. \A i \in 1 .. Len(v) - m : SubSeq(v, m + 1, Len(v))[i] = v[m + i]
  BY <1>2, CutInTwo
<1>4. \A i \in 1 .. Len(b) : b[i] = v[m + i]
  BY <1>1, <1>2, <1>3
<1> QED BY <1>2, <1>4 DEF m

\* A suffix is known by its elements.
LEMMA SuffixByElements ==
  ASSUME NEW S, NEW b \in Seq(S), NEW v \in Seq(S), Len(b) <= Len(v),
         \A i \in 1 .. Len(b) : b[i] = v[(Len(v) - Len(b)) + i]
  PROVE  Suffix(b, v)
<1> DEFINE m == Len(v) - Len(b)
           d == SubSeq(v, m + 1, Len(v))
<1>1. Len(b) \in Nat /\ Len(v) \in Nat /\ Len(b) <= Len(v)
      /\ \A i \in 1 .. Len(b) : b[i] = v[m + i]
  OBVIOUS
<1>2. m \in 0 .. Len(v) /\ Len(v) - m = Len(b)
  BY <1>1
<1> HIDE DEF m
<1>3. /\ d \in Seq(S) /\ Len(d) = Len(v) - m
      /\ \A i \in 1 .. Len(v) - m : d[i] = v[m + i]
  BY <1>2, CutInTwo
<1> HIDE DEF d
<1>4. b = d
  BY <1>1, <1>2, <1>3, SeqEqual
<1> QED BY <1>1, <1>4 DEF Suffix, d, m

\* Length and elements after an Append.
LEMMA AppendProperty ==
  ASSUME NEW S, NEW v \in Seq(S), NEW p \in S
  PROVE  /\ Append(v, p) \in Seq(S) /\ Len(Append(v, p)) = Len(v) + 1
         /\ \A i \in 1 .. Len(v) : Append(v, p)[i] = v[i]
         /\ Append(v, p)[Len(v) + 1] = p /\ Len(v) \in Nat
         /\ Append(v, p) = v \o <<p>>
OBVIOUS

\* sendPacket(): what is added to the buffer was also sent.
LEMMA AppendSuffix ==
  ASSUME NEW S, NEW b \in Seq(S), NEW v \in Seq(S), NEW p \in S, Suffix(b, v)
  PROVE  Suffix(Append(b, p), Append(v, p))
<1> DEFINE b2 == Append(b, p)
           v2 == Append(v, p)
<1>1. /\ b2 \in Seq(S) /\ Len(b2) = Len(b) + 1 /\ \A i \in 1 .. Len(b) : b2[i] = b[i]
      /\ b2[Len(b) + 1] = p /\ Len(b) \in Nat
  BY AppendProperty
<1>2. /\ v2 \in Seq(S) /\ Len(v2) = Len(v) + 1 /\ \A i \in 1 .. Len(v) : v2[i] = v[i]
      /\ v2[Len(v) + 1] = p /\ Len(v) \in Nat
  BY AppendProperty
<1>3. /\ Len(v) - Len(b) \in 0 .. Len(v)
      /\ \A i \in 1 .. Len(b) : b[i] = v[(Len(v) - Len(b)) + i]
  BY SuffixElements
<1> HIDE DEF b2, v2
<1>4. ASSUME NEW i \in 1 .. Len(b2)
      PROVE  b2[i] = v2[(Len(v2) - Len(b2)) + i]
  <2>1. Len(v2) - Len(b2) = Len(v) - Len(b)
    BY <1>1, <1>2
  <2>2. CASE i \in 1 .. Len(b)
    <3>1. (Len(v) - Len(b)) + i \in 1 .. Len(v)
      BY <1>1, <1>2, <1>3, <2>2
    <3> QED BY <1>1, <1>2, <1>3, <2>1, <2>2, <3>1
  <2>3. CASE i \notin 1 .. Len(b)
    <3>1. Len(b2) = Len(b) + 1 /\ Len(b) \in Nat /\ Len(v) \in Nat
      BY <1>1, <1>2
    <3>2. i = Len(b) + 1
      BY <2>3, <3>1
    <3>3. (Len(v) - Len(b)) + i = Len(v) + 1
      BY <3>1, <3>2
    <3> QED BY <1>1, <1>2, <2>1, <3>2, <3>3
  <2> QED BY <2>2, <2>3
<1>5. Len(b2) <= Len(v2)
  BY <1>1, <1>2, <1>3
<1>6. Suffix(b2, v2)
  BY <1>1, <1>2, <1>4, <1>5, SuffixByElements
<1> QED BY <1>6 DEF b2, v2

\* onDrain(): what is left of the buffer is still the last of what was sent.
LEMMA DropSuffix ==
  ASSUME NEW S, NEW b \in Seq(S), NEW v \in Seq(S), NEW n \in 0 .. Len(b), Suffix(b, v)
  PROVE  /\ Suffix(SubSeq(b, n + 1, Len(b)), v)
         /\ SubSeq(b, n + 1, Len(b)) \in Seq(S) /\ Len(SubSeq(b, n + 1, Len(b))) = Len(b) - n
<1> DEFINE d == SubSeq(b, n + 1, Len(b))
<1>1. /\ d \in Seq(S) /\ Len(d) = Len(b) - n
      /\ \A i \in 1 .. Len(b) - n : d[i] = b[n + i]
  BY CutInTwo
<1>2. /\ Len(v) - Len(b) \in 0 .. Len(v)
      /\ \A i \in 1 .. Len(b) : b[i] = v[(Len(v) - Len(b)) + i]
  BY SuffixElements
<1>3. Len(b) \in Nat /\ Len(v) \in Nat /\ n \in Nat /\ n <= Len(b)
  OBVIOUS
<1> HIDE DEF d
<1>4. ASSUME NEW i \in 1 .. Len(d)
      PROVE  d[i] = v[(Len(v) - Len(d)) + i]
  <2>1. i \in 1 .. Len(b) - n /\ n + i \in 1 .. Len(b)
        /\ (Len(v) - Len(d)) + i = (Len(v) - Len(b)) + (n + i)
    BY <1>1, <1>3
  <2> QED BY <1>1, <1>2, <2>1
<1>5. Len(d) <= Len(v)
  BY <1>1, <1>2, <1>3
<1>6. Suffix(d, v)
  BY <1>1, <1>4, <1>5, SuffixByElements
<1> QED BY <1>1, <1>6 DEF d

\* An emptied buffer is the end of anything.
LEMMA EmptySuffix ==
  ASSUME NEW S, NEW v \in Seq(S)
  PROVE  Suffix(<<>>, v)
<1>1. <<>> \in Seq(S) /\ Len(<<>>) = 0 /\ Len(v) \in Nat
  OBVIOUS
<1>2. Len(<<>>) <= Len(v) /\ \A i \in 1 .. Len(<<>>) : <<>>[i] = v[(Len(v) - Len(<<>>)) + i]
  BY <1>1
<1> QED BY <1>1, <1>2, SuffixByElements

\* What the first w of a sequence are, and what is left.
LEMMA FirstOf ==
  ASSUME NEW S, NEW v \in Seq(S), NEW w \in 0 .. Len(v)
  PROVE  /\ SubSeq(v, 1, w) \in Seq(S) /\ Len(SubSeq(v, 1, w)) = w
         /\ \E q \in Seq(S) : v = SubSeq(v, 1, w) \o q
         /\ w = Len(v) => SubSeq(v, 1, w) = v
         /\ \A p \in S : SubSeq(Append(v, p), 1, w) = SubSeq(v, 1, w)
<1>1. /\ SubSeq(v, 1, w) \in Seq(S) /\ Len(SubSeq(v, 1, w)) = w
      /\ SubSeq(v, w + 1, Len(v)) \in Seq(S)
      /\ SubSeq(v, 1, w) \o SubSeq(v, w + 1, Len(v)) = v
  BY CutInTwo
<1>2. w = Len(v) => SubSeq(v, 1, w) = v
  BY SubSeqFull
<1>3. ASSUME NEW p \in S
      PROVE  SubSeq(Append(v, p), 1, w) = SubSeq(v, 1, w)
  <2> DEFINE v2 == Append(v, p)
  <2>1. /\ v2 \in Seq(S) /\ Len(v2) = Len(v) + 1 /\ \A i \in 1 .. Len(v) : v2[i] = v[i]
        /\ Len(v) \in Nat
    BY AppendProperty
  <2> HIDE DEF v2
  <2>2. w \in 0 .. Len(v2) /\ w \in Nat /\ w <= Len(v)
    BY <2>1
  <2>3. SubSeq(v2, 1, w) \in Seq(S) /\ Len(SubSeq(v2, 1, w)) = w
    BY <2>1, <2>2, CutInTwo
  <2>4. \A i \in 1 .. w : SubSeq(v2, 1, w)[i] = v2[i] /\ SubSeq(v, 1, w)[i] = v[i]
    BY <2>1, <2>2, <2>3, <1>1
  <2>5. \A i \in 1 .. w : SubSeq(v2, 1, w)[i] = SubSeq(v, 1, w)[i]
    BY <2>1, <2>2, <2>4
  <2>6. SubSeq(v2, 1, w) = SubSeq(v, 1, w)
    BY <1>1, <2>2, <2>3, <2>5, SeqEqual
  <2> QED BY <2>6 DEF v2
<1> QED BY <1>1, <1>2, <1>3

\* The suffix is what is left.
LEMMA FirstAndSuffix ==
  ASSUME NEW S, NEW b \in Seq(S), NEW v \in Seq(S), Suffix(b, v)
  PROVE  SubSeq(v, 1, Len(v) - Len(b)) \o b = v
<1>1. Len(v) - Len(b) \in 0 .. Len(v)
  BY SuffixElements
<1> DEFINE m == Len(v) - Len(b)
<1>2. b = SubSeq(v, m + 1, Len(v)) /\ m \in 0 .. Len(v)
  BY <1>1 DEF Suffix
<1> HIDE DEF m
<1>3. SubSeq(v, 1, m) \o SubSeq(v, m + 1, Len(v)) = v
  BY <1>2, CutInTwo
<1>4. SubSeq(v, 1, m) \o b = v
  BY <1>2, <1>3
<1> QED BY <1>4 DEF m

\* A sequence arrives as itself.
LEMMA ArrivesAll ==
  ASSUME NEW S, NEW whole \in BOOLEAN, NEW x \in Seq(S)
  PROVE  Arrives(whole, x, x)
<1>1. CASE whole
  BY <1>1, SubSeqFull DEF Arrives, Connection!Begins
<1>2. CASE ~ whole
  <2> DEFINE f == [i \in DOMAIN x |-> i]
  <2>1. DOMAIN x = 1 .. Len(x) /\ Len(x) \in Nat
    OBVIOUS
  <2>2. f \in [DOMAIN x -> DOMAIN x] /\ \A i \in DOMAIN x : f[i] = i
    OBVIOUS
  <2> HIDE DEF f
  <2>3. \A i \in DOMAIN x : x[i] = x[f[i]] /\ \A j \in 1 .. i - 1 : f[j] < f[i]
    BY <2>1, <2>2
  <2> QED BY <1>2, <2>2, <2>3 DEF Arrives, Connection!Within
<1> QED BY <1>1, <1>2

-----------------------------------------------------------------------------
(* What is on its way to the server.                                       *)

Closed(s) == s.ready = "closed"
Control == {"probe", "upgrade"}

\* How much of what was sent has been given to a transport, and that much of it.
Written(s) == (Len(s.sent) - Len(s.writeBuffer)) + s.prevBufferLen
Given(s) == SubSeq(s.sent, 1, Written(s))

\* The POST under way, or what the WebSocket holds behind the probe and the upgrade
\* packet, which are the first k.
OnWire(s, k) == IF s.transport = "polling" THEN s.posted ELSE SubSeq(s.up, k + 1, Len(s.up))
Mailed(s, k) ==
  s.transport = "websocket" =>
    /\ k \in 0 .. Len(s.up)
    /\ \A i \in 1 .. k : s.up[i].type \in Control
    /\ \A i \in k + 1 .. Len(s.up) : s.up[i].type \notin Control

\* What is given to the transport may not get through any more.
Lost(s) == IF s.jsonp THEN s.failed
           ELSE IF s.transport = "polling" THEN s.post = "failed"
           ELSE s.link \in {"down", "closed"}

\* r is what the server has received.
Flow(s, r, k) ==
  /\ Mailed(s, k)
  /\ Arrives(~ s.jsonp, r \o OnWire(s, k), Given(s))
  /\ ~ Closed(s) /\ ~ Lost(s) => r \o OnWire(s, k) = Given(s)

\* What a closed Socket owed is under way at least.
Ended(s, r, k) ==
  Closed(s) /\ ~ s.failed =>
    s.posted = <<>> /\ Len(r) + Len(OnWire(s, k)) >= s.owed

Words(s) ==
  /\ Suffix(s.writeBuffer, s.sent)
  /\ \A i \in 1 .. Len(s.sent) : s.sent[i].type \notin Control
  /\ s.owed <= Len(s.sent)

\* Up to sending.
SameBuf(s, t) == /\ t.sent = s.sent /\ t.writeBuffer = s.writeBuffer
                 /\ t.prevBufferLen = s.prevBufferLen /\ t.owed = s.owed
SameNet(s, t) == /\ t.jsonp = s.jsonp /\ t.transport = s.transport /\ t.post = s.post
                 /\ t.posted = s.posted /\ t.link = s.link /\ t.up = s.up
                 /\ t.failed = s.failed

\* The types of the fields that Flow is about.
LEMMA FlowTypes ==
  ASSUME NEW s, Typed(s), Words(s)
  PROVE  /\ s.sent \in Seq(UpPacket) /\ s.writeBuffer \in Seq(UpPacket)
         /\ s.posted \in Seq(UpPacket) /\ s.up \in Seq(UpPacket)
         /\ Len(s.sent) \in Nat /\ Len(s.writeBuffer) \in Nat /\ Len(s.up) \in Nat
         /\ s.prevBufferLen \in Nat /\ s.prevBufferLen <= Len(s.writeBuffer) /\ s.owed \in Nat
         /\ s.jsonp \in BOOLEAN /\ s.transport \in {"polling", "websocket"}
         /\ Len(s.writeBuffer) <= Len(s.sent)
         /\ Written(s) \in 0 .. Len(s.sent)
         /\ Given(s) \in Seq(UpPacket) /\ Len(Given(s)) = Written(s)
<1>1. /\ s.sent \in Seq(UpPacket) /\ s.writeBuffer \in Seq(UpPacket)
      /\ s.posted \in Seq(UpPacket) /\ s.up \in Seq(UpPacket)
      /\ s.prevBufferLen \in Nat /\ s.prevBufferLen <= Len(s.writeBuffer) /\ s.owed \in Nat
      /\ s.jsonp \in BOOLEAN /\ s.transport \in {"polling", "websocket"}
  BY DEF Typed, Client
<1>2. Len(s.sent) \in Nat /\ Len(s.writeBuffer) \in Nat /\ Len(s.up) \in Nat
  BY <1>1
<1>3. Len(s.writeBuffer) <= Len(s.sent)
  BY DEF Words, Suffix
<1>4. ASSUME NEW n \in Nat, NEW l \in Nat, NEW p \in Nat, p <= l, l <= n
      PROVE  (n - l) + p \in 0 .. n
  BY <1>4
<1>5. Written(s) \in 0 .. Len(s.sent)
  BY <1>1, <1>2, <1>3, <1>4 DEF Written
<1>6. Given(s) \in Seq(UpPacket) /\ Len(Given(s)) = Written(s)
  BY <1>1, <1>5, FirstOf DEF Given
<1> QED BY <1>1, <1>2, <1>3, <1>5, <1>6

\* The types of what is on the wire, and of what has come over it.
LEMMA WireType ==
  ASSUME NEW s, Typed(s), Words(s), NEW k, Mailed(s, k), NEW r \in Seq(UpPacket)
  PROVE  /\ OnWire(s, k) \in Seq(UpPacket) /\ r \o OnWire(s, k) \in Seq(UpPacket)
         /\ Len(r) \in Nat /\ Len(OnWire(s, k)) \in Nat
         /\ Len(r \o OnWire(s, k)) = Len(r) + Len(OnWire(s, k))
<1>1. OnWire(s, k) \in Seq(UpPacket)
  <2>1. CASE s.transport = "polling"
    BY <2>1, FlowTypes DEF OnWire
  <2>2. CASE s.transport = "websocket"
    <3>1. s.up \in Seq(UpPacket) /\ k \in 0 .. Len(s.up)
      BY <2>2, FlowTypes DEF Mailed
    <3>2. SubSeq(s.up, k + 1, Len(s.up)) \in Seq(UpPacket)
      BY <3>1, CutInTwo
    <3> QED BY <2>2, <3>2 DEF OnWire
  <2> QED BY <2>1, <2>2, FlowTypes
<1> DEFINE w == OnWire(s, k)
<1> HIDE DEF w
<1>2. w \in Seq(UpPacket)
  BY <1>1 DEF w
<1>3. r \o w \in Seq(UpPacket) /\ Len(r) \in Nat /\ Len(w) \in Nat /\ Len(r \o w) = Len(r) + Len(w)
  BY <1>2
<1> QED BY <1>2, <1>3 DEF w

\* When all of the write buffer, or nothing of it, has been given to a transport.
LEMMA GivenAll ==
  ASSUME NEW s, Typed(s), Words(s)
  PROVE  /\ s.prevBufferLen = 0 => Given(s) \o s.writeBuffer = s.sent
         /\ \E q \in Seq(UpPacket) : s.sent = Given(s) \o q
         /\ s.prevBufferLen = Len(s.writeBuffer) => Given(s) = s.sent /\ Written(s) = Len(s.sent)
<1>1. /\ s.sent \in Seq(UpPacket) /\ s.writeBuffer \in Seq(UpPacket)
      /\ Written(s) \in 0 .. Len(s.sent) /\ Len(s.sent) \in Nat
      /\ Len(s.writeBuffer) \in Nat /\ s.prevBufferLen \in Nat
  BY FlowTypes
<1>2. s.prevBufferLen = 0 => Given(s) \o s.writeBuffer = s.sent
  <2> SUFFICES ASSUME s.prevBufferLen = 0
               PROVE  Given(s) \o s.writeBuffer = s.sent
    OBVIOUS
  <2>1. Written(s) = Len(s.sent) - Len(s.writeBuffer)
    BY <1>1 DEF Written
  <2>2. SubSeq(s.sent, 1, Len(s.sent) - Len(s.writeBuffer)) \o s.writeBuffer = s.sent
    BY <1>1, FirstAndSuffix DEF Words
  <2> QED BY <2>1, <2>2 DEF Given
<1>3. \E q \in Seq(UpPacket) : s.sent = Given(s) \o q
  <2> DEFINE w == Written(s)
             v == s.sent
  <2>1. v \in Seq(UpPacket) /\ w \in 0 .. Len(v)
    BY <1>1
  <2> HIDE DEF v, w
  <2>2. \E q \in Seq(UpPacket) : v = SubSeq(v, 1, w) \o q
    <3>1. /\ SubSeq(v, w + 1, Len(v)) \in Seq(UpPacket)
          /\ v = SubSeq(v, 1, w) \o SubSeq(v, w + 1, Len(v))
      BY <2>1, CutInTwo
    <3> QED BY <3>1
  <2> QED BY <2>2 DEF Given, v, w
<1>4. s.prevBufferLen = Len(s.writeBuffer) => Given(s) = s.sent /\ Written(s) = Len(s.sent)
  <2> SUFFICES ASSUME s.prevBufferLen = Len(s.writeBuffer)
               PROVE  Given(s) = s.sent /\ Written(s) = Len(s.sent)
    OBVIOUS
  <2>1. Written(s) = Len(s.sent)
    BY <1>1 DEF Written
  <2> QED BY <1>1, <2>1, FirstOf DEF Given
<1> QED BY <1>2, <1>3, <1>4

\* The transport is given the write buffer, and takes or drops it.
LEMMA FlowOfFlush ==
  ASSUME NEW s, NEW t, Typed(s), Typed(t), Words(s), NEW r \in Seq(UpPacket), NEW k,
         Flow(s, r, k), s.prevBufferLen = 0, ~ Closed(s), ~ Closed(t),
         t.sent = s.sent, t.writeBuffer = s.writeBuffer, t.owed = s.owed, t.jsonp = s.jsonp,
         t.prevBufferLen = Len(s.writeBuffer), Mailed(t, k),
         \/ OnWire(t, k) = OnWire(s, k) \o s.writeBuffer /\ (Lost(s) => s.jsonp /\ Lost(t))
         \/ OnWire(t, k) = OnWire(s, k) /\ Lost(t)
  PROVE  Words(t) /\ Flow(t, r, k) /\ Written(t) = Len(s.sent)
<1> DEFINE x == r \o OnWire(s, k)
           g == Given(s)
           b == s.writeBuffer
<1>1. Words(t)
  BY DEF Words
<1>2. Given(t) = s.sent /\ Written(t) = Len(s.sent) /\ g \o b = s.sent
  BY <1>1, GivenAll
<1>3. /\ OnWire(s, k) \in Seq(UpPacket) /\ x \in Seq(UpPacket)
      /\ g \in Seq(UpPacket) /\ b \in Seq(UpPacket) /\ s.jsonp \in BOOLEAN
  BY WireType, FlowTypes DEF Flow
<1>4. Arrives(~ s.jsonp, x, g) /\ (~ Lost(s) => x = g)
  BY DEF Flow
<1>5. CASE OnWire(t, k) = OnWire(s, k) \o b /\ (Lost(s) => s.jsonp /\ Lost(t))
  <2>1. r \o OnWire(t, k) = x \o b
    <3> DEFINE a == OnWire(s, k)
    <3>1. a \in Seq(UpPacket) /\ b \in Seq(UpPacket)
      BY <1>3
    <3> HIDE DEF a, b
    <3>2. r \o (a \o b) = (r \o a) \o b
      BY <3>1, ConcatAssociative
    <3> QED BY <1>5, <3>2 DEF a
  <2> HIDE DEF x, b, g
  <2>2. ~ s.jsonp => Len(x) = Len(g)
    BY <1>4, <1>5
  <2>3. Arrives(~ s.jsonp, x \o b, g \o b)
    BY <1>3, <1>4, <2>2, ArrivesToo
  <2>4. ~ Lost(t) => x \o b = g \o b
    BY <1>4, <1>5
  <2> QED BY <1>1, <1>2, <2>1, <2>3, <2>4 DEF Flow
<1>6. CASE OnWire(t, k) = OnWire(s, k) /\ Lost(t)
  <2> HIDE DEF g, b
  <2>1. r \o OnWire(t, k) = x
    BY <1>6
  <2> HIDE DEF x
  <2>2. Arrives(~ s.jsonp, x, g \o b)
    BY <1>3, <1>4, ArrivesOfMore
  <2> QED BY <1>1, <1>2, <1>6, <2>1, <2>2 DEF Flow
<1> QED BY <1>5, <1>6

\* onClose() drops the rest; what was on its way stays on its way.
LEMMA FlowOfClose ==
  ASSUME NEW s, NEW t, Typed(s), Typed(t), Words(s), NEW r \in Seq(UpPacket), NEW k,
         Flow(s, r, k), Closed(t),
         t.sent = s.sent, t.writeBuffer = <<>>, t.owed = s.owed, t.jsonp = s.jsonp,
         t.transport = s.transport, t.up = s.up, t.posted = s.posted
  PROVE  Words(t) /\ Flow(t, r, k) /\ OnWire(t, k) = OnWire(s, k)
<1>1. /\ s.sent \in Seq(UpPacket) /\ Len(s.sent) \in Nat /\ s.jsonp \in BOOLEAN
      /\ Given(s) \in Seq(UpPacket) /\ r \o OnWire(s, k) \in Seq(UpPacket)
  BY FlowTypes, WireType DEF Flow
<1>2. Words(t)
  BY <1>1, EmptySuffix DEF Words
<1>3. t.prevBufferLen = Len(t.writeBuffer)
  <2>1. Len(t.writeBuffer) = 0
    OBVIOUS
  <2> QED BY <1>2, <2>1, FlowTypes
<1>4. Given(t) = t.sent
  BY <1>2, <1>3, GivenAll
<1>5. OnWire(t, k) = OnWire(s, k) /\ Mailed(t, k)
  BY DEF OnWire, Mailed, Flow
<1>6. PICK q \in Seq(UpPacket) : s.sent = Given(s) \o q
  BY GivenAll
<1>7. Arrives(~ s.jsonp, r \o OnWire(s, k), Given(s) \o q)
  <2> DEFINE x == r \o OnWire(s, k)
             g == Given(s)
  <2>1. Arrives(~ s.jsonp, x, g) /\ x \in Seq(UpPacket) /\ g \in Seq(UpPacket)
    BY <1>1 DEF Flow
  <2> HIDE DEF x, g
  <2>2. Arrives(~ s.jsonp, x, g \o q)
    BY <1>1, <2>1, ArrivesOfMore
  <2> QED BY <2>2 DEF x, g
<1> QED BY <1>2, <1>4, <1>5, <1>6, <1>7 DEF Flow

\* The same, whatever else of the Socket changes.
LEMMA FlowSame ==
  ASSUME NEW s, NEW t, NEW r, NEW k, t.ready = s.ready, SameBuf(s, t), SameNet(s, t)
  PROVE  /\ Words(s) => Words(t)
         /\ Written(t) = Written(s) /\ Given(t) = Given(s) /\ OnWire(t, k) = OnWire(s, k)
         /\ (Flow(s, r, k) => Flow(t, r, k)) /\ (Ended(s, r, k) => Ended(t, r, k))
<1>1. Words(s) => Words(t)
  BY DEF Words, SameBuf
<1>2. Written(t) = Written(s)
  BY DEF Written, SameBuf
<1>3. Given(t) = Given(s)
  BY <1>2 DEF Given, SameBuf
<1>4. OnWire(t, k) = OnWire(s, k)
  BY DEF OnWire, SameNet
<1>5. Closed(s) = Closed(t) /\ Lost(s) = Lost(t)
  BY DEF Closed, Lost, SameNet
<1>6. Mailed(s, k) => Mailed(t, k)
  BY DEF Mailed, SameNet
<1>7. t.jsonp = s.jsonp /\ t.failed = s.failed /\ t.posted = s.posted /\ t.owed = s.owed
  BY DEF SameNet, SameBuf
<1>8. Flow(s, r, k) => Flow(t, r, k)
  BY <1>3, <1>4, <1>5, <1>6, <1>7 DEF Flow
<1>9. Ended(s, r, k) => Ended(t, r, k)
  BY <1>4, <1>5, <1>7 DEF Ended
<1> QED BY <1>1, <1>2, <1>3, <1>4, <1>8, <1>9

\* sendPacket() puts a packet behind what was sent and into the write buffer.
LEMMA FlowOfAppend ==
  ASSUME NEW s, NEW t, Typed(s), Typed(t), Words(s), NEW p \in UpPacket, p.type \notin Control,
         t.sent = Append(s.sent, p), t.writeBuffer = Append(s.writeBuffer, p),
         t.owed = s.owed, t.prevBufferLen = s.prevBufferLen
  PROVE  /\ Words(t) /\ Written(t) = Written(s) /\ Given(t) = Given(s)
         /\ Connection!Begins(s.sent, t.sent)
<1> DEFINE v == s.sent
           b == s.writeBuffer
           v2 == Append(v, p)
           b2 == Append(b, p)
<1>1. /\ v \in Seq(UpPacket) /\ b \in Seq(UpPacket) /\ Suffix(b, v)
      /\ Written(s) \in 0 .. Len(v) /\ s.owed \in Nat /\ s.owed <= Len(v)
      /\ \A i \in 1 .. Len(v) : v[i].type \notin Control
      /\ s.prevBufferLen \in Nat
  BY FlowTypes DEF Words
<1>2. t.sent = v2 /\ t.writeBuffer = b2
  OBVIOUS
<1>3. /\ v2 \in Seq(UpPacket) /\ Len(v2) = Len(v) + 1 /\ Len(v) \in Nat
      /\ \A i \in 1 .. Len(v) : v2[i] = v[i]
      /\ v2[Len(v) + 1] = p
  BY <1>1, AppendProperty
<1>4. Len(b2) = Len(b) + 1 /\ Len(b) \in Nat
  BY <1>1, AppendProperty
<1>5. Suffix(b2, v2)
  BY <1>1, AppendSuffix
<1>6. Written(s) = (Len(v) - Len(b)) + s.prevBufferLen
      /\ Written(t) = (Len(v2) - Len(b2)) + s.prevBufferLen
  BY DEF Written
<1>7. Given(s) = SubSeq(v, 1, Written(s)) /\ Given(t) = SubSeq(v2, 1, Written(t))
  BY DEF Given
<1>8. SubSeq(v2, 1, Written(s)) = SubSeq(v, 1, Written(s)) /\ SubSeq(v2, 1, Len(v)) = v
  <2>1. Len(v) \in 0 .. Len(v)
    BY <1>3
  <2>2. SubSeq(v, 1, Len(v)) = v
    BY <1>1, SubSeqFull
  <2>3. \A w \in 0 .. Len(v) : SubSeq(v2, 1, w) = SubSeq(v, 1, w)
    BY <1>1, FirstOf
  <2> QED BY <1>1, <2>1, <2>2, <2>3
<1> HIDE DEF v, b, v2, b2
<1>9. Written(t) = Written(s)
  BY <1>1, <1>3, <1>4, <1>6
<1>10. \A i \in 1 .. Len(v2) : v2[i].type \notin Control
  <2> TAKE i \in 1 .. Len(v2)
  <2>1. i \in 1 .. Len(v) \/ i = Len(v) + 1
    BY <1>3
  <2> QED BY <1>1, <1>3, <2>1
<1>11. s.owed <= Len(v2)
  BY <1>1, <1>3
<1>12. Words(t)
  BY <1>2, <1>5, <1>10, <1>11 DEF Words
<1>13. Connection!Begins(v, v2)
  BY <1>3, <1>8 DEF Connection!Begins
<1> QED BY <1>2, <1>8, <1>9, <1>12, <1>13, <1>7 DEF v

\* onDrain() takes off the write buffer what was given to the transport.
LEMMA FlowOfDrain ==
  ASSUME NEW s, NEW t, Typed(s), Words(s),
         t.sent = s.sent, t.owed = s.owed, t.prevBufferLen = 0,
         t.writeBuffer = SubSeq(s.writeBuffer, s.prevBufferLen + 1, Len(s.writeBuffer))
  PROVE  Words(t) /\ Written(t) = Written(s) /\ Given(t) = Given(s)
<1> DEFINE v == s.sent
           b == s.writeBuffer
           n == s.prevBufferLen
           d == SubSeq(b, n + 1, Len(b))
<1>1. /\ v \in Seq(UpPacket) /\ b \in Seq(UpPacket) /\ Suffix(b, v)
      /\ n \in Nat /\ n <= Len(b) /\ Len(b) \in Nat /\ Len(v) \in Nat
      /\ Len(b) <= Len(v)
  BY FlowTypes DEF Words
<1>2. n \in 0 .. Len(b)
  BY <1>1
<1>3. Suffix(d, v) /\ Len(d) = Len(b) - n
  BY <1>1, <1>2, DropSuffix
<1>4. Written(s) = (Len(v) - Len(b)) + n /\ Written(t) = (Len(v) - Len(d)) + 0
  BY DEF Written
<1>5. t.writeBuffer = d /\ t.sent = v
  OBVIOUS
<1> HIDE DEF d
<1>6. Words(t)
  BY <1>3, <1>5 DEF Words, v
<1> HIDE DEF v, b, n
<1>7. Written(t) = Written(s)
  BY <1>1, <1>3, <1>4
<1> QED BY <1>5, <1>6, <1>7 DEF Given, v

-----------------------------------------------------------------------------
(* The invariant: s is the Socket, r what the server has received.         *)

\* Of any state of the Socket.
Shape(s) ==
  /\ s.post # "asked" => s.posted = <<>>
  /\ s.transport = "websocket" =>
       s.posted = <<>> /\ s.poll.state \in {"", "paused", "closed"}
  /\ s.transport = "polling" => \A i \in 1 .. Len(s.up) : s.up[i].type = "probe"
  /\ Probing(s) => s.transport = "polling"
  /\ s.jsonp => s.transport = "polling" /\ s.probe \notin {"pinged", "ponged"}
  /\ s.bye => Closed(s) /\ s.transport = "polling"
  /\ s.ws.state = "open" => s.link \in {"up", "down", "closed"}

\* Of the buffer, the POST under way and the pause: as long as packets of the buffer
\* are with a transport, prevBufferLen says so, and a pause waits for what is under way.
Mode(s) ==
  /\ Closed(s) =>
       s.poll.waits = {} /\ ~ s.poll.heard /\ s.writeBuffer = <<>> /\ ~ Probing(s)
  /\ ~ Closed(s) =>
       /\ s.transport = "polling" =>
            /\ s.poll.writable => s.post = "idle"
            /\ s.posted # <<>> => s.prevBufferLen > 0
            /\ s.poll.state = "opening" => s.prevBufferLen = 0
       /\ s.transport = "websocket" =>
            (s.link \in {"none", "connecting", "accepted"} => s.prevBufferLen = 0)
       /\ s.poll.waits # {} =>
            /\ s.transport = "polling" /\ s.poll.state = "pausing"
            /\ s.poll.writable \/ "drain" \in s.poll.waits
            /\ s.poll.polling => "pollComplete" \in s.poll.waits

\* A close that waits for the upgrade has given all it owes to the polling transport.
Awaits(s) ==
  ~ Closed(s) /\ s.closing = "upgrade" =>
    s.owed <= Written(s) /\ (s.transport = "polling" => s.upgrading /\ s.posted = <<>>)

\* The transport may be written to only when the buffer holds nothing it was given before.
Ready(s) == ~ Closed(s) /\ Writable(s) => s.prevBufferLen = 0

\* As long as nothing fails, nothing is lost and nothing ends the connection.
Ending(p) == p.type \in {"close", "error"}
Fine(s) ==
  ~ s.failed /\ ~ Closed(s) =>
    /\ s.post # "failed" /\ s.get # "failed"
    /\ s.link \notin {"down", "closed"}
    /\ \A i \in 1 .. Len(s.answer) : ~ Ending(s.answer[i])
    /\ \A i \in 1 .. Len(s.payload) : ~ Ending(s.payload[i])

Base(s, r) ==
  /\ Safe(s) /\ Words(s) /\ Shape(s) /\ Mode(s) /\ Fine(s)
  /\ \E k \in Nat : Flow(s, r, k) /\ Ended(s, r, k)
Good(s, r) == Base(s, r) /\ Awaits(s) /\ Ready(s)

\* What the server and the network have for the Socket.
SameIn(s, t) == /\ t.get = s.get /\ t.answer = s.answer /\ t.payload = s.payload
                /\ t.down = s.down /\ t.got = s.got /\ t.reading = s.reading
                /\ t.poll.polling = s.poll.polling

\* What a handler never does.
Kept(s, t) ==
  /\ Connection!Begins(s.sent, t.sent)
  /\ SameIn(s, t) /\ t.failed = s.failed /\ t.jsonp = s.jsonp
  /\ s.opened => t.opened
  /\ Closed(s) => Closed(t) /\ t.sent = s.sent /\ t.posted = s.posted /\ t.up = s.up
  /\ \/ t.transport = s.transport
     \/ s.transport = "polling" /\ t.transport = "websocket" /\ ~ s.poll.polling
  /\ s.transport = "websocket" /\ s.link \in {"down", "closed"} => t.link \in {"down", "closed"}

\* Every sequence begins itself.
LEMMA BeginsItself == \A v : v \in Seq(UpPacket) => Connection!Begins(v, v)
BY SubSeqFull DEF Connection!Begins

\* To begin is transitive.
LEMMA BeginsBegins ==
  ASSUME NEW S, NEW u \in Seq(S), NEW v \in Seq(S), NEW w \in Seq(S),
         Connection!Begins(u, v), Connection!Begins(v, w)
  PROVE  Connection!Begins(u, w)
<1>1. Len(u) \in Nat /\ Len(v) \in Nat /\ Len(w) \in Nat /\ Len(u) <= Len(v) /\ Len(v) <= Len(w)
  BY DEF Connection!Begins
<1>2. u = SubSeq(v, 1, Len(u)) /\ v = SubSeq(w, 1, Len(v))
  BY DEF Connection!Begins
<1>3. /\ \A i \in 1 .. Len(u) : SubSeq(v, 1, Len(u))[i] = v[i]
      /\ \A i \in 1 .. Len(v) : SubSeq(w, 1, Len(v))[i] = w[i]
      /\ SubSeq(w, 1, Len(u)) \in Seq(S) /\ Len(SubSeq(w, 1, Len(u))) = Len(u)
      /\ \A i \in 1 .. Len(u) : SubSeq(w, 1, Len(u))[i] = w[i]
  BY <1>1
<1>4. \A i \in 1 .. Len(u) : u[i] = w[i]
  <2> TAKE i \in 1 .. Len(u)
  <2>1. i \in 1 .. Len(v)
    BY <1>1
  <2> QED BY <1>2, <1>3, <2>1
<1>5. u = SubSeq(w, 1, Len(u))
  BY <1>3, <1>4, SeqEqual
<1> QED BY <1>1, <1>5 DEF Connection!Begins

\* A handler that does nothing breaks none of the promises of Kept.
LEMMA KeptItself ==
  ASSUME NEW s, Typed(s)
  PROVE  Kept(s, s)
<1>1. s.sent \in Seq(UpPacket)
  BY DEF Typed, Client
<1>2. Connection!Begins(s.sent, s.sent)
  BY <1>1, BeginsItself
<1> QED BY <1>2 DEF Kept, SameIn

\* Nor do two handlers, the one after the other.
LEMMA KeptBoth ==
  ASSUME NEW s, NEW t, NEW u, Typed(s), Typed(t), Typed(u), Kept(s, t), Kept(t, u)
  PROVE  Kept(s, u)
<1>1. s.sent \in Seq(UpPacket) /\ t.sent \in Seq(UpPacket) /\ u.sent \in Seq(UpPacket)
  BY DEF Typed, Client
<1>2. Connection!Begins(s.sent, u.sent)
  BY <1>1, BeginsBegins DEF Kept
<1>3. SameIn(s, u) /\ u.failed = s.failed /\ u.jsonp = s.jsonp /\ (s.opened => u.opened)
  BY DEF Kept, SameIn
<1>4. Closed(s) => Closed(u) /\ u.sent = s.sent /\ u.posted = s.posted /\ u.up = s.up
  BY DEF Kept
<1>5. \/ u.transport = s.transport
      \/ s.transport = "polling" /\ u.transport = "websocket" /\ ~ s.poll.polling
  BY DEF Kept, SameIn
<1>6. s.transport = "websocket" /\ s.link \in {"down", "closed"} => u.link \in {"down", "closed"}
  BY DEF Kept
<1> QED BY <1>2, <1>3, <1>4, <1>5, <1>6 DEF Kept

-----------------------------------------------------------------------------
(* Closing.                                                                *)

\* A transport is closed: nothing else changes.
Shuts(s, t) ==
  /\ SameBuf(s, t) /\ SameIn(s, t)
  /\ t.jsonp = s.jsonp /\ t.transport = s.transport /\ t.post = s.post /\ t.posted = s.posted
  /\ t.up = s.up /\ t.failed = s.failed /\ t.opened = s.opened /\ t.ready = s.ready
  /\ t.closing = s.closing /\ t.upgrading = s.upgrading
  /\ t.poll.waits = s.poll.waits /\ t.poll.heard = s.poll.heard
  /\ t.poll.state = s.poll.state \/ t.poll.state = "closed"
  /\ t.bye => s.bye \/ s.transport = "polling"
  /\ t.probe = s.probe \/ t.probe = "over"
  /\ \/ t.link = s.link /\ t.ws.state = s.ws.state
     \/ t.link \in {"down", "closed"} /\ t.ws.state = "closed"

\* Two steps that only close transports do no more than close transports.
LEMMA ShutsBoth ==
  ASSUME NEW s, NEW t, NEW u, Shuts(s, t), Shuts(t, u)
  PROVE  Shuts(s, u)
<1>1. SameBuf(s, u) /\ SameIn(s, u)
  BY DEF Shuts, SameBuf, SameIn
<1> QED BY <1>1 DEF Shuts

\* close() and the freezing of a probe only close transports.
LEMMA TransportShuts ==
  ASSUME NEW s, Basic(s)
  PROVE  Shuts(s, CloseTransport(s)) /\ Shuts(s, Freeze(s))
<1>1. s \in Client
  BY DEF Basic, Typed
<1>2. ASSUME s.transport = "polling"
      PROVE  Shuts(s, PollClose(s))
  <2>1. CASE s.poll.state = "open"
    <3> DEFINE t == [s EXCEPT !.poll.state = "closed", !.poll.writable = FALSE, !.bye = TRUE]
    <3>1. PollClose(s) = t
      BY <2>1 DEF PollClose
    <3>2. /\ SameBuf(s, t) /\ SameIn(s, t) /\ t.jsonp = s.jsonp /\ t.transport = s.transport
          /\ t.post = s.post /\ t.posted = s.posted /\ t.up = s.up /\ t.failed = s.failed
          /\ t.opened = s.opened /\ t.ready = s.ready /\ t.closing = s.closing
          /\ t.upgrading = s.upgrading /\ t.probe = s.probe
      BY <1>1 DEF Client, Polling, SameBuf, SameIn
    <3>3. /\ t.poll.waits = s.poll.waits /\ t.poll.heard = s.poll.heard
          /\ t.poll.state = "closed"
          /\ t.link = s.link /\ t.ws = s.ws
      BY <1>1 DEF Client, Polling
    <3> HIDE DEF t
    <3> QED BY <1>2, <3>1, <3>2, <3>3 DEF Shuts
  <2>2. CASE s.poll.state = "opening"
    <3> DEFINE t == [s EXCEPT !.poll.state = "closed", !.poll.deferred = TRUE]
    <3>1. PollClose(s) = t
      BY <2>2 DEF PollClose
    <3>2. /\ SameBuf(s, t) /\ SameIn(s, t) /\ t.jsonp = s.jsonp /\ t.transport = s.transport
          /\ t.post = s.post /\ t.posted = s.posted /\ t.up = s.up /\ t.failed = s.failed
          /\ t.opened = s.opened /\ t.ready = s.ready /\ t.closing = s.closing
          /\ t.upgrading = s.upgrading /\ t.probe = s.probe
      BY <1>1 DEF Client, Polling, SameBuf, SameIn
    <3>3. /\ t.poll.waits = s.poll.waits /\ t.poll.heard = s.poll.heard
          /\ t.poll.state = "closed"
          /\ t.link = s.link /\ t.ws = s.ws /\ t.bye = s.bye
      BY <1>1 DEF Client, Polling
    <3> HIDE DEF t
    <3> QED BY <1>2, <3>1, <3>2, <3>3 DEF Shuts
  <2>3. CASE s.poll.state \notin {"open", "opening"}
    BY <2>3 DEF PollClose, Shuts, SameBuf, SameIn
  <2> QED BY <2>1, <2>2, <2>3
<1>3. Shuts(s, WsClose(s))
  <2>1. CASE s.ws.state \in {"opening", "open"}
    <3> DEFINE t == [s EXCEPT !.ws.state = "closed",
                              !.link = IF @ = "down" THEN @ ELSE "closed"]
    <3>1. WsClose(s) = t
      BY <2>1 DEF WsClose
    <3>2. /\ SameBuf(s, t) /\ SameIn(s, t) /\ t.jsonp = s.jsonp /\ t.transport = s.transport
          /\ t.post = s.post /\ t.posted = s.posted /\ t.up = s.up /\ t.failed = s.failed
          /\ t.opened = s.opened /\ t.ready = s.ready /\ t.closing = s.closing
          /\ t.upgrading = s.upgrading /\ t.probe = s.probe
      BY <1>1 DEF Client, WS, SameBuf, SameIn
    <3>3. /\ t.poll = s.poll /\ t.bye = s.bye
          /\ t.link \in {"down", "closed"} /\ t.ws.state = "closed"
      BY <1>1 DEF Client, WS
    <3> HIDE DEF t
    <3> QED BY <3>1, <3>2, <3>3 DEF Shuts
  <2>2. CASE s.ws.state \notin {"opening", "open"}
    BY <2>2 DEF WsClose, Shuts, SameBuf, SameIn
  <2> QED BY <2>1, <2>2
<1>4. Shuts(s, CloseTransport(s))
  BY <1>2, <1>3 DEF CloseTransport
<1>5. Shuts(s, Freeze(s))
  <2> DEFINE w == WsClose(s)
  <2>1. w \in Client /\ Shuts(s, w)
    BY <1>3, CloseTransportSure DEF Basic, Typed
  <2>2. Freeze(s) = [w EXCEPT !.probe = "over"]
    BY DEF Freeze
  <2> HIDE DEF w
  <2>3. Shuts(w, Freeze(s))
    BY <2>1, <2>2 DEF Client, Shuts, SameBuf, SameIn
  <2> QED BY <2>1, <2>3, ShutsBoth
<1> QED BY <1>4, <1>5

\* onClose(), alone or within a forced close: all that was to be written is dropped.
Ceases(s, t) ==
  /\ Safe(t) /\ Closed(t) /\ t.poll.waits = {} /\ ~ t.poll.heard
  /\ t.writeBuffer = <<>> /\ t.sent = s.sent /\ t.owed = s.owed
  /\ SameIn(s, t)
  /\ t.jsonp = s.jsonp /\ t.transport = s.transport /\ t.post = s.post /\ t.posted = s.posted
  /\ t.up = s.up /\ t.failed = s.failed /\ t.opened = s.opened
  /\ t.poll.state = s.poll.state \/ t.poll.state = "closed"
  /\ t.bye => s.bye \/ s.transport = "polling"
  /\ ~ Probing(t) /\ (t.probe = s.probe \/ t.probe = "over")
  /\ \/ t.link = s.link /\ t.ws.state = s.ws.state
     \/ t.link \in {"down", "closed"} /\ t.ws.state = "closed"

\* onClose() of a Socket that is not closed yet.
LEMMA OnCloseCeases ==
  ASSUME NEW s, Basic(s), ~ Closed(s)
  PROVE  Ceases(s, OnClose(s))
<1> DEFINE shut == CloseTransport(s)
           told == [shut EXCEPT !.ready = "closed", !.pingInterval = FALSE,
                      !.pingTimeout = FALSE, !.poll.heard = FALSE, !.poll.waits = {}]
           over == IF Probing(told) THEN Freeze(told) ELSE told
           t == [over EXCEPT !.writeBuffer = <<>>, !.prevBufferLen = 0]
<1>1. Safe(OnClose(s)) /\ Closed(OnClose(s))
  BY OnCloseSure, ClosedSafe DEF Safe, Closed
<1>2. OnClose(s) = t
  BY DEF OnClose, Closed
<1>3. Basic(shut) /\ Shuts(s, shut)
  BY CloseTransportSure, TransportShuts
<1> HIDE DEF shut
<1>4. shut \in Client
  BY <1>3 DEF Basic, Typed
<1>5. told \in Client
  BY <1>4 DEF Client, Polling
<1>6. /\ told.threw = shut.threw /\ told.poll.state = shut.poll.state
      /\ told.poll.writable = shut.poll.writable /\ told.ws = shut.ws
      /\ told.prevBufferLen = shut.prevBufferLen /\ told.writeBuffer = shut.writeBuffer
      /\ told.post = shut.post /\ told.link = shut.link /\ told.jsonp = shut.jsonp
  BY <1>4 DEF Client, Polling
<1>7. /\ told.ready = "closed" /\ told.poll.waits = {} /\ told.poll.heard = FALSE
      /\ told.sent = shut.sent /\ told.owed = shut.owed /\ SameIn(shut, told)
      /\ told.transport = shut.transport /\ told.posted = shut.posted
      /\ told.up = shut.up /\ told.failed = shut.failed /\ told.opened = shut.opened
      /\ told.bye = shut.bye /\ told.probe = shut.probe
  BY <1>4 DEF Client, Polling, SameIn
<1> HIDE DEF told
<1>8. Basic(told)
  BY <1>3, <1>5, <1>6 DEF Basic, Typed, Coherent
<1>9. Basic(over) /\ Shuts(told, over) /\ ~ Probing(over)
  <2>1. CASE Probing(told)
    BY <1>8, <2>1, FreezeSure, TransportShuts DEF Probing
  <2>2. CASE ~ Probing(told)
    BY <1>8, <2>2 DEF Shuts, SameBuf, SameIn
  <2> QED BY <2>1, <2>2
<1> HIDE DEF over
<1>10. over \in Client
  BY <1>9 DEF Basic, Typed
<1>11. /\ t.writeBuffer = <<>> /\ t.sent = over.sent /\ t.owed = over.owed
       /\ SameIn(over, t) /\ t.poll = over.poll /\ t.jsonp = over.jsonp
       /\ t.transport = over.transport /\ t.post = over.post /\ t.posted = over.posted
       /\ t.up = over.up /\ t.failed = over.failed /\ t.opened = over.opened
       /\ t.bye = over.bye /\ t.probe = over.probe /\ t.link = over.link /\ t.ws = over.ws
  BY <1>10 DEF Client, SameIn
<1> HIDE DEF t
<1>12. SameIn(s, t)
  BY <1>3, <1>7, <1>9, <1>11 DEF Shuts, SameIn
<1>13. /\ t.poll.waits = {} /\ ~ t.poll.heard /\ t.sent = s.sent /\ t.owed = s.owed
       /\ t.jsonp = s.jsonp /\ t.transport = s.transport /\ t.post = s.post
       /\ t.posted = s.posted /\ t.up = s.up /\ t.failed = s.failed /\ t.opened = s.opened
  BY <1>3, <1>6, <1>7, <1>9, <1>11 DEF Shuts, SameBuf
<1>14. /\ t.poll.state = s.poll.state \/ t.poll.state = "closed"
       /\ t.bye => s.bye \/ s.transport = "polling"
       /\ ~ Probing(t) /\ (t.probe = s.probe \/ t.probe = "over")
       /\ \/ t.link = s.link /\ t.ws.state = s.ws.state
          \/ t.link \in {"down", "closed"} /\ t.ws.state = "closed"
  BY <1>3, <1>6, <1>7, <1>9, <1>11 DEF Shuts, Probing
<1> QED BY <1>1, <1>2, <1>11, <1>12, <1>13, <1>14 DEF Ceases

\* A forced close is one of the Socket that waits for nothing.
LEMMA ForcedCloseCeases ==
  ASSUME NEW s, NEW u, Safe(u), ~ Closed(u), u = [s EXCEPT !.closing = "nothing"]
  PROVE  Ceases(u, ForcedClose(s))
<1> DEFINE t == OnClose(u)
           f == CloseTransport(t)
<1>1. ForcedClose(s) = f
  BY DEF ForcedClose
<1>2. Ceases(u, t)
  BY OnCloseCeases DEF Safe
<1>3. Basic(t) /\ t.ready = "closed"
  BY <1>2 DEF Ceases, Safe, Closed
<1> HIDE DEF t
<1>4. Basic(f) /\ f.ready = "closed" /\ Shuts(t, f)
  BY <1>3, CloseTransportSure, TransportShuts
<1> HIDE DEF f
<1>5. Safe(f) /\ Closed(f)
  BY <1>4, ClosedSafe DEF Closed
<1>6. SameIn(u, f)
  BY <1>2, <1>4 DEF Ceases, Shuts, SameIn
<1>7. /\ f.writeBuffer = <<>> /\ f.sent = u.sent /\ f.owed = u.owed
      /\ f.poll.waits = {} /\ ~ f.poll.heard
      /\ f.jsonp = u.jsonp /\ f.transport = u.transport /\ f.post = u.post
      /\ f.posted = u.posted /\ f.up = u.up /\ f.failed = u.failed /\ f.opened = u.opened
  BY <1>2, <1>4 DEF Ceases, Shuts, SameBuf
<1>8. /\ f.poll.state = u.poll.state \/ f.poll.state = "closed"
      /\ f.bye => u.bye \/ u.transport = "polling"
      /\ ~ Probing(f) /\ (f.probe = u.probe \/ f.probe = "over")
      /\ \/ f.link = u.link /\ f.ws.state = u.ws.state
         \/ f.link \in {"down", "closed"} /\ f.ws.state = "closed"
  BY <1>2, <1>4 DEF Ceases, Shuts, Probing
<1> QED BY <1>1, <1>5, <1>6, <1>7, <1>8 DEF Ceases

\* A close after all that is owed has been written.
Paid(s) == ~ s.failed => s.posted = <<>> /\ s.owed <= Written(s)

\* As long as nothing failed and the Socket is not closed, the transport gets everything through.
LEMMA NotLost ==
  ASSUME NEW s, Typed(s), Fine(s), ~ s.failed, ~ Closed(s)
  PROVE  ~ Lost(s)
BY DEF Fine, Lost

\* A Socket may close whenever all that it owes is written.
LEMMA Ceased ==
  ASSUME NEW s, NEW t, NEW r \in Seq(UpPacket), Base(s, r), ~ Closed(s), Paid(s), Ceases(s, t)
  PROVE  Good(t, r) /\ Kept(s, t)
<1>1. /\ Safe(s) /\ Typed(s) /\ Typed(t) /\ Words(s) /\ Shape(s) /\ Fine(s) /\ Closed(t)
  BY DEF Base, Ceases, Safe, Basic
<1>2. PICK k \in Nat : Flow(s, r, k)
  BY DEF Base
<1>3. Words(t) /\ Flow(t, r, k) /\ OnWire(t, k) = OnWire(s, k)
  BY <1>1, <1>2, FlowOfClose DEF Ceases
<1>4. Ended(t, r, k)
  <2> SUFFICES ASSUME ~ t.failed
               PROVE  t.posted = <<>> /\ Len(r) + Len(OnWire(t, k)) >= t.owed
    BY DEF Ended
  <2>1. ~ s.failed /\ t.posted = s.posted /\ t.owed = s.owed
    BY DEF Ceases
  <2>2. r \o OnWire(s, k) = Given(s)
    BY <1>1, <1>2, <2>1, NotLost DEF Flow
  <2>3. Len(Given(s)) = Written(s)
    BY <1>1, FlowTypes
  <2>4. Len(r \o OnWire(s, k)) = Len(r) + Len(OnWire(s, k))
    BY <1>1, <1>2, WireType DEF Flow
  <2>5. Written(s) >= s.owed /\ s.posted = <<>>
    <3>1. Written(s) \in Nat /\ s.owed \in Nat
      BY <1>1, FlowTypes
    <3> QED BY <2>1, <3>1 DEF Paid
  <2> QED BY <1>3, <2>1, <2>2, <2>3, <2>4, <2>5
<1>5. Shape(t)
  BY <1>1 DEF Ceases, Shape, Probing, Closed
<1>6. Mode(t) /\ Fine(t) /\ Awaits(t) /\ Ready(t)
  BY <1>1 DEF Ceases, Mode, Fine, Awaits, Ready
<1>7. Good(t, r)
  BY <1>1, <1>2, <1>3, <1>4, <1>5, <1>6 DEF Good, Base, Ceases
<1>8. Connection!Begins(s.sent, t.sent)
  <2>1. s.sent \in Seq(UpPacket) /\ t.sent = s.sent
    BY <1>1, FlowTypes DEF Ceases
  <2> QED BY <2>1, BeginsItself
<1>9. Kept(s, t)
  BY <1>8 DEF Ceases, Kept
<1> QED BY <1>7, <1>9

-----------------------------------------------------------------------------
(* Writing.                                                                *)

SameCtl(s, t) == /\ t.ready = s.ready /\ t.closing = s.closing /\ t.upgrading = s.upgrading
                 /\ t.probe = s.probe /\ t.bye = s.bye /\ t.opened = s.opened
                 /\ t.failed = s.failed /\ t.jsonp = s.jsonp /\ t.transport = s.transport

\* A handler that leaves alone what Kept is about keeps it.
LEMMA KeptMost ==
  ASSUME NEW s, NEW t, Typed(s), t.sent = s.sent, SameIn(s, t), t.failed = s.failed,
         t.jsonp = s.jsonp, t.transport = s.transport, s.opened => t.opened,
         Closed(s) => Closed(t) /\ t.posted = s.posted /\ t.up = s.up,
         t.link = s.link \/ s.transport = "polling"
  PROVE  Kept(s, t)
<1>1. Connection!Begins(s.sent, t.sent)
  <2>1. s.sent \in Seq(UpPacket)
    BY DEF Typed, Client
  <2> QED BY <2>1, BeginsItself
<1> QED BY <1>1 DEF Kept

\* So does one that leaves the control fields alone, too.
LEMMA KeptSame ==
  ASSUME NEW s, NEW t, Typed(s), t.sent = s.sent, SameIn(s, t), SameCtl(s, t),
         Closed(s) => t.posted = s.posted /\ t.up = s.up,
         t.link = s.link \/ s.transport = "polling"
  PROVE  Kept(s, t)
BY KeptMost DEF SameCtl, Closed

\* What no lemma here is about changes nothing.
SameAll(s, t) == /\ SameBuf(s, t) /\ SameNet(s, t) /\ SameCtl(s, t)
                 /\ t.poll = s.poll /\ t.ws = s.ws /\ t.threw = s.threw
                 /\ t.get = s.get /\ t.answer = s.answer /\ t.payload = s.payload

\* The invariant does not look at the other fields.
LEMMA SameIsGood ==
  ASSUME NEW s, NEW t, NEW r \in Seq(UpPacket), Typed(t), SameAll(s, t)
  PROVE  (Base(s, r) => Base(t, r)) /\ (Good(s, r) => Good(t, r))
<1>1. SameBuf(s, t) /\ SameNet(s, t) /\ t.ready = s.ready
  BY DEF SameAll, SameCtl
<1>2. Safe(s) => Safe(t)
  <2>1. SameSafe(s, t)
    BY DEF SameAll, SameNet, SameCtl, SameSafe
  <2> QED BY <2>1, SameIsSafe
<1>3. Shape(s) => Shape(t)
  BY DEF SameAll, SameNet, SameCtl, Shape, Probing, Closed
<1>4. Mode(s) => Mode(t)
  BY DEF SameAll, SameBuf, SameNet, SameCtl, Mode, Closed, Probing
<1>5. Fine(s) => Fine(t)
  BY DEF SameAll, SameNet, SameCtl, Fine, Closed
<1>6. Awaits(s) => Awaits(t)
  <2>1. Written(t) = Written(s)
    BY <1>1, FlowSame
  <2> QED BY <2>1 DEF SameAll, SameBuf, SameNet, SameCtl, Awaits, Closed
<1>7. Ready(s) => Ready(t)
  BY DEF SameAll, SameBuf, SameCtl, Ready, Writable, Closed
<1>8. (Words(s) => Words(t))
      /\ \A k \in Nat : Flow(s, r, k) /\ Ended(s, r, k) => Flow(t, r, k) /\ Ended(t, r, k)
  BY <1>1, FlowSame
<1>9. Base(s, r) => Base(t, r)
  BY <1>2, <1>3, <1>4, <1>5, <1>8 DEF Base
<1> QED BY <1>6, <1>7, <1>9 DEF Good

\* flush(): the buffer goes to the transport, if that is ready for it.
LEMMA FlushGood ==
  ASSUME NEW s, NEW r \in Seq(UpPacket), Good(s, r)
  PROVE  Good(Flush(s), r) /\ Kept(s, Flush(s))
<1> DEFINE b == s.writeBuffer
           must == ~ Closed(s) /\ Writable(s) /\ ~ s.upgrading /\ b # <<>>
           t == [Send(s, b) EXCEPT !.prevBufferLen = Len(b)]
<1>1. /\ Safe(s) /\ Typed(s) /\ Words(s) /\ Shape(s) /\ Mode(s) /\ Fine(s) /\ Awaits(s)
      /\ Ready(s) /\ s \in Client /\ Coherent(s)
  BY DEF Good, Base, Safe, Basic, Typed
<1>2. CASE ~ must
  <2>1. Flush(s) = s
    BY <1>2 DEF Flush, Closed
  <2> QED BY <1>1, <2>1, KeptItself
<1>3. CASE must
  <2>1. Flush(s) = t
    BY <1>3 DEF Flush, Closed
  <2>2. Safe(t) /\ Typed(t)
    BY <2>1, <1>1, FlushSafe DEF Safe, Basic
  <2>3. s.prevBufferLen = 0
    BY <1>1, <1>3 DEF Ready
  <2>4. /\ b \in Seq(UpPacket) /\ s.up \in Seq(UpPacket) /\ Len(b) \in Nat /\ Len(b) > 0
        /\ s.transport \in {"polling", "websocket"}
    <3>1. b \in Seq(UpPacket) /\ s.up \in Seq(UpPacket) /\ s.transport \in {"polling", "websocket"}
      BY <1>1, FlowTypes
    <3>2. b # <<>>
      BY <1>3
    <3> HIDE DEF b
    <3>3. Len(b) \in Nat /\ Len(b) > 0
      BY <3>1, <3>2
    <3> QED BY <3>1, <3>3
  <2>5. PICK k \in Nat : Flow(s, r, k)
    BY DEF Good, Base
  <2>6. ~ Closed(s)
    BY <1>3
  <2>7. CASE s.transport = "polling"
    <3>1. s.poll.state = "open" /\ s.poll.writable /\ s.post = "idle" /\ s.poll.waits = {}
      BY <1>1, <1>3, <2>6, <2>7 DEF Writable, Safe, Coherent, PollOpen, Mode, Closed
    <3>2. t = [PollWrite(s, b) EXCEPT !.prevBufferLen = Len(b)]
      BY <2>7, <3>1 DEF Send
    <3> DEFINE p == PollWrite(s, b)
    <3>3. Safe(p)
      BY <1>1, <2>4, <3>1, PollWriteSafe
    <3>4. /\ p.sent = s.sent /\ p.writeBuffer = s.writeBuffer /\ p.owed = s.owed
          /\ SameIn(s, p) /\ SameCtl(s, p)
          /\ p.post = "asked" /\ p.posted = b /\ p.link = s.link /\ p.up = s.up /\ p.ws = s.ws
      BY <1>1 DEF PollWrite, Create, Client, Polling, SameIn, SameCtl
    <3>5. /\ p.poll.waits = s.poll.waits /\ p.poll.writable = FALSE
          /\ p.poll.state = s.poll.state
      BY <1>1 DEF PollWrite, Create, Client, Polling
    <3> HIDE DEF p
    <3>6. p \in Client
      BY <3>3 DEF Safe, Basic, Typed
    <3>7. /\ t.sent = p.sent /\ t.writeBuffer = p.writeBuffer /\ t.owed = p.owed
          /\ t.prevBufferLen = Len(b) /\ SameIn(p, t) /\ SameCtl(p, t)
          /\ t.post = p.post /\ t.posted = p.posted /\ t.link = p.link /\ t.up = p.up
          /\ t.ws = p.ws /\ t.poll = p.poll
      BY <3>2, <3>6 DEF Client, SameIn, SameCtl, p
    <3>8. /\ t.sent = s.sent /\ t.writeBuffer = b /\ t.owed = s.owed
          /\ t.prevBufferLen = Len(b) /\ SameIn(s, t) /\ SameCtl(s, t)
          /\ t.post = "asked" /\ t.posted = b /\ t.link = s.link /\ t.up = s.up /\ t.ws = s.ws
      BY <3>4, <3>7 DEF SameIn, SameCtl
    <3>9. t.poll.waits = {} /\ ~ t.poll.writable /\ t.poll.state = "open"
          /\ t.poll.polling = s.poll.polling
      BY <3>1, <3>8, <3>5, <3>7 DEF SameIn
    <3> HIDE DEF t, b
    <3>10. OnWire(s, k) = <<>> /\ OnWire(t, k) = b /\ Mailed(t, k) /\ ~ Closed(t)
      BY <1>1, <2>6, <2>7, <3>1, <3>8 DEF Shape, OnWire, Mailed, SameCtl, Closed
    <3>11. OnWire(t, k) = OnWire(s, k) \o b
      BY <2>4, <3>10
    <3>12. Lost(s) => s.jsonp /\ Lost(t)
      BY <2>7, <3>1, <3>8 DEF Lost, SameCtl
    <3>13. t.sent = s.sent /\ t.writeBuffer = s.writeBuffer /\ t.owed = s.owed
           /\ t.jsonp = s.jsonp /\ t.prevBufferLen = Len(s.writeBuffer)
      BY <3>8 DEF SameCtl, b
    <3>14. Words(t) /\ Flow(t, r, k)
      BY <1>1, <2>2, <2>3, <2>5, <2>6, <3>10, <3>11, <3>12, <3>13, FlowOfFlush DEF b
    <3>15. Shape(t)
      BY <1>1, <2>7, <3>8 DEF Shape, SameCtl, Probing, Closed
    <3>16. Mode(t) /\ Ready(t)
      BY <2>4, <2>7, <3>8, <3>9, <3>10 DEF Mode, Ready, Writable, SameCtl, Closed
    <3>17. Fine(t)
      BY <1>1, <2>6, <3>8 DEF Fine, SameIn, SameCtl, Closed
    <3>18. Awaits(t)
      BY <1>1, <1>3, <2>6, <2>7, <3>8 DEF Awaits, SameCtl
    <3>19. Ended(t, r, k)
      BY <3>10 DEF Ended
    <3>20. Kept(s, t)
      BY <1>1, <2>6, <3>8, KeptSame
    <3> QED BY <2>1, <2>2, <3>14, <3>15, <3>16, <3>17, <3>18, <3>19, <3>20 DEF Good, Base, t
  <2>8. CASE s.transport = "websocket"
    <3>1. /\ s.ws.state = "open" /\ s.link \in {"up", "down", "closed"}
          /\ ~ s.jsonp /\ s.poll.waits = {}
      BY <1>1, <1>3, <2>6, <2>8 DEF Writable, Safe, WsOpened, PollOpen, Mode, Closed, Shape
    <3>2. t = [WsWrite(s, b) EXCEPT !.prevBufferLen = Len(b)]
      BY <2>8, <3>1 DEF Send
    <3> DEFINE p == WsWrite(s, b)
    <3>3. Safe(p)
      BY <1>1, <2>4, <3>1, WsWriteSafe
    <3>4. /\ p.sent = s.sent /\ p.writeBuffer = s.writeBuffer /\ p.owed = s.owed
          /\ SameIn(s, p) /\ SameCtl(s, p)
          /\ p.post = s.post /\ p.posted = s.posted /\ p.link = s.link /\ p.poll = s.poll
      BY <1>1 DEF WsWrite, Client, SameIn, SameCtl
    <3>5. /\ p.ws.state = s.ws.state /\ p.ws.writable = FALSE
          /\ p.up = (IF s.link = "up" THEN s.up \o b ELSE s.up)
      BY <1>1 DEF WsWrite, Client, WS
    <3> HIDE DEF p
    <3>6. p \in Client
      BY <3>3 DEF Safe, Basic, Typed
    <3>7. /\ t.sent = p.sent /\ t.writeBuffer = p.writeBuffer /\ t.owed = p.owed
          /\ t.prevBufferLen = Len(b) /\ SameIn(p, t) /\ SameCtl(p, t)
          /\ t.post = p.post /\ t.posted = p.posted /\ t.link = p.link /\ t.up = p.up
          /\ t.ws = p.ws /\ t.poll = p.poll
      BY <3>2, <3>6 DEF Client, SameIn, SameCtl, p
    <3>8. /\ t.sent = s.sent /\ t.writeBuffer = b /\ t.owed = s.owed
          /\ t.prevBufferLen = Len(b) /\ SameIn(s, t) /\ SameCtl(s, t)
          /\ t.post = s.post /\ t.posted = s.posted /\ t.link = s.link
          /\ t.up = (IF s.link = "up" THEN s.up \o b ELSE s.up) /\ t.poll = s.poll
      BY <3>4, <3>5, <3>7 DEF SameIn, SameCtl
    <3>9. t.ws.state = "open" /\ ~ t.ws.writable
      BY <3>1, <3>5, <3>7
    <3>10. /\ k \in 0 .. Len(s.up) /\ \A i \in 1 .. k : s.up[i].type \in Control
           /\ \A i \in k + 1 .. Len(s.up) : s.up[i].type \notin Control
      BY <2>5, <2>8 DEF Flow, Mailed
    <3>11. \A i \in 1 .. Len(b) : b[i].type \notin Control
      <4>1. s.sent \in Seq(UpPacket) /\ Len(s.sent) \in Nat
        BY <1>1, FlowTypes
      <4>2. /\ Len(s.sent) - Len(b) \in 0 .. Len(s.sent)
            /\ \A i \in 1 .. Len(b) : b[i] = s.sent[(Len(s.sent) - Len(b)) + i]
        BY <1>1, <2>4, <4>1, SuffixElements DEF Words
      <4>3. \A i \in 1 .. Len(s.sent) : s.sent[i].type \notin Control
        BY <1>1 DEF Words
      <4> HIDE DEF b
      <4> TAKE i \in 1 .. Len(b)
      <4>4. (Len(s.sent) - Len(b)) + i \in 1 .. Len(s.sent)
        BY <2>4, <4>1, <4>2
      <4> QED BY <4>2, <4>3, <4>4
    <3> HIDE DEF t, b
    <3>12. ~ Closed(t) /\ (Lost(t) <=> s.link # "up") /\ (Lost(s) <=> s.link # "up")
      BY <2>6, <2>8, <3>1, <3>8 DEF SameCtl, Closed, Lost
    <3>13. Mailed(t, k)
           /\ (s.link = "up" => OnWire(t, k) = OnWire(s, k) \o b)
           /\ (s.link # "up" => OnWire(t, k) = OnWire(s, k))
      <4>1. CASE s.link = "up"
        <5> DEFINE y == s.up \o b
        <5>1. /\ t.up = y /\ Len(y) = Len(s.up) + Len(b) /\ Len(s.up) \in Nat
              /\ \A i \in 1 .. Len(s.up) : y[i] = s.up[i]
              /\ \A i \in 1 .. Len(b) : y[Len(s.up) + i] = b[i]
          BY <2>4, <3>8, <4>1
        <5>2. SubSeq(y, k + 1, Len(y)) = SubSeq(s.up, k + 1, Len(s.up)) \o b
          BY <2>4, <3>10, PutBehind
        <5> HIDE DEF y
        <5>3. k \in 0 .. Len(y) /\ \A i \in 1 .. k : y[i].type \in Control
          <6>1. k \in 0 .. Len(y)
            BY <2>4, <3>10, <5>1
          <6>2. \A i \in 1 .. k : i \in 1 .. Len(s.up)
            BY <3>10, <5>1
          <6> QED BY <3>10, <5>1, <6>1, <6>2
        <5>4. ASSUME NEW i \in k + 1 .. Len(y)
              PROVE  y[i].type \notin Control
          <6>1. CASE i <= Len(s.up)
            <7>1. i \in 1 .. Len(s.up) /\ i \in k + 1 .. Len(s.up)
              BY <3>10, <5>1, <6>1
            <7> QED BY <3>10, <5>1, <7>1
          <6>2. CASE i > Len(s.up)
            <7> DEFINE j == i - Len(s.up)
            <7>1. j \in 1 .. Len(b) /\ Len(s.up) + j = i
              BY <2>4, <3>10, <5>1, <6>2
            <7> HIDE DEF j
            <7> QED BY <3>11, <5>1, <7>1
          <6> QED BY <3>10, <5>1, <6>1, <6>2
        <5>5. t.transport = "websocket"
          BY <2>8, <3>8 DEF SameCtl
        <5> QED BY <2>8, <4>1, <5>1, <5>2, <5>3, <5>4, <5>5 DEF Mailed, OnWire
      <4>2. CASE s.link # "up"
        BY <2>5, <3>8, <4>2 DEF Flow, Mailed, OnWire, SameCtl
      <4> QED BY <4>1, <4>2
    <3>14. \/ OnWire(t, k) = OnWire(s, k) \o s.writeBuffer /\ (Lost(s) => s.jsonp /\ Lost(t))
           \/ OnWire(t, k) = OnWire(s, k) /\ Lost(t)
      BY <3>12, <3>13 DEF b
    <3>15. t.sent = s.sent /\ t.writeBuffer = s.writeBuffer /\ t.owed = s.owed
           /\ t.jsonp = s.jsonp /\ t.prevBufferLen = Len(s.writeBuffer)
      BY <3>8 DEF SameCtl, b
    <3>16. Words(t) /\ Flow(t, r, k) /\ Written(t) = Len(s.sent)
      BY <1>1, <2>2, <2>3, <2>5, <2>6, <3>12, <3>13, <3>14, <3>15, FlowOfFlush
    <3>17. Shape(t)
      BY <1>1, <2>6, <2>8, <3>1, <3>8, <3>9 DEF Shape, SameCtl, Probing, Closed
    <3>18. Mode(t) /\ Ready(t)
      BY <2>4, <2>8, <3>1, <3>8, <3>9, <3>12 DEF Mode, Ready, Writable, SameCtl, Closed
    <3>19. Fine(t)
      BY <1>1, <2>6, <3>8 DEF Fine, SameIn, SameCtl, Closed
    <3>20. Awaits(t)
      <4>1. s.owed <= Len(s.sent) /\ t.owed = s.owed
        BY <1>1, <3>8 DEF Words
      <4> QED BY <2>8, <3>8, <3>16, <4>1 DEF Awaits, SameCtl
    <3>21. Ended(t, r, k)
      BY <3>12 DEF Ended
    <3>22. Kept(s, t)
      BY <1>1, <2>6, <3>8, KeptSame
    <3> QED BY <2>1, <2>2, <3>16, <3>17, <3>18, <3>19, <3>20, <3>21, <3>22 DEF Good, Base, t
  <2> QED BY <2>4, <2>7, <2>8
<1> QED BY <1>2, <1>3

\* sendPacket()
LEMMA SendPacketGood ==
  ASSUME NEW s, NEW r \in Seq(UpPacket), NEW p \in UpPacket, p.type \notin Control, Good(s, r)
  PROVE  Good(SendPacket(s, p), r) /\ Kept(s, SendPacket(s, p))
<1> DEFINE t == [s EXCEPT !.writeBuffer = Append(@, p), !.sent = Append(@, p)]
<1>1. /\ Safe(s) /\ Typed(s) /\ Words(s) /\ Shape(s) /\ Mode(s) /\ Fine(s) /\ Awaits(s)
      /\ Ready(s) /\ s \in Client
  BY DEF Good, Base, Safe, Basic, Typed
<1>2. CASE s.ready \in {"closing", "closed"}
  BY <1>1, <1>2, KeptItself DEF SendPacket
<1>3. CASE s.ready \notin {"closing", "closed"}
  <2>1. s.writeBuffer \in Seq(UpPacket) /\ s.sent \in Seq(UpPacket) /\ s.prevBufferLen \in Nat
    BY <1>1, FlowTypes
  <2>2. /\ Append(s.writeBuffer, p) \in Seq(UpPacket) /\ Append(s.sent, p) \in Seq(UpPacket)
        /\ s.prevBufferLen <= Len(Append(s.writeBuffer, p))
    BY <1>1, <2>1 DEF Typed
  <2>3. t \in Client
    BY <1>1, <2>2 DEF Client
  <2>4. /\ SameSafe(s, t) /\ SameNet(s, t) /\ SameCtl(s, t) /\ SameIn(s, t)
        /\ t.prevBufferLen = s.prevBufferLen /\ t.owed = s.owed
        /\ t.writeBuffer = Append(s.writeBuffer, p) /\ t.sent = Append(s.sent, p)
        /\ t.poll = s.poll /\ t.ws = s.ws
    BY <1>1 DEF Client, SameSafe, SameNet, SameCtl, SameIn
  <2> HIDE DEF t
  <2>5. Typed(t)
    BY <2>2, <2>3, <2>4 DEF Typed
  <2>6. Safe(t)
    BY <1>1, <2>4, <2>5, SameIsSafe
  <2>7. /\ Words(t) /\ Written(t) = Written(s) /\ Given(t) = Given(s)
        /\ Connection!Begins(s.sent, t.sent)
    BY <1>1, <2>4, <2>5, FlowOfAppend
  <2>8. ~ Closed(s) /\ ~ Closed(t) /\ (Lost(t) <=> Lost(s))
    BY <1>3, <2>4 DEF Closed, Lost, SameNet, SameCtl
  <2>9. ASSUME NEW k \in Nat, Flow(s, r, k)
        PROVE  Flow(t, r, k) /\ Ended(t, r, k)
    <3>1. OnWire(t, k) = OnWire(s, k) /\ Mailed(t, k) /\ t.jsonp = s.jsonp
      BY <2>4, <2>9 DEF OnWire, Mailed, SameNet, Flow
    <3> QED BY <2>7, <2>8, <2>9, <3>1 DEF Flow, Ended
  <2>10. Shape(t)
    BY <1>1, <2>4, <2>8 DEF Shape, SameNet, SameCtl, Probing
  <2>11. Mode(t) /\ Ready(t)
    BY <1>1, <2>4, <2>8 DEF Mode, Ready, Writable, SameNet
  <2>12. Fine(t) /\ Awaits(t)
    BY <1>1, <2>4, <2>7, <2>8 DEF Fine, Awaits, SameNet, SameCtl, SameIn
  <2>13. Good(t, r)
    <3>1. PICK k \in Nat : Flow(s, r, k)
      BY DEF Good, Base
    <3>2. Flow(t, r, k) /\ Ended(t, r, k)
      BY <2>9, <3>1
    <3> QED BY <2>6, <2>7, <2>10, <2>11, <2>12, <3>2 DEF Good, Base
  <2>14. Kept(s, t)
    BY <2>4, <2>7, <2>8 DEF Kept, SameCtl, SameNet
  <2>15. Good(Flush(t), r) /\ Kept(t, Flush(t)) /\ Typed(Flush(t))
    BY <2>13, FlushGood DEF Good, Base, Safe, Basic
  <2>16. Kept(s, Flush(t))
    BY <1>1, <2>5, <2>14, <2>15, KeptBoth
  <2> QED BY <1>3, <2>15, <2>16 DEF SendPacket, t
<1> QED BY <1>2, <1>3

-----------------------------------------------------------------------------
(* Closing and the upgrade.                                                *)

\* Only what the Socket is about to do changes.
Relabels(s, t) ==
  /\ SameNet(s, t) /\ SameIn(s, t) /\ t.poll = s.poll /\ t.ws = s.ws /\ t.bye = s.bye
  /\ t.sent = s.sent /\ t.writeBuffer = s.writeBuffer /\ t.prevBufferLen = s.prevBufferLen
  /\ (Closed(t) <=> Closed(s))

\* What changes only the labels of a Socket keeps what is on the wire.
LEMMA Relabelled ==
  ASSUME NEW s, NEW t, NEW r \in Seq(UpPacket), Base(s, r), Safe(t), Relabels(s, t),
         t.owed <= Len(t.sent), Closed(s) => t.owed = s.owed,
         Probing(t) => t.transport = "polling" /\ ~ Closed(t),
         t.jsonp => t.probe \notin {"pinged", "ponged"}
  PROVE  Base(t, r) /\ Written(t) = Written(s) /\ (Ready(s) => Ready(t))
<1>1. Safe(s) /\ Words(s) /\ Shape(s) /\ Mode(s) /\ Fine(s)
  BY DEF Base
<1>2. Words(t) /\ Written(t) = Written(s) /\ Given(t) = Given(s)
  BY <1>1 DEF Words, Written, Given, Relabels
<1>3. Lost(t) <=> Lost(s)
  BY DEF Lost, Relabels, SameNet
<1>4. ASSUME NEW k \in Nat, Flow(s, r, k), Ended(s, r, k)
      PROVE  Flow(t, r, k) /\ Ended(t, r, k)
  <2>1. OnWire(t, k) = OnWire(s, k) /\ Mailed(t, k)
    BY <1>4 DEF OnWire, Mailed, SameNet, Flow, Relabels
  <2>2. t.jsonp = s.jsonp /\ (Closed(t) <=> Closed(s))
    BY DEF Relabels, SameNet
  <2>3. Flow(t, r, k)
    BY <1>2, <1>3, <1>4, <2>1, <2>2 DEF Flow
  <2>4. Ended(t, r, k)
    BY <1>4, <2>1, <2>2 DEF Ended, Relabels, SameNet
  <2> QED BY <2>3, <2>4
<1>5. Shape(t)
  BY <1>1 DEF Shape, Relabels, SameNet, Probing
<1>6. Mode(t)
  BY <1>1 DEF Mode, Relabels, SameNet
<1>7. Fine(t)
  BY <1>1 DEF Fine, Relabels, SameNet, SameIn
<1>8. Base(t, r)
  <2>1. PICK k \in Nat : Flow(s, r, k) /\ Ended(s, r, k)
    BY DEF Base
  <2> QED BY <1>2, <1>4, <1>5, <1>6, <1>7, <2>1 DEF Base
<1>9. Ready(s) => Ready(t)
  BY DEF Ready, Writable, Relabels, SameNet
<1> QED BY <1>2, <1>8, <1>9

\* And it breaks none of the promises of Kept.
LEMMA KeptRelabelled ==
  ASSUME NEW s, NEW t, Typed(s), Relabels(s, t), s.opened => t.opened
  PROVE  Kept(s, t)
BY KeptMost DEF Relabels, SameNet

\* Forced close when all that is owed is with the transport, or through.
LEMMA ForcedCloseGood ==
  ASSUME NEW s, NEW r \in Seq(UpPacket), Base(s, r), ~ Closed(s), Paid(s)
  PROVE  Good(ForcedClose(s), r) /\ Kept(s, ForcedClose(s)) /\ Closed(ForcedClose(s))
<1> DEFINE u == [s EXCEPT !.closing = "nothing"]
           t == ForcedClose(s)
<1>1. Safe(s) /\ Typed(s) /\ s \in Client /\ Words(s) /\ Shape(s) /\ Mode(s)
  BY DEF Base, Safe, Basic, Typed
<1>2. Safe(u)
  BY <1>1, ClosingSafe
<1>3. Relabels(s, u) /\ u.owed = s.owed /\ u.probe = s.probe /\ u.opened = s.opened
      /\ u.ready = s.ready
  BY <1>1 DEF Client, Relabels, SameNet, SameIn, Closed
<1>4. Ceases(u, t)
  BY <1>2, <1>3, ForcedCloseCeases DEF Relabels
<1> HIDE DEF u, t
<1>5. ~ Closed(u) /\ u.sent = s.sent /\ u.transport = s.transport /\ u.jsonp = s.jsonp
      /\ u.failed = s.failed /\ u.posted = s.posted
  BY <1>3 DEF Relabels, SameNet
<1>6. /\ u.owed <= Len(u.sent)
      /\ Probing(u) => u.transport = "polling" /\ ~ Closed(u)
      /\ u.jsonp => u.probe \notin {"pinged", "ponged"}
  BY <1>1, <1>3, <1>5 DEF Words, Shape, Probing
<1>7. Base(u, r) /\ Written(u) = Written(s)
  BY <1>2, <1>3, <1>6, Relabelled
<1>8. Paid(u)
  BY <1>3, <1>5, <1>7 DEF Paid
<1>9. Good(t, r) /\ Kept(u, t) /\ Typed(u) /\ Typed(t) /\ Closed(t)
  BY <1>2, <1>4, <1>5, <1>7, <1>8, Ceased DEF Good, Base, Safe, Basic, Ceases
<1>10. Kept(s, u)
  BY <1>1, <1>3, KeptRelabelled
<1> QED BY <1>1, <1>9, <1>10, KeptBoth DEF t

\* What is on its way stays so when only the rest of the Socket changes.
LEMMA FlowCarried ==
  ASSUME NEW s, NEW t, NEW r, NEW k, Flow(s, r, k), Ended(s, r, k), Given(t) = Given(s),
         t.jsonp = s.jsonp, t.transport = s.transport, t.posted = s.posted,
         t.up = s.up \/ s.transport = "polling", Closed(t) <=> Closed(s),
         Closed(s) => t.owed = s.owed, s.failed => t.failed,
         ~ Closed(s) /\ Lost(s) => Lost(t)
  PROVE  Flow(t, r, k) /\ Ended(t, r, k)
<1>1. OnWire(t, k) = OnWire(s, k) /\ Mailed(t, k)
  BY DEF OnWire, Mailed, Flow
<1>2. Flow(t, r, k)
  BY <1>1 DEF Flow
<1>3. Ended(t, r, k)
  BY <1>1 DEF Ended
<1> QED BY <1>2, <1>3

\* With an empty buffer, everything that is owed is with the transport.
LEMMA AllWritten ==
  ASSUME NEW s, Safe(s), Words(s), s.writeBuffer = <<>>
  PROVE  s.prevBufferLen = 0 /\ Written(s) = Len(s.sent) /\ s.owed <= Written(s)
<1>1. /\ Len(s.writeBuffer) = 0 /\ s.prevBufferLen \in Nat
      /\ s.prevBufferLen <= Len(s.writeBuffer) /\ Len(s.sent) \in Nat
  BY FlowTypes DEF Safe, Basic
<1> QED BY <1>1 DEF Written, Words

\* close(): at once, after the drain, or after the upgrade.
LEMMA CloseGood ==
  ASSUME NEW s, NEW r \in Seq(UpPacket), Good(s, r)
  PROVE  Good(Close(s), r) /\ Kept(s, Close(s))
<1>1. /\ Safe(s) /\ Typed(s) /\ Words(s) /\ Shape(s) /\ Mode(s) /\ Fine(s) /\ Awaits(s)
      /\ Ready(s) /\ s \in Client /\ Base(s, r)
  BY DEF Good, Base, Safe, Basic, Typed
<1>2. CASE s.ready \notin {"opening", "open"}
  BY <1>1, <1>2, KeptItself DEF Close
<1>3. CASE s.ready \in {"opening", "open"}
  <2> DEFINE t == [s EXCEPT !.ready = "closing", !.owed = Owed(s)]
  <2>1. s.sent \in Seq(UpPacket) /\ s.owed \in Nat /\ Len(s.sent) \in Nat /\ s.owed <= Len(s.sent)
    BY <1>1, FlowTypes DEF Words
  <2>2. Owed(s) \in Nat /\ Owed(s) <= Len(s.sent)
    BY <2>1 DEF Owed
  <2>3. t \in Client
    BY <1>1, <2>2 DEF Client
  <2>4. /\ t.threw = s.threw /\ t.ready = "closing" /\ t.owed = Owed(s) /\ t.probe = s.probe
        /\ t.upgrading = s.upgrading /\ t.opened = s.opened /\ t.poll = s.poll
        /\ Relabels([s EXCEPT !.ready = "closing"], t)
    BY <1>1 DEF Client, Relabels, SameNet, SameIn, Closed
  <2>5. /\ SameNet(s, t) /\ SameIn(s, t) /\ t.ws = s.ws /\ t.bye = s.bye
        /\ t.sent = s.sent /\ t.writeBuffer = s.writeBuffer
        /\ t.prevBufferLen = s.prevBufferLen
    BY <1>1 DEF Client, SameNet, SameIn
  <2> HIDE DEF t
  <2>6. ~ Closed(s) /\ ~ Closed(t)
    BY <1>3, <2>4 DEF Closed
  <2>7. Relabels(s, t)
    BY <2>4, <2>5, <2>6 DEF Relabels
  <2>8. Safe(t)
    BY <1>1, <2>3, <2>4, <2>5, <2>6
       DEF Safe, Basic, Typed, SameNet, Coherent, PollOpen, WsOpened, Closed
  <2>9. /\ t.owed <= Len(t.sent)
        /\ Probing(t) => t.transport = "polling" /\ ~ Closed(t)
        /\ t.jsonp => t.probe \notin {"pinged", "ponged"}
    BY <1>1, <2>2, <2>4, <2>5, <2>6 DEF Shape, Probing, SameNet
  <2>10. Base(t, r) /\ (Ready(s) => Ready(t))
    BY <1>1, <2>6, <2>7, <2>8, <2>9, Relabelled
  <2>11. Kept(s, t) /\ Typed(t)
    BY <1>1, <2>4, <2>7, <2>8, KeptRelabelled DEF Safe, Basic
  <2>12. ASSUME NEW what \in {"drain", "upgrade"},
                what = "upgrade" => t.writeBuffer = <<>> /\ t.upgrading
         PROVE  Good([t EXCEPT !.closing = what], r) /\ Kept(s, [t EXCEPT !.closing = what])
    <3> DEFINE u == [t EXCEPT !.closing = what]
    <3>1. Safe(u)
      BY <2>8, ClosingSafe
    <3>2. /\ Relabels(t, u) /\ u.owed = t.owed /\ u.probe = t.probe /\ u.closing = what
          /\ u.opened = t.opened /\ u.upgrading = t.upgrading
      BY <2>3 DEF Client, Relabels, SameNet, SameIn, Closed
    <3> HIDE DEF u
    <3>3. /\ u.owed <= Len(u.sent) /\ ~ Closed(u)
          /\ Probing(u) => u.transport = "polling" /\ ~ Closed(u)
          /\ u.jsonp => u.probe \notin {"pinged", "ponged"}
      BY <2>6, <2>9, <3>2 DEF Relabels, SameNet, Probing
    <3>4. Base(u, r) /\ Ready(u) /\ Words(u)
      BY <1>1, <2>6, <2>10, <3>1, <3>2, <3>3, Relabelled DEF Base
    <3>5. Awaits(u)
      <4> SUFFICES ASSUME what = "upgrade"
                   PROVE  Awaits(u)
        BY <3>2 DEF Awaits
      <4>1. u.writeBuffer = <<>> /\ u.upgrading
        BY <2>12, <3>2 DEF Relabels
      <4>2. u.prevBufferLen = 0 /\ u.owed <= Written(u)
        BY <3>1, <3>4, <4>1, AllWritten
      <4>3. u.transport = "polling" => u.posted = <<>>
        BY <3>3, <3>4, <4>2 DEF Base, Mode
      <4> QED BY <4>1, <4>2, <4>3 DEF Awaits
    <3>6. Kept(t, u) /\ Typed(u)
      BY <2>11, <3>1, <3>2, KeptRelabelled DEF Safe, Basic
    <3> QED BY <1>1, <2>11, <3>4, <3>5, <3>6, KeptBoth DEF Good, u
  <2>13. CASE t.writeBuffer # <<>>
    <3>1. Close(s) = [t EXCEPT !.closing = "drain"]
      BY <1>3, <2>13 DEF Close, t
    <3> QED BY <2>12, <3>1
  <2>14. CASE t.writeBuffer = <<>> /\ t.upgrading
    <3>1. Close(s) = [t EXCEPT !.closing = "upgrade"]
      BY <1>3, <2>14 DEF Close, t
    <3> QED BY <2>12, <2>14, <3>1
  <2>15. CASE t.writeBuffer = <<>> /\ ~ t.upgrading
    <3>1. Close(s) = ForcedClose(t)
      BY <1>3, <2>15 DEF Close, t
    <3>2. Paid(t)
      <4>1. t.prevBufferLen = 0 /\ t.owed <= Written(t)
        BY <2>8, <2>10, <2>15, AllWritten DEF Base
      <4>2. t.transport \in {"polling", "websocket"}
        BY <2>3 DEF Client
      <4>3. Mode(t) /\ Shape(t)
        BY <2>10 DEF Base
      <4>4. t.transport = "polling" => t.posted = <<>>
        BY <2>6, <4>1, <4>3 DEF Mode
      <4>5. t.transport = "websocket" => t.posted = <<>>
        BY <4>3 DEF Shape
      <4> QED BY <4>1, <4>2, <4>4, <4>5 DEF Paid
    <3>3. Good(ForcedClose(t), r) /\ Kept(t, ForcedClose(t))
      BY <2>6, <2>10, <3>2, ForcedCloseGood
    <3> QED BY <1>1, <2>11, <3>1, <3>3, KeptBoth DEF Good, Base, Safe, Basic
  <2> QED BY <2>13, <2>14, <2>15
<1> QED BY <1>2, <1>3

\* onDrain(): the packets of the last flush leave the buffer, and the next are flushed.
LEMMA OnDrainGood ==
  ASSUME NEW s, NEW r \in Seq(UpPacket), Base(s, r), Awaits(s), ~ Closed(s), s.posted = <<>>
  PROVE  /\ Good(OnDrain(s), r) /\ Kept(s, OnDrain(s))
         /\ ~ Closed(OnDrain(s)) /\ OnDrain(s).poll.waits # {} => OnDrain(s).poll = s.poll
<1> DEFINE t == [s EXCEPT !.writeBuffer = SubSeq(@, s.prevBufferLen + 1, Len(@)),
                          !.prevBufferLen = 0]
           rest == SubSeq(s.writeBuffer, s.prevBufferLen + 1, Len(s.writeBuffer))
<1>1. /\ Safe(s) /\ Typed(s) /\ Words(s) /\ Shape(s) /\ Mode(s) /\ Fine(s) /\ s \in Client
  BY DEF Base, Safe, Basic, Typed
<1>2. s.writeBuffer \in Seq(UpPacket) /\ s.prevBufferLen \in Nat
  BY <1>1, FlowTypes
<1>3. rest \in Seq(UpPacket) /\ 0 <= Len(rest)
  BY <1>2
<1>4. t \in Client
  BY <1>1, <1>3 DEF Client
<1>5. /\ SameSafe(s, t) /\ SameNet(s, t) /\ SameCtl(s, t) /\ SameIn(s, t)
      /\ t.writeBuffer = rest /\ t.prevBufferLen = 0 /\ t.sent = s.sent /\ t.owed = s.owed
  BY <1>1 DEF Client, SameSafe, SameNet, SameCtl, SameIn
<1>6. /\ t.writeBuffer # <<>> => OnDrain(s) = Flush(t)
      /\ t.writeBuffer = <<>> /\ t.closing = "drain" /\ t.upgrading =>
           OnDrain(s) = [t EXCEPT !.closing = "upgrade"]
      /\ t.writeBuffer = <<>> /\ t.closing = "drain" /\ ~ t.upgrading =>
           OnDrain(s) = ForcedClose(t)
      /\ t.writeBuffer = <<>> /\ t.closing # "drain" => OnDrain(s) = t
  <2>1. CASE t.writeBuffer # <<>>
    BY <2>1 DEF OnDrain
  <2>2. CASE t.writeBuffer = <<>> /\ t.closing = "drain" /\ t.upgrading
    BY <2>2 DEF OnDrain
  <2>3. CASE t.writeBuffer = <<>> /\ t.closing = "drain" /\ ~ t.upgrading
    BY <2>3 DEF OnDrain
  <2>4. CASE t.writeBuffer = <<>> /\ t.closing # "drain"
    BY <2>4 DEF OnDrain
  <2> QED BY <2>1, <2>2, <2>3, <2>4
<1>7. Words(t) /\ Written(t) = Written(s) /\ Given(t) = Given(s)
  BY <1>1, <1>5, FlowOfDrain DEF rest
<1> HIDE DEF t, rest
<1>8. Safe(t) /\ Typed(t)
  BY <1>1, <1>3, <1>4, <1>5, SameIsSafe DEF Typed
<1>9. /\ ~ Closed(t) /\ (Lost(t) <=> Lost(s)) /\ t.poll = s.poll /\ t.ws = s.ws
      /\ t.posted = <<>>
  BY <1>5 DEF Closed, Lost, SameNet, SameCtl, SameSafe
<1>10. ASSUME NEW k \in Nat, Flow(s, r, k), Ended(s, r, k)
       PROVE  Flow(t, r, k) /\ Ended(t, r, k)
  BY <1>5, <1>7, <1>9, <1>10, FlowCarried DEF SameNet
<1>11. Shape(t)
  BY <1>1, <1>5, <1>9 DEF Shape, SameNet, SameCtl, Probing
<1>12. Mode(t) /\ Ready(t)
  BY <1>1, <1>5, <1>9 DEF Mode, Ready, SameNet
<1>13. Fine(t) /\ Awaits(t)
  BY <1>1, <1>5, <1>7, <1>9 DEF Fine, Awaits, SameNet, SameCtl, SameIn
<1>14. Good(t, r) /\ Base(t, r)
  <2>1. PICK k \in Nat : Flow(s, r, k) /\ Ended(s, r, k)
    BY DEF Base
  <2> QED BY <1>7, <1>8, <1>10, <1>11, <1>12, <1>13, <2>1 DEF Good, Base
<1>15. Kept(s, t)
  BY <1>1, <1>5, <1>9, KeptSame DEF SameNet
<1>16. ASSUME NEW d, OnDrain(s) = d, Good(d, r), Kept(t, d),
              ~ Closed(d) /\ d.poll.waits # {} => d.poll = s.poll
       PROVE  /\ Good(OnDrain(s), r) /\ Kept(s, OnDrain(s))
              /\ ~ Closed(OnDrain(s)) /\ OnDrain(s).poll.waits # {} => OnDrain(s).poll = s.poll
  BY <1>1, <1>8, <1>15, <1>16, KeptBoth DEF Good, Base, Safe, Basic
<1>17. CASE t.writeBuffer # <<>>
  <2> DEFINE d == Flush(t)
  <2>1. Good(d, r) /\ Kept(t, d)
    BY <1>14, FlushGood
  <2>2. SameRest(t, d)
    BY <1>8, FlushSafe
  <2>3. t.upgrading => d = t
    BY DEF Flush
  <2>4. OnDrain(s) = d
    BY <1>6, <1>17
  <2> HIDE DEF d
  <2>5. d.poll.waits # {} => d.poll = s.poll
    <3>1. t.poll.waits # {} => t.upgrading
      BY <1>8, <1>9 DEF Safe, PollOpen, Closed
    <3> QED BY <1>9, <2>2, <2>3, <3>1 DEF SameRest
  <2> QED BY <1>16, <2>1, <2>4, <2>5
<1>18. CASE t.writeBuffer = <<>> /\ t.closing = "drain" /\ t.upgrading
  <2> DEFINE d == [t EXCEPT !.closing = "upgrade"]
  <2>1. Safe(d)
    BY <1>8, ClosingSafe
  <2>2. /\ Relabels(t, d) /\ d.owed = t.owed /\ d.probe = t.probe
        /\ d.opened = t.opened /\ d.upgrading = t.upgrading /\ d.poll = t.poll
    BY <1>4 DEF Client, Relabels, SameNet, SameIn, Closed
  <2>3. OnDrain(s) = d
    BY <1>6, <1>18
  <2> HIDE DEF d
  <2>4. /\ d.owed <= Len(d.sent) /\ ~ Closed(d) /\ d.posted = <<>>
        /\ Probing(d) => d.transport = "polling" /\ ~ Closed(d)
        /\ d.jsonp => d.probe \notin {"pinged", "ponged"}
        /\ d.writeBuffer = <<>> /\ d.upgrading
    BY <1>7, <1>9, <1>11, <1>18, <2>2 DEF Relabels, SameNet, Probing, Words, Shape
  <2>5. Base(d, r) /\ Ready(d)
    BY <1>9, <1>12, <1>14, <2>1, <2>2, <2>4, Relabelled
  <2>6. d.owed <= Written(d)
    BY <2>1, <2>4, <2>5, AllWritten DEF Base
  <2>7. Awaits(d)
    BY <2>4, <2>6 DEF Awaits
  <2>8. Kept(t, d)
    BY <1>8, <2>2, KeptRelabelled
  <2> QED BY <1>9, <1>16, <2>2, <2>3, <2>5, <2>7, <2>8 DEF Good
<1>19. CASE t.writeBuffer = <<>> /\ t.closing = "drain" /\ ~ t.upgrading
  <2>1. OnDrain(s) = ForcedClose(t)
    BY <1>6, <1>19
  <2>2. Paid(t)
    BY <1>7, <1>8, <1>9, <1>19, AllWritten DEF Paid
  <2>3. Good(ForcedClose(t), r) /\ Kept(t, ForcedClose(t)) /\ Closed(ForcedClose(t))
    BY <1>9, <1>14, <2>2, ForcedCloseGood
  <2> QED BY <1>16, <2>1, <2>3
<1>20. CASE t.writeBuffer = <<>> /\ t.closing # "drain"
  <2>1. OnDrain(s) = t
    BY <1>6, <1>20
  <2> QED BY <1>8, <1>9, <1>14, <1>16, <2>1, KeptItself
<1> QED BY <1>17, <1>18, <1>19, <1>20

\* A polling Socket whose WebSocket, which it does not use yet, changes.
SideOnly(s, t) ==
  /\ SameBuf(s, t) /\ SameIn(s, t) /\ t.poll = s.poll
  /\ t.jsonp = s.jsonp /\ t.transport = s.transport /\ t.post = s.post /\ t.posted = s.posted
  /\ t.ready = s.ready /\ t.closing = s.closing /\ t.upgrading = s.upgrading
  /\ t.bye = s.bye /\ t.opened = s.opened /\ (s.failed => t.failed)

\* What happens to a WebSocket that is still being probed is no matter of the flow.
LEMMA SideGood ==
  ASSUME NEW s, NEW t, NEW r \in Seq(UpPacket), Good(s, r), Safe(t), ~ Closed(s),
         s.transport = "polling", SideOnly(s, t),
         \A i \in 1 .. Len(t.up) : t.up[i].type = "probe",
         t.jsonp => t.probe \notin {"pinged", "ponged"},
         t.ws.state = "open" => t.link \in {"up", "down", "closed"},
         ~ t.failed => t.link \notin {"down", "closed"}
  PROVE  Good(t, r)
<1>1. Safe(s) /\ Words(s) /\ Shape(s) /\ Mode(s) /\ Fine(s) /\ Awaits(s) /\ Ready(s)
  BY DEF Good, Base
<1>2. /\ ~ Closed(t) /\ t.transport = "polling" /\ Words(t) /\ Written(t) = Written(s)
      /\ Given(t) = Given(s) /\ (Lost(s) => Lost(t))
  BY <1>1 DEF Closed, Words, Written, Given, Lost, SideOnly, SameBuf
<1>3. ASSUME NEW k \in Nat, Flow(s, r, k), Ended(s, r, k)
      PROVE  Flow(t, r, k) /\ Ended(t, r, k)
  BY <1>2, <1>3, FlowCarried DEF SideOnly
<1>4. Shape(t)
  BY <1>1, <1>2 DEF Shape, SideOnly
<1>5. Mode(t) /\ Ready(t)
  BY <1>1, <1>2 DEF Mode, Ready, Writable, SideOnly, SameBuf, SameIn
<1>6. Fine(t)
  BY <1>1, <1>2 DEF Fine, SideOnly, SameIn
<1>7. Awaits(t)
  BY <1>1, <1>2 DEF Awaits, SideOnly, SameBuf
<1>8. PICK k \in Nat : Flow(s, r, k) /\ Ended(s, r, k)
  BY DEF Good, Base
<1> QED BY <1>2, <1>3, <1>4, <1>5, <1>6, <1>7, <1>8 DEF Good, Base

\* probe()
LEMMA ProbeGood ==
  ASSUME NEW s, NEW r \in Seq(UpPacket), Good(s, r), ~ Closed(s), s.transport = "polling"
  PROVE  Good(Probe(s), r) /\ Kept(s, Probe(s))
<1> DEFINE w == WsOpen(s)
           t == Probe(s)
<1>1. Safe(s) /\ s \in Client /\ Shape(s) /\ Fine(s) /\ Typed(s)
  BY DEF Good, Base, Safe, Basic, Typed
<1>2. w \in Client
  BY <1>1 DEF WsOpen, Client, WS
<1>3. /\ SideOnly(s, w) /\ w.up = s.up /\ w.failed = s.failed /\ w.ws.state = "opening"
      /\ w.link = (IF s.jsonp THEN s.link ELSE "connecting")
  BY <1>1 DEF WsOpen, Client, WS, SideOnly, SameBuf, SameIn
<1>4. t = [w EXCEPT !.probe = "opening"]
  BY DEF Probe
<1> HIDE DEF w
<1>5. /\ SideOnly(w, t) /\ t.up = w.up /\ t.failed = w.failed /\ t.ws = w.ws
      /\ t.link = w.link /\ t.probe = "opening"
  BY <1>2, <1>4 DEF Client, SideOnly, SameBuf, SameIn
<1>6. Safe(t)
  BY <1>1, ProbeSafe
<1> HIDE DEF t
<1>7. SideOnly(s, t) /\ t.up = s.up /\ t.failed = s.failed
  BY <1>3, <1>5 DEF SideOnly, SameBuf, SameIn
<1>8. /\ \A i \in 1 .. Len(t.up) : t.up[i].type = "probe"
      /\ t.jsonp => t.probe \notin {"pinged", "ponged"}
      /\ t.ws.state = "open" => t.link \in {"up", "down", "closed"}
      /\ ~ t.failed => t.link \notin {"down", "closed"}
  BY <1>1, <1>3, <1>5, <1>7 DEF Shape, Fine
<1>9. Good(t, r)
  BY <1>6, <1>7, <1>8, SideGood
<1>10. Kept(s, t)
  BY <1>1, <1>7, KeptMost DEF SideOnly, SameBuf, Closed
<1> QED BY <1>9, <1>10 DEF t

\* A probe that fails: something has failed, so nothing is owed.
LEMMA ProbeErrorGood ==
  ASSUME NEW s, NEW t, NEW r \in Seq(UpPacket), Good(s, r), ~ Closed(s),
         s.transport = "polling", s.failed,
         Basic(t), SideOnly(s, t), t.up = s.up, t.failed = s.failed, t.probe = s.probe,
         t.ws.state = "open" => t.link \in {"up", "down", "closed"}
  PROVE  Good(ProbeError(t), r) /\ Kept(s, ProbeError(t))
<1> DEFINE u == Freeze(t)
<1>1. Safe(s) /\ Shape(s) /\ Typed(s) /\ t \in Client
  BY DEF Good, Base, Safe, Basic, Typed
<1>2. /\ Basic(u) /\ u.probe = "over" /\ u.poll = t.poll /\ Shuts(t, u)
  BY FreezeSure, TransportShuts
<1>3. ProbeError(t) = IF u.closing = "upgrade" THEN ForcedClose(u) ELSE u
  BY DEF ProbeError
<1>4. u.bye = t.bye
  <2> DEFINE w == WsClose(t)
  <2>1. w \in Client
    BY CloseTransportSure DEF Basic, Typed
  <2>2. w.bye = t.bye
    BY <1>1 DEF WsClose, Client
  <2>3. u = [w EXCEPT !.probe = "over"]
    BY DEF Freeze
  <2> HIDE DEF w, u
  <2> QED BY <2>1, <2>2, <2>3 DEF Client
<1> HIDE DEF u
<1>5. ~ Closed(u) /\ SideOnly(s, u) /\ u.up = s.up /\ u.failed = s.failed
  BY <1>2, <1>4 DEF Shuts, SideOnly, SameBuf, SameIn, Closed
<1>6. Safe(u)
  BY <1>1, <1>2, <1>5 DEF Safe, PollOpen, WsOpened, SideOnly, Closed
<1>7. /\ \A i \in 1 .. Len(u.up) : u.up[i].type = "probe"
      /\ u.jsonp => u.probe \notin {"pinged", "ponged"}
      /\ u.ws.state = "open" => u.link \in {"up", "down", "closed"}
      /\ ~ u.failed => u.link \notin {"down", "closed"}
  BY <1>1, <1>2, <1>5 DEF Shape, Shuts
<1>8. Good(u, r)
  BY <1>5, <1>6, <1>7, SideGood
<1>9. Kept(s, u) /\ Typed(u)
  BY <1>1, <1>5, <1>6, KeptMost DEF SideOnly, SameBuf, Closed, Safe, Basic
<1>10. Good(ForcedClose(u), r) /\ Kept(u, ForcedClose(u))
  BY <1>5, <1>8, ForcedCloseGood DEF Good, Paid
<1> QED BY <1>1, <1>3, <1>8, <1>9, <1>10, KeptBoth DEF Good, Base, Safe, Basic

\* The two steps of the upgrade: the transport is set, and the upgrade packet sent.
LEMMA MovedSafe ==
  ASSUME NEW s, Safe(s), s.probe = "ponged", ~ Closed(s)
  PROVE  LET moved == SetTransport([s EXCEPT !.probe = "over"])
             over == Send(moved, <<Packet("upgrade")>>)
         IN /\ over = WsWrite(moved, <<Packet("upgrade")>>)
            /\ Safe(moved) /\ Safe(over)
            /\ SameBuf(s, over) /\ SameIn(s, over)
            /\ over.ready = s.ready /\ over.closing = s.closing
            /\ over.upgrading = s.upgrading /\ over.probe = "over" /\ over.bye = s.bye
            /\ over.opened = s.opened /\ over.failed = s.failed /\ over.jsonp = s.jsonp
            /\ over.transport = "websocket" /\ over.poll.waits = {}
            /\ over.poll.state = s.poll.state
            /\ over.post = s.post /\ over.posted = s.posted /\ over.link = s.link
            /\ over.up = (IF s.link = "up" THEN s.up \o <<Packet("upgrade")>> ELSE s.up)
            /\ over.ws.state = "open" /\ over.ws.writable = FALSE
<1> DEFINE before == [s EXCEPT !.probe = "over"]
           moved == SetTransport(before)
           ps == <<Packet("upgrade")>>
           over == Send(moved, ps)
<1>1. s \in Client /\ s.ws.state = "open"
  BY DEF Safe, Basic, Typed, WsOpened, Closed
<1>2. before \in Client
  BY <1>1 DEF Client
<1>3. /\ SameBuf(s, before) /\ SameIn(s, before) /\ before.ready = s.ready
      /\ before.closing = s.closing /\ before.upgrading = s.upgrading
      /\ before.probe = "over" /\ before.bye = s.bye /\ before.opened = s.opened
      /\ before.failed = s.failed /\ before.jsonp = s.jsonp /\ before.post = s.post
      /\ before.posted = s.posted /\ before.link = s.link /\ before.up = s.up
      /\ before.poll = s.poll /\ before.ws = s.ws /\ before.threw = s.threw
  BY <1>1 DEF Client, SameBuf, SameIn
<1> HIDE DEF before
<1>4. moved \in Client
  BY <1>2 DEF SetTransport, Client, Polling
<1>5. /\ SameBuf(before, moved) /\ SameIn(before, moved) /\ moved.ready = before.ready
      /\ moved.closing = before.closing /\ moved.upgrading = before.upgrading
      /\ moved.probe = before.probe /\ moved.bye = before.bye
      /\ moved.opened = before.opened /\ moved.failed = before.failed
      /\ moved.jsonp = before.jsonp /\ moved.post = before.post
      /\ moved.posted = before.posted /\ moved.link = before.link /\ moved.up = before.up
      /\ moved.ws = before.ws /\ moved.threw = before.threw
      /\ moved.transport = "websocket"
  BY <1>2 DEF SetTransport, Client, Polling, SameBuf, SameIn
<1>6. moved.poll.waits = {} /\ moved.poll.state = before.poll.state
      /\ moved.poll.writable = before.poll.writable
  BY <1>2 DEF SetTransport, Client, Polling
<1> HIDE DEF moved
<1>7. /\ SameBuf(s, moved) /\ SameIn(s, moved) /\ moved.ready = s.ready
      /\ moved.closing = s.closing /\ moved.upgrading = s.upgrading
      /\ moved.probe = "over" /\ moved.bye = s.bye
      /\ moved.opened = s.opened /\ moved.failed = s.failed /\ moved.jsonp = s.jsonp
      /\ moved.transport = "websocket" /\ moved.poll.waits = {}
      /\ moved.poll.state = s.poll.state /\ moved.poll.writable = s.poll.writable
      /\ moved.post = s.post
      /\ moved.posted = s.posted /\ moved.link = s.link /\ moved.up = s.up
      /\ moved.ws = s.ws /\ moved.threw = s.threw
  BY <1>3, <1>5, <1>6 DEF SameBuf, SameIn
<1>8. Safe(moved)
  <2>1. Typed(moved) /\ Coherent(moved)
    BY <1>4, <1>7 DEF Safe, Basic, Typed, Coherent, SameBuf
  <2>2. PollOpen(moved) /\ WsOpened(moved)
    BY <1>1, <1>7 DEF PollOpen, WsOpened
  <2> QED BY <2>1, <2>2 DEF Safe, Basic
<1>9. ps \in Seq(UpPacket)
  BY UpPackets
<1>10. over = WsWrite(moved, ps)
  BY <1>1, <1>7 DEF Send
<1>11. Safe(over)
  BY <1>1, <1>7, <1>8, <1>9, <1>10, WsWriteSafe
<1> HIDE DEF ps, over
<1>12. /\ SameBuf(moved, over) /\ SameIn(moved, over) /\ SameCtl(moved, over)
       /\ over.post = moved.post /\ over.posted = moved.posted /\ over.link = moved.link
       /\ over.poll = moved.poll
  BY <1>4, <1>10 DEF WsWrite, Client, SameBuf, SameIn, SameCtl
<1>13. /\ over.ws.state = moved.ws.state /\ over.ws.writable = FALSE
       /\ over.up = (IF moved.link = "up" THEN moved.up \o ps ELSE moved.up)
  BY <1>4, <1>10 DEF WsWrite, Client, WS
<1>14. SameBuf(s, over) /\ SameIn(s, over)
  BY <1>7, <1>12 DEF SameBuf, SameIn
<1>15. /\ over.ready = s.ready /\ over.closing = s.closing
       /\ over.upgrading = s.upgrading /\ over.probe = "over" /\ over.bye = s.bye
       /\ over.opened = s.opened /\ over.failed = s.failed /\ over.jsonp = s.jsonp
       /\ over.transport = "websocket" /\ over.poll.waits = {}
       /\ over.poll.state = s.poll.state
       /\ over.post = s.post /\ over.posted = s.posted /\ over.link = s.link
       /\ over.ws.state = "open" /\ over.ws.writable = FALSE
       /\ over.up = (IF s.link = "up" THEN s.up \o ps ELSE s.up)
  BY <1>1, <1>7, <1>12, <1>13 DEF SameCtl
<1> QED BY <1>8, <1>10, <1>11, <1>14, <1>15 DEF before, moved, ps, over

\* A sequence of packets that are all before the k-th.
LEMMA NothingBehind ==
  ASSUME NEW v \in Seq(UpPacket)
  PROVE  Len(v) \in Nat /\ SubSeq(v, Len(v) + 1, Len(v)) = <<>>
OBVIOUS

\* upgrade(): all that was written has been posted, and the server has it.
LEMMA UpgradeGood ==
  ASSUME NEW s, NEW r \in Seq(UpPacket), NEW k0 \in Nat,
         Safe(s), Words(s), Shape(s), Fine(s), Awaits(s), Flow(s, r, k0),
         s.probe = "ponged", ~ Closed(s), s.post = "idle", ~ s.poll.polling,
         s.poll.state = "paused"
  PROVE  Good(Upgrade(s), r) /\ Kept(s, Upgrade(s))
<1> DEFINE moved == SetTransport([s EXCEPT !.probe = "over"])
           over == Send(moved, <<Packet("upgrade")>>)
           told == IF over.closing = "upgrade" THEN ForcedClose(over) ELSE over
           done == [told EXCEPT !.upgrading = FALSE]
<1>1. Upgrade(s) = Flush(done)
  BY DEF Upgrade, Closed
<1>2. /\ Safe(over) /\ SameBuf(s, over) /\ SameIn(s, over)
      /\ over.ready = s.ready /\ over.closing = s.closing
      /\ over.upgrading = s.upgrading /\ over.probe = "over" /\ over.bye = s.bye
      /\ over.opened = s.opened /\ over.failed = s.failed /\ over.jsonp = s.jsonp
      /\ over.transport = "websocket" /\ over.poll.waits = {}
      /\ over.poll.state = s.poll.state
      /\ over.post = s.post /\ over.posted = s.posted /\ over.link = s.link
      /\ over.up = (IF s.link = "up" THEN s.up \o <<Packet("upgrade")>> ELSE s.up)
      /\ over.ws.state = "open" /\ over.ws.writable = FALSE
  BY MovedSafe
<1> HIDE DEF over
<1>3. /\ Typed(s) /\ s.transport = "polling" /\ ~ s.jsonp /\ s.posted = <<>> /\ ~ Closed(over)
      /\ ~ over.bye /\ s.ws.state = "open" /\ over.link \in {"up", "down", "closed"}
  BY <1>2 DEF Safe, Basic, Shape, Probing, Closed, WsOpened
<1>4. Words(over) /\ Given(over) = Given(s) /\ Written(over) = Written(s)
  BY <1>2 DEF Words, Given, Written, SameBuf
<1>5. \A i \in 1 .. Len(over.up) : over.up[i].type \in Control
  <2>1. \A i \in 1 .. Len(s.up) : s.up[i].type \in Control
    BY <1>3 DEF Shape, Control
  <2>2. CASE s.link = "up"
    <3> DEFINE p == Packet("upgrade")
               v == s.up
               v2 == Append(v, p)
    <3>1. v \in Seq(UpPacket) /\ p \in UpPacket
      BY <1>3, FlowTypes, UpPackets
    <3>2. /\ Len(v2) = Len(v) + 1 /\ \A i \in 1 .. Len(v) : v2[i] = v[i]
          /\ v2[Len(v) + 1] = p /\ Len(v) \in Nat /\ v2 = v \o <<p>>
      BY <3>1, AppendProperty
    <3>3. over.up = v2
      BY <1>2, <2>2, <3>2
    <3>4. p.type \in Control
      BY DEF Packet, Control
    <3> HIDE DEF p, v, v2
    <3>5. \A i \in 1 .. Len(v) : v[i].type \in Control
      BY <2>1 DEF v
    <3>6. \A i \in 1 .. Len(v2) : v2[i].type \in Control
      <4> TAKE i \in 1 .. Len(v2)
      <4>1. i \in 1 .. Len(v) \/ i = Len(v) + 1
        BY <3>2
      <4> QED BY <3>2, <3>4, <3>5, <4>1
    <3> QED BY <3>3, <3>6
  <2>3. CASE s.link # "up"
    BY <1>2, <2>1, <2>3
  <2> QED BY <2>2, <2>3
<1> DEFINE k == Len(over.up)
<1>6. /\ k \in Nat /\ Mailed(over, k) /\ OnWire(over, k) = <<>> /\ OnWire(s, k0) = <<>>
      /\ Flow(over, r, k) /\ Ended(over, r, k)
  <2>1. over.up \in Seq(UpPacket)
    BY <1>2, <1>4, FlowTypes DEF Safe, Basic
  <2>2. k \in Nat /\ SubSeq(over.up, k + 1, k) = <<>>
    BY <2>1, NothingBehind
  <2>3. OnWire(over, k) = <<>> /\ OnWire(s, k0) = <<>>
    BY <1>2, <1>3, <2>2 DEF OnWire
  <2>4. Mailed(over, k)
    <3>1. k \in 0 .. k /\ \A i \in k + 1 .. k : FALSE
      BY <2>2
    <3> QED BY <1>5, <3>1 DEF Mailed
  <2>5. ~ Lost(s)
    BY <1>3 DEF Lost
  <2> HIDE DEF k
  <2>6. Arrives(~ over.jsonp, r \o OnWire(over, k), Given(over))
        /\ r \o OnWire(over, k) = Given(over)
    BY <1>2, <1>3, <1>4, <2>3, <2>5 DEF Flow
  <2>7. Flow(over, r, k) /\ Ended(over, r, k)
    BY <1>3, <2>4, <2>6 DEF Flow, Ended
  <2> QED BY <2>2, <2>3, <2>4, <2>7
<1> HIDE DEF k
<1>7. Shape(over)
  BY <1>2, <1>3 DEF Shape, Probing
<1>8. Mode(over) /\ Ready(over)
  BY <1>2, <1>3 DEF Mode, Ready, Writable
<1>9. Fine(over)
  BY <1>2 DEF Fine, SameIn, Closed
<1>10. Awaits(over)
  BY <1>2, <1>3, <1>4 DEF Awaits, SameBuf
<1>11. Good(over, r)
  BY <1>2, <1>4, <1>6, <1>7, <1>8, <1>9, <1>10 DEF Good, Base
<1>12. Kept(s, over) /\ Typed(over)
  <2>1. Connection!Begins(s.sent, over.sent)
    <3>1. s.sent \in Seq(UpPacket)
      BY <1>3 DEF Typed, Client
    <3> QED BY <1>2, <3>1, BeginsItself DEF SameBuf
  <2> QED BY <1>2, <1>3, <2>1 DEF Kept, Safe, Basic
<1>13. /\ Good(told, r) /\ Kept(over, told) /\ Typed(told)
       /\ ~ Closed(told) => told.closing # "upgrade"
  <2>1. CASE over.closing = "upgrade"
    <3>1. Paid(over)
      BY <1>2, <1>3, <1>10, <2>1 DEF Awaits, Paid
    <3>2. Good(ForcedClose(over), r) /\ Kept(over, ForcedClose(over)) /\ Closed(ForcedClose(over))
      BY <1>3, <1>11, <3>1, ForcedCloseGood DEF Good
    <3> QED BY <2>1, <3>2 DEF Good, Base, Safe, Basic
  <2>2. CASE over.closing # "upgrade"
    BY <1>11, <1>12, <2>2, KeptItself
  <2> QED BY <2>1, <2>2
<1>14. told.transport = "websocket" \/ Closed(told)
  BY <1>2, <1>13 DEF Kept
<1> HIDE DEF told
<1>15. told \in Client /\ Safe(told) /\ Base(told, r) /\ Shape(told) /\ Words(told) /\ Ready(told)
       /\ Mode(told)
  BY <1>13 DEF Good, Base, Typed
<1>16. done \in Client
  BY <1>15 DEF Client
<1>17. /\ Relabels(told, done) /\ done.owed = told.owed /\ done.probe = told.probe
       /\ done.opened = told.opened /\ done.closing = told.closing /\ done.ready = told.ready
       /\ done.threw = told.threw /\ done.transport = told.transport
  BY <1>15 DEF Client, Relabels, SameNet, SameIn, Closed
<1> HIDE DEF done
<1>18. Closed(told) => ~ Probing(told)
  BY <1>15 DEF Mode
<1>19. Safe(done)
  <2>1. Typed(done) /\ Coherent(done)
    BY <1>15, <1>16, <1>17 DEF Safe, Basic, Typed, Coherent, Relabels, SameNet
  <2>2. ~ Closed(done) => PollOpen(done) /\ WsOpened(done)
    <3> SUFFICES ASSUME ~ Closed(done)
                 PROVE  PollOpen(done) /\ WsOpened(done)
      OBVIOUS
    <3>1. told.transport = "websocket" /\ ~ Closed(told) /\ told.poll.waits = {}
      BY <1>14, <1>15, <1>17 DEF Relabels, Mode
    <3> QED BY <1>15, <1>17, <3>1 DEF Safe, PollOpen, WsOpened, Relabels, Closed
  <2> QED BY <2>1, <2>2 DEF Safe, Basic, Closed
<1>20. /\ done.owed <= Len(done.sent)
       /\ Closed(told) => done.owed = told.owed
       /\ Probing(done) => done.transport = "polling" /\ ~ Closed(done)
       /\ done.jsonp => done.probe \notin {"pinged", "ponged"}
  BY <1>15, <1>17, <1>18 DEF Words, Shape, Probing, Relabels, SameNet
<1>21. Base(done, r) /\ Ready(done)
  BY <1>15, <1>17, <1>19, <1>20, Relabelled
<1>22. Awaits(done)
  BY <1>13, <1>17 DEF Awaits, Closed
<1>23. Good(done, r) /\ Typed(done)
  BY <1>19, <1>21, <1>22 DEF Good, Safe, Basic
<1>24. Kept(told, done)
  BY <1>13, <1>17, KeptRelabelled
<1>25. Good(Flush(done), r) /\ Kept(done, Flush(done))
  BY <1>23, FlushGood
<1>26. Kept(s, done)
  BY <1>3, <1>12, <1>13, <1>23, <1>24, KeptBoth
<1> QED BY <1>1, <1>3, <1>23, <1>25, <1>26, KeptBoth DEF Good, Base, Safe, Basic

\* The polling transport of a Socket is being paused, or is paused.
Pauses(s, t) ==
  /\ SameBuf(s, t) /\ SameNet(s, t) /\ SameCtl(s, t) /\ SameIn(s, t) /\ t.ws = s.ws
  /\ t.threw = s.threw
  /\ t.poll.writable = s.poll.writable /\ t.poll.heard = s.poll.heard
  /\ t.poll.state \in {"pausing", "paused"}

\* Up to what it waits for.
LEMMA PausesMost ==
  ASSUME NEW s, NEW t, NEW r \in Seq(UpPacket), Base(s, r), Awaits(s), t \in Client,
         ~ Closed(s), s.transport = "polling", s.upgrading, Pauses(s, t)
  PROVE  /\ Safe(t) /\ Typed(t) /\ Words(t) /\ Shape(t) /\ Fine(t) /\ Awaits(t) /\ Kept(s, t)
         /\ (Ready(s) => Ready(t)) /\ ~ Closed(t)
         /\ \A k \in Nat : Flow(s, r, k) /\ Ended(s, r, k) => Flow(t, r, k) /\ Ended(t, r, k)
<1>1. Safe(s) /\ Typed(s) /\ Words(s) /\ Shape(s) /\ Mode(s) /\ Fine(s)
  BY DEF Base, Safe, Basic
<1>2. t.ready = s.ready /\ t.transport = "polling" /\ t.upgrading /\ ~ Closed(t)
  BY DEF Pauses, SameCtl, Closed
<1>3. Typed(t) /\ Coherent(t)
  BY <1>1 DEF Pauses, SameBuf, SameNet, Safe, Basic, Typed, Coherent
<1>4. PollOpen(t) /\ WsOpened(t)
  BY <1>1, <1>2 DEF Pauses, SameNet, SameCtl, Safe, PollOpen, WsOpened, Closed
<1>5. Safe(t)
  BY <1>3, <1>4 DEF Safe, Basic
<1>6. SameBuf(s, t) /\ SameNet(s, t)
  BY DEF Pauses
<1>7. /\ Words(t) /\ Written(t) = Written(s)
      /\ \A k \in Nat : Flow(s, r, k) /\ Ended(s, r, k) => Flow(t, r, k) /\ Ended(t, r, k)
  BY <1>1, <1>2, <1>6, FlowSame
<1>8. Shape(t)
  BY <1>1, <1>2 DEF Shape, Pauses, SameNet, SameCtl, Probing, Closed
<1>9. Fine(t)
  BY <1>1, <1>2 DEF Fine, Pauses, SameNet, SameIn, Closed
<1>10. Awaits(t)
  BY <1>2, <1>7 DEF Awaits, Pauses, SameBuf, SameNet, SameCtl, Closed
<1>11. Ready(s) => Ready(t)
  BY <1>2 DEF Ready, Writable, Pauses, SameBuf, Closed
<1>12. Kept(s, t)
  BY <1>1, KeptSame DEF Pauses, SameBuf, SameNet
<1> QED BY <1>2, <1>3, <1>5, <1>7, <1>8, <1>9, <1>10, <1>11, <1>12

\* pause() when there is nothing to wait for, and the end of a wait.
LEMMA PausedGood ==
  ASSUME NEW s, NEW t, NEW r \in Seq(UpPacket), Good(s, r), t \in Client,
         ~ Closed(s), s.transport = "polling", s.upgrading, Pauses(s, t),
         t.poll.state = "paused", s.poll.writable, ~ s.poll.polling,
         s.probe = "ponged" \/ t.poll.waits = {}
  PROVE  Good(Upgrade(t), r) /\ Kept(s, Upgrade(t))
<1>1. /\ Safe(t) /\ Typed(t) /\ Words(t) /\ Shape(t) /\ Fine(t) /\ Awaits(t) /\ Kept(s, t)
      /\ Ready(t) /\ ~ Closed(t) /\ Typed(s)
      /\ \A k \in Nat : Flow(s, r, k) /\ Ended(s, r, k) => Flow(t, r, k) /\ Ended(t, r, k)
  BY PausesMost DEF Good, Base, Safe, Basic
<1>2. Mode(s)
  BY DEF Good, Base
<1>3. t.post = "idle" /\ ~ t.poll.polling /\ t.probe = s.probe /\ t.transport = "polling"
  BY <1>2 DEF Mode, Pauses, SameNet, SameCtl, SameIn
<1>4. PICK k \in Nat : Flow(s, r, k) /\ Ended(s, r, k)
  BY DEF Good, Base
<1>5. Flow(t, r, k) /\ Ended(t, r, k)
  BY <1>1, <1>4
<1>6. CASE s.probe = "ponged"
  <2>1. Good(Upgrade(t), r) /\ Kept(t, Upgrade(t))
    BY <1>1, <1>3, <1>5, <1>6, UpgradeGood
  <2> QED BY <1>1, <2>1, KeptBoth DEF Good, Base, Safe, Basic
<1>7. CASE s.probe # "ponged"
  <2>1. Upgrade(t) = t
    BY <1>3, <1>7 DEF Upgrade
  <2>2. Mode(t)
    BY <1>1, <1>2, <1>3, <1>7 DEF Mode, Pauses, SameNet, SameBuf
  <2> QED BY <1>1, <1>5, <2>1, <2>2 DEF Good, Base
<1> QED BY <1>6, <1>7

\* pause(), called when the probe has been answered.
LEMMA PauseGood ==
  ASSUME NEW s, NEW r \in Seq(UpPacket), Good(s, r), ~ Closed(s), s.transport = "polling",
         s.upgrading, s.probe = "ponged"
  PROVE  Good(Pause(s), r) /\ Kept(s, Pause(s))
<1> DEFINE waits == (IF s.poll.polling THEN {"pollComplete"} ELSE {})
                     \cup (IF s.poll.writable THEN {} ELSE {"drain"})
           p == [s EXCEPT !.poll.state = "paused"]
           t == [s EXCEPT !.poll.state = "pausing", !.poll.waits = waits]
<1>1. s \in Client /\ Base(s, r) /\ Awaits(s) /\ Ready(s) /\ Mode(s)
  BY DEF Good, Base, Safe, Basic, Typed
<1>2. /\ waits \subseteq {"pollComplete", "drain"}
      /\ waits = {} => s.poll.writable /\ ~ s.poll.polling
      /\ s.poll.writable \/ "drain" \in waits
      /\ s.poll.polling => "pollComplete" \in waits
  OBVIOUS
<1>3. Pause(s) = IF waits = {} THEN Upgrade(p) ELSE t
  BY DEF Pause
<1> HIDE DEF waits
<1>4. p \in Client
  BY <1>1 DEF Client, Polling
<1>5. Pauses(s, p) /\ p.poll.state = "paused"
  BY <1>1 DEF Client, Polling, Pauses, SameBuf, SameNet, SameCtl, SameIn
<1>6. t \in Client
  BY <1>1, <1>2 DEF Client, Polling
<1>7. Pauses(s, t) /\ t.poll.state = "pausing" /\ t.poll.waits = waits
  BY <1>1 DEF Client, Polling, Pauses, SameBuf, SameNet, SameCtl, SameIn
<1> HIDE DEF p, t
<1>8. CASE waits = {}
  BY <1>2, <1>3, <1>4, <1>5, <1>8, PausedGood
<1>9. CASE waits # {}
  <2>1. /\ Safe(t) /\ Typed(t) /\ Words(t) /\ Shape(t) /\ Fine(t) /\ Awaits(t) /\ Kept(s, t)
        /\ Ready(t) /\ ~ Closed(t)
        /\ \A k \in Nat : Flow(s, r, k) /\ Ended(s, r, k) => Flow(t, r, k) /\ Ended(t, r, k)
    BY <1>1, <1>6, <1>7, PausesMost
  <2>2. PICK k \in Nat : Flow(s, r, k) /\ Ended(s, r, k)
    BY DEF Good, Base
  <2>3. Mode(t)
    BY <1>1, <1>2, <1>7, <2>1 DEF Mode, Pauses, SameNet, SameBuf, SameCtl, SameIn
  <2>4. Flow(t, r, k) /\ Ended(t, r, k)
    BY <2>1, <2>2
  <2> QED BY <1>3, <1>9, <2>1, <2>3, <2>4 DEF Good, Base
<1> QED BY <1>8, <1>9

\* An event that pause() waits for.
LEMMA WaitOverGood ==
  ASSUME NEW s, NEW r \in Seq(UpPacket), NEW event \in {"pollComplete", "drain"}, Good(s, r),
         ~ Closed(s) /\ s.poll.waits # {} =>
           /\ event = "drain" => s.poll.writable
           /\ event = "pollComplete" => ~ s.poll.polling
  PROVE  Good(WaitOver(s, event), r) /\ Kept(s, WaitOver(s, event))
<1> DEFINE t == [s EXCEPT !.poll.waits = @ \ {event}]
           p == [t EXCEPT !.poll.state = "paused"]
<1>1. s \in Client /\ Typed(s) /\ Base(s, r) /\ Awaits(s) /\ Ready(s) /\ Mode(s) /\ Safe(s)
  BY DEF Good, Base, Safe, Basic, Typed
<1>2. WaitOver(s, event) = IF event \in s.poll.waits /\ t.poll.waits = {} THEN Upgrade(p) ELSE t
  BY DEF WaitOver
<1>3. s.poll.waits \subseteq {"pollComplete", "drain"}
  BY <1>1 DEF Client, Polling
<1>4. t \in Client
  BY <1>1 DEF Client, Polling
<1>5. /\ SameBuf(s, t) /\ SameNet(s, t) /\ SameCtl(s, t) /\ SameIn(s, t) /\ t.ws = s.ws
      /\ t.threw = s.threw /\ t.poll.writable = s.poll.writable
      /\ t.poll.heard = s.poll.heard /\ t.poll.state = s.poll.state
      /\ t.poll.waits = s.poll.waits \ {event}
  BY <1>1 DEF Client, Polling, SameBuf, SameNet, SameCtl, SameIn
<1>6. event \notin s.poll.waits => t = s
  <2> SUFFICES ASSUME event \notin s.poll.waits
               PROVE  t = s
    OBVIOUS
  <2>1. s.poll.waits \ {event} = s.poll.waits
    OBVIOUS
  <2>2. [s.poll EXCEPT !.waits = s.poll.waits] = s.poll
    BY <1>1 DEF Client, Polling
  <2>3. [s EXCEPT !.poll = s.poll] = s
    BY <1>1 DEF Client
  <2>4. t = [s EXCEPT !.poll = [s.poll EXCEPT !.waits = s.poll.waits]]
    BY <2>1
  <2> QED BY <2>2, <2>3, <2>4
<1> HIDE DEF t
<1>7. p \in Client
  BY <1>4 DEF Client, Polling
<1>8. /\ SameBuf(t, p) /\ SameNet(t, p) /\ SameCtl(t, p) /\ SameIn(t, p) /\ p.ws = t.ws
      /\ p.threw = t.threw /\ p.poll.writable = t.poll.writable
      /\ p.poll.heard = t.poll.heard /\ p.poll.state = "paused" /\ p.poll.waits = t.poll.waits
  BY <1>4 DEF Client, Polling, SameBuf, SameNet, SameCtl, SameIn
<1> HIDE DEF p
<1>9. CASE event \notin s.poll.waits
  BY <1>1, <1>2, <1>6, <1>9, KeptItself
<1>10. CASE event \in s.poll.waits
  <2>1. /\ ~ Closed(s) /\ s.transport = "polling" /\ s.poll.state = "pausing" /\ s.upgrading
        /\ s.poll.writable \/ "drain" \in s.poll.waits
        /\ s.poll.polling => "pollComplete" \in s.poll.waits
        /\ event = "drain" => s.poll.writable
        /\ event = "pollComplete" => ~ s.poll.polling
    <3>1. s.poll.waits # {} /\ ~ Closed(s)
      BY <1>1, <1>10 DEF Mode
    <3> QED BY <1>1, <3>1 DEF Mode, Safe, PollOpen, Closed
  <2>2. CASE t.poll.waits = {}
    <3>1. Pauses(s, p) /\ p.poll.waits = {} /\ p.poll.state = "paused"
      BY <1>5, <1>8, <2>2 DEF Pauses, SameBuf, SameNet, SameCtl, SameIn
    <3>2. s.poll.writable /\ ~ s.poll.polling
      BY <1>3, <1>5, <2>1, <2>2
    <3> QED BY <1>2, <1>7, <1>10, <2>1, <2>2, <3>1, <3>2, PausedGood
  <2>3. CASE t.poll.waits # {}
    <3>1. Pauses(s, t)
      BY <1>5, <2>1 DEF Pauses
    <3>2. /\ Safe(t) /\ Words(t) /\ Shape(t) /\ Fine(t) /\ Awaits(t) /\ Kept(s, t)
          /\ Ready(t) /\ ~ Closed(t)
          /\ \A k \in Nat : Flow(s, r, k) /\ Ended(s, r, k) => Flow(t, r, k) /\ Ended(t, r, k)
      BY <1>1, <1>4, <2>1, <3>1, PausesMost
    <3>3. PICK k \in Nat : Flow(s, r, k) /\ Ended(s, r, k)
      BY DEF Good, Base
    <3>4. /\ t.poll.writable \/ "drain" \in t.poll.waits
          /\ t.poll.polling => "pollComplete" \in t.poll.waits
      BY <1>5, <2>1 DEF SameIn
    <3>5. Mode(t)
      BY <1>1, <1>5, <2>1, <3>2, <3>4 DEF Mode, SameNet, SameBuf, SameCtl
    <3>6. Flow(t, r, k) /\ Ended(t, r, k)
      BY <3>2, <3>3
    <3> QED BY <1>2, <2>3, <3>2, <3>5, <3>6 DEF Good, Base
  <2> QED BY <2>2, <2>3
<1> QED BY <1>9, <1>10

\* The page sends packets of the type of UpPacket, and never a probe or an upgrade.
LEMMA MessageWord ==
  ASSUME NEW s, Typed(s), NextMessage(s) <= MaxSent
  PROVE  Message(NextMessage(s)) \in UpPacket /\ Message(NextMessage(s)).type \notin Control
<1>1. NextMessage(s) \in 1 .. MaxSent
  BY NextMessageType
<1>2. Message(NextMessage(s)) \in UpPacket
  BY <1>1, UpPackets
<1> QED BY <1>2 DEF Message, Control

\* A callback of the page: nothing, send() or close().
LEMMA DoesGood ==
  ASSUME NEW s, NEW act \in Page, NEW r \in Seq(UpPacket), Good(s, r)
  PROVE  Good(Does(s, act), r) /\ Kept(s, Does(s, act))
<1>1. Typed(s)
  BY DEF Good, Base, Safe, Basic
<1>2. CASE act = "write" /\ NextMessage(s) <= MaxSent
  <2>1. Does(s, act) = SendPacket(s, Message(NextMessage(s)))
    BY <1>2 DEF Does
  <2> QED BY <1>1, <1>2, <2>1, MessageWord, SendPacketGood
<1>3. CASE act = "close"
  <2>1. Does(s, act) = Close(s)
    BY <1>3 DEF Does
  <2> QED BY <2>1, CloseGood
<1>4. CASE act # "close" /\ ~ (act = "write" /\ NextMessage(s) <= MaxSent)
  <2>1. Does(s, act) = s
    BY <1>4 DEF Does
  <2> QED BY <1>1, <2>1, KeptItself
<1> QED BY <1>2, <1>3, <1>4

\* onHandshake(): onOpen() with its probes, flush and the page's callback.
LEMMA OnHandshakeGood ==
  ASSUME NEW s, NEW act \in Page, NEW r \in Seq(UpPacket), Good(s, r), ~ Closed(s)
  PROVE  Good(OnHandshake(s, act), r) /\ Kept(s, OnHandshake(s, act))
<1> DEFINE open == [s EXCEPT !.ready = "open", !.opened = TRUE]
           done == Does(open, act)
           opened == Flush(done)
           o == OnOpen(s, act)
           h == [o EXCEPT !.pingInterval = TRUE, !.beating = TRUE]
<1>1. s \in Client /\ Safe(s) /\ Typed(s) /\ Words(s) /\ Shape(s) /\ Base(s, r) /\ Ready(s)
      /\ Awaits(s)
  BY DEF Good, Base, Safe, Basic, Typed
<1>2. open \in Client
  BY <1>1 DEF Client
<1>3. /\ SameNet(s, open) /\ SameIn(s, open) /\ open.poll = s.poll /\ open.ws = s.ws
      /\ open.bye = s.bye /\ open.sent = s.sent /\ open.writeBuffer = s.writeBuffer
      /\ open.prevBufferLen = s.prevBufferLen /\ open.ready = "open" /\ open.opened
      /\ open.threw = s.threw /\ open.upgrading = s.upgrading /\ open.closing = s.closing
      /\ open.probe = s.probe /\ open.owed = s.owed
  BY <1>1 DEF Client, SameNet, SameIn
<1> HIDE DEF open
<1>4. ~ Closed(open) /\ Relabels(s, open)
  BY <1>3 DEF Closed, Relabels
<1>5. Safe(open)
  BY <1>1, <1>2, <1>3, <1>4
     DEF Safe, Basic, Typed, SameNet, Coherent, PollOpen, WsOpened, Closed
<1>6. /\ open.owed <= Len(open.sent)
      /\ Probing(open) => open.transport = "polling" /\ ~ Closed(open)
      /\ open.jsonp => open.probe \notin {"pinged", "ponged"}
  BY <1>1, <1>3, <1>4 DEF Words, Shape, Probing, SameNet
<1>7. Base(open, r) /\ Ready(open) /\ Written(open) = Written(s)
  BY <1>1, <1>4, <1>5, <1>6, Relabelled
<1>8. Awaits(open)
  BY <1>1, <1>3, <1>7 DEF Awaits, SameNet
<1>9. Good(open, r) /\ Kept(s, open) /\ Typed(open)
  BY <1>1, <1>3, <1>4, <1>5, <1>7, <1>8, KeptRelabelled DEF Good, Safe, Basic
<1>10. Good(done, r) /\ Kept(open, done) /\ Typed(done)
  BY <1>9, DoesGood DEF Good, Base, Safe, Basic
<1>11. Good(opened, r) /\ Kept(done, opened) /\ Typed(opened)
  BY <1>10, FlushGood DEF Good, Base, Safe, Basic
<1>12. Kept(s, opened)
  BY <1>1, <1>9, <1>10, <1>11, KeptBoth
<1>13. o = IF opened.ready = "open" /\ opened.transport = "polling" THEN Probe(opened) ELSE opened
  BY DEF OnOpen, open
<1> HIDE DEF opened, o
<1>14. Good(o, r) /\ Kept(s, o) /\ Typed(o)
  <2>1. CASE opened.ready = "open" /\ opened.transport = "polling"
    <3>1. Good(Probe(opened), r) /\ Kept(opened, Probe(opened))
      BY <1>11, <2>1, ProbeGood DEF Closed
    <3> QED BY <1>1, <1>11, <1>12, <1>13, <2>1, <3>1, KeptBoth DEF Good, Base, Safe, Basic
  <2>2. CASE ~ (opened.ready = "open" /\ opened.transport = "polling")
    BY <1>11, <1>12, <1>13, <2>2
  <2> QED BY <2>1, <2>2
<1>15. o \in Client
  BY <1>14 DEF Typed
<1>16. h \in Client /\ SameAll(o, h) /\ SameBuf(o, h) /\ SameIn(o, h) /\ SameCtl(o, h)
       /\ SameNet(o, h)
  BY <1>15 DEF Client, SameAll, SameBuf, SameNet, SameCtl, SameIn
<1>17. OnHandshake(s, act) = o \/ OnHandshake(s, act) = h
  BY DEF OnHandshake, o
<1> HIDE DEF h
<1>18. Typed(h)
  BY <1>14, <1>16 DEF Typed, SameBuf
<1>19. Good(h, r)
  BY <1>14, <1>16, <1>18, SameIsGood
<1>20. Kept(o, h)
  BY <1>14, <1>16, KeptSame DEF SameBuf, SameNet
<1> QED BY <1>1, <1>14, <1>17, <1>18, <1>19, <1>20, KeptBoth

\* The Socket hands out a message.
Heard(s, p) ==
  [s EXCEPT !.got = IF p.type = "message" /\ ~ Closed(s) THEN Append(@, p.n) ELSE @]

\* That a message is handed out changes nothing in the Socket itself.
LEMMA HeardSame ==
  ASSUME NEW s, NEW p \in DownPacket, NEW r \in Seq(UpPacket), Good(s, r)
  PROVE  LET t == Heard(s, p) IN
         /\ Good(t, r) /\ Typed(t) /\ SameAll(s, t) /\ t.down = s.down /\ t.reading = s.reading
         /\ t.got = (IF p.type = "message" /\ ~ Closed(s) THEN Append(s.got, p.n) ELSE s.got)
<1> DEFINE g == IF p.type = "message" /\ ~ Closed(s) THEN Append(s.got, p.n) ELSE s.got
           t == [s EXCEPT !.got = g]
<1>1. s \in Client /\ Typed(s)
  BY DEF Good, Base, Safe, Basic, Typed
<1>2. g \in Seq(1 .. MaxServed)
  <2>1. s.got \in Seq(1 .. MaxServed)
    BY <1>1 DEF Client
  <2>2. p.type = "message" => p.n \in 1 .. MaxServed
    BY DEF DownPacket
  <2>3. p.type = "message" => Append(s.got, p.n) \in Seq(1 .. MaxServed)
    BY <2>1, <2>2
  <2> QED BY <2>1, <2>3
<1>3. Heard(s, p) = t
  BY DEF Heard
<1> HIDE DEF g
<1>4. t \in Client
  BY <1>1, <1>2 DEF Client
<1>5. /\ SameAll(s, t) /\ t.down = s.down /\ t.reading = s.reading /\ t.got = g
      /\ t.prevBufferLen = s.prevBufferLen /\ t.writeBuffer = s.writeBuffer
  BY <1>1 DEF Client, SameAll, SameBuf, SameNet, SameCtl
<1> HIDE DEF t
<1>6. Typed(t)
  BY <1>1, <1>4, <1>5 DEF Typed
<1>7. Good(t, r)
  BY <1>5, <1>6, SameIsGood
<1> QED BY <1>3, <1>5, <1>6, <1>7 DEF g

\* onPacket(): by the type of the packet.
LEMMA OnPacketGood ==
  ASSUME NEW s, NEW p \in DownPacket, NEW act \in Page, NEW r \in Seq(UpPacket), Good(s, r),
         ~ Closed(s) /\ p.type = "error" => s.failed
  PROVE  Good(OnPacket(s, p, act), r) /\ Kept(Heard(s, p), OnPacket(s, p, act))
<1> DEFINE u == Heard(s, p)
<1>1. /\ Good(u, r) /\ Typed(u) /\ SameAll(s, u) /\ u.down = s.down /\ u.reading = s.reading
      /\ u.got = (IF p.type = "message" /\ ~ Closed(s) THEN Append(s.got, p.n) ELSE s.got)
  BY HeardSame
<1> HIDE DEF u
<1>2. ASSUME NEW t, SameAll(s, t), t.down = s.down, t.got = u.got, t.reading = s.reading
      PROVE  Kept(u, t)
  <2>1. SameIn(u, t) /\ SameCtl(u, t) /\ t.sent = u.sent /\ t.posted = u.posted
        /\ t.up = u.up /\ t.link = u.link
    BY <1>1, <1>2 DEF SameAll, SameBuf, SameNet, SameCtl, SameIn
  <2> QED BY <1>1, <2>1, KeptSame
<1>3. CASE s.ready = "closed"
  <2>1. OnPacket(s, p, act) = s
    BY <1>3 DEF OnPacket
  <2>2. SameAll(s, s) /\ s.got = u.got
    BY <1>1, <1>3 DEF SameAll, SameBuf, SameNet, SameCtl, Closed
  <2> QED BY <1>2, <2>1, <2>2 DEF u
<1>4. CASE s.ready # "closed"
  <2> DEFINE t == [s EXCEPT !.pingTimeout = @ \/ s.beating]
             again == [t EXCEPT !.pingInterval = TRUE]
             got == [t EXCEPT !.got = Append(@, p.n)]
  <2>1. s \in Client /\ Typed(s)
    BY DEF Good, Base, Safe, Basic, Typed
  <2>2. t \in Client
    <3>1. (s.pingTimeout \/ s.beating) \in BOOLEAN
      OBVIOUS
    <3> QED BY <2>1, <3>1 DEF Client
  <2>3. SameAll(s, t) /\ t.down = s.down /\ t.reading = s.reading /\ t.got = s.got
        /\ SameBuf(s, t) /\ t.ready = s.ready /\ t.failed = s.failed
    BY <2>1 DEF Client, SameAll, SameBuf, SameNet, SameCtl
  <2>4. /\ p.type = "open" => OnPacket(s, p, act) = OnHandshake(t, act)
        /\ p.type = "pong" => OnPacket(s, p, act) = again
        /\ p.type = "error" => OnPacket(s, p, act) = OnClose(t)
        /\ p.type = "message" => OnPacket(s, p, act) = got
        /\ p.type \notin {"open", "pong", "error", "message"} => OnPacket(s, p, act) = t
    BY <1>4 DEF OnPacket
  <2> HIDE DEF t
  <2>5. Typed(t) /\ ~ Closed(s) /\ ~ Closed(t)
    BY <1>4, <2>1, <2>2, <2>3 DEF Typed, SameBuf, Closed
  <2>6. Good(t, r) /\ Safe(t) /\ Base(t, r)
    BY <2>3, <2>5, SameIsGood DEF Good, Base
  <2>7. p.type # "message" => Kept(u, t)
    BY <1>1, <1>2, <2>3
  <2>8. CASE p.type = "open"
    <3>1. Good(OnHandshake(t, act), r) /\ Kept(t, OnHandshake(t, act))
      BY <2>5, <2>6, OnHandshakeGood
    <3> QED BY <1>1, <2>4, <2>5, <2>7, <2>8, <3>1, KeptBoth DEF Good, Base, Safe, Basic, u
  <2>9. CASE p.type = "pong"
    <3>1. again \in Client
      BY <2>2 DEF Client
    <3>2. SameAll(t, again) /\ again.down = t.down /\ again.reading = t.reading
          /\ again.got = t.got /\ SameBuf(t, again)
      BY <2>2 DEF Client, SameAll, SameBuf, SameNet, SameCtl
    <3> HIDE DEF again
    <3>3. Typed(again)
      BY <2>5, <3>1, <3>2 DEF Typed, SameBuf
    <3>4. Good(again, r)
      BY <2>6, <3>2, <3>3, SameIsGood
    <3>5. SameAll(s, again)
      BY <2>3, <3>2 DEF SameAll, SameBuf, SameNet, SameCtl
    <3>6. Kept(u, again)
      BY <1>1, <1>2, <2>3, <2>9, <3>2, <3>5
    <3> QED BY <2>4, <2>9, <3>4, <3>6 DEF u
  <2>10. CASE p.type = "error"
    <3>1. Paid(t)
      BY <2>3, <2>5, <2>10 DEF Paid
    <3>2. Ceases(t, OnClose(t))
      BY <2>5, <2>6, OnCloseCeases DEF Safe
    <3>3. Good(OnClose(t), r) /\ Kept(t, OnClose(t))
      BY <2>5, <2>6, <3>1, <3>2, Ceased
    <3> QED BY <1>1, <2>4, <2>5, <2>7, <2>10, <3>3, KeptBoth DEF Good, Base, Safe, Basic, u
  <2>11. CASE p.type = "message"
    <3>1. p.n \in 1 .. MaxServed
      BY <2>11 DEF DownPacket
    <3>2. t.got \in Seq(1 .. MaxServed)
      BY <2>2 DEF Client
    <3>3. Append(t.got, p.n) \in Seq(1 .. MaxServed)
      BY <3>1, <3>2
    <3>4. got \in Client
      BY <2>2, <3>3 DEF Client
    <3>5. SameAll(t, got) /\ got.down = t.down /\ got.reading = t.reading
          /\ got.got = Append(t.got, p.n) /\ SameBuf(t, got)
      BY <2>2 DEF Client, SameAll, SameBuf, SameNet, SameCtl
    <3> HIDE DEF got
    <3>6. Typed(got)
      BY <2>5, <3>4, <3>5 DEF Typed, SameBuf
    <3>7. Good(got, r)
      BY <2>6, <3>5, <3>6, SameIsGood
    <3>8. SameAll(s, got)
      BY <2>3, <3>5 DEF SameAll, SameBuf, SameNet, SameCtl
    <3>9. Kept(u, got)
      BY <1>1, <1>2, <2>3, <2>5, <2>11, <3>5, <3>8
    <3> QED BY <2>4, <2>11, <3>7, <3>9 DEF u
  <2>12. CASE p.type \notin {"open", "pong", "error", "message"}
    BY <2>4, <2>6, <2>7, <2>12 DEF u
  <2> QED BY <2>8, <2>9, <2>10, <2>11, <2>12
<1> QED BY <1>3, <1>4

-----------------------------------------------------------------------------
(* The actions.                                                            *)

\* What no callback does to the state before it.
Moves(s, t) ==
  /\ Connection!Begins(s.sent, t.sent) /\ t.jsonp = s.jsonp
  /\ s.opened => t.opened
  /\ s.failed => t.failed
  /\ Closed(s) => Closed(t) /\ t.sent = s.sent /\ t.posted = s.posted /\ t.up = s.up
  /\ \/ t.transport = s.transport
     \/ s.transport = "polling" /\ t.transport = "websocket" /\ ~ t.poll.polling
  /\ s.transport = "websocket" /\ s.link \in {"down", "closed"} => t.link \in {"down", "closed"}

\* What becomes of what the server and the network have for the Socket: the answer of
\* a poll is taken, a packet of it is read, the last one has been, the poll has failed,
\* or the WebSocket has a packet.
SameGot(s, t) == t.down = s.down /\ t.got = s.got
Takes(s, t) ==
  /\ s.get = "answered" /\ ~ s.reading /\ t.get = "idle" /\ t.answer = <<>>
  /\ t.reading /\ t.payload = s.answer /\ SameGot(s, t) /\ t.poll.polling = s.poll.polling
HandsOut(s, p, heard) ==
  IF p.type = "message" /\ heard /\ ~ Closed(s) THEN Append(s.got, p.n) ELSE s.got
ReadsOne(s, t) ==
  /\ s.reading /\ s.payload # <<>> /\ t.reading
  /\ t.get = s.get /\ t.answer = s.answer /\ t.down = s.down /\ t.poll.polling = s.poll.polling
  /\ t.got = HandsOut(s, Head(s.payload), s.poll.heard)
  /\ t.payload = Tail(s.payload) \/ (Head(s.payload).type = "close" /\ t.payload = <<>>)
  /\ Ending(Head(s.payload)) /\ s.poll.heard => Closed(t)
StopsReading(s, t) ==
  /\ s.reading /\ s.payload = <<>> /\ ~ t.reading /\ t.payload = <<>>
  /\ t.answer = s.answer /\ SameGot(s, t)
  /\ \/ t.get = s.get /\ (t.poll.polling => s.poll.polling)
     \/ t.get = "asked" /\ t.poll.polling
PollIsLost(s, t) ==
  /\ s.get = "failed" /\ t.get = "idle" /\ t.reading = s.reading /\ t.payload = s.payload
  /\ t.answer = s.answer /\ SameGot(s, t) /\ t.poll.polling = s.poll.polling
  /\ s.poll.heard => Closed(t)
WsReads(s, t) ==
  /\ s.link = "up" /\ s.down # <<>> /\ t.down = Tail(s.down)
  /\ t.reading = s.reading /\ t.payload = s.payload
  /\ t.get = s.get /\ t.answer = s.answer /\ t.poll.polling = s.poll.polling
  /\ t.got = HandsOut(s, Head(s.down), s.transport = "websocket")
InStep(s, t) == SameIn(s, t) \/ Takes(s, t) \/ ReadsOne(s, t) \/ StopsReading(s, t)
                \/ PollIsLost(s, t) \/ WsReads(s, t)

\* What Kept promises of the last part of a callback, Moves promises of the whole.
LEMMA MovesOfKept ==
  ASSUME NEW s, NEW u, NEW t, Kept(u, t), u.sent = s.sent, u.jsonp = s.jsonp,
         u.transport = s.transport, s.opened => u.opened, s.failed => u.failed,
         Closed(s) => Closed(u) /\ u.posted = s.posted /\ u.up = s.up,
         s.transport = "websocket" /\ s.link \in {"down", "closed"} =>
           u.link \in {"down", "closed"}
  PROVE  Moves(s, t)
BY DEF Kept, Moves, SameIn

\* What is on its way to the Socket, and what it listens to, changes.
LEMMA InGood ==
  ASSUME NEW s, NEW t, NEW r \in Seq(UpPacket), Good(s, r), Safe(t), SameBuf(s, t),
         SameNet(s, t), SameCtl(s, t), Shape(t), Mode(t), Fine(t), Ready(t)
  PROVE  Good(t, r)
<1>1. t.ready = s.ready
  BY DEF SameCtl
<1>2. /\ Words(s) => Words(t)
      /\ Written(t) = Written(s)
      /\ \A k \in Nat : (Flow(s, r, k) => Flow(t, r, k)) /\ (Ended(s, r, k) => Ended(t, r, k))
  BY <1>1, FlowSame
<1>3. Words(s) /\ Awaits(s) /\ \E k \in Nat : Flow(s, r, k) /\ Ended(s, r, k)
  BY DEF Good, Base
<1>4. Awaits(t)
  BY <1>2, <1>3 DEF Awaits, SameCtl, SameBuf, SameNet, Closed
<1> QED BY <1>2, <1>3, <1>4 DEF Good, Base

\* A request, or a part of its answer, that pause() does not wait for.
LEMMA InSame ==
  ASSUME NEW s, NEW t, NEW r \in Seq(UpPacket), Good(s, r), Safe(t), SameBuf(s, t),
         SameNet(s, t), SameCtl(s, t), Fine(t), t.ws = s.ws,
         t.poll.state = s.poll.state, t.poll.writable = s.poll.writable,
         t.poll.waits = s.poll.waits, t.poll.heard = s.poll.heard,
         t.poll.polling => s.poll.polling \/ s.poll.waits = {}
  PROVE  Good(t, r)
<1>1. Shape(s) /\ Mode(s) /\ Ready(s)
  BY DEF Good, Base
<1>2. Shape(t)
  BY <1>1 DEF Shape, SameNet, SameCtl, Probing, Closed
<1>3. Mode(t)
  BY <1>1 DEF Mode, SameNet, SameCtl, SameBuf, Probing, Closed
<1>4. Ready(t)
  BY <1>1 DEF Ready, Writable, SameNet, SameCtl, SameBuf, Closed
<1> QED BY <1>2, <1>3, <1>4, InGood

\* The answer of a poll comes: the reading of its payload begins.
LEMMA TakeAnswerGood ==
  ASSUME NEW r \in Seq(UpPacket), Good(c, r), Safe(c'), TakeAnswer
  PROVE  Good(c', r) /\ Moves(c, c') /\ InStep(c, c')
<1> DEFINE s == c
           u == CleanUp(s, "get")
           t == [u EXCEPT !.answer = <<>>, !.reading = TRUE, !.payload = s.answer]
<1>1. s \in Client /\ Typed(s) /\ Fine(s) /\ t = c' /\ Safe(t) /\ s.get = "answered" /\ ~ s.reading
  BY DEF Good, Base, Safe, Basic, Typed, TakeAnswer
<1> HIDE DEF s
<1>2. u \in Client
  BY ZenonT(60), <1>1 DEF CleanUp, Client, Request
<1>3. /\ SameBuf(s, u) /\ SameNet(s, u) /\ SameCtl(s, u) /\ u.ws = s.ws /\ u.poll = s.poll
      /\ u.down = s.down /\ u.got = s.got /\ u.get = "idle"
  BY <1>1 DEF CleanUp, Client, SameBuf, SameNet, SameCtl
<1> HIDE DEF u
<1>4. /\ SameBuf(u, t) /\ SameNet(u, t) /\ SameCtl(u, t) /\ t.ws = u.ws /\ t.poll = u.poll
      /\ t.down = u.down /\ t.got = u.got /\ t.get = u.get
      /\ t.answer = <<>> /\ t.reading = TRUE /\ t.payload = s.answer
  BY <1>2 DEF Client, SameBuf, SameNet, SameCtl
<1> HIDE DEF t
<1>5. SameBuf(s, t) /\ SameNet(s, t) /\ SameCtl(s, t) /\ t.ws = s.ws /\ t.poll = s.poll
  BY <1>3, <1>4 DEF SameBuf, SameNet, SameCtl
<1>6. Fine(t)
  <2>1. \A i \in 1 .. Len(t.answer) : ~ Ending(t.answer[i])
    BY <1>4
  <2> QED BY <1>1, <1>3, <1>4, <1>5, <2>1 DEF Fine, SameNet, SameCtl, Closed
<1>7. Good(t, r)
  BY <1>1, <1>5, <1>6, InSame DEF s
<1>8. Kept(s, s)
  BY <1>1, KeptItself
<1>9. Moves(s, t)
  BY <1>5, <1>8 DEF Kept, Moves, SameBuf, SameNet, SameCtl, Closed
<1>10. InStep(s, t)
  BY <1>1, <1>3, <1>4 DEF InStep, Takes, SameGot
<1> QED BY <1>1, <1>7, <1>9, <1>10 DEF s

\* Polls again: no pause is waiting for the end of the poll.
LEMMA PollGood ==
  ASSUME NEW s, NEW r \in Seq(UpPacket), Good(s, r), s.poll.state = "open"
  PROVE  LET t == Poll(s) IN
         /\ Good(t, r) /\ SameBuf(s, t) /\ SameNet(s, t) /\ SameCtl(s, t)
         /\ t.answer = s.answer /\ t.payload = s.payload /\ t.reading = s.reading
         /\ SameGot(s, t) /\ t.get = "asked" /\ t.poll.polling
         /\ s.transport = "polling"
<1> DEFINE u == Create(s, "get")
           t == [u EXCEPT !.poll.polling = TRUE]
<1>1. s \in Client /\ Typed(s) /\ Fine(s) /\ Shape(s) /\ Mode(s) /\ Safe(s)
  BY DEF Good, Base, Safe, Basic, Typed
<1>2. u \in Client
  BY ZenonT(60), <1>1 DEF Create, Client, Request
<1>3. /\ SameBuf(s, u) /\ SameNet(s, u) /\ SameCtl(s, u) /\ u.ws = s.ws /\ u.poll = s.poll
      /\ u.down = s.down /\ u.got = s.got /\ u.get = "asked" /\ u.threw = s.threw
      /\ u.answer = s.answer /\ u.payload = s.payload /\ u.reading = s.reading
  BY <1>1 DEF Create, Client, SameBuf, SameNet, SameCtl
<1>4. Poll(s) = t
  BY DEF Poll
<1> HIDE DEF u
<1>5. /\ SameBuf(u, t) /\ SameNet(u, t) /\ SameCtl(u, t) /\ t.ws = u.ws
      /\ t.down = u.down /\ t.got = u.got /\ t.get = u.get /\ t.threw = u.threw
      /\ t.answer = u.answer /\ t.payload = u.payload /\ t.reading = u.reading
  BY <1>2 DEF Client, SameBuf, SameNet, SameCtl
<1>6. /\ t.poll.state = u.poll.state /\ t.poll.writable = u.poll.writable
      /\ t.poll.waits = u.poll.waits /\ t.poll.heard = u.poll.heard /\ t.poll.polling
  BY <1>2 DEF Client, Polling
<1>7. t \in Client
  BY ZenonT(60), <1>2 DEF Client, Polling
<1> HIDE DEF t
<1>8. SameBuf(s, t) /\ SameNet(s, t) /\ SameCtl(s, t) /\ t.ws = s.ws
  BY <1>3, <1>5 DEF SameBuf, SameNet, SameCtl
<1>9. SameButPost(s, t) /\ Typed(t)
  BY <1>1, <1>3, <1>5, <1>6, <1>7, <1>8 DEF SameButPost, Typed, SameBuf, SameNet, SameCtl
<1>10. Safe(t)
  BY <1>1, <1>9, SameButPostSafe
<1>11. Fine(t)
  BY <1>1, <1>3, <1>5, <1>8 DEF Fine, SameNet, SameCtl, Closed
<1>12. s.poll.waits = {}
  BY <1>1 DEF Mode
<1>13. s.transport = "polling"
  <2>1. s.transport \in {"polling", "websocket"}
    BY <1>1 DEF Client
  <2> QED BY <1>1, <2>1 DEF Shape
<1>14. Good(t, r)
  BY <1>3, <1>6, <1>8, <1>10, <1>11, <1>12, InSame
<1> QED BY <1>3, <1>4, <1>5, <1>6, <1>8, <1>13, <1>14 DEF SameGot

\* The payload is read: the poll is complete, and the next one starts, or the pause ends.
LEMMA EndOfPayloadGood ==
  ASSUME NEW r \in Seq(UpPacket), Good(c, r), Safe(c'), EndOfPayload
  PROVE  Good(c', r) /\ Moves(c, c') /\ InStep(c, c')
<1> DEFINE s == c
           t == [s EXCEPT !.reading = FALSE]
           idle == [t EXCEPT !.poll.polling = FALSE]
           over == WaitOver(idle, "pollComplete")
<1>1. s \in Client /\ Typed(s) /\ Fine(s) /\ Mode(s) /\ Safe(s) /\ s.reading /\ s.payload = <<>>
  BY DEF Good, Base, Safe, Basic, Typed, EndOfPayload
<1>2. \/ c' = t
      \/ c' = Poll(over) /\ over.poll.state = "open"
      \/ c' = over
  <2>1. CASE t.poll.state = "closed"
    BY <2>1 DEF EndOfPayload
  <2>2. CASE t.poll.state # "closed" /\ over.poll.state = "open"
    BY <2>2 DEF EndOfPayload
  <2>3. CASE t.poll.state # "closed" /\ over.poll.state # "open"
    BY <2>3 DEF EndOfPayload
  <2> QED BY <2>1, <2>2, <2>3
<1>3. Good(s, r)
  OBVIOUS
<1> HIDE DEF s
<1>4. t \in Client
  BY <1>1 DEF Client
<1>5. /\ SameBuf(s, t) /\ SameNet(s, t) /\ SameCtl(s, t) /\ t.ws = s.ws /\ t.poll = s.poll
      /\ t.down = s.down /\ t.got = s.got /\ t.get = s.get /\ t.threw = s.threw
      /\ t.answer = s.answer /\ t.reading = FALSE /\ t.payload = s.payload
  BY <1>1 DEF Client, SameBuf, SameNet, SameCtl
<1> HIDE DEF t
<1>6. idle \in Client
  BY <1>4 DEF Client, Polling
<1>7. /\ SameBuf(t, idle) /\ SameNet(t, idle) /\ SameCtl(t, idle) /\ idle.ws = t.ws
      /\ idle.down = t.down /\ idle.got = t.got /\ idle.get = t.get /\ idle.threw = t.threw
      /\ idle.answer = t.answer /\ idle.reading = t.reading /\ idle.payload = t.payload
  BY <1>4 DEF Client, SameBuf, SameNet, SameCtl
<1>8. /\ idle.poll.state = t.poll.state /\ idle.poll.writable = t.poll.writable
      /\ idle.poll.waits = t.poll.waits /\ idle.poll.heard = t.poll.heard
      /\ idle.poll.polling = FALSE
  BY <1>4 DEF Client, Polling
<1> HIDE DEF idle
<1>9. ASSUME NEW v, v \in {t, idle}
      PROVE  Good(v, r) /\ Safe(v) /\ Typed(v)
  <2>1. /\ SameBuf(s, v) /\ SameNet(s, v) /\ SameCtl(s, v) /\ v.ws = s.ws
        /\ v.get = s.get /\ v.threw = s.threw /\ v.answer = s.answer /\ v.payload = s.payload
        /\ v.poll.state = s.poll.state /\ v.poll.writable = s.poll.writable
        /\ v.poll.waits = s.poll.waits /\ v.poll.heard = s.poll.heard
        /\ v.poll.polling => s.poll.polling
    BY <1>5, <1>7, <1>8, <1>9 DEF SameBuf, SameNet, SameCtl
  <2>2. SameButPost(s, v) /\ Typed(v)
    BY <1>1, <1>4, <1>6, <1>9, <2>1 DEF SameButPost, Typed, SameBuf, SameNet, SameCtl
  <2>3. Safe(v)
    BY <1>1, <2>2, SameButPostSafe
  <2>4. Fine(v)
    BY <1>1, <2>1 DEF Fine, SameNet, SameCtl, Closed
  <2> QED BY <1>3, <2>1, <2>2, <2>3, <2>4, InSame
<1>10. Good(idle, r) /\ Typed(idle) /\ Good(t, r) /\ Typed(t)
  BY <1>9
<1>11. Good(over, r) /\ Kept(idle, over)
  BY <1>8, <1>10, WaitOverGood
<1> HIDE DEF over
<1>12. CASE c' = t
  <2>1. Kept(t, t)
    BY <1>10, KeptItself
  <2>2. Moves(s, t)
    BY <1>5, <2>1, MovesOfKept DEF SameBuf, SameNet, SameCtl, Closed
  <2>3. StopsReading(s, t)
    BY <1>1, <1>5 DEF StopsReading, SameGot
  <2> QED BY <1>10, <1>12, <2>2, <2>3 DEF InStep, s
<1>13. Moves(s, over)
  BY <1>5, <1>7, <1>11, MovesOfKept DEF SameBuf, SameNet, SameCtl, Closed
<1>14. StopsReading(s, over)
  BY <1>1, <1>5, <1>7, <1>8, <1>11 DEF StopsReading, SameGot, Kept, SameIn
<1>15. CASE c' = over
  BY <1>11, <1>13, <1>14, <1>15 DEF InStep, s
<1>16. CASE c' = Poll(over) /\ over.poll.state = "open"
  <2> DEFINE p == Poll(over)
  <2>1. /\ Good(p, r) /\ SameBuf(over, p) /\ SameNet(over, p) /\ SameCtl(over, p)
        /\ p.answer = over.answer /\ p.payload = over.payload /\ p.reading = over.reading
        /\ SameGot(over, p) /\ p.get = "asked" /\ p.poll.polling
        /\ over.transport = "polling"
    BY <1>11, <1>16, PollGood
  <2> HIDE DEF p
  <2>2. s.transport = "polling"
    <3>1. s.transport \in {"polling", "websocket"}
      BY <1>1 DEF Client
    <3> QED BY <1>13, <2>1, <3>1 DEF Moves
  <2>3. Moves(s, p)
    BY <1>13, <2>1, <2>2 DEF Moves, SameBuf, SameNet, SameCtl, Closed
  <2>4. StopsReading(s, p)
    BY <1>14, <2>1 DEF StopsReading, SameGot
  <2> QED BY <1>16, <2>1, <2>3, <2>4 DEF InStep, s, p
<1> QED BY <1>2, <1>12, <1>15, <1>16

\* Before a packet is read, the first answer opens the polling transport.
LEMMA OpenedGood ==
  ASSUME NEW s, NEW r \in Seq(UpPacket), Good(s, r)
  PROVE  LET t == IF s.poll.state = "opening"
                  THEN [s EXCEPT !.poll.state = "open", !.poll.writable = TRUE] ELSE s
         IN /\ Good(t, r) /\ SameBuf(s, t) /\ SameNet(s, t) /\ SameCtl(s, t) /\ SameIn(s, t)
            /\ t.ws = s.ws /\ t.threw = s.threw
            /\ t.poll.heard = s.poll.heard /\ t.poll.waits = s.poll.waits
<1>1. s \in Client /\ Typed(s) /\ Fine(s) /\ Shape(s) /\ Mode(s) /\ Safe(s) /\ Coherent(s)
  BY DEF Good, Base, Safe, Basic, Typed
<1>2. CASE s.poll.state # "opening"
  BY <1>2 DEF SameBuf, SameNet, SameCtl, SameIn
<1>3. CASE s.poll.state = "opening"
  <2> DEFINE t == [s EXCEPT !.poll.state = "open", !.poll.writable = TRUE]
  <2>1. /\ SameBuf(s, t) /\ SameNet(s, t) /\ SameCtl(s, t) /\ SameIn(s, t)
        /\ t.ws = s.ws /\ t.threw = s.threw
    BY <1>1 DEF Client, Polling, SameBuf, SameNet, SameCtl, SameIn
  <2>2. /\ t.poll.state = "open" /\ t.poll.writable = TRUE
        /\ t.poll.heard = s.poll.heard /\ t.poll.waits = s.poll.waits
    BY <1>1 DEF Client, Polling
  <2>3. t \in Client
    BY <1>1 DEF Client, Polling
  <2> HIDE DEF t
  <2>4. s.transport = "polling" /\ s.post = "idle" /\ (~ Closed(s) => s.prevBufferLen = 0)
    <3>1. s.transport \in {"polling", "websocket"}
      BY <1>1 DEF Client
    <3> QED BY <1>1, <1>3, <3>1 DEF Shape, Mode, Coherent
  <2>5. Safe(t)
    <3>1. Typed(t)
      BY <1>1, <2>1, <2>3 DEF Typed, SameBuf
    <3>2. Coherent(t)
      BY <1>1, <2>1, <2>2 DEF Coherent, SameNet, SameCtl
    <3>3. t.ready # "closed" => PollOpen(t) /\ WsOpened(t)
      BY <1>1, <1>3, <2>1, <2>2 DEF Safe, PollOpen, WsOpened, SameNet, SameCtl
    <3> QED BY <3>1, <3>2, <3>3 DEF Safe, Basic
  <2>6. Shape(t)
    BY <1>1, <2>1, <2>2, <2>4 DEF Shape, SameNet, SameCtl, Probing, Closed
  <2>7. Mode(t)
    BY <1>1, <1>3, <2>1, <2>2, <2>4
       DEF Mode, SameNet, SameCtl, SameBuf, SameIn, Probing, Closed
  <2>8. Fine(t)
    BY <1>1, <2>1 DEF Fine, SameNet, SameCtl, SameIn, Closed
  <2>9. Ready(t)
    BY <2>1, <2>4 DEF Ready, SameBuf, SameCtl, Closed
  <2>10. Good(t, r)
    BY <2>1, <2>5, <2>6, <2>7, <2>8, <2>9, InGood
  <2> QED BY <1>3, <2>1, <2>2, <2>10 DEF t
<1> QED BY <1>2, <1>3

\* Packets are taken off the payload.
LEMMA PayloadGood ==
  ASSUME NEW s, NEW t, NEW q \in Seq(DownPacket), NEW r \in Seq(UpPacket), Good(s, r),
         t = [s EXCEPT !.payload = q],
         ~ s.failed /\ ~ Closed(s) => \A i \in 1 .. Len(q) : ~ Ending(q[i])
  PROVE  /\ Good(t, r) /\ SameBuf(s, t) /\ SameNet(s, t) /\ SameCtl(s, t)
         /\ t.poll = s.poll /\ t.ws = s.ws /\ t.threw = s.threw
         /\ SameGot(s, t) /\ t.payload = q /\ t.reading = s.reading
         /\ t.get = s.get /\ t.answer = s.answer
<1>1. s \in Client /\ Typed(s) /\ Fine(s) /\ Safe(s)
  BY DEF Good, Base, Safe, Basic, Typed
<1>2. t \in Client
  BY <1>1 DEF Client
<1>3. /\ SameBuf(s, t) /\ SameNet(s, t) /\ SameCtl(s, t) /\ t.poll = s.poll /\ t.ws = s.ws
      /\ t.threw = s.threw /\ t.payload = q
  BY <1>1 DEF Client, SameBuf, SameNet, SameCtl
<1>4. SameGot(s, t) /\ t.reading = s.reading /\ t.get = s.get /\ t.answer = s.answer
  BY <1>1 DEF Client, SameGot
<1>5. SameSafe(s, t) /\ Typed(t)
  BY <1>1, <1>2, <1>3 DEF SameSafe, Typed, SameBuf, SameNet, SameCtl
<1>6. Safe(t)
  BY <1>1, <1>5, SameIsSafe
<1>7. Fine(t)
  BY <1>1, <1>3, <1>4 DEF Fine, SameNet, SameCtl, Closed
<1>8. Good(t, r)
  BY <1>3, <1>6, <1>7, InSame
<1> QED BY <1>3, <1>4, <1>8

\* The next packet of a payload.
LEMMA NextPacketGood ==
  ASSUME NEW r \in Seq(UpPacket), Good(c, r), NEW act \in Page, NextPacket(act), Safe(c')
  PROVE  Good(c', r) /\ Moves(c, c') /\ InStep(c, c')
<1> DEFINE s == c
           p == Head(s.payload)
           open == IF s.poll.state = "opening"
                   THEN [s EXCEPT !.poll.state = "open", !.poll.writable = TRUE] ELSE s
           t == [open EXCEPT !.payload = Tail(@)]
           none == [t EXCEPT !.payload = <<>>]
           shut == [t EXCEPT !.poll.state = "closed", !.payload = <<>>]
<1>1. /\ s \in Client /\ Typed(s) /\ Fine(s) /\ Mode(s) /\ Safe(s) /\ Good(s, r)
      /\ s.reading /\ s.payload # <<>>
  BY DEF Good, Base, Safe, Basic, Typed, NextPacket
<1>2. \/ c' = OnClose(shut) /\ p.type = "close" /\ t.poll.heard
      \/ c' = shut /\ p.type = "close" /\ ~ t.poll.heard
      \/ c' = OnPacket(t, p, act) /\ p.type # "close" /\ t.poll.heard
      \/ c' = t /\ p.type # "close" /\ ~ t.poll.heard
  <2>1. CASE p.type = "close" /\ t.poll.heard
    BY <2>1 DEF NextPacket
  <2>2. CASE p.type = "close" /\ ~ t.poll.heard
    BY <2>2 DEF NextPacket
  <2>3. CASE p.type # "close" /\ t.poll.heard
    BY <2>3 DEF NextPacket
  <2>4. CASE p.type # "close" /\ ~ t.poll.heard
    BY <2>4 DEF NextPacket
  <2> QED BY <2>1, <2>2, <2>3, <2>4
<1> HIDE DEF s
<1>3. /\ s.payload \in Seq(DownPacket) /\ p \in DownPacket /\ p = s.payload[1]
      /\ Tail(s.payload) \in Seq(DownPacket) /\ Len(Tail(s.payload)) = Len(s.payload) - 1
      /\ \A i \in 1 .. Len(s.payload) - 1 : Tail(s.payload)[i] = s.payload[i + 1]
      /\ 1 \in 1 .. Len(s.payload) /\ Len(s.payload) \in Nat
  <2>1. s.payload \in Seq(DownPacket) /\ s.payload # <<>>
    BY <1>1 DEF Client
  <2>2. Len(s.payload) \in Nat /\ 1 <= Len(s.payload)
    BY <2>1
  <2> QED BY <2>1, <2>2, TakeHead
<1>4. ~ s.failed /\ ~ Closed(s) =>
        ~ Ending(p) /\ \A i \in 1 .. Len(Tail(s.payload)) : ~ Ending(Tail(s.payload)[i])
  BY <1>1, <1>3 DEF Fine
<1>5. /\ Good(open, r) /\ SameBuf(s, open) /\ SameNet(s, open) /\ SameCtl(s, open)
      /\ SameIn(s, open) /\ open.ws = s.ws
      /\ open.poll.heard = s.poll.heard /\ open.poll.waits = s.poll.waits
  BY <1>1, OpenedGood
<1> HIDE DEF open, p
<1>6. /\ Good(t, r) /\ SameBuf(open, t) /\ SameNet(open, t) /\ SameCtl(open, t)
      /\ t.poll = open.poll /\ t.ws = open.ws
      /\ SameGot(open, t) /\ t.payload = Tail(s.payload) /\ t.reading = open.reading
      /\ t.get = open.get /\ t.answer = open.answer
  <2>1. t = [open EXCEPT !.payload = Tail(s.payload)]
    BY <1>5 DEF SameIn
  <2>2. open.failed = s.failed /\ (Closed(open) <=> Closed(s))
    BY <1>5 DEF SameCtl, Closed
  <2> DEFINE q == Tail(s.payload)
  <2>3. q \in Seq(DownPacket)
    BY <1>3
  <2>4. ~ open.failed /\ ~ Closed(open) => \A i \in 1 .. Len(q) : ~ Ending(q[i])
    BY <1>4, <2>2
  <2>5. t = [open EXCEPT !.payload = q]
    BY <2>1
  <2> HIDE DEF t, q
  <2>6. /\ Good(t, r) /\ SameBuf(open, t) /\ SameNet(open, t) /\ SameCtl(open, t)
        /\ t.poll = open.poll /\ t.ws = open.ws
        /\ SameGot(open, t) /\ t.payload = q /\ t.reading = open.reading
        /\ t.get = open.get /\ t.answer = open.answer
    BY <1>5, <2>3, <2>4, <2>5, PayloadGood
  <2> QED BY <2>6 DEF q
<1> HIDE DEF t
<1>7. /\ SameBuf(s, t) /\ SameNet(s, t) /\ SameCtl(s, t) /\ t.down = s.down /\ t.got = s.got
      /\ t.poll.heard = s.poll.heard /\ t.poll.waits = s.poll.waits
      /\ t.poll.polling = s.poll.polling /\ t.ws = s.ws
      /\ t.reading /\ t.get = s.get /\ t.answer = s.answer
  BY <1>1, <1>5, <1>6 DEF SameBuf, SameNet, SameCtl, SameIn, SameGot
<1>8. t \in Client /\ Typed(t) /\ Safe(t) /\ Fine(t) /\ Mode(t) /\ Shape(t)
  BY <1>6 DEF Good, Base, Safe, Basic, Typed
<1>9. t.poll.heard => ~ Closed(t)
  BY <1>8 DEF Mode
<1>10. ~ t.poll.heard /\ ~ Closed(t) => t.transport = "websocket"
  <2>1. t.transport \in {"polling", "websocket"}
    BY <1>8 DEF Client
  <2> QED BY <1>8, <2>1 DEF Safe, PollOpen, Closed
<1>11. ASSUME NEW f, NEW u, Kept(u, f), SameBuf(t, u), SameNet(t, u), SameCtl(t, u)
       PROVE  Moves(s, f)
  BY <1>7, <1>11, MovesOfKept DEF SameBuf, SameNet, SameCtl, Closed
<1>12. CASE c' = OnPacket(t, p, act) /\ p.type # "close" /\ t.poll.heard
  <2> DEFINE h == Heard(t, p)
             f == OnPacket(t, p, act)
  <2>1. ~ Closed(t) /\ p.type = "error" => t.failed
    BY <1>4, <1>7 DEF SameCtl, Closed, Ending
  <2>2. Good(f, r) /\ Kept(h, f)
    BY <1>3, <1>6, <2>1, OnPacketGood
  <2>3. /\ SameAll(t, h) /\ h.down = t.down /\ h.reading = t.reading
        /\ h.got = (IF p.type = "message" /\ ~ Closed(t) THEN Append(t.got, p.n) ELSE t.got)
    BY <1>3, <1>6, HeardSame
  <2>4. Ending(p) => Closed(f)
    <3>1. Ending(p) => f = OnClose([t EXCEPT !.pingTimeout = @ \/ t.beating])
      BY <1>9, <1>12 DEF OnPacket, Closed, Ending
    <3>2. OnClose([t EXCEPT !.pingTimeout = @ \/ t.beating]).ready = "closed"
      <4> DEFINE b == [t EXCEPT !.pingTimeout = @ \/ t.beating]
      <4>1. (t.pingTimeout \/ t.beating) \in BOOLEAN
        OBVIOUS
      <4>2. b \in Client
        BY <1>8, <4>1 DEF Client
      <4>3. SameSafe(t, b) /\ SameBuffer(t, b)
        BY <1>8 DEF Client, SameSafe, SameBuffer
      <4> HIDE DEF b
      <4>4. Typed(b)
        BY <1>8, <4>2, <4>3 DEF Typed, SameBuffer
      <4>5. Basic(b)
        BY <1>8, <4>3, <4>4, SameIsSafe DEF Safe
      <4> QED BY <4>5, OnCloseSure DEF b
    <3> QED BY <3>1, <3>2 DEF Closed
  <2> HIDE DEF h, f
  <2>5. Moves(s, f)
    BY <1>11, <2>2, <2>3 DEF SameAll
  <2>6. ReadsOne(s, f)
    <3>1. f.got = HandsOut(s, p, s.poll.heard)
      BY <1>7, <1>12, <2>2, <2>3 DEF HandsOut, Kept, SameIn, SameCtl, Closed
    <3>2. /\ f.get = s.get /\ f.answer = s.answer /\ f.down = s.down
          /\ f.poll.polling = s.poll.polling /\ f.reading /\ f.payload = Tail(s.payload)
      BY <1>6, <1>7, <2>2, <2>3 DEF Kept, SameIn, SameAll
    <3> QED BY <1>1, <2>4, <3>1, <3>2 DEF ReadsOne, p
  <2> QED BY <1>12, <2>2, <2>5, <2>6 DEF InStep, s, f
<1>13. CASE c' = t /\ p.type # "close" /\ ~ t.poll.heard
  <2>1. Kept(t, t)
    BY <1>8, KeptItself
  <2>2. Moves(s, t)
    BY <1>11, <2>1 DEF SameBuf, SameNet, SameCtl
  <2>3. ReadsOne(s, t)
    BY <1>1, <1>6, <1>7, <1>13 DEF ReadsOne, HandsOut, p
  <2> QED BY <1>6, <1>13, <2>2, <2>3 DEF InStep, s
<1>14. /\ Good(none, r) /\ SameBuf(t, none) /\ SameNet(t, none) /\ SameCtl(t, none)
       /\ none.poll = t.poll /\ none.ws = t.ws /\ none.threw = t.threw
       /\ SameGot(t, none) /\ none.payload = <<>> /\ none.reading = t.reading
       /\ none.get = t.get /\ none.answer = t.answer
  <2>1. <<>> \in Seq(DownPacket) /\ \A i \in 1 .. Len(<<>>) : ~ Ending(<<>>[i])
    OBVIOUS
  <2> QED BY <1>6, <2>1, PayloadGood
<1>15. /\ SameBuf(t, shut) /\ SameNet(t, shut) /\ SameCtl(t, shut)
       /\ shut.ws = t.ws /\ shut.threw = t.threw
       /\ SameGot(t, shut) /\ shut.payload = <<>> /\ shut.reading = t.reading
       /\ shut.get = t.get /\ shut.answer = t.answer
  BY <1>8 DEF Client, SameBuf, SameNet, SameCtl, SameGot
<1>16. /\ shut.poll.state = "closed" /\ shut.poll.heard = t.poll.heard
       /\ shut.poll.waits = t.poll.waits /\ shut.poll.writable = t.poll.writable
       /\ shut.poll.polling = t.poll.polling
  BY <1>8 DEF Client, Polling
<1>17. shut \in Client
  <2>1. <<>> \in Seq(DownPacket)
    OBVIOUS
  <2> QED BY <1>8, <2>1 DEF Client, Polling
<1> HIDE DEF none, shut
<1>18. Basic(shut)
  <2>1. Typed(shut)
    BY <1>8, <1>15, <1>17 DEF Typed, SameBuf
  <2>2. Coherent(shut)
    BY <1>8, <1>15, <1>16 DEF Safe, Basic, Coherent, SameNet
  <2> QED BY <2>1, <2>2 DEF Basic
<1>19. CASE c' = OnClose(shut) /\ p.type = "close" /\ t.poll.heard
  <2> DEFINE f == OnClose(shut)
  <2>1. ~ Closed(shut) /\ ~ Closed(none) /\ none.failed
    BY <1>4, <1>7, <1>9, <1>14, <1>15, <1>19 DEF SameCtl, Closed, Ending
  <2>2. Ceases(shut, f)
    BY <1>18, <2>1, OnCloseCeases
  <2> HIDE DEF f
  <2>3. /\ SameBuf(none, shut) /\ SameNet(none, shut) /\ SameCtl(none, shut) /\ SameIn(none, shut)
        /\ shut.ws = none.ws
    BY <1>14, <1>15, <1>16 DEF SameBuf, SameNet, SameCtl, SameIn, SameGot
  <2>4. Ceases(none, f)
    <3>1. SameIn(none, f)
      BY <2>2, <2>3 DEF Ceases, SameIn
    <3>2. f.poll.state = none.poll.state \/ f.poll.state = "closed"
      BY <1>16, <2>2 DEF Ceases
    <3> QED BY <2>2, <2>3, <3>1, <3>2 DEF Ceases, SameBuf, SameNet, SameCtl
  <2>5. Good(f, r) /\ Kept(none, f)
    BY <1>14, <2>1, <2>4, Ceased DEF Good, Paid
  <2>6. Moves(s, f)
    BY <1>11, <1>14, <2>5
  <2>7. ReadsOne(s, f)
    BY <1>1, <1>7, <1>14, <1>19, <2>2, <2>5 DEF ReadsOne, HandsOut, Kept, SameIn, SameGot, Ceases, p
  <2> QED BY <1>19, <2>5, <2>6, <2>7 DEF InStep, s, f
<1>20. CASE c' = shut /\ p.type = "close" /\ ~ t.poll.heard
  <2>1. Safe(shut)
    BY <1>20
  <2>2. Shape(shut)
    BY <1>8, <1>15, <1>16 DEF Shape, SameNet, SameCtl, Probing, Closed
  <2>3. Mode(shut)
    BY <1>8, <1>10, <1>15, <1>16, <1>20 DEF Mode, SameBuf, SameNet, SameCtl, Probing, Closed
  <2>4. Fine(shut)
    <3>1. \A i \in 1 .. Len(shut.payload) : ~ Ending(shut.payload[i])
      BY <1>15
    <3> QED BY <1>8, <1>15, <3>1 DEF Fine, SameNet, SameCtl, Closed
  <2>5. Ready(t)
    BY <1>6 DEF Good
  <2>6. Ready(shut)
    BY <1>15, <1>16, <2>5 DEF Ready, Writable, SameBuf, SameNet, SameCtl, Closed
  <2>7. Good(shut, r)
    BY <1>6, <1>15, <2>1, <2>2, <2>3, <2>4, <2>6, InGood
  <2>8. Kept(shut, shut)
    BY <1>18, KeptItself DEF Basic
  <2>9. Moves(s, shut)
    BY <1>11, <1>15, <2>8
  <2>10. ReadsOne(s, shut)
    BY <1>1, <1>7, <1>15, <1>16, <1>20 DEF ReadsOne, HandsOut, SameGot, p
  <2> QED BY <1>20, <2>7, <2>9, <2>10 DEF InStep, s
<1> QED BY <1>2, <1>12, <1>13, <1>19, <1>20

\* CleanUp of the poll changes nothing but its request.
LEMMA CleanUpGet ==
  ASSUME NEW s, NEW r \in Seq(UpPacket), Good(s, r)
  PROVE  LET t == CleanUp(s, "get") IN
         /\ Good(t, r) /\ SameBuf(s, t) /\ SameNet(s, t) /\ SameCtl(s, t)
         /\ t.ws = s.ws /\ t.poll = s.poll /\ SameGot(s, t) /\ t.get = "idle"
         /\ t.answer = s.answer /\ t.payload = s.payload /\ t.reading = s.reading
<1> DEFINE t == CleanUp(s, "get")
<1>1. s \in Client /\ Typed(s) /\ Fine(s) /\ Safe(s)
  BY DEF Good, Base, Safe, Basic, Typed
<1>2. /\ SameBuf(s, t) /\ SameNet(s, t) /\ SameCtl(s, t) /\ t.ws = s.ws /\ t.poll = s.poll
      /\ t.get = "idle" /\ t.answer = s.answer /\ t.payload = s.payload
  BY <1>1 DEF CleanUp, Client, SameBuf, SameNet, SameCtl
<1>3. SameGot(s, t) /\ t.reading = s.reading
  BY <1>1 DEF CleanUp, Client, SameGot
<1>4. Safe(t)
  BY <1>1, CleanUpSafe
<1> HIDE DEF t
<1>5. Fine(t)
  BY <1>1, <1>2 DEF Fine, SameNet, SameCtl, Closed
<1>6. Good(t, r)
  BY <1>2, <1>4, <1>5, InSame
<1> QED BY <1>2, <1>3, <1>6 DEF t

\* A POST is over, to the polling transport only.
LEMMA CleanUpPost ==
  ASSUME NEW s
  PROVE  LET t == CleanUp(s, "post") IN
         Typed(s) =>
           /\ t \in Client /\ SameBuf(s, t) /\ SameCtl(s, t) /\ SameIn(s, t)
           /\ t.ws = s.ws /\ t.poll = s.poll /\ t.post = "idle" /\ t.posted = s.posted
           /\ t.link = s.link /\ t.up = s.up /\ t.threw = s.threw
<1> SUFFICES ASSUME Typed(s)
             PROVE  LET t == CleanUp(s, "post") IN
                    /\ t \in Client /\ SameBuf(s, t) /\ SameCtl(s, t) /\ SameIn(s, t)
                    /\ t.ws = s.ws /\ t.poll = s.poll /\ t.post = "idle" /\ t.posted = s.posted
                    /\ t.link = s.link /\ t.up = s.up /\ t.threw = s.threw
  OBVIOUS
<1> DEFINE t == CleanUp(s, "post")
<1>1. s \in Client
  BY DEF Typed
<1>2. t \in Client
  BY ZenonT(60), <1>1 DEF CleanUp, Client, Request
<1>3. SameBuf(s, t) /\ SameCtl(s, t) /\ SameIn(s, t)
  BY <1>1 DEF CleanUp, Client, SameBuf, SameCtl, SameIn
<1>4. /\ t.ws = s.ws /\ t.poll = s.poll /\ t.post = "idle" /\ t.posted = s.posted
      /\ t.link = s.link /\ t.up = s.up /\ t.threw = s.threw
  BY <1>1 DEF CleanUp, Client
<1> QED BY <1>2, <1>3, <1>4

\* What is under way, when a POST is over.
LEMMA PostOver ==
  ASSUME NEW s, NEW t, NEW r \in Seq(UpPacket), Base(s, r), Safe(t), s.post # "asked",
         SameBuf(s, t), SameCtl(s, t), SameIn(s, t), t.ws = s.ws, t.post = "idle",
         t.posted = s.posted, t.link = s.link, t.up = s.up,
         t.poll.state = s.poll.state, t.poll.waits = s.poll.waits, t.poll.heard = s.poll.heard,
         s.poll.writable => t.poll.writable,
         \/ Closed(s) \/ s.transport = "websocket"
         \/ (s.post = "failed" => s.jsonp)
  PROVE  /\ Words(t) /\ Shape(t) /\ Mode(t) /\ Fine(t) /\ Written(t) = Written(s)
         /\ t.posted = <<>> /\ Base(t, r)
<1>1. Words(s) /\ Shape(s) /\ Mode(s) /\ Fine(s) /\ s.transport \in {"polling", "websocket"}
  BY DEF Base, Safe, Basic, Typed, Client
<1>2. t.posted = <<>>
  BY <1>1 DEF Shape
<1>3. Shape(t)
  BY <1>1, <1>2 DEF Shape, SameCtl, Probing, Closed
<1>4. Mode(t)
  BY <1>1, <1>2 DEF Mode, SameBuf, SameCtl, SameIn, Probing, Closed
<1>5. Fine(t)
  BY <1>1 DEF Fine, SameCtl, SameIn, Closed
<1>6. Words(t) /\ Written(t) = Written(s) /\ Given(t) = Given(s)
  BY <1>1 DEF Words, Written, Given, SameBuf
<1>7. ~ Closed(s) /\ Lost(s) => Lost(t)
  BY <1>1 DEF Lost, SameCtl
<1>8. ASSUME NEW k \in Nat, Flow(s, r, k), Ended(s, r, k)
      PROVE  Flow(t, r, k) /\ Ended(t, r, k)
  BY <1>6, <1>7, <1>8, FlowCarried DEF SameBuf, SameCtl, Closed
<1>9. PICK k \in Nat : Flow(s, r, k) /\ Ended(s, r, k)
  BY DEF Base
<1> QED BY <1>2, <1>3, <1>4, <1>5, <1>6, <1>8, <1>9 DEF Base

\* onError() of a poll.
LEMMA PollFailsGood ==
  ASSUME NEW r \in Seq(UpPacket), Good(c, r), Safe(c'), PollFails
  PROVE  Good(c', r) /\ Moves(c, c') /\ InStep(c, c')
<1> DEFINE s == c
           u == TransportError(s)
           t == CleanUp(u, "get")
<1>1. /\ s.get = "failed" /\ c' = t /\ Good(s, r) /\ Typed(s) /\ Fine(s) /\ Mode(s)
      /\ Base(s, r) /\ Basic(s)
  BY DEF PollFails, Good, Base, Safe, Basic
<1> HIDE DEF s
<1>2. Good(u, r) /\ Kept(s, u) /\ (s.poll.heard => Closed(u))
  <2>1. CASE s.poll.heard
    <3>1. ~ Closed(s) /\ s.failed
      BY <1>1, <2>1 DEF Mode, Fine
    <3>2. Ceases(s, OnClose(s))
      BY <1>1, <3>1, OnCloseCeases
    <3>3. Good(OnClose(s), r) /\ Kept(s, OnClose(s))
      BY <1>1, <3>1, <3>2, Ceased DEF Paid
    <3> QED BY <2>1, <3>2, <3>3 DEF TransportError, Ceases
  <2>2. CASE ~ s.poll.heard
    BY <1>1, <2>2, KeptItself DEF TransportError
  <2> QED BY <2>1, <2>2
<1> HIDE DEF u
<1>3. /\ Good(t, r) /\ SameBuf(u, t) /\ SameNet(u, t) /\ SameCtl(u, t)
      /\ t.ws = u.ws /\ t.poll = u.poll /\ SameGot(u, t) /\ t.get = "idle"
      /\ t.answer = u.answer /\ t.payload = u.payload /\ t.reading = u.reading
  BY <1>2, CleanUpGet
<1> HIDE DEF t
<1>4. Moves(s, t)
  <2>1. Moves(s, u)
    BY <1>2, MovesOfKept
  <2> QED BY <1>3, <2>1 DEF Moves, SameBuf, SameNet, SameCtl, Closed
<1>5. PollIsLost(s, t)
  BY <1>1, <1>2, <1>3 DEF PollIsLost, Kept, SameIn, SameGot, SameCtl, Closed
<1> QED BY <1>1, <1>3, <1>4, <1>5 DEF InStep, s

\* onError() of a POST.
LEMMA PostFailsGood ==
  ASSUME NEW r \in Seq(UpPacket), Good(c, r), Safe(c'), PostFails
  PROVE  Good(c', r) /\ Moves(c, c') /\ InStep(c, c')
<1> DEFINE s == c
           u == TransportError(s)
           t == CleanUp(u, "post")
<1>1. /\ s.post = "failed" /\ c' = t /\ Good(s, r) /\ Typed(s) /\ Fine(s) /\ Mode(s)
      /\ Base(s, r) /\ Basic(s) /\ Safe(s) /\ s.transport \in {"polling", "websocket"}
  BY DEF PostFails, Good, Base, Safe, Basic, Typed, Client
<1>2. Safe(t)
  BY <1>1
<1> HIDE DEF s
<1>3. /\ Good(u, r) /\ Kept(s, u) /\ u.post = "failed"
      /\ Closed(u) \/ u.transport = "websocket"
  <2>1. CASE s.poll.heard
    <3>1. ~ Closed(s) /\ s.failed
      BY <1>1, <2>1 DEF Mode, Fine
    <3>2. Ceases(s, OnClose(s))
      BY <1>1, <3>1, OnCloseCeases
    <3>3. Good(OnClose(s), r) /\ Kept(s, OnClose(s))
      BY <1>1, <3>1, <3>2, Ceased DEF Paid
    <3> QED BY <1>1, <2>1, <3>2, <3>3 DEF TransportError, Ceases
  <2>2. CASE ~ s.poll.heard
    <3>1. Closed(s) \/ s.transport = "websocket"
      BY <1>1, <2>2 DEF Safe, PollOpen, Closed
    <3> QED BY <1>1, <2>2, <3>1, KeptItself DEF TransportError
  <2> QED BY <2>1, <2>2
<1> HIDE DEF u
<1>4. Typed(u) /\ Base(u, r) /\ Awaits(u) /\ Ready(u)
  BY <1>3 DEF Good, Base, Safe, Basic
<1>5. /\ t \in Client /\ SameBuf(u, t) /\ SameCtl(u, t) /\ SameIn(u, t)
      /\ t.ws = u.ws /\ t.poll = u.poll /\ t.post = "idle" /\ t.posted = u.posted
      /\ t.link = u.link /\ t.up = u.up
  BY <1>4, CleanUpPost
<1> HIDE DEF t
<1>6. Base(t, r) /\ Written(t) = Written(u)
  BY <1>2, <1>3, <1>4, <1>5, PostOver
<1>7. Awaits(t) /\ Ready(t)
  BY <1>4, <1>5, <1>6 DEF Awaits, Ready, Writable, SameBuf, SameCtl, Closed
<1>8. Moves(s, t)
  <2>1. Moves(s, u)
    BY <1>3, MovesOfKept
  <2> QED BY <1>5, <2>1 DEF Moves, SameBuf, SameCtl, Closed
<1>9. SameIn(s, t)
  BY <1>3, <1>5 DEF Kept, SameIn
<1> QED BY <1>1, <1>6, <1>7, <1>8, <1>9 DEF InStep, Good, s

\* The POST is answered: the drain of the polling transport.
LEMMA PostDoneGood ==
  ASSUME NEW r \in Seq(UpPacket), Good(c, r), PostDone
  PROVE  Good(c', r) /\ Moves(c, c') /\ InStep(c, c')
<1> DEFINE s == c
           idle == CleanUp(s, "post")
           t == [idle EXCEPT !.poll.writable = TRUE]
           d == IF t.poll.heard THEN OnDrain(t) ELSE t
           w == WaitOver(d, "drain")
<1>1. /\ Good(s, r) /\ Typed(s) /\ Fine(s) /\ Mode(s) /\ Coherent(s) /\ Awaits(s) /\ Ready(s)
      /\ Base(s, r) /\ Basic(s) /\ Safe(s) /\ s.transport \in {"polling", "websocket"}
      /\ c' = w /\ s.post \notin {"idle", "asked"} /\ (s.post = "failed" => s.jsonp)
  BY DEF PostDone, PostSucceeds, Good, Base, Safe, Basic, Typed, Client
<1> HIDE DEF s
<1>2. /\ idle \in Client /\ SameBuf(s, idle) /\ SameCtl(s, idle) /\ SameIn(s, idle)
      /\ idle.ws = s.ws /\ idle.poll = s.poll /\ idle.post = "idle" /\ idle.posted = s.posted
      /\ idle.link = s.link /\ idle.up = s.up /\ idle.threw = s.threw
  BY <1>1, CleanUpPost
<1> HIDE DEF idle
<1>3. t \in Client
  BY <1>2 DEF Client, Polling
<1>4. /\ SameBuf(idle, t) /\ SameCtl(idle, t) /\ SameIn(idle, t)
      /\ t.ws = idle.ws /\ t.post = "idle" /\ t.posted = idle.posted
      /\ t.link = idle.link /\ t.up = idle.up /\ t.threw = idle.threw
  BY <1>2 DEF Client, Polling, SameBuf, SameCtl, SameIn
<1>5. /\ t.poll.state = s.poll.state /\ t.poll.waits = s.poll.waits
      /\ t.poll.heard = s.poll.heard /\ t.poll.writable = TRUE
  BY <1>2 DEF Client, Polling
<1> HIDE DEF t
<1>6. /\ SameBuf(s, t) /\ SameCtl(s, t) /\ SameIn(s, t) /\ t.ws = s.ws
      /\ t.posted = s.posted /\ t.link = s.link /\ t.up = s.up /\ t.threw = s.threw
  BY <1>2, <1>4 DEF SameBuf, SameCtl, SameIn
<1>7. Safe(t)
  <2>1. Typed(t)
    BY <1>1, <1>3, <1>6 DEF Typed, SameBuf
  <2>2. s.poll.state \notin {"", "opening"}
    BY <1>1 DEF Coherent
  <2>3. Coherent(t)
    BY <1>1, <1>5, <1>6, <2>2 DEF Coherent, SameCtl
  <2>4. t.ready # "closed" => PollOpen(t) /\ WsOpened(t)
    BY <1>1, <1>5, <1>6 DEF Safe, PollOpen, WsOpened, SameCtl
  <2> QED BY <2>1, <2>3, <2>4 DEF Safe, Basic
<1>8. Base(t, r) /\ Written(t) = Written(s) /\ t.posted = <<>>
  BY <1>1, <1>4, <1>5, <1>6, <1>7, PostOver
<1>9. Awaits(t)
  BY <1>1, <1>6, <1>8 DEF Awaits, SameBuf, SameCtl, Closed
<1>10. Typed(t) /\ Mode(t)
  BY <1>8 DEF Base, Safe, Basic
<1>11. Good(d, r) /\ Kept(t, d) /\ (~ Closed(d) /\ d.poll.waits # {} => d.poll.writable)
  <2>1. CASE t.poll.heard
    <3>1. ~ Closed(t)
      BY <1>10, <2>1 DEF Mode
    <3> QED BY <1>5, <1>8, <1>9, <2>1, <3>1, OnDrainGood
  <2>2. CASE ~ t.poll.heard
    <3>1. Closed(s) \/ s.transport = "websocket"
      BY <1>1, <1>5, <2>2 DEF Safe, PollOpen, Closed
    <3>2. Ready(t)
      BY <1>1, <1>6, <3>1 DEF Ready, Writable, SameBuf, SameCtl, Closed
    <3> QED BY <1>5, <1>8, <1>9, <1>10, <2>2, <3>2, KeptItself DEF Good
  <2> QED BY <2>1, <2>2
<1> HIDE DEF d
<1>12. Good(w, r) /\ Kept(d, w)
  BY <1>11, WaitOverGood
<1> HIDE DEF w
<1>13. Kept(t, w)
  <2>1. Typed(d) /\ Typed(w)
    BY <1>11, <1>12 DEF Good, Base, Safe, Basic
  <2> QED BY <1>10, <1>11, <1>12, <2>1, KeptBoth
<1>14. Moves(s, w)
  BY <1>6, <1>13, MovesOfKept DEF SameBuf, SameCtl, Closed
<1>15. SameIn(s, w)
  BY <1>6, <1>13 DEF Kept, SameIn
<1> QED BY <1>1, <1>12, <1>14, <1>15 DEF InStep, s

\* The WebSocket of a Socket that is closed, or sits on it, changes.
LEMMA WsGood ==
  ASSUME NEW s, NEW t, NEW r \in Seq(UpPacket), Good(s, r), Safe(t),
         SameBuf(s, t), SameCtl(s, t), SameIn(s, t), t.poll = s.poll,
         t.post = s.post, t.posted = s.posted, t.up = s.up,
         t.ws.state = "open" => t.link \in {"up", "down", "closed"},
         s.link \in {"down", "closed"} => t.link \in {"down", "closed"},
         \/ Closed(s)
         \/ s.transport = "websocket" /\ s.link \notin {"down", "closed"} /\ t.link = "up"
            /\ s.prevBufferLen = 0
  PROVE  Good(t, r) /\ Kept(s, t)
<1>1. Words(s) /\ Shape(s) /\ Mode(s) /\ Fine(s) /\ Awaits(s) /\ Typed(s)
      /\ Closed(t) = Closed(s)
  BY DEF Good, Base, Safe, Basic, SameCtl, Closed
<1>2. Shape(t)
  <2>1. t.transport = "polling" => \A i \in 1 .. Len(t.up) : t.up[i].type = "probe"
    BY <1>1 DEF Shape, SameCtl
  <2>2. t.transport = s.transport /\ t.jsonp = s.jsonp /\ t.probe = s.probe /\ t.bye = s.bye
    BY DEF SameCtl
  <2> QED BY <1>1, <2>1, <2>2 DEF Shape, Probing
<1>3. Mode(t)
  BY <1>1 DEF Mode, SameBuf, SameCtl, SameIn, Probing, Closed
<1>4. Fine(t)
  BY <1>1 DEF Fine, SameCtl, SameIn, Closed
<1>5. Words(t) /\ Written(t) = Written(s) /\ Given(t) = Given(s)
  BY <1>1 DEF Words, Written, Given, SameBuf
<1>6. Awaits(t)
  BY <1>1, <1>5 DEF Awaits, SameCtl, SameBuf, Closed
<1>7. Ready(t)
  BY <1>1 DEF Ready, SameBuf, Closed
<1>8. ~ Closed(s) /\ Lost(s) => Lost(t)
  BY <1>1 DEF Lost, Shape, SameCtl
<1>9. ASSUME NEW k \in Nat, Flow(s, r, k), Ended(s, r, k)
      PROVE  Flow(t, r, k) /\ Ended(t, r, k)
  BY <1>1, <1>5, <1>8, <1>9, FlowCarried DEF SameBuf, SameCtl
<1>10. PICK k \in Nat : Flow(s, r, k) /\ Ended(s, r, k)
  BY DEF Good, Base
<1>11. Connection!Begins(s.sent, t.sent)
  BY <1>1, FlowTypes, BeginsItself DEF SameBuf
<1>12. Kept(s, t)
  BY <1>1, <1>11 DEF Kept, SameCtl, SameBuf
<1> QED BY <1>2, <1>3, <1>4, <1>5, <1>6, <1>7, <1>9, <1>10, <1>12 DEF Good, Base

\* The WebSocket opens: as the transport, or as the probe.
LEMMA WsOpensGood ==
  ASSUME NEW r \in Seq(UpPacket), Good(c, r), Safe(c'), WsOpens
  PROVE  Good(c', r) /\ Moves(c, c') /\ InStep(c, c')
<1> DEFINE s == c
           t == [s EXCEPT !.link = "up", !.ws.state = "open", !.ws.writable = TRUE]
           w == WsWrite(t, <<Packet("probe")>>)
           f == [w EXCEPT !.probe = "pinged"]
<1>1. /\ s \in Client /\ Typed(s) /\ Good(s, r) /\ Fine(s) /\ Mode(s) /\ Shape(s) /\ Coherent(s)
      /\ s.link = "accepted" /\ s.transport \in {"polling", "websocket"} /\ s.up \in Seq(UpPacket)
  BY DEF WsOpens, Good, Base, Safe, Basic, Typed, Client
<1>2. Safe(c')
  OBVIOUS
<1>3. (t.probe = "opening" => c' = f) /\ (t.probe # "opening" => c' = t)
  BY DEF WsOpens
<1> HIDE DEF s
<1>4. ~ s.jsonp
  BY <1>1 DEF Coherent
<1>5. t \in Client
  BY <1>1 DEF Client, WS
<1>6. /\ SameBuf(s, t) /\ SameCtl(s, t) /\ SameIn(s, t) /\ t.poll = s.poll
      /\ t.post = s.post /\ t.posted = s.posted /\ t.up = s.up
      /\ t.link = "up" /\ t.ws.state = "open"
  BY <1>1 DEF Client, WS, SameBuf, SameCtl, SameIn
<1> HIDE DEF t
<1>7. w \in Client
  <2>1. <<Packet("probe")>> \in Seq(UpPacket)
    BY UpPackets
  <2> DEFINE ps == <<Packet("probe")>>
  <2> HIDE DEF ps
  <2>2. ps \in Seq(UpPacket) /\ t.up \in Seq(UpPacket) /\ t.ws \in WS
    BY <1>5, <2>1 DEF Client, ps
  <2>3. (IF t.link = "up" THEN t.up \o ps ELSE t.up) \in Seq(UpPacket)
    BY <2>2
  <2>4. t.ws.drains \in Nat
    BY <2>2 DEF WS
  <2>5. t.ws.drains + 1 \in Nat
    BY <2>4
  <2>6. WsWrite(t, ps) \in Client
    BY <1>5, <2>3, <2>5 DEF Client, WS, WsWrite
  <2> QED BY <2>6 DEF ps
<1>8. /\ SameBuf(t, w) /\ SameCtl(t, w) /\ SameIn(t, w) /\ w.poll = t.poll
      /\ w.post = t.post /\ w.posted = t.posted
      /\ w.link = "up" /\ w.ws.state = "open" /\ w.up = t.up \o <<Packet("probe")>>
  BY <1>5, <1>6 DEF WsWrite, Client, WS, SameBuf, SameCtl, SameIn
<1> HIDE DEF w
<1>9. /\ SameBuf(w, f) /\ SameIn(w, f) /\ f.poll = w.poll
      /\ f.post = w.post /\ f.posted = w.posted /\ f.link = w.link /\ f.ws = w.ws /\ f.up = w.up
      /\ f.ready = w.ready /\ f.closing = w.closing /\ f.upgrading = w.upgrading
      /\ f.bye = w.bye /\ f.opened = w.opened /\ f.failed = w.failed /\ f.jsonp = w.jsonp
      /\ f.transport = w.transport
  BY <1>7 DEF Client, SameBuf, SameIn
<1> HIDE DEF f
<1>10. CASE Closed(s) \/ s.transport = "websocket"
  <2>1. c' = t
    BY <1>1, <1>3, <1>6, <1>10 DEF Mode, Shape, SameCtl, Probing, Closed
  <2>2. Closed(s) \/ s.prevBufferLen = 0
    BY <1>1, <1>10 DEF Mode
  <2>3. Good(t, r) /\ Kept(s, t)
    BY <1>2, <1>1, <1>3, <1>6, <1>10, <2>1, <2>2, WsGood
  <2>4. Moves(s, t) /\ InStep(s, t)
    BY <1>6, <2>3, MovesOfKept DEF InStep
  <2> QED BY <2>1, <2>3, <2>4 DEF s
<1>11. CASE ~ Closed(s) /\ s.transport = "polling"
  <2>1. SideOnly(s, t)
    BY <1>6 DEF SideOnly, SameCtl, SameBuf, SameIn
  <2>2. SideOnly(s, f)
    BY <1>6, <1>8, <1>9 DEF SideOnly, SameCtl, SameBuf, SameIn
  <2>3. \A i \in 1 .. Len(t.up) : t.up[i].type = "probe"
    BY <1>1, <1>6, <1>11 DEF Shape
  <2>4. \A i \in 1 .. Len(f.up) : f.up[i].type = "probe"
    <3> DEFINE v == s.up
               p == Packet("probe")
    <3>1. f.up = v \o <<p>> /\ v \in Seq(UpPacket) /\ p \in UpPacket /\ p.type = "probe"
      BY <1>1, <1>6, <1>8, <1>9, UpPackets DEF Packet, Control
    <3>2. \A i \in 1 .. Len(v) : v[i].type = "probe"
      BY <1>1, <1>11 DEF Shape
    <3> HIDE DEF v, p
    <3>3. f.up = Append(v, p)
      BY <3>1, AppendProperty
    <3>4. /\ Len(f.up) = Len(v) + 1 /\ Len(v) \in Nat
          /\ \A i \in 1 .. Len(v) : f.up[i] = v[i]
          /\ f.up[Len(v) + 1] = p
      BY <3>1, <3>3, AppendProperty
    <3> TAKE i \in 1 .. Len(f.up)
    <3>5. i \in 1 .. Len(v) \/ i = Len(v) + 1
      BY <3>4
    <3> QED BY <3>1, <3>2, <3>4, <3>5
  <2>5. ~ t.jsonp /\ ~ f.jsonp
    BY <1>4, <1>6, <1>8, <1>9 DEF SameCtl
  <2>6. ASSUME NEW u, u \in {t, f}, Safe(u)
        PROVE  Good(u, r) /\ Kept(s, u)
    <3>1. SideOnly(s, u) /\ u.link = "up" /\ ~ u.jsonp
          /\ \A i \in 1 .. Len(u.up) : u.up[i].type = "probe"
      BY <1>6, <1>8, <1>9, <2>1, <2>2, <2>3, <2>4, <2>5, <2>6
    <3>2. Good(u, r)
      BY <1>1, <1>11, <2>6, <3>1, SideGood
    <3>3. u.failed = s.failed
      BY <1>6, <1>8, <1>9, <2>6 DEF SameCtl
    <3>4. Kept(s, u)
      BY <1>1, <1>11, <3>1, <3>3, KeptMost DEF SideOnly, SameBuf
    <3> QED BY <3>2, <3>4
  <2>7. Good(c', r) /\ Kept(s, c')
    BY <1>2, <1>3, <2>6
  <2>8. Moves(s, c')
    BY <1>1, <2>7, MovesOfKept
  <2>9. InStep(s, c')
    BY <2>7 DEF InStep, Kept
  <2> QED BY <2>7, <2>8, <2>9 DEF s
<1> QED BY <1>1, <1>10, <1>11

\* The drain of the WebSocket, a turn of the event loop after its write().
LEMMA WsDrainedGood ==
  ASSUME NEW r \in Seq(UpPacket), Good(c, r), Safe(c'), WsDrained
  PROVE  Good(c', r) /\ Moves(c, c') /\ InStep(c, c')
<1> DEFINE s == c
           t == [s EXCEPT !.ws.drains = @ - 1, !.ws.writable = TRUE]
<1>1. /\ s \in Client /\ Typed(s) /\ Good(s, r) /\ Fine(s) /\ Mode(s) /\ Shape(s) /\ Awaits(s)
      /\ s.transport \in {"polling", "websocket"} /\ s.ws.drains > 0 /\ Words(s) /\ Coherent(s)
      /\ Safe(s) /\ Ready(s)
  BY DEF WsDrained, Good, Base, Safe, Basic, Typed, Client
<1>2. c' = IF t.transport = "websocket" /\ ~ Closed(t) THEN OnDrain(t) ELSE t
  BY DEF WsDrained, Closed
<1> HIDE DEF s
<1>3. t \in Client
  <2>1. s.ws \in WS
    BY <1>1 DEF Client
  <2>2. s.ws.drains \in Nat
    BY <2>1 DEF WS
  <2>3. s.ws.drains - 1 \in Nat
    BY <1>1, <2>2
  <2> QED BY <1>1, <2>1, <2>3 DEF Client, WS
<1>4. /\ SameBuf(s, t) /\ SameNet(s, t) /\ SameCtl(s, t) /\ SameIn(s, t) /\ t.poll = s.poll
      /\ t.threw = s.threw /\ t.ws.state = s.ws.state
  BY <1>1 DEF Client, WS, SameBuf, SameNet, SameCtl, SameIn
<1> HIDE DEF t
<1>5. Safe(t)
  <2>1. Typed(t)
    BY <1>1, <1>3, <1>4 DEF Typed, SameBuf
  <2>2. Coherent(t)
    BY <1>1, <1>4 DEF Coherent, SameNet, SameCtl
  <2>3. t.ready # "closed" => PollOpen(t) /\ WsOpened(t)
    BY <1>1, <1>4 DEF Safe, PollOpen, WsOpened, SameNet, SameCtl
  <2> QED BY <2>1, <2>2, <2>3 DEF Safe, Basic
<1>6. Words(t) /\ Shape(t) /\ Mode(t) /\ Fine(t) /\ Awaits(t)
  <2>1. t.ready = s.ready
    BY <1>4 DEF SameCtl
  <2>2. Words(t) /\ Written(t) = Written(s)
    BY <1>1, <1>4, <2>1, FlowSame
  <2>3. Shape(t)
    BY <1>1, <1>4 DEF Shape, SameNet, SameCtl, Probing, Closed
  <2>4. Mode(t)
    BY <1>1, <1>4 DEF Mode, SameNet, SameCtl, SameBuf, SameIn, Probing, Closed
  <2>5. Fine(t)
    BY <1>1, <1>4 DEF Fine, SameNet, SameCtl, SameIn, Closed
  <2>6. Awaits(t)
    BY <1>1, <1>4, <2>2 DEF Awaits, SameCtl, SameBuf, SameNet, Closed
  <2> QED BY <2>2, <2>3, <2>4, <2>5, <2>6
<1>7. Base(t, r)
  <2>1. PICK k \in Nat : Flow(s, r, k) /\ Ended(s, r, k)
    BY <1>1 DEF Good, Base
  <2>2. Flow(t, r, k) /\ Ended(t, r, k)
    BY <1>4, <2>1, FlowSame DEF SameCtl
  <2> QED BY <1>5, <1>6, <2>2 DEF Base
<1>8. Good(c', r) /\ Kept(t, c')
  <2>1. CASE t.transport = "websocket" /\ ~ Closed(t)
    <3>1. t.posted = <<>>
      BY <1>6, <2>1 DEF Shape
    <3> QED BY <1>2, <1>6, <1>7, <2>1, <3>1, OnDrainGood
  <2>2. CASE ~ (t.transport = "websocket" /\ ~ Closed(t))
    <3>1. Ready(t)
      BY <1>1, <1>4, <2>2 DEF Ready, Writable, SameCtl, SameBuf, Closed
    <3>2. Kept(t, t)
      BY <1>5, KeptItself DEF Safe, Basic
    <3> QED BY <1>2, <1>6, <1>7, <2>2, <3>1, <3>2 DEF Good
  <2> QED BY <2>1, <2>2
<1>9. Moves(s, c')
  BY <1>4, <1>8, MovesOfKept DEF SameBuf, SameNet, SameCtl, Closed
<1>10. SameIn(s, c')
  BY <1>4, <1>8 DEF Kept, SameIn
<1> QED BY <1>8, <1>9, <1>10 DEF InStep, s

\* onclose of the WebSocket: of the transport, or of the probe.
LEMMA WsLostGood ==
  ASSUME NEW r \in Seq(UpPacket), Good(c, r), Safe(c'), WsLost
  PROVE  Good(c', r) /\ Moves(c, c') /\ InStep(c, c')
<1> DEFINE s == c
           t == [s EXCEPT !.ws.state = "closed"]
<1>1. /\ s \in Client /\ Typed(s) /\ Good(s, r) /\ Fine(s) /\ Mode(s) /\ Shape(s)
      /\ s.transport \in {"polling", "websocket"} /\ Coherent(s) /\ Base(s, r)
      /\ Safe(s) /\ Ready(s) /\ s.link = "down"
  BY DEF WsLost, Good, Base, Safe, Basic, Typed, Client
<1>2. /\ t.transport = "websocket" => c' = OnClose(t)
      /\ t.transport # "websocket" /\ Probing(t) => c' = ProbeError(t)
      /\ t.transport # "websocket" /\ ~ Probing(t) => c' = t
  BY DEF WsLost
<1> HIDE DEF s
<1>3. t \in Client
  BY <1>1 DEF Client, WS
<1>4. /\ SameBuf(s, t) /\ SameNet(s, t) /\ SameCtl(s, t) /\ SameIn(s, t) /\ t.poll = s.poll
      /\ t.threw = s.threw /\ t.ws.state = "closed"
  BY <1>1 DEF Client, WS, SameBuf, SameNet, SameCtl, SameIn
<1> HIDE DEF t
<1>5. Basic(t)
  <2>1. Typed(t)
    BY <1>1, <1>3, <1>4 DEF Typed, SameBuf
  <2>2. Coherent(t)
    BY <1>1, <1>4 DEF Coherent, SameNet, SameCtl
  <2> QED BY <2>1, <2>2 DEF Basic
<1>6. CASE Closed(s)
  <2>1. c' = t
    <3>1. OnClose(t) = t
      BY <1>4, <1>6 DEF OnClose, SameCtl, Closed
    <3>2. ~ Probing(t)
      BY <1>1, <1>4, <1>6 DEF Mode, SameCtl, Probing
    <3> QED BY <1>2, <3>1, <3>2
  <2>2. Good(t, r) /\ Kept(s, t)
    BY <1>1, <1>4, <1>6, <2>1, WsGood DEF SameNet
  <2> QED BY <1>1, <2>1, <2>2, MovesOfKept DEF InStep, Kept, s
<1>7. CASE ~ Closed(s)
  <2>1. s.failed /\ ~ Closed(t)
    BY <1>1, <1>4, <1>7 DEF Fine, SameCtl, Closed
  <2>2. CASE t.transport = "websocket"
    <3> DEFINE f == OnClose(t)
    <3>1. Ceases(t, f)
      BY <1>5, <2>1, OnCloseCeases
    <3> HIDE DEF f
    <3>2. SameIn(s, f)
      BY <1>4, <3>1 DEF Ceases, SameIn
    <3>3. f.link \in {"down", "closed"} /\ f.ws.state = "closed"
      BY <1>1, <1>4, <3>1 DEF Ceases, SameNet
    <3>4. Ceases(s, f)
      BY <1>4, <3>1, <3>2, <3>3 DEF Ceases, SameBuf, SameNet, SameCtl
    <3>5. Good(f, r) /\ Kept(s, f)
      BY <1>1, <1>7, <2>1, <3>4, Ceased DEF Paid
    <3> QED BY <1>1, <1>2, <2>2, <3>5, MovesOfKept DEF InStep, Kept, s, f
  <2>3. SideOnly(s, t) /\ (t.transport # "websocket" => s.transport = "polling")
    BY <1>1, <1>4 DEF SideOnly, SameNet, SameCtl
  <2>4. CASE t.transport # "websocket" /\ Probing(t)
    <3>1. t.up = s.up /\ t.failed = s.failed /\ t.probe = s.probe
      BY <1>4 DEF SameNet, SameCtl
    <3>2. Good(ProbeError(t), r) /\ Kept(s, ProbeError(t))
      BY <1>1, <1>4, <1>5, <1>7, <2>1, <2>3, <2>4, <3>1, ProbeErrorGood
    <3> QED BY <1>1, <1>2, <2>4, <3>2, MovesOfKept DEF InStep, Kept, s
  <2>5. CASE t.transport # "websocket" /\ ~ Probing(t)
    <3>1. c' = t
      BY <1>2, <2>5
    <3>2. /\ \A i \in 1 .. Len(t.up) : t.up[i].type = "probe"
          /\ t.jsonp => t.probe \notin {"pinged", "ponged"}
          /\ t.failed
      BY <1>1, <1>4, <2>1, <2>3, <2>5 DEF Shape, SameNet, SameCtl
    <3>3. Good(t, r)
      BY <1>1, <1>4, <1>7, <2>3, <2>5, <3>1, <3>2, SideGood
    <3>4. Kept(s, t)
      BY <1>1, <1>4, KeptSame DEF SameBuf, SameNet
    <3> QED BY <1>1, <3>1, <3>3, <3>4, MovesOfKept DEF InStep, Kept, s
  <2> QED BY <2>2, <2>4, <2>5
<1> QED BY <1>6, <1>7

\* The network and the server leave the Socket itself alone, as does a failure.
Touches(s, t) ==
  /\ SameBuf(s, t) /\ t.ready = s.ready /\ t.closing = s.closing /\ t.upgrading = s.upgrading
  /\ t.probe = s.probe /\ t.opened = s.opened /\ t.jsonp = s.jsonp
  /\ t.transport = s.transport /\ t.poll = s.poll /\ t.ws = s.ws
  /\ t.got = s.got
  /\ t.bye => s.bye
  /\ s.failed => t.failed
  /\ \/ t.post = s.post /\ t.posted = s.posted
     \/ s.post \in {"asked", "answered"} /\ t.post \in {"answered", "failed"} /\ t.posted = <<>>
  /\ \/ t.link = s.link \/ t.link = "down"
     \/ s.link = "connecting" /\ t.link = "accepted"

\* The network and the server keep the invariant by keeping the flow.
LEMMA TouchesGood ==
  ASSUME NEW s, NEW t, NEW r \in Seq(UpPacket), NEW r2 \in Seq(UpPacket), NEW k \in Nat,
         Good(s, r), Safe(t), Touches(s, t), Fine(t), Flow(t, r2, k), Ended(t, r2, k),
         t.transport = "polling" => \A i \in 1 .. Len(t.up) : t.up[i].type = "probe"
  PROVE  Good(t, r2)
<1>1. Words(s) /\ Shape(s) /\ Mode(s) /\ Awaits(s) /\ Ready(s)
  BY DEF Good, Base
<1>2. Words(t) /\ Written(t) = Written(s)
  BY <1>1 DEF Words, Written, Touches, SameBuf
<1>3. Shape(t)
  BY <1>1 DEF Shape, Touches, Probing, Closed
<1>4. Mode(t)
  BY <1>1 DEF Mode, Touches, SameBuf, Probing, Closed
<1>5. Awaits(t)
  BY <1>1, <1>2 DEF Awaits, Touches, SameBuf, Closed
<1>6. Ready(t)
  BY <1>1 DEF Ready, Writable, Touches, SameBuf, Closed
<1> QED BY <1>2, <1>3, <1>4, <1>5, <1>6 DEF Good, Base

\* The ping interval: a ping is sent.
LEMMA PingIntervalGood ==
  ASSUME NEW r \in Seq(UpPacket), Good(c, r), PingInterval
  PROVE  Good(c', r) /\ Moves(c, c') /\ InStep(c, c')
<1> DEFINE s == c
           u == SendPacket(s, Packet("ping"))
           t == [u EXCEPT !.pingInterval = FALSE, !.pingTimeout = TRUE]
<1>1. Good(s, r) /\ c' = t
  BY DEF PingInterval
<1> HIDE DEF s
<1>2. Packet("ping") \in UpPacket /\ Packet("ping").type \notin Control
  BY UpPackets DEF Packet, Control
<1>3. Good(u, r) /\ Kept(s, u)
  BY <1>1, <1>2, SendPacketGood
<1> HIDE DEF u
<1>4. u \in Client /\ Typed(u)
  BY <1>3 DEF Good, Base, Safe, Basic, Typed
<1>5. t \in Client /\ SameAll(u, t) /\ SameIn(u, t) /\ SameBuf(u, t)
  <2>1. t \in Client
    BY <1>4 DEF Client
  <2>2. SameBuf(u, t) /\ SameNet(u, t) /\ SameCtl(u, t) /\ SameIn(u, t)
        /\ t.poll = u.poll /\ t.ws = u.ws /\ t.threw = u.threw
    BY <1>4 DEF Client, SameBuf, SameNet, SameCtl, SameIn
  <2> HIDE DEF t
  <2> QED BY <2>1, <2>2 DEF SameAll, SameIn
<1> HIDE DEF t
<1>6. Good(t, r)
  <2>1. Typed(t)
    BY <1>4, <1>5 DEF Typed, SameBuf
  <2> QED BY <1>3, <1>5, <2>1, SameIsGood
<1>7. Moves(s, t)
  <2>1. Moves(s, u)
    BY <1>3, MovesOfKept
  <2> QED BY <1>5, <2>1 DEF Moves, SameAll, SameBuf, SameNet, SameCtl, Closed
<1>8. SameIn(s, t)
  BY <1>3, <1>5 DEF Kept, SameIn
<1> QED BY <1>1, <1>6, <1>7, <1>8 DEF InStep, s

\* The page calls send() or close() of its own.
LEMMA PageGood ==
  ASSUME NEW r \in Seq(UpPacket), Good(c, r), PageWrites \/ PageCloses
  PROVE  Good(c', r) /\ Moves(c, c') /\ InStep(c, c')
<1>1. Typed(c)
  BY DEF Good, Base, Safe, Basic
<1>2. Good(c', r) /\ Kept(c, c')
  <2>1. CASE PageWrites
    <3>1. c' = SendPacket(c, Message(NextMessage(c))) /\ NextMessage(c) <= MaxSent
      BY <2>1 DEF PageWrites
    <3> QED BY <1>1, <3>1, MessageWord, SendPacketGood
  <2>2. CASE PageCloses
    BY <2>2, CloseGood DEF PageCloses
  <2> QED BY <2>1, <2>2
<1> QED BY <1>2, MovesOfKept DEF InStep, Kept

\* The ping timeout: the Socket closes without a word to the server.
LEMMA PingTimeoutGood ==
  ASSUME NEW r \in Seq(UpPacket), Good(c, r), PingTimeout
  PROVE  Good(c', r) /\ Moves(c, c') /\ InStep(c, c')
<1> DEFINE s == c
           t == [s EXCEPT !.pingTimeout = FALSE, !.failed = TRUE]
<1>1. /\ Good(s, r) /\ s \in Client /\ Typed(s) /\ Safe(s) /\ Shape(s)
      /\ s.transport \in {"polling", "websocket"}
  BY DEF Good, Base, Safe, Basic, Typed, Client
<1>2. c' = OnClose(t)
  BY DEF PingTimeout
<1> HIDE DEF s
<1>3. t \in Client
  BY <1>1 DEF Client
<1>4. /\ Touches(s, t) /\ SameIn(s, t) /\ t.failed /\ t.post = s.post /\ t.posted = s.posted
      /\ t.up = s.up /\ t.link = s.link
  BY <1>1 DEF Client, Touches, SameBuf, SameIn
<1>5. t.threw = s.threw
  BY <1>1 DEF Client
<1> HIDE DEF t
<1>6. Safe(t)
  <2>1. Typed(t)
    BY <1>1, <1>3, <1>4 DEF Typed, Touches, SameBuf
  <2>2. SameSafe(s, t)
    BY <1>4, <1>5 DEF SameSafe, Touches
  <2> QED BY <1>1, <2>1, <2>2, SameIsSafe
<1>7. Good(t, r)
  <2>1. PICK k \in Nat : Flow(s, r, k) /\ Ended(s, r, k)
    BY <1>1 DEF Good, Base
  <2>2. Given(t) = Given(s) /\ (Closed(t) <=> Closed(s)) /\ (Lost(s) => Lost(t))
    BY <1>4 DEF Given, Written, Lost, Touches, SameBuf, Closed
  <2>3. Flow(t, r, k) /\ Ended(t, r, k)
    BY <1>4, <2>1, <2>2, FlowCarried DEF Touches, SameBuf
  <2>4. Fine(t)
    BY <1>4 DEF Fine
  <2>5. t.transport = "polling" => \A i \in 1 .. Len(t.up) : t.up[i].type = "probe"
    BY <1>1, <1>4 DEF Shape, Touches
  <2> QED BY <1>1, <1>4, <1>6, <2>3, <2>4, <2>5, TouchesGood
<1> DEFINE f == OnClose(t)
<1>8. Good(f, r) /\ Kept(t, f)
  <2>1. CASE Closed(t)
    <3>1. f = t
      BY <2>1 DEF OnClose, Closed
    <3>2. Kept(t, t)
      BY <1>6, KeptItself DEF Safe, Basic
    <3> QED BY <1>7, <3>1, <3>2
  <2>2. CASE ~ Closed(t)
    <3>1. Ceases(t, f)
      BY <1>6, <2>2, OnCloseCeases DEF Safe
    <3> QED BY <1>4, <1>7, <2>2, <3>1, Ceased DEF Good, Paid
  <2> QED BY <2>1, <2>2
<1> HIDE DEF f
<1>9. Moves(s, f)
  BY <1>4, <1>8, MovesOfKept DEF Touches, SameBuf, Closed
<1>10. SameIn(s, f)
  BY <1>4, <1>8 DEF Kept, SameIn
<1> QED BY <1>2, <1>8, <1>9, <1>10 DEF InStep, s, f

\* A packet over the WebSocket: the transport's, or the probe's pong and with it the pause.
LEMMA WsMessageGood ==
  ASSUME NEW r \in Seq(UpPacket), Good(c, r), NEW act \in Page, WsMessage(act),
         \A i \in 1 .. Len(c.down) : ~ Ending(c.down[i])
  PROVE  Good(c', r) /\ Moves(c, c') /\ InStep(c, c')
<1> DEFINE s == c
           p == Head(s.down)
           t == [s EXCEPT !.down = Tail(@)]
           u == [t EXCEPT !.upgrading = TRUE, !.probe = "ponged"]
<1>1. /\ Good(s, r) /\ s \in Client /\ Typed(s) /\ Safe(s) /\ Shape(s) /\ Mode(s) /\ Fine(s)
      /\ s.transport \in {"polling", "websocket"} /\ Coherent(s)
      /\ s.down # <<>> /\ s.link = "up" /\ s.down \in Seq(DownPacket)
      /\ \A i \in 1 .. Len(s.down) : ~ Ending(s.down[i])
  BY DEF Good, Base, Safe, Basic, Typed, Client, WsMessage
<1>2. \/ c' = OnPacket(t, p, act) /\ t.transport = "websocket"
      \/ c' = Pause(u) /\ t.transport # "websocket" /\ t.probe = "pinged" /\ p.type = "probe"
      \/ c' = t /\ t.transport # "websocket"
  <2>1. CASE t.transport = "websocket"
    BY <2>1 DEF WsMessage
  <2>2. CASE t.transport # "websocket" /\ t.probe = "pinged" /\ p.type = "probe"
    BY <2>2 DEF WsMessage
  <2>3. CASE t.transport # "websocket" /\ ~ (t.probe = "pinged" /\ p.type = "probe")
    BY <2>3 DEF WsMessage
  <2> QED BY <2>1, <2>2, <2>3
<1> HIDE DEF s
<1>3. p \in DownPacket /\ p = s.down[1] /\ Tail(s.down) \in Seq(DownPacket) /\ ~ Ending(p)
  <2>1. Len(s.down) \in Nat /\ 1 <= Len(s.down)
    BY <1>1
  <2>2. 1 \in 1 .. Len(s.down) /\ Head(s.down) = s.down[1] /\ Tail(s.down) \in Seq(DownPacket)
    BY <1>1, <2>1, TakeHead
  <2> QED BY <1>1, <2>2
<1> HIDE DEF p
<1>4. t \in Client
  BY <1>1, <1>3 DEF Client
<1>5. /\ SameBuf(s, t) /\ SameNet(s, t) /\ SameCtl(s, t) /\ t.poll = s.poll /\ t.ws = s.ws
      /\ t.threw = s.threw /\ t.down = Tail(s.down) /\ t.got = s.got
      /\ t.get = s.get /\ t.answer = s.answer /\ t.payload = s.payload /\ t.reading = s.reading
  BY <1>1 DEF Client, SameBuf, SameNet, SameCtl
<1> HIDE DEF t
<1>6. Safe(t) /\ Typed(t)
  <2>1. Typed(t)
    BY <1>1, <1>4, <1>5 DEF Typed, SameBuf
  <2>2. SameSafe(s, t)
    BY <1>5 DEF SameSafe, SameNet, SameCtl
  <2> QED BY <1>1, <2>1, <2>2, SameIsSafe
<1>7. Good(t, r)
  <2>1. Fine(t)
    BY <1>1, <1>5 DEF Fine, SameNet, SameCtl, Closed
  <2> QED BY <1>1, <1>5, <1>6, <2>1, InSame
<1>8. ASSUME NEW f, NEW v, Kept(v, f), SameBuf(t, v), SameNet(t, v),
             Closed(v) <=> Closed(t), v.opened = t.opened
      PROVE  Moves(s, f)
  BY <1>5, <1>8, MovesOfKept DEF SameBuf, SameNet, SameCtl, Closed
<1>9. CASE c' = OnPacket(t, p, act) /\ t.transport = "websocket"
  <2> DEFINE h == Heard(t, p)
             f == OnPacket(t, p, act)
  <2>1. p.type # "error"
    BY <1>3 DEF Ending
  <2>2. Good(f, r) /\ Kept(h, f)
    BY <1>3, <1>7, <2>1, OnPacketGood
  <2>3. /\ SameAll(t, h) /\ h.down = t.down /\ h.reading = t.reading
        /\ h.got = (IF p.type = "message" /\ ~ Closed(t) THEN Append(t.got, p.n) ELSE t.got)
    BY <1>3, <1>7, HeardSame
  <2> HIDE DEF h, f
  <2>4. Moves(s, f)
    BY <1>8, <2>2, <2>3 DEF SameAll, SameCtl, Closed
  <2>5. WsReads(s, f)
    <3>1. f.got = HandsOut(s, p, s.transport = "websocket")
      BY <1>5, <1>9, <2>2, <2>3 DEF HandsOut, Kept, SameIn, SameCtl, Closed
    <3>2. /\ f.down = Tail(s.down) /\ f.reading = s.reading /\ f.payload = s.payload
          /\ f.get = s.get /\ f.answer = s.answer /\ f.poll.polling = s.poll.polling
      BY <1>5, <2>2, <2>3 DEF Kept, SameIn, SameAll
    <3> QED BY <1>1, <3>1, <3>2 DEF WsReads, p
  <2> QED BY <1>9, <2>2, <2>4, <2>5 DEF InStep, s, f
<1>10. ASSUME NEW f, SameIn(t, f), t.transport # "websocket"
       PROVE  WsReads(s, f)
  <2>1. f.got = HandsOut(s, Head(s.down), s.transport = "websocket")
    BY <1>5, <1>10 DEF HandsOut, SameIn, SameCtl
  <2> QED BY <1>1, <1>5, <1>10, <2>1 DEF WsReads, SameIn
<1>11. CASE c' = t /\ t.transport # "websocket"
  <2>1. Kept(t, t)
    BY <1>6, KeptItself
  <2>2. Moves(s, t)
    BY <1>8, <2>1 DEF SameBuf, SameNet
  <2>3. WsReads(s, t)
    BY <1>10, <1>11 DEF SameIn
  <2> QED BY <1>7, <1>11, <2>2, <2>3 DEF InStep, s
<1>12. CASE c' = Pause(u) /\ t.transport # "websocket" /\ t.probe = "pinged"
  <2>1. u \in Client
    BY <1>4 DEF Client
  <2>2. /\ SameBuf(t, u) /\ SameNet(t, u) /\ SameIn(t, u) /\ u.poll = t.poll /\ u.ws = t.ws
        /\ u.bye = t.bye /\ u.ready = t.ready /\ u.closing = t.closing /\ u.opened = t.opened
        /\ u.upgrading = TRUE /\ u.probe = "ponged" /\ u.threw = t.threw
    BY <1>4 DEF Client, SameBuf, SameNet, SameIn
  <2> HIDE DEF u
  <2>3. /\ t.transport = "polling" /\ u.transport = "polling"
        /\ ~ Closed(t) /\ ~ Closed(u) /\ ~ t.jsonp
    BY <1>1, <1>5, <1>12, <2>2 DEF Shape, Mode, SameCtl, SameNet, Probing, Closed
  <2>4. Safe(u)
    <3>1. Typed(u)
      BY <1>6, <2>1, <2>2 DEF Typed, SameBuf
    <3>2. Coherent(u)
      BY <1>6, <2>2 DEF Safe, Basic, Coherent, SameNet
    <3>3. u.ws.state = "open"
      BY <1>1, <1>5, <2>2 DEF Coherent
    <3>4. PollOpen(t)
      BY <1>6, <2>3 DEF Safe, Closed
    <3>5. PollOpen(u) /\ WsOpened(u)
      BY <2>2, <2>3, <3>3, <3>4 DEF PollOpen, WsOpened
    <3> QED BY <3>1, <3>2, <3>5 DEF Safe, Basic
  <2>5. Relabels(t, u)
    BY <2>2, <2>3 DEF Relabels, SameBuf
  <2>6. Base(t, r) /\ Words(t) /\ Awaits(t) /\ Ready(t)
    BY <1>7 DEF Good, Base
  <2>7. u.owed <= Len(u.sent) /\ ~ u.jsonp
    BY <2>2, <2>3, <2>6 DEF Words, SameBuf, SameNet
  <2>8. Base(u, r) /\ Written(u) = Written(t) /\ Ready(u)
    BY <2>3, <2>4, <2>5, <2>6, <2>7, Relabelled
  <2>9. Awaits(u)
    BY <2>2, <2>3, <2>6, <2>8 DEF Awaits, SameBuf, SameNet
  <2>10. Good(Pause(u), r) /\ Kept(u, Pause(u))
    BY <2>2, <2>3, <2>8, <2>9, PauseGood DEF Good
  <2>11. Moves(s, Pause(u))
    BY <1>8, <2>2, <2>3, <2>10
  <2>12. SameIn(t, Pause(u))
    BY <2>2, <2>10 DEF Kept, SameIn
  <2>13. WsReads(s, Pause(u))
    BY <1>10, <1>12, <2>12
  <2> QED BY <1>12, <2>10, <2>11, <2>13 DEF InStep, s
<1> QED BY <1>2, <1>9, <1>11, <1>12

\* What the server has for the Socket ends nothing; the session is over, without a
\* failure, only when the Socket is, and nothing is on its way any more.
Peer(s, v) ==
  /\ \A i \in 1 .. Len(v.out) : v.out[i].type \in {"open", "message", "pong"}
  /\ \A i \in 1 .. Len(s.down) : ~ Ending(s.down[i])
  /\ v.state = "gone" /\ ~ s.failed =>
       Closed(s) /\ s.posted = <<>> /\ \A i \in 1 .. Len(s.up) : s.up[i].type \in Control

FlowInv == Good(c, srv.received) /\ Peer(c, srv)

\* What is on its way is lost, or was nothing.
LEMMA FlowLost ==
  ASSUME NEW s, NEW t, NEW r \in Seq(UpPacket), NEW k, NEW m, Typed(s), Words(s),
         Flow(s, r, k), SameBuf(s, t), t.jsonp = s.jsonp, Mailed(t, m),
         OnWire(t, m) = <<>>, Closed(t) \/ Lost(t)
  PROVE  Flow(t, r, m)
<1> DEFINE o == OnWire(s, k)
           g == Given(s)
<1>1. Given(t) = g
  BY DEF Given, Written, SameBuf
<1>2. o \in Seq(UpPacket) /\ g \in Seq(UpPacket) /\ s.jsonp \in BOOLEAN
  BY WireType, FlowTypes DEF Flow
<1>3. Arrives(~ s.jsonp, r \o o, g)
  BY DEF Flow
<1> HIDE DEF o, g
<1>4. Arrives(~ s.jsonp, r, g)
  BY <1>2, <1>3, ArrivesLess
<1>5. r \o <<>> = r
  OBVIOUS
<1> QED BY <1>1, <1>4, <1>5 DEF Flow

\* What is on its way stays so, with a state of the server that may be over.
LEMMA CarriedGood ==
  ASSUME NEW s, NEW t, NEW r \in Seq(UpPacket), Good(s, r), Safe(t), Touches(s, t), Fine(t),
         t.posted = s.posted, t.up = s.up,
         ~ Closed(s) /\ Lost(s) => Lost(t)
  PROVE  Good(t, r)
<1>1. PICK k \in Nat : Flow(s, r, k) /\ Ended(s, r, k)
  BY DEF Good, Base
<1>2. Given(t) = Given(s) /\ (Closed(t) <=> Closed(s))
  BY DEF Given, Written, Touches, SameBuf, Closed
<1>3. Flow(t, r, k) /\ Ended(t, r, k)
  BY <1>1, <1>2, FlowCarried DEF Touches, SameBuf
<1>4. t.transport = "polling" => \A i \in 1 .. Len(t.up) : t.up[i].type = "probe"
  BY DEF Good, Base, Shape, Touches
<1> QED BY <1>3, <1>4, TouchesGood

\* A POST, or what the WebSocket holds, is lost.
LEMMA LostGood ==
  ASSUME NEW s, NEW t, NEW r \in Seq(UpPacket), Good(s, r), Safe(t), Touches(s, t), Fine(t),
         \/ t.posted = <<>> /\ t.post = "failed" /\ t.link = s.link /\ t.up = s.up
         \/ t.posted = s.posted /\ t.post = s.post /\ t.link = "down" /\ t.up = <<>>,
         ~ Closed(s) => t.failed,
         Closed(s) /\ ~ t.failed =>
           /\ s.posted = <<>> /\ ~ s.failed
           /\ \A i \in 1 .. Len(s.up) : s.up[i].type \in Control
  PROVE  Good(t, r)
<1>1. /\ Typed(s) /\ Words(s) /\ Shape(s) /\ s.transport \in {"polling", "websocket"}
      /\ s.up \in Seq(UpPacket)
  BY DEF Good, Base, Safe, Basic, Typed, Client
<1>2. PICK k \in Nat : Flow(s, r, k) /\ Ended(s, r, k)
  BY DEF Good, Base
<1>3. /\ SameBuf(s, t) /\ t.jsonp = s.jsonp /\ t.transport = s.transport
      /\ Given(t) = Given(s) /\ (Closed(t) <=> Closed(s)) /\ t.owed = s.owed
  BY DEF Given, Written, Touches, SameBuf, Closed
<1>4. t.transport = "polling" => \A i \in 1 .. Len(t.up) : t.up[i].type = "probe"
  <2>1. Len(<<>>) = 0
    OBVIOUS
  <2> QED BY <1>1, <1>3, <2>1 DEF Shape
<1>5. CASE t.posted = <<>> /\ t.post = "failed" /\ t.link = s.link /\ t.up = s.up
  <2>1. CASE s.transport = "polling"
    <3>1. Mailed(t, k) /\ OnWire(t, k) = <<>> /\ OnWire(s, k) = s.posted
      BY <1>3, <1>5, <2>1 DEF Mailed, OnWire
    <3>2. Closed(t) \/ Lost(t)
      BY <1>3, <1>5, <2>1 DEF Lost
    <3>3. Flow(t, r, k)
      BY <1>1, <1>2, <1>3, <3>1, <3>2, FlowLost
    <3>4. Ended(t, r, k)
      BY <1>2, <1>3, <1>5, <3>1 DEF Ended
    <3> QED BY <1>4, <3>3, <3>4, TouchesGood
  <2>2. CASE s.transport = "websocket"
    <3>1. t.posted = s.posted /\ (Lost(s) => Lost(t))
      BY <1>1, <1>3, <1>5, <2>2 DEF Shape, Lost
    <3> QED BY <1>5, <3>1, CarriedGood
  <2> QED BY <1>1, <2>1, <2>2
<1>6. CASE t.posted = s.posted /\ t.post = s.post /\ t.link = "down" /\ t.up = <<>>
  <2>1. CASE s.transport = "polling"
    <3>1. OnWire(t, k) = OnWire(s, k) /\ Mailed(t, k)
      BY <1>3, <1>6, <2>1 DEF Mailed, OnWire
    <3>2. Lost(s) => Lost(t)
      BY <1>3, <1>6, <2>1 DEF Lost, Touches
    <3>3. Flow(t, r, k) /\ Ended(t, r, k)
      BY <1>2, <1>3, <1>6, <3>1, <3>2 DEF Flow, Ended, Touches
    <3> QED BY <1>4, <3>3, TouchesGood
  <2>2. CASE s.transport = "websocket"
    <3>1. Mailed(t, 0) /\ OnWire(t, 0) = <<>>
      <4>1. t.up = <<>> /\ Len(<<>>) = 0 /\ SubSeq(<<>>, 0 + 1, 0) = <<>> /\ 0 \in 0 .. 0
        BY <1>6
      <4> QED BY <1>3, <2>2, <4>1 DEF Mailed, OnWire
    <3>2. Closed(t) \/ Lost(t)
      BY <1>1, <1>3, <1>6, <2>2 DEF Lost, Shape
    <3>3. Flow(t, r, 0)
      BY <1>1, <1>2, <1>3, <3>1, <3>2, FlowLost
    <3>4. Ended(t, r, 0)
      <4> SUFFICES ASSUME Closed(t), ~ t.failed
                   PROVE  t.posted = <<>> /\ Len(r) + Len(OnWire(t, 0)) >= t.owed
        BY DEF Ended
      <4>1. /\ Closed(s) /\ ~ s.failed /\ s.posted = <<>>
            /\ \A i \in 1 .. Len(s.up) : s.up[i].type \in Control
        BY <1>3
      <4>2. k = Len(s.up)
        <5>1. /\ k \in 0 .. Len(s.up) /\ Len(s.up) \in Nat
              /\ \A i \in k + 1 .. Len(s.up) : s.up[i].type \notin Control
          BY <1>1, <1>2, <2>2 DEF Flow, Mailed
        <5>2. Len(s.up) \in k + 1 .. Len(s.up) => Len(s.up) \notin 1 .. Len(s.up)
          BY <4>1, <5>1
        <5> QED BY <5>1, <5>2
      <4>3. OnWire(s, k) = <<>>
        BY <1>1, <2>2, <4>2, NothingBehind DEF OnWire
      <4> QED BY <1>2, <1>3, <1>6, <3>1, <4>1, <4>3 DEF Ended
    <3> QED BY <1>4, <3>3, <3>4, TouchesGood
  <2> QED BY <1>1, <2>1, <2>2
<1> QED BY <1>5, <1>6

\* What the server and the network do to the whole.
Outside(s, t, v, w) ==
  /\ Touches(s, t)
  /\ Connection!Begins(v.received, w.received) /\ v.served <= w.served

\* Length and elements of a concatenation.
LEMMA JoinedElements ==
  ASSUME NEW S, NEW a \in Seq(S), NEW b \in Seq(S), NEW d, d = a \o b
  PROVE  /\ Len(d) = Len(a) + Len(b) /\ Len(a) \in Nat
         /\ \A i \in 1 .. Len(a) : d[i] = a[i]
         /\ \A i \in 1 .. Len(b) : d[Len(a) + i] = b[i]
OBVIOUS

\* What the server makes of the packets it reads: it keeps them, and answers each ping.
LEMMA TakeDoes ==
  ASSUME srv \in Server, NEW ps \in Seq(UpPacket),
         \A i \in 1 .. Len(srv.out) : srv.out[i].type \in {"open", "message", "pong"}
  PROVE  LET w == Take(ps) IN
         /\ w.received = srv.received \o ps /\ w.received \in Seq(UpPacket)
         /\ w.state = srv.state /\ w.on = srv.on /\ w.served = srv.served
         /\ w.probed = srv.probed
         /\ \A i \in 1 .. Len(w.out) : w.out[i].type \in {"open", "message", "pong"}
         /\ \E q \in Seq(DownPacket) : /\ w.out = srv.out \o q
                                       /\ \A i \in 1 .. Len(q) : q[i] = Packet("pong")
<1> DEFINE D == {i \in DOMAIN ps : ps[i].type = "ping"}
           pings == Cardinality(D)
           pongs == [i \in 1 .. pings |-> Packet("pong")]
           o == srv.out
           w == [srv EXCEPT !.received = @ \o ps, !.out = @ \o pongs]
<1>1. DOMAIN ps = 1 .. Len(ps) /\ Len(ps) \in Nat
  OBVIOUS
<1>2. IsFiniteSet(1 .. Len(ps)) /\ D \subseteq 1 .. Len(ps)
  BY <1>1, FS_Interval
<1>3. pings \in Nat
  BY <1>2, FS_Subset, FS_CardinalityType
<1>4. Take(ps) = w
  BY DEF Take
<1> HIDE DEF pings
<1>5. /\ pongs \in Seq(DownPacket) /\ Len(pongs) = pings
      /\ \A i \in 1 .. pings : pongs[i] = Packet("pong")
  BY <1>3, DownPackets
<1>6. srv.received \in Seq(UpPacket) /\ o \in Seq(DownPacket)
  BY DEF Server
<1> HIDE DEF pongs
<1>7. /\ w.received = srv.received \o ps /\ w.state = srv.state /\ w.on = srv.on
      /\ w.served = srv.served /\ w.probed = srv.probed /\ w.out = o \o pongs
  BY DEF Server
<1> HIDE DEF w
<1>8. w.received \in Seq(UpPacket)
  BY <1>6, <1>7
<1>9. \A i \in 1 .. Len(w.out) : w.out[i].type \in {"open", "message", "pong"}
  <2>1. \A i \in 1 .. Len(o) : o[i].type \in {"open", "message", "pong"}
    OBVIOUS
  <2> HIDE DEF o
  <2>2. Len(pongs) = pings /\ pongs \in Seq(DownPacket) /\ o \in Seq(DownPacket)
        /\ w.out = o \o pongs
    BY <1>5, <1>6, <1>7 DEF o
  <2>3. /\ Len(w.out) = Len(o) + Len(pongs) /\ Len(o) \in Nat
        /\ \A i \in 1 .. Len(o) : w.out[i] = o[i]
        /\ \A i \in 1 .. Len(pongs) : w.out[Len(o) + i] = pongs[i]
    <3> HIDE DEF o, D
    <3> QED BY <2>2, JoinedElements
  <2>4. /\ Len(w.out) = Len(o) + pings /\ Len(o) \in Nat
        /\ \A i \in 1 .. Len(o) : w.out[i] = o[i]
        /\ \A i \in 1 .. pings : w.out[Len(o) + i] = Packet("pong")
    BY <1>5, <2>2, <2>3
  <2> TAKE i \in 1 .. Len(w.out)
  <2>5. i \in 1 .. Len(o) \/ i - Len(o) \in 1 .. pings
    BY <1>3, <2>4
  <2>6. CASE i \in 1 .. Len(o)
    BY <2>1, <2>4, <2>6
  <2>7. CASE i - Len(o) \in 1 .. pings
    <3>1. w.out[Len(o) + (i - Len(o))] = Packet("pong") /\ Len(o) + (i - Len(o)) = i
      BY <2>4, <2>7
    <3> QED BY <3>1 DEF Packet
  <2> QED BY <2>5, <2>6, <2>7
<1> QED BY <1>4, <1>5, <1>7, <1>8, <1>9 DEF o

\* A sequence begins itself, and whatever goes on after it.
LEMMA BeginsMore ==
  ASSUME NEW S, NEW u \in Seq(S), NEW v \in Seq(S)
  PROVE  Connection!Begins(u, u \o v) /\ Connection!Begins(u, u)
<1> DEFINE w == u \o v
<1>1. /\ w \in Seq(S) /\ Len(w) = Len(u) + Len(v) /\ Len(u) \in Nat /\ Len(v) \in Nat
      /\ \A i \in 1 .. Len(u) : w[i] = u[i]
  OBVIOUS
<1> HIDE DEF w
<1>2. Len(u) <= Len(w) /\ Len(u) \in 0 .. Len(w)
  BY <1>1
<1>3. /\ SubSeq(w, 1, Len(u)) \in Seq(S) /\ Len(SubSeq(w, 1, Len(u))) = Len(u)
      /\ \A i \in 1 .. Len(u) : SubSeq(w, 1, Len(u))[i] = w[i]
  BY <1>1, <1>2
<1>4. u = SubSeq(w, 1, Len(u))
  BY <1>1, <1>3, SeqEqual
<1> QED BY <1>2, <1>4, BeginsItself DEF Connection!Begins, w

\* The server accepts the handshake, or the probing WebSocket.
LEMMA AcceptGood ==
  ASSUME SafeInv, SafeInv', FlowInv, Accept \/ AcceptProbe
  PROVE  FlowInv' /\ Outside(c, c', srv, srv')
<1>1. /\ c \in Client /\ srv \in Server /\ srv.received \in Seq(UpPacket) /\ Safe(c')
      /\ srv.served \in Nat /\ Good(c, srv.received) /\ Peer(c, srv) /\ Fine(c) /\ Shape(c)
  BY DEF SafeInv, Safe, Basic, Typed, Server, FlowInv, Good, Base
<1>2. /\ srv'.received = srv.received /\ srv'.served = srv.served /\ srv'.state = "open"
      /\ srv'.out = srv.out \/ srv'.out = <<Packet("open")>>
  BY <1>1 DEF Accept, AcceptProbe, Server
<1>3. \/ UNCHANGED c
      \/ c.link = "connecting" /\ c' = [c EXCEPT !.link = "accepted"]
  BY DEF Accept, AcceptProbe
<1>4. /\ Touches(c, c') /\ c'.posted = c.posted /\ c'.up = c.up /\ c'.post = c.post
      /\ c'.failed = c.failed /\ c'.get = c.get /\ c'.answer = c.answer
      /\ c'.payload = c.payload /\ c'.down = c.down
      /\ c'.link = c.link \/ (c.link = "connecting" /\ c'.link = "accepted")
  <2>1. CASE UNCHANGED c
    BY <2>1 DEF Touches, SameBuf
  <2>2. CASE c.link = "connecting" /\ c' = [c EXCEPT !.link = "accepted"]
    BY <1>1, <2>2 DEF Touches, SameBuf, Client
  <2> QED BY <1>3, <2>1, <2>2
<1>5. Fine(c')
  BY <1>1, <1>4 DEF Fine, Touches, Closed
<1>6. ~ Closed(c) /\ Lost(c) => Lost(c')
  BY <1>4 DEF Lost, Touches
<1>7. Good(c', srv.received)
  BY <1>1, <1>4, <1>5, <1>6, CarriedGood
<1>8. Peer(c', srv')
  <2>1. \A i \in 1 .. Len(srv'.out) : srv'.out[i].type \in {"open", "message", "pong"}
    <3>1. CASE srv'.out = srv.out
      BY <1>1, <3>1 DEF Peer
    <3>2. CASE srv'.out = <<Packet("open")>>
      BY <3>2 DEF Packet
    <3> QED BY <1>2, <3>1, <3>2
  <2> QED BY <1>1, <1>2, <1>4, <2>1 DEF Peer
<1>9. Outside(c, c', srv, srv')
  BY <1>1, <1>2, <1>4, BeginsMore DEF Outside
<1> QED BY <1>2, <1>7, <1>8, <1>9 DEF FlowInv

\* The server has a message for the Socket.
LEMMA ServeGood ==
  ASSUME SafeInv, SafeInv', FlowInv, Serve
  PROVE  FlowInv' /\ Outside(c, c', srv, srv')
<1> DEFINE o == srv.out
<1>1. /\ srv \in Server /\ srv.received \in Seq(UpPacket) /\ o \in Seq(DownPacket)
      /\ srv.served \in Nat /\ Good(c, srv.received) /\ Peer(c, srv)
  BY DEF SafeInv, Server, FlowInv
<1> DEFINE p == Message(srv.served + 1)
<1>2. /\ srv'.received = srv.received /\ srv'.served = srv.served + 1 /\ srv'.state = "open"
      /\ srv'.out = Append(o, p) /\ UNCHANGED c
  BY <1>1 DEF Serve, Server
<1>3. p \in DownPacket /\ p.type = "message"
  <2>1. srv.served < MaxServed
    BY DEF Serve
  <2>2. srv.served \in Nat /\ MaxServed \in Nat
    BY <1>1, BoundsAssumption
  <2>3. srv.served + 1 \in 1 .. MaxServed
    BY <2>1, <2>2
  <2> QED BY <2>3, DownPackets DEF Message
<1>4. \A i \in 1 .. Len(o) : o[i].type \in {"open", "message", "pong"}
  BY <1>1 DEF Peer
<1> HIDE DEF p, o
<1>5. /\ Len(srv'.out) = Len(o) + 1 /\ Len(o) \in Nat /\ srv'.out[Len(o) + 1] = p
      /\ \A i \in 1 .. Len(o) : srv'.out[i] = o[i]
  BY <1>1, <1>2, <1>3, AppendProperty
<1>6. \A i \in 1 .. Len(srv'.out) : srv'.out[i].type \in {"open", "message", "pong"}
  <2> TAKE i \in 1 .. Len(srv'.out)
  <2>1. i \in 1 .. Len(o) \/ i = Len(o) + 1
    BY <1>5
  <2> QED BY <1>3, <1>4, <1>5, <2>1
<1>7. Peer(c', srv')
  BY <1>1, <1>2, <1>6 DEF Peer
<1>8. Outside(c, c', srv, srv')
  <2>1. srv.served <= srv.served + 1
    BY <1>1
  <2> QED BY <1>1, <1>2, <2>1, BeginsMore DEF Outside, Touches, SameBuf
<1> QED BY <1>1, <1>2, <1>7, <1>8 DEF FlowInv

\* The server answers a poll.
LEMMA AnswerGood ==
  ASSUME SafeInv, SafeInv', FlowInv, Answer
  PROVE  FlowInv' /\ Outside(c, c', srv, srv')
<1> DEFINE a == IF srv.out = <<>> THEN <<Packet("noop")>> ELSE srv.out
<1>1. /\ c \in Client /\ srv \in Server /\ srv.received \in Seq(UpPacket) /\ Safe(c')
      /\ srv.served \in Nat /\ Good(c, srv.received) /\ Peer(c, srv) /\ Fine(c) /\ Shape(c)
  BY DEF SafeInv, Safe, Basic, Typed, Server, FlowInv, Good, Base
<1>2. /\ srv'.received = srv.received /\ srv'.served = srv.served /\ srv'.out = <<>>
      /\ srv'.state = srv.state /\ c' = [c EXCEPT !.get = "answered", !.answer = a]
  BY <1>1 DEF Answer, Server
<1>3. \A i \in 1 .. Len(a) : ~ Ending(a[i])
  <2>1. CASE srv.out = <<>>
    BY <2>1 DEF Packet, Ending
  <2>2. CASE srv.out # <<>>
    BY <1>1, <2>2 DEF Peer, Ending
  <2> QED BY <2>1, <2>2
<1> HIDE DEF a
<1>4. /\ Touches(c, c') /\ c'.posted = c.posted /\ c'.up = c.up /\ c'.post = c.post
      /\ c'.link = c.link /\ c'.failed = c.failed /\ c'.get = "answered" /\ c'.answer = a
      /\ c'.payload = c.payload /\ c'.down = c.down
  BY <1>1, <1>2 DEF Touches, SameBuf, Client
<1>5. Fine(c')
  BY <1>1, <1>3, <1>4 DEF Fine, Touches, Closed
<1>6. ~ Closed(c) /\ Lost(c) => Lost(c')
  BY <1>4 DEF Lost, Touches
<1>7. Good(c', srv.received)
  BY <1>1, <1>4, <1>5, <1>6, CarriedGood
<1>8. Peer(c', srv')
  <2>1. \A i \in 1 .. Len(srv'.out) : srv'.out[i].type \in {"open", "message", "pong"}
    BY <1>2
  <2> QED BY <1>1, <1>2, <1>4, <2>1 DEF Peer, Touches, Closed
<1>9. Outside(c, c', srv, srv')
  BY <1>1, <1>2, <1>4, BeginsMore DEF Outside
<1> QED BY <1>2, <1>7, <1>8, <1>9 DEF FlowInv

\* A close packet, and a closed WebSocket that has been emptied.
LEMMA ByeGood ==
  ASSUME SafeInv, SafeInv', FlowInv, ReadBye \/ SeesWsClosed
  PROVE  FlowInv' /\ Outside(c, c', srv, srv')
<1>1. /\ c \in Client /\ srv \in Server /\ srv.received \in Seq(UpPacket) /\ Safe(c')
      /\ srv.served \in Nat /\ Good(c, srv.received) /\ Peer(c, srv) /\ Fine(c) /\ Shape(c)
  BY DEF SafeInv, Safe, Basic, Typed, Server, FlowInv, Good, Base
<1>2. /\ srv'.received = srv.received /\ srv'.served = srv.served /\ srv'.out = srv.out
  BY <1>1 DEF ReadBye, SeesWsClosed, Server
<1>3. /\ Touches(c, c') /\ c'.posted = c.posted /\ c'.up = c.up /\ c'.post = c.post
      /\ c'.failed = c.failed /\ c'.get = c.get /\ c'.answer = c.answer
      /\ c'.payload = c.payload /\ c'.down = c.down /\ c'.link = c.link
  <2>1. CASE ReadBye
    BY <1>1, <2>1 DEF ReadBye, Touches, SameBuf, Client
  <2>2. CASE SeesWsClosed
    BY <2>2 DEF SeesWsClosed, Touches, SameBuf
  <2> QED BY <2>1, <2>2
<1>4. Fine(c')
  BY <1>1, <1>3 DEF Fine, Touches, Closed
<1>5. ~ Closed(c) /\ Lost(c) => Lost(c')
  BY <1>3 DEF Lost, Touches
<1>6. Good(c', srv.received)
  BY <1>1, <1>3, <1>4, <1>5, CarriedGood
<1>7. ~ c.failed =>
        Closed(c) /\ c.posted = <<>> /\ \A i \in 1 .. Len(c.up) : c.up[i].type \in Control
  <2> SUFFICES ASSUME ~ c.failed
               PROVE  /\ Closed(c) /\ c.posted = <<>>
                      /\ \A i \in 1 .. Len(c.up) : c.up[i].type \in Control
    OBVIOUS
  <2>1. Closed(c)
    BY <1>1 DEF ReadBye, SeesWsClosed, Shape, Fine
  <2>2. c.posted = <<>>
    <3>1. PICK k \in Nat : Ended(c, srv.received, k)
      BY <1>1 DEF Good, Base
    <3> QED BY <2>1, <3>1 DEF Ended
  <2>3. \A i \in 1 .. Len(c.up) : c.up[i].type \in Control
    <3>1. CASE ReadBye
      BY <1>1, <3>1 DEF ReadBye, Shape, Control
    <3>2. CASE SeesWsClosed
      BY <3>2 DEF SeesWsClosed
    <3> QED BY <3>1, <3>2
  <2> QED BY <2>1, <2>2, <2>3
<1>8. Peer(c', srv')
  BY <1>1, <1>2, <1>3, <1>7 DEF Peer, Touches, Closed
<1>9. Outside(c, c', srv, srv')
  BY <1>1, <1>2, <1>3, BeginsMore DEF Outside
<1> QED BY <1>2, <1>6, <1>8, <1>9 DEF FlowInv

\* The server sends what it has over the WebSocket.
LEMMA PushGood ==
  ASSUME SafeInv, SafeInv', FlowInv, PushWs
  PROVE  FlowInv' /\ Outside(c, c', srv, srv')
<1> DEFINE o == srv.out
           d == c.down
<1>1. /\ c \in Client /\ srv \in Server /\ srv.received \in Seq(UpPacket) /\ Safe(c')
      /\ srv.served \in Nat /\ Good(c, srv.received) /\ Peer(c, srv) /\ Fine(c) /\ Shape(c)
      /\ o \in Seq(DownPacket) /\ d \in Seq(DownPacket)
  BY DEF SafeInv, Safe, Basic, Typed, Server, Client, FlowInv, Good, Base
<1>2. /\ srv'.received = srv.received /\ srv'.served = srv.served /\ srv'.out = <<>>
      /\ srv'.state = srv.state /\ c' = [c EXCEPT !.down = d \o o]
  BY <1>1 DEF PushWs, Server
<1>3. /\ \A i \in 1 .. Len(d) : ~ Ending(d[i])
      /\ \A i \in 1 .. Len(o) : ~ Ending(o[i])
  BY <1>1 DEF Peer, Ending
<1> HIDE DEF d, o
<1>4. /\ Touches(c, c') /\ c'.posted = c.posted /\ c'.up = c.up /\ c'.post = c.post
      /\ c'.link = c.link /\ c'.failed = c.failed /\ c'.get = c.get /\ c'.answer = c.answer
      /\ c'.payload = c.payload /\ c'.down = d \o o
  BY <1>1, <1>2 DEF Touches, SameBuf, Client
<1>5. Fine(c')
  BY <1>1, <1>4 DEF Fine, Touches, Closed
<1>6. ~ Closed(c) /\ Lost(c) => Lost(c')
  BY <1>4 DEF Lost, Touches
<1>7. Good(c', srv.received)
  BY <1>1, <1>4, <1>5, <1>6, CarriedGood
<1>8. \A i \in 1 .. Len(c'.down) : ~ Ending(c'.down[i])
  <2>1. /\ Len(c'.down) = Len(d) + Len(o) /\ Len(d) \in Nat /\ Len(o) \in Nat
        /\ \A i \in 1 .. Len(d) : c'.down[i] = d[i]
        /\ \A i \in 1 .. Len(o) : c'.down[Len(d) + i] = o[i]
    BY <1>1, <1>4
  <2> TAKE i \in 1 .. Len(c'.down)
  <2>2. i \in 1 .. Len(d) \/ i - Len(d) \in 1 .. Len(o)
    BY <2>1
  <2>3. CASE i \in 1 .. Len(d)
    BY <1>3, <2>1, <2>3
  <2>4. CASE i - Len(d) \in 1 .. Len(o)
    <3>1. c'.down[Len(d) + (i - Len(d))] = o[i - Len(d)] /\ Len(d) + (i - Len(d)) = i
      BY <2>1, <2>4
    <3> QED BY <1>3, <2>4, <3>1
  <2> QED BY <2>2, <2>3, <2>4
<1>9. Peer(c', srv')
  <2>1. \A i \in 1 .. Len(srv'.out) : srv'.out[i].type \in {"open", "message", "pong"}
    BY <1>2
  <2> QED BY <1>1, <1>2, <1>4, <1>8, <2>1 DEF Peer, Touches, Closed
<1>10. Outside(c, c', srv, srv')
  BY <1>1, <1>2, <1>4, BeginsMore DEF Outside
<1> QED BY <1>2, <1>7, <1>9, <1>10 DEF FlowInv

\* The server reads a POST.
LEMMA ReadPostGood ==
  ASSUME SafeInv, SafeInv', FlowInv, ReadPost
  PROVE  FlowInv' /\ Outside(c, c', srv, srv')
<1> DEFINE r == srv.received
           ps == c.posted
           w == Take(ps)
<1>1. /\ c \in Client /\ srv \in Server /\ r \in Seq(UpPacket) /\ Safe(c') /\ ps \in Seq(UpPacket)
      /\ srv.served \in Nat /\ Good(c, r) /\ Peer(c, srv) /\ Fine(c) /\ Shape(c) /\ Safe(c)
      /\ c.transport \in {"polling", "websocket"}
  BY DEF SafeInv, Safe, Basic, Typed, Server, Client, FlowInv, Good, Base
<1>2. /\ srv' = w /\ srv.state = "open" /\ c.post = "asked"
      /\ c' = [c EXCEPT !.post = "answered", !.posted = <<>>]
  BY DEF ReadPost
<1>3. /\ w.received = r \o ps /\ w.received \in Seq(UpPacket) /\ w.state = srv.state
      /\ w.served = srv.served
      /\ \A i \in 1 .. Len(w.out) : w.out[i].type \in {"open", "message", "pong"}
  BY <1>1, TakeDoes DEF Peer
<1> HIDE DEF w
<1>4. /\ SameBuf(c, c') /\ c'.ready = c.ready /\ c'.closing = c.closing
      /\ c'.upgrading = c.upgrading
      /\ c'.probe = c.probe /\ c'.opened = c.opened /\ c'.jsonp = c.jsonp
      /\ c'.transport = c.transport /\ c'.poll = c.poll /\ c'.ws = c.ws
      /\ c'.posted = <<>> /\ c'.up = c.up /\ c'.post = "answered"
      /\ c'.failed = c.failed /\ c'.get = c.get /\ c'.answer = c.answer
      /\ c'.payload = c.payload /\ c'.down = c.down /\ c'.link = c.link /\ c'.got = c.got
      /\ c'.bye = c.bye
  BY <1>1, <1>2 DEF SameBuf, Client
<1>5. /\ Touches(c, c') /\ Given(c') = Given(c) /\ (Closed(c') <=> Closed(c))
      /\ (Lost(c) /\ ~ Closed(c) => Lost(c'))
  BY <1>2, <1>4 DEF Touches, Given, Written, SameBuf, Closed, Lost
<1>6. Fine(c')
  BY <1>1, <1>4, <1>5 DEF Fine
<1>7. PICK k \in Nat : Flow(c, r, k) /\ Ended(c, r, k)
  BY <1>1 DEF Good, Base
<1>8. Mailed(c', k)
  BY <1>4, <1>7 DEF Flow, Mailed
<1>9. w.received \o OnWire(c', k) = r \o OnWire(c, k)
  <2>1. CASE c.transport = "polling"
    <3>1. OnWire(c', k) = <<>> /\ OnWire(c, k) = ps
      BY <1>4, <2>1 DEF OnWire
    <3>2. w.received \o <<>> = w.received
      BY <1>3
    <3> QED BY <1>3, <3>1, <3>2
  <2>2. CASE c.transport = "websocket"
    <3>1. OnWire(c', k) = OnWire(c, k) /\ ps = <<>>
      BY <1>1, <1>4, <2>2 DEF OnWire, Shape
    <3>2. r \o <<>> = r
      BY <1>1
    <3> QED BY <1>3, <3>1, <3>2
  <2> QED BY <1>1, <2>1, <2>2
<1>10. Flow(c', w.received, k)
  BY <1>4, <1>5, <1>7, <1>8, <1>9 DEF Flow
<1>11. Ended(c', w.received, k)
  <2> SUFFICES ASSUME Closed(c'), ~ c'.failed
               PROVE  Len(w.received) + Len(OnWire(c', k)) >= c'.owed
    BY <1>4 DEF Ended
  <2>1. ps = <<>> /\ Len(r) + Len(OnWire(c, k)) >= c.owed
    BY <1>4, <1>5, <1>7 DEF Ended
  <2>2. w.received = r
    BY <1>1, <1>3, <2>1
  <2>3. OnWire(c', k) = OnWire(c, k)
    BY <1>4, <2>1 DEF OnWire
  <2> QED BY <1>4, <2>1, <2>2, <2>3 DEF SameBuf
<1>12. c'.transport = "polling" => \A i \in 1 .. Len(c'.up) : c'.up[i].type = "probe"
  BY <1>1, <1>4 DEF Shape
<1>13. Good(c', w.received)
  BY <1>1, <1>3, <1>5, <1>6, <1>10, <1>11, <1>12, TouchesGood
<1>14. Peer(c', srv')
  BY <1>1, <1>2, <1>3, <1>4 DEF Peer
<1>15. Outside(c, c', srv, srv')
  BY <1>1, <1>2, <1>3, <1>5, BeginsMore DEF Outside
<1> QED BY <1>2, <1>13, <1>14, <1>15 DEF FlowInv

\* The next packet of the WebSocket is taken off it.
LEMMA WireLess ==
  ASSUME NEW s, NEW t, NEW r \in Seq(UpPacket), NEW k \in Nat, s.up \in Seq(UpPacket),
         s.up # <<>>, t.up = Tail(s.up), s.transport = "websocket", t.transport = "websocket",
         Mailed(s, k)
  PROVE  \/ /\ k > 0 /\ s.up[1].type \in Control
            /\ k - 1 \in Nat /\ Mailed(t, k - 1) /\ OnWire(t, k - 1) = OnWire(s, k)
         \/ /\ k = 0 /\ s.up[1].type \notin Control
            /\ Mailed(t, 0) /\ (r \o <<s.up[1]>>) \o OnWire(t, 0) = r \o OnWire(s, 0)
<1> DEFINE u == s.up
<1>1. /\ <<u[1]>> \in Seq(UpPacket) /\ Tail(u) \in Seq(UpPacket) /\ Len(Tail(u)) = Len(u) - 1
      /\ \A i \in 1 .. Len(u) - 1 : Tail(u)[i] = u[i + 1]
      /\ <<u[1]>> \o Tail(u) = u /\ Len(u) \in Nat /\ Len(u) > 0
      /\ \A j \in 1 .. Len(u) : SubSeq(Tail(u), j, Len(u) - 1) = SubSeq(u, j + 1, Len(u))
  <2>1. Head(u) = u[1]
    BY TakeHead
  <2> QED BY <2>1, TakeHead
<1>2. /\ k \in 0 .. Len(u)
      /\ \A i \in 1 .. k : u[i].type \in Control
      /\ \A i \in k + 1 .. Len(u) : u[i].type \notin Control
  BY DEF Mailed
<1> DEFINE v == Tail(u)
<1>3. t.up = v
  OBVIOUS
<1> HIDE DEF u, v
<1>4. CASE k > 0
  <2>1. u[1].type \in Control /\ k - 1 \in Nat /\ k - 1 \in 0 .. Len(v)
    BY <1>1, <1>2, <1>4 DEF v
  <2>2. ASSUME NEW i \in 1 .. k - 1
        PROVE  v[i].type \in Control
    <3>1. i \in 1 .. Len(u) - 1 /\ i + 1 \in 1 .. k
      BY <1>2, <1>4, <2>2
    <3> QED BY <1>1, <1>2, <3>1 DEF v
  <2>3. ASSUME NEW i \in (k - 1) + 1 .. Len(v)
        PROVE  v[i].type \notin Control
    <3>1. i \in 1 .. Len(u) - 1 /\ i + 1 \in k + 1 .. Len(u)
      BY <1>1, <1>2, <1>4, <2>3 DEF v
    <3> QED BY <1>1, <1>2, <3>1 DEF v
  <2>4. Mailed(t, k - 1)
    BY <1>3, <2>1, <2>2, <2>3 DEF Mailed
  <2>5. OnWire(t, k - 1) = OnWire(s, k)
    <3>1. k \in 1 .. Len(u) /\ (k - 1) + 1 = k /\ Len(v) = Len(u) - 1
      BY <1>1, <1>2, <1>4 DEF v
    <3>2. SubSeq(v, k, Len(u) - 1) = SubSeq(u, k + 1, Len(u))
      BY <1>1, <3>1 DEF v
    <3> QED BY <1>3, <3>1, <3>2 DEF OnWire, u
  <2> QED BY <1>4, <2>1, <2>4, <2>5 DEF u
<1>5. CASE k = 0
  <2>1. u[1].type \notin Control
    BY <1>1, <1>2, <1>5
  <2>2. ASSUME NEW i \in 1 .. Len(v)
        PROVE  v[i].type \notin Control
    <3>1. i \in 1 .. Len(u) - 1 /\ i + 1 \in k + 1 .. Len(u)
      BY <1>1, <1>2, <1>5, <2>2 DEF v
    <3> QED BY <1>1, <1>2, <3>1 DEF v
  <2>3. Mailed(t, 0)
    <3>1. Len(v) \in Nat /\ 0 \in 0 .. Len(v) /\ 0 + 1 = 1
      BY <1>1 DEF v
    <3>2. \A i \in 1 .. 0 : v[i].type \in Control
      OBVIOUS
    <3>3. \A i \in 0 + 1 .. Len(v) : v[i].type \notin Control
      BY <2>2, <3>1
    <3> QED BY <1>3, <3>1, <3>2, <3>3 DEF Mailed
  <2>4. OnWire(t, 0) = v /\ OnWire(s, 0) = u
    <3>1. v \in Seq(UpPacket) /\ u \in Seq(UpPacket)
      BY <1>1 DEF v, u
    <3>2. SubSeq(v, 1, Len(v)) = v /\ SubSeq(u, 1, Len(u)) = u
      BY <3>1, SubSeqFull
    <3>3. s.up = u /\ 0 + 1 = 1
      BY DEF u
    <3> QED BY <1>3, <3>2, <3>3 DEF OnWire
  <2>5. (r \o <<u[1]>>) \o v = r \o (<<u[1]>> \o v)
    <3>1. <<u[1]>> \in Seq(UpPacket) /\ v \in Seq(UpPacket)
      BY <1>1 DEF v
    <3> HIDE DEF u, v
    <3> QED BY <3>1
  <2> QED BY <1>1, <1>5, <2>1, <2>3, <2>4, <2>5 DEF u, v
<1> QED BY <1>2, <1>4, <1>5

\* The server reads a packet from the WebSocket: a probe, an upgrade, or any other.
LEMMA ReadWsGood ==
  ASSUME SafeInv, SafeInv', FlowInv, ReadWs
  PROVE  FlowInv' /\ Outside(c, c', srv, srv')
<1> DEFINE r == srv.received
           p == Head(c.up)
           d == c.down
<1>1. /\ c \in Client /\ srv \in Server /\ r \in Seq(UpPacket) /\ Safe(c')
      /\ srv.served \in Nat /\ Good(c, r) /\ Peer(c, srv) /\ Fine(c) /\ Shape(c) /\ Safe(c)
      /\ c.transport \in {"polling", "websocket"} /\ c.up \in Seq(UpPacket)
      /\ d \in Seq(DownPacket)
  BY DEF SafeInv, Safe, Basic, Typed, Server, Client, FlowInv, Good, Base
<1>2. /\ srv.state = "open" /\ c.up # <<>>
      /\ c' = [c EXCEPT !.up = Tail(@), !.down = IF p.type = "probe" THEN Append(@, p) ELSE @]
      /\ srv' = CASE p.type = "probe" -> [srv EXCEPT !.probed = TRUE]
                  [] p.type = "upgrade" -> [srv EXCEPT !.on = "websocket", !.probed = FALSE]
                  [] OTHER -> Take(<<p>>)
  BY DEF ReadWs
<1>3. p = c.up[1] /\ <<p>> \in Seq(UpPacket) /\ Len(Tail(c.up)) = Len(c.up) - 1 /\ Len(c.up) > 0
      /\ \A i \in 1 .. Len(c.up) - 1 : Tail(c.up)[i] = c.up[i + 1]
      /\ Len(c.up) \in Nat
  BY <1>1, <1>2, TakeHead
<1>4. /\ SubSeq(c.sent, 1, Written(c)) = SubSeq(c'.sent, 1, Written(c'))
      /\ SameBuf(c, c') /\ c'.ready = c.ready /\ c'.closing = c.closing
      /\ c'.upgrading = c.upgrading
      /\ c'.probe = c.probe /\ c'.opened = c.opened /\ c'.jsonp = c.jsonp
      /\ c'.transport = c.transport /\ c'.poll = c.poll /\ c'.ws = c.ws
      /\ c'.posted = c.posted /\ c'.post = c.post
      /\ c'.failed = c.failed /\ c'.get = c.get /\ c'.answer = c.answer
      /\ c'.payload = c.payload /\ c'.link = c.link /\ c'.got = c.got
      /\ c'.bye = c.bye
  BY <1>1, <1>2 DEF SameBuf, Client, Written
<1>5. c'.up = Tail(c.up) /\ c'.down = IF p.type = "probe" THEN Append(d, p) ELSE d
  BY <1>1, <1>2 DEF Client
<1>6. /\ Touches(c, c') /\ Given(c') = Given(c) /\ (Closed(c') <=> Closed(c))
      /\ (Lost(c) /\ ~ Closed(c) => Lost(c'))
  BY <1>4 DEF Touches, Given, Closed, Lost
<1>7. /\ srv'.state = srv.state /\ srv'.served = srv.served
      /\ \A i \in 1 .. Len(srv'.out) : srv'.out[i].type \in {"open", "message", "pong"}
      /\ p.type \in Control => srv'.received = r
      /\ p.type \notin Control => srv'.received = r \o <<p>>
      /\ srv'.received \in Seq(UpPacket)
  <2>1. CASE p.type = "probe"
    <3>1. srv' = [srv EXCEPT !.probed = TRUE]
      BY <1>2, <2>1
    <3>2. /\ srv'.state = srv.state /\ srv'.served = srv.served /\ srv'.out = srv.out
          /\ srv'.received = r
      BY <1>1, <3>1 DEF Server
    <3> QED BY <1>1, <2>1, <3>2 DEF Peer, Control
  <2>2. CASE p.type = "upgrade"
    <3>1. srv' = [srv EXCEPT !.on = "websocket", !.probed = FALSE]
      BY <1>2, <2>2
    <3>2. /\ srv'.state = srv.state /\ srv'.served = srv.served /\ srv'.out = srv.out
          /\ srv'.received = r
      BY <1>1, <3>1 DEF Server
    <3> QED BY <1>1, <2>2, <3>2 DEF Peer, Control
  <2>3. CASE p.type \notin {"probe", "upgrade"}
    <3>1. srv' = Take(<<p>>)
      BY <1>2, <2>3
    <3> QED BY <1>1, <1>3, <2>3, <3>1, TakeDoes DEF Peer, Control
  <2> QED BY <2>1, <2>2, <2>3
<1> HIDE DEF p, r, d
<1>8. Fine(c')
  BY <1>1, <1>4, <1>6 DEF Fine
<1>9. PICK k \in Nat : Flow(c, r, k) /\ Ended(c, r, k)
  BY <1>1 DEF Good, Base, r
<1>10. ASSUME NEW m \in Nat, Mailed(c', m), srv'.received \o OnWire(c', m) = r \o OnWire(c, k),
              Len(srv'.received) + Len(OnWire(c', m)) = Len(r) + Len(OnWire(c, k))
       PROVE  Flow(c', srv'.received, m) /\ Ended(c', srv'.received, m)
  <2>1. Flow(c', srv'.received, m)
    BY <1>4, <1>6, <1>9, <1>10 DEF Flow
  <2>2. Ended(c', srv'.received, m)
    BY <1>4, <1>6, <1>9, <1>10 DEF Ended, SameBuf
  <2> QED BY <2>1, <2>2
<1>11. ASSUME c.transport = "polling"
       PROVE  Good(c', srv'.received)
  <2>1. \A i \in 1 .. Len(c.up) : c.up[i].type = "probe"
    BY <1>1, <1>11 DEF Shape
  <2>2. p.type \in Control
    BY <1>3, <2>1 DEF Control
  <2>3. OnWire(c', k) = OnWire(c, k) /\ Mailed(c', k)
    BY <1>4, <1>11 DEF OnWire, Mailed
  <2>4. Flow(c', srv'.received, k) /\ Ended(c', srv'.received, k)
    BY <1>7, <1>10, <2>2, <2>3
  <2>5. \A i \in 1 .. Len(c'.up) : c'.up[i].type = "probe"
    <3> TAKE i \in 1 .. Len(c'.up)
    <3>1. i \in 1 .. Len(c.up) - 1 /\ i + 1 \in 1 .. Len(c.up)
      BY <1>3, <1>5
    <3> QED BY <1>3, <1>5, <2>1, <3>1
  <2>6. Good(c', srv'.received)
    BY <1>1, <1>6, <1>7, <1>8, <2>4, <2>5, TouchesGood DEF r
  <2> QED BY <2>6
<1>12. ASSUME c.transport = "websocket"
       PROVE  Good(c', srv'.received)
  <2>1. c'.transport = "websocket" /\ Mailed(c, k)
    BY <1>4, <1>9, <1>12 DEF Flow
  <2>2. /\ OnWire(c, k) \in Seq(UpPacket) /\ r \in Seq(UpPacket)
    <3>1. Typed(c) /\ Words(c) /\ r \in Seq(UpPacket)
      BY <1>1 DEF Good, Base, Safe, Basic, r
    <3> QED BY <2>1, <3>1, WireType
  <2>3. \/ /\ k > 0 /\ p.type \in Control
           /\ k - 1 \in Nat /\ Mailed(c', k - 1) /\ OnWire(c', k - 1) = OnWire(c, k)
        \/ /\ k = 0 /\ p.type \notin Control
           /\ Mailed(c', 0) /\ (r \o <<p>>) \o OnWire(c', 0) = r \o OnWire(c, 0)
    <3>1. /\ c.up \in Seq(UpPacket) /\ c.up # <<>> /\ c'.up = Tail(c.up) /\ p = c.up[1]
          /\ c.transport = "websocket" /\ c'.transport = "websocket" /\ Mailed(c, k)
          /\ r \in Seq(UpPacket) /\ k \in Nat
      BY <1>1, <1>2, <1>3, <1>5, <1>9, <1>12, <2>1, <2>2
    <3> QED BY <3>1, WireLess
  <2>4. CASE k > 0
    <3>1. /\ p.type \in Control /\ k - 1 \in Nat /\ Mailed(c', k - 1)
          /\ OnWire(c', k - 1) = OnWire(c, k)
      BY <2>3, <2>4
    <3>2. Flow(c', srv'.received, k - 1) /\ Ended(c', srv'.received, k - 1)
      BY <1>7, <1>10, <3>1
    <3> QED BY <1>1, <1>4, <1>6, <1>7, <1>8, <1>12, <3>1, <3>2, TouchesGood DEF r
  <2>5. CASE k = 0
    <3>1. /\ p.type \notin Control /\ Mailed(c', 0)
          /\ (r \o <<p>>) \o OnWire(c', 0) = r \o OnWire(c, 0)
      BY <2>3, <2>5
    <3>2. srv'.received = r \o <<p>>
      BY <1>7, <3>1
    <3>3. OnWire(c', 0) \in Seq(UpPacket)
      <4>1. Typed(c') /\ c'.transport = "websocket" /\ c'.up \in Seq(UpPacket)
        BY <1>1, <2>1 DEF Safe, Basic, Typed, Client
      <4>2. 0 \in 0 .. Len(c'.up)
        BY <3>1, <4>1 DEF Mailed
      <4>3. SubSeq(c'.up, 0 + 1, Len(c'.up)) \in Seq(UpPacket)
        BY <4>1, <4>2, CutInTwo
      <4> QED BY <4>1, <4>3 DEF OnWire
    <3>4. Len(srv'.received) + Len(OnWire(c', 0)) = Len(r) + Len(OnWire(c, 0))
      <4>1. srv'.received \o OnWire(c', 0) = r \o OnWire(c, 0)
        BY <3>1, <3>2
      <4>2. /\ Len(srv'.received \o OnWire(c', 0)) = Len(srv'.received) + Len(OnWire(c', 0))
        BY <1>7, <3>3
      <4>3. Len(r \o OnWire(c, 0)) = Len(r) + Len(OnWire(c, 0))
        BY <2>2, <2>5
      <4> QED BY <4>1, <4>2, <4>3
    <3>5. Flow(c', srv'.received, 0) /\ Ended(c', srv'.received, 0)
      BY <1>10, <2>5, <3>1, <3>2, <3>4
    <3> QED BY <1>1, <1>4, <1>6, <1>7, <1>8, <1>12, <3>5, TouchesGood DEF r
  <2>6. k > 0 \/ k = 0
    BY <1>9
  <2> QED BY <2>4, <2>5, <2>6
<1>13. Good(c', srv'.received)
  BY <1>1, <1>11, <1>12
<1>14. Peer(c', srv')
  <2>1. \A i \in 1 .. Len(c'.down) : ~ Ending(c'.down[i])
    <3>1. \A i \in 1 .. Len(d) : ~ Ending(d[i])
      BY <1>1 DEF Peer, d
    <3>2. CASE p.type = "probe"
      <4>1. p \in DownPacket /\ ~ Ending(p)
        <5>1. p \in UpPacket
          BY <1>1, <1>3
        <5> QED BY <3>2, <5>1 DEF UpPacket, DownPacket, Ending
      <4>2. /\ Len(c'.down) = Len(d) + 1 /\ Len(d) \in Nat /\ c'.down[Len(d) + 1] = p
            /\ \A i \in 1 .. Len(d) : c'.down[i] = d[i]
        BY <1>1, <1>5, <3>2, <4>1, AppendProperty DEF d
      <4> TAKE i \in 1 .. Len(c'.down)
      <4>3. i \in 1 .. Len(d) \/ i = Len(d) + 1
        BY <4>2
      <4> QED BY <3>1, <4>1, <4>2, <4>3
    <3>3. CASE p.type # "probe"
      BY <1>5, <3>1, <3>3
    <3> QED BY <3>2, <3>3
  <2>2. srv'.state # "gone"
    BY <1>2, <1>7
  <2> QED BY <1>7, <2>1, <2>2 DEF Peer
<1>15. Connection!Begins(srv.received, srv'.received)
  <2>1. CASE p.type \in Control
    <3>1. srv'.received = srv.received /\ srv.received \in Seq(UpPacket)
      BY <1>1, <1>7, <2>1 DEF r
    <3> QED BY <3>1, BeginsItself
  <2>2. CASE p.type \notin Control
    <3>1. srv'.received = srv.received \o <<p>> /\ srv.received \in Seq(UpPacket)
      BY <1>1, <1>7, <2>2 DEF r
    <3> QED BY <1>3, <3>1, BeginsMore
  <2> QED BY <2>1, <2>2
<1>16. Outside(c, c', srv, srv')
  BY <1>1, <1>6, <1>7, <1>15 DEF Outside
<1> QED BY <1>13, <1>14, <1>16 DEF FlowInv

\* Requests of a session that is gone.
LEMMA RefuseGood ==
  ASSUME SafeInv, SafeInv', FlowInv, Refuse
  PROVE  FlowInv' /\ Outside(c, c', srv, srv')
<1>1. /\ c \in Client /\ srv \in Server /\ srv.received \in Seq(UpPacket) /\ Safe(c')
      /\ srv.served \in Nat /\ Good(c, srv.received) /\ Peer(c, srv) /\ Fine(c) /\ Shape(c)
  BY DEF SafeInv, Safe, Basic, Typed, Server, FlowInv, Good, Base
<1>2. srv' = srv /\ srv.state = "gone"
  BY DEF Refuse
<1>3. ~ c.failed =>
        Closed(c) /\ c.posted = <<>> /\ \A i \in 1 .. Len(c.up) : c.up[i].type \in Control
  BY <1>1, <1>2 DEF Peer
<1>4. \/ c.get = "asked" /\ c' = [c EXCEPT !.get = "failed"]
      \/ c.post = "asked" /\ c' = [c EXCEPT !.post = "failed", !.posted = <<>>]
      \/ c.bye /\ c' = [c EXCEPT !.bye = FALSE]
      \/ c' = [c EXCEPT !.link = "down", !.up = <<>>]
  BY DEF Refuse
<1>5. /\ SameBuf(c, c') /\ c'.ready = c.ready /\ c'.closing = c.closing
      /\ c'.upgrading = c.upgrading /\ c'.probe = c.probe /\ c'.opened = c.opened
      /\ c'.jsonp = c.jsonp /\ c'.transport = c.transport /\ c'.poll = c.poll /\ c'.ws = c.ws
      /\ c'.failed = c.failed /\ c'.answer = c.answer /\ c'.payload = c.payload
      /\ c'.down = c.down /\ c'.got = c.got /\ (c'.bye => c.bye)
  <2>1. CASE c' = [c EXCEPT !.get = "failed"]
    BY <1>1, <2>1 DEF SameBuf, Client
  <2>2. CASE c' = [c EXCEPT !.post = "failed", !.posted = <<>>]
    BY <1>1, <2>2 DEF SameBuf, Client
  <2>3. CASE c.bye /\ c' = [c EXCEPT !.bye = FALSE]
    BY <1>1, <2>3 DEF SameBuf, Client
  <2>4. CASE c' = [c EXCEPT !.link = "down", !.up = <<>>]
    BY <1>1, <2>4 DEF SameBuf, Client
  <2> QED BY <1>4, <2>1, <2>2, <2>3, <2>4
<1>6. \/ /\ c'.posted = c.posted /\ c'.post = c.post /\ c'.up = c.up /\ c'.link = c.link
      \/ /\ c'.posted = <<>> /\ c'.post = "failed" /\ c'.up = c.up /\ c'.link = c.link
         /\ c.post = "asked"
      \/ /\ c'.posted = c.posted /\ c'.post = c.post /\ c'.up = <<>> /\ c'.link = "down"
  <2>1. CASE c' = [c EXCEPT !.get = "failed"]
    BY <1>1, <2>1 DEF Client
  <2>2. CASE c.post = "asked" /\ c' = [c EXCEPT !.post = "failed", !.posted = <<>>]
    BY <1>1, <2>2 DEF Client
  <2>3. CASE c.bye /\ c' = [c EXCEPT !.bye = FALSE]
    BY <1>1, <2>3 DEF Client
  <2>4. CASE c' = [c EXCEPT !.link = "down", !.up = <<>>]
    BY <1>1, <2>4 DEF Client
  <2> QED BY <1>4, <2>1, <2>2, <2>3, <2>4
<1>7. Touches(c, c') /\ (Closed(c') <=> Closed(c))
  BY <1>5, <1>6 DEF Touches, Closed
<1>8. Fine(c')
  BY <1>3, <1>5, <1>7 DEF Fine
<1>9. Good(c', srv.received)
  <2>1. CASE c'.posted = c.posted /\ c'.post = c.post /\ c'.up = c.up /\ c'.link = c.link
    <3>1. ~ Closed(c) /\ Lost(c) => Lost(c')
      BY <1>5, <2>1 DEF Lost
    <3> QED BY <1>1, <1>7, <1>8, <2>1, <3>1, CarriedGood
  <2>2. CASE \/ c'.posted = <<>> /\ c'.post = "failed" /\ c'.link = c.link /\ c'.up = c.up
             \/ c'.posted = c.posted /\ c'.post = c.post /\ c'.link = "down" /\ c'.up = <<>>
    <3>1. ~ Closed(c) => c'.failed
      BY <1>3, <1>5
    <3>2. Closed(c) /\ ~ c'.failed =>
            /\ c.posted = <<>> /\ ~ c.failed
            /\ \A i \in 1 .. Len(c.up) : c.up[i].type \in Control
      BY <1>3, <1>5
    <3> QED BY <1>1, <1>7, <1>8, <2>2, <3>1, <3>2, LostGood
  <2> QED BY <1>6, <2>1, <2>2
<1>10. Peer(c', srv')
  <2>1. ~ c'.failed => /\ Closed(c') /\ c'.posted = <<>>
                       /\ \A i \in 1 .. Len(c'.up) : c'.up[i].type \in Control
    <3>1. \A i \in 1 .. Len(<<>>) : <<>>[i].type \in Control
      <4>1. Len(<<>>) = 0
        OBVIOUS
      <4> QED BY <4>1
    <3> QED BY <1>3, <1>5, <1>6, <1>7, <3>1
  <2> QED BY <1>1, <1>2, <1>5, <2>1 DEF Peer
<1>11. Outside(c, c', srv, srv')
  BY <1>1, <1>2, <1>7, BeginsMore DEF Outside
<1> QED BY <1>2, <1>9, <1>10, <1>11 DEF FlowInv

\* A failure.
Breaks(s, t) ==
  /\ SameBuf(s, t) /\ t.ready = s.ready /\ t.closing = s.closing
  /\ t.upgrading = s.upgrading /\ t.probe = s.probe /\ t.opened = s.opened
  /\ t.jsonp = s.jsonp /\ t.transport = s.transport /\ t.poll = s.poll /\ t.ws = s.ws
  /\ t.failed /\ t.got = s.got /\ (t.bye => s.bye)
  /\ t.down = s.down \/ t.down = <<>>
  /\ \/ /\ t.posted = s.posted /\ t.post = s.post /\ t.up = s.up /\ t.link = s.link
     \/ /\ t.posted = <<>> /\ t.post = "failed" /\ t.up = s.up /\ t.link = s.link
        /\ s.post \in {"asked", "answered"}
     \/ /\ t.posted = s.posted /\ t.post = s.post /\ t.up = <<>> /\ t.link = "down"

\* A failure of one transport, whichever.
LEMMA BrokenGood ==
  ASSUME SafeInv, SafeInv', FlowInv, Breaks(c, c'), ~ Closed(c),
         srv'.received = srv.received, srv'.served = srv.served, srv'.out = srv.out
  PROVE  FlowInv' /\ Outside(c, c', srv, srv')
<1>1. /\ srv.received \in Seq(UpPacket) /\ Safe(c') /\ srv.served \in Nat
      /\ Good(c, srv.received) /\ Peer(c, srv)
  BY DEF SafeInv, Server, FlowInv
<1>2. Touches(c, c') /\ c'.failed
  BY DEF Breaks, Touches
<1>3. Fine(c')
  BY <1>2 DEF Fine
<1>4. Good(c', srv.received)
  <2>1. CASE c'.posted = c.posted /\ c'.post = c.post /\ c'.up = c.up /\ c'.link = c.link
    <3>1. ~ Closed(c) /\ Lost(c) => Lost(c')
      BY <1>2, <2>1 DEF Lost, Touches
    <3> QED BY <1>1, <1>2, <1>3, <2>1, <3>1, CarriedGood
  <2>2. CASE \/ c'.posted = <<>> /\ c'.post = "failed" /\ c'.link = c.link /\ c'.up = c.up
             \/ c'.posted = c.posted /\ c'.post = c.post /\ c'.link = "down" /\ c'.up = <<>>
    BY <1>1, <1>2, <1>3, <2>2, LostGood
  <2> QED BY <2>1, <2>2 DEF Breaks
<1>5. \A i \in 1 .. Len(c'.down) : ~ Ending(c'.down[i])
  <2>1. Len(<<>>) = 0
    OBVIOUS
  <2> QED BY <1>1, <2>1 DEF Peer, Breaks
<1>6. Peer(c', srv')
  BY <1>1, <1>2, <1>5 DEF Peer
<1>7. Outside(c, c', srv, srv')
  BY <1>1, <1>2, BeginsMore DEF Outside
<1> QED BY <1>4, <1>6, <1>7 DEF FlowInv

\* The failures of the server and the network.
LEMMA FailureGood ==
  ASSUME SafeInv, SafeInv', FlowInv, ServerEnds \/ NetworkFails \/ Garbage
  PROVE  FlowInv' /\ Outside(c, c', srv, srv')
<1>1. c \in Client /\ srv \in Server
  BY DEF SafeInv, Safe, Basic, Typed
<1>2. ~ Closed(c)
  BY DEF ServerEnds, NetworkFails, Garbage, Sound, Closed
<1>3. srv'.received = srv.received /\ srv'.served = srv.served /\ srv'.out = srv.out
  BY <1>1 DEF ServerEnds, NetworkFails, Garbage, Server
<1>4. CASE ServerEnds
  <2>1. Breaks(c, c')
    <3>1. \/ c' = [c EXCEPT !.failed = TRUE]
          \/ c' = [c EXCEPT !.failed = TRUE, !.get = "answered",
                            !.answer = Append(srv.out, Packet("close"))]
      BY <1>4 DEF ServerEnds
    <3>2. CASE c' = [c EXCEPT !.failed = TRUE]
      BY <1>1, <3>2 DEF Breaks, SameBuf, Client
    <3>3. CASE c' = [c EXCEPT !.failed = TRUE, !.get = "answered",
                              !.answer = Append(srv.out, Packet("close"))]
      BY <1>1, <3>3 DEF Breaks, SameBuf, Client
    <3> QED BY <3>1, <3>2, <3>3
  <2> QED BY <1>2, <1>3, <2>1, BrokenGood
<1>5. CASE NetworkFails
  <2>1. \/ /\ c.get \in {"asked", "answered"}
           /\ c' = [c EXCEPT !.get = "failed", !.answer = <<>>, !.failed = TRUE]
        \/ /\ c.post \in {"asked", "answered"}
           /\ c' = [c EXCEPT !.post = "failed", !.posted = <<>>, !.failed = TRUE]
        \/ c.bye /\ c' = [c EXCEPT !.bye = FALSE, !.failed = TRUE]
        \/ c' = [c EXCEPT !.link = "down", !.up = <<>>, !.down = <<>>, !.failed = TRUE]
    BY <1>5 DEF NetworkFails
  <2>2. Breaks(c, c')
    <3>1. CASE c' = [c EXCEPT !.get = "failed", !.answer = <<>>, !.failed = TRUE]
      BY <1>1, <3>1 DEF Breaks, SameBuf, Client
    <3>2. CASE /\ c.post \in {"asked", "answered"}
               /\ c' = [c EXCEPT !.post = "failed", !.posted = <<>>, !.failed = TRUE]
      BY <1>1, <3>2 DEF Breaks, SameBuf, Client
    <3>3. CASE c.bye /\ c' = [c EXCEPT !.bye = FALSE, !.failed = TRUE]
      BY <1>1, <3>3 DEF Breaks, SameBuf, Client
    <3>4. CASE c' = [c EXCEPT !.link = "down", !.up = <<>>, !.down = <<>>, !.failed = TRUE]
      BY <1>1, <3>4 DEF Breaks, SameBuf, Client
    <3> QED BY <2>1, <3>1, <3>2, <3>3, <3>4
  <2> QED BY <1>2, <1>3, <2>2, BrokenGood
<1>6. CASE Garbage
  <2>1. Breaks(c, c')
    BY <1>1, <1>6 DEF Garbage, Breaks, SameBuf, Client
  <2> QED BY <1>2, <1>3, <2>1, BrokenGood
<1> QED BY <1>4, <1>5, <1>6

\* A Socket that was just created.
LEMMA InitFields ==
  ASSUME Init
  PROVE  /\ c.ready = "opening" /\ c.writeBuffer = <<>> /\ c.prevBufferLen = 0
         /\ c.sent = <<>> /\ c.got = <<>> /\ c.up = <<>> /\ c.down = <<>> /\ c.posted = <<>>
         /\ c.post = "idle" /\ c.bye = FALSE /\ c.failed = FALSE /\ c.owed = 0
         /\ c.closing = "nothing" /\ c.answer = <<>> /\ c.payload = <<>>
         /\ c.get \in {"idle", "asked"} /\ c.probe = "none" /\ c.poll.waits = {}
         /\ c.link \in {"none", "connecting"} /\ c.ws.state \in {"", "opening"}
         /\ ~ c.poll.writable /\ ~ c.ws.writable /\ c.opened = FALSE /\ c.reading = FALSE
         /\ c.transport \in {"polling", "websocket"} /\ c.jsonp \in BOOLEAN
         /\ c.transport = "websocket" => ~ c.jsonp /\ c.poll.state = "" /\ ~ c.poll.polling
         /\ c.transport = "polling" => c.poll.polling /\ c.get = "asked"
<1>1. PICK transport \in Transports : c = Open(transport)
  BY DEF Init
<1>2. CASE transport = "websocket"
  BY <1>1, <1>2 DEF Open, WsOpen, Idle
<1>3. CASE transport # "websocket"
  <2> DEFINE t == [Idle EXCEPT !.jsonp = transport = "jsonp", !.poll.state = "opening",
                               !.poll.heard = TRUE]
             u == Create(t, "get")
  <2>1. c = [u EXCEPT !.poll.polling = TRUE]
    BY <1>1, <1>3 DEF Open, polling, Poll
  <2>2. u = [t EXCEPT !.get = "asked"]
    <3> HIDE DEF t
    <3> QED BY DEF Create
  <2> HIDE DEF u
  <2>3. Idle \in Client
    <3>1. <<>> \in Seq(UpPacket) /\ <<>> \in Seq(DownPacket) /\ <<>> \in Seq(1 .. MaxServed)
      OBVIOUS
    <3> QED BY <3>1 DEF Idle, Client, Polling, WS, Request
  <2>4. /\ Idle.ready = "opening" /\ Idle.writeBuffer = <<>> /\ Idle.prevBufferLen = 0
          /\ Idle.sent = <<>> /\ Idle.got = <<>> /\ Idle.up = <<>> /\ Idle.down = <<>>
          /\ Idle.posted = <<>>
          /\ Idle.post = "idle" /\ Idle.bye = FALSE /\ Idle.failed = FALSE /\ Idle.owed = 0
          /\ Idle.closing = "nothing" /\ Idle.answer = <<>> /\ Idle.payload = <<>>
          /\ Idle.probe = "none" /\ Idle.link = "none" /\ Idle.ws.state = "" /\ ~ Idle.ws.writable
          /\ Idle.opened = FALSE /\ Idle.reading = FALSE /\ Idle.transport = "polling"
          /\ Idle.poll.waits = {} /\ ~ Idle.poll.writable
    BY DEF Idle
  <2>5. /\ t.ready = "opening" /\ t.writeBuffer = <<>> /\ t.prevBufferLen = 0
          /\ t.sent = <<>> /\ t.got = <<>> /\ t.up = <<>> /\ t.down = <<>> /\ t.posted = <<>>
          /\ t.post = "idle" /\ t.bye = FALSE /\ t.failed = FALSE /\ t.owed = 0
          /\ t.closing = "nothing" /\ t.answer = <<>> /\ t.payload = <<>>
          /\ t.probe = "none" /\ t.link = "none" /\ t.ws.state = "" /\ ~ t.ws.writable
          /\ t.opened = FALSE /\ t.reading = FALSE /\ t.transport = "polling"
          /\ t.jsonp = (transport = "jsonp")
          /\ t.poll.waits = {} /\ ~ t.poll.writable
    BY <2>3, <2>4 DEF Client, Polling
  <2>6. t \in Client
    BY <2>3 DEF Client, Polling
  <2> HIDE DEF t
  <2>7. u \in Client
    BY <2>2, <2>6 DEF Client, Request
  <2>8. /\ u.ready = "opening" /\ u.writeBuffer = <<>> /\ u.prevBufferLen = 0
          /\ u.sent = <<>> /\ u.got = <<>> /\ u.up = <<>> /\ u.down = <<>> /\ u.posted = <<>>
          /\ u.post = "idle" /\ u.bye = FALSE /\ u.failed = FALSE /\ u.owed = 0
          /\ u.closing = "nothing" /\ u.answer = <<>> /\ u.payload = <<>>
          /\ u.probe = "none" /\ u.link = "none" /\ u.ws.state = "" /\ ~ u.ws.writable
          /\ u.opened = FALSE /\ u.reading = FALSE /\ u.transport = "polling"
          /\ u.jsonp = (transport = "jsonp")
          /\ u.poll.waits = {} /\ ~ u.poll.writable
          /\ u.get = "asked"
    BY <2>2, <2>5, <2>6 DEF Client
  <2>9. /\ c.ready = "opening" /\ c.writeBuffer = <<>> /\ c.prevBufferLen = 0
          /\ c.sent = <<>> /\ c.got = <<>> /\ c.up = <<>> /\ c.down = <<>> /\ c.posted = <<>>
          /\ c.post = "idle" /\ c.bye = FALSE /\ c.failed = FALSE /\ c.owed = 0
          /\ c.closing = "nothing" /\ c.answer = <<>> /\ c.payload = <<>>
          /\ c.probe = "none" /\ c.link = "none" /\ c.ws.state = "" /\ ~ c.ws.writable
          /\ c.opened = FALSE /\ c.reading = FALSE /\ c.transport = "polling"
          /\ c.jsonp = (transport = "jsonp")
          /\ c.poll.waits = {} /\ ~ c.poll.writable
          /\ c.get = "asked" /\ c.poll.polling
    BY <2>1, <2>8, <2>7 DEF Client, Polling
  <2> QED BY <2>9
<1> QED BY <1>2, <1>3

\* Nothing is sent or received at the beginning.
LEMMA InitFlow == Init => FlowInv
<1> SUFFICES ASSUME Init
             PROVE  FlowInv
  OBVIOUS
<1>1. Safe(c)
  BY InitSafe DEF SafeInv
<1>2. srv.state = "none" /\ srv.out = <<>> /\ srv.received = <<>>
  BY DEF Init
<1>3. Len(<<>>) = 0 /\ <<>> \in Seq(UpPacket) /\ <<>> \o <<>> = <<>>
  OBVIOUS
<1>4. \A i \in 1 .. Len(<<>>) : FALSE
  BY <1>3
<1>5. /\ c.ready = "opening" /\ c.writeBuffer = <<>> /\ c.prevBufferLen = 0
      /\ c.sent = <<>> /\ c.up = <<>> /\ c.down = <<>> /\ c.posted = <<>>
      /\ c.post = "idle" /\ c.bye = FALSE /\ c.failed = FALSE /\ c.owed = 0
      /\ c.answer = <<>> /\ c.payload = <<>> /\ c.get \in {"idle", "asked"}
      /\ c.probe = "none" /\ c.link \in {"none", "connecting"}
      /\ c.ws.state \in {"", "opening"}
      /\ c.transport \in {"polling", "websocket"} /\ c.jsonp \in BOOLEAN
      /\ c.transport = "websocket" => ~ c.jsonp /\ c.poll.state = ""
  BY InitFields
<1>6. /\ Len(c.sent) = 0 /\ Len(c.writeBuffer) = 0 /\ Len(c.up) = 0 /\ Len(c.down) = 0
      /\ Len(c.answer) = 0 /\ Len(c.payload) = 0 /\ Len(srv.out) = 0
  BY <1>2, <1>3, <1>5
<1>7. Words(c) /\ Written(c) = 0
  <2>1. Suffix(<<>>, <<>>)
    BY <1>3, EmptySuffix
  <2>2. Len(c.sent) = 0 /\ Len(c.writeBuffer) = 0 /\ c.owed = 0 /\ c.prevBufferLen = 0
    BY <1>6, <1>5
  <2>3. \A i \in 1 .. Len(c.sent) : c.sent[i].type \notin Control
    BY <2>2
  <2>4. Suffix(c.writeBuffer, c.sent)
    BY <1>5, <2>1
  <2>5. Words(c)
    BY <2>2, <2>3, <2>4 DEF Words
  <2>6. Written(c) = 0
    BY <2>2 DEF Written
  <2> QED BY <2>5, <2>6
<1>8. Shape(c)
  BY <1>4, <1>5 DEF Shape, Probing
<1>9. Mode(c) /\ Awaits(c) /\ Ready(c)
  BY InitFields DEF Mode, Awaits, Ready, Closed, Writable
<1>10. Fine(c)
  BY <1>4, <1>5 DEF Fine
<1>11. Mailed(c, 0) /\ OnWire(c, 0) = <<>>
  <2>1. SubSeq(<<>>, 0 + 1, 0) = <<>> /\ 0 \in 0 .. 0
    OBVIOUS
  <2>2. OnWire(c, 0) = <<>>
    BY <1>3, <1>5, <2>1 DEF OnWire
  <2>3. 0 \in 0 .. Len(c.up) /\ (\A i \in 1 .. 0 : FALSE) /\ \A i \in 0 + 1 .. Len(c.up) : FALSE
    BY <1>6
  <2> QED BY <2>2, <2>3 DEF Mailed
<1>12. Given(c) = <<>>
  <2>1. SubSeq(<<>>, 1, 0) = <<>>
    OBVIOUS
  <2> QED BY <1>7, <2>1, <1>5 DEF Given
<1>13. Arrives(~ c.jsonp, <<>>, <<>>)
  <2>1. (~ c.jsonp) \in BOOLEAN
    BY <1>5
  <2> QED BY <1>3, <2>1, ArrivesAll
<1>14. Flow(c, srv.received, 0)
  BY <1>2, <1>3, <1>11, <1>12, <1>13 DEF Flow
<1>15. Ended(c, srv.received, 0)
  BY <1>5 DEF Ended, Closed
<1>16. Peer(c, srv)
  BY <1>2, <1>4, <1>5 DEF Peer
<1> QED BY <1>1, <1>7, <1>8, <1>9, <1>10, <1>14, <1>15, <1>16 DEF FlowInv, Good, Base

\* A callback of the browser leaves the server's half as it is.
LEMMA InnerFlow ==
  ASSUME SafeInv, FlowInv, UNCHANGED srv, Good(c', srv.received), Moves(c, c'), InStep(c, c')
  PROVE  FlowInv'
<1>1. c.down \in Seq(DownPacket) /\ Peer(c, srv)
  BY DEF SafeInv, Safe, Basic, Typed, Client, FlowInv
<1>2. \A i \in 1 .. Len(c'.down) : ~ Ending(c'.down[i])
  <2>1. CASE c'.down = c.down
    BY <1>1, <2>1 DEF Peer
  <2>2. CASE c.down # <<>> /\ c'.down = Tail(c.down)
    <3>1. /\ Len(Tail(c.down)) = Len(c.down) - 1 /\ Len(c.down) \in Nat
          /\ \A i \in 1 .. Len(c.down) - 1 : Tail(c.down)[i] = c.down[i + 1]
      BY <1>1, <2>2, TakeHead
    <3> TAKE i \in 1 .. Len(c'.down)
    <3>2. i \in 1 .. Len(c.down) - 1 /\ i + 1 \in 1 .. Len(c.down)
      BY <2>2, <3>1
    <3> QED BY <1>1, <2>2, <3>1, <3>2 DEF Peer
  <2> QED BY <2>1, <2>2 DEF InStep, SameIn, Takes, ReadsOne, StopsReading, PollIsLost, WsReads,
                            SameGot
<1>3. Peer(c', srv')
  BY <1>1, <1>2 DEF Peer, Moves
<1> QED BY <1>3 DEF FlowInv

\* A callback of the browser.
LEMMA InnerStep ==
  ASSUME SafeInv, SafeInv', FlowInv, Reads \/ Events \/ PingTimeout \/ PageWrites \/ PageCloses
  PROVE  UNCHANGED srv /\ Good(c', srv.received) /\ Moves(c, c') /\ InStep(c, c')
<1>1. /\ srv.received \in Seq(UpPacket) /\ Good(c, srv.received) /\ Safe(c')
      /\ \A i \in 1 .. Len(c.down) : ~ Ending(c.down[i])
  BY DEF SafeInv, Server, FlowInv, Peer
<1>2. UNCHANGED srv
  BY DEF Reads, TakeAnswer, NextPacket, EndOfPayload, Events, PollFails, PostFails,
         PostDone, WsOpens, WsDrained, WsLost, WsMessage, PingInterval,
         PingTimeout, PageWrites, PageCloses
<1>3. Good(c', srv.received) /\ Moves(c, c') /\ InStep(c, c')
  <2>1. CASE Reads
    BY <1>1, <2>1, TakeAnswerGood, NextPacketGood, EndOfPayloadGood DEF Reads
  <2>2. CASE PollFails \/ PostFails \/ PostDone
    BY <1>1, <2>2, PollFailsGood, PostFailsGood, PostDoneGood
  <2>3. CASE WsOpens \/ WsDrained \/ WsLost \/ \E act \in Page : WsMessage(act)
    BY <1>1, <2>3, WsOpensGood, WsDrainedGood, WsLostGood, WsMessageGood
  <2>4. CASE PingInterval \/ PingTimeout \/ PageWrites \/ PageCloses
    BY <1>1, <2>4, PingIntervalGood, PingTimeoutGood, PageGood
  <2> QED BY <2>1, <2>2, <2>3, <2>4 DEF Events
<1> QED BY <1>2, <1>3

\* Every step, of the browser or of the server and the network.
LEMMA StepFlow ==
  ASSUME SafeInv, SafeInv', FlowInv, Next
  PROVE  /\ FlowInv'
         /\ \/ /\ UNCHANGED srv /\ Good(c', srv.received)
               /\ Moves(c, c') /\ InStep(c, c')
            \/ Outside(c, c', srv, srv')
<1>1. /\ srv.received \in Seq(UpPacket) /\ Good(c, srv.received) /\ Safe(c')
      /\ \A i \in 1 .. Len(c.down) : ~ Ending(c.down[i])
  BY DEF SafeInv, Server, FlowInv, Peer
<1>2. CASE Reads \/ Events \/ PingTimeout \/ PageWrites \/ PageCloses
  <2>1. UNCHANGED srv /\ Good(c', srv.received) /\ Moves(c, c') /\ InStep(c, c')
    BY <1>2, InnerStep
  <2> QED BY <2>1, InnerFlow
<1>3. CASE Answer \/ Serves \/ Serve \/ ServerEnds \/ NetworkFails \/ Garbage
  BY <1>3, AnswerGood, AcceptGood, ReadPostGood, ByeGood, ReadWsGood, PushGood, RefuseGood,
     ServeGood, FailureGood DEF Serves
<1> QED BY <1>2, <1>3 DEF Next

\* Every step keeps the invariant.
LEMMA FlowStep == SafeInv /\ FlowInv /\ [Next]_vars => FlowInv'
<1> SUFFICES ASSUME SafeInv, FlowInv, [Next]_vars
             PROVE  FlowInv'
  OBVIOUS
<1>1. CASE Next
  BY <1>1, SafeStep, StepFlow
<1>2. CASE UNCHANGED vars
  BY <1>2 DEF vars, FlowInv
<1> QED BY <1>1, <1>2

\* So it is an invariant.
LEMMA FlowKept == Spec => [](SafeInv /\ FlowInv)
<1>1. Init => SafeInv /\ FlowInv
  BY InitSafe, InitFlow
<1>2. SafeInv /\ FlowInv /\ [Next]_vars => (SafeInv /\ FlowInv)'
  BY SafeStep, FlowStep
<1> QED BY <1>1, <1>2, PTL DEF Spec

\* With nothing on the wire, all that was owed has been received.
LEMMA FlowGraceful == SafeInv /\ FlowInv => GracefulClose
<1> SUFFICES ASSUME SafeInv, FlowInv, c.ready = "closed", ~ c.failed, c.up = <<>>
             PROVE  Len(srv.received) >= c.owed
  BY DEF GracefulClose
<1>1. /\ Good(c, srv.received) /\ c.transport \in {"polling", "websocket"} /\ c.owed \in Nat
      /\ srv.received \in Seq(UpPacket)
  BY DEF SafeInv, Safe, Basic, Typed, Client, Server, FlowInv
<1>2. PICK k \in Nat : Flow(c, srv.received, k) /\ Ended(c, srv.received, k)
  BY <1>1 DEF Good, Base
<1>3. c.posted = <<>> /\ Len(srv.received) + Len(OnWire(c, k)) >= c.owed
  BY <1>2 DEF Ended, Closed
<1>4. OnWire(c, k) = <<>>
  <2>1. CASE c.transport = "polling"
    BY <1>3, <2>1 DEF OnWire
  <2>2. CASE c.transport = "websocket"
    <3>1. k \in 0 .. Len(<<>>) /\ Len(<<>>) = 0
      BY <1>2, <2>2 DEF Flow, Mailed
    <3>2. k = 0
      BY <3>1
    <3>3. SubSeq(<<>>, 0 + 1, 0) = <<>>
      OBVIOUS
    <3> QED BY <2>2, <3>1, <3>2, <3>3 DEF OnWire
  <2> QED BY <1>1, <2>1, <2>2
<1>5. Len(<<>>) = 0 /\ Len(srv.received) \in Nat
  BY <1>1
<1> QED BY <1>1, <1>3, <1>4, <1>5

\* Nothing that was written before a close() is lost, unless something failed: what the
\* browser has taken over is delivered, be the transport a POST, the WebSocket, or first the
\* one and then the other.
THEOREM NothingOwedIsLost == Spec => []GracefulClose
BY FlowKept, FlowGraceful, PTL

-----------------------------------------------------------------------------
(* From the server to the Socket.                                          *)

IsMessage(p) == p.type = "message"

\* The messages among q are those after the lo-th up to the hi-th, in order.
Run(q, lo, hi) ==
  /\ lo <= hi
  /\ \A i \in 1 .. Len(q) : IsMessage(q[i]) => q[i].n \in lo + 1 .. hi
  /\ \A i \in 1 .. Len(q) : \A j \in 1 .. i - 1 :
       IsMessage(q[i]) /\ IsMessage(q[j]) => q[j].n < q[i].n
  /\ \A n \in lo + 1 .. hi : \E i \in 1 .. Len(q) : IsMessage(q[i]) /\ q[i].n = n

\* Packets that are no messages are a run of no numbers.
LEMMA RunOfNone ==
  ASSUME NEW S, NEW q \in Seq(S), NEW lo \in Nat, NEW hi \in Nat,
         \A i \in 1 .. Len(q) : ~ IsMessage(q[i])
  PROVE  Run(q, lo, hi) <=> lo = hi
<1>1. Run(q, lo, hi) => lo = hi
  <2> SUFFICES ASSUME Run(q, lo, hi), lo # hi
               PROVE  FALSE
    OBVIOUS
  <2>1. lo + 1 \in lo + 1 .. hi
    BY DEF Run
  <2> QED BY <2>1 DEF Run
<1>2. lo = hi => Run(q, lo, hi)
  <2> SUFFICES ASSUME lo = hi
               PROVE  Run(q, lo, hi)
    OBVIOUS
  <2>1. ~ \E n \in lo + 1 .. hi : TRUE
    OBVIOUS
  <2> QED BY <2>1 DEF Run
<1> QED BY <1>1, <1>2

\* A run, and another that goes on from it.
LEMMA RunOfBoth ==
  ASSUME NEW S, NEW q \in Seq(S), NEW p \in Seq(S), NEW d, d = q \o p,
         NEW lo \in Nat, NEW m \in Nat, NEW hi \in Nat, Run(q, lo, m), Run(p, m, hi)
  PROVE  Run(d, lo, hi)
<1>1. /\ Len(d) = Len(q) + Len(p) /\ Len(q) \in Nat /\ Len(p) \in Nat
      /\ \A i \in 1 .. Len(q) : d[i] = q[i]
      /\ \A i \in 1 .. Len(p) : d[Len(q) + i] = p[i]
  BY JoinedElements
<1>2. \A i \in 1 .. Len(d) : \/ i \in 1 .. Len(q) /\ d[i] = q[i]
                             \/ i - Len(q) \in 1 .. Len(p) /\ d[i] = p[i - Len(q)]
  <2> TAKE i \in 1 .. Len(d)
  <2>1. CASE i \in 1 .. Len(q)
    BY <1>1, <2>1
  <2>2. CASE i \notin 1 .. Len(q)
    <3>1. i - Len(q) \in 1 .. Len(p) /\ Len(q) + (i - Len(q)) = i
      BY <1>1, <2>2
    <3>2. d[Len(q) + (i - Len(q))] = p[i - Len(q)]
      BY <1>1, <3>1
    <3> QED BY <3>1, <3>2
  <2> QED BY <2>1, <2>2
<1>3. /\ lo <= m /\ m <= hi
      /\ \A i \in 1 .. Len(q) : IsMessage(q[i]) => q[i].n \in lo + 1 .. m
      /\ \A i \in 1 .. Len(p) : IsMessage(p[i]) => p[i].n \in m + 1 .. hi
  BY DEF Run
<1>4. lo <= hi /\ \A i \in 1 .. Len(d) : IsMessage(d[i]) => d[i].n \in lo + 1 .. hi
  <2>1. lo + 1 .. m \subseteq lo + 1 .. hi /\ m + 1 .. hi \subseteq lo + 1 .. hi /\ lo <= hi
    BY <1>3
  <2> QED BY <1>2, <1>3, <2>1
<1>5. ASSUME NEW i \in 1 .. Len(d), NEW j \in 1 .. i - 1, IsMessage(d[i]), IsMessage(d[j])
      PROVE  d[j].n < d[i].n
  <2>1. j \in 1 .. Len(d) /\ j < i /\ i \in Nat /\ j \in Nat
    BY <1>1
  <2>2. CASE i \in 1 .. Len(q) /\ d[i] = q[i]
    <3>1. j \in 1 .. Len(q) /\ d[j] = q[j]
      BY <1>1, <2>1, <2>2
    <3> QED BY <1>5, <2>2, <3>1 DEF Run
  <2>3. CASE i - Len(q) \in 1 .. Len(p) /\ d[i] = p[i - Len(q)]
    <3>1. CASE j \in 1 .. Len(q) /\ d[j] = q[j]
      <4>1. d[j].n \in lo + 1 .. m /\ d[i].n \in m + 1 .. hi
        BY <1>3, <1>5, <2>3, <3>1
      <4>2. \A x \in lo + 1 .. m, y \in m + 1 .. hi : x < y
        OBVIOUS
      <4> QED BY <4>1, <4>2
    <3>2. CASE j - Len(q) \in 1 .. Len(p) /\ d[j] = p[j - Len(q)]
      <4>1. j - Len(q) \in 1 .. (i - Len(q)) - 1
        BY <1>1, <2>1, <3>2
      <4> QED BY <1>5, <2>3, <3>2, <4>1 DEF Run
    <3> QED BY <1>2, <2>1, <3>1, <3>2
  <2> QED BY <1>2, <2>2, <2>3
<1>6. ASSUME NEW n \in lo + 1 .. hi
      PROVE  \E i \in 1 .. Len(d) : IsMessage(d[i]) /\ d[i].n = n
  <2>1. CASE n \in lo + 1 .. m
    <3>1. PICK i \in 1 .. Len(q) : IsMessage(q[i]) /\ q[i].n = n
      BY <2>1 DEF Run
    <3>2. i \in 1 .. Len(d) /\ d[i] = q[i]
      BY <1>1
    <3> QED BY <3>1, <3>2
  <2>2. CASE n \in m + 1 .. hi
    <3>1. PICK i \in 1 .. Len(p) : IsMessage(p[i]) /\ p[i].n = n
      BY <2>2 DEF Run
    <3>2. Len(q) + i \in 1 .. Len(d) /\ d[Len(q) + i] = p[i]
      BY <1>1
    <3> QED BY <3>1, <3>2
  <2> QED BY <2>1, <2>2
<1> QED BY <1>4, <1>5, <1>6 DEF Run

\* The next packet is taken: no message, or the message after the lo-th.
LEMMA RunOfRest ==
  ASSUME NEW S, NEW q \in Seq(S), q # <<>>, NEW lo \in Nat, NEW hi \in Nat, Run(q, lo, hi)
  PROVE  /\ ~ IsMessage(Head(q)) => Run(Tail(q), lo, hi)
         /\ IsMessage(Head(q)) => Head(q).n = lo + 1 /\ lo < hi /\ Run(Tail(q), lo + 1, hi)
<1> DEFINE v == Tail(q)
<1>1. /\ v \in Seq(S) /\ Len(v) = Len(q) - 1 /\ Len(q) \in Nat /\ Len(q) > 0
      /\ Head(q) = q[1] /\ \A i \in 1 .. Len(v) : v[i] = q[i + 1]
  <2>1. Len(q) \in Nat /\ Len(q) > 0
    OBVIOUS
  <2> QED BY <2>1, TakeHead
<1> HIDE DEF v
<1>2. \A i \in 1 .. Len(v) : i + 1 \in 1 .. Len(q) /\ i + 1 # 1 /\ 1 \in 1 .. (i + 1) - 1
  BY <1>1
<1>3. /\ lo <= hi
      /\ \A i \in 1 .. Len(q) : IsMessage(q[i]) => q[i].n \in lo + 1 .. hi
      /\ \A n \in lo + 1 .. hi : \E i \in 1 .. Len(q) : IsMessage(q[i]) /\ q[i].n = n
      /\ \A i \in 1 .. Len(q) : \A j \in 1 .. i - 1 :
           IsMessage(q[i]) /\ IsMessage(q[j]) => q[j].n < q[i].n
  BY DEF Run
<1>4. \A i \in 1 .. Len(v) : \A j \in 1 .. i - 1 :
        IsMessage(v[i]) /\ IsMessage(v[j]) => v[j].n < v[i].n
  <2> TAKE i \in 1 .. Len(v)
  <2> TAKE j \in 1 .. i - 1
  <2>1. i + 1 \in 1 .. Len(q) /\ j + 1 \in 1 .. (i + 1) - 1 /\ j \in 1 .. Len(v)
    BY <1>1
  <2> QED BY <1>1, <1>3, <2>1
<1>5. \A k \in 1 .. Len(q) : k = 1 \/ (k - 1 \in 1 .. Len(v) /\ v[k - 1] = q[k])
  <2> TAKE k \in 1 .. Len(q)
  <2>1. k # 1 => k - 1 \in 1 .. Len(v) /\ (k - 1) + 1 = k
    BY <1>1
  <2> QED BY <1>1, <2>1
<1>6. ASSUME ~ IsMessage(q[1])
      PROVE  Run(v, lo, hi)
  <2>1. \A i \in 1 .. Len(v) : IsMessage(v[i]) => v[i].n \in lo + 1 .. hi
    BY <1>1, <1>2, <1>3
  <2>2. \A n \in lo + 1 .. hi : \E i \in 1 .. Len(v) : IsMessage(v[i]) /\ v[i].n = n
    <3> TAKE n \in lo + 1 .. hi
    <3>1. PICK k \in 1 .. Len(q) : IsMessage(q[k]) /\ q[k].n = n
      BY <1>3
    <3>2. k - 1 \in 1 .. Len(v) /\ v[k - 1] = q[k]
      BY <1>5, <1>6, <3>1
    <3> QED BY <3>1, <3>2
  <2> QED BY <1>3, <1>4, <2>1, <2>2 DEF Run
<1>7. ASSUME IsMessage(q[1])
      PROVE  q[1].n = lo + 1 /\ lo < hi /\ Run(v, lo + 1, hi)
  <2>1. 1 \in 1 .. Len(q) /\ q[1].n \in lo + 1 .. hi
    BY <1>1, <1>3, <1>7
  <2>2. lo < hi /\ lo + 1 \in lo + 1 .. hi
    BY <2>1
  <2>3. PICK k \in 1 .. Len(q) : IsMessage(q[k]) /\ q[k].n = lo + 1
    BY <1>3, <2>2
  <2>4. q[1].n = lo + 1
    <3>1. CASE k = 1
      BY <2>3, <3>1
    <3>2. CASE k # 1
      <4>1. 1 \in 1 .. k - 1
        BY <3>2
      <4>2. q[1].n < q[k].n
        BY <1>3, <1>7, <2>3, <4>1
      <4> QED BY <2>1, <2>3, <4>2
    <3> QED BY <3>1, <3>2
  <2>5. \A i \in 1 .. Len(v) : IsMessage(v[i]) => v[i].n \in (lo + 1) + 1 .. hi
    <3> TAKE i \in 1 .. Len(v)
    <3> HAVE IsMessage(v[i])
    <3>1. i + 1 \in 1 .. Len(q) /\ v[i] = q[i + 1] /\ 1 \in 1 .. (i + 1) - 1
      BY <1>1, <1>2
    <3>2. q[i + 1].n \in lo + 1 .. hi /\ q[1].n < q[i + 1].n
      BY <1>3, <1>7, <3>1
    <3> QED BY <2>4, <3>1, <3>2
  <2>6. \A n \in (lo + 1) + 1 .. hi : \E i \in 1 .. Len(v) : IsMessage(v[i]) /\ v[i].n = n
    <3> TAKE n \in (lo + 1) + 1 .. hi
    <3>1. n \in lo + 1 .. hi /\ n # lo + 1
      OBVIOUS
    <3>2. PICK i \in 1 .. Len(q) : IsMessage(q[i]) /\ q[i].n = n
      BY <1>3, <3>1
    <3>3. i - 1 \in 1 .. Len(v) /\ v[i - 1] = q[i]
      BY <1>5, <2>4, <3>1, <3>2
    <3> QED BY <3>2, <3>3
  <2> QED BY <1>4, <2>2, <2>4, <2>5, <2>6 DEF Run
<1> QED BY <1>1, <1>6, <1>7 DEF v

\* What is on its way to the Socket.
Coming(s) == IF s.transport = "websocket" THEN s.down
             ELSE IF s.reading THEN s.payload ELSE s.answer

\* What was handed out, of n messages.
Numbered(s, n) == Len(s.got) <= n /\ \A i \in 1 .. Len(s.got) : s.got[i] = i

\* At most one poll, or its answer that is being read, and none on the WebSocket.
Polls(s) ==
  /\ s.get # "idle" => s.poll.polling /\ ~ s.reading
  /\ s.reading => s.poll.polling
  /\ ~ s.reading => s.payload = <<>>
  /\ s.get # "answered" => s.answer = <<>>
  /\ s.transport = "websocket" => ~ s.poll.polling
  /\ s.transport = "polling" => \A i \in 1 .. Len(s.down) : s.down[i].type = "probe"

\* What the server still has for the Socket may reach it.
CanLeave(s, v) ==
  /\ v.state = "open"
  /\ s.transport = "polling" =>
       s.get # "failed" /\ \A i \in 1 .. Len(Coming(s)) : ~ Ending(Coming(s)[i])
  /\ s.transport = "websocket" => s.link \notin {"down", "closed"}

\* What is on its way goes on where the Socket is, and what the server has, if it may
\* leave, goes on from there.
Followed(s, v) ==
  \E m \in Nat : /\ m <= v.served /\ Run(Coming(s), Len(s.got), m)
                 /\ CanLeave(s, v) => Run(v.out, m, v.served)

Down(s, v) ==
  /\ Numbered(s, v.served)
  /\ v.served <= MaxServed /\ (v.state = "none" => v.served = 0)
  /\ ~ Closed(s) => /\ Polls(s) /\ Followed(s, v)
                    /\ s.transport = "polling" => v.on = "polling"

\* What leaves the Socket's side alone and opens no way for the server keeps Followed.
LEMMA FollowedSame ==
  ASSUME NEW s, NEW t, NEW v, Followed(s, v), Coming(t) = Coming(s), t.got = s.got,
         CanLeave(t, v) => CanLeave(s, v)
  PROVE  Followed(t, v)
BY DEF Followed

\* The types of what comes from the server.
LEMMA ComingType ==
  ASSUME NEW s \in Client
  PROVE  /\ Coming(s) \in Seq(DownPacket) /\ Len(s.got) \in Nat
         /\ s.transport \in {"polling", "websocket"} /\ s.got \in Seq(1 .. MaxServed)
         /\ s.down \in Seq(DownPacket) /\ s.payload \in Seq(DownPacket)
         /\ s.answer \in Seq(DownPacket)
BY DEF Coming, Client

\* The elements of a tail.
LEMMA TailDown ==
  ASSUME NEW S, NEW q \in Seq(S), q # <<>>
  PROVE  /\ Tail(q) \in Seq(S)
         /\ \A i \in 1 .. Len(Tail(q)) : i + 1 \in 1 .. Len(q) /\ Tail(q)[i] = q[i + 1]
         /\ 1 \in 1 .. Len(q) /\ Head(q) = q[1]
         /\ \A i \in 1 .. Len(q) : i = 1 \/ (i - 1 \in 1 .. Len(Tail(q)) /\ Tail(q)[i - 1] = q[i])
<1> DEFINE v == Tail(q)
<1>1. /\ v \in Seq(S) /\ Len(v) = Len(q) - 1 /\ Len(q) \in Nat /\ Len(q) > 0
      /\ Head(q) = q[1] /\ \A i \in 1 .. Len(v) : v[i] = q[i + 1]
  <2>1. Len(q) \in Nat /\ Len(q) > 0
    OBVIOUS
  <2> QED BY <2>1, TakeHead
<1> HIDE DEF v
<1>2. \A i \in 1 .. Len(v) : i + 1 \in 1 .. Len(q)
  BY <1>1
<1>3. \A i \in 1 .. Len(q) : i = 1 \/ (i - 1 \in 1 .. Len(v) /\ v[i - 1] = q[i])
  <2> TAKE i \in 1 .. Len(q)
  <2>1. i # 1 => i - 1 \in 1 .. Len(v) /\ (i - 1) + 1 = i
    BY <1>1
  <2> QED BY <1>1, <2>1
<1> QED BY <1>1, <1>2, <1>3 DEF v

\* The Socket moves over when no poll is under way.
LEMMA MovingOver ==
  ASSUME NEW s, NEW t, Polls(s), InStep(s, t), s.transport = "polling",
         t.transport = "websocket", ~ t.poll.polling, ~ Closed(t), s.poll.heard
  PROVE  /\ s.get = "idle" /\ Coming(s) = <<>> /\ s.answer = <<>>
         /\ t.get = "idle" /\ ~ t.reading /\ t.payload = <<>> /\ t.answer = <<>>
         /\ t.got = s.got /\ (t.down = s.down \/ (s.down # <<>> /\ t.down = Tail(s.down)))
<1>1. CASE SameIn(s, t)
  BY <1>1 DEF SameIn, Polls, Coming
<1>2. CASE Takes(s, t)
  BY <1>2 DEF Takes, Polls
<1>3. CASE ReadsOne(s, t)
  BY <1>3 DEF ReadsOne, Polls
<1>4. CASE StopsReading(s, t)
  BY <1>4 DEF StopsReading, Polls, Coming, SameGot
<1>5. CASE PollIsLost(s, t)
  BY <1>5 DEF PollIsLost, Polls
<1>6. CASE WsReads(s, t)
  BY <1>6 DEF WsReads, Polls, Coming, HandsOut
<1> QED BY <1>1, <1>2, <1>3, <1>4, <1>5, <1>6 DEF InStep

\* No callback of the browser starts a second poll.
LEMMA StepPolls ==
  ASSUME NEW s \in Client, NEW t \in Client, Polls(s), Moves(s, t), InStep(s, t), ~ Closed(t),
         s.transport = "polling" => s.poll.heard
  PROVE  Polls(t)
<1>1. /\ s.transport \in {"polling", "websocket"} /\ t.transport \in {"polling", "websocket"}
      /\ s.down \in Seq(DownPacket)
  BY ComingType
<1>2. CASE s.transport = "polling" /\ t.transport = "websocket"
  <2>1. ~ t.poll.polling
    BY <1>2 DEF Moves
  <2> QED BY <1>2, <2>1, MovingOver DEF Polls
<1>3. CASE t.transport = s.transport
  <2>1. t.transport = "polling" => \A i \in 1 .. Len(t.down) : t.down[i].type = "probe"
    <3> SUFFICES ASSUME t.transport = "polling"
                 PROVE  \A i \in 1 .. Len(t.down) : t.down[i].type = "probe"
      OBVIOUS
    <3>1. \A i \in 1 .. Len(s.down) : s.down[i].type = "probe"
      BY <1>3 DEF Polls
    <3>2. CASE t.down = s.down
      BY <3>1, <3>2
    <3>3. CASE s.down # <<>> /\ t.down = Tail(s.down)
      BY <1>1, <3>1, <3>3, TailDown
    <3> QED BY <3>2, <3>3 DEF InStep, SameIn, Takes, ReadsOne, StopsReading, PollIsLost, WsReads,
                              SameGot
  <2>2. CASE SameIn(s, t)
    BY <1>3, <2>1, <2>2 DEF SameIn, Polls
  <2>3. CASE Takes(s, t)
    BY <1>3, <2>1, <2>3 DEF Takes, Polls
  <2>4. CASE ReadsOne(s, t)
    BY <1>3, <2>1, <2>4 DEF ReadsOne, Polls
  <2>5. CASE StopsReading(s, t)
    BY <1>3, <2>1, <2>5 DEF StopsReading, Polls
  <2>6. CASE PollIsLost(s, t)
    BY <1>3, <2>1, <2>6 DEF PollIsLost, Polls
  <2>7. CASE WsReads(s, t)
    BY <1>3, <2>1, <2>7 DEF WsReads, Polls
  <2> QED BY <2>2, <2>3, <2>4, <2>5, <2>6, <2>7 DEF InStep
<1> QED BY <1>1, <1>2, <1>3 DEF Moves

\* The next number is handed out.
LEMMA NumberedMore ==
  ASSUME NEW S, NEW s, NEW t, NEW n \in Nat, s.got \in Seq(S), Numbered(s, n), Len(s.got) < n,
         t.got = Append(s.got, Len(s.got) + 1), Len(s.got) + 1 \in S
  PROVE  Numbered(t, n) /\ Len(t.got) = Len(s.got) + 1
<1> DEFINE g == s.got
           h == t.got
<1>1. /\ Len(h) = Len(g) + 1 /\ Len(g) \in Nat /\ h[Len(g) + 1] = Len(g) + 1
      /\ \A i \in 1 .. Len(g) : h[i] = g[i]
  BY AppendProperty
<1>2. \A i \in 1 .. Len(g) : g[i] = i
  BY DEF Numbered
<1>3. Len(g) < n
  OBVIOUS
<1> HIDE DEF g, h
<1>4. \A i \in 1 .. Len(h) : h[i] = i
  <2> TAKE i \in 1 .. Len(h)
  <2>1. i \in 1 .. Len(g) \/ i = Len(g) + 1
    BY <1>1
  <2> QED BY <1>1, <1>2, <2>1
<1>5. Len(h) <= n
  BY <1>1, <1>3
<1> QED BY <1>1, <1>4, <1>5 DEF Numbered, g, h

\* The next packet of what is on its way is handed out.
LEMMA NextOne ==
  ASSUME NEW s \in Client, NEW t \in Client, NEW v, v.served \in Nat, v.served <= MaxServed,
         Numbered(s, v.served), Followed(s, v),
         Coming(s) # <<>>, Coming(t) = Tail(Coming(s)),
         t.got = HandsOut(s, Head(Coming(s)), TRUE), ~ Closed(s),
         CanLeave(t, v) => CanLeave(s, v)
  PROVE  Numbered(t, v.served) /\ Followed(t, v)
<1> DEFINE q == Coming(s)
           p == Head(q)
           g == Len(s.got)
<1>1. q \in Seq(DownPacket) /\ g \in Nat /\ s.got \in Seq(1 .. MaxServed) /\ MaxServed \in Nat
  BY ComingType, BoundsAssumption
<1>2. PICK m \in Nat : /\ m <= v.served /\ Run(q, g, m)
                       /\ CanLeave(s, v) => Run(v.out, m, v.served)
  BY DEF Followed
<1>3. q # <<>> /\ Coming(t) = Tail(q) /\ t.got = HandsOut(s, p, TRUE)
  OBVIOUS
<1> HIDE DEF q
<1>4. /\ ~ IsMessage(p) => Run(Tail(q), g, m)
      /\ IsMessage(p) => p.n = g + 1 /\ g < m /\ Run(Tail(q), g + 1, m)
  BY <1>1, <1>2, <1>3, RunOfRest
<1>5. CASE IsMessage(p)
  <2>1. t.got = Append(s.got, g + 1)
    BY <1>3, <1>4, <1>5 DEF HandsOut, IsMessage
  <2>2. g < v.served /\ g + 1 \in 1 .. MaxServed
    BY <1>1, <1>2, <1>4, <1>5
  <2>3. Numbered(t, v.served) /\ Len(t.got) = g + 1
    BY <1>1, <2>1, <2>2, NumberedMore
  <2>4. Run(Coming(t), Len(t.got), m)
    BY <1>3, <1>4, <1>5, <2>3
  <2> QED BY <1>2, <2>3, <2>4 DEF Followed
<1>6. CASE ~ IsMessage(p)
  <2>1. t.got = s.got
    BY <1>3, <1>6 DEF HandsOut, IsMessage
  <2>2. Run(Coming(t), Len(t.got), m)
    BY <1>3, <1>4, <1>6, <2>1
  <2> QED BY <1>2, <2>1, <2>2 DEF Followed, Numbered
<1> QED BY <1>5, <1>6

\* The Socket stays on its transport.
LEMMA StepFollowed ==
  ASSUME NEW s \in Client, NEW t \in Client, NEW v, v.served \in Nat, v.served <= MaxServed,
         Numbered(s, v.served), Followed(s, v), Polls(s), Moves(s, t), InStep(s, t),
         t.transport = s.transport, ~ Closed(t), ~ Closed(s),
         s.transport = "polling" => s.poll.heard
  PROVE  Numbered(t, v.served) /\ Followed(t, v)
<1>1. s.transport \in {"polling", "websocket"} /\ s.payload \in Seq(DownPacket)
  BY ComingType
<1>2. s.transport = "websocket" => (CanLeave(t, v) => CanLeave(s, v))
  BY DEF CanLeave, Moves
<1>3. CASE SameIn(s, t)
  <2>1. Coming(t) = Coming(s) /\ t.got = s.got /\ t.get = s.get
    BY <1>3 DEF Coming, SameIn
  <2>2. CanLeave(t, v) => CanLeave(s, v)
    BY <1>1, <1>2, <2>1 DEF CanLeave
  <2> QED BY <2>1, <2>2, FollowedSame DEF Numbered
<1>4. CASE Takes(s, t)
  <2>1. s.transport = "polling" /\ Coming(t) = Coming(s) /\ t.got = s.got /\ s.get = "answered"
    BY <1>1, <1>4 DEF Coming, Takes, Polls, SameGot
  <2>2. CanLeave(t, v) => CanLeave(s, v)
    BY <2>1 DEF CanLeave
  <2> QED BY <2>1, <2>2, FollowedSame DEF Numbered
<1>5. CASE ReadsOne(s, t)
  <2>1. /\ s.transport = "polling" /\ s.poll.heard /\ Coming(s) = s.payload /\ s.payload # <<>>
        /\ Coming(t) = t.payload /\ t.get = s.get
    BY <1>1, <1>5 DEF Coming, ReadsOne, Polls
  <2>2. ~ Ending(Head(s.payload)) /\ t.payload = Tail(s.payload)
    BY <1>5, <2>1 DEF ReadsOne, Ending
  <2>3. t.got = HandsOut(s, Head(s.payload), TRUE)
    BY <1>5, <2>1 DEF ReadsOne
  <2>4. CanLeave(t, v) => CanLeave(s, v)
    <3> SUFFICES ASSUME CanLeave(t, v)
                 PROVE  CanLeave(s, v)
      OBVIOUS
    <3>1. \A i \in 1 .. Len(Tail(s.payload)) : ~ Ending(Tail(s.payload)[i])
      BY <2>1, <2>2 DEF CanLeave
    <3>2. ASSUME NEW i \in 1 .. Len(s.payload)
          PROVE  ~ Ending(s.payload[i])
      <4>1. CASE i = 1
        <5>1. Head(s.payload) = s.payload[1]
          BY <1>1, <2>1, TailDown
        <5> QED BY <2>2, <4>1, <5>1
      <4>2. CASE i # 1
        <5>1. i - 1 \in 1 .. Len(Tail(s.payload)) /\ Tail(s.payload)[i - 1] = s.payload[i]
          BY <1>1, <2>1, <4>2, TailDown
        <5> QED BY <3>1, <5>1
      <4> QED BY <4>1, <4>2
    <3> QED BY <2>1, <3>2 DEF CanLeave
  <2> QED BY <2>1, <2>2, <2>3, <2>4, NextOne
<1>6. CASE StopsReading(s, t)
  <2>1. /\ s.transport = "polling" /\ Coming(s) = <<>> /\ s.get = "idle" /\ t.got = s.got
        /\ Coming(t) = <<>>
    BY <1>1, <1>6 DEF Coming, StopsReading, Polls, SameGot
  <2>2. CanLeave(t, v) => CanLeave(s, v)
    BY <2>1 DEF CanLeave
  <2> QED BY <2>1, <2>2, FollowedSame DEF Numbered
<1>7. ~ PollIsLost(s, t)
  BY <1>1 DEF PollIsLost, Polls
<1>8. CASE WsReads(s, t) /\ s.transport = "polling"
  <2>1. Coming(t) = Coming(s) /\ t.got = s.got /\ t.get = s.get
    BY <1>8 DEF Coming, WsReads, HandsOut
  <2>2. CanLeave(t, v) => CanLeave(s, v)
    BY <1>8, <2>1 DEF CanLeave
  <2> QED BY <2>1, <2>2, FollowedSame DEF Numbered
<1>9. CASE WsReads(s, t) /\ s.transport = "websocket"
  <2>1. /\ Coming(s) = s.down /\ s.down # <<>> /\ Coming(t) = Tail(s.down)
        /\ t.got = HandsOut(s, Head(s.down), TRUE)
    BY <1>9 DEF Coming, WsReads
  <2> QED BY <1>2, <1>9, <2>1, NextOne
<1> QED BY <1>1, <1>3, <1>4, <1>5, <1>6, <1>7, <1>8, <1>9 DEF InStep

\* The Socket moves over to the WebSocket, which has carried nothing but the probe yet.
LEMMA MoveFollowed ==
  ASSUME NEW s \in Client, NEW t \in Client, NEW v, v.served \in Nat,
         Numbered(s, v.served), Followed(s, v), Polls(s), Moves(s, t), InStep(s, t),
         s.transport = "polling", t.transport = "websocket", ~ Closed(t), s.poll.heard
  PROVE  Numbered(t, v.served) /\ Followed(t, v)
<1>1. /\ s.down \in Seq(DownPacket) /\ Len(s.got) \in Nat /\ Coming(s) \in Seq(DownPacket)
      /\ t.down \in Seq(DownPacket)
  BY ComingType
<1>2. ~ t.poll.polling
  BY DEF Moves
<1>3. /\ s.get = "idle" /\ Coming(s) = <<>> /\ t.got = s.got
      /\ (t.down = s.down \/ (s.down # <<>> /\ t.down = Tail(s.down)))
  BY <1>2, MovingOver
<1>4. PICK m \in Nat : /\ m <= v.served /\ Run(Coming(s), Len(s.got), m)
                       /\ CanLeave(s, v) => Run(v.out, m, v.served)
  BY DEF Followed
<1>5. m = Len(s.got)
  <2>1. \A i \in 1 .. Len(Coming(s)) : FALSE
    <3>1. Len(<<>>) = 0
      OBVIOUS
    <3> QED BY <1>3, <3>1
  <2> QED BY <1>1, <1>4, <2>1, RunOfNone
<1>6. \A i \in 1 .. Len(t.down) : ~ IsMessage(t.down[i])
  <2>1. \A i \in 1 .. Len(s.down) : s.down[i].type = "probe"
    BY DEF Polls
  <2>2. CASE t.down = s.down
    BY <2>1, <2>2 DEF IsMessage
  <2>3. CASE s.down # <<>> /\ t.down = Tail(s.down)
    BY <1>1, <2>1, <2>3, TailDown DEF IsMessage
  <2> QED BY <1>3, <2>2, <2>3
<1>7. Run(Coming(t), Len(t.got), m)
  <2>1. Coming(t) = t.down /\ Len(t.got) = m
    BY <1>3, <1>5 DEF Coming
  <2> QED BY <1>1, <1>6, <2>1, RunOfNone
<1>8. CanLeave(t, v) => CanLeave(s, v)
  <2>1. Len(<<>>) = 0
    OBVIOUS
  <2> QED BY <1>3, <2>1 DEF CanLeave
<1> QED BY <1>3, <1>4, <1>7, <1>8 DEF Followed, Numbered

\* A closed Socket hands out nothing.
LEMMA GotKept ==
  ASSUME NEW s, NEW t, InStep(s, t), Closed(s)
  PROVE  t.got = s.got
BY DEF InStep, SameIn, Takes, ReadsOne, StopsReading, PollIsLost, WsReads, SameGot, HandsOut

\* What is handed out is numbered, also by a step that closes the Socket.
LEMMA NextNumbered ==
  ASSUME NEW s \in Client, NEW t, NEW v, v.served \in Nat, v.served <= MaxServed,
         Numbered(s, v.served), Followed(s, v), Coming(s) # <<>>,
         t.got = HandsOut(s, Head(Coming(s)), TRUE)
  PROVE  Numbered(t, v.served)
<1> DEFINE q == Coming(s)
           p == Head(q)
           g == Len(s.got)
<1>1. q \in Seq(DownPacket) /\ g \in Nat /\ s.got \in Seq(1 .. MaxServed) /\ MaxServed \in Nat
  BY ComingType, BoundsAssumption
<1>2. PICK m \in Nat : m <= v.served /\ Run(q, g, m)
  BY DEF Followed
<1>3. q # <<>> /\ t.got = HandsOut(s, p, TRUE)
  OBVIOUS
<1> HIDE DEF q
<1>4. IsMessage(p) => p.n = g + 1 /\ g < m
  BY <1>1, <1>2, <1>3, RunOfRest
<1>5. CASE t.got = Append(s.got, p.n) /\ IsMessage(p)
  <2>1. p.n = g + 1 /\ g < m
    BY <1>4, <1>5
  <2>2. t.got = Append(s.got, g + 1)
    BY <1>5, <2>1
  <2>3. g < v.served /\ g + 1 \in 1 .. MaxServed
    <3> HIDE DEF g, p
    <3> QED BY <1>1, <1>2, <2>1
  <2> QED BY <1>1, <2>2, <2>3, NumberedMore
<1>6. CASE t.got = s.got
  BY <1>6 DEF Numbered
<1> QED BY <1>3, <1>5, <1>6 DEF HandsOut, IsMessage

\* No callback of the browser hands out a message again, or too early.
LEMMA StepNumbered ==
  ASSUME NEW s \in Client, NEW t, NEW v, v.served \in Nat, v.served <= MaxServed,
         Numbered(s, v.served), Followed(s, v), Polls(s), InStep(s, t),
         s.transport = "polling" => s.poll.heard
  PROVE  Numbered(t, v.served)
<1>1. s.transport \in {"polling", "websocket"}
  BY ComingType
<1>2. CASE t.got = s.got
  BY <1>2 DEF Numbered
<1>3. CASE ReadsOne(s, t)
  <2>1. /\ s.poll.heard /\ Coming(s) = s.payload /\ s.payload # <<>>
    BY <1>1, <1>3 DEF Coming, ReadsOne, Polls
  <2>2. t.got = HandsOut(s, Head(s.payload), TRUE)
    BY <1>3, <2>1 DEF ReadsOne
  <2> QED BY <2>1, <2>2, NextNumbered
<1>4. CASE WsReads(s, t) /\ s.transport = "websocket"
  <2>1. Coming(s) = s.down /\ s.down # <<>> /\ t.got = HandsOut(s, Head(s.down), TRUE)
    BY <1>4 DEF Coming, WsReads
  <2> QED BY <2>1, NextNumbered
<1>5. CASE WsReads(s, t) /\ s.transport = "polling"
  BY <1>2, <1>5 DEF WsReads, HandsOut
<1> QED BY <1>1, <1>2, <1>3, <1>4, <1>5 DEF InStep, SameIn, Takes, StopsReading, PollIsLost, SameGot

\* No callback of the browser breaks the invariant.
LEMMA InnerDown ==
  ASSUME SafeInv, Safe(c'), Down(c, srv), UNCHANGED srv, Moves(c, c'), InStep(c, c')
  PROVE  Down(c', srv')
<1>1. /\ c \in Client /\ c' \in Client /\ srv.served \in Nat /\ srv.served <= MaxServed
      /\ Numbered(c, srv.served) /\ (srv.state = "none" => srv.served = 0)
      /\ c.transport \in {"polling", "websocket"} /\ c'.transport \in {"polling", "websocket"}
  BY ComingType DEF SafeInv, Safe, Basic, Typed, Server, Down
<1>2. CASE Closed(c)
  <2>1. Closed(c') /\ c'.got = c.got
    BY <1>2, GotKept DEF Moves
  <2> QED BY <1>1, <2>1 DEF Down, Numbered
<1>3. CASE ~ Closed(c)
  <2>1. /\ Polls(c) /\ Followed(c, srv) /\ (c.transport = "polling" => c.poll.heard)
        /\ (c.transport = "polling" => srv.on = "polling")
    BY <1>3 DEF Down, SafeInv, Safe, PollOpen, Closed
  <2>2. Numbered(c', srv.served)
    BY <1>1, <2>1, StepNumbered
  <2>3. CASE Closed(c')
    BY <1>1, <2>2, <2>3 DEF Down
  <2>4. CASE ~ Closed(c') /\ c'.transport = c.transport
    <3>1. Polls(c')
      BY <1>1, <2>1, <2>4, StepPolls
    <3>2. Followed(c', srv)
      BY <1>1, <1>3, <2>1, <2>4, StepFollowed
    <3> QED BY <1>1, <2>1, <2>2, <2>4, <3>1, <3>2 DEF Down
  <2>5. CASE ~ Closed(c') /\ c.transport = "polling" /\ c'.transport = "websocket"
    <3>1. Polls(c')
      BY <1>1, <2>1, <2>5, StepPolls
    <3>2. Followed(c', srv)
      BY <1>1, <1>3, <2>1, <2>5, MoveFollowed
    <3> QED BY <1>1, <2>2, <2>5, <3>1, <3>2 DEF Down
  <2> QED BY <1>1, <2>3, <2>4, <2>5 DEF Moves
<1> QED BY <1>2, <1>3

\* What the server and the network do: what is handed out stays so.
LEMMA OutsideDown ==
  ASSUME NEW s \in Client, NEW t, NEW v, NEW w, Down(s, v), t.got = s.got, t.ready = s.ready,
         v.served \in Nat, w.served \in Nat, v.served <= w.served, w.served <= MaxServed,
         w.state = "none" => w.served = 0,
         ~ Closed(s) /\ Polls(s) /\ Followed(s, v)
           /\ (s.transport = "polling" => v.on = "polling") =>
           Polls(t) /\ Followed(t, w) /\ (t.transport = "polling" => w.on = "polling")
  PROVE  Down(t, w)
<1>1. Len(s.got) \in Nat /\ MaxServed \in Nat
  BY ComingType, BoundsAssumption
<1>2. Numbered(t, w.served)
  BY <1>1 DEF Down, Numbered
<1> QED BY <1>2 DEF Down, Closed

\* A request that is not idle is the poll of a polling Socket that reads nothing.
LEMMA PollUnderWay ==
  ASSUME NEW s \in Client, Polls(s), s.get # "idle"
  PROVE  s.transport = "polling" /\ ~ s.reading /\ s.poll.polling /\ Coming(s) = s.answer
BY ComingType DEF Polls, Coming

\* Nothing is on its way.
LEMMA NothingComes ==
  ASSUME NEW s \in Client, NEW v, Followed(s, v), Coming(s) = <<>>
  PROVE  Len(s.got) <= v.served /\ (CanLeave(s, v) => Run(v.out, Len(s.got), v.served))
<1>1. Coming(s) \in Seq(DownPacket) /\ Len(s.got) \in Nat
  BY ComingType
<1>2. PICK m \in Nat : /\ m <= v.served /\ Run(Coming(s), Len(s.got), m)
                       /\ CanLeave(s, v) => Run(v.out, m, v.served)
  BY DEF Followed
<1>3. \A i \in 1 .. Len(Coming(s)) : FALSE
  <2>1. Len(<<>>) = 0
    OBVIOUS
  <2> QED BY <2>1
<1>4. m = Len(s.got)
  BY <1>1, <1>2, <1>3, RunOfNone
<1> QED BY <1>2, <1>4

\* Nothing is a run of no numbers.
LEMMA EmptyRun ==
  ASSUME NEW n \in Nat
  PROVE  Run(<<>>, n, n)
<1>1. <<>> \in Seq(DownPacket) /\ Len(<<>>) = 0
  OBVIOUS
<1>2. \A i \in 1 .. Len(<<>>) : ~ IsMessage(<<>>[i])
  BY <1>1
<1> QED BY <1>1, <1>2, RunOfNone

\* So is a packet that is no message.
LEMMA OneOther ==
  ASSUME NEW p \in DownPacket, ~ IsMessage(p), NEW n \in Nat
  PROVE  Run(<<p>>, n, n)
<1>1. <<p>> \in Seq(DownPacket) /\ \A i \in 1 .. Len(<<p>>) : <<p>>[i] = p
  OBVIOUS
<1>2. \A i \in 1 .. Len(<<p>>) : ~ IsMessage(<<p>>[i])
  BY <1>1
<1> QED BY <1>1, <1>2, RunOfNone

\* A message is a run of one number.
LEMMA OneMessage ==
  ASSUME NEW n \in Nat
  PROVE  Run(<<Message(n + 1)>>, n, n + 1)
<1> DEFINE q == <<Message(n + 1)>>
<1>1. Len(q) = 1 /\ q[1] = Message(n + 1)
  OBVIOUS
<1>2. Message(n + 1).type = "message" /\ Message(n + 1).n = n + 1
  BY DEF Message
<1> HIDE DEF q
<1>3. \A i \in 1 .. Len(q) : i = 1 /\ ~ \E j \in 1 .. i - 1 : TRUE
  BY <1>1
<1>4. \A k \in n + 1 .. n + 1 : k = n + 1
  OBVIOUS
<1>5. n <= n + 1 /\ n + 1 \in n + 1 .. n + 1 /\ 1 \in 1 .. Len(q)
  BY <1>1
<1> QED BY <1>1, <1>2, <1>3, <1>4, <1>5 DEF Run, IsMessage, q

\* A run goes on with one more packet.
LEMMA RunAppended ==
  ASSUME NEW q \in Seq(DownPacket), NEW p \in DownPacket, NEW d, d = Append(q, p),
         NEW lo \in Nat, NEW m \in Nat, NEW hi \in Nat, Run(q, lo, m), Run(<<p>>, m, hi)
  PROVE  Run(d, lo, hi)
<1>1. <<p>> \in Seq(DownPacket) /\ d = q \o <<p>>
  BY AppendProperty
<1> QED BY <1>1, RunOfBoth

\* The handshake: the session begins with nothing but the open packet.
LEMMA AcceptDown ==
  ASSUME SafeInv, Down(c, srv), Accept
  PROVE  Down(c', srv')
<1>1. /\ c \in Client /\ srv \in Server /\ srv.served \in Nat /\ srv.served = 0
      /\ srv.served <= MaxServed
  BY DEF SafeInv, Safe, Basic, Typed, Server, Down, Accept
<1>2. c' = c \/ c' = [c EXCEPT !.link = "accepted"]
  BY DEF Accept
<1>3. srv' = [srv EXCEPT !.state = "open", !.on = c.transport, !.out = <<Packet("open")>>]
  BY DEF Accept
<1>4. /\ srv'.state = "open" /\ srv'.on = c.transport /\ srv'.served = 0
      /\ srv'.out = <<Packet("open")>>
  BY <1>1, <1>3 DEF Server
<1>5. /\ c'.got = c.got /\ c'.ready = c.ready /\ c'.transport = c.transport
      /\ c'.reading = c.reading /\ c'.payload = c.payload /\ c'.answer = c.answer
      /\ c'.down = c.down /\ c'.get = c.get /\ c'.poll = c.poll
  <2>1. CASE c' = c
    BY <2>1
  <2>2. CASE c' = [c EXCEPT !.link = "accepted"]
    BY <1>1, <2>2 DEF Client
  <2> QED BY <1>2, <2>1, <2>2
<1>6. ASSUME Polls(c), Followed(c, srv)
      PROVE  Polls(c') /\ Followed(c', srv') /\ (c'.transport = "polling" => srv'.on = "polling")
  <2>1. PICK m \in Nat : m <= srv.served /\ Run(Coming(c), Len(c.got), m)
    BY <1>6 DEF Followed
  <2>2. m = 0
    BY <1>1, <2>1
  <2>3. Coming(c') = Coming(c)
    BY <1>5 DEF Coming
  <2>4. Packet("open") \in DownPacket /\ ~ IsMessage(Packet("open"))
    BY DEF Packet, DownPacket, IsMessage
  <2>5. Run(<<Packet("open")>>, 0, 0)
    BY <2>4, OneOther
  <2>6. Polls(c')
    BY <1>5, <1>6 DEF Polls
  <2> QED BY <1>4, <1>5, <2>1, <2>2, <2>3, <2>5, <2>6 DEF Followed
<1> QED BY <1>1, <1>4, <1>5, <1>6, OutsideDown

\* What is on its way to the Socket, and the server, stay as they are, or the server is gone.
LEMMA LeftAlone ==
  ASSUME SafeInv, Down(c, srv),
         c'.got = c.got, c'.ready = c.ready, c'.transport = c.transport,
         c'.reading = c.reading, c'.payload = c.payload, c'.answer = c.answer,
         c'.down = c.down, c'.poll = c.poll,
         c'.get = c.get \/ (c.get = "asked" /\ c'.get = "failed"),
         srv'.served = srv.served, srv'.on = srv.on, srv'.out = srv.out,
         srv'.state = "none" => srv.state = "none",
         CanLeave(c', srv') => CanLeave(c, srv)
  PROVE  Down(c', srv')
<1>1. /\ c \in Client /\ srv.served \in Nat /\ srv.served <= MaxServed
      /\ (srv.state = "none" => srv.served = 0)
  BY DEF SafeInv, Safe, Basic, Typed, Server, Down
<1>2. Coming(c') = Coming(c)
  BY DEF Coming
<1>3. Polls(c) => Polls(c')
  BY DEF Polls
<1>4. Followed(c, srv) => Followed(c', srv')
  BY <1>2 DEF Followed
<1> QED BY <1>1, <1>3, <1>4, OutsideDown

\* The probing WebSocket is accepted: it carries nothing yet.
LEMMA AcceptProbeDown ==
  ASSUME SafeInv, Down(c, srv), AcceptProbe
  PROVE  Down(c', srv')
<1>1. c \in Client
  BY DEF SafeInv, Safe, Basic, Typed
<1>2. c' = [c EXCEPT !.link = "accepted"] /\ srv' = srv /\ c.link = "connecting"
  BY DEF AcceptProbe
<1>3. /\ c'.got = c.got /\ c'.ready = c.ready /\ c'.transport = c.transport
      /\ c'.reading = c.reading /\ c'.payload = c.payload /\ c'.answer = c.answer
      /\ c'.down = c.down /\ c'.get = c.get /\ c'.poll = c.poll
  BY <1>1, <1>2 DEF Client
<1>4. CanLeave(c', srv') => CanLeave(c, srv)
  BY <1>2, <1>3 DEF CanLeave, Coming
<1> QED BY <1>2, <1>3, <1>4, LeftAlone

\* The next message of the server has the next number.
LEMMA ServeDown ==
  ASSUME SafeInv, Down(c, srv), Serve
  PROVE  Down(c', srv')
<1>1. /\ c \in Client /\ srv \in Server /\ srv.served \in Nat /\ srv.served < MaxServed
      /\ MaxServed \in Nat /\ srv.out \in Seq(DownPacket)
  BY BoundsAssumption DEF SafeInv, Safe, Basic, Typed, Server, Serve
<1> DEFINE n == srv.served
           o == srv.out
           p == Message(n + 1)
<1>2. /\ srv' = [srv EXCEPT !.served = @ + 1, !.out = Append(@, Message(srv.served + 1))]
      /\ c' = c /\ srv.state = "open"
  BY DEF Serve
<1>3. srv'.state = "open" /\ srv'.on = srv.on /\ srv'.served = n + 1 /\ srv'.out = Append(o, p)
  BY <1>1, <1>2 DEF Server
<1>4. p \in DownPacket
  <2>1. n + 1 \in 1 .. MaxServed
    BY <1>1
  <2> QED BY <2>1 DEF Message, DownPacket
<1>5. ASSUME Followed(c, srv)
      PROVE  Followed(c', srv')
  <2>1. PICK m \in Nat : /\ m <= n /\ Run(Coming(c), Len(c.got), m)
                         /\ CanLeave(c, srv) => Run(o, m, n)
    BY <1>5 DEF Followed
  <2>2. CanLeave(c, srv') => CanLeave(c, srv)
    BY <1>2 DEF CanLeave
  <2>3. Run(<<p>>, n, n + 1)
    BY <1>1, OneMessage
  <2>4. n + 1 \in Nat /\ o \in Seq(DownPacket) /\ n \in Nat
    BY <1>1
  <2>5. Run(o, m, n) => Run(Append(o, p), m, n + 1)
    <3> HIDE DEF p, o, n
    <3> QED BY <1>4, <2>1, <2>4, <2>3, RunAppended
  <2>6. m <= n + 1
    BY <1>1, <2>1
  <2> QED BY <1>2, <1>3, <2>1, <2>2, <2>5, <2>6 DEF Followed
<1>6. n <= n + 1 /\ n + 1 <= MaxServed /\ n + 1 \in Nat
  BY <1>1
<1> QED BY <1>1, <1>2, <1>3, <1>5, <1>6, OutsideDown

\* The answer takes over all that the server has.
LEMMA AnswerDown ==
  ASSUME SafeInv, Down(c, srv), Answer
  PROVE  Down(c', srv')
<1>1. /\ c \in Client /\ srv \in Server /\ srv.served \in Nat /\ srv.served <= MaxServed
      /\ srv.out \in Seq(DownPacket) /\ Len(c.got) \in Nat
  BY ComingType DEF SafeInv, Safe, Basic, Typed, Server, Down
<1> DEFINE a == IF srv.out = <<>> THEN <<Packet("noop")>> ELSE srv.out
<1>2. /\ c' = [c EXCEPT !.get = "answered", !.answer = a]
      /\ srv' = [srv EXCEPT !.out = <<>>] /\ srv.state = "open" /\ c.get = "asked"
  BY DEF Answer
<1>3. a = IF srv.out = <<>> THEN <<Packet("noop")>> ELSE srv.out
  OBVIOUS
<1> HIDE DEF a
<1>4. srv'.state = "open" /\ srv'.on = srv.on /\ srv'.served = srv.served /\ srv'.out = <<>>
  BY <1>1, <1>2 DEF Server
<1>5. /\ c'.got = c.got /\ c'.ready = c.ready /\ c'.transport = c.transport
      /\ c'.reading = c.reading /\ c'.payload = c.payload /\ c'.answer = a
      /\ c'.down = c.down /\ c'.get = "answered" /\ c'.poll = c.poll
  BY <1>1, <1>2 DEF Client
<1>6. ASSUME Polls(c), Followed(c, srv)
      PROVE  Polls(c') /\ Followed(c', srv')
  <2>1. /\ c.transport = "polling" /\ ~ c.reading /\ c.poll.polling /\ Coming(c) = <<>>
        /\ Coming(c') = a
    <3>1. c.transport = "polling" /\ ~ c.reading /\ c.poll.polling /\ Coming(c) = c.answer
      BY <1>1, <1>2, <1>6, PollUnderWay
    <3>2. c.answer = <<>>
      BY <1>2, <1>6 DEF Polls
    <3> QED BY <1>5, <3>1, <3>2 DEF Coming
  <2>2. Polls(c')
    BY <1>5, <1>6, <2>1 DEF Polls
  <2>3. CanLeave(c, srv)
    <3>1. Len(<<>>) = 0
      OBVIOUS
    <3> QED BY <1>2, <2>1, <3>1 DEF CanLeave
  <2>4. Len(c.got) <= srv.served /\ Run(srv.out, Len(c.got), srv.served)
    BY <1>1, <1>6, <2>1, <2>3, NothingComes
  <2>5. Run(<<>>, srv.served, srv.served)
    BY <1>1, EmptyRun
  <2>6. Run(a, Len(c.got), srv.served)
    <3>1. CASE srv.out = <<>>
      <4>1. \A i \in 1 .. Len(srv.out) : ~ IsMessage(srv.out[i])
        <5>1. Len(<<>>) = 0
          OBVIOUS
        <5> QED BY <3>1, <5>1
      <4>2. Len(c.got) = srv.served
        BY <1>1, <2>4, <4>1, RunOfNone
      <4>3. Packet("noop") \in DownPacket /\ ~ IsMessage(Packet("noop"))
        BY DEF Packet, DownPacket, IsMessage
      <4> QED BY <1>1, <1>3, <3>1, <4>2, <4>3, OneOther
    <3>2. CASE srv.out # <<>>
      BY <1>3, <2>4, <3>2
    <3> QED BY <3>1, <3>2
  <2>7. Followed(c', srv')
    BY <1>1, <1>4, <1>5, <2>1, <2>5, <2>6 DEF Followed
  <2> QED BY <2>2, <2>7
<1> QED BY <1>1, <1>4, <1>5, <1>6, OutsideDown

\* RunOfBoth, of packets from the server.
LEMMA RunJoined ==
  ASSUME NEW q \in Seq(DownPacket), NEW p \in Seq(DownPacket), NEW d, d = q \o p,
         NEW lo \in Nat, NEW m \in Nat, NEW hi \in Nat, Run(q, lo, m), Run(p, m, hi)
  PROVE  Run(d, lo, hi)
BY RunOfBoth

\* Pongs carry no numbers.
LEMMA OnlyPongs ==
  ASSUME NEW q \in Seq(DownPacket), \A i \in 1 .. Len(q) : q[i] = Packet("pong"), NEW n \in Nat
  PROVE  Run(q, n, n)
<1>1. ~ IsMessage(Packet("pong"))
  BY DEF Packet, IsMessage
<1>2. \A i \in 1 .. Len(q) : ~ IsMessage(q[i])
  BY <1>1
<1> QED BY <1>2, RunOfNone

\* The server may add pongs.
LEMMA PongsFollow ==
  ASSUME NEW s, NEW t, NEW v, NEW w, Followed(s, v), v.out \in Seq(DownPacket), v.served \in Nat,
         NEW q \in Seq(DownPacket), \A i \in 1 .. Len(q) : q[i] = Packet("pong"),
         w.out = v.out \o q, w.served = v.served, Coming(t) = Coming(s), t.got = s.got,
         CanLeave(t, w) => CanLeave(s, v)
  PROVE  Followed(t, w)
<1>1. PICK m \in Nat : /\ m <= v.served /\ Run(Coming(s), Len(s.got), m)
                       /\ CanLeave(s, v) => Run(v.out, m, v.served)
  BY DEF Followed
<1>2. Run(q, v.served, v.served)
  BY OnlyPongs
<1>3. ASSUME Run(v.out, m, v.served)
      PROVE  Run(w.out, m, v.served)
  BY <1>2, <1>3, RunJoined
<1> QED BY <1>1, <1>3 DEF Followed

\* The server takes packets in and answers pings.
LEMMA TakenIn ==
  ASSUME SafeInv, Down(c, srv), Peer(c, srv), NEW ps \in Seq(UpPacket), srv' = Take(ps),
         c'.got = c.got, c'.ready = c.ready, c'.transport = c.transport,
         c'.reading = c.reading, c'.payload = c.payload, c'.answer = c.answer,
         c'.down = c.down, c'.poll = c.poll, c'.get = c.get, c'.link = c.link
  PROVE  Down(c', srv')
<1>1. /\ c \in Client /\ srv \in Server /\ srv.served \in Nat /\ srv.served <= MaxServed
      /\ srv.out \in Seq(DownPacket) /\ (srv.state = "none" => srv.served = 0)
      /\ \A i \in 1 .. Len(srv.out) : srv.out[i].type \in {"open", "message", "pong"}
  BY DEF SafeInv, Safe, Basic, Typed, Server, Down, Peer
<1>2. /\ srv'.state = srv.state /\ srv'.on = srv.on /\ srv'.served = srv.served
      /\ \E q \in Seq(DownPacket) : /\ srv'.out = srv.out \o q
                                    /\ \A i \in 1 .. Len(q) : q[i] = Packet("pong")
  BY <1>1, TakeDoes
<1>3. PICK q \in Seq(DownPacket) : /\ srv'.out = srv.out \o q
                                   /\ \A i \in 1 .. Len(q) : q[i] = Packet("pong")
  BY <1>2
<1>4. Coming(c') = Coming(c)
  BY DEF Coming
<1>5. CanLeave(c', srv') => CanLeave(c, srv)
  BY <1>2, <1>4 DEF CanLeave
<1>6. Followed(c, srv) => Followed(c', srv')
  BY <1>1, <1>2, <1>3, <1>4, <1>5, PongsFollow
<1>7. Polls(c) => Polls(c')
  BY DEF Polls
<1> QED BY <1>1, <1>2, <1>6, <1>7, OutsideDown

\* The server reads a POST and answers its pings.
LEMMA ReadPostDown ==
  ASSUME SafeInv, Down(c, srv), Peer(c, srv), ReadPost
  PROVE  Down(c', srv')
<1>1. c \in Client /\ c.posted \in Seq(UpPacket)
  BY DEF SafeInv, Safe, Basic, Typed, Client
<1>2. c' = [c EXCEPT !.post = "answered", !.posted = <<>>] /\ srv' = Take(c.posted)
  BY DEF ReadPost
<1>3. /\ c'.got = c.got /\ c'.ready = c.ready /\ c'.transport = c.transport
      /\ c'.reading = c.reading /\ c'.payload = c.payload /\ c'.answer = c.answer
      /\ c'.down = c.down /\ c'.get = c.get /\ c'.poll = c.poll /\ c'.link = c.link
  BY <1>1, <1>2 DEF Client
<1> QED BY <1>1, <1>2, <1>3, TakenIn

\* The server learns that the Socket is closed.
LEMMA ByeDown ==
  ASSUME SafeInv, Down(c, srv), FlowInv, ReadBye \/ SeesWsClosed
  PROVE  Down(c', srv')
<1>1. /\ c \in Client /\ srv \in Server /\ srv.served \in Nat /\ srv.served <= MaxServed
      /\ (srv.state = "none" => srv.served = 0) /\ Shape(c)
  BY DEF SafeInv, Safe, Basic, Typed, Server, Down, FlowInv, Good, Base
<1>2. CASE ReadBye
  <2>1. /\ c' = [c EXCEPT !.bye = FALSE] /\ srv' = [srv EXCEPT !.state = "gone"] /\ c.bye
    BY <1>2 DEF ReadBye
  <2>2. c'.got = c.got /\ c'.ready = c.ready /\ Closed(c)
    BY <1>1, <2>1 DEF Client, Shape
  <2>3. srv'.served = srv.served /\ srv'.state = "gone"
    BY <1>1, <2>1 DEF Server
  <2> QED BY <1>1, <2>2, <2>3, OutsideDown
<1>3. CASE SeesWsClosed
  <2>1. /\ srv' = [srv EXCEPT !.probed = FALSE,
                              !.state = IF srv.on = "websocket" THEN "gone" ELSE srv.state]
        /\ c' = c /\ srv.state = "open"
    BY <1>3 DEF SeesWsClosed
  <2>2. /\ srv'.served = srv.served /\ srv'.on = srv.on /\ srv'.out = srv.out
        /\ srv'.state \in {"gone", "open"}
    BY <1>1, <2>1 DEF Server
  <2>3. CanLeave(c', srv') => CanLeave(c, srv)
    BY <2>1 DEF CanLeave
  <2>4. srv'.state # "none"
    BY <2>2
  <2> QED BY <2>1, <2>2, <2>3, <2>4, LeftAlone
<1> QED BY <1>2, <1>3

\* What the server has goes over the WebSocket, behind what it sent there before.
LEMMA PushDown ==
  ASSUME SafeInv, Down(c, srv), PushWs
  PROVE  Down(c', srv')
<1>1. /\ c \in Client /\ srv \in Server /\ srv.served \in Nat /\ srv.served <= MaxServed
      /\ srv.out \in Seq(DownPacket) /\ Len(c.got) \in Nat /\ c.down \in Seq(DownPacket)
      /\ c.transport \in {"polling", "websocket"}
  BY ComingType DEF SafeInv, Safe, Basic, Typed, Server, Down
<1>2. /\ c' = [c EXCEPT !.down = @ \o srv.out] /\ srv' = [srv EXCEPT !.out = <<>>]
      /\ srv.state = "open" /\ srv.on = "websocket" /\ c.link = "up"
  BY DEF PushWs
<1>3. srv'.state = "open" /\ srv'.on = srv.on /\ srv'.served = srv.served /\ srv'.out = <<>>
  BY <1>1, <1>2 DEF Server
<1>4. /\ c'.got = c.got /\ c'.ready = c.ready /\ c'.transport = c.transport
      /\ c'.reading = c.reading /\ c'.payload = c.payload /\ c'.answer = c.answer
      /\ c'.down = c.down \o srv.out /\ c'.get = c.get /\ c'.poll = c.poll
  BY <1>1, <1>2 DEF Client
<1>5. ASSUME Polls(c), Followed(c, srv), c.transport = "polling" => srv.on = "polling"
      PROVE  Polls(c') /\ Followed(c', srv') /\ (c'.transport = "polling" => srv'.on = "polling")
  <2>1. c.transport = "websocket"
    BY <1>1, <1>2, <1>5
  <2>2. Polls(c')
    BY <1>4, <1>5, <2>1 DEF Polls
  <2>3. Coming(c) = c.down /\ Coming(c') = c'.down /\ CanLeave(c, srv)
    BY <1>2, <1>4, <2>1 DEF Coming, CanLeave
  <2>4. PICK m \in Nat : /\ m <= srv.served /\ Run(c.down, Len(c.got), m)
                         /\ Run(srv.out, m, srv.served)
    BY <1>5, <2>3 DEF Followed
  <2>5. Run(c'.down, Len(c.got), srv.served)
    BY <1>1, <1>4, <2>4, RunJoined
  <2>6. Run(<<>>, srv.served, srv.served)
    BY <1>1, EmptyRun
  <2>7. Followed(c', srv')
    BY <1>1, <1>3, <1>4, <2>3, <2>5, <2>6 DEF Followed
  <2> QED BY <1>4, <2>1, <2>2, <2>7
<1> QED BY <1>1, <1>3, <1>4, <1>5, OutsideDown

\* The server reads from the WebSocket; with an upgrade, it moves there.
LEMMA ReadWsDown ==
  ASSUME SafeInv, Down(c, srv), FlowInv, ReadWs
  PROVE  Down(c', srv')
<1>1. /\ c \in Client /\ srv \in Server /\ srv.served \in Nat /\ srv.served <= MaxServed
      /\ Len(c.got) \in Nat /\ c.down \in Seq(DownPacket) /\ c.up \in Seq(UpPacket)
      /\ (srv.state = "none" => srv.served = 0) /\ Shape(c) /\ Peer(c, srv)
      /\ c.transport \in {"polling", "websocket"}
  BY ComingType DEF SafeInv, Safe, Basic, Typed, Client, Server, Down, FlowInv, Good, Base
<1> DEFINE p == Head(c.up)
<1>2. /\ c' = [c EXCEPT !.up = Tail(@), !.down = IF p.type = "probe" THEN Append(@, p) ELSE @]
      /\ srv' = CASE p.type = "probe" -> [srv EXCEPT !.probed = TRUE]
                  [] p.type = "upgrade" -> [srv EXCEPT !.on = "websocket", !.probed = FALSE]
                  [] OTHER -> Take(<<p>>)
      /\ srv.state = "open" /\ c.up # <<>>
  BY DEF ReadWs
<1>3. p = c.up[1] /\ p \in UpPacket /\ 1 \in 1 .. Len(c.up) /\ <<p>> \in Seq(UpPacket)
  <2>1. Len(c.up) \in Nat /\ Len(c.up) > 0
    BY <1>1, <1>2
  <2> QED BY <1>1, <1>2, <2>1, TakeHead
<1> HIDE DEF p
<1>4. /\ c'.got = c.got /\ c'.ready = c.ready /\ c'.transport = c.transport
      /\ c'.reading = c.reading /\ c'.payload = c.payload /\ c'.answer = c.answer
      /\ c'.get = c.get /\ c'.poll = c.poll /\ c'.link = c.link
      /\ c'.down = IF p.type = "probe" THEN Append(c.down, p) ELSE c.down
  BY <1>1, <1>2 DEF Client
<1>5. c.transport = "polling" => p.type = "probe"
  BY <1>1, <1>3 DEF Shape
<1>6. CASE p.type = "probe"
  <2>1. srv' = [srv EXCEPT !.probed = TRUE]
    BY <1>2, <1>6
  <2>2. /\ srv'.state = srv.state /\ srv'.on = srv.on /\ srv'.served = srv.served
        /\ srv'.out = srv.out
    BY <1>1, <2>1 DEF Server
  <2>3. p \in DownPacket /\ ~ IsMessage(p)
    BY <1>3, <1>6 DEF UpPacket, DownPacket, IsMessage
  <2>4. c'.down = Append(c.down, p)
    BY <1>4, <1>6
  <2>5. ASSUME Polls(c), Followed(c, srv)
        PROVE  Polls(c') /\ Followed(c', srv')
    <3>1. CASE c.transport = "polling"
      <4>1. \A i \in 1 .. Len(c'.down) : c'.down[i].type = "probe"
        <5>1. /\ Len(c'.down) = Len(c.down) + 1 /\ Len(c.down) \in Nat
              /\ \A i \in 1 .. Len(c.down) : c'.down[i] = c.down[i]
              /\ c'.down[Len(c.down) + 1] = p
          BY <1>1, <2>3, <2>4, AppendProperty
        <5>2. \A i \in 1 .. Len(c.down) : c.down[i].type = "probe"
          BY <2>5, <3>1 DEF Polls
        <5> TAKE i \in 1 .. Len(c'.down)
        <5>3. i \in 1 .. Len(c.down) \/ i = Len(c.down) + 1
          BY <5>1
        <5> QED BY <1>6, <5>1, <5>2, <5>3
      <4>2. Polls(c')
        BY <1>4, <2>5, <3>1, <4>1 DEF Polls
      <4>3. Coming(c') = Coming(c)
        BY <1>4, <3>1 DEF Coming
      <4>4. CanLeave(c', srv') => CanLeave(c, srv)
        BY <1>4, <2>2, <4>3 DEF CanLeave
      <4> QED BY <1>4, <2>2, <2>5, <4>2, <4>3, <4>4 DEF Followed
    <3>2. CASE c.transport = "websocket"
      <4>1. Polls(c')
        BY <1>4, <2>5, <3>2 DEF Polls
      <4>2. Coming(c) = c.down /\ Coming(c') = c'.down /\ (CanLeave(c', srv') => CanLeave(c, srv))
        BY <1>4, <2>2, <3>2 DEF Coming, CanLeave
      <4>3. PICK m \in Nat : /\ m <= srv.served /\ Run(c.down, Len(c.got), m)
                             /\ CanLeave(c, srv) => Run(srv.out, m, srv.served)
        BY <2>5, <4>2 DEF Followed
      <4>4. Run(<<p>>, m, m)
        BY <2>3, OneOther
      <4>5. Run(c'.down, Len(c.got), m)
        BY <1>1, <2>3, <2>4, <4>3, <4>4, RunAppended
      <4> QED BY <1>4, <2>2, <4>1, <4>2, <4>3, <4>5 DEF Followed
    <3> QED BY <1>1, <3>1, <3>2
  <2> QED BY <1>1, <1>4, <2>2, <2>5, OutsideDown
<1>7. CASE p.type = "upgrade"
  <2>1. srv' = [srv EXCEPT !.on = "websocket", !.probed = FALSE] /\ c'.down = c.down
    BY <1>2, <1>4, <1>7
  <2>2. /\ srv'.state = srv.state /\ srv'.served = srv.served /\ srv'.out = srv.out
    BY <1>1, <2>1 DEF Server
  <2>3. c.transport = "websocket"
    BY <1>1, <1>5, <1>7
  <2>4. Coming(c') = Coming(c) /\ (Polls(c) => Polls(c'))
    BY <1>4, <2>1 DEF Coming, Polls
  <2>5. CanLeave(c', srv') => CanLeave(c, srv)
    BY <1>4, <2>2, <2>4 DEF CanLeave
  <2>6. Followed(c, srv) => Followed(c', srv')
    BY <1>4, <2>2, <2>4, <2>5 DEF Followed
  <2>7. c'.transport # "polling"
    BY <1>4, <2>3
  <2> QED BY <1>1, <1>4, <2>2, <2>4, <2>6, <2>7, OutsideDown
<1>8. CASE p.type \notin {"probe", "upgrade"}
  <2>1. srv' = Take(<<p>>) /\ c'.down = c.down
    BY <1>2, <1>4, <1>8
  <2> QED BY <1>1, <1>3, <1>4, <2>1, TakenIn
<1> QED BY <1>6, <1>7, <1>8

\* Whatever comes for a session that is gone is refused.
LEMMA RefuseDown ==
  ASSUME SafeInv, Down(c, srv), Refuse
  PROVE  Down(c', srv')
<1>1. c \in Client
  BY DEF SafeInv, Safe, Basic, Typed
<1>2. /\ srv' = srv /\ srv.state = "gone"
      /\ \/ c.get = "asked" /\ c' = [c EXCEPT !.get = "failed"]
         \/ c' = [c EXCEPT !.post = "failed", !.posted = <<>>]
         \/ c' = [c EXCEPT !.bye = FALSE]
         \/ c' = [c EXCEPT !.link = "down", !.up = <<>>]
  BY DEF Refuse
<1>3. /\ c'.got = c.got /\ c'.ready = c.ready /\ c'.transport = c.transport
      /\ c'.reading = c.reading /\ c'.payload = c.payload /\ c'.answer = c.answer
      /\ c'.down = c.down /\ c'.poll = c.poll
      /\ c'.get = c.get \/ (c.get = "asked" /\ c'.get = "failed")
  <2>1. CASE c.get = "asked" /\ c' = [c EXCEPT !.get = "failed"]
    BY <1>1, <2>1 DEF Client
  <2>2. CASE c' = [c EXCEPT !.post = "failed", !.posted = <<>>]
    BY <1>1, <2>2 DEF Client
  <2>3. CASE c' = [c EXCEPT !.bye = FALSE]
    BY <1>1, <2>3 DEF Client
  <2>4. CASE c' = [c EXCEPT !.link = "down", !.up = <<>>]
    BY <1>1, <2>4 DEF Client
  <2> QED BY <1>2, <2>1, <2>2, <2>3, <2>4
<1>4. ~ CanLeave(c', srv')
  BY <1>2 DEF CanLeave
<1> QED BY <1>2, <1>3, <1>4, LeftAlone

\* The session ends with a close packet behind all that the server had.
LEMMA ServerEndsDown ==
  ASSUME SafeInv, Down(c, srv), ServerEnds
  PROVE  Down(c', srv')
<1>1. /\ c \in Client /\ srv \in Server /\ srv.served \in Nat /\ srv.served <= MaxServed
      /\ srv.out \in Seq(DownPacket) /\ Len(c.got) \in Nat
  BY ComingType DEF SafeInv, Safe, Basic, Typed, Server, Down
<1>2. /\ srv' = [srv EXCEPT !.state = "gone"] /\ srv.state = "open"
      /\ \/ c' = [c EXCEPT !.failed = TRUE]
         \/ /\ c.get = "asked"
            /\ c' = [c EXCEPT !.failed = TRUE, !.get = "answered",
                              !.answer = Append(srv.out, Packet("close"))]
  BY DEF ServerEnds
<1>3. srv'.state = "gone" /\ srv'.on = srv.on /\ srv'.served = srv.served /\ srv'.out = srv.out
  BY <1>1, <1>2 DEF Server
<1>4. ~ CanLeave(c', srv')
  BY <1>3 DEF CanLeave
<1>5. CASE c' = [c EXCEPT !.failed = TRUE]
  <2>1. /\ c'.got = c.got /\ c'.ready = c.ready /\ c'.transport = c.transport
        /\ c'.reading = c.reading /\ c'.payload = c.payload /\ c'.answer = c.answer
        /\ c'.down = c.down /\ c'.get = c.get /\ c'.poll = c.poll
    BY <1>1, <1>5 DEF Client
  <2> QED BY <1>3, <1>4, <2>1, LeftAlone
<1>6. CASE /\ c.get = "asked"
           /\ c' = [c EXCEPT !.failed = TRUE, !.get = "answered",
                             !.answer = Append(srv.out, Packet("close"))]
  <2>1. /\ c'.got = c.got /\ c'.ready = c.ready /\ c'.transport = c.transport
        /\ c'.reading = c.reading /\ c'.payload = c.payload
        /\ c'.answer = Append(srv.out, Packet("close"))
        /\ c'.down = c.down /\ c'.get = "answered" /\ c'.poll = c.poll
    BY <1>1, <1>6 DEF Client
  <2>2. ASSUME Polls(c), Followed(c, srv)
        PROVE  Polls(c') /\ Followed(c', srv')
    <3>1. /\ c.transport = "polling" /\ ~ c.reading /\ c.poll.polling /\ Coming(c) = <<>>
          /\ Coming(c') = c'.answer
      <4>1. c.transport = "polling" /\ ~ c.reading /\ c.poll.polling /\ Coming(c) = c.answer
        BY <1>1, <1>6, <2>2, PollUnderWay
      <4>2. c.answer = <<>>
        BY <1>6, <2>2 DEF Polls
      <4> QED BY <2>1, <4>1, <4>2 DEF Coming
    <3>2. Polls(c')
      BY <2>1, <2>2, <3>1 DEF Polls
    <3>3. CanLeave(c, srv)
      <4>1. Len(<<>>) = 0
        OBVIOUS
      <4> QED BY <1>2, <1>6, <3>1, <4>1 DEF CanLeave
    <3>4. Run(srv.out, Len(c.got), srv.served)
      BY <1>1, <2>2, <3>1, <3>3, NothingComes
    <3>5. Packet("close") \in DownPacket /\ ~ IsMessage(Packet("close"))
      BY DEF Packet, DownPacket, IsMessage
    <3>6. Run(<<Packet("close")>>, srv.served, srv.served)
      BY <1>1, <3>5, OneOther
    <3>7. Run(c'.answer, Len(c.got), srv.served)
      BY <1>1, <2>1, <3>4, <3>5, <3>6, RunAppended
    <3>8. Followed(c', srv')
      BY <1>1, <1>3, <1>4, <2>1, <3>1, <3>7 DEF Followed
    <3> QED BY <3>2, <3>8
  <2> QED BY <1>1, <1>3, <2>1, <2>2, OutsideDown
<1> QED BY <1>2, <1>5, <1>6

\* An answer, or what the WebSocket has, is lost: the rest of what the server has goes after it.
LEMMA LostDown ==
  ASSUME SafeInv, Down(c, srv), srv' = srv,
         c'.got = c.got, c'.ready = c.ready, c'.transport = c.transport,
         c'.reading = c.reading, c'.payload = c.payload, c'.poll = c.poll, c'.link = c.link,
         c'.down = c.down, c.get # "idle",
         \/ c'.get = "failed" /\ c'.answer = <<>>
         \/ c'.get = "answered" /\ c'.answer = <<Packet("error")>>
  PROVE  Down(c', srv')
<1>1. /\ c \in Client /\ srv.served \in Nat /\ srv.served <= MaxServed /\ Len(c.got) \in Nat
      /\ (srv.state = "none" => srv.served = 0) /\ Numbered(c, srv.served)
  BY ComingType DEF SafeInv, Safe, Basic, Typed, Server, Down
<1>2. ASSUME Polls(c), Followed(c, srv)
      PROVE  Polls(c') /\ Followed(c', srv')
  <2>1. c.transport = "polling" /\ ~ c.reading /\ c.poll.polling /\ Coming(c') = c'.answer
    BY <1>1, <1>2, PollUnderWay DEF Coming
  <2>2. Polls(c')
    BY <1>2, <2>1 DEF Polls
  <2>3. Run(c'.answer, Len(c.got), Len(c.got)) /\ ~ CanLeave(c', srv')
    <3>1. CASE c'.get = "failed" /\ c'.answer = <<>>
      BY <1>1, <2>1, <3>1, EmptyRun DEF CanLeave
    <3>2. CASE c'.get = "answered" /\ c'.answer = <<Packet("error")>>
      <4>1. /\ Packet("error") \in DownPacket /\ ~ IsMessage(Packet("error"))
            /\ Ending(Packet("error"))
        BY DEF Packet, DownPacket, IsMessage, Ending
      <4>2. 1 \in 1 .. Len(c'.answer) /\ Ending(c'.answer[1])
        BY <3>2, <4>1
      <4> QED BY <1>1, <2>1, <3>2, <4>1, <4>2, OneOther DEF CanLeave
    <3> QED BY <3>1, <3>2
  <2>4. Followed(c', srv')
    BY <1>1, <2>1, <2>3 DEF Followed, Numbered
  <2> QED BY <2>2, <2>4
<1> QED BY <1>1, <1>2, OutsideDown

\* The WebSocket is cut: what was on its way is gone, and nothing can follow it.
LEMMA LinkLostDown ==
  ASSUME SafeInv, Down(c, srv), srv' = srv,
         c'.got = c.got, c'.ready = c.ready, c'.transport = c.transport,
         c'.reading = c.reading, c'.payload = c.payload, c'.answer = c.answer,
         c'.get = c.get, c'.poll = c.poll, c'.link = "down", c'.down = <<>>
  PROVE  Down(c', srv')
<1>1. /\ c \in Client /\ srv.served \in Nat /\ srv.served <= MaxServed /\ Len(c.got) \in Nat
      /\ (srv.state = "none" => srv.served = 0) /\ Numbered(c, srv.served)
      /\ c.transport \in {"polling", "websocket"}
  BY ComingType DEF SafeInv, Safe, Basic, Typed, Server, Down
<1>2. Len(<<>>) = 0
  OBVIOUS
<1>3. Polls(c) => Polls(c')
  BY <1>2 DEF Polls
<1>4. ASSUME Followed(c, srv)
      PROVE  Followed(c', srv')
  <2>1. CASE c.transport = "polling"
    <3>1. Coming(c') = Coming(c) /\ (CanLeave(c', srv') => CanLeave(c, srv))
      BY <2>1 DEF Coming, CanLeave
    <3> QED BY <1>4, <3>1 DEF Followed
  <2>2. CASE c.transport = "websocket"
    <3>1. Coming(c') = <<>> /\ ~ CanLeave(c', srv')
      BY <2>2 DEF Coming, CanLeave
    <3> QED BY <1>1, <3>1, EmptyRun DEF Followed, Numbered
  <2> QED BY <1>1, <2>1, <2>2
<1>5. srv'.served = srv.served /\ srv'.on = srv.on /\ srv'.state = srv.state
  OBVIOUS
<1> QED BY <1>1, <1>3, <1>4, <1>5, OutsideDown

\* The failures of the network.
LEMMA FailureDown ==
  ASSUME SafeInv, Down(c, srv), NetworkFails \/ Garbage
  PROVE  Down(c', srv')
<1>1. c \in Client
  BY DEF SafeInv, Safe, Basic, Typed
<1>2. srv' = srv
  BY DEF NetworkFails, Garbage
<1>3. \/ /\ c.get \in {"asked", "answered"}
         /\ c' = [c EXCEPT !.get = "failed", !.answer = <<>>, !.failed = TRUE]
      \/ c' = [c EXCEPT !.post = "failed", !.posted = <<>>, !.failed = TRUE]
      \/ c' = [c EXCEPT !.bye = FALSE, !.failed = TRUE]
      \/ c' = [c EXCEPT !.link = "down", !.up = <<>>, !.down = <<>>, !.failed = TRUE]
      \/ c.get = "answered" /\ c' = [c EXCEPT !.answer = <<Packet("error")>>, !.failed = TRUE]
  BY DEF NetworkFails, Garbage
<1>4. CASE /\ c.get \in {"asked", "answered"}
           /\ c' = [c EXCEPT !.get = "failed", !.answer = <<>>, !.failed = TRUE]
  <2>1. /\ c'.got = c.got /\ c'.ready = c.ready /\ c'.transport = c.transport
        /\ c'.reading = c.reading /\ c'.payload = c.payload /\ c'.answer = <<>>
        /\ c'.down = c.down /\ c'.get = "failed" /\ c'.poll = c.poll /\ c'.link = c.link
    BY <1>1, <1>4 DEF Client
  <2> QED BY <1>2, <1>4, <2>1, LostDown
<1>5. CASE \/ c' = [c EXCEPT !.post = "failed", !.posted = <<>>, !.failed = TRUE]
           \/ c' = [c EXCEPT !.bye = FALSE, !.failed = TRUE]
  <2>1. /\ c'.got = c.got /\ c'.ready = c.ready /\ c'.transport = c.transport
        /\ c'.reading = c.reading /\ c'.payload = c.payload /\ c'.answer = c.answer
        /\ c'.down = c.down /\ c'.get = c.get /\ c'.poll = c.poll /\ c'.link = c.link
    <3>1. CASE c' = [c EXCEPT !.post = "failed", !.posted = <<>>, !.failed = TRUE]
      BY <1>1, <3>1 DEF Client
    <3>2. CASE c' = [c EXCEPT !.bye = FALSE, !.failed = TRUE]
      BY <1>1, <3>2 DEF Client
    <3> QED BY <1>5, <3>1, <3>2
  <2>2. CanLeave(c', srv') => CanLeave(c, srv)
    BY <1>2, <2>1 DEF CanLeave, Coming
  <2> QED BY <1>2, <2>1, <2>2, LeftAlone
<1>6. CASE c' = [c EXCEPT !.link = "down", !.up = <<>>, !.down = <<>>, !.failed = TRUE]
  <2>1. /\ c'.got = c.got /\ c'.ready = c.ready /\ c'.transport = c.transport
        /\ c'.reading = c.reading /\ c'.payload = c.payload /\ c'.answer = c.answer
        /\ c'.down = <<>> /\ c'.get = c.get /\ c'.poll = c.poll /\ c'.link = "down"
    BY <1>1, <1>6 DEF Client
  <2> QED BY <1>2, <2>1, LinkLostDown
<1>7. CASE c.get = "answered" /\ c' = [c EXCEPT !.answer = <<Packet("error")>>, !.failed = TRUE]
  <2>1. /\ c'.got = c.got /\ c'.ready = c.ready /\ c'.transport = c.transport
        /\ c'.reading = c.reading /\ c'.payload = c.payload
        /\ c'.answer = <<Packet("error")>>
        /\ c'.down = c.down /\ c'.get = "answered" /\ c'.poll = c.poll /\ c'.link = c.link
    BY <1>1, <1>7 DEF Client
  <2> QED BY <1>2, <1>7, <2>1, LostDown
<1> QED BY <1>3, <1>4, <1>5, <1>6, <1>7

\* What becomes of the messages of the server, in every step.
LEMMA DownStep ==
  ASSUME SafeInv, SafeInv', FlowInv, Down(c, srv), [Next]_vars
  PROVE  Down(c', srv')
<1>1. Safe(c') /\ Peer(c, srv) /\ srv.received \in Seq(UpPacket) /\ Good(c, srv.received)
  BY DEF SafeInv, FlowInv, Server
<1>2. CASE Reads \/ Events \/ PingTimeout \/ PageWrites \/ PageCloses
  <2>1. UNCHANGED srv /\ Moves(c, c') /\ InStep(c, c')
    BY <1>2, InnerStep
  <2> QED BY <1>1, <2>1, InnerDown
<1>3. CASE Answer \/ Serves \/ Serve \/ ServerEnds \/ NetworkFails \/ Garbage
  BY <1>1, <1>3, AnswerDown, AcceptDown, AcceptProbeDown, ReadPostDown, ByeDown, ReadWsDown,
     PushDown, RefuseDown, ServeDown, ServerEndsDown, FailureDown DEF Serves
<1>4. CASE UNCHANGED vars
  <2>1. c' = c /\ srv' = srv
    BY <1>4 DEF vars
  <2> QED BY <2>1
<1> QED BY <1>2, <1>3, <1>4 DEF Next

\* A Socket that begins on the WebSocket never polled.
LEMMA InitWsIdle ==
  ASSUME Init, c.transport = "websocket"
  PROVE  c.get = "idle"
<1>1. PICK transport \in Transports : c = Open(transport)
  BY DEF Init
<1>2. CASE transport = "websocket"
  BY <1>1, <1>2 DEF Open, WsOpen, Idle
<1>3. CASE transport # "websocket"
  <2>1. polling(transport = "jsonp").transport = "polling"
    BY DEF polling, Poll, Create, Idle
  <2> QED BY <1>1, <1>3, <2>1 DEF Open
<1> QED BY <1>2, <1>3

\* Nothing is on its way at the beginning.
LEMMA InitDown == Init => Down(c, srv)
<1> SUFFICES ASSUME Init
             PROVE  Down(c, srv)
  OBVIOUS
<1>1. c \in Client /\ srv.served = 0 /\ srv.state = "none" /\ srv.on = "polling" /\ srv.out = <<>>
  BY InitSafe DEF SafeInv, Safe, Basic, Typed, Init
<1>2. /\ c.got = <<>> /\ c.down = <<>> /\ c.answer = <<>> /\ c.payload = <<>>
      /\ c.get \in {"idle", "asked"} /\ c.reading = FALSE
      /\ c.transport \in {"polling", "websocket"}
      /\ c.transport = "websocket" => ~ c.poll.polling
      /\ c.transport = "polling" => c.poll.polling /\ c.get = "asked"
  BY InitFields
<1>3. Len(<<>>) = 0 /\ 0 \in Nat /\ 0 <= MaxServed
  BY BoundsAssumption
<1>4. Coming(c) = <<>> /\ Run(<<>>, 0, 0)
  BY <1>2, <1>3, EmptyRun DEF Coming
<1>5. Numbered(c, 0)
  BY <1>2, <1>3 DEF Numbered
<1>6. c.transport = "websocket" => c.get = "idle"
  BY InitWsIdle
<1>7. Polls(c)
  BY <1>2, <1>3, <1>6 DEF Polls
<1>8. Followed(c, srv)
  BY <1>1, <1>2, <1>3, <1>4 DEF Followed
<1> QED BY <1>1, <1>3, <1>5, <1>7, <1>8 DEF Down

\* The three invariants together.
LEMMA FlowDown == Spec => [](SafeInv /\ FlowInv /\ Down(c, srv))
<1>1. Init => SafeInv /\ FlowInv /\ Down(c, srv)
  BY InitSafe, InitFlow, InitDown
<1>2. SafeInv /\ FlowInv /\ Down(c, srv) /\ [Next]_vars => (SafeInv /\ FlowInv /\ Down(c, srv))'
  BY SafeStep, FlowStep, DownStep
<1> QED BY <1>1, <1>2, PTL DEF Spec

-----------------------------------------------------------------------------
(* The refinement of Wire.                                                 *)

\* What the server has sent.
Count(n) == [i \in 1 .. n |-> i]

\* The numbers from 1 to n, in order.
LEMMA CountType ==
  ASSUME NEW n \in Nat
  PROVE  Count(n) \in Seq(Nat) /\ Len(Count(n)) = n /\ \A i \in 1 .. n : Count(n)[i] = i
BY DEF Count

\* A beginning is known by its elements.
LEMMA BeginsByElements ==
  ASSUME NEW S, NEW u \in Seq(S), NEW T, NEW v \in Seq(T), Len(u) <= Len(v),
         \A i \in 1 .. Len(u) : u[i] = v[i]
  PROVE  Connection!Begins(u, v)
<1>1. Len(u) \in 0 .. Len(v) /\ Len(u) \in Nat
  OBVIOUS
<1>2. SubSeq(v, 1, Len(u)) \in Seq(T) /\ Len(SubSeq(v, 1, Len(u))) = Len(u)
  BY <1>1, CutInTwo
<1>3. \A i \in 1 .. Len(u) : SubSeq(v, 1, Len(u))[i] = v[i]
  BY <1>1
<1>4. u = SubSeq(v, 1, Len(u))
  BY <1>2, <1>3
<1> QED BY <1>4 DEF Connection!Begins

\* Fewer numbers begin more numbers.
LEMMA CountBegins ==
  ASSUME NEW m \in Nat, NEW n \in Nat, m <= n
  PROVE  Connection!Begins(Count(m), Count(n))
<1> DEFINE u == Count(m)
           v == Count(n)
<1>1. /\ u \in Seq(Nat) /\ Len(u) = m /\ \A i \in 1 .. m : u[i] = i
      /\ v \in Seq(Nat) /\ Len(v) = n /\ \A i \in 1 .. n : v[i] = i
  BY CountType
<1> HIDE DEF u, v
<1>2. \A i \in 1 .. m : i \in 1 .. n
  OBVIOUS
<1> QED BY <1>1, <1>2, BeginsByElements DEF u, v

\* What was handed out begins what was served.
LEMMA NumberedBegins ==
  ASSUME NEW s \in Client, NEW n \in Nat, Numbered(s, n)
  PROVE  Connection!Begins(s.got, Count(n))
<1> DEFINE u == s.got
           v == Count(n)
<1>1. /\ u \in Seq(1 .. MaxServed) /\ Len(u) <= n /\ \A i \in 1 .. Len(u) : u[i] = i
      /\ v \in Seq(Nat) /\ Len(v) = n /\ \A i \in 1 .. n : v[i] = i /\ Len(u) \in Nat
  BY CountType, ComingType DEF Numbered
<1> HIDE DEF u, v
<1>2. \A i \in 1 .. Len(u) : i \in 1 .. n
  BY <1>1
<1> QED BY <1>1, <1>2, BeginsByElements DEF u, v

\* What is handed out is never taken back.
LEMMA GotBegins ==
  ASSUME NEW s \in Client, NEW t, InStep(s, t)
  PROVE  Connection!Begins(s.got, t.got)
<1>1. s.got \in Seq(1 .. MaxServed) /\ s.payload \in Seq(DownPacket) /\ s.down \in Seq(DownPacket)
  BY ComingType
<1>2. ASSUME NEW p \in DownPacket, NEW heard, t.got = HandsOut(s, p, heard)
      PROVE  Connection!Begins(s.got, t.got)
  <2>1. CASE t.got = s.got
    BY <1>1, <2>1, BeginsMore
  <2>2. CASE t.got = Append(s.got, p.n) /\ p.type = "message"
    <3>1. p.n \in 1 .. MaxServed
      BY <2>2 DEF DownPacket
    <3>2. <<p.n>> \in Seq(1 .. MaxServed)
      BY <3>1
    <3>3. Append(s.got, p.n) = s.got \o <<p.n>>
      BY <1>1, <3>1, AppendProperty
    <3> QED BY <1>1, <2>2, <3>2, <3>3, BeginsMore
  <2> QED BY <1>2, <2>1, <2>2 DEF HandsOut
<1>3. CASE t.got = s.got
  BY <1>1, <1>3, BeginsMore
<1>4. CASE ReadsOne(s, t)
  <2>1. Head(s.payload) \in DownPacket
    BY <1>1, <1>4 DEF ReadsOne
  <2> QED BY <1>2, <1>4, <2>1 DEF ReadsOne
<1>5. CASE WsReads(s, t)
  <2>1. Head(s.down) \in DownPacket
    BY <1>1, <1>5 DEF WsReads
  <2> QED BY <1>2, <1>5, <2>1 DEF WsReads
<1> QED BY <1>3, <1>4, <1>5 DEF InStep, SameIn, Takes, StopsReading, PollIsLost, SameGot

\* The server has a part of what was written.
LEMMA ReceivedArrives ==
  ASSUME NEW s, NEW r \in Seq(UpPacket), Good(s, r)
  PROVE  Arrives(~ s.jsonp, r, s.sent)
<1>1. Typed(s) /\ Words(s)
  BY DEF Good, Base, Safe, Basic
<1>2. PICK k \in Nat : Flow(s, r, k)
  BY DEF Good, Base
<1>3. /\ OnWire(s, k) \in Seq(UpPacket) /\ Given(s) \in Seq(UpPacket)
      /\ (~ s.jsonp) \in BOOLEAN /\ Arrives(~ s.jsonp, r \o OnWire(s, k), Given(s))
  BY <1>1, <1>2, FlowTypes, WireType DEF Flow
<1>4. Arrives(~ s.jsonp, r, Given(s))
  BY <1>3, ArrivesLess
<1>5. PICK q \in Seq(UpPacket) : s.sent = Given(s) \o q
  BY <1>1, GivenAll
<1>6. Arrives(~ s.jsonp, r, Given(s) \o q)
  BY <1>3, <1>4, <1>5, ArrivesOfMore
<1> QED BY <1>5, <1>6

\* The state that Wire sees.
Seen(s) == CASE s.ready = "closed" -> "over"
             [] s.ready # "closed" /\ s.opened -> "open"
             [] OTHER -> "opening"

\* A connection only gets older.
LEMMA SeenAges ==
  ASSUME NEW s, NEW t, Closed(s) => Closed(t), s.opened => t.opened
  PROVE  Connection!Age(Seen(s)) <= Connection!Age(Seen(t)) /\ (Seen(s) = "over" <=> Closed(s))
<1>1. CASE Closed(s)
  BY <1>1 DEF Connection!Age, Seen, Closed
<1>2. CASE ~ Closed(s) /\ s.opened
  BY <1>2 DEF Connection!Age, Seen, Closed
<1>3. CASE ~ Closed(s) /\ ~ s.opened
  BY <1>3 DEF Connection!Age, Seen, Closed
<1> QED BY <1>1, <1>2, <1>3

\* Every step of the Socket is one of the connection.
LEMMA StepOfWire ==
  ASSUME SafeInv, SafeInv', FlowInv, FlowInv', Down(c, srv), Down(c', srv'), Next
  PROVE  Connection!Next
<1>1. /\ c \in Client /\ c' \in Client /\ srv.served \in Nat /\ srv'.served \in Nat
      /\ srv.received \in Seq(UpPacket) /\ srv'.received \in Seq(UpPacket)
      /\ c.sent \in Seq(UpPacket) /\ Good(c', srv'.received)
      /\ Numbered(c', srv'.served) /\ c.got \in Seq(1 .. MaxServed)
  BY DEF SafeInv, Safe, Basic, Typed, Client, Server, FlowInv, Down
<1>2. \/ srv' = srv /\ Moves(c, c') /\ InStep(c, c')
      \/ Outside(c, c', srv, srv')
  BY StepFlow
<1>3. /\ Connection!Begins(c.sent, c'.sent) /\ c'.jsonp = c.jsonp
      /\ (Closed(c) => Closed(c') /\ c'.sent = c.sent /\ c'.got = c.got)
      /\ (c.opened => c'.opened) /\ Connection!Begins(c.got, c'.got)
      /\ Connection!Begins(srv.received, srv'.received) /\ srv.served <= srv'.served
  <2>1. CASE srv' = srv /\ Moves(c, c') /\ InStep(c, c')
    <3>1. /\ Connection!Begins(srv.received, srv'.received) /\ srv.served <= srv'.served
      BY <1>1, <2>1, BeginsMore
    <3> QED BY <1>1, <2>1, <3>1, GotKept, GotBegins DEF Moves
  <2>2. CASE Outside(c, c', srv, srv')
    <3>1. /\ c'.sent = c.sent /\ c'.got = c.got /\ c'.jsonp = c.jsonp /\ c'.opened = c.opened
          /\ c'.ready = c.ready
          /\ Connection!Begins(srv.received, srv'.received) /\ srv.served <= srv'.served
      BY <2>2 DEF Outside, Touches, SameBuf
    <3>2. Connection!Begins(c.sent, c.sent) /\ Connection!Begins(c.got, c.got)
      BY <1>1, BeginsMore
    <3> QED BY <3>1, <3>2 DEF Closed
  <2> QED BY <1>2, <2>1, <2>2
<1>4. /\ Connection!Age(Seen(c)) <= Connection!Age(Seen(c'))
      /\ Seen(c) = "over" => c'.sent = c.sent /\ c'.got = c.got
  BY <1>3, SeenAges
<1>5. /\ Connection!Begins(Count(srv.served), Count(srv'.served))
      /\ Connection!Begins(c'.got, Count(srv'.served))
  BY <1>1, <1>3, CountBegins, NumberedBegins
<1>6. Arrives(~ c'.jsonp, srv'.received, c'.sent)
  BY <1>1, ReceivedArrives
<1>7. IF ~ c.jsonp THEN Connection!Begins(srv'.received, c'.sent)
                   ELSE Connection!Within(srv'.received, c'.sent)
  BY <1>3, <1>6 DEF Arrives
<1> QED BY <1>3, <1>4, <1>5, <1>7 DEF Connection!Next, Seen, Count

\* The Socket is a connection: whatever the network and the server do, and however the
\* upgrade, a close and a failure fall together, what the page writes arrives in order and
\* once, without a gap unless JSONP hides one, what the server sends is handed out in order,
\* once and without a gap over both transports, and nothing is after the end.
THEOREM SocketIsConnection == Spec => IsConnection
<1>1. Init => Connection!Init
  <2> SUFFICES ASSUME Init
               PROVE  Connection!Init
    OBVIOUS
  <2>1. /\ c.ready = "opening" /\ c.opened = FALSE /\ c.sent = <<>> /\ c.got = <<>>
        /\ c.jsonp \in BOOLEAN
    BY InitFields
  <2>2. srv.received = <<>> /\ srv.served = 0
    BY DEF Init
  <2>3. [i \in 1 .. srv.served |-> i] = <<>>
    BY <2>2
  <2> QED BY <2>1, <2>2, <2>3 DEF Connection!Init
<1>2. ASSUME SafeInv, SafeInv', FlowInv, FlowInv', Down(c, srv), Down(c, srv)', [Next]_vars
      PROVE  [Connection!Next]_(Connection!vars)
  <2>1. CASE Next
    BY <1>2, <2>1, StepOfWire
  <2>2. CASE UNCHANGED vars
    <3>1. c' = c /\ srv' = srv
      BY <2>2 DEF vars
    <3> QED BY <3>1 DEF Connection!vars
  <2> QED BY <1>2, <2>1, <2>2
<1>3. Spec => [](SafeInv /\ FlowInv /\ Down(c, srv))
  BY FlowDown
<1> QED BY <1>1, <1>2, <1>3, PTL DEF Spec, IsConnection, Connection!Spec
=============================================================================
