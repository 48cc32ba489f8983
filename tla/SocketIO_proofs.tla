----------------------------- MODULE SocketIO_proofs -----------------------------
(***************************************************************************)
(* Theorems about SocketIO, for any namespaces, bounds and page: types,    *)
(* acks, which engine a connected Socket hears, and events in order.       *)
(*                                                                         *)
(* A handler is a composition of operators from one state of the client to *)
(* the next, so the proof has lemmas for each operator: that it keeps the  *)
(* types, with what they say of acks (Typed), what it does to the engines  *)
(* and to who listens to them (Steady), and, in the second half, what it   *)
(* does to the events on their way to the server (Queue).                  *)
(***************************************************************************)
EXTENDS SocketIO, FiniteSetTheorems, SequenceTheorems, NaturalsInduction, TLAPS

\* The packets of the page: the ack id of an event is the number before its own.
Upward == {p \in Packet : p.type \in {"event", "blob"} => p.n = p.id + 1}

\* The packets of the server, when it has received the events R: it acks those.
Downward(R) ==
  {p \in Packet : p.type # "blob" /\ (p.type = "ack" => p.id + 1 \in R[p.nsp])}

EngineWith(R) ==
  [state : {"none", "opening", "open", "unopened", "reopened", "closing", "closed"},
   subs : SUBSET {"open", "error", "timer", "live"}, fn : BOOLEAN,
   up : Seq(Upward), down : Seq(Downward(R))]

SocketWith ==
  [subs : BOOLEAN, connected : BOOLEAN,
   sendBuffer : Seq(Upward), receiveBuffer : Seq(Packet),
   ids : Nat, acks : SUBSET (Nat \X Nat),
   connects : 0 .. MaxConnects, emitted : Nat, greetings : SUBSET Nat,
   acked : Seq(Nat)]

ClientWith(R) ==
  [page : Pages, ready : {"closed", "opening", "open"}, engine : 0 .. MaxEngines,
   skipReconnect : BOOLEAN, reconnecting : BOOLEAN, attempts : 0 .. MaxAttempts,
   timer : BOOLEAN, encoding : BOOLEAN, packetBuffer : Seq(Upward), blobs : SUBSET Upward,
   connecting : SUBSET Nsp,
   eng : [Engine -> EngineWith(R)], sock : [Nsp -> SocketWith],
   stale : BOOLEAN, hasty : BOOLEAN, gaveUp : BOOLEAN]

\* The callbacks of a Socket x, when the server has the events r: each is kept or
\* was called, once, for an event that was emitted.
Sound(x, r) ==
  /\ x.emitted <= MaxEvents /\ x.ids = x.emitted
  /\ \A a \in x.acks : a[2] = a[1] + 1 /\ a[2] <= x.emitted
  /\ \A j \in DOMAIN x.acked :
       /\ x.acked[j] \in r /\ x.acked[j] <= x.emitted
       /\ \A a \in x.acks : a[2] # x.acked[j]
       /\ \A i \in 1 .. j - 1 : x.acked[i] # x.acked[j]

Typed(R, s) == s \in ClientWith(R) /\ \A n \in Nsp : Sound(s.sock[n], R[n])

Received == [n \in Nsp |-> {srv.received[n][i].n : i \in DOMAIN srv.received[n]}]

\* The namespaces in use are those whose Socket listens to the Manager.
Slots(s) == \A n \in Nsp : s.sock[n].subs <=> n \in s.connecting

\* The engine of the Manager is as open as the Manager thinks, and has the listeners of
\* that; the others are done with.  An engine that close() left to drain is still heard,
\* by nobody in particular.
OneEngine(s) ==
  /\ \A e \in Engine \ {s.engine} :
       s.eng[e].subs = {} /\ s.eng[e].state \notin {"opening", "open"}
  /\ s.ready = "open" =>
       s.engine # 0 /\ s.eng[s.engine].state = "open" /\ s.eng[s.engine].subs = {"live"}
  /\ s.ready = "opening" =>
       /\ s.engine # 0 /\ s.eng[s.engine].state \in {"opening", "closed"}
       /\ s.eng[s.engine].subs = {"open", "error", "timer"}
  /\ s.ready = "closed" /\ s.engine # 0 =>
       /\ s.eng[s.engine].state \notin {"opening", "open"}
       /\ \/ s.eng[s.engine].subs = {}
          \/ /\ s.eng[s.engine].subs = {"live"}
             /\ s.skipReconnect /\ ~ s.reconnecting /\ s.connecting = {}

\* Who is connected listens to a Manager that is open.
Heard(s) == \A n \in Nsp : s.sock[n].connected => s.ready = "open" /\ s.sock[n].subs

Steady(s) == Slots(s) /\ (~ s.hasty => OneEngine(s) /\ Heard(s))

IInv == Typed(Received, m) /\ srv \in Server /\ Steady(m)

-----------------------------------------------------------------------------
(* Types.                                                                  *)

SameControl(s, t) ==
  /\ t.ready = s.ready /\ t.engine = s.engine /\ t.skipReconnect = s.skipReconnect
  /\ t.reconnecting = s.reconnecting /\ t.connecting = s.connecting /\ t.hasty = s.hasty
  /\ \A e \in Engine : t.eng[e].state = s.eng[e].state /\ t.eng[e].subs = s.eng[e].subs
  /\ \A n \in Nsp : t.sock[n].subs = s.sock[n].subs /\ t.sock[n].connected = s.sock[n].connected

LEMMA WriteTyped ==
  ASSUME NEW R, NEW s, Typed(R, s), NEW ps \in Seq(Upward)
  PROVE  /\ Typed(R, WriteAll(s, ps)) /\ SameControl(s, WriteAll(s, ps))
         /\ WriteAll(s, ps).encoding = s.encoding
         /\ WriteAll(s, ps).packetBuffer = s.packetBuffer
<1> DEFINE e == s.engine
           x == [s.eng[e] EXCEPT !.up = @ \o ps]
           t == [s EXCEPT !.eng[e].up = @ \o ps]
<1>1. CASE ~ (s.engine # 0 /\ s.eng[s.engine].state \in {"opening", "open", "reopened"})
  BY <1>1 DEF WriteAll, SameControl
<1>2. CASE s.engine # 0 /\ s.eng[s.engine].state \in {"opening", "open", "reopened"}
  <2>1. e \in Engine /\ s.eng[e] \in EngineWith(R)
    BY <1>2, BoundsAssumption DEF Typed, ClientWith, Engine
  <2>2. s.eng[e].up \o ps \in Seq(Upward)
    <3>1. s.eng[e].up \in Seq(Upward)
      BY <2>1 DEF EngineWith
    <3> QED BY <3>1
  <2>3. x \in EngineWith(R)
    BY <2>1, <2>2 DEF EngineWith
  <2>4. t = [s EXCEPT !.eng = [s.eng EXCEPT ![e] = x]]
    OBVIOUS
  <2>5. [s.eng EXCEPT ![e] = x] \in [Engine -> EngineWith(R)]
    BY <2>1, <2>3 DEF Typed, ClientWith
  <2>6. t \in ClientWith(R)
    BY <2>5 DEF Typed, ClientWith
  <2>7. t.sock = s.sock
    BY DEF Typed, ClientWith
  <2>8. Typed(R, t)
    BY <2>6, <2>7 DEF Typed
  <2>9. SameControl(s, t) /\ t.encoding = s.encoding /\ t.packetBuffer = s.packetBuffer
    BY <2>1 DEF SameControl, Typed, ClientWith, EngineWith
  <2> QED BY <1>2, <2>8, <2>9 DEF WriteAll
<1> QED BY <1>1, <1>2

LEMMA LeastBlob ==
  ASSUME NEW S, S \subseteq Nat, S # {}
  PROVE  \E k \in S : \A j \in S : k <= j
<1>1. PICK k \in S : \A j \in S : ~ (<<j, k>> \in OpToRel(<, Nat))
  BY NatLessThanWellFounded, WFMin
<1>2. \A j \in S : ~ (j < k)
  BY <1>1 DEF OpToRel
<1> QED BY <1>2

LEMMA SendTyped ==
  ASSUME NEW R, NEW s, Typed(R, s), NEW p \in Upward
  PROVE  Typed(R, SendPacket(s, p)) /\ SameControl(s, SendPacket(s, p))
<1>1. CASE s.encoding
  <2>1. Append(s.packetBuffer, p) \in Seq(Upward)
    <3>1. s.packetBuffer \in Seq(Upward)
      BY DEF Typed, ClientWith
    <3> QED BY <3>1
  <2> DEFINE t == [s EXCEPT !.packetBuffer = Append(@, p)]
  <2>2. t \in ClientWith(R) /\ t.sock = s.sock /\ SameControl(s, t)
    BY <2>1 DEF Typed, ClientWith, SameControl
  <2> QED BY <1>1, <2>2 DEF SendPacket, Typed
<1>2. CASE ~ s.encoding /\ p.type = "blob"
  <2> DEFINE t == [s EXCEPT !.encoding = TRUE, !.blobs = @ \cup {p}]
  <2>1. t \in ClientWith(R) /\ t.sock = s.sock /\ SameControl(s, t)
    BY DEF Typed, ClientWith, SameControl
  <2> QED BY <1>2, <2>1 DEF SendPacket, Typed
<1>3. CASE ~ s.encoding /\ p.type # "blob"
  <2>1. <<p>> \in Seq(Upward)
    OBVIOUS
  <2> QED BY <1>3, <2>1, WriteTyped DEF SendPacket, Write, Typed, ClientWith
<1> QED BY <1>1, <1>2, <1>3

LEMMA SendAllTyped ==
  ASSUME NEW R, NEW s, Typed(R, s), NEW ps \in Seq(Upward)
  PROVE  Typed(R, SendAll(ps, s)) /\ SameControl(s, SendAll(ps, s))
<1> DEFINE blobs == {k \in DOMAIN ps : ps[k].type = "blob"}
           first == CHOOSE k \in blobs : \A j \in blobs : k <= j
<1>1. CASE s.encoding
  <2>1. s.packetBuffer \o ps \in Seq(Upward)
    <3>1. s.packetBuffer \in Seq(Upward)
      BY DEF Typed, ClientWith
    <3> QED BY <3>1
  <2> DEFINE t == [s EXCEPT !.packetBuffer = @ \o ps]
  <2>2. t \in ClientWith(R) /\ t.sock = s.sock /\ SameControl(s, t)
    BY <2>1 DEF Typed, ClientWith, SameControl
  <2> QED BY <1>1, <2>2 DEF SendAll, Typed
<1>2. CASE ~ s.encoding /\ blobs = {}
  BY <1>2, WriteTyped DEF SendAll
<1>3. CASE ~ s.encoding /\ blobs # {}
  <2>1. first \in 1 .. Len(ps)
    <3>1. blobs \subseteq Nat
      OBVIOUS
    <3>2. first \in blobs
      <4> HIDE DEF blobs
      <4> QED BY <1>3, <3>1, LeastBlob
    <3> QED BY <3>2
  <2>2. SubSeq(ps, 1, first - 1) \in Seq(Upward) /\ SubSeq(ps, first + 1, Len(ps)) \in Seq(Upward)
    <3> HIDE DEF first
    <3>1. first \in Nat /\ first <= Len(ps) /\ first >= 1
      BY <2>1
    <3> QED BY <3>1, SubSeqProperties
  <2>3. ps[first] \in Upward
    <3> HIDE DEF first
    <3> QED BY <2>1
  <2> DEFINE w == WriteAll(s, SubSeq(ps, 1, first - 1))
             rest == SubSeq(ps, first + 1, Len(ps))
             p == ps[first]
             t == [w EXCEPT !.encoding = TRUE, !.blobs = @ \cup {p}, !.packetBuffer = @ \o rest]
  <2>4. Typed(R, w) /\ SameControl(s, w)
    <3> HIDE DEF first
    <3> QED BY <2>2, WriteTyped
  <2>5. SendAll(ps, s) = t
    BY <1>3 DEF SendAll
  <2>6. w.packetBuffer \o rest \in Seq(Upward)
    <3>1. w.packetBuffer \in Seq(Upward)
      <4> HIDE DEF w
      <4> QED BY <2>4 DEF Typed, ClientWith
    <3> HIDE DEF w, first
    <3> QED BY <2>2, <3>1
  <2>7. t \in ClientWith(R) /\ t.sock = w.sock /\ SameControl(w, t)
    <3> HIDE DEF w, rest, p
    <3> QED BY <2>3, <2>4, <2>6 DEF Typed, ClientWith, SameControl, p
  <2>8. SameControl(s, t)
    <3> HIDE DEF w, t
    <3> QED BY <2>4, <2>7 DEF SameControl
  <2>9. Typed(R, t)
    <3> HIDE DEF w, t
    <3> QED BY <2>4, <2>7 DEF Typed
  <2> QED BY <2>5, <2>8, <2>9
<1> QED BY <1>1, <1>2, <1>3

LEMMA QueueTyped ==
  ASSUME NEW R, NEW s, Typed(R, s)
  PROVE  Typed(R, ProcessPacketQueue(s)) /\ SameControl(s, ProcessPacketQueue(s))
<1> DEFINE t == [s EXCEPT !.packetBuffer = <<>>]
<1>0. <<>> \in Seq(Upward)
  OBVIOUS
<1>1. t \in ClientWith(R) /\ t.sock = s.sock /\ SameControl(s, t)
  BY <1>0 DEF Typed, ClientWith, SameControl
<1>2. Typed(R, t) /\ s.packetBuffer \in Seq(Upward)
  <2> HIDE DEF t
  <2> QED BY <1>1 DEF Typed, ClientWith
<1>3. Typed(R, SendAll(s.packetBuffer, t)) /\ SameControl(t, SendAll(s.packetBuffer, t))
  <2> HIDE DEF t
  <2> QED BY <1>2, SendAllTyped
<1>4. SameControl(s, SendAll(s.packetBuffer, t))
  <2> HIDE DEF t
  <2> QED BY <1>1, <1>3 DEF SameControl
<1> QED BY <1>3, <1>4 DEF ProcessPacketQueue

-----------------------------------------------------------------------------
(* What opening, closing and reconnecting do to the engines.               *)

\* What only the page and the sockets change.
SameSlots(s, t) ==
  /\ t.connecting = s.connecting /\ t.hasty = s.hasty /\ t.engine = s.engine
  /\ \A n \in Nsp : t.sock[n].subs = s.sock[n].subs

SameFlags(s, t) ==
  t.ready = s.ready /\ t.skipReconnect = s.skipReconnect /\ t.reconnecting = s.reconnecting

\* No engine has a listener.
Deaf(s, t) ==
  \A e \in Engine : t.eng[e].subs = {} /\ t.eng[e].state = s.eng[e].state

LEMMA CleanupTyped ==
  ASSUME NEW R, NEW s, Typed(R, s)
  PROVE  /\ Typed(R, Cleanup(s)) /\ SameSlots(s, Cleanup(s)) /\ SameFlags(s, Cleanup(s))
         /\ Deaf(s, Cleanup(s)) /\ Cleanup(s).sock = s.sock
         /\ Cleanup(s).attempts = s.attempts /\ ~ Cleanup(s).encoding
<1> DEFINE E == [e \in Engine |-> [s.eng[e] EXCEPT !.subs = {}, !.down = <<>>]]
           t == Cleanup(s)
<1>1. E \in [Engine -> EngineWith(R)]
  <2>1. ASSUME NEW e \in Engine
        PROVE  [s.eng[e] EXCEPT !.subs = {}, !.down = <<>>] \in EngineWith(R)
    <3>1. s.eng[e] \in EngineWith(R) /\ <<>> \in Seq(Downward(R))
      BY DEF Typed, ClientWith
    <3> QED BY <3>1 DEF EngineWith
  <2> QED BY <2>1
<1>2. t = [s EXCEPT !.eng = E, !.timer = FALSE, !.packetBuffer = <<>>, !.encoding = FALSE,
                    !.stale = @ \/ s.blobs # {}]
  BY DEF Cleanup
<1>3. t \in ClientWith(R) /\ t.sock = s.sock /\ t.eng = E
  <2> HIDE DEF E
  <2>1. <<>> \in Seq(Upward)
    OBVIOUS
  <2> QED BY <1>1, <1>2, <2>1 DEF Typed, ClientWith
<1>4. /\ SameFlags(s, t) /\ t.attempts = s.attempts /\ ~ t.encoding
      /\ t.connecting = s.connecting /\ t.hasty = s.hasty /\ t.engine = s.engine
  BY DEF Cleanup, Typed, ClientWith, SameFlags
<1>5. \A e \in Engine : E[e].subs = {} /\ E[e].state = s.eng[e].state
  BY DEF Typed, ClientWith, EngineWith
<1> HIDE DEF t, E
<1> QED BY <1>3, <1>4, <1>5 DEF Typed, SameSlots, Deaf, t

LEMMA OpenTyped ==
  ASSUME NEW R, NEW s, Typed(R, s), NEW fn \in BOOLEAN,
         s.ready = "closed" => s.engine < MaxEngines
  PROVE  LET t == OpenEngine(s, fn) IN
         /\ Typed(R, t)
         /\ s.ready # "closed" => t = s
         /\ s.ready = "closed" =>
              /\ t.ready = "opening" /\ t.engine = s.engine + 1 /\ t.engine \in Engine
              /\ t.connecting = s.connecting /\ t.hasty = s.hasty /\ t.sock = s.sock
              /\ t.eng[t.engine].state = "opening"
              /\ t.eng[t.engine].subs = {"open", "error", "timer"}
              /\ \A e \in Engine \ {t.engine} : t.eng[e] = s.eng[e]
<1> DEFINE e == s.engine + 1
           x == [[[s.eng[e] EXCEPT !.state = "opening"] EXCEPT !.fn = fn]
                   EXCEPT !.subs = {"open", "error", "timer"}]
           t == [s EXCEPT !.engine = e, !.ready = "opening", !.skipReconnect = FALSE,
                          !.eng = [@ EXCEPT ![e] = x]]
<1>1. CASE s.ready # "closed"
  BY <1>1 DEF OpenEngine, Typed, ClientWith
<1>2. CASE s.ready = "closed"
  <2>1. e \in Engine /\ e \in 0 .. MaxEngines /\ s.eng \in [Engine -> EngineWith(R)]
    BY <1>2, BoundsAssumption DEF Typed, ClientWith, Engine
  <2>2. x \in EngineWith(R) /\ x.state = "opening" /\ x.subs = {"open", "error", "timer"}
    BY <2>1 DEF EngineWith
  <2>3. OpenEngine(s, fn) = t
    <3> HIDE DEF e
    <3>1. s.ready \notin {"opening", "open"}
      BY <1>2
    <3> QED BY <2>1, <3>1 DEF OpenEngine, e, Typed, ClientWith
  <2>4. t \in ClientWith(R)
    <3> HIDE DEF x, e
    <3> QED BY <2>1, <2>2 DEF Typed, ClientWith
  <2>5. /\ t.ready = "opening" /\ t.engine = e /\ t.connecting = s.connecting
        /\ t.hasty = s.hasty /\ t.sock = s.sock
        /\ t.eng = [s.eng EXCEPT ![e] = x]
    <3> HIDE DEF x, e
    <3> QED BY DEF Typed, ClientWith
  <2>6. t.eng[e] = x /\ \A f \in Engine \ {e} : t.eng[f] = s.eng[f]
    <3> HIDE DEF x, e, t
    <3> QED BY <2>1, <2>5
  <2> HIDE DEF t, x
  <2> QED BY <1>2, <2>1, <2>2, <2>3, <2>4, <2>5, <2>6 DEF Typed
<1> QED BY <1>1, <1>2

LEMMA OpenFresh ==
  ASSUME NEW R, NEW s, Typed(R, s), NEW fn \in BOOLEAN,
         s.ready = "closed", s.engine < MaxEngines
  PROVE  /\ OpenEngine(s, fn).ready = "opening"
         /\ OpenEngine(s, fn).connecting = s.connecting
         /\ OpenEngine(s, fn).hasty = s.hasty
         /\ OpenEngine(s, fn).sock = s.sock
BY OpenTyped

\* What the reconnect loop leaves alone.
LoopOnly(s, t) ==
  /\ t.ready = s.ready /\ t.engine = s.engine /\ t.skipReconnect = s.skipReconnect
  /\ t.connecting = s.connecting /\ t.hasty = s.hasty /\ t.eng = s.eng /\ t.sock = s.sock
  /\ s.skipReconnect => t.reconnecting = s.reconnecting

LEMMA ReconnectTyped ==
  ASSUME NEW R, NEW s, Typed(R, s)
  PROVE  /\ Typed(R, Reconnect(s)) /\ LoopOnly(s, Reconnect(s))
         /\ Typed(R, MaybeReconnectOnOpen(s)) /\ LoopOnly(s, MaybeReconnectOnOpen(s))
<1>1. Typed(R, Reconnect(s)) /\ LoopOnly(s, Reconnect(s))
  <2>1. CASE s.reconnecting \/ s.skipReconnect
    BY <2>1 DEF Reconnect, LoopOnly
  <2>2. CASE ~ (s.reconnecting \/ s.skipReconnect) /\ s.attempts >= MaxAttempts
    <3> DEFINE t == [[s EXCEPT !.attempts = 0] EXCEPT !.reconnecting = FALSE, !.gaveUp = TRUE]
    <3>1. Reconnect(s) = t
      BY <2>2 DEF Reconnect, Reset
    <3>0. 0 \in 0 .. MaxAttempts
      BY BoundsAssumption
    <3>2. t \in ClientWith(R) /\ LoopOnly(s, t)
      BY <2>2, <3>0 DEF Typed, ClientWith, LoopOnly
    <3> HIDE DEF t
    <3> QED BY <3>1, <3>2 DEF LoopOnly, Typed
  <2>3. CASE ~ (s.reconnecting \/ s.skipReconnect) /\ ~ (s.attempts >= MaxAttempts)
    <3> DEFINE t == [[s EXCEPT !.attempts = @ + 1] EXCEPT !.reconnecting = TRUE, !.timer = TRUE]
    <3>1. Reconnect(s) = t
      BY <2>3 DEF Reconnect, Duration
    <3>2. s.attempts + 1 \in 0 .. MaxAttempts
      BY <2>3, BoundsAssumption DEF Typed, ClientWith
    <3>3. t \in ClientWith(R) /\ LoopOnly(s, t)
      BY <2>3, <3>2 DEF Typed, ClientWith, LoopOnly
    <3> HIDE DEF t
    <3> QED BY <3>1, <3>3 DEF LoopOnly, Typed
  <2> QED BY <2>1, <2>2, <2>3
<1> QED BY <1>1 DEF MaybeReconnectOnOpen, LoopOnly

LEMMA OnErrorTyped ==
  ASSUME NEW R, NEW s, Typed(R, s), NEW e \in Engine
  PROVE  LET t == OnError(s, e) IN
         /\ Typed(R, t) /\ SameSlots(s, t) /\ t.sock = s.sock
         /\ "error" \notin s.eng[e].subs => t = s
         /\ "error" \in s.eng[e].subs => t.ready = "closed" /\ Deaf(s, t)
<1>1. CASE "error" \notin s.eng[e].subs
  BY <1>1 DEF OnError, SameSlots
<1>2. CASE "error" \in s.eng[e].subs
  <2> DEFINE c == Cleanup(s)
             t == [c EXCEPT !.ready = "closed"]
             u == [t EXCEPT !.reconnecting = FALSE]
  <2>1. /\ Typed(R, c) /\ SameSlots(s, c) /\ Deaf(s, c) /\ c.sock = s.sock
    BY CleanupTyped
  <2>2. /\ t \in ClientWith(R) /\ t.ready = "closed" /\ t.eng = c.eng /\ t.sock = c.sock
        /\ t.connecting = c.connecting /\ t.hasty = c.hasty /\ t.engine = c.engine
    <3> HIDE DEF c
    <3> QED BY <2>1 DEF Typed, ClientWith
  <2>3. Typed(R, t)
    <3> HIDE DEF c, t
    <3> QED BY <2>1, <2>2 DEF Typed
  <2>4. /\ u \in ClientWith(R) /\ u.ready = "closed" /\ u.eng = c.eng /\ u.sock = c.sock
        /\ u.connecting = c.connecting /\ u.hasty = c.hasty /\ u.engine = c.engine
    <3> HIDE DEF c, t
    <3> QED BY <2>1, <2>2, <2>3 DEF Typed, ClientWith
  <2>5. Typed(R, u)
    <3> HIDE DEF c, t, u
    <3> QED BY <2>1, <2>4 DEF Typed
  <2>6. OnError(s, e) = (IF s.eng[e].fn THEN Reconnect(u) ELSE MaybeReconnectOnOpen(t))
    BY <1>2 DEF OnError
  <2>7. \A v : LoopOnly(t, v) \/ LoopOnly(u, v) =>
               SameSlots(s, v) /\ v.sock = s.sock /\ v.ready = "closed" /\ Deaf(s, v)
    <3> HIDE DEF c, t, u
    <3> QED BY <2>1, <2>2, <2>4 DEF LoopOnly, SameSlots, Deaf
  <2>8. /\ Typed(R, Reconnect(u)) /\ LoopOnly(u, Reconnect(u))
        /\ Typed(R, MaybeReconnectOnOpen(t)) /\ LoopOnly(t, MaybeReconnectOnOpen(t))
    <3> HIDE DEF c, t, u
    <3> QED BY <2>3, <2>5, ReconnectTyped
  <2> HIDE DEF c, t, u
  <2> QED BY <1>2, <2>6, <2>7, <2>8
<1> QED BY <1>1, <1>2

\* The Manager is closed, and its Sockets are not connected.
Shut(s, t) ==
  /\ t.ready = "closed" /\ Deaf(s, t) /\ t.skipReconnect = s.skipReconnect
  /\ \A n \in Nsp : t.sock[n].connected => s.sock[n].connected /\ ~ s.sock[n].subs

LEMMA OnCloseTyped ==
  ASSUME NEW R, NEW s, Typed(R, s)
  PROVE  Typed(R, OnClose(s)) /\ SameSlots(s, OnClose(s)) /\ Shut(s, OnClose(s))
<1> DEFINE c == Cleanup(s)
           t == [[c EXCEPT !.attempts = 0] EXCEPT !.ready = "closed"]
           S == [n \in Nsp |-> IF t.sock[n].subs THEN [t.sock[n] EXCEPT !.connected = FALSE]
                               ELSE t.sock[n]]
           u == [t EXCEPT !.sock = S]
<1>1. /\ Typed(R, c) /\ SameSlots(s, c) /\ SameFlags(s, c) /\ Deaf(s, c) /\ c.sock = s.sock
  BY CleanupTyped
<1>2. /\ t \in ClientWith(R) /\ t.ready = "closed" /\ t.eng = c.eng /\ t.sock = c.sock
      /\ t.connecting = c.connecting /\ t.hasty = c.hasty /\ t.engine = c.engine
      /\ t.skipReconnect = c.skipReconnect
  <2>0. 0 \in 0 .. MaxAttempts
    BY BoundsAssumption
  <2> HIDE DEF c
  <2> QED BY <1>1, <2>0 DEF Typed, ClientWith
<1>3. OnClose(s) = Reconnect(u)
  BY DEF OnClose, AllClose, Reset
<1>4. ASSUME NEW n \in Nsp
      PROVE  /\ S[n] \in SocketWith /\ Sound(S[n], R[n]) /\ S[n].subs = s.sock[n].subs
             /\ S[n].connected => s.sock[n].connected /\ ~ s.sock[n].subs
  <2>1. /\ t.sock[n] = s.sock[n] /\ s.sock[n] \in SocketWith /\ Sound(s.sock[n], R[n])
    <3> HIDE DEF c, t
    <3> QED BY <1>1, <1>2 DEF Typed, ClientWith
  <2>2. CASE t.sock[n].subs
    <3>1. S[n] = [s.sock[n] EXCEPT !.connected = FALSE]
      <4> HIDE DEF c, t
      <4> QED BY <2>1, <2>2
    <3>2. [s.sock[n] EXCEPT !.connected = FALSE] \in SocketWith
      BY <2>1 DEF SocketWith
    <3>3. Sound([s.sock[n] EXCEPT !.connected = FALSE], R[n])
      BY <2>1 DEF SocketWith, Sound
    <3>4. /\ [s.sock[n] EXCEPT !.connected = FALSE].subs = s.sock[n].subs
          /\ ~ [s.sock[n] EXCEPT !.connected = FALSE].connected
      BY <2>1 DEF SocketWith
    <3> HIDE DEF S
    <3> QED BY <3>1, <3>2, <3>3, <3>4
  <2>3. CASE ~ t.sock[n].subs
    <3>1. S[n] = s.sock[n]
      <4> HIDE DEF c, t
      <4> QED BY <2>1, <2>3
    <3> HIDE DEF S, c, t
    <3> QED BY <2>1, <2>3, <3>1
  <2> QED BY <2>2, <2>3
<1>5. S \in [Nsp -> SocketWith]
  <2>1. \A n \in Nsp : S[n] \in SocketWith
    BY <1>4
  <2> QED BY <2>1
<1>6. /\ u \in ClientWith(R) /\ u.ready = "closed" /\ u.eng = c.eng /\ u.sock = S
      /\ u.connecting = c.connecting /\ u.hasty = c.hasty /\ u.engine = c.engine
      /\ u.skipReconnect = c.skipReconnect
  <2> HIDE DEF c, t, S
  <2> QED BY <1>2, <1>5 DEF ClientWith
<1>7. Typed(R, u)
  <2> HIDE DEF c, t, u, S
  <2> QED BY <1>4, <1>6 DEF Typed
<1>8. Typed(R, Reconnect(u)) /\ LoopOnly(u, Reconnect(u))
  <2> HIDE DEF u
  <2> QED BY <1>7, ReconnectTyped
<1> HIDE DEF u, S, c
<1> QED BY <1>1, <1>3, <1>4, <1>6, <1>8 DEF SameSlots, SameFlags, Deaf, Shut, LoopOnly

LEMMA ClosedTyped ==
  ASSUME NEW R, NEW s, Typed(R, s), NEW e \in Engine
  PROVE  LET t == EngineClosed(s, e) IN
         /\ Typed(R, t) /\ SameSlots(s, t)
         /\ t.eng[e].state = "closed"
         /\ \A f \in Engine \ {e} : t.eng[f].state = s.eng[f].state
         /\ "live" \notin s.eng[e].subs =>
              SameFlags(s, t) /\ t.sock = s.sock /\ \A f \in Engine : t.eng[f].subs = s.eng[f].subs
         /\ "live" \in s.eng[e].subs =>
              /\ t.ready = "closed" /\ t.skipReconnect = s.skipReconnect
              /\ \A f \in Engine : t.eng[f].subs = {}
              /\ \A n \in Nsp : t.sock[n].connected => s.sock[n].connected /\ ~ s.sock[n].subs
<1> DEFINE x == [[s.eng[e] EXCEPT !.state = "closed"] EXCEPT !.down = <<>>]
           t == [s EXCEPT !.eng = [@ EXCEPT ![e] = x]]
<1>1. s.eng[e] \in EngineWith(R) /\ s.eng \in [Engine -> EngineWith(R)] /\ <<>> \in Seq(Downward(R))
  BY DEF Typed, ClientWith
<1>2. /\ x \in EngineWith(R) /\ x.state = "closed" /\ x.subs = s.eng[e].subs
  BY <1>1 DEF EngineWith
<1>3. t = [s EXCEPT !.eng[e].state = "closed", !.eng[e].down = <<>>]
  BY <1>1 DEF Typed, ClientWith
<1>4. /\ t \in ClientWith(R) /\ t.eng = [s.eng EXCEPT ![e] = x] /\ t.sock = s.sock /\ SameFlags(s, t)
      /\ t.connecting = s.connecting /\ t.hasty = s.hasty /\ t.engine = s.engine
  <2> HIDE DEF x
  <2> QED BY <1>1, <1>2 DEF Typed, ClientWith, SameFlags
<1>5. t.eng[e] = x /\ \A f \in Engine \ {e} : t.eng[f] = s.eng[f]
  <2> HIDE DEF x, t
  <2> QED BY <1>1, <1>4
<1>6. Typed(R, t) /\ SameSlots(s, t)
  <2> HIDE DEF x, t
  <2> QED BY <1>4 DEF Typed, SameSlots
<1>7. EngineClosed(s, e) = IF "live" \in s.eng[e].subs THEN OnClose(t) ELSE t
  <2> HIDE DEF t
  <2> QED BY <1>3 DEF EngineClosed
<1>8. Typed(R, OnClose(t)) /\ SameSlots(t, OnClose(t)) /\ Shut(t, OnClose(t))
  <2> HIDE DEF t
  <2> QED BY <1>6, OnCloseTyped
<1>9. t.eng[e].state = "closed" /\ \A f \in Engine : t.eng[f].subs = s.eng[f].subs
  <2> HIDE DEF t, x
  <2> QED BY <1>2, <1>5
<1>10. CASE "live" \notin s.eng[e].subs
  <2> HIDE DEF t, x
  <2> QED BY <1>4, <1>5, <1>6, <1>7, <1>9, <1>10
<1>11. CASE "live" \in s.eng[e].subs
  <2> DEFINE c == OnClose(t)
  <2>1. EngineClosed(s, e) = c
    BY <1>7, <1>11
  <2>2. SameSlots(s, c)
    <3> HIDE DEF t, x, c
    <3> QED BY <1>6, <1>8 DEF SameSlots, c
  <2>3. /\ c.ready = "closed" /\ c.skipReconnect = s.skipReconnect
        /\ \A f \in Engine : c.eng[f].subs = {}
        /\ \A n \in Nsp : c.sock[n].connected => s.sock[n].connected /\ ~ s.sock[n].subs
    <3>1. Shut(t, c) /\ t.skipReconnect = s.skipReconnect /\ t.sock = s.sock
      <4> HIDE DEF t
      <4> QED BY <1>4, <1>8 DEF SameFlags
    <3> HIDE DEF t, c
    <3> QED BY <3>1 DEF Shut, Deaf
  <2>4. c.eng[e].state = "closed" /\ \A f \in Engine \ {e} : c.eng[f].state = s.eng[f].state
    <3>1. \A f \in Engine : c.eng[f].state = t.eng[f].state
      <4> HIDE DEF t, x, c
      <4> QED BY <1>8 DEF Shut, Deaf, c
    <3> HIDE DEF t, x, c
    <3> QED BY <1>5, <1>9, <3>1
  <2>5. Typed(R, c)
    BY <1>8
  <2> HIDE DEF c, t, x
  <2> QED BY <1>11, <2>1, <2>2, <2>3, <2>4, <2>5
<1> QED BY <1>10, <1>11

LEMMA CloseEngineTyped ==
  ASSUME NEW R, NEW s, Typed(R, s), NEW busy \in BOOLEAN
  PROVE  LET t == CloseEngine(s, busy) IN
         /\ Typed(R, t) /\ SameSlots(s, t) /\ t.skipReconnect = s.skipReconnect
         /\ \A f \in Engine \ {s.engine} : t.eng[f].state = s.eng[f].state
         /\ s.engine # 0 => t.eng[s.engine].state \notin {"opening", "open"}
         /\ \/ /\ SameFlags(s, t) /\ t.sock = s.sock
               /\ \A f \in Engine : t.eng[f].subs = s.eng[f].subs
            \/ /\ s.engine # 0 /\ "live" \in s.eng[s.engine].subs
               /\ t.ready = "closed" /\ \A f \in Engine : t.eng[f].subs = {}
               /\ \A n \in Nsp : t.sock[n].connected => s.sock[n].connected /\ ~ s.sock[n].subs
<1> DEFINE e == s.engine
           waits == IF s.eng[e].state = "opening" THEN "unopened" ELSE "closing"
           x == [s.eng[e] EXCEPT !.state = waits]
           t == [s EXCEPT !.eng = [@ EXCEPT ![e] = x]]
<1>1. CASE e = 0 \/ s.eng[e].state \notin {"opening", "open", "reopened"}
  <2>1. CloseEngine(s, busy) = s
    BY <1>1 DEF CloseEngine
  <2>2. e # 0 => s.eng[e].state \notin {"opening", "open"}
    BY <1>1
  <2> QED BY <2>1, <2>2 DEF SameSlots, SameFlags
<1>2. CASE ~ (e = 0 \/ s.eng[e].state \notin {"opening", "open", "reopened"})
  <2>1. e \in Engine /\ s.eng[e] \in EngineWith(R) /\ s.eng \in [Engine -> EngineWith(R)]
    BY <1>2, BoundsAssumption DEF Typed, ClientWith, Engine
  <2>2. CASE busy /\ (s.eng[e].up # <<>> \/ s.eng[e].state # "opening")
    <3>1. CloseEngine(s, busy) = t
      BY <1>2, <2>2 DEF CloseEngine
    <3>2. /\ x \in EngineWith(R) /\ x.state \notin {"opening", "open"}
          /\ x.subs = s.eng[e].subs
      BY <2>1 DEF EngineWith
    <3>3. /\ t \in ClientWith(R) /\ t.eng = [s.eng EXCEPT ![e] = x] /\ t.sock = s.sock
          /\ SameFlags(s, t) /\ t.connecting = s.connecting /\ t.hasty = s.hasty
          /\ t.engine = s.engine
      <4> HIDE DEF x
      <4> QED BY <2>1, <3>2 DEF Typed, ClientWith, SameFlags
    <3>4. t.eng[e] = x /\ \A f \in Engine \ {e} : t.eng[f] = s.eng[f]
      <4> HIDE DEF x, t, e
      <4> QED BY <2>1, <3>3
    <3>5. Typed(R, t) /\ SameSlots(s, t)
      <4> HIDE DEF x, t
      <4> QED BY <3>3 DEF Typed, SameSlots
    <3> HIDE DEF t, x
    <3> QED BY <1>2, <2>1, <3>1, <3>2, <3>3, <3>4, <3>5 DEF SameFlags
  <2>3. CASE ~ (busy /\ (s.eng[e].up # <<>> \/ s.eng[e].state # "opening"))
    <3>1. CloseEngine(s, busy) = EngineClosed(s, e)
      BY <1>2, <2>3 DEF CloseEngine
    <3> DEFINE c == EngineClosed(s, e)
    <3>2. /\ Typed(R, c) /\ SameSlots(s, c) /\ c.eng[e].state = "closed"
          /\ \A f \in Engine \ {e} : c.eng[f].state = s.eng[f].state
      BY <2>1, ClosedTyped
    <3>3. /\ c.skipReconnect = s.skipReconnect
          /\ \/ /\ SameFlags(s, c) /\ c.sock = s.sock
                /\ \A f \in Engine : c.eng[f].subs = s.eng[f].subs
             \/ /\ "live" \in s.eng[e].subs
                /\ c.ready = "closed" /\ \A f \in Engine : c.eng[f].subs = {}
                /\ \A n \in Nsp : c.sock[n].connected => s.sock[n].connected /\ ~ s.sock[n].subs
      BY <2>1, ClosedTyped DEF SameFlags
    <3> HIDE DEF c
    <3> QED BY <1>2, <2>1, <3>1, <3>2, <3>3 DEF c
  <2> QED BY <2>2, <2>3
<1> QED BY <1>1, <1>2

LEMMA CloseManagerSteady ==
  ASSUME NEW R, NEW s, Typed(R, s), NEW busy \in BOOLEAN
  PROVE  LET t == CloseManager(s, busy) IN
         /\ Typed(R, t) /\ SameSlots(s, t)
         /\ \A n \in Nsp : t.sock[n].connected => s.sock[n].connected
         /\ OneEngine(s) /\ s.connecting = {} => OneEngine(t)
<1> DEFINE t == [s EXCEPT !.skipReconnect = TRUE, !.reconnecting = FALSE]
           u == IF s.ready = "opening" THEN Cleanup(t) ELSE t
           v == [[u EXCEPT !.attempts = 0] EXCEPT !.ready = "closed"]
           w == CloseEngine(v, busy)
<1>1. /\ t \in ClientWith(R) /\ t.skipReconnect = TRUE /\ t.reconnecting = FALSE
      /\ t.eng = s.eng /\ t.sock = s.sock /\ t.engine = s.engine
      /\ t.connecting = s.connecting /\ t.hasty = s.hasty
  BY DEF Typed, ClientWith
<1>2. Typed(R, t)
  <2> HIDE DEF t
  <2> QED BY <1>1 DEF Typed
<1>3. /\ Typed(R, u) /\ u.skipReconnect = TRUE /\ u.reconnecting = FALSE
      /\ u.sock = s.sock /\ u.engine = s.engine /\ u.connecting = s.connecting /\ u.hasty = s.hasty
      /\ \A e \in Engine : /\ u.eng[e].state = s.eng[e].state
                           /\ u.eng[e].subs = IF s.ready = "opening" THEN {} ELSE s.eng[e].subs
  <2>1. /\ Typed(R, Cleanup(t)) /\ SameSlots(t, Cleanup(t)) /\ SameFlags(t, Cleanup(t))
        /\ Deaf(t, Cleanup(t)) /\ Cleanup(t).sock = t.sock
    <3> HIDE DEF t
    <3> QED BY <1>2, CleanupTyped
  <2> HIDE DEF t
  <2> QED BY <1>1, <1>2, <2>1 DEF SameSlots, SameFlags, Deaf
<1>4. /\ v \in ClientWith(R) /\ v.ready = "closed" /\ v.eng = u.eng /\ v.sock = u.sock
      /\ v.connecting = u.connecting /\ v.hasty = u.hasty /\ v.engine = u.engine
      /\ v.skipReconnect = u.skipReconnect /\ v.reconnecting = u.reconnecting
  <2>1. 0 \in 0 .. MaxAttempts
    BY BoundsAssumption
  <2> HIDE DEF u
  <2> QED BY <1>3, <2>1 DEF Typed, ClientWith
<1>5. Typed(R, v)
  <2> HIDE DEF u, v
  <2> QED BY <1>3, <1>4 DEF Typed
<1>6. CloseManager(s, busy) = w
  BY DEF CloseManager, Reset
<1>7. Typed(R, w) /\ SameSlots(v, w) /\ w.skipReconnect = v.skipReconnect
  <2> HIDE DEF v
  <2> QED BY <1>5, CloseEngineTyped
<1>8. /\ \A f \in Engine \ {v.engine} : w.eng[f].state = v.eng[f].state
      /\ v.engine # 0 => w.eng[v.engine].state \notin {"opening", "open"}
  <2> HIDE DEF v
  <2> QED BY <1>5, CloseEngineTyped
<1>9. \/ /\ SameFlags(v, w) /\ w.sock = v.sock
         /\ \A f \in Engine : w.eng[f].subs = v.eng[f].subs
      \/ /\ w.ready = "closed" /\ \A f \in Engine : w.eng[f].subs = {}
         /\ \A n \in Nsp : w.sock[n].connected => v.sock[n].connected
  <2> HIDE DEF v
  <2> QED BY <1>5, CloseEngineTyped
<1>10. SameSlots(s, w)
  <2> HIDE DEF t, u, v, w
  <2> QED BY <1>3, <1>4, <1>7 DEF SameSlots
<1>11. \A n \in Nsp : w.sock[n].connected => s.sock[n].connected
  <2> HIDE DEF t, u, v, w
  <2> QED BY <1>3, <1>4, <1>9
<1>12. ASSUME OneEngine(s), s.connecting = {}
       PROVE  OneEngine(w)
  <2>1. w.engine = s.engine /\ w.connecting = {} /\ w.ready = "closed" /\ w.skipReconnect = TRUE
    <3> HIDE DEF t, u, v, w
    <3> QED BY <1>3, <1>4, <1>7, <1>9, <1>12 DEF SameSlots, SameFlags
  <2>2. \A e \in Engine \ {s.engine} :
          w.eng[e].subs = {} /\ w.eng[e].state \notin {"opening", "open"}
    <3> HIDE DEF t, u, v, w
    <3> QED BY <1>3, <1>4, <1>8, <1>9, <1>12 DEF OneEngine
  <2>3. ASSUME s.engine # 0
        PROVE  /\ w.eng[s.engine].state \notin {"opening", "open"}
               /\ \/ w.eng[s.engine].subs = {}
                  \/ w.eng[s.engine].subs = {"live"} /\ ~ w.reconnecting
    <3>1. s.engine \in Engine /\ s.ready \in {"closed", "opening", "open"}
      BY <2>3, BoundsAssumption DEF Typed, ClientWith, Engine
    <3>2. v.eng[s.engine].subs \in {{}, {"live"}}
      <4> HIDE DEF t, u, v, w
      <4> QED BY <1>3, <1>4, <1>12, <2>3, <3>1 DEF OneEngine
    <3> HIDE DEF t, u, v, w
    <3> QED BY <1>3, <1>4, <1>8, <1>9, <2>3, <3>1, <3>2 DEF SameFlags
  <2> HIDE DEF w
  <2> QED BY <2>1, <2>2, <2>3 DEF OneEngine
<1> HIDE DEF w
<1> QED BY <1>6, <1>7, <1>10, <1>11, <1>12

-----------------------------------------------------------------------------
(* The Sockets.                                                            *)

\* All but the Socket of n.
SameButSock(n, s, t) ==
  /\ t.ready = s.ready /\ t.engine = s.engine /\ t.skipReconnect = s.skipReconnect
  /\ t.reconnecting = s.reconnecting /\ t.connecting = s.connecting /\ t.hasty = s.hasty
  /\ t.eng = s.eng
  /\ \A k \in Nsp \ {n} : t.sock[k] = s.sock[k]

LEMMA SockTyped ==
  ASSUME NEW R, NEW s, Typed(R, s), NEW n \in Nsp, NEW x \in SocketWith, Sound(x, R[n])
  PROVE  LET t == [s EXCEPT !.sock = [@ EXCEPT ![n] = x]] IN
         Typed(R, t) /\ SameButSock(n, s, t) /\ t.sock[n] = x
<1> DEFINE t == [s EXCEPT !.sock = [@ EXCEPT ![n] = x]]
<1>1. /\ t \in ClientWith(R) /\ t.sock = [s.sock EXCEPT ![n] = x]
      /\ s.sock \in [Nsp -> SocketWith]
  BY DEF Typed, ClientWith
<1>2. /\ t.ready = s.ready /\ t.engine = s.engine /\ t.skipReconnect = s.skipReconnect
      /\ t.reconnecting = s.reconnecting /\ t.connecting = s.connecting /\ t.hasty = s.hasty
      /\ t.eng = s.eng
  BY DEF Typed, ClientWith
<1>3. t.sock[n] = x /\ \A k \in Nsp \ {n} : t.sock[k] = s.sock[k]
  <2> HIDE DEF t
  <2> QED BY <1>1
<1> HIDE DEF t
<1> QED BY <1>1, <1>2, <1>3 DEF Typed, SameButSock, t

LEMMA DisconnectedTyped ==
  ASSUME NEW R, NEW s, Typed(R, s), NEW n \in Nsp
  PROVE  LET t == Disconnected(s, n) IN
         /\ Typed(R, t) /\ SameButSock(n, s, t)
         /\ t.sock[n].subs = s.sock[n].subs /\ ~ t.sock[n].connected
<1> DEFINE x == [s.sock[n] EXCEPT !.connected = FALSE]
<1>1. s.sock[n] \in SocketWith /\ Sound(s.sock[n], R[n])
  BY DEF Typed, ClientWith
<1>2. x \in SocketWith /\ Sound(x, R[n]) /\ x.subs = s.sock[n].subs /\ ~ x.connected
  BY <1>1 DEF SocketWith, Sound
<1>3. Disconnected(s, n) = [s EXCEPT !.sock = [@ EXCEPT ![n] = x]]
  BY DEF Disconnected
<1> HIDE DEF x
<1> QED BY <1>2, <1>3, SockTyped

LEMMA SameSteady ==
  ASSUME NEW s, NEW t, SameControl(s, t), Steady(s), s.engine \in 0 .. MaxEngines
  PROVE  Steady(t)
<1>1. s.engine # 0 => s.engine \in Engine
  BY BoundsAssumption DEF Engine
<1>2. Slots(t)
  BY DEF SameControl, Steady, Slots
<1>3. ASSUME ~ t.hasty PROVE OneEngine(t)
  <2>1. OneEngine(s)
    BY <1>3 DEF SameControl, Steady
  <2> QED BY <1>1, <2>1 DEF SameControl, OneEngine
<1>4. ASSUME ~ t.hasty PROVE Heard(t)
  BY <1>4 DEF SameControl, Steady, Heard
<1> QED BY <1>2, <1>3, <1>4 DEF Steady

\* destroy() of a Socket, with the onclose() that follows.
LEMMA DestroySteady ==
  ASSUME NEW R, NEW s, Typed(R, s), NEW n \in Nsp, NEW busy \in BOOLEAN
  PROVE  LET t == Disconnected(SocketDestroy(s, n, busy), n) IN
         /\ Typed(R, t)
         /\ Steady(s) => Steady(t)
<1> DEFINE x == [s.sock[n] EXCEPT !.subs = FALSE]
           a == [s EXCEPT !.sock = [@ EXCEPT ![n] = x]]
           b == [a EXCEPT !.connecting = @ \ {n}]
           c == IF b.connecting = {} THEN CloseManager(b, busy) ELSE b
           d == Disconnected(c, n)
<1>1. s.sock[n] \in SocketWith /\ Sound(s.sock[n], R[n])
  BY DEF Typed, ClientWith
<1>2. x \in SocketWith /\ Sound(x, R[n]) /\ ~ x.subs
  BY <1>1 DEF SocketWith, Sound
<1>3. Typed(R, a) /\ SameButSock(n, s, a) /\ a.sock[n] = x
  <2> HIDE DEF x
  <2> QED BY <1>2, SockTyped
<1>4. /\ b \in ClientWith(R) /\ b.connecting = a.connecting \ {n} /\ b.sock = a.sock
      /\ b.eng = a.eng /\ b.ready = a.ready /\ b.engine = a.engine /\ b.hasty = a.hasty
      /\ b.skipReconnect = a.skipReconnect /\ b.reconnecting = a.reconnecting
  <2> HIDE DEF a
  <2> QED BY <1>3 DEF Typed, ClientWith
<1>5. Typed(R, b)
  <2> HIDE DEF a, b
  <2> QED BY <1>3, <1>4 DEF Typed
<1>6. LET w == CloseManager(b, busy) IN
      /\ Typed(R, w) /\ SameSlots(b, w)
      /\ \A k \in Nsp : w.sock[k].connected => b.sock[k].connected
      /\ OneEngine(b) /\ b.connecting = {} => OneEngine(w)
  <2> HIDE DEF b
  <2> QED BY <1>5, CloseManagerSteady
<1>7. /\ Typed(R, c) /\ SameSlots(b, c)
      /\ \A k \in Nsp : c.sock[k].connected => b.sock[k].connected
      /\ OneEngine(b) => OneEngine(c)
      /\ b.connecting # {} => c = b
  <2> HIDE DEF b
  <2> QED BY <1>5, <1>6 DEF SameSlots
<1>8. Disconnected(SocketDestroy(s, n, busy), n) = d
  BY Zenon DEF SocketDestroy, Destroy
<1>9. /\ Typed(R, d) /\ SameButSock(n, c, d)
      /\ d.sock[n].subs = c.sock[n].subs /\ ~ d.sock[n].connected
  <2> HIDE DEF c
  <2> QED BY <1>7, DisconnectedTyped
<1>10. /\ d.connecting = s.connecting \ {n} /\ d.hasty = s.hasty
       /\ ~ d.sock[n].subs /\ \A k \in Nsp \ {n} : d.sock[k].subs = s.sock[k].subs
  <2> HIDE DEF a, b, c, d, x
  <2> QED BY <1>2, <1>3, <1>4, <1>7, <1>9 DEF SameButSock, SameSlots
<1>11. ASSUME Slots(s) PROVE Slots(d)
  <2> HIDE DEF a, b, c, d, x
  <2> QED BY <1>10, <1>11 DEF Slots
<1>12. ASSUME OneEngine(s) PROVE OneEngine(d)
  <2>1. OneEngine(b)
    <3>1. b.connecting \subseteq s.connecting /\ b.eng = s.eng /\ b.ready = s.ready
          /\ b.engine = s.engine /\ b.skipReconnect = s.skipReconnect
          /\ b.reconnecting = s.reconnecting
      <4> HIDE DEF a, b, x
      <4> QED BY <1>3, <1>4 DEF SameButSock
    <3> HIDE DEF b
    <3> QED BY <1>12, <3>1 DEF OneEngine
  <2>2. OneEngine(c)
    <3> HIDE DEF b, c
    <3> QED BY <1>7, <2>1
  <2> HIDE DEF c, d
  <2> QED BY <1>9, <2>2 DEF OneEngine, SameButSock
<1>13. ASSUME Slots(s), Heard(s) PROVE Heard(d)
  <2> SUFFICES ASSUME NEW k \in Nsp, d.sock[k].connected
               PROVE  d.ready = "open" /\ d.sock[k].subs
    BY DEF Heard
  <2>1. k # n /\ c.sock[k].connected
    <3> HIDE DEF c, d
    <3> QED BY <1>9 DEF SameButSock
  <2>2. s.sock[k].connected /\ s.sock[k].subs /\ s.ready = "open"
    <3>1. s.sock[k].connected
      <4> HIDE DEF a, b, c, d, x
      <4> QED BY <1>3, <1>4, <1>7, <2>1 DEF SameButSock
    <3> QED BY <1>13, <3>1 DEF Heard
  <2>3. k \in s.connecting
    BY <1>13, <2>2 DEF Slots
  <2>4. c = b
    <3> HIDE DEF a, b, c, x
    <3> QED BY <1>3, <1>4, <1>7, <2>1, <2>3 DEF SameButSock
  <2>5. d.ready = "open"
    <3> HIDE DEF a, b, c, d, x
    <3> QED BY <1>3, <1>4, <1>9, <2>2, <2>4 DEF SameButSock
  <2> HIDE DEF d
  <2> QED BY <1>10, <2>1, <2>2, <2>5
<1>14. ASSUME Steady(s) PROVE Steady(d)
  <2> HIDE DEF d
  <2> QED BY <1>10, <1>11, <1>12, <1>13, <1>14 DEF Steady
<1> HIDE DEF d
<1> QED BY <1>8, <1>9, <1>14

LEMMA DisconnectSteady ==
  ASSUME NEW R, NEW s, Typed(R, s), NEW n \in Nsp, NEW busy \in BOOLEAN
  PROVE  /\ Typed(R, Disconnect(s, n, busy))
         /\ Steady(s) => Steady(Disconnect(s, n, busy))
<1> DEFINE t == IF s.sock[n].connected THEN SendPacket(s, Control("disconnect", n)) ELSE s
<1>1. Control("disconnect", n) \in Upward
  BY DEF Control, Upward, Packet
<1>2. Typed(R, t) /\ SameControl(s, t)
  BY <1>1, SendTyped DEF SameControl
<1>3. Steady(s) => Steady(t)
  <2>1. s.engine \in 0 .. MaxEngines
    BY DEF Typed, ClientWith
  <2> HIDE DEF t
  <2> QED BY <1>2, <2>1, SameSteady
<1>4. Disconnect(s, n, busy) = Disconnected(SocketDestroy(t, n, busy), n)
  BY DEF Disconnect
<1> HIDE DEF t
<1> QED BY <1>2, <1>3, <1>4, DestroySteady

LEMMA SameSock ==
  ASSUME NEW s, NEW t, NEW n \in Nsp, SameButSock(n, s, t),
         t.sock[n].subs = s.sock[n].subs, t.sock[n].connected = s.sock[n].connected
  PROVE  SameControl(s, t)
BY DEF SameButSock, SameControl

LEMMA SameTwice ==
  ASSUME NEW s, NEW t, NEW u, SameControl(s, t), SameControl(t, u)
  PROVE  SameControl(s, u)
BY DEF SameControl

LEMMA EmitTyped ==
  ASSUME NEW R, NEW s, Typed(R, s), NEW n \in Nsp, NEW kind \in {"event", "blob"},
         s.sock[n].emitted + 1 <= MaxEvents
  PROVE  Typed(R, Emit(s, n, kind)) /\ SameControl(s, Emit(s, n, kind))
<1> DEFINE k == s.sock[n].emitted + 1
           id == s.sock[n].ids
           p == [type |-> kind, nsp |-> n, n |-> k, id |-> id]
           x == [s.sock[n] EXCEPT !.emitted = k, !.ids = id + 1, !.acks = @ \cup {<<id, k>>}]
           t == [s EXCEPT !.sock = [@ EXCEPT ![n] = x]]
           y == [t.sock[n] EXCEPT !.sendBuffer = Append(@, p)]
           u == [t EXCEPT !.sock = [@ EXCEPT ![n] = y]]
<1>1. s.sock[n] \in SocketWith /\ Sound(s.sock[n], R[n])
  BY DEF Typed, ClientWith
<1>2. id \in Nat /\ k = id + 1 /\ k \in Nat /\ id + 1 \in Nat
  BY <1>1 DEF SocketWith, Sound
<1>3. x \in SocketWith
  <2>1. s.sock[n].acks \cup {<<id, k>>} \in SUBSET (Nat \X Nat)
    BY <1>1, <1>2 DEF SocketWith
  <2> HIDE DEF id, k
  <2> QED BY <1>1, <1>2, <2>1 DEF SocketWith
<1>4. /\ x.emitted = k /\ x.ids = k /\ x.acks = s.sock[n].acks \cup {<<id, k>>}
      /\ x.acked = s.sock[n].acked /\ x.subs = s.sock[n].subs /\ x.connected = s.sock[n].connected
      /\ x.sendBuffer = s.sock[n].sendBuffer
  BY <1>1, <1>2 DEF SocketWith
<1>5. Sound(x, R[n])
  <2>1. k <= MaxEvents /\ s.sock[n].emitted < k
    BY <1>1 DEF SocketWith
  <2>2. \A a \in x.acks : a[2] = a[1] + 1 /\ a[2] <= k
    <3> HIDE DEF x
    <3>1. ASSUME NEW a \in s.sock[n].acks PROVE a[2] = a[1] + 1 /\ a[2] <= k
      <4>1. a[1] \in Nat /\ a[2] \in Nat /\ a[2] = a[1] + 1 /\ a[2] <= s.sock[n].emitted
        BY <1>1 DEF SocketWith, Sound
      <4> QED BY <1>1, <1>2, <2>1, <4>1 DEF SocketWith
    <3> HIDE DEF id, k
    <3> QED BY <1>2, <1>4, <3>1
  <2>3. ASSUME NEW j \in DOMAIN x.acked
        PROVE  /\ x.acked[j] \in R[n] /\ x.acked[j] <= k
               /\ \A a \in x.acks : a[2] # x.acked[j]
               /\ \A i \in 1 .. j - 1 : x.acked[i] # x.acked[j]
    <3>1. /\ j \in DOMAIN s.sock[n].acked /\ s.sock[n].acked \in Seq(Nat)
          /\ s.sock[n].emitted \in Nat
      BY <1>1, <1>4 DEF SocketWith
    <3>2. /\ x.acked[j] \in R[n] /\ x.acked[j] <= s.sock[n].emitted
          /\ \A a \in s.sock[n].acks : a[2] # x.acked[j]
          /\ \A i \in 1 .. j - 1 : x.acked[i] # x.acked[j]
      <4> HIDE DEF x
      <4> QED BY <1>1, <1>4, <3>1 DEF Sound
    <3>3. x.acked[j] \in Nat
      <4> HIDE DEF x
      <4> QED BY <1>4, <3>1
    <3> HIDE DEF x, k, id
    <3> QED BY <1>2, <1>4, <2>1, <3>1, <3>2, <3>3
  <2> HIDE DEF x, k, id
  <2> QED BY <1>4, <2>1, <2>2, <2>3 DEF Sound
<1>6. Typed(R, t) /\ SameButSock(n, s, t) /\ t.sock[n] = x
  <2> HIDE DEF x
  <2> QED BY <1>3, <1>5, SockTyped
<1>7. SameControl(s, t)
  <2> HIDE DEF t, x
  <2> QED BY <1>4, <1>6, SameSock
<1>8. p \in Upward
  BY <1>2 DEF Upward, Packet
<1>9. CASE s.sock[n].connected
  <2>1. Emit(s, n, kind) = SendPacket(t, p)
    BY Zenon, <1>9 DEF Emit
  <2>2. Typed(R, SendPacket(t, p)) /\ SameControl(t, SendPacket(t, p))
    <3> HIDE DEF t, p
    <3> QED BY <1>6, <1>8, SendTyped
  <2> HIDE DEF t, p
  <2> QED BY <1>7, <2>1, <2>2, SameTwice
<1>10. CASE ~ s.sock[n].connected
  <2>1. Emit(s, n, kind) = u
    BY Zenon, <1>10 DEF Emit
  <2>2. Append(x.sendBuffer, p) \in Seq(Upward)
    <3> HIDE DEF x, p
    <3> QED BY <1>3, <1>8 DEF SocketWith
  <2>3. /\ y \in SocketWith /\ Sound(y, R[n])
        /\ y.subs = x.subs /\ y.connected = x.connected
    <3> HIDE DEF x, p, t
    <3> QED BY <1>3, <1>5, <1>6, <2>2 DEF SocketWith, Sound
  <2>4. Typed(R, u) /\ SameButSock(n, t, u) /\ u.sock[n] = y
    <3> HIDE DEF t, y
    <3> QED BY <1>6, <2>3, SockTyped
  <2>5. SameControl(t, u)
    <3> HIDE DEF t, x, y, u
    <3> QED BY <1>6, <2>3, <2>4, SameSock
  <2> HIDE DEF u, t
  <2> QED BY <1>7, <2>1, <2>4, <2>5, SameTwice
<1> QED BY <1>9, <1>10

LEMMA BufferedTyped ==
  ASSUME NEW R, NEW s, Typed(R, s), NEW n \in Nsp
  PROVE  Typed(R, EmitBuffered(s, n)) /\ SameControl(s, EmitBuffered(s, n))
<1> DEFINE x == [s.sock[n] EXCEPT !.receiveBuffer = <<>>, !.sendBuffer = <<>>]
           t == [s EXCEPT !.sock = [@ EXCEPT ![n] = x]]
           u == SendAll(s.sock[n].sendBuffer, t)
<1>1. s.sock[n] \in SocketWith /\ Sound(s.sock[n], R[n])
  BY DEF Typed, ClientWith
<1>2. <<>> \in Seq(Packet) /\ <<>> \in Seq(Upward) /\ s.sock[n].sendBuffer \in Seq(Upward)
  BY <1>1 DEF SocketWith
<1>3. /\ x \in SocketWith /\ Sound(x, R[n])
      /\ x.subs = s.sock[n].subs /\ x.connected = s.sock[n].connected
  BY <1>1, <1>2 DEF SocketWith, Sound
<1>4. Typed(R, t) /\ SameButSock(n, s, t) /\ t.sock[n] = x
  <2> HIDE DEF x
  <2> QED BY <1>3, SockTyped
<1>5. SameControl(s, t)
  <2> HIDE DEF t, x
  <2> QED BY <1>3, <1>4, SameSock
<1>6. Typed(R, u) /\ SameControl(t, u)
  <2> HIDE DEF t
  <2> QED BY <1>2, <1>4, SendAllTyped
<1>7. EmitBuffered(s, n) = u
  BY DEF EmitBuffered
<1> HIDE DEF t, u
<1> QED BY <1>5, <1>6, <1>7, SameTwice

LEMMA OnConnectSteady ==
  ASSUME NEW R, NEW s, Typed(R, s), NEW n \in Nsp, s.sock[n].subs,
         ~ s.hasty => s.ready = "open"
  PROVE  /\ Typed(R, OnConnect(s, n))
         /\ Steady(s) => Steady(OnConnect(s, n))
<1> DEFINE x == [s.sock[n] EXCEPT !.connected = TRUE]
           t == [s EXCEPT !.sock = [@ EXCEPT ![n] = x]]
           k == s.sock[n].emitted + 1
           y == [t.sock[n] EXCEPT !.greetings = @ \cup {k}]
           u == [t EXCEPT !.sock = [@ EXCEPT ![n] = y]]
           w == IF n \in s.page.emits /\ k <= MaxEvents THEN Emit(u, n, "event") ELSE t
<1>1. s.sock[n] \in SocketWith /\ Sound(s.sock[n], R[n])
  BY DEF Typed, ClientWith
<1>2. x \in SocketWith /\ Sound(x, R[n]) /\ x.subs = s.sock[n].subs /\ x.emitted = s.sock[n].emitted
  BY <1>1 DEF SocketWith, Sound
<1>3. Typed(R, t) /\ SameButSock(n, s, t) /\ t.sock[n] = x
  <2> HIDE DEF x
  <2> QED BY <1>2, SockTyped
<1>4. /\ y \in SocketWith /\ Sound(y, R[n]) /\ y.subs = x.subs /\ y.connected = x.connected
      /\ y.emitted = s.sock[n].emitted
  <2>1. x.greetings \cup {k} \in SUBSET Nat
    <3>1. k \in Nat
      BY <1>1 DEF SocketWith
    <3>2. x.greetings \in SUBSET Nat
      <4> HIDE DEF x
      <4> QED BY <1>2 DEF SocketWith
    <3> HIDE DEF x, k
    <3> QED BY <3>1, <3>2
  <2> HIDE DEF t, x, k
  <2> QED BY <1>2, <1>3, <2>1 DEF SocketWith, Sound
<1>5. Typed(R, u) /\ SameButSock(n, t, u) /\ u.sock[n] = y
  <2> HIDE DEF t, y
  <2> QED BY <1>3, <1>4, SockTyped
<1>6. SameControl(t, u)
  <2> HIDE DEF t, x, y, u
  <2> QED BY <1>3, <1>4, <1>5, SameSock
<1>7. Typed(R, w) /\ SameControl(t, w)
  <2>1. CASE n \in s.page.emits /\ k <= MaxEvents
    <3>1. u.sock[n].emitted + 1 <= MaxEvents
      <4> HIDE DEF u, y
      <4> QED BY <1>4, <1>5, <2>1
    <3>2. Typed(R, Emit(u, n, "event")) /\ SameControl(u, Emit(u, n, "event"))
      <4> HIDE DEF u
      <4> QED BY <1>5, <3>1, EmitTyped
    <3> HIDE DEF t, u
    <3> QED BY <1>6, <2>1, <3>2, SameTwice
  <2>2. CASE ~ (n \in s.page.emits /\ k <= MaxEvents)
    <3> HIDE DEF t, u
    <3> QED BY <1>3, <2>2 DEF SameControl
  <2> QED BY <2>1, <2>2
<1>8. OnConnect(s, n) = EmitBuffered(w, n)
  <2>1. t.sock[n].emitted = s.sock[n].emitted
    <3> HIDE DEF t, x
    <3> QED BY <1>2, <1>3
  <2> QED BY Zenon, <2>1 DEF OnConnect
<1>9. Typed(R, EmitBuffered(w, n)) /\ SameControl(w, EmitBuffered(w, n))
  <2> HIDE DEF w
  <2> QED BY <1>7, BufferedTyped
<1>10. SameControl(t, OnConnect(s, n))
  <2> HIDE DEF t, w
  <2> QED BY <1>7, <1>8, <1>9, SameTwice
<1>11. ASSUME Steady(s) PROVE Steady(t)
  <2> HIDE DEF t, x
  <2>1. Slots(t)
    BY <1>2, <1>3, <1>11 DEF Steady, Slots, SameButSock
  <2>2. OneEngine(s) => OneEngine(t)
    BY <1>3 DEF OneEngine, SameButSock
  <2>3. ~ s.hasty /\ Heard(s) => Heard(t)
    BY <1>2, <1>3 DEF Heard, SameButSock
  <2> QED BY <1>3, <1>11, <2>1, <2>2, <2>3 DEF Steady, SameButSock
<1>12. t.engine \in 0 .. MaxEngines
  <2> HIDE DEF t
  <2> QED BY <1>3 DEF Typed, ClientWith
<1> HIDE DEF t, w
<1> QED BY <1>8, <1>9, <1>10, <1>11, <1>12, SameSteady

LEMMA AckTyped ==
  ASSUME NEW R, NEW s, Typed(R, s), NEW p \in Packet, p.id + 1 \in R[p.nsp]
  PROVE  Typed(R, OnAck(s, p)) /\ SameControl(s, OnAck(s, p))
<1> DEFINE n == p.nsp
           owed == {a \in s.sock[p.nsp].acks : a[1] = p.id}
           a == CHOOSE b \in owed : TRUE
           x == [s.sock[p.nsp] EXCEPT !.acks = @ \ {a}, !.acked = Append(@, a[2])]
           t == [s EXCEPT !.sock = [@ EXCEPT ![n] = x]]
<1>1. CASE owed = {}
  BY <1>1 DEF OnAck, SameControl
<1>2. CASE owed # {}
  <2>1. n \in Nsp /\ p.id \in Nat /\ s.sock[n] \in SocketWith /\ Sound(s.sock[n], R[n])
    BY DEF Typed, ClientWith, Packet
  <2>2. a \in owed
    <3> HIDE DEF owed
    <3> QED BY <1>2
  <2>3. /\ a \in s.sock[n].acks /\ a \in Nat \X Nat /\ a[1] = p.id /\ a[2] = p.id + 1
        /\ a[2] \in R[n] /\ a[2] <= s.sock[n].emitted
    <3> HIDE DEF a
    <3>1. a \in s.sock[n].acks /\ a[1] = p.id
      BY <2>2
    <3> QED BY <2>1, <3>1 DEF SocketWith, Sound
  <2>4. s.sock[n].acked \in Seq(Nat) /\ Append(s.sock[n].acked, a[2]) \in Seq(Nat)
    <3> HIDE DEF a
    <3> QED BY <2>1, <2>3 DEF SocketWith
  <2>5. /\ x \in SocketWith /\ x.subs = s.sock[n].subs /\ x.connected = s.sock[n].connected
        /\ x.acks = s.sock[n].acks \ {a} /\ x.acked = Append(s.sock[n].acked, a[2])
        /\ x.emitted = s.sock[n].emitted /\ x.ids = s.sock[n].ids
    <3> HIDE DEF a
    <3> QED BY <2>1, <2>4 DEF SocketWith
  <2>6. Sound(x, R[n])
    <3>1. \A b \in x.acks : b[2] = b[1] + 1 /\ b[2] <= x.emitted /\ b[2] # a[2]
      <4> SUFFICES ASSUME NEW b \in s.sock[n].acks, b # a
                   PROVE  b[2] = b[1] + 1 /\ b[2] <= s.sock[n].emitted /\ b[2] # a[2]
        <5> HIDE DEF x, a
        <5> QED BY <2>5
      <4>1. b \in Nat \X Nat /\ b[2] = b[1] + 1 /\ b[2] <= s.sock[n].emitted
        BY <2>1 DEF SocketWith, Sound
      <4> HIDE DEF a
      <4> QED BY <2>3, <4>1
    <3>2. ASSUME NEW j \in DOMAIN x.acked
          PROVE  /\ x.acked[j] \in R[n] /\ x.acked[j] <= x.emitted
                 /\ \A b \in x.acks : b[2] # x.acked[j]
                 /\ \A i \in 1 .. j - 1 : x.acked[i] # x.acked[j]
      <4> DEFINE q == s.sock[n].acked
      <4>1. q \in Seq(Nat) /\ x.acked = Append(q, a[2]) /\ j \in 1 .. Len(q) + 1
        <5> HIDE DEF x, a
        <5> QED BY <2>3, <2>4, <2>5
      <4>2. \A i \in DOMAIN q : /\ q[i] \in R[n] /\ q[i] <= s.sock[n].emitted
                                /\ \A b \in s.sock[n].acks : b[2] # q[i]
                                /\ \A h \in 1 .. i - 1 : q[h] # q[i]
        BY <2>1 DEF Sound
      <4>3. CASE j = Len(q) + 1
        <5>1. x.acked[j] = a[2] /\ \A i \in 1 .. j - 1 : x.acked[i] = q[i] /\ i \in DOMAIN q
          <6> HIDE DEF x, a, q
          <6> QED BY <4>1, <4>3
        <5>2. \A i \in 1 .. j - 1 : x.acked[i] # x.acked[j]
          <6>1. \A i \in DOMAIN q : a[2] # q[i]
            <7> HIDE DEF x, a, q
            <7> QED BY <2>3, <4>2
          <6> HIDE DEF x, a, q
          <6> QED BY <5>1, <6>1
        <5> HIDE DEF x, a, q, n
        <5> QED BY <2>3, <2>5, <3>1, <5>1, <5>2
      <4>4. CASE j # Len(q) + 1
        <5>1. /\ j \in DOMAIN q /\ x.acked[j] = q[j]
              /\ \A i \in 1 .. j - 1 : x.acked[i] = q[i]
          <6> HIDE DEF x, a, q
          <6> QED BY <4>1, <4>4
        <5> HIDE DEF x, a, q
        <5> QED BY <2>5, <4>2, <5>1
      <4> QED BY <4>3, <4>4
    <3>3. x.emitted <= MaxEvents /\ x.ids = x.emitted
      <4> HIDE DEF x, a
      <4> QED BY <2>1, <2>5 DEF Sound
    <3> HIDE DEF x, a
    <3> QED BY <3>1, <3>2, <3>3 DEF Sound
  <2>7. Typed(R, t) /\ SameButSock(n, s, t) /\ t.sock[n] = x
    <3>1. n \in Nsp /\ x \in SocketWith
      <4> HIDE DEF x
      <4> QED BY <2>1, <2>5
    <3> HIDE DEF x, n
    <3> QED BY <2>6, <3>1, SockTyped
  <2>8. SameControl(s, t)
    <3> HIDE DEF x, t, n
    <3> QED BY <2>1, <2>5, <2>7, SameSock
  <2>9. OnAck(s, p) = t
    BY Zenon, <1>2 DEF OnAck
  <2> HIDE DEF t
  <2> QED BY <2>7, <2>8, <2>9
<1> QED BY <1>1, <1>2

LEMMA EventTyped ==
  ASSUME NEW R, NEW s, Typed(R, s), NEW p \in Packet
  PROVE  Typed(R, OnEvent(s, p)) /\ SameControl(s, OnEvent(s, p))
<1> DEFINE n == p.nsp
           x == [s.sock[n] EXCEPT !.receiveBuffer = Append(@, p)]
           t == [s EXCEPT !.sock = [@ EXCEPT ![n] = x]]
<1>1. n \in Nsp /\ s.sock[n] \in SocketWith /\ Sound(s.sock[n], R[n])
  BY DEF Typed, ClientWith, Packet
<1>2. Append(s.sock[n].receiveBuffer, p) \in Seq(Packet)
  <2>1. s.sock[n].receiveBuffer \in Seq(Packet)
    BY <1>1 DEF SocketWith
  <2> QED BY <2>1
<1>3. /\ x \in SocketWith /\ Sound(x, R[n])
      /\ x.subs = s.sock[n].subs /\ x.connected = s.sock[n].connected
  <2> HIDE DEF n
  <2> QED BY <1>1, <1>2 DEF SocketWith, Sound
<1>4. Typed(R, t) /\ SameButSock(n, s, t) /\ t.sock[n] = x
  <2> HIDE DEF x, n
  <2> QED BY <1>1, <1>3, SockTyped
<1>5. SameControl(s, t)
  <2> HIDE DEF x, t, n
  <2> QED BY <1>1, <1>3, <1>4, SameSock
<1>6. OnEvent(s, p) = IF s.sock[n].connected THEN s ELSE t
  BY Zenon DEF OnEvent
<1> HIDE DEF t, n
<1> QED BY <1>4, <1>5, <1>6 DEF SameControl

LEMMA PacketSteady ==
  ASSUME NEW R, NEW s, Typed(R, s), Steady(s), NEW p \in Downward(R), NEW busy \in BOOLEAN,
         ~ s.hasty /\ s.sock[p.nsp].subs => s.ready = "open"
  PROVE  Typed(R, OnPacket(s, p, busy)) /\ Steady(OnPacket(s, p, busy))
<1> DEFINE t == OnPacket(s, p, busy)
<1>1. p \in Packet /\ p.nsp \in Nsp /\ p.type \in {"connect", "disconnect", "event", "ack"}
  BY DEF Downward, Packet
<1>2. s.engine \in 0 .. MaxEngines
  BY DEF Typed, ClientWith
<1>3. CASE ~ s.sock[p.nsp].subs
  BY <1>3 DEF OnPacket
<1>4. CASE s.sock[p.nsp].subs /\ p.type = "connect"
  <2>1. t = OnConnect(s, p.nsp)
    BY <1>4 DEF OnPacket
  <2> HIDE DEF t
  <2> QED BY <1>1, <1>4, <2>1, OnConnectSteady DEF t
<1>5. CASE s.sock[p.nsp].subs /\ p.type = "event"
  <2>1. t = OnEvent(s, p)
    BY <1>5 DEF OnPacket
  <2>2. Typed(R, t) /\ SameControl(s, t)
    <3> HIDE DEF t
    <3> QED BY <1>1, <2>1, EventTyped
  <2> HIDE DEF t
  <2> QED BY <1>2, <2>2, SameSteady DEF t
<1>6. CASE s.sock[p.nsp].subs /\ p.type = "ack"
  <2>1. t = OnAck(s, p)
    BY <1>6 DEF OnPacket
  <2>2. Typed(R, t) /\ SameControl(s, t)
    <3>1. p.id + 1 \in R[p.nsp]
      BY <1>6 DEF Downward
    <3> HIDE DEF t
    <3> QED BY <1>1, <2>1, <3>1, AckTyped
  <2> HIDE DEF t
  <2> QED BY <1>2, <2>2, SameSteady DEF t
<1>7. CASE s.sock[p.nsp].subs /\ p.type = "disconnect"
  <2>1. t = Disconnected(SocketDestroy(s, p.nsp, busy), p.nsp)
    BY <1>7 DEF OnPacket, OnDisconnect
  <2> HIDE DEF t
  <2> QED BY <1>1, <2>1, DestroySteady DEF t
<1> QED BY <1>1, <1>3, <1>4, <1>5, <1>6, <1>7

LEMMA OpenOneEngine ==
  ASSUME NEW R, NEW s, Typed(R, s), NEW fn \in BOOLEAN, OneEngine(s),
         s.ready = "closed" => s.engine < MaxEngines,
         s.ready = "closed" => \A e \in Engine : "live" \notin s.eng[e].subs
  PROVE  OneEngine(OpenEngine(s, fn))
<1> DEFINE t == OpenEngine(s, fn)
<1>1. CASE s.ready # "closed"
  <2>1. t = s
    BY <1>1, OpenTyped
  <2> QED BY <2>1
<1>2. CASE s.ready = "closed"
  <2>1. /\ t.ready = "opening" /\ t.engine = s.engine + 1 /\ t.engine \in Engine
        /\ t.eng[t.engine].state = "opening"
        /\ t.eng[t.engine].subs = {"open", "error", "timer"}
        /\ \A e \in Engine \ {t.engine} : t.eng[e] = s.eng[e]
    BY <1>2, OpenTyped
  <2>2. s.engine \in Nat /\ s.engine # t.engine
    <3>1. s.engine \in Nat
      BY BoundsAssumption DEF Typed, ClientWith
    <3> HIDE DEF t
    <3> QED BY <2>1, <3>1
  <2>3. ASSUME NEW e \in Engine PROVE s.eng[e].subs = {} /\ s.eng[e].state \notin {"opening", "open"}
    <3>1. CASE e = s.engine
      <4>1. s.engine # 0
        BY <3>1, BoundsAssumption DEF Engine
      <4> QED BY <1>2, <3>1, <4>1 DEF OneEngine
    <3>2. CASE e # s.engine
      BY <3>2 DEF OneEngine
    <3> QED BY <3>1, <3>2
  <2>4. t.engine # 0
    <3> HIDE DEF t
    <3> QED BY <2>1, <2>2
  <2> HIDE DEF t
  <2> QED BY <2>1, <2>3, <2>4 DEF OneEngine, t
<1> QED BY <1>1, <1>2

\* connect() of the page.
LEMMA PageConnectsSteady ==
  ASSUME NEW R, Typed(R, m), Steady(m), NEW n \in Nsp, PageConnects(n)
  PROVE  Typed(R, m') /\ Steady(m')
<1> DEFINE x == [m.sock[n] EXCEPT !.subs = TRUE]
           a == [m EXCEPT !.sock = [@ EXCEPT ![n] = x]]
           t == OpenEngine(a, FALSE)
           u == IF t.ready = "open" THEN AskFor(t, n) ELSE t
           c == [u EXCEPT !.connecting = @ \cup {n}]
           h == \/ m.ready = "closed" /\ (m.reconnecting \/ \E e \in Engine : "live" \in m.eng[e].subs)
                \/ m.ready = "open" /\ n = "/" /\ ~ m.sock[n].subs
           d == [c EXCEPT !.hasty = @ \/ h]
           y == [d.sock[n] EXCEPT !.connects = @ + 1]
           f == [d EXCEPT !.sock = [@ EXCEPT ![n] = y]]
<1>1. /\ m.sock[n].connects < MaxConnects /\ ~ m.sock[n].connected
      /\ m.ready = "closed" => m.engine < MaxEngines
  BY DEF PageConnects
<1>2. m' = f
  BY Zenon, <1>1 DEF PageConnects, Connect
<1>3. m.sock[n] \in SocketWith /\ Sound(m.sock[n], R[n])
  BY DEF Typed, ClientWith
<1>4. /\ x \in SocketWith /\ Sound(x, R[n]) /\ x.subs /\ x.connected = m.sock[n].connected
      /\ x.connects = m.sock[n].connects
  BY <1>3 DEF SocketWith, Sound
<1>5. Typed(R, a) /\ SameButSock(n, m, a) /\ a.sock[n] = x
  <2> HIDE DEF x
  <2> QED BY <1>4, SockTyped
<1>6. a.ready = "closed" => a.engine < MaxEngines
  <2> HIDE DEF a
  <2> QED BY <1>1, <1>5 DEF SameButSock
<1>7. /\ Typed(R, t) /\ t.connecting = a.connecting /\ t.hasty = a.hasty /\ t.sock = a.sock
      /\ a.ready # "closed" => t = a
  <2>1. Typed(R, a)
    BY <1>5
  <2>2. Typed(R, t) /\ (a.ready # "closed" => t = a)
    <3> HIDE DEF a
    <3> QED BY <1>6, <2>1, OpenTyped
  <2>3. ASSUME a.ready = "closed"
        PROVE  t.connecting = a.connecting /\ t.hasty = a.hasty /\ t.sock = a.sock
    <3>1. a.engine < MaxEngines
      BY <1>6, <2>3
    <3> HIDE DEF a
    <3> QED BY <2>1, <2>3, <3>1, OpenFresh
  <2> HIDE DEF a, t
  <2> QED BY <2>2, <2>3
<1>8. Typed(R, u) /\ SameControl(t, u) /\ u.sock[n].connects = m.sock[n].connects
  <2>1. Control("connect", n) \in Upward
    BY DEF Control, Upward, Packet
  <2>2. Typed(R, SendPacket(t, Control("connect", n))) /\ SameControl(t, SendPacket(t, Control("connect", n)))
    <3> HIDE DEF t
    <3> QED BY <1>7, <2>1, SendTyped
  <2>3. SameControl(t, t)
    BY DEF SameControl
  <2>4. SendPacket(t, Control("connect", n)).sock = t.sock
    <3> HIDE DEF t
    <3> QED BY <1>7 DEF SendPacket, Write, WriteAll, Typed, ClientWith, Control
  <2>5. t.sock[n].connects = m.sock[n].connects
    <3> HIDE DEF t, a, x
    <3> QED BY <1>4, <1>5, <1>7
  <2> HIDE DEF t
  <2> QED BY <1>7, <2>2, <2>3, <2>4, <2>5 DEF AskFor
<1>9. /\ c \in ClientWith(R) /\ c.connecting = u.connecting \cup {n} /\ c.sock = u.sock
      /\ c.eng = u.eng /\ c.ready = u.ready /\ c.engine = u.engine /\ c.hasty = u.hasty
      /\ c.skipReconnect = u.skipReconnect /\ c.reconnecting = u.reconnecting
  <2> HIDE DEF u
  <2> QED BY <1>8 DEF Typed, ClientWith
<1>10. /\ d \in ClientWith(R) /\ d.connecting = c.connecting /\ d.sock = c.sock
       /\ d.eng = c.eng /\ d.ready = c.ready /\ d.engine = c.engine /\ d.hasty = (c.hasty \/ h)
       /\ d.skipReconnect = c.skipReconnect /\ d.reconnecting = c.reconnecting
  <2>1. (c.hasty \/ h) \in BOOLEAN
    OBVIOUS
  <2> HIDE DEF c, h
  <2> QED BY <1>9, <2>1 DEF ClientWith
<1>11. Typed(R, d)
  <2> HIDE DEF c, d, u
  <2> QED BY <1>8, <1>9, <1>10 DEF Typed
<1>12. /\ y \in SocketWith /\ Sound(y, R[n]) /\ y.subs = d.sock[n].subs
       /\ y.connected = d.sock[n].connected
  <2>1. d.sock[n] \in SocketWith /\ Sound(d.sock[n], R[n])
    <3> HIDE DEF d
    <3> QED BY <1>11 DEF Typed, ClientWith
  <2>2. d.sock[n].connects + 1 \in 0 .. MaxConnects
    <3>1. d.sock[n].connects = m.sock[n].connects /\ m.sock[n].connects \in 0 .. MaxConnects
      <4> HIDE DEF u, c, d
      <4> QED BY <1>3, <1>8, <1>9, <1>10 DEF SocketWith
    <3> HIDE DEF d
    <3> QED BY <1>1, <3>1, BoundsAssumption
  <2> HIDE DEF d
  <2> QED BY <2>1, <2>2 DEF SocketWith, Sound
<1>13. Typed(R, f) /\ SameButSock(n, d, f) /\ f.sock[n] = y
  <2> HIDE DEF d, y
  <2> QED BY <1>11, <1>12, SockTyped
<1>14. /\ f.connecting = m.connecting \cup {n} /\ f.hasty = (m.hasty \/ h)
       /\ f.ready = t.ready /\ f.engine = t.engine
       /\ f.skipReconnect = t.skipReconnect /\ f.reconnecting = t.reconnecting
       /\ \A e \in Engine : f.eng[e].state = t.eng[e].state /\ f.eng[e].subs = t.eng[e].subs
  <2> HIDE DEF a, t, u, c, d, f, h
  <2> QED BY <1>5, <1>7, <1>8, <1>9, <1>10, <1>13 DEF SameButSock, SameControl
<1>15. /\ f.sock[n].subs /\ \A k \in Nsp \ {n} : f.sock[k].subs = m.sock[k].subs
       /\ \A k \in Nsp : f.sock[k].connected = m.sock[k].connected
  <2>1. \A k \in Nsp : f.sock[k].subs = a.sock[k].subs /\ f.sock[k].connected = a.sock[k].connected
    <3> HIDE DEF a, t, u, c, d, f, h, y
    <3> QED BY <1>7, <1>8, <1>9, <1>10, <1>12, <1>13 DEF SameButSock, SameControl
  <2> HIDE DEF a, f, x
  <2> QED BY <1>4, <1>5, <2>1 DEF SameButSock
<1>16. Slots(f)
  <2> HIDE DEF f
  <2> QED BY <1>14, <1>15 DEF Steady, Slots
<1>17. ASSUME ~ f.hasty PROVE OneEngine(f) /\ Heard(f)
  <2>1. ~ m.hasty /\ ~ h
    <3> HIDE DEF f, h
    <3> QED BY <1>14, <1>17
  <2>2. OneEngine(m) /\ Heard(m) /\ Slots(m)
    BY <2>1 DEF Steady
  <2>3. OneEngine(a)
    <3> HIDE DEF a, h
    <3> QED BY <1>5, <2>2 DEF OneEngine, SameButSock
  <2>4. OneEngine(t)
    <3>1. a.ready = "closed" => \A e \in Engine : "live" \notin a.eng[e].subs
      <4>1. m.ready = "closed" => \A e \in Engine : "live" \notin m.eng[e].subs
        BY <2>1
      <4> HIDE DEF a, h
      <4> QED BY <1>5, <4>1 DEF SameButSock
    <3> HIDE DEF a, h
    <3> QED BY <1>5, <1>6, <2>3, <3>1, OpenOneEngine
  <2>5. t.ready # "closed"
    <3>1. a.ready = "closed" => t.ready = "opening"
      <4>1. Typed(R, a)
        BY <1>5
      <4> SUFFICES ASSUME a.ready = "closed" PROVE t.ready = "opening"
        OBVIOUS
      <4>2. a.engine < MaxEngines
        BY <1>6
      <4> HIDE DEF a, h
      <4> QED BY <4>1, <4>2, OpenFresh
    <3> HIDE DEF a, t, h
    <3> QED BY <1>7, <3>1
  <2>6. t.engine # 0 => t.engine \in Engine
    <3> HIDE DEF t, h
    <3> QED BY <1>7, BoundsAssumption DEF Typed, ClientWith, Engine
  <2>7. OneEngine(f)
    <3> HIDE DEF t, f, h
    <3> QED BY <1>14, <2>4, <2>5, <2>6 DEF OneEngine
  <2>8. ASSUME NEW k \in Nsp, f.sock[k].connected PROVE f.ready = "open" /\ f.sock[k].subs
    <3>1. m.sock[k].connected
      <4> HIDE DEF f, h
      <4> QED BY <1>15, <2>8
    <3>2. m.ready = "open" /\ m.sock[k].subs
      BY <2>2, <3>1 DEF Heard
    <3>3. t = a /\ a.ready = "open"
      <4> HIDE DEF a, t, h
      <4> QED BY <1>5, <1>7, <3>2 DEF SameButSock
    <3> HIDE DEF a, t, f, h
    <3> QED BY <1>14, <1>15, <3>2, <3>3
  <2> HIDE DEF f, h
  <2> QED BY <2>7, <2>8 DEF Heard
<1> HIDE DEF f
<1> QED BY <1>2, <1>13, <1>16, <1>17 DEF Steady

-----------------------------------------------------------------------------
(* Engines and timers.                                                     *)

\* All but engine e.
SameButEngine(e, s, t) ==
  /\ t.ready = s.ready /\ t.engine = s.engine /\ t.skipReconnect = s.skipReconnect
  /\ t.reconnecting = s.reconnecting /\ t.connecting = s.connecting /\ t.hasty = s.hasty
  /\ t.sock = s.sock
  /\ \A f \in Engine \ {e} : t.eng[f] = s.eng[f]

LEMMA EngTyped ==
  ASSUME NEW R, NEW s, Typed(R, s), NEW e \in Engine, NEW x \in EngineWith(R)
  PROVE  LET t == [s EXCEPT !.eng = [@ EXCEPT ![e] = x]] IN
         Typed(R, t) /\ SameButEngine(e, s, t) /\ t.eng[e] = x
<1> DEFINE t == [s EXCEPT !.eng = [@ EXCEPT ![e] = x]]
<1>1. /\ t \in ClientWith(R) /\ t.eng = [s.eng EXCEPT ![e] = x]
      /\ s.eng \in [Engine -> EngineWith(R)] /\ t.sock = s.sock
  BY DEF Typed, ClientWith
<1>2. /\ t.ready = s.ready /\ t.engine = s.engine /\ t.skipReconnect = s.skipReconnect
      /\ t.reconnecting = s.reconnecting /\ t.connecting = s.connecting /\ t.hasty = s.hasty
  BY DEF Typed, ClientWith
<1>3. t.eng[e] = x /\ \A f \in Engine \ {e} : t.eng[f] = s.eng[f]
  <2> HIDE DEF t
  <2> QED BY <1>1
<1> HIDE DEF t
<1> QED BY <1>1, <1>2, <1>3 DEF Typed, SameButEngine, t

LEMMA SameEngine ==
  ASSUME NEW s, NEW t, NEW e \in Engine, SameButEngine(e, s, t),
         t.eng[e].state = s.eng[e].state, t.eng[e].subs = s.eng[e].subs
  PROVE  SameControl(s, t)
BY DEF SameButEngine, SameControl

LEMMA EngineNumber ==
  ASSUME NEW R, NEW s, Typed(R, s)
  PROVE  s.engine \in 0 .. MaxEngines /\ (s.engine # 0 => s.engine \in Engine)
         /\ s.ready \in {"closed", "opening", "open"}
BY BoundsAssumption DEF Typed, ClientWith, Engine

\* An engine is closed, whatever state it was left in before.
LEMMA ClosedSteady ==
  ASSUME NEW R, NEW r, NEW s, Typed(R, s), Steady(r), NEW e \in Engine,
         SameButEngine(e, r, s), s.eng[e].subs = r.eng[e].subs
  PROVE  Typed(R, EngineClosed(s, e)) /\ Steady(EngineClosed(s, e))
<1> DEFINE t == EngineClosed(s, e)
<1>1. Typed(R, t) /\ SameSlots(s, t) /\ t.eng[e].state = "closed"
      /\ \A f \in Engine \ {e} : t.eng[f].state = s.eng[f].state
  BY ClosedTyped
<1>2. Slots(t)
  <2> HIDE DEF t
  <2> QED BY <1>1 DEF Steady, Slots, SameSlots, SameButEngine
<1>3. ASSUME ~ t.hasty PROVE OneEngine(t) /\ Heard(t)
  <2>1. OneEngine(r) /\ Heard(r)
    <3> HIDE DEF t
    <3> QED BY <1>1, <1>3 DEF Steady, SameSlots, SameButEngine
  <2>2. s.engine # 0 => s.engine \in Engine
    BY EngineNumber
  <2>3. CASE "live" \notin s.eng[e].subs
    <3>1. /\ SameFlags(s, t) /\ t.sock = s.sock
          /\ \A f \in Engine : t.eng[f].subs = s.eng[f].subs
      BY <2>3, ClosedTyped
    <3>2. \A f \in Engine : t.eng[f].subs = r.eng[f].subs
      <4> HIDE DEF t
      <4> QED BY <3>1 DEF SameButEngine
    <3>3. \A f \in Engine : t.eng[f].state = "closed" \/ (f # e /\ t.eng[f].state = r.eng[f].state)
      <4> HIDE DEF t
      <4> QED BY <1>1 DEF SameButEngine
    <3>4. OneEngine(t)
      <4>1. /\ t.ready = r.ready /\ t.engine = r.engine /\ t.connecting = r.connecting
            /\ t.skipReconnect = r.skipReconnect /\ t.reconnecting = r.reconnecting
            /\ r.engine = s.engine
        <5> HIDE DEF t
        <5> QED BY <1>1, <3>1 DEF SameButEngine, SameFlags, SameSlots
      <4>2. r.ready = "open" => e # r.engine
        BY <2>1, <2>3 DEF OneEngine, SameButEngine
      <4> HIDE DEF t
      <4>3. r.ready = "open" => t.eng[r.engine].state = "open"
        BY <1>1, <2>1, <2>2, <4>1, <4>2 DEF OneEngine, SameButEngine
      <4> QED BY <2>1, <2>2, <3>2, <3>3, <4>1, <4>3 DEF OneEngine
    <3>5. Heard(t)
      <4> HIDE DEF t
      <4> QED BY <2>1, <3>1 DEF Heard, SameButEngine, SameFlags
    <3> QED BY <3>4, <3>5
  <2>4. CASE "live" \in s.eng[e].subs
    <3>1. /\ t.ready = "closed" /\ \A f \in Engine : t.eng[f].subs = {}
          /\ \A n \in Nsp : t.sock[n].connected => s.sock[n].connected /\ ~ s.sock[n].subs
      BY <2>4, ClosedTyped
    <3>2. e = r.engine
      BY <2>1, <2>4 DEF OneEngine
    <3>3. OneEngine(t)
      <4> HIDE DEF t
      <4> QED BY <1>1, <2>1, <3>1, <3>2 DEF OneEngine, SameButEngine, SameSlots
    <3>4. Heard(t)
      <4> HIDE DEF t
      <4> QED BY <2>1, <3>1 DEF Heard, SameButEngine
    <3> QED BY <3>3, <3>4
  <2> QED BY <2>3, <2>4
<1> HIDE DEF t
<1> QED BY <1>1, <1>2, <1>3 DEF Steady, t

\* The listeners of open() are those of the engine that is opening.
LEMMA SetUp ==
  ASSUME NEW s, OneEngine(s), s.ready \in {"closed", "opening", "open"}, NEW e \in Engine,
         {"error", "timer"} \cap s.eng[e].subs # {}
  PROVE  e = s.engine /\ s.ready = "opening" /\ s.engine # 0
<1>1. e = s.engine
  BY DEF OneEngine
<1>2. s.engine # 0
  BY <1>1, BoundsAssumption DEF Engine
<1>3. s.ready # "open"
  <2>1. s.ready = "open" => s.eng[e].subs = {"live"}
    BY <1>1 DEF OneEngine
  <2> QED BY <2>1
<1>4. s.ready # "closed"
  <2>1. s.ready = "closed" => s.eng[e].subs = {} \/ s.eng[e].subs = {"live"}
    BY <1>1, <1>2 DEF OneEngine
  <2> QED BY <2>1
<1> QED BY <1>1, <1>2, <1>3, <1>4

LEMMA EngineEndsSteady ==
  ASSUME NEW R, Typed(R, m), Steady(m), NEW e \in Engine, EngineEnds(e)
  PROVE  Typed(R, m') /\ Steady(m')
<1> DEFINE x == [m.eng[e] EXCEPT !.up = <<>>]
           t == [m EXCEPT !.eng = [@ EXCEPT ![e] = x]]
<1>1. CASE m' = EngineClosed(m, e)
  <2>1. SameButEngine(e, m, m)
    BY DEF SameButEngine
  <2> QED BY <1>1, <2>1, ClosedSteady
<1>2. CASE m' = EngineClosed(t, e)
  <2>1. m.eng[e] \in EngineWith(R) /\ <<>> \in Seq(Upward)
    BY DEF Typed, ClientWith
  <2>2. x \in EngineWith(R) /\ x.subs = m.eng[e].subs
    BY <2>1 DEF EngineWith
  <2>3. Typed(R, t) /\ SameButEngine(e, m, t) /\ t.eng[e] = x
    <3> HIDE DEF x
    <3> QED BY <2>2, EngTyped
  <2>4. t.eng[e].subs = m.eng[e].subs
    <3> HIDE DEF x, t
    <3> QED BY <2>2, <2>3
  <2> HIDE DEF x, t
  <2> QED BY <1>2, <2>3, <2>4, ClosedSteady
<1> QED BY <1>1, <1>2 DEF EngineEnds

LEMMA EngineFailsSteady ==
  ASSUME NEW R, Typed(R, m), Steady(m), NEW e \in Engine, EngineFails(e)
  PROVE  Typed(R, m') /\ Steady(m')
<1> DEFINE x == [[m.eng[e] EXCEPT !.up = <<>>] EXCEPT !.state = "closed"]
           t == [m EXCEPT !.eng = [@ EXCEPT ![e] = x]]
           a == OnError(t, e)
<1>1. m.eng[e] \in EngineWith(R) /\ <<>> \in Seq(Upward)
  BY DEF Typed, ClientWith
<1>2. x \in EngineWith(R) /\ x.subs = m.eng[e].subs /\ x.state = "closed"
  BY <1>1 DEF EngineWith
<1>3. Typed(R, t) /\ SameButEngine(e, m, t) /\ t.eng[e] = x
  <2> HIDE DEF x
  <2> QED BY <1>2, EngTyped
<1>4. [m EXCEPT !.eng[e].up = <<>>, !.eng[e].state = "closed"] = t
  BY <1>1 DEF Typed, ClientWith
<1>5. m' = EngineClosed(a, e)
  <2> HIDE DEF t
  <2> QED BY <1>4 DEF EngineFails
<1>6. t.eng[e].subs = m.eng[e].subs /\ t.eng[e].state = "closed"
  <2> HIDE DEF x, t
  <2> QED BY <1>2, <1>3
<1>7. CASE "error" \notin t.eng[e].subs
  <2>1. a = t
    <3> HIDE DEF t
    <3> QED BY <1>3, <1>7, OnErrorTyped
  <2> HIDE DEF t, a
  <2> QED BY <1>3, <1>5, <1>6, <2>1, ClosedSteady
<1>8. CASE "error" \in t.eng[e].subs
  <2>1. /\ Typed(R, a) /\ SameSlots(t, a) /\ a.sock = t.sock /\ a.ready = "closed" /\ Deaf(t, a)
    <3>1. Typed(R, a) /\ SameSlots(t, a) /\ a.sock = t.sock
      <4> HIDE DEF t
      <4> QED BY <1>3, OnErrorTyped
    <3>2. a.ready = "closed" /\ Deaf(t, a)
      <4> HIDE DEF t
      <4> QED BY <1>3, <1>8, OnErrorTyped
    <3> QED BY <3>1, <3>2
  <2>2. /\ a.connecting = m.connecting /\ a.hasty = m.hasty /\ a.engine = m.engine
        /\ a.sock = m.sock
        /\ \A f \in Engine : a.eng[f].subs = {}
        /\ a.eng[e].state = "closed"
        /\ \A f \in Engine \ {e} : a.eng[f].state = m.eng[f].state
    <3> HIDE DEF a, t, x
    <3> QED BY <1>3, <1>6, <2>1 DEF SameSlots, SameButEngine, Deaf
  <2>3. ASSUME ~ m.hasty PROVE OneEngine(a) /\ Heard(a)
    <3>1. OneEngine(m) /\ Heard(m) /\ m.ready \in {"closed", "opening", "open"}
      BY <2>3, EngineNumber DEF Steady
    <3>2. "error" \in m.eng[e].subs
      <4> HIDE DEF t
      <4> QED BY <1>6, <1>8
    <3>3. e = m.engine /\ m.ready = "opening"
      BY <3>1, <3>2, SetUp
    <3> HIDE DEF a
    <3> QED BY <2>1, <2>2, <3>1, <3>3 DEF OneEngine, Heard
  <2>4. Steady(a)
    <3> HIDE DEF a
    <3> QED BY <2>2, <2>3 DEF Steady, Slots
  <2>5. SameButEngine(e, a, a)
    BY DEF SameButEngine
  <2> HIDE DEF a
  <2> QED BY <1>5, <2>1, <2>4, <2>5, ClosedSteady
<1> QED BY <1>7, <1>8

LEMMA TimeoutSteady ==
  ASSUME NEW R, Typed(R, m), Steady(m), NEW e \in Engine, NEW busy \in BOOLEAN,
         ConnectTimeout(e, busy)
  PROVE  Typed(R, m') /\ Steady(m')
<1> DEFINE x == [m.eng[e] EXCEPT !.subs = @ \ {"open", "timer"}]
           a == [m EXCEPT !.eng = [@ EXCEPT ![e] = x]]
           b == CloseEngine(a, busy)
           c == OnError(b, e)
<1>1. m.eng[e] \in EngineWith(R)
  BY DEF Typed, ClientWith
<1>2. x \in EngineWith(R) /\ x.subs = m.eng[e].subs \ {"open", "timer"} /\ x.state = m.eng[e].state
  BY <1>1 DEF EngineWith
<1>3. Typed(R, a) /\ SameButEngine(e, m, a) /\ a.eng[e] = x
  <2> HIDE DEF x
  <2> QED BY <1>2, EngTyped
<1>4. m' = c /\ "timer" \in m.eng[e].subs
  BY Zenon DEF ConnectTimeout
<1>5. Typed(R, b) /\ SameSlots(a, b)
  <2> HIDE DEF a
  <2> QED BY <1>3, CloseEngineTyped
<1>6. Typed(R, c) /\ SameSlots(b, c) /\ c.sock = b.sock
  <2> HIDE DEF b
  <2> QED BY <1>5, OnErrorTyped
<1>7. Slots(c) /\ c.hasty = m.hasty
  <2> HIDE DEF a, b, c
  <2> QED BY <1>3, <1>5, <1>6 DEF Steady, Slots, SameSlots, SameButEngine
<1>8. ASSUME ~ m.hasty PROVE OneEngine(c) /\ Heard(c)
  <2>1. OneEngine(m) /\ Heard(m) /\ m.ready \in {"closed", "opening", "open"}
    BY <1>8, EngineNumber DEF Steady
  <2>2. e = m.engine /\ m.ready = "opening" /\ m.engine # 0
    BY <1>4, <2>1, SetUp
  <2>3. a.engine = e /\ a.engine # 0 /\ a.eng[e].subs = {"error"} /\ a.sock = m.sock
        /\ \A f \in Engine \ {e} : a.eng[f] = m.eng[f]
    <3>1. m.eng[e].subs = {"open", "error", "timer"}
      BY <2>1, <2>2 DEF OneEngine
    <3> HIDE DEF a, x
    <3> QED BY <1>2, <1>3, <2>2, <3>1 DEF SameButEngine
  <2>4. /\ b.eng[e].state \notin {"opening", "open"}
        /\ \A f \in Engine \ {e} : b.eng[f].state = m.eng[f].state
    <3>1. /\ \A f \in Engine \ {a.engine} : b.eng[f].state = a.eng[f].state
          /\ a.engine # 0 => b.eng[a.engine].state \notin {"opening", "open"}
      <4> HIDE DEF a
      <4> QED BY <1>3, CloseEngineTyped
    <3> HIDE DEF a, b
    <3> QED BY <2>3, <3>1
  <2>5. SameFlags(a, b) /\ b.sock = a.sock /\ b.eng[e].subs = a.eng[e].subs
    <3>1. "live" \notin a.eng[a.engine].subs
      <4> HIDE DEF a
      <4> QED BY <2>3
    <3>2. \/ /\ SameFlags(a, b) /\ b.sock = a.sock
             /\ \A f \in Engine : b.eng[f].subs = a.eng[f].subs
          \/ "live" \in a.eng[a.engine].subs
      <4> HIDE DEF a
      <4> QED BY <1>3, CloseEngineTyped
    <3> HIDE DEF a, b
    <3> QED BY <3>1, <3>2
  <2>6. c.ready = "closed" /\ Deaf(b, c)
    <3>1. "error" \in b.eng[e].subs
      <4> HIDE DEF a, b
      <4> QED BY <2>3, <2>5
    <3> HIDE DEF b
    <3> QED BY <1>5, <3>1, OnErrorTyped
  <2>7. c.engine = e /\ c.sock = m.sock
    <3> HIDE DEF a, b, c
    <3> QED BY <1>5, <1>6, <2>3, <2>5 DEF SameSlots
  <2>8. OneEngine(c)
    <3> HIDE DEF a, b, c
    <3> QED BY <2>1, <2>2, <2>4, <2>6, <2>7 DEF OneEngine, Deaf
  <2>9. Heard(c)
    <3> HIDE DEF c
    <3> QED BY <2>1, <2>2, <2>7 DEF Heard
  <2> QED BY <2>8, <2>9
<1> HIDE DEF c
<1> QED BY <1>4, <1>6, <1>7, <1>8 DEF Steady

LEMMA TimerSteady ==
  ASSUME NEW R, Typed(R, m), Steady(m), ReconnectTimer
  PROVE  Typed(R, m') /\ Steady(m')
<1> DEFINE t == [m EXCEPT !.timer = FALSE]
           u == OpenEngine(t, TRUE)
<1>1. /\ t \in ClientWith(R) /\ t.skipReconnect = m.skipReconnect
      /\ t.ready = m.ready /\ t.engine = m.engine /\ t.reconnecting = m.reconnecting
      /\ t.connecting = m.connecting /\ t.hasty = m.hasty /\ t.eng = m.eng /\ t.sock = m.sock
  BY DEF Typed, ClientWith
<1>2. Typed(R, t) /\ SameControl(m, t)
  <2> HIDE DEF t
  <2> QED BY <1>1 DEF Typed, SameControl
<1>3. Steady(t)
  <2>1. m.engine \in 0 .. MaxEngines
    BY EngineNumber
  <2> HIDE DEF t
  <2> QED BY <1>2, <2>1, SameSteady
<1>4. /\ m' = IF t.skipReconnect THEN t ELSE u
      /\ m.skipReconnect \/ m.engine < MaxEngines
  BY Zenon DEF ReconnectTimer
<1>5. CASE t.skipReconnect
  <2> HIDE DEF t
  <2> QED BY <1>2, <1>3, <1>4, <1>5
<1>6. CASE ~ t.skipReconnect
  <2>1. t.engine < MaxEngines /\ m' = u
    <3> HIDE DEF t, u
    <3> QED BY <1>1, <1>4, <1>6
  <2>2. Typed(R, u) /\ (t.ready # "closed" => u = t)
    <3> HIDE DEF t
    <3> QED BY <1>2, <2>1, OpenTyped
  <2>3. CASE t.ready # "closed"
    <3> HIDE DEF t, u
    <3> QED BY <1>3, <2>1, <2>2, <2>3
  <2>4. CASE t.ready = "closed"
    <3>1. u.ready = "opening" /\ u.connecting = t.connecting /\ u.hasty = t.hasty /\ u.sock = t.sock
      <4> HIDE DEF t
      <4> QED BY <1>2, <2>1, <2>4, OpenFresh
    <3>2. Slots(u)
      <4> HIDE DEF t, u
      <4> QED BY <1>3, <3>1 DEF Steady, Slots
    <3>3. ASSUME ~ t.hasty PROVE OneEngine(u) /\ Heard(u)
      <4>1. OneEngine(t) /\ Heard(t)
        <5> HIDE DEF t
        <5> QED BY <1>3, <3>3 DEF Steady
      <4>2. \A e \in Engine : "live" \notin t.eng[e].subs
        <5> HIDE DEF t
        <5> QED BY <1>6, <2>4, <4>1, BoundsAssumption DEF OneEngine, Engine
      <4>3. OneEngine(u)
        <5> HIDE DEF t
        <5> QED BY <1>2, <2>1, <4>1, <4>2, OpenOneEngine
      <4>4. Heard(u)
        <5> HIDE DEF t, u
        <5> QED BY <2>4, <3>1, <4>1 DEF Heard
      <4> QED BY <4>3, <4>4
    <3> HIDE DEF t, u
    <3> QED BY <2>1, <2>2, <3>1, <3>2, <3>3 DEF Steady
  <2> QED BY <2>3, <2>4
<1> QED BY <1>5, <1>6

LEMMA BlobSteady ==
  ASSUME NEW R, Typed(R, m), Steady(m), NEW p \in m.blobs, BlobRead(p)
  PROVE  Typed(R, m') /\ Steady(m')
<1> DEFINE t == [m EXCEPT !.blobs = @ \ {p}]
           w == WriteAll(t, <<p>>)
           u == [w EXCEPT !.encoding = FALSE]
           v == ProcessPacketQueue(u)
<1>1. p \in Upward /\ <<p>> \in Seq(Upward) /\ m.engine \in 0 .. MaxEngines
  BY DEF Typed, ClientWith
<1>2. t \in ClientWith(R) /\ t.sock = m.sock /\ SameControl(m, t)
  BY DEF Typed, ClientWith, SameControl
<1>3. Typed(R, t)
  <2> HIDE DEF t
  <2> QED BY <1>2 DEF Typed
<1>4. Typed(R, w) /\ SameControl(t, w)
  <2> HIDE DEF t
  <2> QED BY <1>1, <1>3, WriteTyped
<1>5. u \in ClientWith(R) /\ u.sock = w.sock /\ SameControl(w, u)
  <2> HIDE DEF w
  <2> QED BY <1>4 DEF Typed, ClientWith, SameControl
<1>6. Typed(R, u)
  <2> HIDE DEF w, u
  <2> QED BY <1>4, <1>5 DEF Typed
<1>7. Typed(R, v) /\ SameControl(u, v)
  <2> HIDE DEF u
  <2> QED BY <1>6, QueueTyped
<1>8. m' = v
  BY Zenon DEF BlobRead, Write
<1>9. SameControl(m, v)
  <2> HIDE DEF t, w, u, v
  <2> QED BY <1>2, <1>4, <1>5, <1>7, SameTwice
<1> HIDE DEF v
<1> QED BY <1>1, <1>7, <1>8, <1>9, SameSteady

LEMMA AsksTyped ==
  ASSUME NEW S, S \subseteq Nsp
  PROVE  [i \in DOMAIN SetToSeq(S) |-> Control("connect", SetToSeq(S)[i])] \in Seq(Upward)
<1>1. IsFiniteSet(S)
  BY NspAssumption, FS_Subset
<1>2. Cardinality(S) \in Nat /\ \E f \in [1 .. Cardinality(S) -> S] : IsInjective(f)
  BY <1>1, FS_CardinalityType DEF ExistsBijection, Bijection, Injection
<1>3. SetToSeq(S) \in [1 .. Cardinality(S) -> S]
  BY <1>2 DEF SetToSeq
<1> DEFINE q == SetToSeq(S)
<1> HIDE DEF q
<1>4. \A i \in 1 .. Cardinality(S) : Control("connect", q[i]) \in Upward
  BY <1>3 DEF q, Control, Upward, Packet
<1>5. [i \in 1 .. Cardinality(S) |-> Control("connect", q[i])] \in Seq(Upward)
  BY <1>2, <1>4
<1>6. DOMAIN q = 1 .. Cardinality(S)
  BY <1>3 DEF q
<1> QED BY <1>5, <1>6 DEF q

LEMMA OpensSteady ==
  ASSUME NEW R, Typed(R, m), Steady(m), NEW e \in Engine, EngineOpens(e)
  PROVE  Typed(R, m') /\ Steady(m')
<1> DEFINE opened == IF m.eng[e].state = "opening" THEN "open" ELSE "reopened"
           x == [m.eng[e] EXCEPT !.state = opened]
           t == [m EXCEPT !.eng = [@ EXCEPT ![e] = x]]
           c == Cleanup(t)
           y == [c.eng[e] EXCEPT !.subs = {"live"}]
           b == [c EXCEPT !.ready = "open"]
           d == [c EXCEPT !.ready = "open", !.eng[e].subs = {"live"}]
           S == {n \in Nsp \ {"/"} : t.sock[n].subs}
           asks == [i \in DOMAIN SetToSeq(S) |-> Control("connect", SetToSeq(S)[i])]
           u == SendAll(asks, d)
           v == IF t.eng[e].fn THEN [[u EXCEPT !.attempts = 0] EXCEPT !.reconnecting = FALSE] ELSE u
           z == [v.eng[e] EXCEPT !.down = <<Control("connect", "/")>>]
           w == [v EXCEPT !.eng = [@ EXCEPT ![e] = z]]
<1>1. m.eng[e].state \in {"opening", "unopened"} /\ m.eng[e] \in EngineWith(R)
  BY DEF EngineOpens, Typed, ClientWith
<1>2. x \in EngineWith(R) /\ x.subs = m.eng[e].subs /\ x.state = opened
  BY <1>1 DEF EngineWith
<1>3. Typed(R, t) /\ SameButEngine(e, m, t) /\ t.eng[e] = x
  <2> HIDE DEF x
  <2> QED BY <1>2, EngTyped
<1>4. Typed(R, c) /\ SameSlots(t, c) /\ SameFlags(t, c) /\ Deaf(t, c) /\ c.sock = t.sock
  <2> HIDE DEF t
  <2> QED BY <1>3, CleanupTyped
<1>5. /\ b \in ClientWith(R) /\ b.ready = "open" /\ b.sock = c.sock /\ b.eng = c.eng
      /\ b.engine = c.engine /\ b.connecting = c.connecting /\ b.hasty = c.hasty
  <2> HIDE DEF c
  <2> QED BY <1>4 DEF Typed, ClientWith
<1>6. Typed(R, b)
  <2> HIDE DEF c, b
  <2> QED BY <1>4, <1>5 DEF Typed
<1>7. y \in EngineWith(R) /\ y.subs = {"live"} /\ y.state = c.eng[e].state
  <2>1. c.eng[e] \in EngineWith(R)
    <3> HIDE DEF c
    <3> QED BY <1>4 DEF Typed, ClientWith
  <2> HIDE DEF c
  <2> QED BY <2>1 DEF EngineWith
<1>8. Typed(R, d) /\ SameButEngine(e, b, d) /\ d.eng[e] = y
  <2> DEFINE g == [b EXCEPT !.eng = [@ EXCEPT ![e] = y]]
  <2>1. Typed(R, g) /\ SameButEngine(e, b, g) /\ g.eng[e] = y
    <3> HIDE DEF b, y
    <3> QED BY <1>6, <1>7, EngTyped
  <2>2. d = g
    <3> HIDE DEF c
    <3> QED BY <1>4 DEF Typed, ClientWith
  <2> HIDE DEF d, g
  <2> QED BY <2>1, <2>2
<1>9. Typed(R, u) /\ SameControl(d, u)
  <2>1. asks \in Seq(Upward)
    <3>1. S \subseteq Nsp
      OBVIOUS
    <3> HIDE DEF S
    <3> QED BY <3>1, AsksTyped
  <2> HIDE DEF asks, d
  <2> QED BY <1>8, <2>1, SendAllTyped
<1>10. /\ v \in ClientWith(R) /\ v.sock = u.sock /\ v.eng = u.eng /\ v.ready = u.ready
       /\ v.engine = u.engine /\ v.connecting = u.connecting /\ v.hasty = u.hasty
  <2>1. 0 \in 0 .. MaxAttempts
    BY BoundsAssumption
  <2> HIDE DEF t, u
  <2> QED BY <1>9, <2>1 DEF Typed, ClientWith
<1>11. Typed(R, v)
  <2> HIDE DEF u, v
  <2> QED BY <1>9, <1>10 DEF Typed
<1>12. z \in EngineWith(R) /\ z.subs = v.eng[e].subs /\ z.state = v.eng[e].state
  <2>1. v.eng[e] \in EngineWith(R)
    <3> HIDE DEF v
    <3> QED BY <1>11 DEF Typed, ClientWith
  <2>2. <<Control("connect", "/")>> \in Seq(Downward(R))
    <3>1. Control("connect", "/") \in Downward(R)
      BY NspAssumption DEF Control, Downward, Packet
    <3> QED BY <3>1
  <2> HIDE DEF v
  <2> QED BY <2>1, <2>2 DEF EngineWith
<1>13. Typed(R, w) /\ SameButEngine(e, v, w) /\ w.eng[e] = z
  <2> HIDE DEF v, z
  <2> QED BY <1>11, <1>12, EngTyped
<1>14. m' = IF "open" \in t.eng[e].subs THEN w ELSE t
  BY Zenon DEF EngineOpens, OnOpen, OnReconnect, Reset
<1>15. t.eng[e].subs = m.eng[e].subs
  <2> HIDE DEF t, x
  <2> QED BY <1>2, <1>3
<1>16. CASE "open" \in t.eng[e].subs
  <2>1. /\ w.ready = "open" /\ w.engine = m.engine /\ w.connecting = m.connecting /\ w.hasty = m.hasty
        /\ \A n \in Nsp : /\ w.sock[n].subs = m.sock[n].subs
                          /\ w.sock[n].connected = m.sock[n].connected
    <3> HIDE DEF t, c, b, d, u, v, w, x, y, z
    <3> QED BY <1>3, <1>4, <1>5, <1>8, <1>9, <1>10, <1>13
            DEF SameButEngine, SameSlots, SameControl
  <2>2. \A f \in Engine : w.eng[f].subs = d.eng[f].subs /\ w.eng[f].state = d.eng[f].state
    <3> HIDE DEF d, u, v, w, z
    <3> QED BY <1>9, <1>10, <1>12, <1>13 DEF SameButEngine, SameControl
  <2>3. /\ d.eng[e].subs = {"live"} /\ d.eng[e].state = opened
        /\ \A f \in Engine \ {e} : d.eng[f].subs = {} /\ d.eng[f].state = m.eng[f].state
    <3> HIDE DEF t, c, b, d, x, y, opened
    <3> QED BY <1>2, <1>3, <1>4, <1>5, <1>7, <1>8 DEF SameButEngine, Deaf
  <2>4. Slots(w)
    <3> HIDE DEF w
    <3> QED BY <2>1 DEF Steady, Slots
  <2>5. ASSUME ~ m.hasty PROVE OneEngine(w) /\ Heard(w)
    <3>1. OneEngine(m) /\ Heard(m) /\ m.ready \in {"closed", "opening", "open"}
      BY <2>5, EngineNumber DEF Steady
    <3>2. "open" \in m.eng[e].subs
      <4> HIDE DEF t, x
      <4> QED BY <1>15, <1>16
    <3>3. e = m.engine /\ m.ready = "opening" /\ m.engine # 0
      <4>1. e = m.engine
        BY <3>1, <3>2 DEF OneEngine
      <4>2. m.engine # 0
        BY <4>1, BoundsAssumption DEF Engine
      <4>3. "open" \notin {"live"}
        OBVIOUS
      <4> QED BY <3>1, <3>2, <4>1, <4>2, <4>3 DEF OneEngine
    <3>4. opened = "open"
      BY <1>1, <3>1, <3>3 DEF OneEngine
    <3>5. OneEngine(w)
      <4> HIDE DEF w, d, opened
      <4> QED BY <2>1, <2>2, <2>3, <3>1, <3>3, <3>4 DEF OneEngine
    <3>6. Heard(w)
      <4> HIDE DEF w
      <4> QED BY <2>1, <3>1 DEF Heard
    <3> QED BY <3>5, <3>6
  <2> HIDE DEF t, w
  <2> QED BY <1>13, <1>14, <1>16, <2>1, <2>4, <2>5 DEF Steady
<1>17. CASE "open" \notin t.eng[e].subs
  <2>1. m' = t
    <3> HIDE DEF t, w
    <3> QED BY <1>14, <1>17
  <2>2. Slots(t) /\ t.hasty = m.hasty
    <3> HIDE DEF t
    <3> QED BY <1>3 DEF Steady, Slots, SameButEngine
  <2>3. ASSUME ~ m.hasty PROVE OneEngine(t) /\ Heard(t)
    <3>1. OneEngine(m) /\ Heard(m) /\ m.ready \in {"closed", "opening", "open"}
      BY <2>3, EngineNumber DEF Steady
    <3>2. "open" \notin m.eng[e].subs
      <4> HIDE DEF t, x
      <4> QED BY <1>15, <1>17
    <3>3. m.eng[e].state # "opening"
      <4> SUFFICES ASSUME m.eng[e].state = "opening" PROVE FALSE
        OBVIOUS
      <4>1. e = m.engine
        BY <3>1 DEF OneEngine
      <4>2. m.engine # 0
        BY <4>1, BoundsAssumption DEF Engine
      <4>3. m.ready = "opening"
        BY <3>1, <4>1, <4>2 DEF OneEngine
      <4> QED BY <3>1, <3>2, <4>1, <4>3 DEF OneEngine
    <3>4. m.eng[e].state = "unopened" /\ opened = "reopened"
      BY <1>1, <3>3
    <3>5. /\ t.engine = m.engine /\ t.ready = m.ready /\ t.sock = m.sock
          /\ t.skipReconnect = m.skipReconnect /\ t.reconnecting = m.reconnecting
          /\ t.connecting = m.connecting
          /\ t.eng[e].state = "reopened" /\ t.eng[e].subs = m.eng[e].subs
          /\ \A f \in Engine \ {e} : t.eng[f] = m.eng[f]
      <4> HIDE DEF t, x, opened
      <4> QED BY <1>2, <1>3, <3>4 DEF SameButEngine
    <3>6. OneEngine(t)
      <4> HIDE DEF t, opened
      <4> QED BY <3>1, <3>4, <3>5, EngineNumber DEF OneEngine
    <3>7. Heard(t)
      <4> HIDE DEF t
      <4> QED BY <3>1, <3>5 DEF Heard
    <3> QED BY <3>6, <3>7
  <2> HIDE DEF t
  <2> QED BY <1>3, <2>1, <2>2, <2>3 DEF Steady
<1> QED BY <1>16, <1>17

LEMMA DataSteady ==
  ASSUME NEW R, Typed(R, m), Steady(m), NEW e \in Engine, NEW busy \in BOOLEAN,
         EngineData(e, busy)
  PROVE  Typed(R, m') /\ Steady(m')
<1> DEFINE q == m.eng[e].down
           p == Head(q)
           x == [m.eng[e] EXCEPT !.down = Tail(@)]
           t == [m EXCEPT !.eng = [@ EXCEPT ![e] = x]]
<1>1. /\ m' = OnPacket(t, p, busy) /\ "live" \in m.eng[e].subs /\ q # <<>>
  BY Zenon DEF EngineData
<1>2. m.eng[e] \in EngineWith(R) /\ q \in Seq(Downward(R)) /\ m.engine \in 0 .. MaxEngines
  BY DEF Typed, ClientWith, EngineWith
<1>3. p \in Downward(R) /\ Tail(q) \in Seq(Downward(R))
  <2> HIDE DEF q
  <2> QED BY <1>1, <1>2
<1>4. x \in EngineWith(R) /\ x.subs = m.eng[e].subs /\ x.state = m.eng[e].state
  BY <1>2, <1>3 DEF EngineWith
<1>5. Typed(R, t) /\ SameButEngine(e, m, t) /\ t.eng[e] = x
  <2> HIDE DEF x
  <2> QED BY <1>4, EngTyped
<1>6. SameControl(m, t)
  <2> HIDE DEF t, x
  <2> QED BY <1>4, <1>5, SameEngine
<1>7. Steady(t)
  <2> HIDE DEF t
  <2> QED BY <1>2, <1>6, SameSteady
<1>8. ASSUME ~ m.hasty, m.sock[p.nsp].subs PROVE m.ready = "open"
  <2> HIDE DEF p, q, t
  <2>1. OneEngine(m) /\ Slots(m) /\ m.ready \in {"closed", "opening", "open"}
    BY <1>8, EngineNumber DEF Steady
  <2>2. e = m.engine /\ m.engine # 0
    <3>1. e = m.engine
      BY <1>1, <2>1 DEF OneEngine
    <3> QED BY <3>1, BoundsAssumption DEF Engine
  <2>3. p.nsp \in m.connecting
    BY <1>3, <1>8, <2>1 DEF Slots, Downward, Packet
  <2>4. m.ready # "closed"
    BY <1>1, <2>1, <2>2, <2>3 DEF OneEngine
  <2>5. m.ready # "opening"
    <3>1. m.ready = "opening" => m.eng[e].subs = {"open", "error", "timer"}
      BY <2>1, <2>2 DEF OneEngine
    <3> QED BY <1>1, <3>1
  <2> QED BY <2>1, <2>4, <2>5
<1>9. ~ t.hasty /\ t.sock[p.nsp].subs => t.ready = "open"
  <2>1. t.sock = m.sock /\ t.hasty = m.hasty /\ t.ready = m.ready
    <3> HIDE DEF t, p, q, x
    <3> QED BY <1>5 DEF SameButEngine
  <2> HIDE DEF t, p, q
  <2> QED BY <1>8, <2>1
<1> HIDE DEF t, p
<1> QED BY <1>1, <1>3, <1>5, <1>7, <1>9, PacketSteady

-----------------------------------------------------------------------------
(* The server.                                                             *)

\* What is sound stays so when the server has received more.
LEMMA MoreReceived ==
  ASSUME NEW R, NEW Q, NEW s, Typed(R, s), \A n \in Nsp : R[n] \subseteq Q[n]
  PROVE  Typed(Q, s)
<1>1. Downward(R) \subseteq Downward(Q)
  BY DEF Downward, Packet
<1>2. Seq(Downward(R)) \subseteq Seq(Downward(Q))
  <2> DEFINE D == Downward(R)  E == Downward(Q)
  <2>1. D \subseteq E
    BY <1>1
  <2> HIDE DEF D, E
  <2>2. Seq(D) \subseteq Seq(E)
    BY <2>1
  <2> QED BY <2>2 DEF D, E
<1>3. EngineWith(R) \subseteq EngineWith(Q)
  BY <1>2 DEF EngineWith
<1>4. s.eng \in [Engine -> EngineWith(Q)]
  <2>1. s.eng \in [Engine -> EngineWith(R)]
    BY DEF Typed, ClientWith
  <2> QED BY <1>3, <2>1
<1>5. s \in ClientWith(Q)
  BY <1>4 DEF Typed, ClientWith
<1>6. \A n \in Nsp : Sound(s.sock[n], Q[n])
  BY DEF Typed, Sound
<1> QED BY <1>5, <1>6 DEF Typed

\* An engine receives a packet of the server.
LEMMA SaysSteady ==
  ASSUME NEW R, NEW s, Typed(R, s), Steady(s), NEW e \in Engine, NEW p \in Downward(R)
  PROVE  LET t == [s EXCEPT !.eng[e].down = Append(@, p)] IN Typed(R, t) /\ Steady(t)
<1> DEFINE x == [s.eng[e] EXCEPT !.down = Append(@, p)]
           t == [s EXCEPT !.eng = [@ EXCEPT ![e] = x]]
<1>1. s.eng[e] \in EngineWith(R)
  BY DEF Typed, ClientWith
<1>2. Append(s.eng[e].down, p) \in Seq(Downward(R))
  <2>1. s.eng[e].down \in Seq(Downward(R))
    BY <1>1 DEF EngineWith
  <2> QED BY <2>1
<1>3. x \in EngineWith(R) /\ x.subs = s.eng[e].subs /\ x.state = s.eng[e].state
  BY <1>1, <1>2 DEF EngineWith
<1>4. Typed(R, t) /\ SameButEngine(e, s, t) /\ t.eng[e] = x
  <2> HIDE DEF x
  <2> QED BY <1>3, EngTyped
<1>5. SameControl(s, t)
  <2> HIDE DEF t, x
  <2> QED BY <1>3, <1>4, SameEngine
<1>6. Steady(t)
  <2> HIDE DEF t
  <2> QED BY <1>5, EngineNumber, SameSteady
<1> QED BY <1>4, <1>6

LEMMA EmitsSteady ==
  ASSUME NEW R, Typed(R, m), Steady(m), NEW e \in Engine, NEW n \in Nsp,
         ServerEmits(e, n) \/ ServerDisconnects(e, n)
  PROVE  Typed(R, m') /\ Steady(m')
<1>1. Control("event", n) \in Downward(R) /\ Control("disconnect", n) \in Downward(R)
  BY DEF Control, Downward, Packet
<1>2. CASE ServerEmits(e, n)
  <2>1. m' = [m EXCEPT !.eng[e].down = Append(@, Control("event", n))]
    BY Zenon, <1>2 DEF ServerEmits
  <2> QED BY <1>1, <2>1, SaysSteady
<1>3. CASE ServerDisconnects(e, n)
  <2>1. m' = [m EXCEPT !.eng[e].down = Append(@, Control("disconnect", n))]
    BY Zenon, <1>3 DEF ServerDisconnects
  <2> QED BY <1>1, <2>1, SaysSteady
<1> QED BY <1>2, <1>3

LEMMA ServerTyped ==
  ASSUME Typed(Received, m), srv \in Server, Next
  PROVE  srv' \in Server /\ \A n \in Nsp : Received[n] \subseteq Received'[n]
<1>1. CASE UNCHANGED srv
  BY <1>1 DEF Received
<1>2. ASSUME NEW e \in Engine, ServerReads(e) \/ \E n \in Nsp : ServerDisconnects(e, n)
      PROVE  srv' \in Server /\ \A n \in Nsp : Received[n] \subseteq Received'[n]
  <2> DEFINE p == Head(m.eng[e].up)
             entry == [n |-> p.n, by |-> e]
             q == Append(srv.received[p.nsp], entry)
  <2>1. CASE srv' = srv
    BY <2>1 DEF Received
  <2>2. CASE \E N \in SUBSET Nsp : srv' = [srv EXCEPT !.nsps = [@ EXCEPT ![e] = N]]
    <3>1. PICK N \in SUBSET Nsp : srv' = [srv EXCEPT !.nsps = [@ EXCEPT ![e] = N]]
      BY <2>2
    <3>2. srv' \in Server /\ srv'.received = srv.received
      BY <3>1 DEF Server
    <3> QED BY <3>2 DEF Received
  <2>3. CASE /\ p \in Packet
             /\ srv' = [srv EXCEPT !.received = [@ EXCEPT ![p.nsp] = q]]
    <3>1. p.nsp \in Nsp /\ p.n \in Nat
      BY <2>3 DEF Packet
    <3>2. q \in Seq([n : Nat, by : Engine])
      <4>1. srv.received[p.nsp] \in Seq([n : Nat, by : Engine]) /\ entry \in [n : Nat, by : Engine]
        BY <3>1 DEF Server
      <4> HIDE DEF p, entry
      <4> QED BY <4>1
    <3> HIDE DEF p
    <3>3. srv' \in Server /\ srv'.received = [srv.received EXCEPT ![p.nsp] = q]
          /\ srv.received \in [Nsp -> Seq([n : Nat, by : Engine])]
      <4> HIDE DEF q
      <4> QED BY <2>3, <3>1, <3>2 DEF Server
    <3>4. ASSUME NEW n \in Nsp PROVE Received[n] \subseteq Received'[n]
      <4>1. /\ Received[n] = {srv.received[n][i].n : i \in DOMAIN srv.received[n]}
            /\ Received'[n] = {srv'.received[n][i].n : i \in DOMAIN srv'.received[n]}
        BY DEF Received
      <4>2. ASSUME NEW i \in DOMAIN srv.received[n]
            PROVE  i \in DOMAIN srv'.received[n] /\ srv'.received[n][i] = srv.received[n][i]
        <5>1. CASE n = p.nsp
          <6>1. srv'.received[n] = q /\ srv.received[n] \in Seq([n : Nat, by : Engine])
            <7> HIDE DEF q
            <7> QED BY <3>3, <5>1
          <6> HIDE DEF entry
          <6>2. i \in DOMAIN q /\ q[i] = srv.received[n][i]
            BY <5>1, <6>1
          <6> HIDE DEF q
          <6> QED BY <6>1, <6>2
        <5>2. CASE n # p.nsp
          <6> HIDE DEF q
          <6> QED BY <3>3, <5>2
        <5> QED BY <5>1, <5>2
      <4> QED BY <4>1, <4>2
    <3> QED BY <3>3, <3>4
  <2>4. CASE ServerReads(e)
    <3>1. m.eng[e].up # <<>> /\ m.eng[e].up \in Seq(Upward) /\ srv.nsps[e] \in SUBSET Nsp
      BY <2>4 DEF ServerReads, Typed, ClientWith, EngineWith, Server
    <3>2. p \in Packet /\ p.nsp \in Nsp
      BY <3>1 DEF Upward, Packet
    <3>3. \/ srv' = [srv EXCEPT !.nsps[e] = @ \cup {p.nsp}]
          \/ srv' = [srv EXCEPT !.nsps[e] = @ \ {p.nsp}]
          \/ srv' = [srv EXCEPT !.received[p.nsp] = Append(@, entry)]
          \/ srv' = srv
      BY <2>4 DEF ServerReads
    <3>4. srv.nsps[e] \cup {p.nsp} \in SUBSET Nsp /\ srv.nsps[e] \ {p.nsp} \in SUBSET Nsp
      <4> HIDE DEF p
      <4> QED BY <3>1, <3>2
    <3> QED BY <2>1, <2>2, <2>3, <3>2, <3>3, <3>4
  <2>5. CASE \E n \in Nsp : ServerDisconnects(e, n)
    <3>1. PICK n \in Nsp : srv' = [srv EXCEPT !.nsps[e] = @ \ {n}]
      BY <2>5 DEF ServerDisconnects
    <3>2. srv.nsps[e] \ {n} \in SUBSET Nsp
      BY DEF Server
    <3> QED BY <2>2, <3>1, <3>2
  <2> QED BY <1>2, <2>4, <2>5
<1> QED
  <2> QED BY Zenon, <1>1, <1>2 DEF Next, Runs, Timeouts, Serves, ReconnectTimer, BlobRead,
          EngineOpens, EngineData, ConnectTimeout, EngineFails, EngineEnds, ServerEmits,
          PageEmits, PageDisconnects, PageConnects

LEMMA ReadsSteady ==
  ASSUME Typed(Received, m), srv \in Server, Steady(m), NEW e \in Engine, ServerReads(e),
         \A n \in Nsp : Received[n] \subseteq Received'[n]
  PROVE  Typed(Received', m') /\ Steady(m')
<1> DEFINE p == Head(m.eng[e].up)
           x == [m.eng[e] EXCEPT !.up = Tail(@)]
           t == [m EXCEPT !.eng = [@ EXCEPT ![e] = x]]
           Said(packet) == [t EXCEPT !.eng[e].down = Append(@, packet)]
           ack == [Control("ack", p.nsp) EXCEPT !.id = p.id]
<1>1. /\ m.eng[e].up # <<>> /\ m.eng[e].up \in Seq(Upward) /\ m.eng[e] \in EngineWith(Received)
  BY DEF ServerReads, Typed, ClientWith, EngineWith
<1>2. p \in Upward /\ p \in Packet /\ p.nsp \in Nsp /\ p.id \in Nat
  <2>1. p \in Upward
    BY <1>1
  <2> HIDE DEF p
  <2> QED BY <2>1 DEF Upward, Packet
<1>3. x \in EngineWith(Received) /\ x.subs = m.eng[e].subs /\ x.state = m.eng[e].state
  <2>1. Tail(m.eng[e].up) \in Seq(Upward)
    BY <1>1
  <2> QED BY <1>1, <2>1 DEF EngineWith
<1>4. Typed(Received, t) /\ SameButEngine(e, m, t) /\ t.eng[e] = x
  <2> HIDE DEF x
  <2> QED BY <1>3, EngTyped
<1>5. SameControl(m, t)
  <2> HIDE DEF t, x
  <2> QED BY <1>3, <1>4, SameEngine
<1>6. Steady(t)
  <2> HIDE DEF t
  <2> QED BY <1>5, EngineNumber, SameSteady
<1>7. Typed(Received', t)
  <2> HIDE DEF t
  <2> QED BY <1>4, MoreReceived
<1>8. ASSUME NEW packet \in Downward(Received')
      PROVE  Typed(Received', Said(packet)) /\ Steady(Said(packet))
  <2> HIDE DEF t
  <2> QED BY <1>6, <1>7, SaysSteady
<1>9. Control("connect", p.nsp) \in Downward(Received')
  <2> HIDE DEF p
  <2> QED BY <1>2 DEF Control, Downward, Packet
<1>10. ASSUME srv' = [srv EXCEPT !.received[p.nsp] = Append(@, [n |-> p.n, by |-> e])],
              p.type \in {"event", "blob"}
       PROVE  ack \in Downward(Received')
  <2> DEFINE q == srv.received[p.nsp]
  <2>1. q \in Seq([n : Nat, by : Engine]) /\ p.n \in Nat /\ p.n = p.id + 1
    <3> HIDE DEF p
    <3> QED BY <1>2, <1>10 DEF Server, Upward, Packet
  <2>2. srv'.received[p.nsp] = Append(q, [n |-> p.n, by |-> e])
    <3> HIDE DEF p
    <3> QED BY <1>2, <1>10 DEF Server
  <2>3. p.n \in Received'[p.nsp]
    <3> HIDE DEF p, q
    <3>1. Len(q) + 1 \in DOMAIN srv'.received[p.nsp]
          /\ srv'.received[p.nsp][Len(q) + 1] = [n |-> p.n, by |-> e]
      BY <2>1, <2>2
    <3>2. Received'[p.nsp] = {srv'.received[p.nsp][i].n : i \in DOMAIN srv'.received[p.nsp]}
      BY <1>2 DEF Received
    <3> QED BY <3>1, <3>2
  <2>4. ack \in Packet /\ ack.type = "ack" /\ ack.id = p.id /\ ack.nsp = p.nsp
    <3> HIDE DEF p
    <3> QED BY <1>2 DEF Control, Packet
  <2> HIDE DEF p, ack
  <2> QED BY <2>1, <2>3, <2>4 DEF Downward
<1>11. \/ m' = t
       \/ m' = Said(Control("connect", p.nsp))
       \/ /\ m' = Said(ack) /\ p.type \in {"event", "blob"}
          /\ srv' = [srv EXCEPT !.received[p.nsp] = Append(@, [n |-> p.n, by |-> e])]
  BY DEF ServerReads
<1> HIDE DEF t, p, ack, Said
<1> QED BY <1>6, <1>7, <1>8, <1>9, <1>10, <1>11

LEMMA PageSteady ==
  ASSUME NEW R, Typed(R, m), Steady(m), NEW n \in Nsp,
         \/ \E kind \in {"event", "blob"} : PageEmits(n, kind)
         \/ \E busy \in BOOLEAN : PageDisconnects(n, busy)
         \/ PageConnects(n)
  PROVE  Typed(R, m') /\ Steady(m')
<1>1. ASSUME NEW kind \in {"event", "blob"}, PageEmits(n, kind)
      PROVE  Typed(R, m') /\ Steady(m')
  <2>1. m' = Emit(m, n, kind) /\ m.sock[n].emitted < MaxEvents /\ m.sock[n].emitted \in Nat
    BY <1>1 DEF PageEmits, Typed, ClientWith, SocketWith
  <2>2. m.sock[n].emitted + 1 <= MaxEvents
    BY <2>1, BoundsAssumption
  <2> QED BY <2>1, <2>2, EmitTyped, EngineNumber, SameSteady
<1>2. ASSUME NEW busy \in BOOLEAN, PageDisconnects(n, busy)
      PROVE  Typed(R, m') /\ Steady(m')
  BY <1>2, DisconnectSteady DEF PageDisconnects
<1> QED BY <1>1, <1>2, PageConnectsSteady

-----------------------------------------------------------------------------
(* The specification.                                                      *)

LEMMA InitInv == Init => IInv
<1> SUFFICES ASSUME Init PROVE IInv
  OBVIOUS
<1> DEFINE E == [e \in Engine |-> Idle]
           S == [n \in Nsp |-> Fresh]
           Of(page) ==
             [page |-> page, ready |-> "closed", engine |-> 0, skipReconnect |-> FALSE,
              reconnecting |-> FALSE, attempts |-> 0, timer |-> FALSE,
              encoding |-> FALSE, packetBuffer |-> <<>>, blobs |-> {},
              connecting |-> Nsp, eng |-> E, sock |-> S,
              stale |-> FALSE, hasty |-> FALSE, gaveUp |-> FALSE]
<1>0. PICK page \in Pages : m = OpenEngine(Of(page), FALSE)
  BY Zenon DEF Init
<1> DEFINE s == Of(page)
           t == OpenEngine(s, FALSE)
<1>1. m = t /\ srv = [nsps |-> [e \in Engine |-> {"/"}], received |-> [n \in Nsp |-> <<>>]]
  BY Zenon, <1>0 DEF Init
<1>2. srv \in Server
  <2>1. [e \in Engine |-> {"/"}] \in [Engine -> SUBSET Nsp]
    BY NspAssumption
  <2>2. [n \in Nsp |-> <<>>] \in [Nsp -> Seq([n : Nat, by : Engine])]
    OBVIOUS
  <2> QED BY <1>1, <2>1, <2>2 DEF Server
<1>3. Idle \in EngineWith(Received) /\ Idle.subs = {} /\ Idle.state = "none"
  <2>1. <<>> \in Seq(Upward) /\ <<>> \in Seq(Downward(Received))
    OBVIOUS
  <2> QED BY <2>1 DEF Idle, EngineWith
<1>4. Fresh \in SocketWith /\ Fresh.subs /\ ~ Fresh.connected
  <2>1. <<>> \in Seq(Upward) /\ <<>> \in Seq(Packet) /\ <<>> \in Seq(Nat) /\ 0 \in 0 .. MaxConnects
    BY BoundsAssumption
  <2> QED BY <2>1 DEF Fresh, SocketWith
<1>5. ASSUME NEW r PROVE Sound(Fresh, r)
  BY BoundsAssumption DEF Fresh, Sound
<1>6. E \in [Engine -> EngineWith(Received)] /\ S \in [Nsp -> SocketWith]
  BY <1>3, <1>4
<1>7. s \in ClientWith(Received)
  <2>1. <<>> \in Seq(Upward) /\ 0 \in 0 .. MaxAttempts /\ 0 \in 0 .. MaxEngines
    BY BoundsAssumption
  <2> HIDE DEF E, S
  <2> QED BY <1>6, <2>1 DEF ClientWith
<1>8. Typed(Received, s)
  <2>1. \A n \in Nsp : s.sock[n] = Fresh
    OBVIOUS
  <2> HIDE DEF s
  <2> QED BY <1>5, <1>7, <2>1 DEF Typed
<1>9. /\ s.ready = "closed" /\ s.engine = 0 /\ s.connecting = Nsp /\ 0 < MaxEngines
      /\ \A e \in Engine : s.eng[e] = Idle
      /\ \A n \in Nsp : s.sock[n] = Fresh
  BY BoundsAssumption
<1>10. OneEngine(s)
  <2> HIDE DEF s
  <2> QED BY <1>3, <1>9 DEF OneEngine
<1>11. Typed(Received, t)
  <2> HIDE DEF s
  <2> QED BY <1>8, <1>9, OpenTyped
<1>12. OneEngine(t)
  <2> HIDE DEF s
  <2> QED BY <1>3, <1>8, <1>9, <1>10, OpenOneEngine
<1>13. t.connecting = Nsp /\ t.sock = s.sock
  <2> HIDE DEF s
  <2> QED BY <1>8, <1>9, OpenFresh
<1>14. Slots(t) /\ Heard(t)
  <2> HIDE DEF s, t
  <2> QED BY <1>4, <1>9, <1>13 DEF Slots, Heard
<1> HIDE DEF t, s
<1> QED BY <1>1, <1>2, <1>11, <1>12, <1>14 DEF IInv, Steady

LEMMA NextInv == IInv /\ [Next]_vars => IInv'
<1> SUFFICES ASSUME IInv, [Next]_vars PROVE IInv'
  OBVIOUS
<1>1. Typed(Received, m) /\ srv \in Server /\ Steady(m)
  BY DEF IInv
<1>2. CASE UNCHANGED vars
  <2>1. m' = m /\ srv' = srv
    BY <1>2 DEF vars
  <2>2. Received' = Received
    BY <2>1 DEF Received
  <2> QED BY <1>1, <2>1, <2>2 DEF IInv
<1>3. CASE Next
  <2>1. srv' \in Server /\ \A n \in Nsp : Received[n] \subseteq Received'[n]
    BY <1>1, <1>3, ServerTyped
  <2>2. (Typed(Received, m') \/ Typed(Received', m')) /\ Steady(m')
    <3>1. CASE ReconnectTimer
      BY <1>1, <3>1, TimerSteady
    <3>2. ASSUME NEW p \in m.blobs, BlobRead(p) PROVE Typed(Received, m') /\ Steady(m')
      BY <1>1, <3>2, BlobSteady
    <3>3. ASSUME NEW e \in Engine, EngineOpens(e) PROVE Typed(Received, m') /\ Steady(m')
      BY <1>1, <3>3, OpensSteady
    <3>4. ASSUME NEW e \in Engine, NEW busy \in BOOLEAN, EngineData(e, busy)
          PROVE  Typed(Received, m') /\ Steady(m')
      BY <1>1, <3>4, DataSteady
    <3>5. ASSUME NEW e \in Engine, NEW busy \in BOOLEAN, ConnectTimeout(e, busy)
          PROVE  Typed(Received, m') /\ Steady(m')
      BY <1>1, <3>5, TimeoutSteady
    <3>6. ASSUME NEW e \in Engine, ServerReads(e) PROVE Typed(Received', m') /\ Steady(m')
      BY <1>1, <2>1, <3>6, ReadsSteady
    <3>7. ASSUME NEW e \in Engine, EngineFails(e) PROVE Typed(Received, m') /\ Steady(m')
      BY <1>1, <3>7, EngineFailsSteady
    <3>8. ASSUME NEW e \in Engine, EngineEnds(e) PROVE Typed(Received, m') /\ Steady(m')
      BY <1>1, <3>8, EngineEndsSteady
    <3>9. ASSUME NEW e \in Engine, NEW n \in Nsp, ServerEmits(e, n) \/ ServerDisconnects(e, n)
          PROVE  Typed(Received, m') /\ Steady(m')
      BY <1>1, <3>9, EmitsSteady
    <3>10. ASSUME NEW n \in Nsp,
                  \/ \E kind \in {"event", "blob"} : PageEmits(n, kind)
                  \/ \E busy \in BOOLEAN : PageDisconnects(n, busy)
                  \/ PageConnects(n)
           PROVE  Typed(Received, m') /\ Steady(m')
      BY <1>1, <3>10, PageSteady
    <3> QED BY Zenon, <1>3, <3>1, <3>2, <3>3, <3>4, <3>5, <3>6, <3>7, <3>8, <3>9, <3>10
            DEF Next, Runs, Timeouts, Serves
  <2>3. Typed(Received', m')
    <3> SUFFICES ASSUME Typed(Received, m') PROVE Typed(Received', m')
      BY <2>2
    <3> QED BY <2>1, MoreReceived
  <2> QED BY <2>1, <2>2, <2>3 DEF IInv
<1> QED BY <1>2, <1>3

LEMMA Invariant == Spec => []IInv
BY InitInv, NextInv, PTL DEF Spec

\* For any page, server and network, and any bounds: every field keeps its type.
THEOREM TypeCorrect == Spec => []TypeOK
<1>1. IInv => TypeOK
  <2> SUFFICES ASSUME IInv PROVE TypeOK
    OBVIOUS
  <2>1. m \in ClientWith(Received) /\ srv \in Server /\ \A n \in Nsp : Sound(m.sock[n], Received[n])
    BY DEF IInv, Typed
  <2>2. Seq(Upward) \subseteq Seq(Packet) /\ Seq(Downward(Received)) \subseteq Seq(Packet)
    <3>1. Upward \subseteq Packet /\ Downward(Received) \subseteq Packet
      BY DEF Upward, Downward
    <3> DEFINE U == Upward  D == Downward(Received)
    <3> HIDE DEF U, D
    <3>2. U \subseteq Packet /\ D \subseteq Packet => Seq(U) \subseteq Seq(Packet) /\ Seq(D) \subseteq Seq(Packet)
      OBVIOUS
    <3> QED BY <3>1, <3>2 DEF U, D
  <2>3. EngineWith(Received) \subseteq EngineState
    BY <2>2 DEF EngineWith, EngineState
  <2>4. SocketWith \subseteq SocketState
    BY <2>2 DEF SocketWith, SocketState
  <2>5. m \in Client
    <3>1. m.eng \in [Engine -> EngineState]
      BY <2>1, <2>3 DEF ClientWith
    <3>2. m.sock \in [Nsp -> SocketState]
      BY <2>1, <2>4 DEF ClientWith
    <3>3. m.packetBuffer \in Seq(Packet) /\ m.blobs \in SUBSET Packet
      BY <2>1, <2>2 DEF ClientWith, Upward
    <3> QED BY <2>1, <3>1, <3>2, <3>3 DEF ClientWith, Client
  <2> QED BY <2>1, <2>5 DEF TypeOK, Sound
<1> QED BY <1>1, Invariant, PTL

\* The callback of an event is called at most once, and only when the server has it,
\* whatever was lost, buffered, disconnected or reconnected.
THEOREM AcksAreEarned == Spec => []AckMeansReceived
<1>1. IInv => AckMeansReceived
  BY DEF IInv, Typed, Sound, Received, AckMeansReceived
<1> QED BY <1>1, Invariant, PTL

\* Unless the page was hasty, at most one engine is open or opening: the Manager's.
THEOREM NoOtherEngine == Spec => []OneConnection
<1>1. IInv => OneConnection
  BY DEF IInv, Steady, OneEngine, OneConnection
<1> QED BY <1>1, Invariant, PTL

\* Unless the page was hasty, whoever is connected listens to the open engine.
THEOREM WhoIsConnectedHears == Spec => []ConnectedIsHeard
<1>1. IInv => ConnectedIsHeard
  BY DEF IInv, Steady, Slots, OneEngine, Heard, ConnectedIsHeard
<1> QED BY <1>1, Invariant, PTL

-----------------------------------------------------------------------------
(* Events in order.  An event of namespace n is in one place at a time: its *)
(* number is in sendBuffer, in packetBuffer, in a blob that is being read,  *)
(* under way in an engine, or received.  Sets of such numbers are compared  *)
(* (Ahead) with G, the numbers that may overtake: the greetings, or, when   *)
(* a blob was read over a reconnect, all.                                   *)

Own(q, n) == {i \in DOMAIN q : q[i].type \in {"event", "blob"} /\ q[i].nsp = n}
Num(q, n) == {q[i].n : i \in Own(q, n)}

Comes(G, a, b) == a # b /\ (a < b \/ a \in G)
Ahead(G, A, B) == \A a \in A, b \in B : Comes(G, a, b)
Sorted(G, q, n) == \A i, j \in Own(q, n) : i < j => Comes(G, q[i].n, q[j].n)

Excused(s, n) == IF s.stale THEN Nat ELSE s.sock[n].greetings
ExcusedFrom(s, e, n) == IF e = s.engine THEN Excused(s, n) ELSE Nat

\* What the server has by engine e, that with what is under way to it, and what is to come.
Got(r, e, n) == {r[n][i].n : i \in {j \in DOMAIN r[n] : r[n][j].by = e}}
Through(s, r, e, n) == Got(r, e, n) \cup Num(s.eng[e].up, n)
Reading(s, n) == {p.n : p \in {x \in s.blobs : x.nsp = n}}
Waiting(s, n) == Reading(s, n) \cup Num(s.packetBuffer, n)
Buffered(s, n) == Num(s.sock[n].sendBuffer, n)

ReceivedInv(s, r, n) ==
  \A j \in DOMAIN r[n] : \A i \in 1 .. j - 1 :
    /\ r[n][i].n # r[n][j].n
    /\ r[n][i].by = r[n][j].by => Comes(Excused(s, n), r[n][i].n, r[n][j].n)

EnginesInv(s, r, n) ==
  /\ \A e \in Engine :
       /\ Sorted(Excused(s, n), s.eng[e].up, n)
       /\ Ahead(Excused(s, n), Got(r, e, n), Num(s.eng[e].up, n))
       /\ e > s.engine => Got(r, e, n) = {} /\ s.eng[e].up = <<>>
  /\ \A e, f \in Engine : e # f => Ahead(Nat, Through(s, r, e, n), Through(s, r, f, n))

WaitingInv(s, n) ==
  /\ Sorted(Excused(s, n), s.packetBuffer, n)
  /\ Sorted(Excused(s, n), s.sock[n].sendBuffer, n)
  /\ Ahead(Excused(s, n), Reading(s, n), Num(s.packetBuffer, n))
  /\ Ahead(Excused(s, n), Waiting(s, n), Buffered(s, n))
  /\ \A x, y \in s.blobs : x.nsp = n /\ y.nsp = n /\ x.n = y.n => x = y
  /\ \A i \in DOMAIN s.sock[n].sendBuffer : s.sock[n].sendBuffer[i].nsp = n

BetweenInv(s, r, n) ==
  \A e \in Engine :
    Ahead(ExcusedFrom(s, e, n), Through(s, r, e, n), Waiting(s, n) \cup Buffered(s, n))

EmittedInv(s, r, n) ==
  /\ \A e \in Engine : \A k \in Through(s, r, e, n) : k <= s.sock[n].emitted
  /\ \A k \in Waiting(s, n) \cup Buffered(s, n) : k <= s.sock[n].emitted

OrderInv(s, r) ==
  \A n \in Nsp : /\ ReceivedInv(s, r, n) /\ EnginesInv(s, r, n) /\ WaitingInv(s, n)
                 /\ BetweenInv(s, r, n) /\ EmittedInv(s, r, n)

\* One blob is read at a time, unless a reconnect came in between, and what follows waits.
Encoder(s) ==
  /\ ~ s.encoding => s.packetBuffer = <<>>
  /\ ~ s.stale => (s.blobs # {} => s.encoding) /\ \A x, y \in s.blobs : x = y

Flushed(s) == \A n \in Nsp : s.sock[n].connected => s.sock[n].sendBuffer = <<>>

Logs == [Nsp -> Seq([n : Nat, by : Engine])]

LEMMA NumEmpty == ASSUME NEW n, NEW G PROVE Num(<<>>, n) = {} /\ Sorted(G, <<>>, n)
BY DEF Num, Own, Sorted

LEMMA NumNat ==
  ASSUME NEW q \in Seq(Upward), NEW n
  PROVE  Num(q, n) \subseteq Nat
BY DEF Num, Own, Upward, Packet

LEMMA NumOne ==
  ASSUME NEW p \in Upward, NEW n, NEW G
  PROVE  /\ Num(<<p>>, n) = (IF p.type \in {"event", "blob"} /\ p.nsp = n THEN {p.n} ELSE {})
         /\ Sorted(G, <<p>>, n)
<1>1. Own(<<p>>, n) = IF p.type \in {"event", "blob"} /\ p.nsp = n THEN {1} ELSE {}
  BY DEF Own
<1> QED BY <1>1 DEF Num, Sorted

LEMMA NumConcat ==
  ASSUME NEW p \in Seq(Upward), NEW q \in Seq(Upward), NEW n
  PROVE  Num(p \o q, n) = Num(p, n) \cup Num(q, n)
<1> DEFINE t == p \o q
<1>1. /\ t \in Seq(Upward) /\ Len(t) = Len(p) + Len(q)
      /\ \A i \in 1 .. Len(p) : t[i] = p[i]
      /\ \A i \in 1 .. Len(q) : t[Len(p) + i] = q[i]
      /\ Len(p) \in Nat /\ Len(q) \in Nat
      /\ DOMAIN t = 1 .. Len(t) /\ DOMAIN p = 1 .. Len(p) /\ DOMAIN q = 1 .. Len(q)
  OBVIOUS
<1> HIDE DEF t
<1>2. ASSUME NEW x \in Num(t, n) PROVE x \in Num(p, n) \cup Num(q, n)
  <2>1. PICK i \in Own(t, n) : x = t[i].n
    BY <1>2 DEF Num
  <2>2. i \in 1 .. Len(t) /\ t[i].type \in {"event", "blob"} /\ t[i].nsp = n
    BY <2>1, <1>1 DEF Own
  <2>3. CASE i <= Len(p)
    <3>1. i \in DOMAIN p /\ t[i] = p[i]
      BY <2>2, <2>3, <1>1
    <3>2. i \in Own(p, n)
      BY <3>1, <2>2 DEF Own
    <3> QED BY <3>1, <3>2, <2>1 DEF Num
  <2>4. CASE i > Len(p)
    <3> DEFINE j == i - Len(p)
    <3>1. j \in DOMAIN q /\ i = Len(p) + j
      BY <2>2, <2>4, <1>1
    <3>2. t[i] = q[j]
      BY <3>1, <1>1
    <3>3. j \in Own(q, n)
      BY <3>1, <3>2, <2>2 DEF Own
    <3> QED BY <3>2, <3>3, <2>1 DEF Num
  <2> QED BY <2>2, <2>3, <2>4, <1>1
<1>3. ASSUME NEW x \in Num(p, n) PROVE x \in Num(t, n)
  <2>1. PICK i \in Own(p, n) : x = p[i].n
    BY <1>3 DEF Num
  <2>2. i \in Own(t, n) /\ t[i] = p[i]
    BY <2>1, <1>1 DEF Own
  <2> QED BY <2>1, <2>2 DEF Num
<1>4. ASSUME NEW x \in Num(q, n) PROVE x \in Num(t, n)
  <2>1. PICK i \in Own(q, n) : x = q[i].n
    BY <1>4 DEF Num
  <2>2. i \in 1 .. Len(q) /\ q[i].type \in {"event", "blob"} /\ q[i].nsp = n
    BY <2>1, <1>1 DEF Own
  <2>3. Len(p) + i \in DOMAIN t /\ t[Len(p) + i] = q[i]
    BY <2>2, <1>1
  <2>4. Len(p) + i \in Own(t, n)
    BY <2>2, <2>3 DEF Own
  <2> QED BY <2>1, <2>3, <2>4 DEF Num
<1> QED BY <1>2, <1>3, <1>4 DEF t

LEMMA SortedConcat ==
  ASSUME NEW p \in Seq(Upward), NEW q \in Seq(Upward), NEW n, NEW G,
         Sorted(G, p, n), Sorted(G, q, n), Ahead(G, Num(p, n), Num(q, n))
  PROVE  Sorted(G, p \o q, n)
<1> DEFINE t == p \o q
<1>1. /\ Len(t) = Len(p) + Len(q)
      /\ \A i \in 1 .. Len(p) : t[i] = p[i]
      /\ \A i \in 1 .. Len(q) : t[Len(p) + i] = q[i]
      /\ Len(p) \in Nat /\ Len(q) \in Nat
      /\ DOMAIN t = 1 .. Len(t) /\ DOMAIN p = 1 .. Len(p) /\ DOMAIN q = 1 .. Len(q)
  OBVIOUS
<1> HIDE DEF t
<1>2. ASSUME NEW i \in Own(t, n), NEW j \in Own(t, n), i < j
      PROVE  Comes(G, t[i].n, t[j].n)
  <2>1. i \in 1 .. Len(t) /\ j \in 1 .. Len(t)
    BY <1>2, <1>1 DEF Own
  <2>2. ASSUME NEW k \in Own(t, n), k <= Len(p)
        PROVE  k \in Own(p, n) /\ t[k] = p[k]
    BY <2>2, <1>1 DEF Own
  <2>3. ASSUME NEW k \in Own(t, n), k > Len(p)
        PROVE  k - Len(p) \in Own(q, n) /\ t[k] = q[k - Len(p)]
    <3> DEFINE l == k - Len(p)
    <3>1. l \in 1 .. Len(q) /\ k = Len(p) + l
      BY <2>3, <1>1 DEF Own
    <3>2. t[k] = q[l]
      BY <3>1, <1>1
    <3> QED BY <3>1, <3>2, <1>1 DEF Own
  <2>4. CASE j <= Len(p)
    <3>1. i \in Own(p, n) /\ j \in Own(p, n) /\ t[i] = p[i] /\ t[j] = p[j]
      BY <2>1, <2>2, <2>4, <1>1, <1>2
    <3> QED BY <3>1, <1>2 DEF Sorted
  <2>5. CASE i > Len(p)
    <3> DEFINE k == i - Len(p)  l == j - Len(p)
    <3>1. k \in Own(q, n) /\ l \in Own(q, n) /\ t[i] = q[k] /\ t[j] = q[l] /\ k < l
      BY <2>1, <2>3, <2>5, <1>1, <1>2
    <3> QED BY <3>1 DEF Sorted
  <2>6. CASE i <= Len(p) /\ j > Len(p)
    <3>1. t[i].n \in Num(p, n) /\ t[j].n \in Num(q, n)
      BY <2>2, <2>3, <2>6 DEF Num
    <3> QED BY <3>1 DEF Ahead
  <2> QED BY <2>1, <2>4, <2>5, <2>6, <1>1
<1> QED BY <1>2 DEF Sorted, t

\* A sequence around its k-th element.
LEMMA NumSplit ==
  ASSUME NEW q \in Seq(Upward), NEW k \in 1 .. Len(q), NEW n, NEW G, Sorted(G, q, n)
  PROVE  LET a == SubSeq(q, 1, k - 1)  c == SubSeq(q, k + 1, Len(q)) IN
         /\ a \in Seq(Upward) /\ c \in Seq(Upward)
         /\ Num(a, n) \subseteq Num(q, n) /\ Num(c, n) \subseteq Num(q, n)
         /\ Sorted(G, a, n) /\ Sorted(G, c, n) /\ Ahead(G, Num(a, n), Num(c, n))
         /\ k \in Own(q, n) => /\ Ahead(G, Num(a, n), {q[k].n})
                               /\ Ahead(G, {q[k].n}, Num(c, n))
<1> DEFINE a == SubSeq(q, 1, k - 1)  c == SubSeq(q, k + 1, Len(q))
<1>1. /\ a \in Seq(Upward) /\ DOMAIN a = 1 .. k - 1 /\ \A i \in 1 .. k - 1 : a[i] = q[i]
  OBVIOUS
<1>2. /\ c \in Seq(Upward) /\ DOMAIN c = 1 .. Len(q) - k
      /\ \A i \in 1 .. Len(q) - k : c[i] = q[k + i]
  OBVIOUS
<1>3. Len(q) \in Nat /\ DOMAIN q = 1 .. Len(q)
  OBVIOUS
<1> HIDE DEF a, c
<1>4. \A i \in Own(a, n) : i \in Own(q, n) /\ i < k /\ a[i] = q[i]
  BY <1>1, <1>3 DEF Own
<1>5. ASSUME NEW i \in Own(c, n) PROVE k + i \in Own(q, n) /\ i \in Nat /\ i > 0 /\ c[i] = q[k + i]
  <2>1. i \in 1 .. Len(q) - k /\ c[i] = q[k + i]
    BY <1>2 DEF Own
  <2>2. k + i \in DOMAIN q
    BY <2>1, <1>3
  <2> QED BY <2>1, <2>2 DEF Own
<1>6. Num(a, n) \subseteq Num(q, n) /\ Num(c, n) \subseteq Num(q, n)
  BY <1>4, <1>5 DEF Num
<1>7. Sorted(G, a, n)
  BY <1>4 DEF Sorted
<1>8. Sorted(G, c, n)
  <2> SUFFICES ASSUME NEW i \in Own(c, n), NEW j \in Own(c, n), i < j
               PROVE  Comes(G, c[i].n, c[j].n)
    BY DEF Sorted
  <2>1. k + i \in Own(q, n) /\ k + j \in Own(q, n) /\ k + i < k + j
    BY <1>5
  <2>2. Comes(G, q[k + i].n, q[k + j].n)
    BY <2>1 DEF Sorted
  <2> QED BY <2>2, <1>5
<1>9. Ahead(G, Num(a, n), Num(c, n))
  <2> SUFFICES ASSUME NEW i \in Own(a, n), NEW j \in Own(c, n)
               PROVE  Comes(G, a[i].n, c[j].n)
    BY DEF Ahead, Num
  <2>1. i \in Own(q, n) /\ k + j \in Own(q, n) /\ i < k + j
    BY <1>3, <1>4, <1>5 DEF Own
  <2>2. Comes(G, q[i].n, q[k + j].n)
    BY <2>1 DEF Sorted
  <2> QED BY <2>2, <1>4, <1>5
<1>10. ASSUME k \in Own(q, n) PROVE Ahead(G, Num(a, n), {q[k].n}) /\ Ahead(G, {q[k].n}, Num(c, n))
  <2>1. \A i \in Own(a, n) : Comes(G, a[i].n, q[k].n)
    BY <1>4, <1>10 DEF Sorted
  <2>2. ASSUME NEW j \in Own(c, n) PROVE Comes(G, q[k].n, c[j].n)
    <3>1. k + j \in Own(q, n) /\ k < k + j
      BY <1>5
    <3>2. Comes(G, q[k].n, q[k + j].n)
      BY <3>1, <1>10 DEF Sorted
    <3> QED BY <3>2, <1>5
  <2> QED BY <2>1, <2>2 DEF Ahead, Num
<1> QED BY <1>1, <1>2, <1>6, <1>7, <1>8, <1>9, <1>10 DEF a, c

-----------------------------------------------------------------------------
(* What is sent takes its place behind all that waits.                      *)

\* The numbers N of namespace n may follow all that was sent, and precede what is buffered.
Fits(s, r, n, N) ==
  /\ N \subseteq Nat
  /\ \A e \in Engine : Ahead(ExcusedFrom(s, e, n), Through(s, r, e, n), N)
  /\ Ahead(Excused(s, n), Waiting(s, n), N)
  /\ Ahead(Excused(s, n), N, Buffered(s, n))
  /\ \A k \in N : k <= s.sock[n].emitted

Numbers(M, n) == {p.n : p \in {x \in M : x.nsp = n}}

\* From s to t, a was written, the blobs M are read, and c waits for them.
Takes(s, t, a, M, c) ==
  /\ t.engine = s.engine /\ t.stale = s.stale /\ t.sock = s.sock
  /\ t.blobs = s.blobs \cup M /\ t.packetBuffer = s.packetBuffer \o c
  /\ \A e \in Engine : \/ t.eng[e].up = s.eng[e].up
                       \/ e = s.engine /\ t.eng[e].up = s.eng[e].up \o a

LEMMA AheadWeak ==
  ASSUME NEW G, NEW H, G \subseteq H, NEW A, NEW B, NEW A1, NEW B1,
         Ahead(G, A, B), A1 \subseteq A, B1 \subseteq B
  PROVE  Ahead(H, A1, B1)
BY DEF Ahead, Comes

LEMMA AheadUnion ==
  ASSUME NEW G, NEW A, NEW B, NEW C
  PROVE  /\ Ahead(G, A \cup B, C) <=> Ahead(G, A, C) /\ Ahead(G, B, C)
         /\ Ahead(G, C, A \cup B) <=> Ahead(G, C, A) /\ Ahead(G, C, B)
BY DEF Ahead

LEMMA AheadBack ==
  ASSUME NEW A, NEW B \in SUBSET Nat, Ahead(Nat, A, B)
  PROVE  Ahead(Nat, B, A)
BY DEF Ahead, Comes

LEMMA AheadNone ==
  ASSUME NEW G, NEW A
  PROVE  Ahead(G, {}, A) /\ Ahead(G, A, {})
BY DEF Ahead

LEMMA TypedSeqs ==
  ASSUME NEW R, NEW s, Typed(R, s)
  PROVE  /\ s.packetBuffer \in Seq(Upward) /\ s.blobs \subseteq Upward
         /\ s.engine \in 0 .. MaxEngines /\ s.stale \in BOOLEAN /\ s.encoding \in BOOLEAN
         /\ \A e \in Engine : s.eng[e].up \in Seq(Upward)
         /\ \A n \in Nsp : /\ s.sock[n].sendBuffer \in Seq(Upward) /\ s.sock[n].emitted \in Nat
                           /\ s.sock[n].greetings \subseteq Nat /\ s.sock[n].connected \in BOOLEAN
<1>1. s \in ClientWith(R)
  BY DEF Typed
<1>2. /\ s.packetBuffer \in Seq(Upward) /\ s.blobs \subseteq Upward
      /\ s.engine \in 0 .. MaxEngines /\ s.stale \in BOOLEAN /\ s.encoding \in BOOLEAN
      /\ s.eng \in [Engine -> EngineWith(R)] /\ s.sock \in [Nsp -> SocketWith]
  BY <1>1 DEF ClientWith
<1>3. \A e \in Engine : s.eng[e] \in EngineWith(R)
  BY <1>2
<1>4. \A n \in Nsp : s.sock[n] \in SocketWith
  BY <1>2
<1>5. \A e \in Engine : s.eng[e].up \in Seq(Upward)
  BY <1>3 DEF EngineWith
<1>6. \A n \in Nsp : /\ s.sock[n].sendBuffer \in Seq(Upward) /\ s.sock[n].emitted \in Nat
                     /\ s.sock[n].greetings \subseteq Nat /\ s.sock[n].connected \in BOOLEAN
  BY <1>4 DEF SocketWith
<1> QED BY <1>2, <1>5, <1>6

LEMMA LogEntries ==
  ASSUME NEW r \in Logs, NEW n \in Nsp
  PROVE  \A i \in DOMAIN r[n] : r[n][i].n \in Nat /\ r[n][i].by \in Engine
<1> DEFINE Entry == [n : Nat, by : Engine]
<1>1. r[n] \in Seq(Entry)
  BY DEF Logs
<1> HIDE DEF Entry
<1>2. \A i \in DOMAIN r[n] : r[n][i] \in Entry
  BY <1>1
<1> QED BY <1>2 DEF Entry

LEMMA TypedNat ==
  ASSUME NEW R, NEW s, Typed(R, s), NEW n \in Nsp, NEW r \in Logs, NEW e \in Engine
  PROVE  /\ Excused(s, n) \subseteq Nat /\ ExcusedFrom(s, e, n) \subseteq Nat
         /\ Excused(s, n) \subseteq ExcusedFrom(s, e, n)
         /\ Waiting(s, n) \subseteq Nat /\ Buffered(s, n) \subseteq Nat
         /\ Through(s, r, e, n) \subseteq Nat
<1>1. Excused(s, n) \subseteq Nat
  BY TypedSeqs DEF Excused
<1>2. Num(s.packetBuffer, n) \subseteq Nat /\ Num(s.eng[e].up, n) \subseteq Nat
      /\ Buffered(s, n) \subseteq Nat
  BY TypedSeqs, NumNat DEF Buffered
<1>3. Reading(s, n) \subseteq Nat
  BY TypedSeqs DEF Reading, Upward, Packet
<1>4. Got(r, e, n) \subseteq Nat
  BY LogEntries DEF Got
<1> QED BY <1>1, <1>2, <1>3, <1>4 DEF ExcusedFrom, Waiting, Through

LEMMA SentOrder ==
  ASSUME NEW R, NEW s, Typed(R, s), NEW r \in Logs, OrderInv(s, r),
         NEW a \in Seq(Upward), NEW M \in SUBSET Upward, NEW c \in Seq(Upward),
         \A x, y \in M : x = y, NEW t, Takes(s, t, a, M, c),
         \A n \in Nsp :
           LET G == Excused(s, n)  A == Num(a, n)  B == Numbers(M, n)  C == Num(c, n) IN
           /\ Fits(s, r, n, A \cup B \cup C)
           /\ Sorted(G, a, n) /\ Sorted(G, c, n)
           /\ Ahead(G, A, B) /\ Ahead(G, A, C) /\ Ahead(G, B, C)
           /\ Ahead(G, A, Waiting(s, n)) /\ Ahead(G, B, Num(s.packetBuffer, n))
  PROVE  OrderInv(t, r)
<1> SUFFICES ASSUME NEW n \in Nsp
             PROVE  /\ ReceivedInv(t, r, n) /\ EnginesInv(t, r, n) /\ WaitingInv(t, n)
                    /\ BetweenInv(t, r, n) /\ EmittedInv(t, r, n)
  BY DEF OrderInv
<1> DEFINE G == Excused(s, n)  A == Num(a, n)  B == Numbers(M, n)  C == Num(c, n)
           P == Num(s.packetBuffer, n)
<1>1. /\ ReceivedInv(s, r, n) /\ EnginesInv(s, r, n) /\ WaitingInv(s, n)
      /\ BetweenInv(s, r, n) /\ EmittedInv(s, r, n)
  BY DEF OrderInv
<1>2. /\ Fits(s, r, n, A \cup B \cup C)
      /\ Sorted(G, a, n) /\ Sorted(G, c, n)
      /\ Ahead(G, A, B) /\ Ahead(G, A, C) /\ Ahead(G, B, C)
      /\ Ahead(G, A, Waiting(s, n)) /\ Ahead(G, B, P)
  OBVIOUS
<1>3. /\ Excused(t, n) = G /\ Buffered(t, n) = Buffered(s, n)
      /\ \A e \in Engine : ExcusedFrom(t, e, n) = ExcusedFrom(s, e, n)
  BY DEF Takes, Excused, ExcusedFrom, Buffered
<1>4. Reading(t, n) = Reading(s, n) \cup B
  BY DEF Takes, Reading, Numbers
<1>5. s.packetBuffer \in Seq(Upward) /\ \A e \in Engine : s.eng[e].up \in Seq(Upward)
  BY TypedSeqs
<1>6. Num(t.packetBuffer, n) = P \cup C
  BY <1>5, NumConcat DEF Takes
<1>7. Waiting(t, n) = Waiting(s, n) \cup B \cup C
  BY <1>4, <1>6 DEF Waiting
<1>8. ASSUME NEW e \in Engine
      PROVE  \/ t.eng[e].up = s.eng[e].up /\ Through(t, r, e, n) = Through(s, r, e, n)
             \/ /\ e = s.engine /\ t.eng[e].up = s.eng[e].up \o a
                /\ Num(t.eng[e].up, n) = Num(s.eng[e].up, n) \cup A
                /\ Through(t, r, e, n) = Through(s, r, e, n) \cup A
  <2>1. CASE t.eng[e].up = s.eng[e].up
    BY <2>1 DEF Through
  <2>2. CASE e = s.engine /\ t.eng[e].up = s.eng[e].up \o a
    <3>1. Num(t.eng[e].up, n) = Num(s.eng[e].up, n) \cup A
      BY <1>5, <2>2, NumConcat
    <3> QED BY <2>2, <3>1 DEF Through
  <2> QED BY <2>1, <2>2 DEF Takes
<1>9. \A e \in Engine : Ahead(ExcusedFrom(s, e, n), Through(s, r, e, n), A \cup B \cup C)
  BY <1>2 DEF Fits
<1>10. A \cup B \cup C \subseteq Nat
  BY <1>2 DEF Fits
<1>11. s.engine \in Engine => ExcusedFrom(s, s.engine, n) = G
  BY DEF ExcusedFrom
<1> HIDE DEF A, B, C, G, P
<1>12. ReceivedInv(t, r, n)
  BY <1>1, <1>3 DEF ReceivedInv, G
<1>13. EnginesInv(t, r, n)
  <2>1. ASSUME NEW e \in Engine
        PROVE  /\ Sorted(G, t.eng[e].up, n) /\ Ahead(G, Got(r, e, n), Num(t.eng[e].up, n))
               /\ e > t.engine => Got(r, e, n) = {} /\ t.eng[e].up = <<>>
    <3>1. /\ Sorted(G, s.eng[e].up, n) /\ Ahead(G, Got(r, e, n), Num(s.eng[e].up, n))
          /\ e > s.engine => Got(r, e, n) = {} /\ s.eng[e].up = <<>>
      BY <1>1 DEF EnginesInv, G
    <3>2. t.engine = s.engine
      BY DEF Takes
    <3>3. CASE t.eng[e].up = s.eng[e].up
      BY <3>1, <3>2, <3>3
    <3>4. CASE /\ e = s.engine /\ t.eng[e].up = s.eng[e].up \o a
               /\ Num(t.eng[e].up, n) = Num(s.eng[e].up, n) \cup A
      <4>1. Ahead(G, Through(s, r, e, n), A)
        BY <1>9, <1>11, <3>4 DEF Ahead
      <4>2. Ahead(G, Got(r, e, n), A) /\ Ahead(G, Num(s.eng[e].up, n), A)
        BY <4>1 DEF Ahead, Through
      <4>3. Sorted(G, t.eng[e].up, n)
        BY <1>2, <1>5, <3>1, <3>4, <4>2, SortedConcat DEF A
      <4>4. Ahead(G, Got(r, e, n), Num(t.eng[e].up, n))
        BY <3>1, <3>4, <4>2 DEF Ahead
      <4>5. ~ (e > t.engine)
        BY <3>2, <3>4, TypedSeqs DEF Engine
      <4> QED BY <4>3, <4>4, <4>5
    <3> QED BY <1>8, <3>3, <3>4
  <2>2. ASSUME NEW e \in Engine, NEW f \in Engine, e # f
        PROVE  Ahead(Nat, Through(t, r, e, n), Through(t, r, f, n))
    <3>1. Ahead(Nat, Through(s, r, e, n), Through(s, r, f, n))
      BY <1>1, <2>2 DEF EnginesInv
    <3>2. CASE Through(t, r, e, n) = Through(s, r, e, n)
               /\ Through(t, r, f, n) = Through(s, r, f, n)
      BY <3>1, <3>2
    <3>3. CASE f = s.engine /\ Through(t, r, f, n) = Through(s, r, f, n) \cup A
               /\ Through(t, r, e, n) = Through(s, r, e, n)
      <4>1. Ahead(Nat, Through(s, r, e, n), A)
        BY <1>9, <2>2, <3>3 DEF Ahead, ExcusedFrom
      <4> QED BY <3>1, <3>3, <4>1 DEF Ahead
    <3>4. CASE e = s.engine /\ Through(t, r, e, n) = Through(s, r, e, n) \cup A
               /\ Through(t, r, f, n) = Through(s, r, f, n)
      <4>1. Ahead(Nat, Through(s, r, f, n), A)
        BY <1>9, <2>2, <3>4 DEF Ahead, ExcusedFrom
      <4>2. Ahead(Nat, A, Through(s, r, f, n))
        BY <4>1, <1>10, AheadBack
      <4> QED BY <3>1, <3>4, <4>2 DEF Ahead
    <3> QED BY <1>8, <2>2, <3>2, <3>3, <3>4
  <2> QED BY <2>1, <2>2, <1>3 DEF EnginesInv
<1>14. WaitingInv(t, n)
  <2>1. /\ Sorted(G, s.packetBuffer, n) /\ Sorted(G, s.sock[n].sendBuffer, n)
        /\ Ahead(G, Reading(s, n), P) /\ Ahead(G, Waiting(s, n), Buffered(s, n))
        /\ \A x, y \in s.blobs : x.nsp = n /\ y.nsp = n /\ x.n = y.n => x = y
        /\ \A i \in DOMAIN s.sock[n].sendBuffer : s.sock[n].sendBuffer[i].nsp = n
    BY <1>1 DEF WaitingInv, G, P
  <2>2. Ahead(G, Waiting(s, n), A \cup B \cup C) /\ Ahead(G, A \cup B \cup C, Buffered(s, n))
    BY <1>2 DEF Fits, G
  <2>3. Ahead(G, P, C) /\ Ahead(G, Reading(s, n), C) /\ Ahead(G, Waiting(s, n), B)
    BY <2>2 DEF Ahead, Waiting, P
  <2>4. Sorted(G, t.packetBuffer, n)
    BY <2>1, <2>3, <1>2, <1>5, SortedConcat DEF Takes, P, C
  <2>5. Ahead(G, Reading(t, n), Num(t.packetBuffer, n))
    BY <1>2, <1>4, <1>6, <2>1, <2>3 DEF Ahead
  <2>6. Ahead(G, Waiting(t, n), Buffered(t, n))
    BY <1>3, <1>7, <2>1, <2>2 DEF Ahead
  <2>7. ASSUME NEW x \in t.blobs, NEW y \in t.blobs, x.nsp = n, y.nsp = n, x.n = y.n
        PROVE  x = y
    <3>1. \A v \in s.blobs, w \in M : v.nsp = n /\ w.nsp = n => v.n # w.n
      BY <2>3 DEF Ahead, Comes, Waiting, Reading, Numbers, B
    <3> QED BY <2>1, <2>7, <3>1 DEF Takes
  <2> QED BY <1>3, <2>1, <2>4, <2>5, <2>6, <2>7 DEF WaitingInv, Takes
<1>15. BetweenInv(t, r, n)
  <2> SUFFICES ASSUME NEW e \in Engine
               PROVE  Ahead(ExcusedFrom(s, e, n), Through(t, r, e, n),
                            Waiting(s, n) \cup B \cup C \cup Buffered(s, n))
    BY <1>3, <1>7 DEF BetweenInv
  <2>1. Ahead(ExcusedFrom(s, e, n), Through(s, r, e, n), Waiting(s, n) \cup Buffered(s, n))
    BY <1>1 DEF BetweenInv
  <2>2. Ahead(ExcusedFrom(s, e, n), Through(s, r, e, n),
              Waiting(s, n) \cup B \cup C \cup Buffered(s, n))
    BY <2>1, <1>9 DEF Ahead
  <2>3. e = s.engine => Ahead(G, A, Waiting(s, n) \cup B \cup C \cup Buffered(s, n))
    BY <1>2 DEF Ahead, Fits, G
  <2> QED BY <1>8, <1>11, <2>2, <2>3 DEF Ahead
<1>16. EmittedInv(t, r, n)
  <2>1. \A k \in A \cup B \cup C : k <= s.sock[n].emitted
    BY <1>2 DEF Fits
  <2>2. \A e \in Engine : Through(t, r, e, n) \subseteq Through(s, r, e, n) \cup A
    BY <1>8
  <2>3. t.sock = s.sock
    BY DEF Takes
  <2>4. /\ \A e \in Engine : \A k \in Through(s, r, e, n) : k <= s.sock[n].emitted
        /\ \A k \in Waiting(s, n) \cup Buffered(s, n) : k <= s.sock[n].emitted
    BY <1>1 DEF EmittedInv
  <2>5. \A e \in Engine : \A k \in Through(t, r, e, n) : k <= s.sock[n].emitted
    BY <2>1, <2>2, <2>4
  <2>6. \A k \in Waiting(t, n) \cup Buffered(t, n) : k <= s.sock[n].emitted
    BY <1>3, <1>7, <2>1, <2>4
  <2> QED BY <2>3, <2>5, <2>6 DEF EmittedInv
<1> QED BY <1>12, <1>13, <1>14, <1>15, <1>16

Sendable(s, r, ps) ==
  \A n \in Nsp : Fits(s, r, n, Num(ps, n)) /\ Sorted(Excused(s, n), ps, n)

Written(s, t, ps) ==
  /\ t.engine = s.engine /\ t.stale = s.stale /\ t.sock = s.sock
  /\ t.blobs = s.blobs /\ t.packetBuffer = s.packetBuffer /\ t.encoding = s.encoding
  /\ \A e \in Engine : \/ t.eng[e].up = s.eng[e].up
                       \/ e = s.engine /\ t.eng[e].up = s.eng[e].up \o ps

LEMMA WriteTakes ==
  ASSUME NEW R, NEW s, Typed(R, s), NEW ps \in Seq(Upward)
  PROVE  Written(s, WriteAll(s, ps), ps)
<1> DEFINE t == WriteAll(s, ps)
           u == [s EXCEPT !.eng[s.engine].up = @ \o ps]
<1>1. t = s \/ t = u
  BY DEF WriteAll
<1>2. s \in ClientWith(R)
  BY DEF Typed
<1>3. /\ u.engine = s.engine /\ u.stale = s.stale /\ u.sock = s.sock
      /\ u.blobs = s.blobs /\ u.packetBuffer = s.packetBuffer /\ u.encoding = s.encoding
  BY <1>2 DEF ClientWith
<1>4. ASSUME NEW e \in Engine
      PROVE  \/ u.eng[e].up = s.eng[e].up
             \/ e = s.engine /\ u.eng[e].up = s.eng[e].up \o ps
  <2>1. s.eng \in [Engine -> EngineWith(R)] /\ s.eng[e] \in EngineWith(R)
    BY <1>2 DEF ClientWith
  <2> DEFINE x == [s.eng[s.engine] EXCEPT !.up = @ \o ps]
  <2>2. u = [s EXCEPT !.eng = [s.eng EXCEPT ![s.engine] = x]]
    OBVIOUS
  <2>3. e = s.engine => x.up = s.eng[e].up \o ps
    BY <2>1 DEF EngineWith
  <2> HIDE DEF x, u
  <2>4. u.eng = [s.eng EXCEPT ![s.engine] = x]
    BY <1>2, <2>2 DEF ClientWith
  <2> QED BY <2>1, <2>3, <2>4
<1>5. Written(s, s, ps)
  BY DEF Written
<1>6. Written(s, u, ps)
  BY <1>3, <1>4 DEF Written
<1> HIDE DEF u
<1> QED BY <1>1, <1>5, <1>6

\* When no packet is being encoded, nothing waits but what a reconnect left behind.
LEMMA NothingWaits ==
  ASSUME NEW s, Encoder(s), ~ s.encoding, NEW n \in Nsp, NEW r, NEW N, Fits(s, r, n, N),
         s.stale \in BOOLEAN
  PROVE  Ahead(Excused(s, n), N, Waiting(s, n)) /\ Num(s.packetBuffer, n) = {}
<1>1. Num(s.packetBuffer, n) = {}
  BY NumEmpty DEF Encoder
<1>2. CASE ~ s.stale
  <2>1. Waiting(s, n) = {}
    BY <1>1, <1>2 DEF Encoder, Waiting, Reading
  <2> QED BY <1>1, <2>1, AheadNone
<1>3. CASE s.stale
  <2>1. Ahead(Nat, Waiting(s, n), N) /\ N \subseteq Nat
    BY <1>3 DEF Fits, Excused
  <2>2. Ahead(Nat, N, Waiting(s, n))
    BY <2>1, AheadBack
  <2> QED BY <1>1, <1>3, <2>2 DEF Excused
<1> QED BY <1>2, <1>3

LEMMA FitsLess ==
  ASSUME NEW s, NEW r, NEW n, NEW N, Fits(s, r, n, N), NEW N1 \in SUBSET N
  PROVE  Fits(s, r, n, N1)
BY DEF Fits, Ahead

LEMMA NumbersOne ==
  ASSUME NEW p, NEW n
  PROVE  Numbers({p}, n) = (IF p.nsp = n THEN {p.n} ELSE {}) /\ Numbers({}, n) = {}
BY DEF Numbers

LEMMA SendAllOrder ==
  ASSUME NEW R, NEW s, Typed(R, s), NEW r \in Logs, OrderInv(s, r), Encoder(s),
         NEW ps \in Seq(Upward), Sendable(s, r, ps)
  PROVE  LET t == SendAll(ps, s) IN
         /\ OrderInv(t, r) /\ Encoder(t)
         /\ t.sock = s.sock /\ t.engine = s.engine /\ t.stale = s.stale
<1>1. /\ s.stale \in BOOLEAN /\ s.packetBuffer \in Seq(Upward) /\ <<>> \in Seq(Upward)
      /\ s.encoding \in BOOLEAN
  BY TypedSeqs
<1>2. \A n \in Nsp : /\ Fits(s, r, n, Num(ps, n)) /\ Sorted(Excused(s, n), ps, n)
                     /\ Num(<<>>, n) = {} /\ Numbers({}, n) = {}
                     /\ Sorted(Excused(s, n), <<>>, n)
  BY NumEmpty, NumbersOne DEF Sendable
<1>3. \A n \in Nsp : Num(ps, n) \subseteq Nat
  BY NumNat
<1>4. CASE s.encoding
  <2> DEFINE t == [s EXCEPT !.packetBuffer = @ \o ps]
  <2>1. SendAll(ps, s) = t
    BY <1>4 DEF SendAll
  <2>2. /\ t.engine = s.engine /\ t.stale = s.stale /\ t.sock = s.sock /\ t.eng = s.eng
        /\ t.blobs = s.blobs /\ t.packetBuffer = s.packetBuffer \o ps /\ t.encoding = s.encoding
    BY DEF Typed, ClientWith
  <2> HIDE DEF t
  <2>3. Takes(s, t, <<>>, {}, ps)
    BY <2>2 DEF Takes
  <2>4. ASSUME NEW n \in Nsp
        PROVE  LET G == Excused(s, n)  A == Num(<<>>, n)  B == Numbers({}, n)  C == Num(ps, n) IN
               /\ Fits(s, r, n, A \cup B \cup C)
               /\ Sorted(G, <<>>, n) /\ Sorted(G, ps, n)
               /\ Ahead(G, A, B) /\ Ahead(G, A, C) /\ Ahead(G, B, C)
               /\ Ahead(G, A, Waiting(s, n)) /\ Ahead(G, B, Num(s.packetBuffer, n))
    BY <1>2, AheadNone
  <2>5. OrderInv(t, r)
    BY <1>1, <2>3, <2>4, SentOrder
  <2> QED BY <1>4, <2>1, <2>2, <2>5 DEF Encoder
<1> DEFINE blobs == {k \in DOMAIN ps : ps[k].type = "blob"}
<1>5. CASE ~ s.encoding /\ blobs = {}
  <2> DEFINE t == WriteAll(s, ps)
  <2>1. SendAll(ps, s) = t
    BY <1>5 DEF SendAll
  <2>2. /\ t.engine = s.engine /\ t.stale = s.stale /\ t.sock = s.sock
        /\ t.blobs = s.blobs /\ t.packetBuffer = s.packetBuffer /\ t.encoding = s.encoding
        /\ \A e \in Engine : \/ t.eng[e].up = s.eng[e].up
                             \/ e = s.engine /\ t.eng[e].up = s.eng[e].up \o ps
    BY WriteTakes DEF Written
  <2> HIDE DEF t
  <2>3. Takes(s, t, ps, {}, <<>>)
    BY <2>2, <1>1 DEF Takes
  <2>4. ASSUME NEW n \in Nsp
        PROVE  LET G == Excused(s, n)  A == Num(ps, n)  B == Numbers({}, n)  C == Num(<<>>, n) IN
               /\ Fits(s, r, n, A \cup B \cup C)
               /\ Sorted(G, ps, n) /\ Sorted(G, <<>>, n)
               /\ Ahead(G, A, B) /\ Ahead(G, A, C) /\ Ahead(G, B, C)
               /\ Ahead(G, A, Waiting(s, n)) /\ Ahead(G, B, Num(s.packetBuffer, n))
    BY <1>1, <1>2, <1>5, AheadNone, NothingWaits
  <2>5. OrderInv(t, r)
    BY <1>1, <2>3, <2>4, SentOrder
  <2> QED BY <1>5, <2>1, <2>2, <2>5 DEF Encoder
<1>6. CASE ~ s.encoding /\ blobs # {}
  <2> DEFINE first == CHOOSE k \in blobs : \A j \in blobs : k <= j
             a == SubSeq(ps, 1, first - 1)  c == SubSeq(ps, first + 1, Len(ps))
             w == WriteAll(s, a)
             t == [w EXCEPT !.encoding = TRUE, !.blobs = @ \cup {ps[first]},
                            !.packetBuffer = @ \o c]
  <2>1. SendAll(ps, s) = t
    BY <1>6 DEF SendAll
  <2>2. first \in blobs
    <3>1. blobs \subseteq Nat
      OBVIOUS
    <3>2. \E k \in blobs : \A j \in blobs : k <= j
      BY <1>6, <3>1, LeastBlob
    <3> QED BY <3>2
  <2> DEFINE p == ps[first]
  <2>3. first \in 1 .. Len(ps) /\ p \in Upward /\ p.type = "blob"
    BY <2>2
  <2> HIDE DEF first
  <2>4. /\ a \in Seq(Upward) /\ c \in Seq(Upward)
    BY <2>3
  <2>5. ASSUME NEW n \in Nsp
        PROVE  LET G == Excused(s, n)  A == Num(a, n)  B == Numbers({p}, n)  C == Num(c, n) IN
               /\ Fits(s, r, n, A \cup B \cup C)
               /\ Sorted(G, a, n) /\ Sorted(G, c, n)
               /\ Ahead(G, A, B) /\ Ahead(G, A, C) /\ Ahead(G, B, C)
               /\ Ahead(G, A, Waiting(s, n)) /\ Ahead(G, B, Num(s.packetBuffer, n))
    <3> DEFINE G == Excused(s, n)  A == Num(a, n)  B == Numbers({p}, n)  C == Num(c, n)
    <3>1. /\ A \subseteq Num(ps, n) /\ C \subseteq Num(ps, n)
          /\ Sorted(G, a, n) /\ Sorted(G, c, n) /\ Ahead(G, A, C)
          /\ first \in Own(ps, n) => Ahead(G, A, {p.n}) /\ Ahead(G, {p.n}, C)
      BY <2>3, <1>2, NumSplit
    <3>2. p.nsp = n => first \in Own(ps, n)
      BY <2>3 DEF Own
    <3>3. B = IF p.nsp = n THEN {p.n} ELSE {}
      BY NumbersOne
    <3>4. B \subseteq Num(ps, n)
      BY <3>2, <3>3 DEF Num
    <3> HIDE DEF A, B, C
    <3>5. Ahead(G, A, B) /\ Ahead(G, B, C)
      BY <3>1, <3>2, <3>3, AheadNone
    <3>6. Fits(s, r, n, A \cup B \cup C) /\ Fits(s, r, n, A)
      BY <1>2, <3>1, <3>4, FitsLess
    <3>7. Ahead(G, A, Waiting(s, n)) /\ Num(s.packetBuffer, n) = {}
      BY <1>1, <1>6, <3>6, NothingWaits
    <3> QED BY <3>1, <3>5, <3>6, <3>7, AheadNone DEF A, B, C
  <2> HIDE DEF a, c
  <2>6. /\ w.engine = s.engine /\ w.stale = s.stale /\ w.sock = s.sock
        /\ w.blobs = s.blobs /\ w.packetBuffer = s.packetBuffer /\ w.encoding = s.encoding
        /\ \A e \in Engine : \/ w.eng[e].up = s.eng[e].up
                             \/ e = s.engine /\ w.eng[e].up = s.eng[e].up \o a
    BY <2>4, WriteTakes DEF Written
  <2>7. w \in ClientWith(R)
    BY <2>4, WriteTyped DEF Typed
  <2> HIDE DEF w
  <2>8. /\ t.engine = w.engine /\ t.stale = w.stale /\ t.sock = w.sock /\ t.eng = w.eng
        /\ t.blobs = w.blobs \cup {p} /\ t.packetBuffer = w.packetBuffer \o c /\ t.encoding
    BY <2>7 DEF ClientWith
  <2> HIDE DEF t
  <2>9. Takes(s, t, a, {p}, c)
    BY <2>6, <2>8 DEF Takes
  <2>10. OrderInv(t, r)
    <3> HIDE DEF p
    <3>1. {p} \in SUBSET Upward /\ \A x, y \in {p} : x = y
      BY <2>3
    <3> QED BY <2>4, <2>5, <2>9, <3>1, SentOrder
  <2>11. Encoder(t)
    BY <1>6, <2>6, <2>8 DEF Encoder
  <2> QED BY <2>1, <2>6, <2>8, <2>10, <2>11
<1> QED BY <1>1, <1>4, <1>5, <1>6

-----------------------------------------------------------------------------
(* What is dropped leaves the rest in order.                                *)

Fewer(s, t) ==
  /\ t.engine \in Nat /\ s.engine <= t.engine
  /\ \A e \in Engine : t.eng[e].up \in {s.eng[e].up, <<>>}
  /\ t.blobs \subseteq s.blobs /\ t.packetBuffer \in {s.packetBuffer, <<>>}
  /\ s.stale => t.stale
  /\ \A n \in Nsp : /\ t.sock[n].sendBuffer \in {s.sock[n].sendBuffer, <<>>}
                    /\ s.sock[n].greetings \subseteq t.sock[n].greetings
                    /\ t.sock[n].emitted \in Nat /\ s.sock[n].emitted <= t.sock[n].emitted

LEMMA FewerOrder ==
  ASSUME NEW R, NEW s, Typed(R, s), NEW r \in Logs, OrderInv(s, r), NEW t, Fewer(s, t)
  PROVE  OrderInv(t, r)
<1> SUFFICES ASSUME NEW n \in Nsp
             PROVE  /\ ReceivedInv(t, r, n) /\ EnginesInv(t, r, n) /\ WaitingInv(t, n)
                    /\ BetweenInv(t, r, n) /\ EmittedInv(t, r, n)
  BY DEF OrderInv
<1> DEFINE G == Excused(s, n)  H == Excused(t, n)
<1>1. /\ ReceivedInv(s, r, n) /\ EnginesInv(s, r, n) /\ WaitingInv(s, n)
      /\ BetweenInv(s, r, n) /\ EmittedInv(s, r, n)
  BY DEF OrderInv
<1>2. /\ s.engine \in Nat /\ s.sock[n].emitted \in Nat /\ s.sock[n].greetings \subseteq Nat
      /\ s.stale \in BOOLEAN
  BY TypedSeqs DEF Engine
<1>3. G \subseteq Nat /\ G \subseteq H
  BY <1>2 DEF Fewer, Excused
<1>4. \A e \in Engine : \/ t.eng[e].up = s.eng[e].up
                        \/ t.eng[e].up = <<>> /\ Num(t.eng[e].up, n) = {}
  BY NumEmpty DEF Fewer
<1>5. \A e \in Engine : /\ Num(t.eng[e].up, n) \subseteq Num(s.eng[e].up, n)
                        /\ Through(t, r, e, n) \subseteq Through(s, r, e, n)
  BY <1>4 DEF Through
<1>6. Num(t.packetBuffer, n) \subseteq Num(s.packetBuffer, n)
  BY NumEmpty DEF Fewer
<1>7. Reading(t, n) \subseteq Reading(s, n)
  BY DEF Fewer, Reading
<1>8. Waiting(t, n) \subseteq Waiting(s, n)
  BY <1>6, <1>7 DEF Waiting
<1>9. Buffered(t, n) \subseteq Buffered(s, n)
  BY NumEmpty DEF Fewer, Buffered
<1>10. ASSUME NEW q, Sorted(G, q, n) PROVE Sorted(H, q, n) /\ Sorted(H, <<>>, n)
  BY <1>3, <1>10, NumEmpty DEF Sorted, Comes
<1> HIDE DEF G, H
<1>11. ReceivedInv(t, r, n)
  <2>1. ReceivedInv(s, r, n) /\ Excused(s, n) \subseteq Excused(t, n)
    BY <1>1, <1>3 DEF G, H
  <2> QED BY <2>1 DEF ReceivedInv, Comes
<1>12. EnginesInv(t, r, n)
  <2>1. ASSUME NEW e \in Engine
        PROVE  /\ Sorted(H, t.eng[e].up, n) /\ Ahead(H, Got(r, e, n), Num(t.eng[e].up, n))
               /\ e > t.engine => Got(r, e, n) = {} /\ t.eng[e].up = <<>>
    <3>1. /\ Sorted(G, s.eng[e].up, n) /\ Ahead(G, Got(r, e, n), Num(s.eng[e].up, n))
          /\ e > s.engine => Got(r, e, n) = {} /\ s.eng[e].up = <<>>
      BY <1>1 DEF EnginesInv, G
    <3>2. Sorted(H, t.eng[e].up, n)
      BY <1>4, <1>10, <3>1
    <3>3. Ahead(H, Got(r, e, n), Num(t.eng[e].up, n))
      BY <1>3, <1>5, <3>1 DEF Ahead, Comes
    <3>4. e > t.engine => e > s.engine
      BY <1>2 DEF Fewer, Engine
    <3> QED BY <1>4, <3>1, <3>2, <3>3, <3>4
  <2>2. ASSUME NEW e \in Engine, NEW f \in Engine, e # f
        PROVE  Ahead(Nat, Through(t, r, e, n), Through(t, r, f, n))
    <3>1. Ahead(Nat, Through(s, r, e, n), Through(s, r, f, n))
      BY <1>1, <2>2 DEF EnginesInv
    <3> QED BY <1>5, <3>1, AheadWeak
  <2> QED BY <2>1, <2>2 DEF EnginesInv, H
<1>13. WaitingInv(t, n)
  <2>1. /\ Sorted(G, s.packetBuffer, n) /\ Sorted(G, s.sock[n].sendBuffer, n)
        /\ Ahead(G, Reading(s, n), Num(s.packetBuffer, n))
        /\ Ahead(G, Waiting(s, n), Buffered(s, n))
        /\ \A x, y \in s.blobs : x.nsp = n /\ y.nsp = n /\ x.n = y.n => x = y
        /\ \A i \in DOMAIN s.sock[n].sendBuffer : s.sock[n].sendBuffer[i].nsp = n
    BY <1>1 DEF WaitingInv, G
  <2>2. Sorted(H, t.packetBuffer, n) /\ Sorted(H, t.sock[n].sendBuffer, n)
    BY <1>10, <2>1 DEF Fewer
  <2>3. Ahead(H, Reading(t, n), Num(t.packetBuffer, n))
    BY <1>3, <1>6, <1>7, <2>1 DEF Ahead, Comes
  <2>4. Ahead(H, Waiting(t, n), Buffered(t, n))
    BY <1>3, <1>8, <1>9, <2>1, AheadWeak
  <2>5. \A x, y \in t.blobs : x.nsp = n /\ y.nsp = n /\ x.n = y.n => x = y
    BY <2>1 DEF Fewer
  <2>6. \A i \in DOMAIN t.sock[n].sendBuffer : t.sock[n].sendBuffer[i].nsp = n
    BY <2>1 DEF Fewer
  <2> QED BY <2>2, <2>3, <2>4, <2>5, <2>6 DEF WaitingInv, H
<1>14. BetweenInv(t, r, n)
  <2> SUFFICES ASSUME NEW e \in Engine
               PROVE  Ahead(ExcusedFrom(t, e, n), Through(t, r, e, n),
                            Waiting(t, n) \cup Buffered(t, n))
    BY DEF BetweenInv
  <2>1. Ahead(ExcusedFrom(s, e, n), Through(s, r, e, n), Waiting(s, n) \cup Buffered(s, n))
    BY <1>1 DEF BetweenInv
  <2>2. CASE e = t.engine /\ e > s.engine
    <3>1. Got(r, e, n) = {} /\ s.eng[e].up = <<>>
      BY <1>1, <2>2 DEF EnginesInv
    <3>2. Through(t, r, e, n) = {}
      BY <1>4, <3>1, NumEmpty DEF Through
    <3> QED BY <3>2, AheadNone
  <2>3. CASE ~ (e = t.engine /\ e > s.engine)
    <3>1. ExcusedFrom(s, e, n) \subseteq ExcusedFrom(t, e, n)
      BY <1>2, <1>3, <2>3 DEF ExcusedFrom, Fewer, G, H, Engine
    <3> QED BY <1>5, <1>8, <1>9, <2>1, <3>1, AheadWeak
  <2> QED BY <2>2, <2>3
<1>15. EmittedInv(t, r, n)
  <2>1. /\ \A e \in Engine : \A k \in Through(s, r, e, n) : k <= s.sock[n].emitted
        /\ \A k \in Waiting(s, n) \cup Buffered(s, n) : k <= s.sock[n].emitted
    BY <1>1 DEF EmittedInv
  <2>2. s.sock[n].emitted <= t.sock[n].emitted /\ t.sock[n].emitted \in Nat
    BY DEF Fewer
  <2>3. \A e \in Engine : Through(s, r, e, n) \subseteq Nat
    BY TypedNat
  <2>4. Waiting(s, n) \cup Buffered(s, n) \subseteq Nat
    BY TypedNat, BoundsAssumption DEF Engine
  <2>5. \A e \in Engine : \A k \in Through(t, r, e, n) : k <= t.sock[n].emitted
    BY <1>2, <1>5, <2>1, <2>2, <2>3
  <2>6. \A k \in Waiting(t, n) \cup Buffered(t, n) : k <= t.sock[n].emitted
    BY <1>2, <1>8, <1>9, <2>1, <2>2, <2>4
  <2> QED BY <2>5, <2>6 DEF EmittedInv
<1> QED BY <1>11, <1>12, <1>13, <1>14, <1>15

\* Most of the client does no more than drop packets.
Drops(s, t) ==
  /\ t.engine \in Nat /\ s.engine <= t.engine
  /\ \A e \in Engine : t.eng[e].up \in {s.eng[e].up, <<>>}
  /\ t.blobs = s.blobs
  /\ \/ t.encoding = s.encoding /\ t.packetBuffer = s.packetBuffer /\ t.stale = s.stale
     \/ ~ t.encoding /\ t.packetBuffer = <<>> /\ t.stale = (s.stale \/ s.blobs # {})
  /\ \A n \in Nsp : /\ t.sock[n].sendBuffer = s.sock[n].sendBuffer
                    /\ t.sock[n].greetings = s.sock[n].greetings
                    /\ t.sock[n].emitted = s.sock[n].emitted
                    /\ t.sock[n].connected => s.sock[n].connected

LEMMA DropsNothing ==
  ASSUME NEW R, NEW s, Typed(R, s)
  PROVE  Drops(s, s)
BY TypedSeqs DEF Drops

LEMMA DropsTwice ==
  ASSUME NEW s, NEW t, NEW u, Drops(s, t), Drops(t, u), s.engine \in Nat
  PROVE  Drops(s, u)
<1>1. u.engine \in Nat /\ s.engine <= u.engine
  BY DEF Drops
<1>2. \A e \in Engine : u.eng[e].up \in {s.eng[e].up, <<>>}
  BY DEF Drops
<1>3. u.blobs = s.blobs
  BY DEF Drops
<1>4. \/ u.encoding = s.encoding /\ u.packetBuffer = s.packetBuffer /\ u.stale = s.stale
      \/ ~ u.encoding /\ u.packetBuffer = <<>> /\ u.stale = (s.stale \/ s.blobs # {})
  BY Zenon DEF Drops
<1>5. \A n \in Nsp : /\ u.sock[n].sendBuffer = s.sock[n].sendBuffer
                     /\ u.sock[n].greetings = s.sock[n].greetings
                     /\ u.sock[n].emitted = s.sock[n].emitted
                     /\ u.sock[n].connected => s.sock[n].connected
  BY DEF Drops
<1> QED BY <1>1, <1>2, <1>3, <1>4, <1>5 DEF Drops

\* Between two callbacks.
Queue(s, r) == OrderInv(s, r) /\ Encoder(s) /\ Flushed(s)

LEMMA DropsOrder ==
  ASSUME NEW R, NEW s, Typed(R, s), NEW r \in Logs, NEW t, Drops(s, t)
  PROVE  /\ OrderInv(s, r) => OrderInv(t, r)
         /\ Encoder(s) => Encoder(t)
         /\ Flushed(s) => Flushed(t)
<1>1. Fewer(s, t)
  <2>1. \A n \in Nsp : /\ t.sock[n].sendBuffer \in {s.sock[n].sendBuffer, <<>>}
                       /\ s.sock[n].greetings \subseteq t.sock[n].greetings
                       /\ t.sock[n].emitted \in Nat /\ s.sock[n].emitted <= t.sock[n].emitted
    BY TypedSeqs DEF Drops
  <2> QED BY <2>1 DEF Drops, Fewer
<1>2. Encoder(s) => Encoder(t)
  BY DEF Drops, Encoder
<1>3. Flushed(s) => Flushed(t)
  BY DEF Drops, Flushed
<1> QED BY <1>1, <1>2, <1>3, FewerOrder

SameQueue(s, t) ==
  /\ t.engine = s.engine /\ \A e \in Engine : t.eng[e].up = s.eng[e].up
  /\ t.blobs = s.blobs /\ t.encoding = s.encoding
  /\ t.packetBuffer = s.packetBuffer /\ t.stale = s.stale
  /\ \A n \in Nsp : /\ t.sock[n].sendBuffer = s.sock[n].sendBuffer
                    /\ t.sock[n].greetings = s.sock[n].greetings
                    /\ t.sock[n].emitted = s.sock[n].emitted
                    /\ t.sock[n].connected => s.sock[n].connected

LEMMA SameDrops ==
  ASSUME NEW s, NEW t, SameQueue(s, t), s.engine \in 0 .. MaxEngines
  PROVE  Drops(s, t)
BY DEF SameQueue, Drops

LEMMA ReconnectDrops ==
  ASSUME NEW R, NEW s, Typed(R, s)
  PROVE  Drops(s, Reconnect(s)) /\ Drops(s, MaybeReconnectOnOpen(s))
<1> DEFINE t == [[s EXCEPT !.attempts = 0] EXCEPT !.reconnecting = FALSE, !.gaveUp = TRUE]
           u == [[s EXCEPT !.attempts = @ + 1] EXCEPT !.reconnecting = TRUE, !.timer = TRUE]
<1>1. s \in ClientWith(R) /\ s.engine \in 0 .. MaxEngines
  BY TypedSeqs DEF Typed
<1>2. SameQueue(s, s) /\ SameQueue(s, t) /\ SameQueue(s, u)
  BY <1>1 DEF ClientWith, SameQueue
<1>3. Reconnect(s) \in {s, t, u}
  BY DEF Reconnect, Reset, Duration
<1> HIDE DEF t, u
<1>4. Drops(s, s) /\ Drops(s, t) /\ Drops(s, u)
  BY <1>1, <1>2, SameDrops
<1> QED BY <1>3, <1>4 DEF MaybeReconnectOnOpen

LEMMA CleanupDrops ==
  ASSUME NEW R, NEW s, Typed(R, s)
  PROVE  Drops(s, Cleanup(s))
<1> DEFINE E == [e \in Engine |-> [s.eng[e] EXCEPT !.subs = {}, !.down = <<>>]]
           t == [s EXCEPT !.eng = E, !.timer = FALSE, !.packetBuffer = <<>>,
                          !.encoding = FALSE, !.stale = @ \/ s.blobs # {}]
<1>1. s \in ClientWith(R) /\ s.engine \in Nat
  BY TypedSeqs DEF Typed
<1>2. ASSUME NEW e \in Engine PROVE E[e].up = s.eng[e].up
  BY <1>1 DEF ClientWith, EngineWith
<1>3. Cleanup(s) = t
  BY DEF Cleanup
<1> HIDE DEF E
<1>4. /\ t.engine = s.engine /\ t.eng = E /\ t.blobs = s.blobs /\ ~ t.encoding
      /\ t.packetBuffer = <<>> /\ t.stale = (s.stale \/ s.blobs # {}) /\ t.sock = s.sock
  BY <1>1 DEF ClientWith
<1> HIDE DEF t
<1> QED BY <1>1, <1>2, <1>3, <1>4 DEF Drops

LEMMA OnErrorDrops ==
  ASSUME NEW R, NEW s, Typed(R, s), NEW e \in Engine
  PROVE  Drops(s, OnError(s, e))
<1> DEFINE c == Cleanup(s)
           t == [c EXCEPT !.ready = "closed"]
           u == [t EXCEPT !.reconnecting = FALSE]
<1>1. Typed(R, c) /\ Drops(s, c)
  BY CleanupTyped, CleanupDrops
<1>2. s.engine \in Nat /\ c.engine \in 0 .. MaxEngines
  BY <1>1, TypedSeqs
<1>3. Typed(R, t) /\ SameQueue(c, t) /\ Typed(R, u) /\ SameQueue(c, u)
  <2> HIDE DEF c
  <2>1. t \in ClientWith(R) /\ u \in ClientWith(R) /\ t.sock = c.sock /\ u.sock = c.sock
    BY <1>1 DEF Typed, ClientWith
  <2>2. SameQueue(c, t) /\ SameQueue(c, u)
    BY <1>1 DEF Typed, ClientWith, SameQueue
  <2> HIDE DEF t, u
  <2> QED BY <1>1, <2>1, <2>2 DEF Typed
<1>4. OnError(s, e) \in {s, Reconnect(u), MaybeReconnectOnOpen(t)}
  BY DEF OnError
<1> HIDE DEF c, t, u
<1>5. Drops(s, t) /\ Drops(s, u)
  BY <1>1, <1>2, <1>3, SameDrops, DropsTwice
<1>6. Drops(t, MaybeReconnectOnOpen(t)) /\ Drops(u, Reconnect(u)) /\ Drops(s, s)
  BY <1>3, ReconnectDrops, DropsNothing
<1>7. Drops(s, MaybeReconnectOnOpen(t)) /\ Drops(s, Reconnect(u))
  BY <1>2, <1>5, <1>6, DropsTwice
<1> QED BY <1>4, <1>6, <1>7

LEMMA OnCloseDrops ==
  ASSUME NEW R, NEW s, Typed(R, s)
  PROVE  Drops(s, OnClose(s))
<1> DEFINE c == Cleanup(s)
           t == [[c EXCEPT !.attempts = 0] EXCEPT !.ready = "closed"]
           S == [n \in Nsp |-> IF t.sock[n].subs THEN [t.sock[n] EXCEPT !.connected = FALSE]
                               ELSE t.sock[n]]
           u == [t EXCEPT !.sock = S]
<1>1. Typed(R, c) /\ Drops(s, c)
  BY CleanupTyped, CleanupDrops
<1>2. s.engine \in Nat /\ c.engine \in 0 .. MaxEngines
  BY <1>1, TypedSeqs
<1>3. Typed(R, t) /\ SameQueue(c, t)
  <2> HIDE DEF c
  <2>1. 0 \in 0 .. MaxAttempts
    BY BoundsAssumption
  <2>2. t \in ClientWith(R) /\ t.sock = c.sock
    BY <1>1, <2>1 DEF Typed, ClientWith
  <2>3. SameQueue(c, t)
    BY <1>1 DEF Typed, ClientWith, SameQueue
  <2> HIDE DEF t
  <2> QED BY <1>1, <2>2, <2>3 DEF Typed
<1>4. OnClose(s) = Reconnect(u)
  BY DEF OnClose, AllClose, Reset
<1>5. ASSUME NEW n \in Nsp
      PROVE  /\ S[n] \in SocketWith /\ Sound(S[n], R[n])
             /\ S[n].sendBuffer = t.sock[n].sendBuffer /\ S[n].greetings = t.sock[n].greetings
             /\ S[n].emitted = t.sock[n].emitted
             /\ S[n].connected => t.sock[n].connected
  <2> HIDE DEF t
  <2>1. t.sock[n] \in SocketWith /\ Sound(t.sock[n], R[n])
    BY <1>3 DEF Typed, ClientWith
  <2> DEFINE x == [t.sock[n] EXCEPT !.connected = FALSE]
  <2>2. /\ x \in SocketWith /\ Sound(x, R[n])
        /\ x.sendBuffer = t.sock[n].sendBuffer /\ x.greetings = t.sock[n].greetings
        /\ x.emitted = t.sock[n].emitted /\ ~ x.connected
    BY <2>1 DEF SocketWith, Sound
  <2>3. S[n] = IF t.sock[n].subs THEN x ELSE t.sock[n]
    OBVIOUS
  <2> HIDE DEF x, S
  <2> QED BY <2>1, <2>2, <2>3
<1>6. S \in [Nsp -> SocketWith]
  <2>1. \A n \in Nsp : S[n] \in SocketWith
    BY <1>5
  <2> QED BY <2>1
<1>7. Typed(R, u) /\ SameQueue(t, u)
  <2> HIDE DEF t, S
  <2>1. /\ u \in ClientWith(R) /\ u.sock = S /\ u.engine = t.engine /\ u.eng = t.eng
        /\ u.blobs = t.blobs /\ u.encoding = t.encoding /\ u.packetBuffer = t.packetBuffer
        /\ u.stale = t.stale
    BY <1>3, <1>6 DEF Typed, ClientWith
  <2> HIDE DEF u
  <2> QED BY <1>5, <2>1 DEF Typed, SameQueue
<1> HIDE DEF c, t, u
<1>8. Drops(s, u) /\ Drops(u, Reconnect(u))
  <2>1. Drops(c, t) /\ Drops(t, u) /\ t.engine \in Nat
    BY <1>1, <1>2, <1>3, <1>7, SameDrops, TypedSeqs
  <2>2. Drops(s, t)
    BY <1>1, <1>2, <2>1, DropsTwice
  <2> QED BY <1>2, <1>7, <2>1, <2>2, DropsTwice, ReconnectDrops
<1> QED BY <1>2, <1>4, <1>8, DropsTwice

LEMMA ClosedDrops ==
  ASSUME NEW R, NEW s, Typed(R, s), NEW e \in Engine
  PROVE  Drops(s, EngineClosed(s, e))
<1> DEFINE x == [[s.eng[e] EXCEPT !.state = "closed"] EXCEPT !.down = <<>>]
           t == [s EXCEPT !.eng = [@ EXCEPT ![e] = x]]
<1>1. s.eng[e] \in EngineWith(R) /\ s.eng \in [Engine -> EngineWith(R)] /\ <<>> \in Seq(Downward(R))
  BY DEF Typed, ClientWith
<1>2. x \in EngineWith(R) /\ x.up = s.eng[e].up
  BY <1>1 DEF EngineWith
<1>3. t = [s EXCEPT !.eng[e].state = "closed", !.eng[e].down = <<>>]
  BY <1>1 DEF Typed, ClientWith
<1>4. EngineClosed(s, e) = IF "live" \in s.eng[e].subs THEN OnClose(t) ELSE t
  <2> HIDE DEF t
  <2> QED BY <1>3 DEF EngineClosed
<1>5. Typed(R, t) /\ SameQueue(s, t)
  <2> HIDE DEF x
  <2>1. Typed(R, t)
    BY <1>2, EngTyped
  <2>2. SameQueue(s, t)
    BY <1>1, <1>2 DEF SameQueue, Typed, ClientWith
  <2> QED BY <2>1, <2>2
<1>6. s.engine \in 0 .. MaxEngines
  BY TypedSeqs
<1> HIDE DEF t
<1>7. Drops(s, t) /\ Drops(t, OnClose(t))
  BY <1>5, <1>6, SameDrops, OnCloseDrops
<1>8. Drops(s, OnClose(t))
  BY <1>6, <1>7, DropsTwice
<1> QED BY <1>4, <1>7, <1>8

LEMMA CloseEngineDrops ==
  ASSUME NEW R, NEW s, Typed(R, s), NEW busy \in BOOLEAN
  PROVE  Drops(s, CloseEngine(s, busy))
<1> DEFINE e == s.engine
           waits == IF s.eng[e].state = "opening" THEN "unopened" ELSE "closing"
           x == [s.eng[e] EXCEPT !.state = waits]
           t == [s EXCEPT !.eng = [@ EXCEPT ![e] = x]]
<1>1. CASE e = 0 \/ s.eng[e].state \notin {"opening", "open", "reopened"}
  BY <1>1, DropsNothing DEF CloseEngine
<1>2. CASE ~ (e = 0 \/ s.eng[e].state \notin {"opening", "open", "reopened"})
  <2>1. e \in Engine /\ s.eng[e] \in EngineWith(R) /\ s.eng \in [Engine -> EngineWith(R)]
    BY <1>2, BoundsAssumption DEF Typed, ClientWith, Engine
  <2>2. CloseEngine(s, busy) = t \/ CloseEngine(s, busy) = EngineClosed(s, e)
    BY <1>2 DEF CloseEngine
  <2>3. x \in EngineWith(R) /\ x.up = s.eng[e].up
    BY <2>1 DEF EngineWith
  <2>4. SameQueue(s, t)
    <3> HIDE DEF x
    <3> QED BY <2>1, <2>3 DEF SameQueue, Typed, ClientWith
  <2>5. e \in 0 .. MaxEngines
    BY TypedSeqs
  <2>6. Drops(s, t)
    <3> HIDE DEF t
    <3> QED BY <2>4, <2>5, SameDrops
  <2> HIDE DEF t
  <2> QED BY <2>1, <2>2, <2>6, ClosedDrops
<1> QED BY <1>1, <1>2

LEMMA CloseManagerDrops ==
  ASSUME NEW R, NEW s, Typed(R, s), NEW busy \in BOOLEAN
  PROVE  Drops(s, CloseManager(s, busy))
<1> DEFINE t == [s EXCEPT !.skipReconnect = TRUE, !.reconnecting = FALSE]
           u == IF s.ready = "opening" THEN Cleanup(t) ELSE t
           v == [[u EXCEPT !.attempts = 0] EXCEPT !.ready = "closed"]
<1>1. Typed(R, t) /\ SameQueue(s, t)
  <2>1. t \in ClientWith(R) /\ t.sock = s.sock
    BY DEF Typed, ClientWith
  <2>2. SameQueue(s, t)
    BY DEF Typed, ClientWith, SameQueue
  <2> HIDE DEF t
  <2> QED BY <2>1, <2>2 DEF Typed
<1>2. s.engine \in 0 .. MaxEngines
  BY TypedSeqs
<1>3. Typed(R, u) /\ Drops(s, u)
  <2> HIDE DEF t
  <2>1. Drops(s, t)
    BY <1>1, <1>2, SameDrops
  <2>2. Typed(R, Cleanup(t)) /\ Drops(t, Cleanup(t))
    BY <1>1, CleanupTyped, CleanupDrops
  <2>3. Drops(s, Cleanup(t))
    BY <1>2, <2>1, <2>2, DropsTwice
  <2> QED BY <1>1, <2>1, <2>2, <2>3
<1>4. Typed(R, v) /\ SameQueue(u, v)
  <2>1. 0 \in 0 .. MaxAttempts
    BY BoundsAssumption
  <2> HIDE DEF u
  <2>2. v \in ClientWith(R) /\ v.sock = u.sock
    BY <1>3, <2>1 DEF Typed, ClientWith
  <2>3. SameQueue(u, v)
    BY <1>3 DEF Typed, ClientWith, SameQueue
  <2> HIDE DEF v
  <2> QED BY <1>3, <2>2, <2>3 DEF Typed
<1>5. CloseManager(s, busy) = CloseEngine(v, busy)
  BY DEF CloseManager, Reset
<1> HIDE DEF t, u, v
<1>6. u.engine \in 0 .. MaxEngines /\ Drops(u, v)
  BY <1>3, <1>4, TypedSeqs, SameDrops
<1>7. Drops(s, v) /\ Drops(v, CloseEngine(v, busy))
  BY <1>2, <1>3, <1>4, <1>6, DropsTwice, CloseEngineDrops
<1> QED BY <1>2, <1>5, <1>7, DropsTwice

\* A change of a Socket other than by sending.
LEMMA SockDrops ==
  ASSUME NEW R, NEW s, Typed(R, s), NEW n \in Nsp, NEW x,
         x.sendBuffer = s.sock[n].sendBuffer, x.greetings = s.sock[n].greetings,
         x.emitted = s.sock[n].emitted, x.connected => s.sock[n].connected
  PROVE  Drops(s, [s EXCEPT !.sock = [@ EXCEPT ![n] = x]])
<1> DEFINE t == [s EXCEPT !.sock = [s.sock EXCEPT ![n] = x]]
<1>1. s \in ClientWith(R) /\ s.sock \in [Nsp -> SocketWith] /\ s.engine \in 0 .. MaxEngines
  BY TypedSeqs DEF Typed, ClientWith
<1>2. /\ t.engine = s.engine /\ t.eng = s.eng /\ t.blobs = s.blobs /\ t.encoding = s.encoding
      /\ t.packetBuffer = s.packetBuffer /\ t.stale = s.stale
      /\ t.sock = [s.sock EXCEPT ![n] = x]
  BY <1>1 DEF ClientWith
<1> HIDE DEF t
<1>3. \A k \in Nsp : t.sock[k] = IF k = n THEN x ELSE s.sock[k]
  BY <1>1, <1>2
<1>4. SameQueue(s, t)
  BY <1>2, <1>3 DEF SameQueue
<1>5. Drops(s, t)
  BY <1>1, <1>4, SameDrops
<1> QED BY <1>5 DEF t

LEMMA DisconnectedDrops ==
  ASSUME NEW R, NEW s, Typed(R, s), NEW n \in Nsp
  PROVE  Drops(s, Disconnected(s, n))
<1> DEFINE x == [s.sock[n] EXCEPT !.connected = FALSE]
<1>1. s.sock[n] \in SocketWith
  BY DEF Typed, ClientWith
<1>2. /\ x.sendBuffer = s.sock[n].sendBuffer /\ x.greetings = s.sock[n].greetings
      /\ x.emitted = s.sock[n].emitted /\ ~ x.connected
  BY <1>1 DEF SocketWith
<1>3. Disconnected(s, n) = [s EXCEPT !.sock = [@ EXCEPT ![n] = x]]
  BY DEF Disconnected
<1> HIDE DEF x
<1>4. Drops(s, [s EXCEPT !.sock = [@ EXCEPT ![n] = x]])
  BY <1>2, SockDrops
<1> QED BY <1>3, <1>4

LEMMA DestroyDrops ==
  ASSUME NEW R, NEW s, Typed(R, s), NEW n \in Nsp, NEW busy \in BOOLEAN
  PROVE  Drops(s, Disconnected(SocketDestroy(s, n, busy), n))
<1> DEFINE x == [s.sock[n] EXCEPT !.subs = FALSE]
           a == [s EXCEPT !.sock = [@ EXCEPT ![n] = x]]
           b == [a EXCEPT !.connecting = @ \ {n}]
           c == IF b.connecting = {} THEN CloseManager(b, busy) ELSE b
<1>1. s.sock[n] \in SocketWith /\ Sound(s.sock[n], R[n]) /\ s.engine \in 0 .. MaxEngines
  BY TypedSeqs DEF Typed, ClientWith
<1>2. /\ x \in SocketWith /\ Sound(x, R[n])
      /\ x.sendBuffer = s.sock[n].sendBuffer /\ x.greetings = s.sock[n].greetings
      /\ x.emitted = s.sock[n].emitted /\ x.connected = s.sock[n].connected
  BY <1>1 DEF SocketWith, Sound
<1>3. Typed(R, a) /\ Drops(s, a)
  <2> HIDE DEF x
  <2>1. Drops(s, [s EXCEPT !.sock = [@ EXCEPT ![n] = x]])
    BY <1>2, SockDrops
  <2> QED BY <1>2, <2>1, SockTyped
<1>4. Typed(R, b) /\ SameQueue(a, b)
  <2> HIDE DEF a
  <2>1. b \in ClientWith(R) /\ b.sock = a.sock
    BY <1>3 DEF Typed, ClientWith
  <2>2. SameQueue(a, b)
    BY <1>3 DEF Typed, ClientWith, SameQueue
  <2> HIDE DEF b
  <2> QED BY <1>3, <2>1, <2>2 DEF Typed
<1>5. Disconnected(SocketDestroy(s, n, busy), n) = Disconnected(c, n)
  BY Zenon DEF SocketDestroy, Destroy
<1> HIDE DEF a, b
<1>6. a.engine \in 0 .. MaxEngines /\ b.engine \in 0 .. MaxEngines
  BY <1>3, <1>4, TypedSeqs
<1>7. Drops(s, b) /\ Typed(R, CloseManager(b, busy)) /\ Drops(b, CloseManager(b, busy))
  BY <1>1, <1>3, <1>4, <1>6, SameDrops, DropsTwice, CloseManagerSteady, CloseManagerDrops
<1>8. Typed(R, c) /\ Drops(s, c)
  BY <1>1, <1>4, <1>7, DropsTwice
<1> HIDE DEF c
<1>9. Drops(c, Disconnected(c, n))
  BY <1>8, DisconnectedDrops
<1> QED BY <1>1, <1>5, <1>8, <1>9, DropsTwice

LEMMA OpenDrops ==
  ASSUME NEW R, NEW s, Typed(R, s), NEW fn \in BOOLEAN,
         s.ready = "closed" => s.engine < MaxEngines
  PROVE  Drops(s, OpenEngine(s, fn))
<1> DEFINE e == s.engine + 1
           x == [s.eng[e] EXCEPT !.state = "opening", !.fn = fn,
                                 !.subs = {"open", "error", "timer"}]
           t == [s EXCEPT !.engine = e, !.ready = "opening", !.skipReconnect = FALSE,
                          !.eng = [s.eng EXCEPT ![e] = x]]
<1>1. /\ s \in ClientWith(R) /\ s.engine \in 0 .. MaxEngines
      /\ s.eng \in [Engine -> EngineWith(R)] /\ s.ready \in {"closed", "opening", "open"}
  BY TypedSeqs DEF Typed, ClientWith
<1>2. CASE s.ready = "closed"
  <2>1. e \in Engine /\ s.eng[e] \in EngineWith(R)
    BY <1>1, <1>2, BoundsAssumption DEF Engine
  <2>2. x.up = s.eng[e].up
    BY <2>1 DEF EngineWith
  <2>3. OpenEngine(s, fn) = t
    BY <1>2 DEF OpenEngine
  <2> HIDE DEF x
  <2>4. /\ t.engine = e /\ t.blobs = s.blobs /\ t.encoding = s.encoding
        /\ t.packetBuffer = s.packetBuffer /\ t.stale = s.stale /\ t.sock = s.sock
        /\ t.eng = [s.eng EXCEPT ![e] = x]
    BY <1>1 DEF ClientWith
  <2>5. e \in Nat /\ s.engine <= e
    BY <1>1
  <2> HIDE DEF t, e
  <2>6. \A f \in Engine : t.eng[f].up = s.eng[f].up
    BY <1>1, <2>1, <2>2, <2>4
  <2>7. Drops(s, t)
    BY <2>4, <2>5, <2>6 DEF Drops
  <2> QED BY <2>3, <2>7
<1>3. CASE s.ready # "closed"
  BY <1>1, <1>3, DropsNothing DEF OpenEngine
<1> QED BY <1>2, <1>3

LEMMA AckDrops ==
  ASSUME NEW R, NEW s, Typed(R, s), NEW p \in Packet
  PROVE  Drops(s, OnAck(s, p)) /\ Drops(s, OnEvent(s, p))
<1> DEFINE n == p.nsp
           owed == {a \in s.sock[n].acks : a[1] = p.id}
           a == CHOOSE b \in owed : TRUE
           x == [s.sock[n] EXCEPT !.acks = @ \ {a}, !.acked = Append(@, a[2])]
           y == [s.sock[n] EXCEPT !.receiveBuffer = Append(@, p)]
<1>1. n \in Nsp /\ s.sock[n] \in SocketWith
  BY DEF Packet, Typed, ClientWith
<1>2. /\ OnAck(s, p) \in {s, [s EXCEPT !.sock = [@ EXCEPT ![n] = x]]}
      /\ OnEvent(s, p) \in {s, [s EXCEPT !.sock = [@ EXCEPT ![n] = y]]}
  <2>1. OnAck(s, p) \in {s, [s EXCEPT !.sock = [@ EXCEPT ![n] = x]]}
    BY DEF OnAck
  <2>2. OnEvent(s, p) \in {s, [s EXCEPT !.sock = [@ EXCEPT ![n] = y]]}
    BY DEF OnEvent
  <2> QED BY <2>1, <2>2
<1> HIDE DEF a, n
<1>3. /\ x.sendBuffer = s.sock[n].sendBuffer /\ x.greetings = s.sock[n].greetings
      /\ x.emitted = s.sock[n].emitted /\ x.connected = s.sock[n].connected
      /\ y.sendBuffer = s.sock[n].sendBuffer /\ y.greetings = s.sock[n].greetings
      /\ y.emitted = s.sock[n].emitted /\ y.connected = s.sock[n].connected
  BY <1>1 DEF SocketWith
<1> HIDE DEF x, y
<1>4. /\ Drops(s, [s EXCEPT !.sock = [@ EXCEPT ![n] = x]])
      /\ Drops(s, [s EXCEPT !.sock = [@ EXCEPT ![n] = y]])
  BY <1>1, <1>3, SockDrops
<1> QED BY <1>2, <1>4, DropsNothing

-----------------------------------------------------------------------------
(* Emitting.                                                                *)

\* From s to t only the Socket of n changes, to x.
SockSet(s, t, n, x) ==
  /\ t.engine = s.engine /\ t.eng = s.eng /\ t.blobs = s.blobs /\ t.encoding = s.encoding
  /\ t.packetBuffer = s.packetBuffer /\ t.stale = s.stale
  /\ \A k \in Nsp : t.sock[k] = IF k = n THEN x ELSE s.sock[k]

LEMMA SockSets ==
  ASSUME NEW R, NEW s, Typed(R, s), NEW n \in Nsp, NEW x
  PROVE  SockSet(s, [s EXCEPT !.sock = [@ EXCEPT ![n] = x]], n, x)
<1> DEFINE t == [s EXCEPT !.sock = [s.sock EXCEPT ![n] = x]]
<1>1. s \in ClientWith(R) /\ s.sock \in [Nsp -> SocketWith]
  BY DEF Typed, ClientWith
<1>2. /\ t.engine = s.engine /\ t.eng = s.eng /\ t.blobs = s.blobs /\ t.encoding = s.encoding
      /\ t.packetBuffer = s.packetBuffer /\ t.stale = s.stale
      /\ t.sock = [s.sock EXCEPT ![n] = x]
  BY <1>1 DEF ClientWith
<1> HIDE DEF t
<1>3. \A k \in Nsp : t.sock[k] = IF k = n THEN x ELSE s.sock[k]
  BY <1>1, <1>2
<1>4. SockSet(s, t, n, x)
  BY <1>2, <1>3 DEF SockSet
<1> QED BY <1>4 DEF t

LEMMA SockFewer ==
  ASSUME NEW R, NEW s, Typed(R, s), NEW r \in Logs, OrderInv(s, r), NEW n \in Nsp, NEW x,
         NEW t, SockSet(s, t, n, x),
         x.sendBuffer \in {s.sock[n].sendBuffer, <<>>},
         s.sock[n].greetings \subseteq x.greetings,
         x.emitted \in Nat, s.sock[n].emitted <= x.emitted
  PROVE  OrderInv(t, r)
<1>1. /\ s.engine \in Nat
      /\ \A k \in Nsp : s.sock[k].emitted \in Nat
  BY TypedSeqs
<1>2. Fewer(s, t)
  BY <1>1 DEF Fewer, SockSet
<1> QED BY <1>2, FewerOrder

\* What is in order, but the Socket of n, is the same.
LEMMA SockSame ==
  ASSUME NEW s, NEW t, NEW n \in Nsp, NEW x, SockSet(s, t, n, x), NEW r, NEW k \in Nsp
  PROVE  /\ \A e \in Engine : Through(t, r, e, k) = Through(s, r, e, k)
         /\ Waiting(t, k) = Waiting(s, k)
         /\ Encoder(s) => Encoder(t)
<1>1. \A e \in Engine : Through(t, r, e, k) = Through(s, r, e, k)
  BY DEF SockSet, Through
<1>2. Waiting(t, k) = Waiting(s, k)
  BY DEF SockSet, Waiting, Reading
<1>3. Encoder(s) => Encoder(t)
  BY DEF SockSet, Encoder
<1> QED BY <1>1, <1>2, <1>3

LEMMA NothingFits ==
  ASSUME NEW s, NEW r, NEW n
  PROVE  Fits(s, r, n, {})
BY DEF Fits, Ahead

LEMMA SendOrder ==
  ASSUME NEW R, NEW s, Typed(R, s), NEW r \in Logs, OrderInv(s, r), Encoder(s),
         NEW p \in Upward, Sendable(s, r, <<p>>)
  PROVE  LET t == SendPacket(s, p) IN
         /\ OrderInv(t, r) /\ Encoder(t)
         /\ t.sock = s.sock /\ t.engine = s.engine /\ t.stale = s.stale
<1> DEFINE ps == <<p>>
<1>1. /\ s.stale \in BOOLEAN /\ s.packetBuffer \in Seq(Upward) /\ <<>> \in Seq(Upward)
      /\ s.encoding \in BOOLEAN /\ ps \in Seq(Upward)
  BY TypedSeqs
<1>2. CASE s.encoding \/ p.type # "blob"
  <2>1. Append(s.packetBuffer, p) = s.packetBuffer \o ps
    BY <1>1
  <2>2. {k \in DOMAIN ps : ps[k].type = "blob"} = IF p.type = "blob" THEN {1} ELSE {}
    OBVIOUS
  <2> HIDE DEF ps
  <2>3. SendPacket(s, p) = SendAll(ps, s)
    <3>1. CASE s.encoding
      BY <2>1, <3>1 DEF SendPacket, SendAll
    <3>2. CASE ~ s.encoding
      <4>1. SendPacket(s, p) = WriteAll(s, ps)
        BY <1>2, <3>2 DEF SendPacket, Write, ps
      <4>2. SendAll(ps, s) = WriteAll(s, ps)
        BY <1>2, <2>2, <3>2 DEF SendAll
      <4> QED BY <4>1, <4>2
    <3> QED BY <3>1, <3>2
  <2>4. Sendable(s, r, ps)
    BY DEF ps
  <2> QED BY <1>1, <2>3, <2>4, SendAllOrder
<1>3. CASE ~ s.encoding /\ p.type = "blob"
  <2> DEFINE t == [s EXCEPT !.encoding = TRUE, !.blobs = @ \cup {p}]
  <2>1. SendPacket(s, p) = t
    BY <1>3 DEF SendPacket
  <2>2. /\ t.engine = s.engine /\ t.stale = s.stale /\ t.sock = s.sock /\ t.eng = s.eng
        /\ t.blobs = s.blobs \cup {p} /\ t.packetBuffer = s.packetBuffer /\ t.encoding
    BY DEF Typed, ClientWith
  <2> HIDE DEF t
  <2>3. Takes(s, t, <<>>, {p}, <<>>)
    BY <1>1, <2>2 DEF Takes
  <2>4. ASSUME NEW n \in Nsp
        PROVE  LET G == Excused(s, n)  A == Num(<<>>, n)  B == Numbers({p}, n)  C == Num(<<>>, n) IN
               /\ Fits(s, r, n, A \cup B \cup C)
               /\ Sorted(G, <<>>, n) /\ Sorted(G, <<>>, n)
               /\ Ahead(G, A, B) /\ Ahead(G, A, C) /\ Ahead(G, B, C)
               /\ Ahead(G, A, Waiting(s, n)) /\ Ahead(G, B, Num(s.packetBuffer, n))
    <3>1. Num(<<>>, n) = {} /\ Sorted(Excused(s, n), <<>>, n)
      BY NumEmpty
    <3>2. Numbers({p}, n) = Num(ps, n)
      BY <1>3, NumOne, NumbersOne
    <3>3. Fits(s, r, n, Num(ps, n))
      BY DEF Sendable
    <3>4. Num(s.packetBuffer, n) = {}
      BY <1>1, <1>3, <3>3, NothingWaits
    <3> HIDE DEF ps
    <3> QED BY <3>1, <3>2, <3>3, <3>4, AheadNone
  <2>5. OrderInv(t, r)
    <3>1. {p} \in SUBSET Upward /\ \A x, y \in {p} : x = y
      OBVIOUS
    <3> QED BY <1>1, <2>3, <2>4, <3>1, SentOrder
  <2>6. Encoder(t)
    BY <1>3, <2>2 DEF Encoder
  <2> QED BY <2>1, <2>2, <2>5, <2>6
<1> QED BY <1>1, <1>2, <1>3

\* A packet that is no event.
LEMMA ControlOrder ==
  ASSUME NEW R, NEW s, Typed(R, s), NEW r \in Logs, OrderInv(s, r), Encoder(s),
         NEW n \in Nsp, NEW type \in {"connect", "disconnect"}
  PROVE  LET t == SendPacket(s, Control(type, n)) IN
         /\ Typed(R, t) /\ OrderInv(t, r) /\ Encoder(t) /\ t.sock = s.sock
<1> DEFINE p == Control(type, n)
<1>1. p \in Upward /\ p.type \notin {"event", "blob"}
  BY DEF Control, Upward, Packet
<1> HIDE DEF p
<1>2. ASSUME NEW k \in Nsp PROVE Fits(s, r, k, Num(<<p>>, k)) /\ Sorted(Excused(s, k), <<p>>, k)
  <2>1. Num(<<p>>, k) = {} /\ Sorted(Excused(s, k), <<p>>, k)
    BY <1>1, NumOne
  <2> QED BY <2>1, NothingFits
<1>3. Sendable(s, r, <<p>>)
  BY <1>2 DEF Sendable
<1>4. Typed(R, SendPacket(s, p))
  BY <1>1, SendTyped
<1>5. LET t == SendPacket(s, p) IN OrderInv(t, r) /\ Encoder(t) /\ t.sock = s.sock
  BY <1>1, <1>3, SendOrder
<1> QED BY <1>4, <1>5 DEF p

\* The next number comes after all others.
LEMMA NextFits ==
  ASSUME NEW R, NEW s, Typed(R, s), NEW r \in Logs, OrderInv(s, r), NEW n \in Nsp, NEW x,
         NEW t, SockSet(s, t, n, x), NEW k, k = s.sock[n].emitted + 1, x.emitted = k,
         x.sendBuffer = s.sock[n].sendBuffer
  PROVE  /\ k \in Nat
         /\ \A e \in Engine : Ahead(ExcusedFrom(t, e, n), Through(t, r, e, n), {k})
         /\ Ahead(Excused(t, n), Waiting(t, n), {k})
         /\ Ahead(Excused(t, n), Buffered(t, n), {k})
         /\ k \in x.greetings => Ahead(Excused(t, n), {k}, Buffered(t, n))
         /\ \A j \in {k} : j <= t.sock[n].emitted
<1>1. s.sock[n].emitted \in Nat /\ k \in Nat
  BY TypedSeqs
<1>2. /\ \A e \in Engine : \A j \in Through(s, r, e, n) : j <= s.sock[n].emitted
      /\ \A j \in Waiting(s, n) \cup Buffered(s, n) : j <= s.sock[n].emitted
  BY DEF OrderInv, EmittedInv
<1>3. /\ \A e \in Engine : Through(s, r, e, n) \subseteq Nat
      /\ Waiting(s, n) \cup Buffered(s, n) \subseteq Nat
  BY TypedNat, BoundsAssumption DEF Engine
<1>4. /\ \A e \in Engine : Through(t, r, e, n) = Through(s, r, e, n)
      /\ Waiting(t, n) = Waiting(s, n)
  <2>1. \A e \in Engine : Through(t, r, e, n) = Through(s, r, e, n)
    BY DEF SockSet, Through
  <2>2. Waiting(t, n) = Waiting(s, n)
    BY DEF SockSet, Waiting, Reading
  <2> QED BY <2>1, <2>2
<1>5. t.sock[n] = x
  BY DEF SockSet
<1>6. Buffered(t, n) = Buffered(s, n)
  BY <1>5 DEF Buffered
<1>7. \A j \in Nat : j <= s.sock[n].emitted => j # k /\ j < k
  BY <1>1
<1>8. \A e \in Engine : Ahead(ExcusedFrom(t, e, n), Through(t, r, e, n), {k})
  BY <1>2, <1>3, <1>4, <1>7 DEF Ahead, Comes
<1>9. Ahead(Excused(t, n), Waiting(t, n), {k}) /\ Ahead(Excused(t, n), Buffered(t, n), {k})
  BY <1>2, <1>3, <1>4, <1>6, <1>7 DEF Ahead, Comes
<1>10. k \in x.greetings => Ahead(Excused(t, n), {k}, Buffered(t, n))
  <2>1. k \in x.greetings => k \in Excused(t, n)
    BY <1>1, <1>5 DEF Excused
  <2> QED BY <1>2, <1>3, <1>6, <1>7, <2>1 DEF Ahead, Comes
<1>11. \A j \in {k} : j <= t.sock[n].emitted
  BY <1>1, <1>5
<1> QED BY <1>1, <1>8, <1>9, <1>10, <1>11

\* An event is kept in sendBuffer.
LEMMA KeepOrder ==
  ASSUME NEW R, NEW s, Typed(R, s), NEW r \in Logs, OrderInv(s, r), NEW n \in Nsp, NEW x,
         NEW t, SockSet(s, t, n, x), NEW p \in Upward, p.nsp = n, p.type \in {"event", "blob"},
         x.sendBuffer = Append(s.sock[n].sendBuffer, p),
         x.emitted = s.sock[n].emitted, x.greetings = s.sock[n].greetings,
         \A e \in Engine : Ahead(ExcusedFrom(s, e, n), Through(s, r, e, n), {p.n}),
         Ahead(Excused(s, n), Waiting(s, n), {p.n}),
         Ahead(Excused(s, n), Buffered(s, n), {p.n}),
         p.n <= s.sock[n].emitted
  PROVE  OrderInv(t, r)
<1> SUFFICES ASSUME NEW k \in Nsp
             PROVE  /\ ReceivedInv(t, r, k) /\ EnginesInv(t, r, k) /\ WaitingInv(t, k)
                    /\ BetweenInv(t, r, k) /\ EmittedInv(t, r, k)
  BY DEF OrderInv
<1>1. /\ ReceivedInv(s, r, k) /\ EnginesInv(s, r, k) /\ WaitingInv(s, k)
      /\ BetweenInv(s, r, k) /\ EmittedInv(s, r, k)
  BY DEF OrderInv
<1>2. /\ \A e \in Engine : Through(t, r, e, k) = Through(s, r, e, k)
      /\ Waiting(t, k) = Waiting(s, k) /\ Reading(t, k) = Reading(s, k)
  <2>1. \A e \in Engine : Through(t, r, e, k) = Through(s, r, e, k)
    BY DEF SockSet, Through
  <2>2. Waiting(t, k) = Waiting(s, k) /\ Reading(t, k) = Reading(s, k)
    BY DEF SockSet, Waiting, Reading
  <2> QED BY <2>1, <2>2
<1>3. /\ t.engine = s.engine /\ t.eng = s.eng /\ t.blobs = s.blobs
      /\ t.packetBuffer = s.packetBuffer /\ t.stale = s.stale
      /\ t.sock[k].emitted = s.sock[k].emitted /\ t.sock[k].greetings = s.sock[k].greetings
  BY DEF SockSet
<1>4. /\ Excused(t, k) = Excused(s, k)
      /\ \A e \in Engine : ExcusedFrom(t, e, k) = ExcusedFrom(s, e, k)
  BY <1>3 DEF Excused, ExcusedFrom
<1>5. ReceivedInv(t, r, k) /\ EnginesInv(t, r, k)
  BY <1>1, <1>2, <1>3, <1>4 DEF ReceivedInv, EnginesInv
<1>6. CASE k # n
  <2>1. t.sock[k].sendBuffer = s.sock[k].sendBuffer
    BY <1>6 DEF SockSet
  <2>2. Buffered(t, k) = Buffered(s, k)
    BY <2>1 DEF Buffered
  <2>3. WaitingInv(t, k)
    BY <1>1, <1>2, <1>3, <1>4, <2>1, <2>2 DEF WaitingInv
  <2>4. BetweenInv(t, r, k) /\ EmittedInv(t, r, k)
    BY <1>1, <1>2, <1>3, <1>4, <2>2 DEF BetweenInv, EmittedInv
  <2> QED BY <1>5, <2>3, <2>4
<1>7. CASE k = n
  <2> DEFINE q == s.sock[n].sendBuffer
  <2>1. q \in Seq(Upward) /\ <<p>> \in Seq(Upward)
    BY TypedSeqs
  <2>2. Append(q, p) = q \o <<p>>
    <3> HIDE DEF q
    <3> QED BY <2>1
  <2>3. t.sock[n].sendBuffer = q \o <<p>>
    BY <2>2 DEF SockSet
  <2>4. Num(<<p>>, n) = {p.n} /\ Sorted(Excused(s, n), <<p>>, n)
    BY NumOne
  <2>5. Buffered(t, n) = Buffered(s, n) \cup {p.n}
    <3>1. Num(q \o <<p>>, n) = Num(q, n) \cup Num(<<p>>, n)
      <4> HIDE DEF q
      <4> QED BY <2>1, NumConcat
    <3> QED BY <2>3, <2>4, <3>1 DEF Buffered
  <2>6. WaitingInv(t, n)
    <3>1. /\ Sorted(Excused(s, n), s.packetBuffer, n) /\ Sorted(Excused(s, n), q, n)
          /\ Ahead(Excused(s, n), Reading(s, n), Num(s.packetBuffer, n))
          /\ Ahead(Excused(s, n), Waiting(s, n), Buffered(s, n))
          /\ \A y, z \in s.blobs : y.nsp = n /\ z.nsp = n /\ y.n = z.n => y = z
          /\ \A i \in DOMAIN q : q[i].nsp = n
      BY <1>1, <1>7 DEF WaitingInv
    <3>2. Sorted(Excused(s, n), q \o <<p>>, n)
      BY <2>1, <2>4, <3>1, SortedConcat DEF Buffered
    <3>3. Ahead(Excused(s, n), Waiting(s, n), Buffered(t, n))
      BY <2>5, <3>1 DEF Ahead
    <3>4. \A i \in DOMAIN Append(q, p) : Append(q, p)[i].nsp = n
      <4> HIDE DEF q
      <4> QED BY <2>1, <3>1
    <3>5. Waiting(t, n) = Waiting(s, n) /\ Reading(t, n) = Reading(s, n)
          /\ Excused(t, n) = Excused(s, n)
      BY <1>2, <1>4, <1>7
    <3> HIDE DEF q
    <3>6. t.sock[n].sendBuffer = q \o <<p>> /\ t.sock[n].sendBuffer = Append(q, p)
      BY <2>2, <2>3
    <3>7. \A i \in DOMAIN t.sock[n].sendBuffer : t.sock[n].sendBuffer[i].nsp = n
      BY <3>4, <3>6
    <3> QED BY <1>3, <3>1, <3>2, <3>3, <3>5, <3>6, <3>7 DEF WaitingInv
  <2>7. BetweenInv(t, r, n)
    <3>1. \A e \in Engine : Ahead(ExcusedFrom(s, e, n), Through(s, r, e, n),
                                  Waiting(s, n) \cup Buffered(s, n))
      BY <1>1, <1>7 DEF BetweenInv
    <3>2. \A e \in Engine : Ahead(ExcusedFrom(s, e, n), Through(s, r, e, n),
                                  Waiting(s, n) \cup Buffered(t, n))
      BY <2>5, <3>1 DEF Ahead
    <3> QED BY <1>2, <1>4, <1>7, <3>2 DEF BetweenInv
  <2>8. EmittedInv(t, r, n)
    BY <1>1, <1>2, <1>3, <1>7, <2>5 DEF EmittedInv
  <2> QED BY <1>5, <1>7, <2>6, <2>7, <2>8
<1> QED BY <1>6, <1>7

LEMMA MoreEmitted ==
  ASSUME NEW x \in SocketWith, NEW P, Sound(x, P), x.emitted + 1 <= MaxEvents
  PROVE  LET y == [x EXCEPT !.emitted = x.emitted + 1, !.ids = x.ids + 1,
                            !.acks = @ \cup {<<x.ids, x.emitted + 1>>}] IN
         y \in SocketWith /\ Sound(y, P)
<1> DEFINE k == x.emitted + 1
           id == x.ids
           y == [x EXCEPT !.emitted = k, !.ids = id + 1, !.acks = @ \cup {<<id, k>>}]
<1>1. id \in Nat /\ k = id + 1 /\ k \in Nat /\ id + 1 \in Nat /\ x.emitted \in Nat
  BY DEF SocketWith, Sound
<1>2. y \in SocketWith
  <2>1. x.acks \cup {<<id, k>>} \in SUBSET (Nat \X Nat)
    BY <1>1 DEF SocketWith
  <2> HIDE DEF id, k
  <2> QED BY <1>1, <2>1 DEF SocketWith
<1>3. /\ y.emitted = k /\ y.ids = k /\ y.acks = x.acks \cup {<<id, k>>}
      /\ y.acked = x.acked
  BY <1>1 DEF SocketWith
<1>4. Sound(y, P)
  <2>1. k <= MaxEvents /\ x.emitted < k
    BY <1>1
  <2>2. \A a \in y.acks : a[2] = a[1] + 1 /\ a[2] <= k
    <3> HIDE DEF y
    <3>1. ASSUME NEW a \in x.acks PROVE a[2] = a[1] + 1 /\ a[2] <= k
      <4>1. a[1] \in Nat /\ a[2] \in Nat /\ a[2] = a[1] + 1 /\ a[2] <= x.emitted
        BY DEF SocketWith, Sound
      <4> QED BY <1>1, <2>1, <4>1
    <3> HIDE DEF id, k
    <3> QED BY <1>1, <1>3, <3>1
  <2>3. ASSUME NEW j \in DOMAIN y.acked
        PROVE  /\ y.acked[j] \in P /\ y.acked[j] <= k
               /\ \A a \in y.acks : a[2] # y.acked[j]
               /\ \A i \in 1 .. j - 1 : y.acked[i] # y.acked[j]
    <3>1. j \in DOMAIN x.acked /\ x.acked \in Seq(Nat)
      BY <1>3 DEF SocketWith
    <3>2. /\ y.acked[j] \in P /\ y.acked[j] <= x.emitted
          /\ \A a \in x.acks : a[2] # y.acked[j]
          /\ \A i \in 1 .. j - 1 : y.acked[i] # y.acked[j]
      <4> HIDE DEF y
      <4> QED BY <1>3, <3>1 DEF Sound
    <3>3. y.acked[j] \in Nat
      <4> HIDE DEF y
      <4> QED BY <1>3, <3>1
    <3> HIDE DEF y, k, id
    <3> QED BY <1>1, <1>3, <2>1, <3>1, <3>2, <3>3
  <2> HIDE DEF y, k, id
  <2> QED BY <1>3, <2>1, <2>2, <2>3 DEF Sound
<1> QED BY <1>2, <1>4

LEMMA EmitOrder ==
  ASSUME NEW R, NEW s, Typed(R, s), NEW r \in Logs, OrderInv(s, r), Encoder(s),
         NEW n \in Nsp, NEW kind \in {"event", "blob"}, s.sock[n].emitted + 1 <= MaxEvents,
         s.sock[n].connected =>
           \/ s.sock[n].sendBuffer = <<>>
           \/ s.sock[n].emitted + 1 \in s.sock[n].greetings
  PROVE  LET t == Emit(s, n, kind) IN
         /\ OrderInv(t, r) /\ Encoder(t)
         /\ \A k \in Nsp \ {n} : t.sock[k] = s.sock[k]
         /\ t.sock[n].connected = s.sock[n].connected
         /\ s.sock[n].connected => t.sock[n].sendBuffer = s.sock[n].sendBuffer
<1> DEFINE k == s.sock[n].emitted + 1
           id == s.sock[n].ids
           p == [type |-> kind, nsp |-> n, n |-> k, id |-> id]
           x == [s.sock[n] EXCEPT !.emitted = k, !.ids = id + 1, !.acks = @ \cup {<<id, k>>}]
           t == [s EXCEPT !.sock = [@ EXCEPT ![n] = x]]
           y == [t.sock[n] EXCEPT !.sendBuffer = Append(@, p)]
           u == [t EXCEPT !.sock = [@ EXCEPT ![n] = y]]
<1>1. s.sock[n] \in SocketWith /\ Sound(s.sock[n], R[n])
  BY DEF Typed, ClientWith
<1>2. id \in Nat /\ k = id + 1 /\ k \in Nat /\ id + 1 \in Nat /\ s.sock[n].emitted \in Nat
  BY <1>1 DEF SocketWith, Sound
<1>3. p \in Upward /\ p.nsp = n /\ p.n = k /\ p.type \in {"event", "blob"}
  BY <1>2 DEF Upward, Packet
<1>4. /\ x.emitted = k /\ x.sendBuffer = s.sock[n].sendBuffer
      /\ x.greetings = s.sock[n].greetings /\ x.connected = s.sock[n].connected
  BY <1>1 DEF SocketWith
<1>5. SockSet(s, t, n, x)
  <2> HIDE DEF x
  <2> QED BY SockSets
<1>6. Typed(R, t)
  <2>1. x \in SocketWith /\ Sound(x, R[n])
    BY <1>1, MoreEmitted
  <2> HIDE DEF x
  <2> QED BY <2>1, SockTyped
<1>7. t.sock[n] = x /\ \A j \in Nsp \ {n} : t.sock[j] = s.sock[j]
  <2> HIDE DEF t, x
  <2> QED BY <1>5 DEF SockSet
<1>8. OrderInv(t, r) /\ Encoder(t)
  <2> HIDE DEF t, x, k
  <2>1. s.sock[n].emitted <= k
    BY <1>2 DEF k
  <2> QED BY <1>2, <1>4, <1>5, <2>1, SockFewer, SockSame
<1>9. /\ \A e \in Engine : Ahead(ExcusedFrom(t, e, n), Through(t, r, e, n), {k})
      /\ Ahead(Excused(t, n), Waiting(t, n), {k})
      /\ Ahead(Excused(t, n), Buffered(t, n), {k})
      /\ k \in x.greetings => Ahead(Excused(t, n), {k}, Buffered(t, n))
      /\ \A j \in {k} : j <= t.sock[n].emitted
  <2> HIDE DEF t, x
  <2> QED BY <1>4, <1>5, NextFits
<1>10. CASE s.sock[n].connected
  <2>1. Emit(s, n, kind) = SendPacket(t, p)
    BY Zenon, <1>10 DEF Emit
  <2> HIDE DEF t, p, x, k
  <2>2. Ahead(Excused(t, n), {k}, Buffered(t, n))
    <3>1. CASE s.sock[n].sendBuffer = <<>>
      <4>1. Buffered(t, n) = {}
        BY <1>4, <1>7, <3>1, NumEmpty DEF Buffered
      <4> QED BY <4>1, AheadNone
    <3>2. CASE k \in s.sock[n].greetings
      BY <1>4, <1>9, <3>2
    <3> QED BY <1>10, <3>1, <3>2 DEF k
  <2>3. Fits(t, r, n, {k})
    BY <1>2, <1>9, <2>2 DEF Fits
  <2>4. Num(<<p>>, n) = {k}
    BY <1>3, NumOne
  <2>5. \A j \in Nsp \ {n} : Num(<<p>>, j) = {} /\ Fits(t, r, j, {})
    BY <1>3, NumOne, NothingFits
  <2>6. \A j \in Nsp : Sorted(Excused(t, j), <<p>>, j)
    BY <1>3, NumOne
  <2>7. Sendable(t, r, <<p>>)
    BY <2>3, <2>4, <2>5, <2>6 DEF Sendable
  <2>8. LET v == SendPacket(t, p) IN OrderInv(v, r) /\ Encoder(v) /\ v.sock = t.sock
    BY <1>3, <1>6, <1>8, <2>7, SendOrder
  <2> QED BY <1>4, <1>7, <1>10, <2>1, <2>8
<1>11. CASE ~ s.sock[n].connected
  <2>1. Emit(s, n, kind) = u
    BY Zenon, <1>11 DEF Emit
  <2>2. /\ y.sendBuffer = Append(x.sendBuffer, p) /\ y.emitted = x.emitted
        /\ y.greetings = x.greetings /\ y.connected = x.connected
    <3>1. x \in SocketWith
      BY <1>1, MoreEmitted
    <3> HIDE DEF t, x, p
    <3> QED BY <1>7, <3>1 DEF SocketWith
  <2>3. SockSet(t, u, n, y)
    <3> HIDE DEF t, y
    <3> QED BY <1>6, SockSets
  <2> HIDE DEF t, u, x, y, p, k
  <2>4. p.n <= t.sock[n].emitted
    BY <1>3, <1>9
  <2>5. OrderInv(u, r)
    BY <1>3, <1>6, <1>7, <1>8, <1>9, <2>2, <2>3, <2>4, KeepOrder
  <2>6. Encoder(u)
    BY <1>6, <1>8, <2>3, SockSame
  <2>7. u.sock[n] = y /\ \A j \in Nsp \ {n} : u.sock[j] = t.sock[j]
    BY <2>3 DEF SockSet
  <2> QED BY <1>4, <1>7, <1>11, <2>1, <2>2, <2>5, <2>6, <2>7
<1> QED BY <1>10, <1>11

\* emitBuffered(): sendBuffer is sent, and is empty then.
LEMMA BufferedOrder ==
  ASSUME NEW R, NEW s, Typed(R, s), NEW r \in Logs, OrderInv(s, r), Encoder(s), NEW n \in Nsp
  PROVE  LET t == EmitBuffered(s, n) IN
         /\ OrderInv(t, r) /\ Encoder(t)
         /\ \A k \in Nsp \ {n} : t.sock[k] = s.sock[k]
         /\ t.sock[n].sendBuffer = <<>>
<1> DEFINE x == [s.sock[n] EXCEPT !.receiveBuffer = <<>>, !.sendBuffer = <<>>]
           t == [s EXCEPT !.sock = [@ EXCEPT ![n] = x]]
           q == s.sock[n].sendBuffer
           u == SendAll(q, t)
<1>1. s.sock[n] \in SocketWith /\ Sound(s.sock[n], R[n]) /\ q \in Seq(Upward)
      /\ <<>> \in Seq(Packet) /\ <<>> \in Seq(Upward) /\ s.sock[n].emitted \in Nat
  BY DEF Typed, ClientWith, SocketWith
<1>2. /\ x \in SocketWith /\ Sound(x, R[n])
      /\ x.sendBuffer = <<>> /\ x.emitted = s.sock[n].emitted
      /\ x.greetings = s.sock[n].greetings
  BY <1>1 DEF SocketWith, Sound
<1>3. Typed(R, t)
  <2> HIDE DEF x
  <2> QED BY <1>2, SockTyped
<1>4. SockSet(s, t, n, x)
  <2> HIDE DEF x
  <2> QED BY SockSets
<1>5. EmitBuffered(s, n) = u
  BY DEF EmitBuffered
<1> HIDE DEF t, x, q
<1>6. OrderInv(t, r)
  BY <1>1, <1>2, <1>4, SockFewer
<1>7. Encoder(t)
  BY <1>4 DEF SockSet, Encoder
<1>8. ASSUME NEW k \in Nsp PROVE Fits(t, r, k, Num(q, k)) /\ Sorted(Excused(t, k), q, k)
  <2>1. WaitingInv(s, n) /\ BetweenInv(s, r, n) /\ EmittedInv(s, r, n)
    BY DEF OrderInv
  <2>2. CASE k = n
    <3>1. /\ \A e \in Engine : Through(t, r, e, n) = Through(s, r, e, n)
          /\ Waiting(t, n) = Waiting(s, n)
      BY <1>4 DEF SockSet, Through, Waiting, Reading
    <3>2. /\ Excused(t, n) = Excused(s, n)
          /\ \A e \in Engine : ExcusedFrom(t, e, n) = ExcusedFrom(s, e, n)
          /\ t.sock[n].emitted = s.sock[n].emitted
          /\ t.sock[n].sendBuffer = <<>>
      BY <1>2, <1>4 DEF SockSet, Excused, ExcusedFrom
    <3>3. Buffered(t, n) = {} /\ Buffered(s, n) = Num(q, n) /\ Num(q, n) \subseteq Nat
      BY <1>1, <3>2, NumEmpty, NumNat DEF Buffered, q
    <3>4. /\ Sorted(Excused(s, n), q, n)
          /\ Ahead(Excused(s, n), Waiting(s, n), Num(q, n))
      BY <2>1, <3>3 DEF WaitingInv, q
    <3>5. \A e \in Engine : Ahead(ExcusedFrom(s, e, n), Through(s, r, e, n), Num(q, n))
      BY <2>1, <3>3 DEF BetweenInv, Ahead
    <3>6. \A j \in Num(q, n) : j <= s.sock[n].emitted
      BY <2>1, <3>3 DEF EmittedInv
    <3>7. Ahead(Excused(t, n), Num(q, n), Buffered(t, n))
      BY <3>3, AheadNone
    <3> QED BY <2>2, <3>1, <3>2, <3>3, <3>4, <3>5, <3>6, <3>7 DEF Fits
  <2>3. CASE k # n
    <3>1. \A i \in DOMAIN q : q[i].nsp = n
      BY <2>1 DEF WaitingInv, q
    <3>2. Own(q, k) = {}
      BY <2>3, <3>1 DEF Own
    <3>3. Num(q, k) = {} /\ Sorted(Excused(t, k), q, k)
      BY <3>2 DEF Num, Sorted
    <3> QED BY <3>3, NothingFits
  <2> QED BY <2>2, <2>3
<1>9. Sendable(t, r, q)
  BY <1>8 DEF Sendable
<1>10. OrderInv(u, r) /\ Encoder(u) /\ u.sock = t.sock
  BY <1>1, <1>3, <1>6, <1>7, <1>9, SendAllOrder
<1>11. t.sock[n] = x /\ \A k \in Nsp \ {n} : t.sock[k] = s.sock[k]
  BY <1>4 DEF SockSet
<1> QED BY <1>2, <1>5, <1>10, <1>11

\* onconnect(): the greeting may overtake what is buffered.
LEMMA OnConnectOrder ==
  ASSUME NEW R, NEW s, Typed(R, s), NEW r \in Logs, Queue(s, r), NEW n \in Nsp
  PROVE  Queue(OnConnect(s, n), r)
<1> DEFINE x == [s.sock[n] EXCEPT !.connected = TRUE]
           t == [s EXCEPT !.sock = [@ EXCEPT ![n] = x]]
           k == s.sock[n].emitted + 1
           y == [t.sock[n] EXCEPT !.greetings = @ \cup {k}]
           u == [t EXCEPT !.sock = [@ EXCEPT ![n] = y]]
           w == IF n \in s.page.emits /\ k <= MaxEvents THEN Emit(u, n, "event") ELSE t
<1>1. s.sock[n] \in SocketWith /\ Sound(s.sock[n], R[n]) /\ OrderInv(s, r) /\ Encoder(s) /\ Flushed(s)
  BY DEF Typed, ClientWith, Queue
<1>2. /\ x \in SocketWith /\ Sound(x, R[n]) /\ x.connected
      /\ x.emitted = s.sock[n].emitted /\ x.sendBuffer = s.sock[n].sendBuffer
      /\ x.greetings = s.sock[n].greetings
  BY <1>1 DEF SocketWith, Sound
<1>3. k \in Nat /\ s.sock[n].emitted \in Nat
  BY <1>1 DEF SocketWith
<1>4. Typed(R, t) /\ SockSet(s, t, n, x)
  <2> HIDE DEF x
  <2> QED BY <1>2, SockTyped, SockSets
<1>5. OrderInv(t, r) /\ Encoder(t) /\ t.sock[n] = x /\ \A j \in Nsp \ {n} : t.sock[j] = s.sock[j]
  <2> HIDE DEF t, x
  <2>1. OrderInv(t, r)
    BY <1>1, <1>2, <1>4, <1>3, SockFewer
  <2> QED BY <1>1, <1>4, <2>1 DEF SockSet, Encoder
<1>6. /\ y \in SocketWith /\ Sound(y, R[n]) /\ y.emitted = s.sock[n].emitted
      /\ y.sendBuffer = x.sendBuffer /\ y.greetings = x.greetings \cup {k}
  <2>1. x.greetings \cup {k} \in SUBSET Nat
    <3>1. x.greetings \in SUBSET Nat
      <4> HIDE DEF x
      <4> QED BY <1>2 DEF SocketWith
    <3> HIDE DEF x, k
    <3> QED BY <1>3, <3>1
  <2> HIDE DEF t, x, k
  <2> QED BY <1>2, <1>5, <2>1 DEF SocketWith, Sound
<1>7. Typed(R, u) /\ SockSet(t, u, n, y)
  <2> HIDE DEF t, y
  <2> QED BY <1>4, <1>6, SockTyped, SockSets
<1>8. OrderInv(u, r) /\ Encoder(u) /\ u.sock[n] = y /\ \A j \in Nsp \ {n} : u.sock[j] = t.sock[j]
  <2> HIDE DEF t, x, u, y, k
  <2>1. OrderInv(u, r)
    BY <1>2, <1>4, <1>5, <1>6, <1>7, <1>3, SockFewer
  <2> QED BY <1>5, <1>7, <2>1 DEF SockSet, Encoder
<1>9. Typed(R, w) /\ OrderInv(w, r) /\ Encoder(w) /\ \A j \in Nsp \ {n} : w.sock[j] = s.sock[j]
  <2>1. CASE n \in s.page.emits /\ k <= MaxEvents
    <3> HIDE DEF t, x, u, y
    <3>1. u.sock[n].emitted + 1 <= MaxEvents /\ u.sock[n].emitted + 1 \in u.sock[n].greetings
      BY <1>6, <1>8, <2>1
    <3>2. LET v == Emit(u, n, "event") IN
          Typed(R, v) /\ OrderInv(v, r) /\ Encoder(v) /\ \A j \in Nsp \ {n} : v.sock[j] = u.sock[j]
      BY <1>7, <1>8, <3>1, EmitTyped, EmitOrder
    <3> QED BY <1>5, <1>8, <2>1, <3>2
  <2>2. CASE ~ (n \in s.page.emits /\ k <= MaxEvents)
    <3> HIDE DEF t, u
    <3> QED BY <1>4, <1>5, <2>2
  <2> QED BY <2>1, <2>2
<1>10. OnConnect(s, n) = EmitBuffered(w, n)
  <2>1. t.sock[n].emitted = s.sock[n].emitted
    <3> HIDE DEF t, x
    <3> QED BY <1>2, <1>5
  <2> QED BY Zenon, <2>1 DEF OnConnect
<1> HIDE DEF w
<1> DEFINE v == EmitBuffered(w, n)
<1>11. /\ OrderInv(v, r) /\ Encoder(v) /\ v.sock[n].sendBuffer = <<>>
       /\ \A j \in Nsp \ {n} : v.sock[j] = w.sock[j]
  BY <1>9, BufferedOrder
<1> HIDE DEF v
<1>12. Flushed(v)
  BY <1>1, <1>9, <1>11 DEF Flushed
<1> QED BY <1>10, <1>11, <1>12 DEF Queue, v

-----------------------------------------------------------------------------
(* The actions.                                                             *)

LEMMA DropsQueue ==
  ASSUME NEW R, NEW s, Typed(R, s), NEW r \in Logs, Queue(s, r), NEW t, Drops(s, t)
  PROVE  Queue(t, r)
BY DropsOrder DEF Queue

\* An engine changes, which may lose what is under way in it.
LEMMA EngDrops ==
  ASSUME NEW R, NEW s, Typed(R, s), NEW e \in Engine, NEW x, x.up \in {s.eng[e].up, <<>>}
  PROVE  Drops(s, [s EXCEPT !.eng = [@ EXCEPT ![e] = x]])
<1> DEFINE t == [s EXCEPT !.eng = [s.eng EXCEPT ![e] = x]]
<1>1. s \in ClientWith(R) /\ s.eng \in [Engine -> EngineWith(R)] /\ s.engine \in 0 .. MaxEngines
  BY TypedSeqs DEF Typed, ClientWith
<1>2. /\ t.engine = s.engine /\ t.blobs = s.blobs /\ t.encoding = s.encoding
      /\ t.packetBuffer = s.packetBuffer /\ t.stale = s.stale /\ t.sock = s.sock
      /\ t.eng = [s.eng EXCEPT ![e] = x]
  BY <1>1 DEF ClientWith
<1> HIDE DEF t
<1>3. \A f \in Engine : t.eng[f].up \in {s.eng[f].up, <<>>}
  BY <1>1, <1>2
<1>4. Drops(s, t)
  BY <1>1, <1>2, <1>3 DEF Drops
<1> QED BY <1>4 DEF t

LEMMA PacketOrder ==
  ASSUME NEW R, NEW s, Typed(R, s), NEW r \in Logs, Queue(s, r),
         NEW p \in Downward(R), NEW busy \in BOOLEAN
  PROVE  Queue(OnPacket(s, p, busy), r)
<1> DEFINE t == OnPacket(s, p, busy)
<1>1. p \in Packet /\ p.nsp \in Nsp /\ p.type \in {"connect", "disconnect", "event", "ack"}
  BY DEF Downward, Packet
<1>2. CASE ~ s.sock[p.nsp].subs
  BY <1>2 DEF OnPacket
<1>3. CASE s.sock[p.nsp].subs /\ p.type = "connect"
  <2>1. t = OnConnect(s, p.nsp)
    BY <1>3 DEF OnPacket
  <2> HIDE DEF t
  <2> QED BY <1>1, <2>1, OnConnectOrder DEF t
<1>4. CASE s.sock[p.nsp].subs /\ p.type \in {"event", "ack"}
  <2>1. t = OnEvent(s, p) \/ t = OnAck(s, p)
    BY <1>4 DEF OnPacket
  <2> HIDE DEF t
  <2>2. Drops(s, t)
    BY <1>1, <2>1, AckDrops
  <2> QED BY <2>2, DropsQueue DEF t
<1>5. CASE s.sock[p.nsp].subs /\ p.type = "disconnect"
  <2>1. t = Disconnected(SocketDestroy(s, p.nsp, busy), p.nsp)
    BY <1>5 DEF OnPacket, OnDisconnect
  <2> HIDE DEF t
  <2>2. Drops(s, t)
    BY <1>1, <2>1, DestroyDrops
  <2> QED BY <2>2, DropsQueue DEF t
<1> QED BY <1>1, <1>2, <1>3, <1>4, <1>5

\* A blob precedes what waits for it, and, unless a reconnect came in between, it is alone.
LEMMA BlobOrder ==
  ASSUME NEW R, Typed(R, m), NEW r \in Logs, Queue(m, r), NEW p \in m.blobs, BlobRead(p)
  PROVE  Queue(m', r)
<1> DEFINE t == [m EXCEPT !.blobs = @ \ {p}]
           w == WriteAll(t, <<p>>)
           u == [w EXCEPT !.encoding = FALSE]
           q == m.packetBuffer
           g == [t EXCEPT !.packetBuffer = <<>>, !.encoding = FALSE]
           h == [u EXCEPT !.packetBuffer = <<>>]
           v == SendAll(q, h)
<1>1. /\ p \in Upward /\ <<p>> \in Seq(Upward) /\ <<>> \in Seq(Upward) /\ q \in Seq(Upward)
      /\ m.engine \in 0 .. MaxEngines /\ m.blobs \subseteq Upward /\ m.stale \in BOOLEAN
      /\ m.encoding \in BOOLEAN
  BY DEF Typed, ClientWith
<1>2. /\ t.blobs = m.blobs \ {p} /\ t.packetBuffer = q /\ t.engine = m.engine
      /\ t.eng = m.eng /\ t.stale = m.stale /\ t.sock = m.sock
      /\ t \in ClientWith(R)
  BY DEF Typed, ClientWith
<1>3. Typed(R, t)
  <2> HIDE DEF t
  <2> QED BY <1>2 DEF Typed
<1>4. Typed(R, w) /\ Written(t, w, <<p>>)
  <2> HIDE DEF t
  <2> QED BY <1>1, <1>3, WriteTyped, WriteTakes
<1>5. /\ g.blobs = m.blobs \ {p} /\ g.packetBuffer = <<>> /\ g.engine = m.engine
      /\ g.eng = m.eng /\ g.stale = m.stale /\ g.sock = m.sock /\ ~ g.encoding
      /\ g \in ClientWith(R)
  <2> HIDE DEF t
  <2> QED BY <1>1, <1>2 DEF ClientWith
<1>6. Typed(R, g)
  <2> HIDE DEF g
  <2> QED BY <1>5 DEF Typed
<1>7. /\ h.blobs = w.blobs /\ h.packetBuffer = <<>> /\ h.engine = w.engine
      /\ h.eng = w.eng /\ h.stale = w.stale /\ h.sock = w.sock /\ ~ h.encoding
      /\ h \in ClientWith(R)
  <2> HIDE DEF w
  <2> QED BY <1>1, <1>4 DEF Typed, ClientWith
<1>8. Typed(R, h)
  <2> HIDE DEF w, h
  <2> QED BY <1>4, <1>7 DEF Typed
<1>9. u.packetBuffer = q
  <2>1. w.packetBuffer = q
    <3> HIDE DEF w, t
    <3> QED BY <1>2, <1>4 DEF Written
  <2> HIDE DEF w
  <2> QED BY <1>4, <2>1 DEF Typed, ClientWith
<1>10. m' = v
  <2>1. m' = ProcessPacketQueue(u)
    BY Zenon DEF BlobRead, Write
  <2> HIDE DEF u, q
  <2> QED BY <1>9, <2>1 DEF ProcessPacketQueue
<1> HIDE DEF t, w, u, g, h, q
<1>11. OrderInv(m, r) /\ Encoder(m) /\ Flushed(m)
  BY DEF Queue
<1>12. OrderInv(g, r) /\ Encoder(g)
  <2>1. \A n \in Nsp : m.sock[n].greetings \subseteq m.sock[n].greetings
                       /\ m.sock[n].emitted \in Nat /\ m.sock[n].emitted <= m.sock[n].emitted
    BY TypedSeqs
  <2>2. Fewer(m, g)
    BY <1>1, <1>5, <2>1 DEF Fewer
  <2>3. Encoder(g)
    BY <1>5, <1>11 DEF Encoder
  <2> QED BY <1>11, <2>2, <2>3, FewerOrder
<1>13. Takes(g, h, <<p>>, {}, <<>>)
  BY <1>1, <1>2, <1>4, <1>5, <1>7 DEF Takes, Written
<1>14. ASSUME NEW n \in Nsp
       PROVE  LET G == Excused(m, n)  A == Num(<<p>>, n)  P == Num(q, n) IN
              /\ \A e \in Engine : /\ ExcusedFrom(g, e, n) = ExcusedFrom(m, e, n)
                                   /\ Through(g, r, e, n) = Through(m, r, e, n)
              /\ Excused(g, n) = G /\ Buffered(g, n) = Buffered(m, n)
              /\ Waiting(g, n) \subseteq Waiting(m, n)
              /\ Num(<<>>, n) = {} /\ A \subseteq Waiting(m, n) /\ Waiting(m, n) \subseteq Nat
              /\ Ahead(G, Waiting(g, n), A) /\ Ahead(G, A, Waiting(g, n))
              /\ Ahead(G, A, P) /\ Ahead(G, Waiting(g, n), P) /\ Sorted(G, q, n)
              /\ P \subseteq Waiting(m, n) /\ Sorted(G, <<p>>, n) /\ Sorted(G, <<>>, n)
  <2> DEFINE G == Excused(m, n)  A == Num(<<p>>, n)  P == Num(q, n)
  <2>1. /\ \A e \in Engine : /\ ExcusedFrom(g, e, n) = ExcusedFrom(m, e, n)
                             /\ Through(g, r, e, n) = Through(m, r, e, n)
        /\ Excused(g, n) = G /\ Buffered(g, n) = Buffered(m, n)
    BY <1>5 DEF Through, ExcusedFrom, Excused, Buffered
  <2>2. Num(<<>>, n) = {} /\ Sorted(G, <<>>, n) /\ Sorted(G, <<p>>, n)
    BY <1>1, NumEmpty, NumOne
  <2>3. Waiting(g, n) = {x.n : x \in {y \in m.blobs \ {p} : y.nsp = n}}
    BY <1>5, <2>2 DEF Waiting, Reading
  <2>4. Waiting(g, n) \subseteq Reading(m, n)
    BY <2>3 DEF Reading
  <2>5. A \subseteq {p.n} /\ A \subseteq Reading(m, n) /\ (A # {} => p.nsp = n)
    BY <1>1, NumOne DEF Reading
  <2>6. Waiting(m, n) = Reading(m, n) \cup P
    BY DEF Waiting, q
  <2>7. Waiting(m, n) \subseteq Nat
    BY TypedNat, BoundsAssumption DEF Engine
  <2>8. /\ Sorted(G, q, n) /\ Ahead(G, Reading(m, n), P)
        /\ \A x, y \in m.blobs : x.nsp = n /\ y.nsp = n /\ x.n = y.n => x = y
    BY <1>11 DEF OrderInv, WaitingInv, q
  <2>9. Ahead(G, Waiting(g, n), A) /\ Ahead(G, A, Waiting(g, n))
    <3>1. CASE ~ m.stale
      <4>1. m.blobs \ {p} = {}
        BY <1>11, <3>1 DEF Encoder
      <4>2. Waiting(g, n) = {}
        BY <2>3, <4>1
      <4> QED BY <4>2, AheadNone
    <3>2. CASE m.stale
      <4>1. G = Nat
        BY <3>2 DEF Excused
      <4>2. ASSUME NEW a \in A, NEW b \in Waiting(g, n) PROVE a # b
        <5>1. PICK y \in m.blobs \ {p} : y.nsp = n /\ b = y.n
          BY <2>3, <4>2
        <5>2. p.nsp = n /\ a = p.n
          BY <2>5, <4>2
        <5> QED BY <2>8, <5>1, <5>2
      <4> HIDE DEF A
      <4>3. A \subseteq Nat /\ Waiting(g, n) \subseteq Nat
        BY <2>4, <2>5, <2>6, <2>7
      <4> QED BY <4>1, <4>2, <4>3 DEF Ahead, Comes
    <3> QED BY <1>1, <3>1, <3>2
  <2> HIDE DEF A, P, G
  <2>10. Ahead(G, A, P) /\ Ahead(G, Waiting(g, n), P)
    BY <2>4, <2>5, <2>8 DEF Ahead
  <2>11. A \subseteq Waiting(m, n) /\ P \subseteq Waiting(m, n) /\ Waiting(g, n) \subseteq Waiting(m, n)
    BY <2>4, <2>5, <2>6
  <2> QED BY <2>1, <2>2, <2>7, <2>8, <2>9, <2>10, <2>11 DEF A, P, G
<1>15. ASSUME NEW n \in Nsp, NEW N, N \subseteq Waiting(m, n)
       PROVE  /\ N \subseteq Nat
              /\ \A e \in Engine : Ahead(ExcusedFrom(m, e, n), Through(m, r, e, n), N)
              /\ Ahead(Excused(m, n), N, Buffered(m, n))
              /\ \A k \in N : k <= m.sock[n].emitted
  <2>1. WaitingInv(m, n) /\ BetweenInv(m, r, n) /\ EmittedInv(m, r, n)
    BY <1>11 DEF OrderInv
  <2>2. N \subseteq Nat
    BY <1>14, <1>15
  <2>3. \A e \in Engine : Ahead(ExcusedFrom(m, e, n), Through(m, r, e, n), N)
    BY <1>15, <2>1 DEF BetweenInv, Ahead
  <2>4. Ahead(Excused(m, n), N, Buffered(m, n))
    BY <1>15, <2>1 DEF WaitingInv, Ahead
  <2>5. \A k \in N : k <= m.sock[n].emitted
    BY <1>15, <2>1 DEF EmittedInv
  <2> QED BY <2>2, <2>3, <2>4, <2>5
<1>16. OrderInv(h, r)
  <2>1. ASSUME NEW n \in Nsp
        PROVE  LET G == Excused(g, n)  A == Num(<<p>>, n)  B == Numbers({}, n)  C == Num(<<>>, n) IN
               /\ Fits(g, r, n, A \cup B \cup C)
               /\ Sorted(G, <<p>>, n) /\ Sorted(G, <<>>, n)
               /\ Ahead(G, A, B) /\ Ahead(G, A, C) /\ Ahead(G, B, C)
               /\ Ahead(G, A, Waiting(g, n)) /\ Ahead(G, B, Num(g.packetBuffer, n))
    <3> DEFINE A == Num(<<p>>, n)
    <3>1. Numbers({}, n) = {} /\ Num(<<>>, n) = {}
      BY NumEmpty, NumbersOne
    <3>2. /\ \A e \in Engine : /\ ExcusedFrom(g, e, n) = ExcusedFrom(m, e, n)
                               /\ Through(g, r, e, n) = Through(m, r, e, n)
          /\ Excused(g, n) = Excused(m, n) /\ Buffered(g, n) = Buffered(m, n)
          /\ A \subseteq Waiting(m, n)
          /\ Ahead(Excused(m, n), Waiting(g, n), A) /\ Ahead(Excused(m, n), A, Waiting(g, n))
          /\ Sorted(Excused(m, n), <<p>>, n) /\ Sorted(Excused(m, n), <<>>, n)
      BY <1>14
    <3> HIDE DEF A
    <3>3. Fits(g, r, n, A)
      BY <1>5, <1>15, <3>2 DEF Fits
    <3> QED BY <3>1, <3>2, <3>3, AheadNone DEF A
  <2>2. {} \in SUBSET Upward /\ \A x, y \in {} : x = y
    OBVIOUS
  <2> QED BY <1>1, <1>6, <1>12, <1>13, <2>1, <2>2, SentOrder
<1>17. Encoder(h)
  <2>1. h.blobs = g.blobs /\ h.stale = g.stale
    BY <1>13 DEF Takes
  <2> QED BY <1>5, <1>7, <1>12, <2>1 DEF Encoder
<1>18. ASSUME NEW n \in Nsp PROVE Fits(h, r, n, Num(q, n)) /\ Sorted(Excused(h, n), q, n)
  <2> DEFINE G == Excused(m, n)  A == Num(<<p>>, n)  P == Num(q, n)
  <2>1. /\ \A e \in Engine : /\ ExcusedFrom(g, e, n) = ExcusedFrom(m, e, n)
                             /\ Through(g, r, e, n) = Through(m, r, e, n)
        /\ Excused(g, n) = G /\ Buffered(g, n) = Buffered(m, n)
        /\ Ahead(G, A, P) /\ Ahead(G, Waiting(g, n), P) /\ Sorted(G, q, n)
        /\ P \subseteq Waiting(m, n)
    BY <1>14
  <2>2. /\ Excused(h, n) = Excused(g, n) /\ Buffered(h, n) = Buffered(g, n)
        /\ h.sock = m.sock /\ h.engine = m.engine
        /\ \A e \in Engine : ExcusedFrom(h, e, n) = ExcusedFrom(g, e, n)
    BY <1>5, <1>13 DEF Takes, Excused, ExcusedFrom, Buffered
  <2>3. Waiting(h, n) = Waiting(g, n)
    <3>1. h.blobs = g.blobs /\ h.packetBuffer = g.packetBuffer
      BY <1>5, <1>7, <1>13 DEF Takes
    <3> QED BY <3>1 DEF Waiting, Reading
  <2>4. ASSUME NEW e \in Engine
        PROVE  \/ Through(h, r, e, n) = Through(g, r, e, n)
               \/ e = m.engine /\ Through(h, r, e, n) = Through(g, r, e, n) \cup A
    <3>1. CASE h.eng[e].up = g.eng[e].up
      BY <3>1 DEF Through
    <3>2. CASE e = g.engine /\ h.eng[e].up = g.eng[e].up \o <<p>>
      <4>1. g.eng[e].up \in Seq(Upward)
        BY <1>6, TypedSeqs
      <4>2. Num(g.eng[e].up \o <<p>>, n) = Num(g.eng[e].up, n) \cup Num(<<p>>, n)
        <5> DEFINE a == <<p>>
        <5>1. a \in Seq(Upward)
          BY <1>1
        <5> HIDE DEF a
        <5>2. Num(g.eng[e].up \o a, n) = Num(g.eng[e].up, n) \cup Num(a, n)
          BY <4>1, <5>1, NumConcat
        <5> QED BY <5>2 DEF a
      <4>3. Num(h.eng[e].up, n) = Num(g.eng[e].up, n) \cup A
        BY <3>2, <4>2
      <4> QED BY <1>5, <3>2, <4>3 DEF Through
    <3> QED BY <1>13, <3>1, <3>2 DEF Takes
  <2> HIDE DEF A, P
  <2>5. ASSUME NEW e \in Engine
        PROVE  Ahead(ExcusedFrom(h, e, n), Through(h, r, e, n), P)
    <3>1. Ahead(ExcusedFrom(m, e, n), Through(m, r, e, n), P)
      BY <1>15, <2>1
    <3>2. e = m.engine => ExcusedFrom(h, e, n) = G
      BY <2>1, <2>2 DEF ExcusedFrom
    <3> HIDE DEF G
    <3> QED BY <2>1, <2>2, <2>4, <3>1, <3>2 DEF Ahead
  <2>6. Fits(h, r, n, P)
    BY <1>15, <2>1, <2>2, <2>3, <2>5 DEF Fits
  <2> QED BY <2>1, <2>2, <2>6 DEF P
<1>19. Sendable(h, r, q)
  BY <1>18 DEF Sendable
<1>20. OrderInv(v, r) /\ Encoder(v) /\ v.sock = h.sock
  BY <1>1, <1>8, <1>16, <1>17, <1>19, SendAllOrder
<1>21. h.sock = m.sock
  BY <1>5, <1>13 DEF Takes
<1> HIDE DEF v
<1> QED BY <1>10, <1>11, <1>20, <1>21 DEF Queue, Flushed

\* onopen(): the Sockets ask for their namespaces.
LEMMA OpensOrder ==
  ASSUME NEW R, Typed(R, m), NEW r \in Logs, Queue(m, r), NEW e \in Engine, EngineOpens(e)
  PROVE  Queue(m', r)
<1> DEFINE opened == IF m.eng[e].state = "opening" THEN "open" ELSE "reopened"
           x == [m.eng[e] EXCEPT !.state = opened]
           t == [m EXCEPT !.eng = [@ EXCEPT ![e] = x]]
           c == Cleanup(t)
           b == [c EXCEPT !.ready = "open"]
           y == [b.eng[e] EXCEPT !.subs = {"live"}]
           d == [c EXCEPT !.ready = "open", !.eng[e].subs = {"live"}]
           S == {n \in Nsp \ {"/"} : t.sock[n].subs}
           asks == [i \in DOMAIN SetToSeq(S) |-> Control("connect", SetToSeq(S)[i])]
           u == SendAll(asks, d)
           v == IF t.eng[e].fn THEN [[u EXCEPT !.attempts = 0] EXCEPT !.reconnecting = FALSE] ELSE u
           z == [v.eng[e] EXCEPT !.down = <<Control("connect", "/")>>]
           w == [v EXCEPT !.eng = [@ EXCEPT ![e] = z]]
<1>1. m' = IF "open" \in t.eng[e].subs THEN w ELSE t
  BY Zenon DEF EngineOpens, OnOpen, OnReconnect, Reset
<1>2. Typed(R, t) /\ Queue(t, r)
  <2>1. m.eng[e] \in EngineWith(R)
    BY DEF Typed, ClientWith
  <2>2. x \in EngineWith(R) /\ x.up = m.eng[e].up
    BY <2>1 DEF EngineWith
  <2> HIDE DEF x
  <2>3. Typed(R, t) /\ Drops(m, t)
    BY <2>2, EngTyped, EngDrops
  <2> HIDE DEF t
  <2> QED BY <2>3, DropsQueue
<1> HIDE DEF t, x
<1>3. Typed(R, c) /\ Queue(c, r)
  <2>1. Typed(R, c) /\ Drops(t, c)
    BY <1>2, CleanupTyped, CleanupDrops
  <2> HIDE DEF c
  <2> QED BY <1>2, <2>1, DropsQueue
<1> HIDE DEF c
<1>4. Typed(R, b) /\ Queue(b, r) /\ b.eng = c.eng
  <2>1. b \in ClientWith(R) /\ b.sock = c.sock /\ SameQueue(c, b) /\ b.eng = c.eng
        /\ c.engine \in 0 .. MaxEngines
    BY <1>3 DEF Typed, ClientWith, SameQueue
  <2> HIDE DEF b
  <2>2. Typed(R, b) /\ Drops(c, b)
    BY <1>3, <2>1, SameDrops DEF Typed
  <2> QED BY <1>3, <2>1, <2>2, DropsQueue
<1>5. Typed(R, d) /\ Queue(d, r)
  <2> DEFINE g == [b EXCEPT !.eng = [@ EXCEPT ![e] = y]]
  <2>1. b.eng[e] \in EngineWith(R)
    BY <1>4 DEF Typed, ClientWith
  <2>2. y \in EngineWith(R) /\ y.up = b.eng[e].up
    <3> HIDE DEF b
    <3> QED BY <2>1 DEF EngineWith
  <2>3. d = g
    BY <1>3, <1>4 DEF Typed, ClientWith
  <2>4. Typed(R, g) /\ Drops(b, g)
    <3> HIDE DEF b, y
    <3> QED BY <1>4, <2>2, EngTyped, EngDrops
  <2> HIDE DEF b, y, d, g
  <2> QED BY <1>4, <2>3, <2>4, DropsQueue
<1> HIDE DEF d
<1>6. Typed(R, u) /\ Queue(u, r)
  <2>1. asks \in Seq(Upward)
    <3>1. S \subseteq Nsp
      OBVIOUS
    <3> HIDE DEF S
    <3> QED BY <3>1, AsksTyped
  <2>2. \A i \in DOMAIN asks : asks[i].type = "connect"
    BY DEF Control
  <2> HIDE DEF asks
  <2>3. ASSUME NEW n \in Nsp PROVE Fits(d, r, n, Num(asks, n)) /\ Sorted(Excused(d, n), asks, n)
    <3>1. Own(asks, n) = {}
      BY <2>2 DEF Own
    <3>2. Num(asks, n) = {} /\ Sorted(Excused(d, n), asks, n)
      BY <3>1 DEF Num, Sorted
    <3> QED BY <3>2, NothingFits
  <2>4. Typed(R, u) /\ OrderInv(u, r) /\ Encoder(u) /\ u.sock = d.sock
    BY <1>5, <2>1, <2>3, SendAllTyped, SendAllOrder DEF Queue, Sendable
  <2> HIDE DEF u
  <2> QED BY <1>5, <2>4 DEF Queue, Flushed
<1> HIDE DEF u
<1>7. Typed(R, v) /\ Queue(v, r)
  <2>1. 0 \in 0 .. MaxAttempts
    BY BoundsAssumption
  <2>2. v \in ClientWith(R) /\ v.sock = u.sock /\ SameQueue(u, v) /\ u.engine \in 0 .. MaxEngines
    BY <1>6, <2>1 DEF Typed, ClientWith, SameQueue
  <2> HIDE DEF v
  <2>3. Typed(R, v) /\ Drops(u, v)
    BY <1>6, <2>2, SameDrops DEF Typed
  <2> QED BY <1>6, <2>3, DropsQueue
<1> HIDE DEF v
<1>8. Queue(w, r)
  <2>1. v.eng[e] \in EngineWith(R)
    BY <1>7 DEF Typed, ClientWith
  <2>2. z.up = v.eng[e].up
    BY <2>1 DEF EngineWith
  <2> HIDE DEF z
  <2>3. Drops(v, w)
    BY <1>7, <2>2, EngDrops
  <2> HIDE DEF w
  <2> QED BY <1>7, <2>3, DropsQueue
<1> HIDE DEF w
<1> QED BY <1>1, <1>2, <1>8

\* close: alone, or after an error.
LEMMA EndsOrder ==
  ASSUME NEW R, Typed(R, m), NEW r \in Logs, Queue(m, r), NEW e \in Engine,
         EngineEnds(e) \/ EngineFails(e)
  PROVE  Queue(m', r)
<1> DEFINE x == [m.eng[e] EXCEPT !.up = <<>>]
           y == [m.eng[e] EXCEPT !.up = <<>>, !.state = "closed"]
           t == [m EXCEPT !.eng = [@ EXCEPT ![e] = x]]
           u == [m EXCEPT !.eng = [@ EXCEPT ![e] = y]]
           v == OnError(u, e)
<1>1. m' \in {EngineClosed(t, e), EngineClosed(m, e), EngineClosed(v, e)}
  <2>1. t = [m EXCEPT !.eng[e].up = <<>>]
    BY Zenon
  <2>2. u = [m EXCEPT !.eng[e].up = <<>>, !.eng[e].state = "closed"]
    BY DEF Typed, ClientWith
  <2> HIDE DEF t, u
  <2> QED BY <2>1, <2>2 DEF EngineEnds, EngineFails
<1>2. m.eng[e] \in EngineWith(R) /\ <<>> \in Seq(Upward)
  BY DEF Typed, ClientWith
<1>3. x \in EngineWith(R) /\ x.up = <<>> /\ y \in EngineWith(R) /\ y.up = <<>>
  BY <1>2 DEF EngineWith
<1> HIDE DEF x, y
<1>4. Typed(R, t) /\ Drops(m, t) /\ Typed(R, u) /\ Drops(m, u)
  BY <1>3, EngTyped, EngDrops
<1> HIDE DEF t, u
<1>5. Typed(R, v) /\ Drops(u, v)
  BY <1>4, OnErrorTyped, OnErrorDrops
<1> HIDE DEF v
<1>6. Queue(t, r) /\ Queue(u, r)
  BY <1>4, DropsQueue
<1>7. Queue(v, r)
  BY <1>4, <1>5, <1>6, DropsQueue
<1>8. /\ Drops(t, EngineClosed(t, e)) /\ Drops(m, EngineClosed(m, e))
      /\ Drops(v, EngineClosed(v, e))
  BY <1>4, <1>5, ClosedDrops
<1> QED BY <1>1, <1>4, <1>5, <1>6, <1>7, <1>8, DropsQueue

LEMMA TimeoutOrder ==
  ASSUME NEW R, Typed(R, m), NEW r \in Logs, Queue(m, r), NEW e \in Engine, NEW busy \in BOOLEAN,
         ConnectTimeout(e, busy)
  PROVE  Queue(m', r)
<1> DEFINE x == [m.eng[e] EXCEPT !.subs = @ \ {"open", "timer"}]
           t == [m EXCEPT !.eng = [@ EXCEPT ![e] = x]]
           u == CloseEngine(t, busy)
<1>1. m' = OnError(u, e)
  BY Zenon DEF ConnectTimeout
<1>2. m.eng[e] \in EngineWith(R)
  BY DEF Typed, ClientWith
<1>3. x \in EngineWith(R) /\ x.up = m.eng[e].up
  BY <1>2 DEF EngineWith
<1> HIDE DEF x
<1>4. Typed(R, t) /\ Drops(m, t)
  BY <1>3, EngTyped, EngDrops
<1> HIDE DEF t
<1>5. Typed(R, u) /\ Drops(t, u)
  BY <1>4, CloseEngineTyped, CloseEngineDrops
<1> HIDE DEF u
<1>6. Drops(u, OnError(u, e))
  BY <1>5, OnErrorDrops
<1>7. Queue(t, r)
  BY <1>4, DropsQueue
<1>8. Queue(u, r)
  BY <1>4, <1>5, <1>7, DropsQueue
<1> QED BY <1>1, <1>5, <1>6, <1>8, DropsQueue

LEMMA TimerOrder ==
  ASSUME NEW R, Typed(R, m), NEW r \in Logs, Queue(m, r), ReconnectTimer, Steady(m)
  PROVE  Queue(m', r)
<1> DEFINE t == [m EXCEPT !.timer = FALSE]
<1>1. /\ m' = IF t.skipReconnect THEN t ELSE OpenEngine(t, TRUE)
      /\ m.skipReconnect \/ m.engine < MaxEngines
  BY DEF ReconnectTimer
<1>2. t \in ClientWith(R) /\ t.sock = m.sock /\ SameQueue(m, t) /\ m.engine \in 0 .. MaxEngines
      /\ t.skipReconnect = m.skipReconnect /\ t.engine = m.engine
  BY DEF Typed, ClientWith, SameQueue
<1> HIDE DEF t
<1>3. Typed(R, t) /\ Drops(m, t)
  BY <1>2, SameDrops DEF Typed
<1>4. Queue(t, r)
  BY <1>3, DropsQueue
<1>5. CASE t.skipReconnect
  BY <1>1, <1>4, <1>5
<1>6. CASE ~ t.skipReconnect
  <2>1. Drops(t, OpenEngine(t, TRUE))
    BY <1>1, <1>2, <1>3, <1>6, OpenDrops
  <2> QED BY <1>1, <1>3, <1>4, <1>6, <2>1, DropsQueue
<1> QED BY <1>5, <1>6

LEMMA DataOrder ==
  ASSUME NEW R, Typed(R, m), NEW r \in Logs, Queue(m, r), NEW e \in Engine, NEW busy \in BOOLEAN,
         EngineData(e, busy)
  PROVE  Queue(m', r)
<1> DEFINE q == m.eng[e].down
           p == Head(q)
           x == [m.eng[e] EXCEPT !.down = Tail(@)]
           t == [m EXCEPT !.eng = [@ EXCEPT ![e] = x]]
<1>1. m' = OnPacket(t, p, busy) /\ q # <<>>
  BY Zenon DEF EngineData
<1>2. m.eng[e] \in EngineWith(R) /\ q \in Seq(Downward(R))
  BY DEF Typed, ClientWith, EngineWith
<1>3. p \in Downward(R) /\ Tail(q) \in Seq(Downward(R))
  <2> HIDE DEF q
  <2> QED BY <1>1, <1>2
<1>4. x \in EngineWith(R) /\ x.up = m.eng[e].up
  BY <1>2, <1>3 DEF EngineWith
<1> HIDE DEF x, p
<1>5. Typed(R, t) /\ Drops(m, t)
  BY <1>4, EngTyped, EngDrops
<1> HIDE DEF t
<1>6. Queue(t, r)
  BY <1>5, DropsQueue
<1> QED BY <1>1, <1>3, <1>5, <1>6, PacketOrder

\* The server reads what was written first, and has it, or drops it.
Reads(s, t, e) ==
  /\ t.engine = s.engine /\ t.stale = s.stale /\ t.sock = s.sock
  /\ t.blobs = s.blobs /\ t.packetBuffer = s.packetBuffer /\ t.encoding = s.encoding
  /\ s.eng[e].up # <<>> /\ t.eng[e].up = Tail(s.eng[e].up)
  /\ \A f \in Engine \ {e} : t.eng[f].up = s.eng[f].up

Entered(r, z, p, e) ==
  /\ p.type \in {"event", "blob"}
  /\ z[p.nsp] = Append(r[p.nsp], [n |-> p.n, by |-> e])
  /\ \A n \in Nsp \ {p.nsp} : z[n] = r[n]

LEMMA HeadFirst ==
  ASSUME NEW q \in Seq(Upward), q # <<>>, NEW n, NEW G, Sorted(G, q, n)
  PROVE  /\ Head(q) \in Upward /\ Tail(q) \in Seq(Upward)
         /\ Num(Tail(q), n) \subseteq Num(q, n) /\ Sorted(G, Tail(q), n)
         /\ Num(<<Head(q)>>, n) \subseteq Num(q, n)
         /\ Ahead(G, Num(<<Head(q)>>, n), Num(Tail(q), n))
<1>1. /\ Head(q) \in Upward /\ Tail(q) \in Seq(Upward) /\ 1 \in 1 .. Len(q)
      /\ Head(q) = q[1] /\ Tail(q) = SubSeq(q, 2, Len(q))
  OBVIOUS
<1> DEFINE c == SubSeq(q, 1 + 1, Len(q))
<1>2. /\ Num(c, n) \subseteq Num(q, n) /\ Sorted(G, c, n)
      /\ 1 \in Own(q, n) => Ahead(G, {q[1].n}, Num(c, n))
  BY <1>1, NumSplit
<1>3. Tail(q) = c
  BY <1>1
<1> HIDE DEF c
<1>4. CASE 1 \in Own(q, n)
  <2>1. Num(<<Head(q)>>, n) = {q[1].n}
    BY <1>1, <1>4, NumOne DEF Own
  <2>2. q[1].n \in Num(q, n)
    BY <1>4 DEF Num
  <2> QED BY <1>1, <1>2, <1>3, <1>4, <2>1, <2>2
<1>5. CASE 1 \notin Own(q, n)
  <2>1. ~ (q[1].type \in {"event", "blob"} /\ q[1].nsp = n)
    BY <1>1, <1>5 DEF Own
  <2>2. Num(<<Head(q)>>, n) = {}
    BY <1>1, <2>1, NumOne
  <2> QED BY <1>1, <1>2, <1>3, <2>2, AheadNone
<1> QED BY <1>4, <1>5

LEMMA EnteredGot ==
  ASSUME NEW r \in Logs, NEW z, NEW e \in Engine, NEW p \in Upward, Entered(r, z, p, e), NEW n \in Nsp
  PROVE  /\ Got(z, e, n) \subseteq Got(r, e, n) \cup Num(<<p>>, n)
         /\ \A f \in Engine \ {e} : Got(z, f, n) = Got(r, f, n)
         /\ z[n] = r[n] \/ /\ n = p.nsp /\ p.n \in Num(<<p>>, n)
                           /\ DOMAIN z[n] = 1 .. Len(r[n]) + 1 /\ Len(r[n]) \in Nat
                           /\ z[n][Len(r[n]) + 1].n = p.n /\ z[n][Len(r[n]) + 1].by = e
                           /\ \A i \in DOMAIN r[n] : z[n][i] = r[n][i]
                           /\ DOMAIN r[n] = 1 .. Len(r[n])
<1>1. CASE n # p.nsp
  <2>1. z[n] = r[n]
    BY <1>1 DEF Entered
  <2> QED BY <2>1 DEF Got
<1>2. CASE n = p.nsp
  <2> DEFINE Entry == [n : Nat, by : Engine]
             a == [n |-> p.n, by |-> e]
             q == r[n]
  <2>1. q \in Seq(Entry) /\ z[n] = Append(q, a)
    BY <1>2 DEF Entered, Logs
  <2>2. a \in Entry /\ a.n = p.n /\ a.by = e
    BY DEF Upward, Packet
  <2> HIDE DEF Entry, a, q
  <2>3. /\ DOMAIN z[n] = 1 .. Len(q) + 1 /\ Len(q) \in Nat /\ DOMAIN q = 1 .. Len(q)
        /\ z[n][Len(q) + 1] = a /\ \A i \in DOMAIN q : z[n][i] = q[i]
    BY <2>1, <2>2
  <2>4. Num(<<p>>, n) = {p.n}
    BY <1>2, NumOne DEF Entered
  <2>5. ASSUME NEW f, NEW k \in Got(z, f, n)
        PROVE  k \in Got(r, f, n) \/ (f = e /\ k = p.n)
    <3>1. PICK i \in DOMAIN z[n] : z[n][i].by = f /\ k = z[n][i].n
      BY <2>5 DEF Got
    <3>2. i \in DOMAIN q \/ i = Len(q) + 1
      BY <2>3
    <3> QED BY <2>2, <2>3, <3>1, <3>2 DEF Got, q
  <2>6. ASSUME NEW f, NEW k \in Got(r, f, n) PROVE k \in Got(z, f, n)
    <3>1. PICK i \in DOMAIN q : q[i].by = f /\ k = q[i].n
      BY <2>6 DEF Got, q
    <3>2. i \in DOMAIN z[n] /\ z[n][i] = q[i]
      BY <2>3, <3>1
    <3> QED BY <3>1, <3>2 DEF Got
  <2>7. Got(z, e, n) \subseteq Got(r, e, n) \cup Num(<<p>>, n)
    BY <2>4, <2>5
  <2>8. ASSUME NEW f \in Engine \ {e} PROVE Got(z, f, n) = Got(r, f, n)
    <3>1. Got(z, f, n) \subseteq Got(r, f, n)
      BY <2>5, <2>8
    <3>2. Got(r, f, n) \subseteq Got(z, f, n)
      BY <2>6
    <3> QED BY <3>1, <3>2
  <2> QED BY <1>2, <2>2, <2>3, <2>4, <2>7, <2>8 DEF q
<1> QED BY <1>1, <1>2

LEMMA ReadsOrder ==
  ASSUME NEW R, NEW s, Typed(R, s), NEW r \in Logs, Queue(s, r), NEW z, NEW t, NEW e \in Engine,
         Reads(s, t, e), z = r \/ Entered(r, z, Head(s.eng[e].up), e)
  PROVE  Queue(t, z)
<1> DEFINE q == s.eng[e].up
           p == Head(q)
<1>1. q \in Seq(Upward) /\ q # <<>>
  BY TypedSeqs DEF Reads
<1>2. p \in Upward
  <2> HIDE DEF q
  <2> QED BY <1>1
<1>3. z = r \/ Entered(r, z, p, e)
  OBVIOUS
<1>4. Encoder(t) /\ Flushed(t)
  BY DEF Queue, Reads, Encoder, Flushed
<1>5. t.eng[e].up = Tail(q)
  BY DEF Reads
<1> HIDE DEF p
<1>6. ASSUME NEW n \in Nsp
      PROVE  /\ ReceivedInv(t, z, n) /\ EnginesInv(t, z, n) /\ WaitingInv(t, n)
             /\ BetweenInv(t, z, n) /\ EmittedInv(t, z, n)
  <2> DEFINE G == Excused(s, n)
  <2>1. /\ ReceivedInv(s, r, n) /\ EnginesInv(s, r, n) /\ WaitingInv(s, n)
        /\ BetweenInv(s, r, n) /\ EmittedInv(s, r, n)
    BY DEF Queue, OrderInv
  <2>2. /\ Excused(t, n) = G /\ Waiting(t, n) = Waiting(s, n) /\ Buffered(t, n) = Buffered(s, n)
        /\ Reading(t, n) = Reading(s, n)
        /\ \A f \in Engine : ExcusedFrom(t, f, n) = ExcusedFrom(s, f, n)
    BY DEF Reads, Excused, ExcusedFrom, Waiting, Reading, Buffered
  <2>3. Sorted(G, q, n) /\ Ahead(G, Got(r, e, n), Num(q, n))
    BY <2>1 DEF EnginesInv
  <2> HIDE DEF q, G
  <2>4. /\ Num(Tail(q), n) \subseteq Num(q, n) /\ Sorted(G, Tail(q), n)
        /\ Num(<<p>>, n) \subseteq Num(q, n)
        /\ Ahead(G, Num(<<p>>, n), Num(Tail(q), n))
    BY <1>1, <2>3, HeadFirst DEF p
  <2>5. /\ Got(z, e, n) \subseteq Got(r, e, n) \cup Num(<<p>>, n)
        /\ \A f \in Engine \ {e} : Got(z, f, n) = Got(r, f, n)
    BY <1>2, <1>3, EnteredGot
  <2>6. \A f \in Engine : Through(t, z, f, n) \subseteq Through(s, r, f, n)
    <3>1. Through(t, z, e, n) \subseteq Through(s, r, e, n)
      BY <1>5, <2>4, <2>5 DEF Through, q
    <3>2. \A f \in Engine \ {e} : Through(t, z, f, n) = Through(s, r, f, n)
      BY <2>5 DEF Through, Reads
    <3> QED BY <3>1, <3>2
  <2>7. ReceivedInv(t, z, n)
    <3>1. CASE z[n] = r[n]
      <4>1. Excused(t, n) = Excused(s, n)
        BY <2>2 DEF G
      <4> QED BY <2>1, <3>1, <4>1 DEF ReceivedInv
    <3>2. CASE /\ p.n \in Num(<<p>>, n)
               /\ DOMAIN z[n] = 1 .. Len(r[n]) + 1 /\ Len(r[n]) \in Nat
               /\ z[n][Len(r[n]) + 1].n = p.n /\ z[n][Len(r[n]) + 1].by = e
               /\ \A i \in DOMAIN r[n] : z[n][i] = r[n][i]
               /\ DOMAIN r[n] = 1 .. Len(r[n])
      <4> SUFFICES ASSUME NEW j \in DOMAIN z[n], NEW i \in 1 .. j - 1
                   PROVE  /\ z[n][i].n # z[n][j].n
                          /\ z[n][i].by = z[n][j].by => Comes(G, z[n][i].n, z[n][j].n)
        BY <2>2 DEF ReceivedInv
      <4>1. i \in DOMAIN r[n] /\ z[n][i] = r[n][i]
        BY <3>2
      <4>2. CASE j \in DOMAIN r[n]
        BY <2>1, <3>2, <4>1, <4>2 DEF ReceivedInv, G
      <4>3. CASE j = Len(r[n]) + 1
        <5>1. z[n][j].n = p.n /\ z[n][j].by = e /\ p.n \in Num(q, n)
          BY <2>4, <3>2, <4>3
        <5>2. r[n][i].by \in Engine
          BY <4>1, LogEntries
        <5>3. r[n][i].n \in Got(r, r[n][i].by, n)
          BY <4>1 DEF Got
        <5>4. CASE r[n][i].by = e
          <6>1. Comes(G, r[n][i].n, p.n)
            BY <2>3, <5>1, <5>3, <5>4 DEF Ahead
          <6> QED BY <4>1, <5>1, <6>1 DEF Comes
        <5>5. CASE r[n][i].by # e
          <6>1. Ahead(Nat, Through(s, r, r[n][i].by, n), Through(s, r, e, n))
            BY <2>1, <5>2, <5>5 DEF EnginesInv
          <6>2. r[n][i].n # p.n
            BY <5>1, <5>3, <6>1 DEF Ahead, Comes, Through, q
          <6> QED BY <4>1, <5>1, <5>5, <6>2
        <5> QED BY <5>4, <5>5
      <4> QED BY <3>2, <4>2, <4>3
    <3> QED BY <1>2, <1>3, <3>1, <3>2, EnteredGot
  <2>8. EnginesInv(t, z, n)
    <3>1. ASSUME NEW f \in Engine
          PROVE  /\ Sorted(G, t.eng[f].up, n) /\ Ahead(G, Got(z, f, n), Num(t.eng[f].up, n))
                 /\ f > t.engine => Got(z, f, n) = {} /\ t.eng[f].up = <<>>
      <4>1. /\ Sorted(G, s.eng[f].up, n) /\ Ahead(G, Got(r, f, n), Num(s.eng[f].up, n))
            /\ f > s.engine => Got(r, f, n) = {} /\ s.eng[f].up = <<>>
        BY <2>1 DEF EnginesInv, G
      <4>2. t.engine = s.engine
        BY DEF Reads
      <4>3. CASE f = e
        <5>1. Ahead(G, Got(z, e, n), Num(Tail(q), n))
          BY <2>3, <2>4, <2>5 DEF Ahead
        <5> QED BY <1>1, <1>5, <2>4, <4>1, <4>2, <4>3, <5>1 DEF q
      <4>4. CASE f # e
        <5>1. t.eng[f].up = s.eng[f].up /\ Got(z, f, n) = Got(r, f, n)
          BY <2>5, <4>4 DEF Reads
        <5> QED BY <4>1, <4>2, <5>1
      <4> QED BY <4>3, <4>4
    <3>2. ASSUME NEW f \in Engine, NEW g \in Engine, f # g
          PROVE  Ahead(Nat, Through(t, z, f, n), Through(t, z, g, n))
      <4>1. Ahead(Nat, Through(s, r, f, n), Through(s, r, g, n))
        BY <2>1, <3>2 DEF EnginesInv
      <4> QED BY <2>6, <4>1, AheadWeak
    <3> QED BY <2>2, <3>1, <3>2 DEF EnginesInv
  <2>9. WaitingInv(t, n)
    <3>1. /\ t.blobs = s.blobs /\ t.packetBuffer = s.packetBuffer /\ t.sock = s.sock
      BY DEF Reads
    <3> QED BY <2>1, <2>2, <3>1 DEF WaitingInv, G
  <2>10. BetweenInv(t, z, n)
    <3> SUFFICES ASSUME NEW f \in Engine
                 PROVE  Ahead(ExcusedFrom(s, f, n), Through(t, z, f, n),
                              Waiting(s, n) \cup Buffered(s, n))
      BY <2>2 DEF BetweenInv
    <3>1. Ahead(ExcusedFrom(s, f, n), Through(s, r, f, n), Waiting(s, n) \cup Buffered(s, n))
      BY <2>1 DEF BetweenInv
    <3> QED BY <2>6, <3>1 DEF Ahead
  <2>11. EmittedInv(t, z, n)
    <3>1. t.sock = s.sock
      BY DEF Reads
    <3> QED BY <2>1, <2>2, <2>6, <3>1 DEF EmittedInv
  <2> QED BY <2>7, <2>8, <2>9, <2>10, <2>11
<1> QED BY <1>4, <1>6 DEF Queue, OrderInv

LEMMA ServesOrder ==
  ASSUME Typed(Received, m), srv \in Server, Queue(m, srv.received), NEW e \in Engine,
         ServerReads(e)
  PROVE  Queue(m', srv'.received)
<1> DEFINE p == Head(m.eng[e].up)
           x == [m.eng[e] EXCEPT !.up = Tail(@)]
           t == [m EXCEPT !.eng = [@ EXCEPT ![e] = x]]
           Said(packet) == [t EXCEPT !.eng[e].down = Append(@, packet)]
           r == srv.received
           z == srv'.received
<1>1. /\ m.eng[e].up # <<>> /\ m.eng[e].up \in Seq(Upward) /\ m.eng[e] \in EngineWith(Received)
      /\ m \in ClientWith(Received) /\ m.eng \in [Engine -> EngineWith(Received)]
      /\ r \in Logs
  BY DEF ServerReads, Typed, ClientWith, EngineWith, Server, Logs
<1>2. p \in Upward /\ p.nsp \in Nsp
  <2>1. p \in Upward
    BY <1>1
  <2> HIDE DEF p
  <2> QED BY <2>1 DEF Upward, Packet
<1>3. x \in EngineWith(Received) /\ x.up = Tail(m.eng[e].up)
  <2>1. Tail(m.eng[e].up) \in Seq(Upward)
    BY <1>1
  <2> QED BY <1>1, <2>1 DEF EngineWith
<1>4. m' \in {t, Said(Control("connect", p.nsp)), Said([Control("ack", p.nsp) EXCEPT !.id = p.id])}
  BY DEF ServerReads
<1>5. z = r \/ Entered(r, z, p, e)
  <2>1. \/ srv' = [srv EXCEPT !.nsps[e] = @ \cup {p.nsp}]
        \/ srv' = [srv EXCEPT !.nsps[e] = @ \ {p.nsp}]
        \/ srv' = srv
        \/ /\ srv' = [srv EXCEPT !.received[p.nsp] = Append(@, [n |-> p.n, by |-> e])]
           /\ p.type \in {"event", "blob"}
    BY DEF ServerReads
  <2> HIDE DEF p
  <2>2. CASE \/ srv' = [srv EXCEPT !.nsps[e] = @ \cup {p.nsp}]
             \/ srv' = [srv EXCEPT !.nsps[e] = @ \ {p.nsp}]
             \/ srv' = srv
    BY <2>2 DEF Server
  <2>3. CASE /\ srv' = [srv EXCEPT !.received[p.nsp] = Append(@, [n |-> p.n, by |-> e])]
             /\ p.type \in {"event", "blob"}
    <3> DEFINE q == Append(srv.received[p.nsp], [n |-> p.n, by |-> e])
    <3>1. srv' = [srv EXCEPT !.received = [srv.received EXCEPT ![p.nsp] = q]]
      BY <2>3
    <3> HIDE DEF q
    <3>2. z = [r EXCEPT ![p.nsp] = q]
      BY <3>1 DEF Server
    <3>3. z[p.nsp] = q /\ \A n \in Nsp \ {p.nsp} : z[n] = r[n]
      BY <1>1, <1>2, <3>2 DEF Logs
    <3> QED BY <2>3, <3>3 DEF Entered, q
  <2> QED BY <2>1, <2>2, <2>3
<1>6. Reads(m, t, e)
  <2> HIDE DEF x, p
  <2>1. /\ t.engine = m.engine /\ t.stale = m.stale /\ t.sock = m.sock
        /\ t.blobs = m.blobs /\ t.packetBuffer = m.packetBuffer /\ t.encoding = m.encoding
        /\ t.eng = [m.eng EXCEPT ![e] = x]
    BY <1>1 DEF ClientWith
  <2> HIDE DEF t
  <2>2. t.eng[e] = x /\ \A f \in Engine \ {e} : t.eng[f] = m.eng[f]
    BY <1>1, <2>1
  <2> QED BY <1>1, <1>3, <2>1, <2>2 DEF Reads
<1>7. Typed(Received, t)
  <2> HIDE DEF x
  <2> QED BY <1>3, EngTyped
<1>8. Queue(t, z)
  <2> HIDE DEF t, z
  <2> QED BY <1>1, <1>5, <1>6, ReadsOrder DEF p
<1>9. z \in Logs
  <2>1. CASE z = r
    BY <1>1, <2>1
  <2>2. CASE Entered(r, z, p, e)
    <3>1. srv' \in Server
      <4>1. Next
        BY DEF Next, Serves
      <4> QED BY <4>1, ServerTyped
    <3> QED BY <3>1 DEF Server, Logs
  <2> QED BY <1>5, <2>1, <2>2
<1> HIDE DEF t, z, p
<1>10. ASSUME NEW packet PROVE Queue(Said(packet), z)
  <2> DEFINE y == [t.eng[e] EXCEPT !.down = Append(@, packet)]
  <2>1. Said(packet) = [t EXCEPT !.eng = [@ EXCEPT ![e] = y]]
    OBVIOUS
  <2>2. t.eng[e] \in EngineWith(Received)
    BY <1>7 DEF Typed, ClientWith
  <2>3. y.up = t.eng[e].up
    BY <2>2 DEF EngineWith
  <2> HIDE DEF y
  <2>4. Drops(t, [t EXCEPT !.eng = [@ EXCEPT ![e] = y]])
    BY <1>7, <2>3, EngDrops
  <2> QED BY <1>7, <1>8, <1>9, <2>1, <2>4, DropsQueue
<1> HIDE DEF Said
<1>11. Queue(m', z)
  BY <1>4, <1>8, <1>10
<1> QED BY <1>11 DEF z

LEMMA SaysOrder ==
  ASSUME NEW R, Typed(R, m), NEW r \in Logs, Queue(m, r), NEW e \in Engine, NEW n \in Nsp,
         ServerEmits(e, n) \/ ServerDisconnects(e, n)
  PROVE  Queue(m', r)
<1>1. ASSUME NEW packet PROVE Queue([m EXCEPT !.eng[e].down = Append(@, packet)], r)
  <2> DEFINE y == [m.eng[e] EXCEPT !.down = Append(@, packet)]
             t == [m EXCEPT !.eng = [@ EXCEPT ![e] = y]]
  <2>1. m.eng[e] \in EngineWith(R)
    BY DEF Typed, ClientWith
  <2>2. y.up = m.eng[e].up
    BY <2>1 DEF EngineWith
  <2>3. Drops(m, t)
    <3> HIDE DEF y
    <3> QED BY <2>2, EngDrops
  <2>4. Queue(t, r)
    <3> HIDE DEF t
    <3> QED BY <2>3, DropsQueue
  <2> QED BY <2>4
<1>2. \/ m' = [m EXCEPT !.eng[e].down = Append(@, Control("event", n))]
      \/ m' = [m EXCEPT !.eng[e].down = Append(@, Control("disconnect", n))]
  BY Zenon DEF ServerEmits, ServerDisconnects
<1> QED BY <1>1, <1>2

LEMMA PageEmitsOrder ==
  ASSUME NEW R, Typed(R, m), NEW r \in Logs, Queue(m, r), NEW n \in Nsp,
         NEW kind \in {"event", "blob"}, PageEmits(n, kind)
  PROVE  Queue(m', r)
<1> DEFINE t == Emit(m, n, kind)
<1>1. m' = t /\ m.sock[n].emitted < MaxEvents /\ m.sock[n].emitted \in Nat
  BY DEF PageEmits, Typed, ClientWith, SocketWith
<1>2. m.sock[n].emitted + 1 <= MaxEvents
  BY <1>1, BoundsAssumption
<1>3. /\ OrderInv(t, r) /\ Encoder(t)
      /\ \A k \in Nsp \ {n} : t.sock[k] = m.sock[k]
      /\ t.sock[n].connected = m.sock[n].connected
      /\ m.sock[n].connected => t.sock[n].sendBuffer = m.sock[n].sendBuffer
  BY <1>2, EmitOrder DEF Queue, Flushed
<1> HIDE DEF t
<1>4. Flushed(t)
  BY <1>3 DEF Queue, Flushed
<1> QED BY <1>1, <1>3, <1>4 DEF Queue

LEMMA PageDisconnectsOrder ==
  ASSUME NEW R, Typed(R, m), NEW r \in Logs, Queue(m, r), NEW n \in Nsp, NEW busy \in BOOLEAN,
         PageDisconnects(n, busy)
  PROVE  Queue(m', r)
<1> DEFINE t == IF m.sock[n].connected THEN SendPacket(m, Control("disconnect", n)) ELSE m
           u == Disconnected(SocketDestroy(t, n, busy), n)
<1>1. m' = u
  BY Zenon DEF PageDisconnects, Disconnect
<1>2. Typed(R, t) /\ Queue(t, r)
  <2> DEFINE v == SendPacket(m, Control("disconnect", n))
  <2>1. Typed(R, v) /\ OrderInv(v, r) /\ Encoder(v) /\ v.sock = m.sock
    BY ControlOrder DEF Queue
  <2> HIDE DEF v
  <2>2. Queue(v, r)
    BY <2>1 DEF Queue, Flushed
  <2> QED BY <2>1, <2>2 DEF v
<1> HIDE DEF t
<1>3. Drops(t, u)
  BY <1>2, DestroyDrops
<1> QED BY <1>1, <1>2, <1>3, DropsQueue

LEMMA PageConnectsOrder ==
  ASSUME NEW R, Typed(R, m), NEW r \in Logs, Queue(m, r), NEW n \in Nsp, PageConnects(n)
  PROVE  Queue(m', r)
<1> DEFINE x == [m.sock[n] EXCEPT !.subs = TRUE]
           a == [m EXCEPT !.sock = [@ EXCEPT ![n] = x]]
           t == OpenEngine(a, FALSE)
           u == IF t.ready = "open" THEN AskFor(t, n) ELSE t
           c == [u EXCEPT !.connecting = @ \cup {n}]
           h == \/ m.ready = "closed" /\ (m.reconnecting \/ \E e \in Engine : "live" \in m.eng[e].subs)
                \/ m.ready = "open" /\ n = "/" /\ ~ m.sock[n].subs
           d == [c EXCEPT !.hasty = @ \/ h]
           y == [d.sock[n] EXCEPT !.connects = @ + 1]
           f == [d EXCEPT !.sock = [@ EXCEPT ![n] = y]]
<1>1. /\ m.sock[n].connects < MaxConnects /\ ~ m.sock[n].connected
      /\ m.ready = "closed" => m.engine < MaxEngines
  BY DEF PageConnects
<1>2. m' = f
  BY Zenon, <1>1 DEF PageConnects, Connect
<1>3. m.sock[n] \in SocketWith /\ Sound(m.sock[n], R[n])
  BY DEF Typed, ClientWith
<1>4. /\ x \in SocketWith /\ Sound(x, R[n]) /\ x.connected = m.sock[n].connected
      /\ x.sendBuffer = m.sock[n].sendBuffer /\ x.greetings = m.sock[n].greetings
      /\ x.emitted = m.sock[n].emitted
  BY <1>3 DEF SocketWith, Sound
<1>5. Typed(R, a) /\ SameButSock(n, m, a) /\ Drops(m, a)
  <2> HIDE DEF x
  <2> QED BY <1>4, SockTyped, SockDrops
<1>6. Queue(a, r) /\ (a.ready = "closed" => a.engine < MaxEngines)
  <2> HIDE DEF a
  <2> QED BY <1>1, <1>5, DropsQueue DEF SameButSock
<1> HIDE DEF a, x
<1>7. Typed(R, t) /\ Drops(a, t)
  BY <1>5, <1>6, OpenTyped, OpenDrops
<1> HIDE DEF t
<1>8. Queue(t, r)
  BY <1>5, <1>6, <1>7, DropsQueue
<1>9. Typed(R, u) /\ Queue(u, r)
  <2> DEFINE v == SendPacket(t, Control("connect", n))
  <2>1. Typed(R, v) /\ OrderInv(v, r) /\ Encoder(v) /\ v.sock = t.sock
    BY <1>7, <1>8, ControlOrder DEF Queue
  <2>2. u = t \/ u = v
    BY DEF AskFor
  <2> HIDE DEF v, u
  <2>3. Queue(v, r)
    BY <1>8, <2>1 DEF Queue, Flushed
  <2> QED BY <1>7, <1>8, <2>1, <2>2, <2>3
<1> HIDE DEF u
<1>10. c \in ClientWith(R) /\ c.sock = u.sock /\ SameQueue(u, c) /\ u.engine \in 0 .. MaxEngines
  BY <1>9 DEF Typed, ClientWith, SameQueue
<1> HIDE DEF c, h
<1>11. d \in ClientWith(R) /\ d.sock = c.sock /\ SameQueue(c, d)
  <2>1. (c.hasty \/ h) \in BOOLEAN
    OBVIOUS
  <2> QED BY <1>10, <2>1 DEF ClientWith, SameQueue
<1> HIDE DEF d
<1>12. Typed(R, d)
  BY <1>9, <1>10, <1>11 DEF Typed
<1>13. Queue(d, r)
  <2>1. SameQueue(u, d)
    BY <1>10, <1>11 DEF SameQueue
  <2>2. Drops(u, d)
    BY <1>10, <2>1, SameDrops
  <2> QED BY <1>9, <2>2, DropsQueue
<1>14. /\ y.sendBuffer = d.sock[n].sendBuffer /\ y.greetings = d.sock[n].greetings
       /\ y.emitted = d.sock[n].emitted /\ y.connected = d.sock[n].connected
  <2>1. d.sock[n] \in SocketWith
    BY <1>11 DEF ClientWith
  <2> QED BY <2>1 DEF SocketWith
<1>15. Drops(d, f)
  <2> HIDE DEF y
  <2> QED BY <1>12, <1>14, SockDrops
<1> HIDE DEF f
<1> QED BY <1>2, <1>12, <1>13, <1>15, DropsQueue

LEMMA InitOrder == Init => Queue(m, srv.received)
<1> SUFFICES ASSUME Init PROVE Queue(m, srv.received)
  OBVIOUS
<1>1. srv.received = [n \in Nsp |-> <<>>]
  BY DEF Init
<1>2. /\ ~ m.encoding /\ m.packetBuffer = <<>> /\ m.blobs = {} /\ ~ m.stale
      /\ m.sock = [n \in Nsp |-> Fresh]
      /\ \A e \in Engine : m.eng[e].up = <<>>
  BY BoundsAssumption DEF Init, OpenEngine, Idle, Engine
<1>3. ASSUME NEW n \in Nsp
      PROVE  /\ ~ m.sock[n].connected /\ m.sock[n].sendBuffer = <<>>
             /\ Buffered(m, n) = {} /\ Reading(m, n) = {} /\ Waiting(m, n) = {}
             /\ Num(<<>>, n) = {} /\ \A G : Sorted(G, <<>>, n)
             /\ srv.received[n] = <<>>
  <2>1. m.sock[n] = Fresh
    BY <1>2
  <2>2. ~ m.sock[n].connected /\ m.sock[n].sendBuffer = <<>>
    BY <2>1 DEF Fresh
  <2>3. Num(<<>>, n) = {} /\ \A G : Sorted(G, <<>>, n)
    BY NumEmpty
  <2>4. Reading(m, n) = {}
    BY <1>2 DEF Reading
  <2>5. Buffered(m, n) = {} /\ Waiting(m, n) = {}
    BY <1>2, <2>2, <2>3, <2>4 DEF Buffered, Waiting
  <2>6. srv.received[n] = <<>>
    BY <1>1
  <2> QED BY <2>2, <2>3, <2>4, <2>5, <2>6
<1>4. ASSUME NEW e \in Engine, NEW n \in Nsp
      PROVE  Got(srv.received, e, n) = {} /\ Through(m, srv.received, e, n) = {}
  <2>1. Got(srv.received, e, n) = {}
    BY <1>3 DEF Got
  <2> QED BY <1>2, <1>3, <2>1 DEF Through
<1>5. Encoder(m) /\ Flushed(m)
  BY <1>2, <1>3 DEF Encoder, Flushed
<1>6. ASSUME NEW n \in Nsp
      PROVE  /\ ReceivedInv(m, srv.received, n) /\ EnginesInv(m, srv.received, n)
             /\ WaitingInv(m, n) /\ BetweenInv(m, srv.received, n)
             /\ EmittedInv(m, srv.received, n)
  <2>1. ReceivedInv(m, srv.received, n)
    BY <1>3 DEF ReceivedInv
  <2>2. EnginesInv(m, srv.received, n)
    <3>1. \A e \in Engine : /\ m.eng[e].up = <<>> /\ Got(srv.received, e, n) = {}
                            /\ Through(m, srv.received, e, n) = {}
      BY <1>2, <1>4
    <3>2. Num(<<>>, n) = {} /\ Sorted(Excused(m, n), <<>>, n)
      BY <1>3
    <3> QED BY <3>1, <3>2, AheadNone DEF EnginesInv
  <2>3. WaitingInv(m, n)
    <3>1. /\ m.packetBuffer = <<>> /\ m.sock[n].sendBuffer = <<>> /\ m.blobs = {}
          /\ Reading(m, n) = {} /\ Waiting(m, n) = {} /\ Buffered(m, n) = {}
          /\ Num(<<>>, n) = {} /\ Sorted(Excused(m, n), <<>>, n)
      BY <1>2, <1>3
    <3> QED BY <3>1, AheadNone DEF WaitingInv
  <2>4. BetweenInv(m, srv.received, n)
    BY <1>4, AheadNone DEF BetweenInv
  <2>5. EmittedInv(m, srv.received, n)
    BY <1>3, <1>4 DEF EmittedInv
  <2> QED BY <2>1, <2>2, <2>3, <2>4, <2>5
<1> QED BY <1>5, <1>6 DEF Queue, OrderInv

LEMMA NextOrder == IInv /\ Queue(m, srv.received) /\ [Next]_vars => Queue(m', srv'.received)
<1> SUFFICES ASSUME IInv, Queue(m, srv.received), [Next]_vars PROVE Queue(m', srv'.received)
  OBVIOUS
<1> DEFINE r == srv.received
<1>1. Typed(Received, m) /\ srv \in Server /\ Steady(m) /\ r \in Logs
  BY DEF IInv, Server, Logs
<1>2. CASE UNCHANGED vars
  BY <1>2 DEF vars
<1>3. CASE Next
  <2>1. ASSUME NEW e \in Engine, ServerReads(e) PROVE Queue(m', srv'.received)
    BY <1>1, <2>1, ServesOrder
  <2>2. ASSUME ReconnectTimer PROVE Queue(m', r) /\ srv' = srv
    BY <1>1, <2>2, TimerOrder DEF ReconnectTimer
  <2>3. ASSUME NEW p \in m.blobs, BlobRead(p) PROVE Queue(m', r) /\ srv' = srv
    BY <1>1, <2>3, BlobOrder DEF BlobRead
  <2>4. ASSUME NEW e \in Engine, EngineOpens(e) PROVE Queue(m', r) /\ srv' = srv
    BY <1>1, <2>4, OpensOrder DEF EngineOpens
  <2>5. ASSUME NEW e \in Engine, NEW busy \in BOOLEAN, EngineData(e, busy)
        PROVE  Queue(m', r) /\ srv' = srv
    BY <1>1, <2>5, DataOrder DEF EngineData
  <2>6. ASSUME NEW e \in Engine, NEW busy \in BOOLEAN, ConnectTimeout(e, busy)
        PROVE  Queue(m', r) /\ srv' = srv
    BY <1>1, <2>6, TimeoutOrder DEF ConnectTimeout
  <2>7. ASSUME NEW e \in Engine, EngineEnds(e) \/ EngineFails(e)
        PROVE  Queue(m', r) /\ srv' = srv
    BY <1>1, <2>7, EndsOrder DEF EngineEnds, EngineFails
  <2>8. ASSUME NEW e \in Engine, NEW n \in Nsp, ServerEmits(e, n) \/ ServerDisconnects(e, n)
        PROVE  Queue(m', r) /\ srv'.received = r
    <3>1. srv'.received = r
      BY <1>1, <2>8 DEF ServerEmits, ServerDisconnects, Server
    <3> QED BY <1>1, <2>8, <3>1, SaysOrder
  <2>9. ASSUME NEW n \in Nsp,
                \/ \E kind \in {"event", "blob"} : PageEmits(n, kind)
                \/ \E busy \in BOOLEAN : PageDisconnects(n, busy)
                \/ PageConnects(n)
         PROVE  Queue(m', r) /\ srv' = srv
    BY <1>1, <2>9, PageEmitsOrder, PageDisconnectsOrder, PageConnectsOrder
       DEF PageEmits, PageDisconnects, PageConnects
  <2> HIDE DEF r
  <2>10. Queue(m', r) /\ (srv' = srv \/ srv'.received = r) => Queue(m', srv'.received)
    BY DEF r
  <2> QED BY Zenon, <1>3, <2>1, <2>2, <2>3, <2>4, <2>5, <2>6, <2>7, <2>8, <2>9, <2>10
          DEF Next, Runs, Timeouts, Serves
<1> QED BY <1>2, <1>3

\* Over all reconnects an event of the page is received at most once, and over one
\* connection in the order of emission, but for the two things that may overtake.
THEOREM OnceAndInOrder == Spec => []EventsInOrder
<1> DEFINE Inv == Queue(m, srv.received)
<1>1. IInv /\ Inv => EventsInOrder
  <2> SUFFICES ASSUME IInv, Inv, NEW n \in Nsp, NEW j \in DOMAIN srv.received[n], NEW i \in 1 .. j - 1
               PROVE  LET a == srv.received[n][i]  b == srv.received[n][j] IN
                      /\ a.n # b.n
                      /\ a.by = b.by /\ a.n > b.n => m.stale \/ a.n \in m.sock[n].greetings
    BY DEF EventsInOrder
  <2>1. ReceivedInv(m, srv.received, n)
    BY DEF Queue, OrderInv
  <2>2. srv.received \in Logs /\ i \in DOMAIN srv.received[n]
    <3> DEFINE Entry == [n : Nat, by : Engine]
    <3>1. srv.received \in Logs /\ srv.received[n] \in Seq(Entry)
      BY DEF IInv, Server, Logs
    <3> HIDE DEF Entry
    <3> QED BY <3>1
  <2>3. srv.received[n][i].n \in Nat /\ srv.received[n][j].n \in Nat
    BY <2>2, LogEntries
  <2> QED BY <2>1, <2>3 DEF ReceivedInv, Comes, Excused
<1>2. Spec => []Inv
  <2>1. Init => Inv
    BY InitOrder
  <2>2. IInv /\ Inv /\ [Next]_vars => Inv'
    BY NextOrder
  <2> HIDE DEF Inv
  <2> QED BY <2>1, <2>2, Invariant, PTL DEF Spec
<1> HIDE DEF Inv
<1> QED BY <1>1, <1>2, Invariant, PTL
=============================================================================
