---------------------------------- MODULE Codec ----------------------------------
(***************************************************************************)
(* A packet's way from emit() at one end to the handler at the other,      *)
(* through both parsers of socket.io.js: blobs are read, the packet        *)
(* becomes frames, the frames go into payloads of the polling transport or *)
(* messages of the WebSocket, and a Decoder puts the packets together      *)
(* again, also after an answer that was cut short and after a reconnect,   *)
(* which the Decoder and the reading of blobs outlive.                     *)
(*                                                                         *)
(* Both ends are this library's: the format is the same in both            *)
(* directions.  The far end starts afresh with each connection, so that    *)
(* its Decoder is kept over a reconnect is the harder case, that of the    *)
(* page.                                                                   *)
(***************************************************************************)
EXTENDS SocketParser

LOCAL INSTANCE SequencesExt

CONSTANTS
  MaxEmits,       \* bound: packets
  MaxReconnects   \* bound: reconnects

VARIABLES
  browser,    \* whether it can send binary data, and Blobs
  encoding,   \* the Manager is encoding a packet
  reading,    \* packets whose blobs are being read
  frames,     \* written to the engine, not yet sent
  wire,       \* payloads and messages under way
  up,         \* the connection stands
  decoder,    \* [reconstructor, out], out since the last reconnect
  sent,       \* history: the packets that were written since the last reconnect,
              \* as far as their transport can carry them
  emits, reconnects   \* bounds

vars == <<browser, encoding, reading, frames, wire, up, decoder, sent, emits, reconnects>>

\* What was written has no blob left, and its type says whether it has a buffer.
TypeOK ==
  /\ browser \in [supportsBinary : BOOLEAN, sendsBlobs : BOOLEAN]
  /\ {encoding, up} \subseteq BOOLEAN /\ emits \in 0 .. MaxEmits
  /\ reconnects \in 0 .. MaxReconnects
  /\ decoder.reconstructor.holds \in {"none", "nothing", "packet"}
  /\ \A j \in DOMAIN reading : BlobsOf(reading[j]) # {}
  /\ \A j \in DOMAIN sent :
       /\ BlobsOf(sent[j]) = {}
       /\ sent[j].type \in {BINARY_EVENT, BINARY_ACK} <=> Buffers(sent[j]) # <<>>
  /\ \A j \in DOMAIN wire : \A k \in DOMAIN wire[j].data.d :
       wire[j].data.d[k] \in 0 .. 255 \/ (wire[j].ws /\ wire[j].data.text)

Init ==
  /\ browser \in [supportsBinary : BOOLEAN, sendsBlobs : BOOLEAN]
  /\ browser.sendsBlobs => browser.supportsBinary
  /\ encoding = FALSE /\ reading = <<>> /\ frames = <<>> /\ wire = <<>> /\ up = TRUE
  /\ decoder = [reconstructor |-> NoReconstructor, out |-> <<>>]
  /\ sent = <<>> /\ emits = 0 /\ reconnects = 0

\* The callback of encode(): all frames are written, to an engine that is open.
Written(p) ==
  /\ frames' = IF up THEN frames \o encode(p) ELSE frames
  /\ sent' = IF up THEN Append(sent, p) ELSE sent

\* packet() of the Manager; removeBlobs() starts a reader for each blob.
Emit(p) ==
  /\ ~ encoding /\ emits < MaxEmits
  /\ emits' = emits + 1
  /\ IF BlobsOf(p) = {} THEN Written(Typed(p)) /\ UNCHANGED <<encoding, reading>>
     ELSE /\ encoding' = TRUE /\ reading' = Append(reading, Typed(p))
          /\ UNCHANGED <<frames, sent>>
  /\ UNCHANGED <<browser, wire, up, decoder, reconnects>>

BlobRead_First(j, i) ==   \* slip: does not count the blobs that are pending
  /\ i \in BlobsOf(reading[j])
  /\ encoding' = FALSE /\ reading' = RemoveAt(reading, j)
  /\ Written([reading[j] EXCEPT !.data[i].kind = "buffer"])
  /\ UNCHANGED <<browser, wire, up, decoder, emits, reconnects>>

\* onload of a reader in removeBlobs(): the last one calls back, in any order.
BlobRead(j, i) ==
  /\ i \in BlobsOf(reading[j])
  /\ LET p == [reading[j] EXCEPT !.data[i].kind = "buffer"] IN
     IF BlobsOf(p) = {}
     THEN encoding' = FALSE /\ reading' = RemoveAt(reading, j) /\ Written(p)
     ELSE reading' = [reading EXCEPT ![j] = p] /\ UNCHANGED <<encoding, frames, sent>>
  /\ UNCHANGED <<browser, wire, up, decoder, emits, reconnects>>

Messages(k) == [i \in 1 .. k |-> [type |-> "message", data |-> frames[i]]]
Ping == [type |-> "ping", data |-> Undefined]

\* Polling.write(), or an answer to a poll: the first k frames, and perhaps a ping.
Post(k, ping) ==
  /\ up /\ k \in DOMAIN frames
  /\ LET ps == IF ping THEN Append(Messages(k), Ping) ELSE Messages(k) IN
     wire' = Append(wire, [ws |-> FALSE, data |-> encodePayload(ps, browser)])
  /\ frames' = SubSeq(frames, k + 1, Len(frames))
  /\ UNCHANGED <<browser, encoding, reading, up, decoder, sent, emits, reconnects>>

\* The packet the first frame belongs to, when that is its string.
Beginning == Len(sent) - Cardinality({i \in DOMAIN frames : frames[i].text}) + 1

\* WS.write(): a message for each packet, without utf8, so that the browser's send()
\* sees halves of surrogate pairs.
WsSend ==
  /\ up /\ frames # <<>>
  /\ LET data == encodePacket(Messages(1)[1], browser.supportsBinary, FALSE) IN
     wire' = Append(wire, [ws |-> TRUE,
                           data |-> IF data.text THEN String(Scalars(data.d)) ELSE data])
  /\ sent' = IF Head(frames).text THEN [sent EXCEPT ![Beginning].data = OverWebSocket(@)] ELSE sent
  /\ frames' = Tail(frames)
  /\ UNCHANGED <<browser, encoding, reading, up, decoder, emits, reconnects>>

\* A payload ends after k characters, and the connection with it.
Cut(k) ==
  /\ up /\ wire # <<>> /\ ~ Head(wire).ws /\ Head(wire).data.text
  /\ k \in 0 .. Len(Head(wire).data.d) - 1
  /\ wire' = <<[Head(wire) EXCEPT !.data.d = SubSeq(@, 1, k)]>>
  /\ frames' = <<>> /\ up' = FALSE
  /\ UNCHANGED <<browser, encoding, reading, decoder, sent, emits, reconnects>>

\* Transport.onData(), Polling.onData(): the data of messages goes to the Decoder.
Received(w) == IF w.ws THEN <<decodePacket(w.data, FALSE)>> ELSE decodePayload(w.data)
Deliver ==
  /\ wire # <<>>
  /\ decoder' = FoldLeft(LAMBDA s, p : IF p.type = "message" THEN add(s, p.data) ELSE s,
                         decoder, Received(Head(wire)))
  /\ wire' = Tail(wire)
  /\ UNCHANGED <<browser, encoding, reading, frames, up, sent, emits, reconnects>>

\* The connection ends and the Manager opens another: cleanup(), decoder.destroy().
Reconnect ==
  /\ reconnects < MaxReconnects
  /\ reconnects' = reconnects + 1 /\ up' = TRUE /\ encoding' = FALSE
  /\ frames' = <<>> /\ wire' = <<>> /\ sent' = <<>>
  /\ decoder' = [destroy(decoder) EXCEPT !.out = <<>>]
  /\ UNCHANGED <<browser, reading, emits>>

Next ==
  \/ \E p \in Packets : Emit(p)
  \/ \E j \in DOMAIN reading : \E i \in DOMAIN reading[j].data : BlobRead(j, i)
  \/ \E k \in DOMAIN frames, ping \in BOOLEAN : Post(k, ping)
  \/ WsSend
  \/ wire # <<>> /\ \E k \in 0 .. Len(Head(wire).data.d) - 1 : Cut(k)
  \/ Deliver
  \/ Reconnect

Spec == Init /\ [][Next]_vars

-----------------------------------------------------------------------------
(* Properties.                                                             *)

Begins(s, t) == Len(s) <= Len(t) /\ s = SubSeq(t, 1, Len(s))

\* Whatever the transports and the cuts between payloads, blobs read in any order,
\* and a reconnect in the middle of a packet: what is decoded are the packets that
\* were written, unchanged but for halves of surrogate pairs over a WebSocket, in
\* order, without a gap, and all of them in the end.
ArrivesIntact ==
  /\ Begins(decoder.out, sent)
  /\ up /\ frames = <<>> /\ wire = <<>> => decoder.out = sent

\* A payload that is cut short yields an error, by which the engine learns that packets
\* are missing; only a cut that falls between two packets goes unnoticed.
CutIsNoticed ==
  [][up /\ ~ up' =>
       LET payload == Head(wire).data.d
           k == Len(Head(wire').data.d)
           decode(from, to) == decodePayload(String(SubSeq(payload, from, to)))
       IN \/ err \in ToSet(decode(1, k))
          \/ decode(1, k) \o decode(k + 1, Len(payload)) = decode(1, Len(payload))]_vars
=============================================================================
