------------------------------ MODULE SocketParser ------------------------------
(***************************************************************************)
(* socket.io-parser in socket.io.js, with its binary.js: packets of a      *)
(* namespace to and from frames, one string followed by the buffers it has *)
(* placeholders for.  The data of a packet is the array of its arguments,  *)
(* <<>> when it has none; nested objects are left out.                     *)
(***************************************************************************)
EXTENDS EngineParser

LOCAL INSTANCE SequencesExt

CONSTANT Packets   \* the packets of a run, before they are typed

CONNECT == 0
EVENT == 2
ACK == 3
ERROR == 4
BINARY_EVENT == 5
BINARY_ACK == 6
None == -1   \* no id, no attachments

Item(kind, d) == [kind |-> kind, d |-> d]
Placeholder(num) == Item("placeholder", <<num>>)

BlobsOf(p) == {i \in DOMAIN p.data : p.data[i].kind = "blob"}

\* hasBin() in emit() and ack(): what holds a buffer or a blob is of a binary type.
Typed(p) ==
  IF \E i \in DOMAIN p.data : p.data[i].kind \in {"buffer", "blob"}
  THEN [p EXCEPT !.type = @ + 3] ELSE p

-----------------------------------------------------------------------------
(* binary.js                                                               *)

BuffersBefore(data, i) == {j \in 1 .. i - 1 : data[j].kind = "buffer"}

\* deconstructPacket()
Deconstructed(p) ==
  [p EXCEPT !.data = [i \in DOMAIN p.data |->
                        IF p.data[i].kind = "buffer"
                        THEN Placeholder(Cardinality(BuffersBefore(p.data, i))) ELSE p.data[i]],
            !.attachments = Cardinality(BuffersBefore(p.data, Len(p.data) + 1))]
Buffers(p) ==
  LET held == SelectSeq(p.data, LAMBDA x : x.kind = "buffer")
  IN [i \in DOMAIN held |-> Buffer(held[i].d)]

\* reconstructPacket()
Reconstructed(p, buffers) ==
  [p EXCEPT !.data = [i \in DOMAIN p.data |->
                        IF p.data[i].kind = "placeholder"
                        THEN Item("buffer", buffers[p.data[i].d[1] + 1].d) ELSE p.data[i]],
            !.attachments = None]

-----------------------------------------------------------------------------
(* Encoder.                                                                *)

\* External: JSON, whose strings need no escapes here and whose placeholders are
\* abbreviated.
Json(data) ==
  LET item(x) == IF x.kind = "text" THEN <<34>> \o x.d \o <<34>> ELSE <<123, 48 + x.d[1], 125>>
      more(i) == (IF i = 1 THEN <<91>> ELSE <<44>>) \o item(data[i])
  IN FlattenSeq([i \in DOMAIN data |-> more(i)]) \o <<93>>

\* encodeAsString()
encodeAsString(p) ==
  <<48 + p.type>>
    \o (IF p.type \in {BINARY_EVENT, BINARY_ACK} THEN Decimal(p.attachments) \o <<45>> ELSE <<>>)
    \o (IF p.nsp = <<47>> THEN <<>> ELSE p.nsp)
    \o (IF p.nsp = <<47>> \/ (p.id = None /\ p.data = <<>>) THEN <<>> ELSE <<44>>)
    \o (IF p.id = None THEN <<>> ELSE Decimal(p.id))
    \o (IF p.data = <<>> THEN <<>> ELSE Json(p.data))

encode_PackLast(p) ==   \* slip: the buffers go before the string they belong to
  IF p.type \in {BINARY_EVENT, BINARY_ACK}
  THEN Buffers(p) \o <<String(encodeAsString(Deconstructed(p)))>>
  ELSE <<String(encodeAsString(p))>>

\* encode(), and encodeAsBinary() once its blobs are read: the frames.
encode(p) ==
  IF p.type \in {BINARY_EVENT, BINARY_ACK}
  THEN <<String(encodeAsString(Deconstructed(p)))>> \o Buffers(p)
  ELSE <<String(encodeAsString(p))>>

-----------------------------------------------------------------------------
(* Decoder.                                                                *)

error == [type |-> ERROR, nsp |-> <<>>, id |-> None, data |-> <<>>, attachments |-> None]

\* External: what the text of a packet is after a WebSocket.
OverWebSocket(data) ==
  [i \in DOMAIN data |->
     IF data[i].kind = "text" THEN Item("text", Scalars(data[i].d)) ELSE data[i]]

\* tryParse(): JSON undone; what is no JSON is an error.
Plain ==
  LET read(p) == [p EXCEPT !.data = [i \in DOMAIN @ |->
                    IF @[i].kind = "blob" THEN Item("buffer", @[i].d) ELSE @[i]]]
      plain == {Deconstructed(read(p)).data : p \in Packets}
  IN plain \cup {OverWebSocket(d) : d \in plain}
tryParse(p, text) ==
  IF \E d \in Plain \ {<<>>} : Json(d) = text
  THEN [p EXCEPT !.data = CHOOSE d \in Plain \ {<<>>} : Json(d) = text]
  ELSE error

\* decodeString(): Number('') is 0; its "Illegal attachments" do
\* not come from an encoder.
decodeString(s) ==
  LET type == IF s = <<>> THEN 0 ELSE s[1] - 48
      binary == type \in {BINARY_EVENT, BINARY_ACK}
      dash == IF binary THEN Before(s, 2, 45) + 1 ELSE 1
      number(from, to) == Value([k \in 1 .. to - from + 1 |-> s[from + k - 1] - 48])
      spaced == dash < Len(s) /\ s[dash + 1] = 47
      comma == IF spaced THEN Before(s, dash + 1, 44) + 1 ELSE dash
      rest == SubSeq(s, comma + 1, Len(s))
      ids == {k \in DOMAIN rest : \A l \in 1 .. k : IsDigit(rest[l])}
      p == [type |-> type,
            nsp |-> IF spaced THEN SubSeq(s, dash + 1, comma - 1) ELSE <<47>>,
            id |-> IF ids = {} THEN None
                   ELSE number(comma + 1, comma + Cardinality(ids)),
            data |-> <<>>,
            attachments |-> IF binary THEN number(2, dash - 1) ELSE None]
      text == SubSeq(rest, Cardinality(ids) + 1, Len(rest))
  IN CASE type \notin 0 .. 6 -> error
       [] type \in 0 .. 6 /\ text = <<>> -> p
       [] OTHER -> tryParse(p, text)

\* A Decoder: its reconstructor is none, emptied (by destroy()), or holds a packet
\* and the buffers that came for it.
NoReconstructor == [holds |-> "none", packet |-> error, buffers |-> <<>>]
Emptied == [NoReconstructor EXCEPT !.holds = "nothing"]
BinaryReconstructor(p) == [holds |-> "packet", packet |-> p, buffers |-> <<>>]

\* takeBinaryData(), with finishedReconstruction(): the last buffer completes the packet.
\* An emptied reconstructor throws.
takeBinaryData(s, frame) ==
  LET held == s.reconstructor
      buffers == Append(held.buffers, frame)
  IN CASE held.holds # "packet" -> s
       [] held.holds = "packet" /\ Len(buffers) = held.packet.attachments ->
            [s EXCEPT !.reconstructor = NoReconstructor,
                      !.out = Append(@, Reconstructed(held.packet, buffers))]
       [] OTHER -> [s EXCEPT !.reconstructor.buffers = buffers]

\* Decoder.add(); s is a Decoder with the packets it emitted.  It throws at a buffer
\* when there is no reconstructor.
add(s, frame) ==
  LET p == decodeString(frame.d) IN
  CASE frame.text /\ p.type \in {BINARY_EVENT, BINARY_ACK} ->
         [s EXCEPT !.reconstructor = BinaryReconstructor(p),
                   !.out = IF p.attachments = 0 THEN Append(@, p) ELSE @]
    [] frame.text /\ p.type \notin {BINARY_EVENT, BINARY_ACK} -> [s EXCEPT !.out = Append(@, p)]
    [] OTHER -> takeBinaryData(s, frame)

\* Decoder.destroy()
destroy(s) ==
  IF s.reconstructor.holds = "none" THEN s ELSE [s EXCEPT !.reconstructor = Emptied]
=============================================================================
