------------------------------ MODULE EngineParser ------------------------------
(***************************************************************************)
(* engine.io-parser in socket.io.js: packets to and from strings and       *)
(* buffers, and payloads of several packets for the polling transport.  A  *)
(* Blob is its bytes; that reading one takes a while is left to Codec.     *)
(***************************************************************************)
EXTENDS Text, FiniteSets

LOCAL INSTANCE SequencesExt
LOCAL INSTANCE Functions

String(d) == [text |-> TRUE, d |-> d]
Buffer(d) == [text |-> FALSE, d |-> d]
Undefined == String(<<>>)   \* no data, and the empty string, look the same

\* packets: the types in the order of their numbers.
packetslist == <<"open", "close", "ping", "pong", "message", "upgrade", "noop">>
Number(type) == CHOOSE k \in 0 .. 6 : packetslist[k + 1] = type
Type(k) == IF k \in 0 .. 6 THEN packetslist[k + 1] ELSE "undefined"

err == [type |-> "error", data |-> String(<<112>>)]

IsDigit(u) == u \in 48 .. 57
Digits(n) == IF n < 10 THEN <<n>> ELSE IF n < 100 THEN <<n \div 10, n % 10>>
             ELSE <<n \div 100, (n \div 10) % 10, n % 10>>   \* bound: 999
Value(ds) == FoldLeft(LAMBDA acc, x : acc * 10 + x, 0, ds)
Decimal(n) == [i \in DOMAIN Digits(n) |-> 48 + Digits(n)[i]]

-----------------------------------------------------------------------------
(* Packets.                                                                *)

encodeBase64Packet(p) == String(<<98, 48 + Number(p.type)>> \o Btoa(p.data.d))

encodeArrayBuffer(p, supportsBinary) ==
  IF supportsBinary THEN Buffer(<<Number(p.type)>> \o p.data.d) ELSE encodeBase64Packet(p)

\* encodePacket(); no Blob gets here, as removeBlobs() of Codec has read them.
encodePacket(p, supportsBinary, utf8encode) ==
  IF ~ p.data.text THEN encodeArrayBuffer(p, supportsBinary)
  ELSE String(<<48 + Number(p.type)>> \o (IF utf8encode THEN Utf8Encode(p.data.d) ELSE p.data.d))

\* decodeBase64Packet()
decodeBase64Packet(d) ==
  [type |-> IF d # <<>> THEN Type(d[1] - 48) ELSE "undefined",
   data |-> Buffer(Base64Decode(SubSeq(d, 2, Len(d))))]

\* decodePacket(), tryDecode()
TextPacket(s) ==
  IF s # <<>> /\ s[1] \in 48 .. 54
  THEN [type |-> Type(s[1] - 48), data |-> String(SubSeq(s, 2, Len(s)))] ELSE err
decodePacket(data, utf8decode) ==
  CASE ~ data.text -> [type |-> IF data.d # <<>> THEN Type(data.d[1]) ELSE "undefined",
                       data |-> Buffer(SubSeq(data.d, 2, Len(data.d)))]
    [] data.text /\ data.d # <<>> /\ data.d[1] = 98 ->
         decodeBase64Packet(SubSeq(data.d, 2, Len(data.d)))
    [] OTHER -> TextPacket(IF utf8decode THEN Utf8Decode(data.d) ELSE data.d)

-----------------------------------------------------------------------------
(* Payloads.                                                               *)

hasBinary(ps) == \E i \in DOMAIN ps : ~ ps[i].data.text

EncodeOne_Bare(p) ==   \* slip: the length of the message before it is encoded
  Decimal(1 + Len(p.data.d)) \o <<58>> \o encodePacket(p, FALSE, TRUE).d

\* setLengthHeader(), encodeOne() of encodePayload()
EncodeOne(p) ==
  LET message == encodePacket(p, FALSE, TRUE).d IN Decimal(Len(message)) \o <<58>> \o message

\* map(): the results are in the order of the packets, whatever the order they come
\* in; they are joined.
map(results) == FlattenSeq(results)

\* An encoded packet in a payload of bytes: what it is, its length, 255, its bytes.
Header(e) == <<IF e.text THEN 0 ELSE 1>> \o Digits(Len(e.d)) \o <<255>>

encodePayloadAsArrayBuffer(ps) ==
  LET encoded == [i \in DOMAIN ps |-> encodePacket(ps[i], TRUE, TRUE)]
  IN Buffer(map([i \in DOMAIN ps |-> Header(encoded[i]) \o encoded[i].d]))

\* A Blob of the parts of each packet; the request sends its bytes.
encodePayloadAsBlob(ps) ==
  LET encodeOne(p) == LET e == encodePacket(p, TRUE, TRUE) IN Header(e) \o e.d
  IN Buffer(map([i \in DOMAIN ps |-> encodeOne(ps[i])]))

\* encodePayload() in a browser that can send binary data, and Blobs.
encodePayload(ps, browser) ==
  CASE browser.supportsBinary /\ hasBinary(ps) ->
         IF browser.sendsBlobs THEN encodePayloadAsBlob(ps) ELSE encodePayloadAsArrayBuffer(ps)
    [] ~ (browser.supportsBinary /\ hasBinary(ps)) /\ ps = <<>> -> String(<<48, 58>>)
    [] OTHER -> String(map([i \in DOMAIN ps |-> EncodeOne(ps[i])]))

\* The end of the run of x-free elements that starts at i, for a cursor.
Before(d, i, x) ==
  LET at == {k \in i .. Len(d) : d[k] = x} IN
  IF at = {} THEN Len(d) ELSE (CHOOSE k \in at : \A l \in at : k <= l) - 1

\* sliceBuffer(): an end of 0 is the end of the buffer.
sliceBuffer(d, start, end) ==
  SubSeq(d, start + 1, IF end = 0 \/ end > Len(d) THEN Len(d) ELSE end)

\* Each message of a payload on its own, as a packet.
Decoded(messages) == [k \in DOMAIN messages |-> decodePacket(messages[k], TRUE)]

\* decodePayloadAsBinary(): a message that is cut short is not noticed, a header
\* without an end is, and then nothing of the payload is delivered.  A length of 0,
\* or of no digits, takes all that is left, and goes on after the header.
TooLong == String(<<Bad>>)
decodePayloadAsBinary(d) ==
  LET from[i \in 1 .. Len(d) + 1] ==
        IF i > Len(d) THEN <<>>
        ELSE LET sep == Before(d, i + 1, 255) + 1
                 number(k) == FlattenSeq([l \in 1 .. k |-> Digits(d[i + l])])
                 header == number(sep - i - 1)
                 length == Value(header)
                 tail == i + 2 + Len(header)
                 message == [text |-> d[i] = 0, d |-> sliceBuffer(SubSeq(d, tail, Len(d)), 0, length)]
             IN IF sep > Len(d) \/ \E k \in 1 .. sep - i - 2 : Len(number(k)) > 310
                THEN <<TooLong>>
                ELSE <<message>>
                       \o from[IF tail + length > Len(d) THEN Len(d) + 1 ELSE tail + length]
  IN IF TooLong \in Range(from[1]) THEN <<err>> ELSE Decoded(from[1])

MessagesIn_NoCheck(d) ==   \* slip: takes a message that is shorter than its header
  LET from[i \in 1 .. Len(d) + 1] ==
        IF i > Len(d) THEN <<>>
        ELSE LET colon == Before(d, i, 58) + 1
                 header == SubSeq(d, i, colon - 1)
                 length == Value([k \in DOMAIN header |-> header[k] - 48])
                 end == IF colon + length > Len(d) THEN Len(d) ELSE colon + length
             IN IF colon > Len(d) \/ \E k \in DOMAIN header : ~ IsDigit(header[k])
                THEN <<Undefined>> ELSE <<String(SubSeq(d, colon + 1, end))>> \o from[end + 1]
  IN from[1]

\* The loop of decodePayload(): the messages before the first header that does not
\* hold or is cut short, and Undefined for that one, which is no packet.
MessagesIn(d) ==
  LET from[i \in 1 .. Len(d) + 1] ==
        IF i > Len(d) THEN <<>>
        ELSE LET colon == Before(d, i, 58) + 1
                 header == SubSeq(d, i, colon - 1)
                 length == Value([k \in DOMAIN header |-> header[k] - 48])
             IN CASE \/ colon > Len(d) \/ header = <<>> \/ colon + length > Len(d)
                     \/ \E k \in DOMAIN header : ~ IsDigit(header[k]) -> <<Undefined>>
                  [] length = 0 -> from[colon + 1]
                  [] OTHER -> <<String(SubSeq(d, colon + 1, colon + length))>>
                                \o from[colon + length + 1]
  IN from[1]

UpToError_Silent(packets) ==   \* slip: the packet that is wrong is left out
  SubSeq(packets, 1, Cardinality({k \in DOMAIN packets : \A l \in 1 .. k : packets[l] # err}))

\* decodePayload(): packets up to the first that is wrong, which is err.
UpToError(packets) ==
  SubSeq(packets, 1, Cardinality({k \in DOMAIN packets : \A l \in 1 .. k - 1 : packets[l] # err}))

decodePayload(data) ==
  IF ~ data.text THEN decodePayloadAsBinary(data.d)
  ELSE UpToError(Decoded(IF data.d = <<>> THEN <<Undefined>> ELSE MessagesIn(data.d)))
=============================================================================
