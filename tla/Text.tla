---------------------------------- MODULE Text ----------------------------------
(***************************************************************************)
(* How socket.io.js turns text and bytes into what a connection carries:   *)
(* wtf8 and base64-arraybuffer.  A string is the sequence of its UTF-16    *)
(* code units, a buffer the sequence of its bytes; shifts and masks are    *)
(* written as quotients and remainders.                                    *)
(***************************************************************************)
EXTENDS Integers, Sequences

LOCAL INSTANCE SequencesExt
LOCAL INSTANCE Functions

Bad == -1   \* an exception of the decoder

High(u) == u \in 55296 .. 56319
Low(u) == u \in 56320 .. 57343

\* ucs2decode(): code points; a surrogate without its partner stands for itself.
Points(s) ==
  LET from[i \in 1 .. Len(s) + 1] ==
        CASE i > Len(s) -> <<>>
          [] i < Len(s) /\ High(s[i]) /\ Low(s[i + 1]) ->
               <<(s[i] % 1024) * 1024 + (s[i + 1] % 1024) + 65536>> \o from[i + 2]
          [] OTHER -> <<s[i]>> \o from[i + 1]
  IN from[1]

\* ucs2encode()
Units(p) ==
  IF p > 65535 THEN <<55296 + (((p - 65536) \div 1024) % 1024), 56320 + ((p - 65536) % 1024)>>
  ELSE <<p>>

\* External: WebSocket.send() makes U+FFFD of a surrogate without its partner.
Scalars(s) ==
  LET points == Points(s)
  IN FlattenSeq([i \in DOMAIN points |->
       IF High(points[i]) \/ Low(points[i]) THEN <<65533>> ELSE Units(points[i])])

\* createByte()
Continuation(p, shift) == 128 + ((p \div shift) % 64)

\* encodeCodePoint()
Bytes(p) ==
  CASE p < 128 -> <<p>>
    [] p \in 128 .. 2047 -> <<192 + p \div 64, Continuation(p, 1)>>
    [] p \in 2048 .. 65535 ->
         <<224 + p \div 4096, Continuation(p, 64), Continuation(p, 1)>>
    [] p > 65535 -> <<240 + p \div 262144, Continuation(p, 4096), Continuation(p, 64),
                      Continuation(p, 1)>>

\* wtf8encode()
Utf8Encode(s) ==
  LET points == Points(s) IN FlattenSeq([i \in DOMAIN points |-> Bytes(points[i])])

\* readContinuationByte() of the k bytes after the i-th: all of them, or Bad.
Continued(b, i, k) ==
  IF i + k > Len(b) \/ \E j \in i + 1 .. i + k : b[j] \div 64 # 2 THEN Bad
  ELSE FoldLeft(LAMBDA acc, x : acc * 64 + (x % 64), 0, SubSeq(b, i + 1, i + k))

\* decodeSymbol(): how many bytes follow a first byte, 4 for one that is none, the
\* bits the first byte gives, and the least code point that takes so many bytes.
Following(b1) == CASE b1 < 128 -> 0 [] b1 \in 192 .. 223 -> 1 [] b1 \in 224 .. 239 -> 2
                   [] b1 \in 240 .. 247 -> 3 [] OTHER -> 4
Joined(b1, k, tail) ==
  IF tail = Bad \/ (b1 % (64 \div 2 ^ k)) * 64 ^ k + tail \notin <<128, 2048, 65536>>[k] .. 1114111
  THEN Bad ELSE (b1 % (64 \div 2 ^ k)) * 64 ^ k + tail
Symbol(b, i, k) ==
  CASE k = 0 -> b[i] [] k \in 1 .. 3 -> Joined(b[i], k, Continued(b, i, k)) [] OTHER -> Bad

\* wtf8decode(): the string, or Bad when one of its bytes is out of place.
UnitsOf(b) ==
  LET from[i \in 1 .. Len(b) + 1] ==
        CASE i > Len(b) -> <<>>
          [] i <= Len(b) /\ Symbol(b, i, Following(b[i])) = Bad -> <<Bad>>
          [] OTHER -> Units(Symbol(b, i, Following(b[i]))) \o from[i + Following(b[i]) + 1]
  IN from[1]
Octets(points) == [i \in DOMAIN points |-> points[i] % 256]
Whole(text) == IF Bad \in Range(text) THEN <<Bad>> ELSE text
Utf8Decode(s) == Whole(UnitsOf(Octets(Points(s))))

-----------------------------------------------------------------------------
(* base64                                                                  *)

\* chars, lookup: the digits of base 64 and their values (0 for what is none).
Digit(v) == CASE v < 26 -> 65 + v [] v \in 26 .. 51 -> 71 + v [] v \in 52 .. 61 -> v - 4
              [] v = 62 -> 43 [] v = 63 -> 47
Lookup(u) == CASE u \in 65 .. 90 -> u - 65 [] u \in 97 .. 122 -> u - 71
               [] u \in 48 .. 57 -> u + 4 [] u = 43 -> 62 [] u = 47 -> 63 [] OTHER -> 0

\* External: the browser's btoa().
Btoa(d) ==
  LET byte(i) == IF i <= Len(d) THEN d[i] ELSE 0
      group(i) == <<Digit(byte(i) \div 4), Digit((byte(i) % 4) * 16 + byte(i + 1) \div 16),
                    IF i + 1 <= Len(d)
                      THEN Digit((byte(i + 1) % 16) * 4 + byte(i + 2) \div 64) ELSE 61,
                    IF i + 2 <= Len(d) THEN Digit(byte(i + 2) % 64) ELSE 61>>
  IN FlattenSeq([g \in 1 .. (Len(d) + 2) \div 3 |-> group(3 * g - 2)])

\* decode() of base64-arraybuffer.
Base64Decode(t) ==
  LET e(i) == IF i <= Len(t) THEN Lookup(t[i]) ELSE 0
      pads == CASE t = <<>> \/ t[Len(t)] # 61 -> 0
                [] t # <<>> /\ t[Len(t)] = 61 /\ (Len(t) = 1 \/ t[Len(t) - 1] # 61) -> 1
                [] OTHER -> 2
      at(p) == 4 * ((p - 1) \div 3)
  IN [p \in 1 .. (3 * Len(t)) \div 4 - pads |->
        CASE p % 3 = 1 -> (e(at(p) + 1) * 4 + e(at(p) + 2) \div 16) % 256
          [] p % 3 = 2 -> (e(at(p) + 2) % 16) * 16 + e(at(p) + 3) \div 4
          [] p % 3 = 0 -> (e(at(p) + 3) % 4) * 64 + e(at(p) + 4)]
=============================================================================
