--------------------------------- MODULE MCCodec ---------------------------------
(* Codec with a connect, an event with text of every length of code, an event    *)
(* with buffers and half a surrogate pair, and an ack with two blobs.            *)
EXTENDS Codec

Message(type, nsp, id, data) ==
  [type |-> type, nsp |-> nsp, id |-> id, data |-> data, attachments |-> None]

Samples ==
  {Message(CONNECT, <<47, 97>>, None, <<>>),
   Message(EVENT, <<47>>, None, <<Item("text", <<58, 233, 8364, 55357, 56832>>)>>),
   Message(EVENT, <<47, 97>>, 10,
           <<Item("text", <<55357>>), Item("buffer", <<255, 0>>), Item("buffer", <<58>>)>>),
   Message(ACK, <<47>>, 0, <<Item("blob", <<1, 2, 3>>), Item("blob", <<52, 128, 200>>)>>)}
=============================================================================
