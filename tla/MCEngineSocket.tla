----------------------------- MODULE MCEngineSocket -----------------------------
(* EngineSocket for TLC. *)
EXTENDS EngineSocket

AllTransports == {"polling", "jsonp", "websocket"}
AllFaults == {"net", "server", "garbage"}
=============================================================================
