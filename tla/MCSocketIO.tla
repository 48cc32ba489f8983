------------------------------- MODULE MCSocketIO -------------------------------
(* SocketIO with the namespace of the dashboard and one that shares its         *)
(* connection.  One page emits in the first and leaves only that one; another   *)
(* emits nothing and leaves both, so that the Manager is closed with the last.  *)
EXTENDS SocketIO

TwoNamespaces == {"/", "/a"}
BothPages == {[emits |-> {"/"}, leaves |-> {"/"}], [emits |-> {}, leaves |-> {"/", "/a"}]}
=============================================================================
