------------------------------- MODULE MCYarnApp -------------------------------
(* Instances of YarnApp for TLC. *)
EXTENDS YarnApp

AllFaults == {"am", "launch", "client", "kill"}
=============================================================================
