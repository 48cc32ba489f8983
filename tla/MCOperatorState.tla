---------------------------- MODULE MCOperatorState ----------------------------
(* Instances of OperatorState for TLC.                                       *)
EXTENDS OperatorState
=============================================================================
