---------------------------------- MODULE Job ----------------------------------
(***************************************************************************)
(* What a submitted job promises: work is done piece by piece, an attempt  *)
(* may be given up and begun again, success is decided only when Needed    *)
(* pieces of the present attempt are done, the outcome is decided once,    *)
(* and the submitter is told that outcome or nothing.                      *)
(***************************************************************************)
EXTENDS Naturals

CONSTANT Needed

VARIABLES done, outcome, told

vars == <<done, outcome, told>>

Init == done = 0 /\ outcome = "none" /\ told = "none"

Work == outcome = "none" /\ done' = done + 1 /\ UNCHANGED <<outcome, told>>

Restart == outcome = "none" /\ done' = 0 /\ UNCHANGED <<outcome, told>>

Succeed ==
  /\ outcome = "none" /\ done >= Needed
  /\ outcome' = "FINISHED"
  /\ UNCHANGED <<done, told>>

Abort ==
  /\ outcome = "none"
  /\ outcome' \in {"FAILED", "KILLED"}
  /\ UNCHANGED <<done, told>>

Tell ==
  /\ outcome # "none" /\ told = "none"
  /\ told' = outcome
  /\ UNCHANGED <<done, outcome>>

Next == Work \/ Restart \/ Succeed \/ Abort \/ Tell

Spec == Init /\ [][Next]_vars
=============================================================================
