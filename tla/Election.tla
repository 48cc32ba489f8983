------------------------------- MODULE Election -------------------------------
(***************************************************************************)
(* What leader election promises: at most one process leads at a time, and *)
(* each leadership has a token of its own, larger than all earlier ones,   *)
(* by which the works of successive leaders can be told apart and ordered. *)
(***************************************************************************)
EXTENDS Naturals

CONSTANT Process

VARIABLES
  leader,  \* the processes that lead: none or one
  token,   \* the token of the present leader or of the candidate next in line
  spent    \* the process this token was meant for is gone: nobody may use it

Init ==
  /\ leader = {}
  /\ token \in Nat
  /\ spent = FALSE

Elect(p) ==
  /\ leader = {} /\ ~ spent
  /\ leader' = {p}
  /\ UNCHANGED <<token, spent>>

\* The holder of the token, leading or not yet, goes away for good.
Abandon ==
  /\ leader' = {}
  /\ spent' = TRUE
  /\ token' = token

\* ... and the token with it: the next candidate has a larger one.
Advance ==
  /\ leader' = {}
  /\ token' \in Nat /\ token' > token
  /\ spent' \in BOOLEAN

Next == (\E p \in Process : Elect(p)) \/ Abandon \/ Advance

Spec == Init /\ [][Next]_<<leader, token, spent>>
=============================================================================
