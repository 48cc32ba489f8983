------------------------------- MODULE FifoLock -------------------------------
(***************************************************************************)
(* What a fair lock promises: whoever wants the lock draws a ticket, one   *)
(* ticket at a time is granted the lock, and tickets are granted in the    *)
(* order in which they were drawn.                                         *)
(***************************************************************************)
EXTENDS Naturals

VARIABLES
  line,  \* the tickets drawn and not given back
  held,  \* the tickets that have the lock: none or one
  next   \* the next ticket

Init == line = {} /\ held = {} /\ next \in Nat

Draw ==
  /\ line' = line \cup {next}
  /\ next' = next + 1
  /\ UNCHANGED held

Grant(k) ==
  /\ held = {}
  /\ \A j \in line : k <= j
  /\ held' = {k}
  /\ UNCHANGED <<line, next>>

Release(k) ==
  /\ held = {k}
  /\ held' = {}
  /\ line' = line \ {k}
  /\ UNCHANGED next

Next == Draw \/ \E k \in line : Grant(k) \/ Release(k)

Spec == Init /\ [][Next]_<<line, held, next>>
=============================================================================
