---------------------------------- MODULE Wire ----------------------------------
(***************************************************************************)
(* What a connection promises its user: it opens at most once and ends at  *)
(* most once; what is written before the end arrives in order and at most  *)
(* once, in both directions, without a gap where it is whole; nothing is   *)
(* taken or handed out after the end.  How much arrives is not promised.   *)
(***************************************************************************)
EXTENDS Naturals, Sequences

VARIABLES
  state,     \* opening, open, over
  sent,      \* what the near end wrote
  received,  \* what of it the far end has
  served,    \* what the far end wrote
  got,       \* what of it was handed to the near end
  whole      \* what is lost on the way to the far end is noticed

vars == <<state, sent, received, served, got, whole>>

Begins(s, t) == Len(s) <= Len(t) /\ s = SubSeq(t, 1, Len(s))

\* s is t with some elements left out.
Within(s, t) ==
  \E f \in [DOMAIN s -> DOMAIN t] :
    \A i \in DOMAIN s : s[i] = t[f[i]] /\ \A j \in 1 .. i - 1 : f[j] < f[i]

Init == state = "opening" /\ sent = <<>> /\ received = <<>> /\ served = <<>> /\ got = <<>>
        /\ whole \in BOOLEAN

Age(st) == IF st = "opening" THEN 0 ELSE IF st = "open" THEN 1 ELSE 2

\* The far end may hear late; the near end stops for good.
Next ==
  /\ Age(state) <= Age(state')
  /\ Begins(sent, sent') /\ Begins(received, received')
  /\ IF whole THEN Begins(received', sent') ELSE Within(received', sent')
  /\ Begins(served, served') /\ Begins(got, got') /\ Begins(got', served')
  /\ UNCHANGED whole
  /\ state = "over" => UNCHANGED <<sent, got>>

Spec == Init /\ [][Next]_vars
=============================================================================
