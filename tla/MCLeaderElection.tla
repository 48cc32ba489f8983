--------------------------- MODULE MCLeaderElection ---------------------------
(* Instances of LeaderElection for TLC.                                     *)
EXTENDS LeaderElection, TLC

CONSTANTS p1, p2, p3

Trio == {p1, p2, p3}
Pair == {p1, p2}
AllFaults == {"crash", "expire", "connloss"}
NoFault == {}
Symmetric == Permutations(Client)
=============================================================================
