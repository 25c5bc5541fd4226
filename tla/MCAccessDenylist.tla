-------------------------- MODULE MCAccessDenylist --------------------------
(* An instance of AccessDenylist for TLC: a token that expires within the     *)
(* bound of the clock.                                                        *)
EXTENDS AccessDenylist

CONSTANTS r1, r2, h1, t1

TwoReplicas == {r1, r2}
OneHandler == {h1}
OneToken == {t1}
ExpiresAtOne == [t \in OneToken |-> 1]
AllFaults == {"crash", "fail"}
LateStore == -1
=============================================================================
