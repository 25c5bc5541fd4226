--------------------------- MODULE MCResourceQuota ---------------------------
(* Three requests race for two units among three ids.                         *)
EXTENDS ResourceQuota

CONSTANTS p1, p2, p3, i1, i2, i3

ThreeRequests == {p1, p2, p3}
ThreeItems == {i1, i2, i3}
RecountOnly == {"recount"}
=============================================================================
