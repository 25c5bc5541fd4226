------------------------- MODULE MCRefreshRotation -------------------------
(* RefreshRotation on small instances. *)
EXTENDS RefreshRotation, TLC

Symmetry == Permutations(Requests) \cup Permutations(Users)
=============================================================================
