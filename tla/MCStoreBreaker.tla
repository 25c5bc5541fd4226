--------------------------- MODULE MCStoreBreaker ---------------------------
(* An instance of StoreBreaker for TLC.                                       *)
EXTENDS StoreBreaker

CONSTANTS q1, q2, q3

ThreeRequests == {q1, q2, q3}
=============================================================================
