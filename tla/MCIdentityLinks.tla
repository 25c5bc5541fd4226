--------------------------- MODULE MCIdentityLinks ---------------------------
(* Two requests at a time, among accounts linked to two providers.            *)
EXTENDS IdentityLinks, TLC

CONSTANTS p1, p2, i1, i2, s1, s2, r1, r2

TwoProviders == {p1, p2}
TwoIssuers == {i1, i2}
TwoSubjects == {s1, s2}
TwoRequests == {r1, r2}
Alike == Permutations(TwoProviders) \cup Permutations(TwoSubjects)
         \cup Permutations(TwoRequests)
=============================================================================
