SPECIFICATION SequentialSpec
CONSTANTS
  Users = {u1}
  Requests = {r1, r2}
  MaxJti = 3
  MaxTime = 3
  Lifetime = 3
  Grace = 1
  RotationEnabled = TRUE
SYMMETRY Symmetry
INVARIANTS
  AtMostOneLiveToken
PROPERTIES
  SessionsAreSingleUse
CHECK_DEADLOCK FALSE
