SPECIFICATION Spec
CONSTANTS
  Users = {u1, u2}
  Requests = {r1, r2}
  MaxJti = 3
  MaxTime = 4
  Lifetime = 3
  Grace = 1
  RotationEnabled = TRUE
SYMMETRY Symmetry
INVARIANTS
  EndedSessionIsOver
CHECK_DEADLOCK FALSE
