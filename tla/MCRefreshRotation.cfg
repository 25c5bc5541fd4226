SPECIFICATION Spec
CONSTANTS
  Users = {u1}
  Requests = {r1, r2}
  MaxJti = 3
  MaxTime = 3
  Lifetime = 3
  Grace = 1
  RotationEnabled = TRUE
SYMMETRY Symmetry
INVARIANTS
  TypeOK
  ChainsStayInTheirSession
  SuccessorsAreUnique
  SessionNeverExtended
  RefusedTokenIsNotExchanged
PROPERTIES
  DenylistNeverForgets
CHECK_DEADLOCK FALSE
