SPECIFICATION Spec
CONSTANTS
  root = root  ana = ana  bo = bo  q1 = q1  q2 = q2
  Users = {root, ana, bo}
  Seeded = root
  Others = {ana}
  Addresses = {"first", "second", "third"}
  FirstEmail <- MCFirstEmail
  Keep = Keep  NotMailed = NotMailed
  Bodies <- MCBodies
  Tokens = {"t1"}
  Requests = {q1, q2}
  MaxRequests = 2
SYMMETRY Symmetric
INVARIANTS TypeOK AnAdministratorRemains
PROPERTIES OnlyTheFlagDoes LockedStaysShut LinksServeTheirMailbox
CHECK_DEADLOCK FALSE
