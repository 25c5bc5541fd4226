SPECIFICATION Spec
CONSTANTS
  root = root  ana = ana  bo = bo
  adm = adm  member = member  spare = spare
  full = full  tasks = tasks  fresh = fresh
  q1 = q1  q2 = q2
  Users = {root, ana, bo}
  Administrators = {root}
  Roles = {adm, member, spare}
  SystemRoles = {adm}
  AutoAssign = {member}
  Policies = {full, tasks, fresh}
  SystemPolicies = {full}
  Actions = {"get", "post"}
  Resources = {"a", "b"}
  Star = Star
  Root = root
  AdministratorRole = adm
  FullAccess = full
  Requests = {q1, q2}
  Replicas = {"r1"}
  NoRow = NoRow  NoEntry = NoEntry  NoFill = NoFill  Keep = Keep
  NewGrants <- MCNewGrants
  Edits <- MCEdits
  FirstUsers = {root, ana}
  FirstRoles = {adm, member}
  FirstGrants <- MCFirstGrants
  FirstLinks <- MCFirstLinks
  Callers = {root, ana}
  Readers = {ana}
  Batch = 1
SYMMETRY Symmetric
INVARIANTS TypeOK BootstrapKeepsEverything GrantsAreVouched RevokedGrantsAreDropped
CHECK_DEADLOCK FALSE
