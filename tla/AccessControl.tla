------------------------------ MODULE AccessControl ------------------------------
(* Roles, policies and the effective permissions of an account: the links the    *)
(* management routes write, the guard that lets a caller hand out only what it   *)
(* holds, the triggers that keep the bootstrap administrator in power, and the   *)
(* cached copy of an account's permissions that decides every request.           *)
(*                                                                               *)
(* A management request is a handler that reads, asks the guard, writes and then *)
(* invalidates cache keys, each a statement of its own: requests interleave      *)
(* between any two of them.                                                      *)
EXTENDS Naturals, FiniteSets

CONSTANTS
  Users, Administrators,      \* accounts, and those with the `admin` flag
  Roles, SystemRoles, AutoAssign,
  Policies, SystemPolicies,
  Actions, Resources, Star,   \* Star is the "*" of a policy
  Root, AdministratorRole, FullAccess,   \* the three rows the migrations seed
  Requests, Replicas,
  NoRow, NoEntry, NoFill, Keep,
  NewGrants, Edits,           \* bound: what a new policy and an edit may say
  FirstUsers, FirstRoles, FirstGrants,   \* the rows the instance starts with
  FirstLinks,                 \* and the links, one of these
  Callers, Readers,           \* bound: the accounts that ask, and those whose
                              \* decisions are modelled
  Batch                       \* bound: the ids one link request may name

Grants == [action : Actions \cup {Star}, resource : Resources \cup {Star}]
Everything == [action |-> Star, resource |-> Star]

ASSUME SeedAssumption ==
  /\ Root \in FirstUsers /\ FirstUsers \subseteq Users
  /\ AdministratorRole \in SystemRoles /\ SystemRoles \subseteq FirstRoles
  /\ FirstRoles \subseteq Roles /\ AutoAssign \subseteq FirstRoles
  /\ FullAccess \in SystemPolicies /\ SystemPolicies \subseteq Policies
  /\ FirstGrants \in [Policies -> Grants \cup {NoRow}]
  /\ FirstGrants[FullAccess] = Everything
  /\ NoRow \notin Grants /\ NewGrants \subseteq Grants
  /\ \A l \in FirstLinks :
       /\ l.holds \subseteq FirstUsers \X FirstRoles
       /\ l.composes \subseteq FirstRoles \X {p \in Policies : FirstGrants[p] # NoRow}
       /\ <<Root, AdministratorRole>> \in l.holds
       /\ <<AdministratorRole, FullAccess>> \in l.composes
  /\ Edits \subseteq [action : Actions \cup {Star, Keep},
                    resource : Resources \cup {Star, Keep}]

VARIABLES
  users, roles,   \* ids of the rows there are
  policy,         \* policies: allowed_action and allowed_resource, or NoRow
  spent,          \* ids of rows that are gone: an id is a UUID, never used twice
  holds,          \* users_roles
  composes,       \* roles_policies
  request,        \* where each management request is, and what it has read
  entry,          \* cache:authz:<uid>, with the keys it depends on
  fill,           \* a read of the permissions on its way into the cache
  vouched,        \* history: the grants a caller was checked to hold, and was
  raced,          \* history: policies edited over a row that was not the one read
  excused         \* history: accounts whose entry missed an invalidation

tables == <<users, roles, policy, spent, holds, composes>>
vars == <<tables, request, entry, fill, vouched, raced, excused>>

----------------------------------------------------------------------------------
(* What an account may do                                                        *)

Composing(u) == {rp \in composes : <<u, rp[1]>> \in holds}

\* SelectAuthz: users -> roles -> policies, joined
Effective(u) == {policy[rp[2]] : rp \in Composing(u)}

\* (fault) the policies are left out: a role's own key seems to cover them
DependenciesOnRoles(u) ==
  {<<"user", u>>} \cup {<<"role", rp[1]>> : rp \in Composing(u)}

\* userAuthFetcher: the account, and the roles and policies the joins answered
Dependencies(u) ==
  {<<"user", u>>} \cup {<<"role", rp[1]>> : rp \in Composing(u)}
                  \cup {<<"policy", rp[2]>> : rp \in Composing(u)}

\* covers: the same action, or *, on the same pattern, or on *
Covers(held, g) ==
  \E h \in held : h.resource \in {Star, g.resource} /\ h.action \in {Star, g.action}

\* what COALESCE(NULLIF($n, ''), column) leaves of a row
Merged(row, edit) ==
  [action |-> IF edit.action = Keep THEN row.action ELSE edit.action,
   resource |-> IF edit.resource = Keep THEN row.resource ELSE edit.resource]

----------------------------------------------------------------------------------
(* The handlers: decode, validate, and who asks                                  *)

NoRequest == [at |-> "start", op |-> "none", caller |-> Root, users |-> {},
              roles |-> {}, policies |-> {}, grant |-> NoRow, row |-> NoRow,
              read |-> {}, asked |-> {}, keys |-> {}]

\* what a request has read goes with it
Finished == [NoRequest EXCEPT !.at = "done"]

Named(S) == {s \in SUBSET S : s # {} /\ Cardinality(s) <= Batch}

Ask(q, at, op, us, rs, ps, grant, asked) ==
  /\ request[q].at = "start"
  /\ \E c \in users \cap Callers :
       request' = [request EXCEPT ![q] =
         [at |-> at, op |-> op, caller |-> c, users |-> us, roles |-> rs,
          policies |-> ps, grant |-> grant, row |-> NoRow, read |-> {},
          asked |-> asked, keys |-> {}]]
  /\ UNCHANGED <<tables, entry, fill, vouched, raced, excused>>

CreatePolicy(q) == \E p \in Policies, g \in NewGrants :
                     Ask(q, "check", "create policy", {}, {}, {p}, g, {g})
UpdatePolicy(q) == \E p \in Policies, e \in Edits :
                     Ask(q, "read", "update policy", {}, {}, {p}, e, {})
DeletePolicy(q) == \E p \in Policies :
                     Ask(q, "write", "delete policy", {}, {}, {p}, NoRow, {})
CreateRole(q) == \E r \in Roles : Ask(q, "write", "create role", {}, {r}, {}, NoRow, {})
UpdateRole(q) == \E r \in Roles : Ask(q, "write", "update role", {}, {r}, {}, NoRow, {})
DeleteRole(q) == \E r \in Roles : Ask(q, "guard", "delete role", {}, {r}, {}, NoRow, {})
CreateUser(q) == \E u \in Users : Ask(q, "write", "create user", {u}, {}, {}, NoRow, {})
DeleteUser(q) == \E u \in Users : Ask(q, "guard", "delete user", {u}, {}, {}, NoRow, {})

\* POST and DELETE /roles/{role_id}/users
LinkUsers(q) == \E r \in Roles, us \in Named(Users) :
                  Ask(q, "read", "link users", us, {r}, {}, NoRow, {})
UnlinkUsers(q) == \E r \in Roles, us \in Named(Users) :
                    Ask(q, "guard", "unlink users", us, {r}, {}, NoRow, {})
\* POST and DELETE /users/{user_id}/roles
LinkRolesToUser(q) == \E u \in Users, rs \in Named(Roles) :
                        Ask(q, "read", "link users", {u}, rs, {}, NoRow, {})
UnlinkRolesFromUser(q) == \E u \in Users, rs \in Named(Roles) :
                            Ask(q, "guard", "unlink users", {u}, rs, {}, NoRow, {})
\* POST and DELETE /roles/{role_id}/policies
LinkPolicies(q) == \E r \in Roles, ps \in Named(Policies) :
                     Ask(q, "read", "link policies", {}, {r}, ps, NoRow, {})
UnlinkPolicies(q) == \E r \in Roles, ps \in Named(Policies) :
                       Ask(q, "write", "unlink policies", {}, {r}, ps, NoRow, {})
\* POST and DELETE /policies/{policy_id}/roles
LinkRolesToPolicy(q) == \E p \in Policies, rs \in Named(Roles) :
                          Ask(q, "read", "link policies", {}, rs, {p}, NoRow, {})
UnlinkRolesFromPolicy(q) == \E p \in Policies, rs \in Named(Roles) :
                              Ask(q, "write", "unlink policies", {}, rs, {p}, NoRow, {})

----------------------------------------------------------------------------------
(* The guards                                                                    *)

At(q, at, op) == request[q].at = at /\ request[q].op = op

\* one more of the ids a link names has been read: once all have, what they grant
\* is put to CheckGrants
Handing(q, named, id, grants) ==
  LET read == request[q].read \cup {id} IN
  /\ request' = [request EXCEPT
       ![q].read = read,
       ![q].asked = request[q].asked \cup grants,
       ![q].at = IF named \subseteq read THEN "check" ELSE "read"]
  /\ UNCHANGED <<tables, entry, fill, vouched, raced, excused>>

\* what one of the roles composes now, on one page; a role that is not there
\* composes nothing
CheckRoles(q) ==
  /\ At(q, "read", "link users")
  /\ \E r \in request[q].roles \ request[q].read :
       Handing(q, request[q].roles, r,
               {policy[rp[2]] : rp \in {x \in composes : x[1] = r}})

\* one of the policies; one that is not there ends the request
CheckPolicies(q) ==
  /\ At(q, "read", "link policies")
  /\ \E p \in request[q].policies \ request[q].read :
       /\ policy[p] # NoRow
       /\ Handing(q, request[q].policies, p, {policy[p]})

\* (fault) the grant that is asked for is the one the row has, not the one it gets
ReadPolicyAsItIs(q) ==
  /\ At(q, "read", "update policy")
  /\ \E p \in request[q].policies :
       /\ policy[p] # NoRow
       /\ request' = [request EXCEPT ![q].row = policy[p], ![q].asked = {policy[p]},
                                     ![q].at = "check"]
  /\ UNCHANGED <<tables, entry, fill, vouched, raced, excused>>

\* the row as it is, and the grant the edit would leave; what changes no grant
\* is not guarded
ReadPolicy(q) ==
  /\ At(q, "read", "update policy")
  /\ \E p \in request[q].policies :
       /\ policy[p] # NoRow
       /\ LET merged == Merged(policy[p], request[q].grant) IN
          request' = [request EXCEPT
            ![q].row = policy[p],
            ![q].asked = IF merged = policy[p] THEN {} ELSE {merged},
            ![q].at = IF merged = policy[p] THEN "write" ELSE "check"]
  /\ UNCHANGED <<tables, entry, fill, vouched, raced, excused>>

\* the caller's live grants, read after what is asked for, must cover it all
CheckGrants(q) ==
  LET held == Effective(request[q].caller) IN
  /\ request[q].at = "check"
  /\ \A g \in request[q].asked : Covers(held, g)
  /\ request' = [request EXCEPT ![q].at = "write", ![q].asked = {}]
  /\ vouched' = vouched \cup {g \in request[q].asked : Covers(held, g)}
  /\ UNCHANGED <<tables, entry, fill, raced, excused>>

\* accounts with the flag lose a role, or go, only at the hand of one with it
AdministratorsAreNotStripped(q) ==
  LET stripped == IF request[q].op = "delete role"
                  THEN {u \in Administrators : \E r \in request[q].roles :
                          <<u, r>> \in holds /\ r \notin SystemRoles}
                  ELSE request[q].users \cap Administrators IN
  /\ request[q].at = "guard"
  /\ stripped = {} \/ request[q].caller \in Administrators \cap users
  /\ request' = [request EXCEPT ![q].at = "write"]
  /\ UNCHANGED <<tables, entry, fill, vouched, raced, excused>>

----------------------------------------------------------------------------------
(* The statements, and the keys each use case then invalidates                   *)

Keys(kind, ids) == {<<kind, i>> : i \in ids}

\* a committed statement: what is on its way into the cache was read before it
Committed(q, keys) ==
  /\ request' = [request EXCEPT ![q] = IF keys = {} THEN Finished
                   ELSE [NoRequest EXCEPT !.at = "drop", !.keys = keys]]
  /\ fill' = [f \in Replicas |-> IF fill[f] = NoFill THEN NoFill
                                 ELSE [fill[f] EXCEPT !.overtaken = TRUE]]
  /\ UNCHANGED <<entry, vouched, excused>>

Fresh(i) == i \notin spent

InsertPolicy(q) ==
  /\ At(q, "write", "create policy")
  /\ \E p \in request[q].policies :
       /\ policy[p] = NoRow /\ Fresh(p)
       /\ policy' = [policy EXCEPT ![p] = request[q].grant]
  /\ Committed(q, {})
  /\ UNCHANGED <<users, roles, spent, holds, composes, raced>>

UpdatePolicyRow(q) ==
  /\ At(q, "write", "update policy")
  /\ \E p \in request[q].policies :
       /\ policy[p] # NoRow /\ p \notin SystemPolicies
       /\ policy' = [policy EXCEPT ![p] = Merged(policy[p], request[q].grant)]
       /\ raced' = IF policy[p] = request[q].row THEN raced ELSE raced \cup {p}
  /\ Committed(q, Keys("policy", request[q].policies))
  /\ UNCHANGED <<users, roles, spent, holds, composes>>

\* a system row's own trigger refuses; the links of a row go with it (ON DELETE
\* CASCADE)
DeletePolicyRow(q) ==
  LET ps == request[q].policies IN
  /\ At(q, "write", "delete policy")
  /\ \A p \in ps : policy[p] # NoRow /\ p \notin SystemPolicies
  /\ policy' = [p \in Policies |-> IF p \in ps THEN NoRow ELSE policy[p]]
  /\ composes' = {x \in composes : x[2] \notin ps}
  /\ spent' = spent \cup ps
  /\ Committed(q, Keys("policy", ps))
  /\ UNCHANGED <<users, roles, holds, raced>>

InsertRole(q) ==
  /\ At(q, "write", "create role")
  /\ \A r \in request[q].roles : r \notin roles /\ Fresh(r)
  /\ roles' = roles \cup request[q].roles
  /\ Committed(q, {})
  /\ UNCHANGED <<users, policy, spent, holds, composes, raced>>

\* a role's own columns say nothing about what it grants
UpdateRoleRow(q) ==
  /\ At(q, "write", "update role")
  /\ request[q].roles \subseteq roles \ SystemRoles
  /\ Committed(q, Keys("role", request[q].roles))
  /\ UNCHANGED <<tables, raced>>

\* (fault) roles_policies without its ON DELETE CASCADE
DeleteRoleRowAlone(q) ==
  LET rs == request[q].roles IN
  /\ At(q, "write", "delete role")
  /\ rs \subseteq roles \ SystemRoles
  /\ roles' = roles \ rs
  /\ holds' = {x \in holds : x[2] \notin rs}
  /\ spent' = spent \cup rs
  /\ Committed(q, Keys("role", rs))
  /\ UNCHANGED <<users, policy, composes, raced>>

DeleteRoleRow(q) ==
  LET rs == request[q].roles IN
  /\ At(q, "write", "delete role")
  /\ rs \subseteq roles \ SystemRoles
  /\ roles' = roles \ rs
  /\ holds' = {x \in holds : x[2] \notin rs}
  /\ composes' = {x \in composes : x[1] \notin rs}
  /\ spent' = spent \cup rs
  /\ Committed(q, Keys("role", rs))
  /\ UNCHANGED <<users, policy, raced>>

\* an account is stored with the roles every new account gets
InsertUser(q) ==
  /\ At(q, "write", "create user")
  /\ \A u \in request[q].users : u \notin users /\ Fresh(u)
  /\ users' = users \cup request[q].users
  /\ holds' = holds \cup (request[q].users \X (AutoAssign \cap roles))
  /\ Committed(q, {})
  /\ UNCHANGED <<roles, policy, spent, composes, raced>>

\* (fault) only the DELETE route is protected, not the cascade from the account
DeleteUserRowUnprotected(q) ==
  LET us == request[q].users IN
  /\ At(q, "write", "delete user")
  /\ us \subseteq users
  /\ users' = users \ us
  /\ holds' = {x \in holds : x[1] \notin us}
  /\ spent' = spent \cup us
  /\ Committed(q, Keys("user", us))
  /\ UNCHANGED <<roles, policy, composes, raced>>

\* the cascade deletes the links, whose trigger may refuse the whole statement
DeleteUserRow(q) ==
  LET us == request[q].users IN
  /\ At(q, "write", "delete user")
  /\ us \subseteq users
  /\ Root \in us => <<Root, AdministratorRole>> \notin holds
  /\ users' = users \ us
  /\ holds' = {x \in holds : x[1] \notin us}
  /\ spent' = spent \cup us
  /\ Committed(q, Keys("user", us))
  /\ UNCHANGED <<roles, policy, composes, raced>>

UserLinkKeys(q) ==
  Keys("role", request[q].roles) \cup Keys("user", request[q].users)
                                 \cup Keys("authz", request[q].users)

\* both ends of a link are foreign keys
InsertUserLinks(q) ==
  /\ At(q, "write", "link users")
  /\ request[q].users \subseteq users /\ request[q].roles \subseteq roles
  /\ holds' = holds \cup (request[q].users \X request[q].roles)
  /\ Committed(q, UserLinkKeys(q))
  /\ UNCHANGED <<users, roles, policy, spent, composes, raced>>

DeleteUserLinks(q) ==
  LET gone == request[q].users \X request[q].roles IN
  /\ At(q, "write", "unlink users")
  /\ <<Root, AdministratorRole>> \notin gone \cap holds
  /\ holds' = holds \ gone
  /\ Committed(q, UserLinkKeys(q))
  /\ UNCHANGED <<users, roles, policy, spent, composes, raced>>

PolicyLinkKeys(q) == Keys("role", request[q].roles) \cup Keys("policy", request[q].policies)

InsertPolicyLinks(q) ==
  /\ At(q, "write", "link policies")
  /\ request[q].roles \subseteq roles
  /\ \A p \in request[q].policies : policy[p] # NoRow
  /\ composes' = composes \cup (request[q].roles \X request[q].policies)
  /\ Committed(q, PolicyLinkKeys(q))
  /\ UNCHANGED <<users, roles, policy, spent, holds, raced>>

DeletePolicyLinks(q) ==
  LET gone == request[q].roles \X request[q].policies IN
  /\ At(q, "write", "unlink policies")
  /\ <<AdministratorRole, FullAccess>> \notin gone \cap composes
  /\ composes' = composes \ gone
  /\ Committed(q, PolicyLinkKeys(q))
  /\ UNCHANGED <<users, roles, policy, spent, holds, raced>>

\* validation, a refused check, a constraint, a fault of the database or the end
\* of the process: nothing is written
Fail(q) ==
  /\ request[q].at \in {"read", "check", "guard", "write"}
  /\ request' = [request EXCEPT ![q] = Finished]
  /\ UNCHANGED <<tables, entry, fill, vouched, raced, excused>>

----------------------------------------------------------------------------------
(* The cached permissions                                                        *)

\* the walk from a key reaches the entries that declared it, and its own
Reaches(k, u) == /\ entry[u] # NoEntry
                 /\ k \in entry[u].dependencies \cup {<<"authz", u>>}

Dropped(q, k) ==
  /\ request[q].at = "drop" /\ k \in request[q].keys
  /\ request' = [request EXCEPT ![q] = IF request[q].keys = {k} THEN Finished
                   ELSE [request[q] EXCEPT !.keys = @ \ {k}]]

Invalidate(q, k) ==
  /\ Dropped(q, k)
  /\ entry' = [u \in Users |-> IF Reaches(k, u) THEN NoEntry ELSE entry[u]]
  /\ UNCHANGED <<tables, fill, vouched, raced, excused>>

\* a failed invalidation is logged: the statement has committed
InvalidateFails(q, k) ==
  /\ Dropped(q, k)
  /\ excused' = excused \cup {u \in Users : Reaches(k, u)}
  /\ UNCHANGED <<tables, entry, fill, vouched, raced>>

\* the replica stops with keys left
Crash(q) ==
  /\ request[q].at = "drop"
  /\ request' = [request EXCEPT ![q] = Finished]
  /\ excused' = excused \cup {u \in Users : \E k \in request[q].keys : Reaches(k, u)}
  /\ UNCHANGED <<tables, entry, fill, vouched, raced>>

\* CheckAuthz -> IsAuthorized -> SelectAuthz: a miss reads the repository, and a
\* stale hit does behind the answer
BeginFill(f, u) ==
  /\ fill[f] = NoFill /\ u \in users
  /\ fill' = [fill EXCEPT ![f] = [user |-> u, grants |-> Effective(u),
                                  dependencies |-> Dependencies(u), overtaken |-> FALSE]]
  /\ UNCHANGED <<tables, request, entry, vouched, raced, excused>>

EndFill(f) ==
  LET u == fill[f].user IN
  /\ fill[f] # NoFill
  /\ fill' = [fill EXCEPT ![f] = NoFill]
  /\ entry' = [entry EXCEPT ![u] = [grants |-> fill[f].grants,
                                    dependencies |-> fill[f].dependencies]]
  /\ excused' = IF fill[f].overtaken THEN excused \cup {u} ELSE excused \ {u}
  /\ UNCHANGED <<tables, request, vouched, raced>>

\* a SET that fails costs nothing but the entry
LoseFill(f) ==
  /\ fill[f] # NoFill
  /\ fill' = [fill EXCEPT ![f] = NoFill]
  /\ UNCHANGED <<tables, request, entry, vouched, raced, excused>>

\* the hard TTL
Expire(u) ==
  /\ entry[u] # NoEntry
  /\ entry' = [entry EXCEPT ![u] = NoEntry]
  /\ UNCHANGED <<tables, request, fill, vouched, raced, excused>>

----------------------------------------------------------------------------------
Init ==
  /\ users = FirstUsers /\ roles = FirstRoles /\ policy = FirstGrants /\ spent = {}
  /\ \E l \in FirstLinks : holds = l.holds /\ composes = l.composes
  /\ request = [q \in Requests |-> NoRequest]
  /\ entry = [u \in Users |-> NoEntry]
  /\ fill = [f \in Replicas |-> NoFill]
  /\ vouched = {policy[rp[2]] : rp \in {x \in composes :
                  x[1] \in AutoAssign \/ \E u \in Users : <<u, x[1]>> \in holds}}
  /\ raced = {} /\ excused = {}

Handler(q) ==
  \/ CreatePolicy(q) \/ UpdatePolicy(q) \/ DeletePolicy(q)
  \/ CreateRole(q) \/ UpdateRole(q) \/ DeleteRole(q)
  \/ CreateUser(q) \/ DeleteUser(q)
  \/ LinkUsers(q) \/ UnlinkUsers(q) \/ LinkRolesToUser(q) \/ UnlinkRolesFromUser(q)
  \/ LinkPolicies(q) \/ UnlinkPolicies(q) \/ LinkRolesToPolicy(q) \/ UnlinkRolesFromPolicy(q)

Guard(q) == \/ CheckRoles(q) \/ CheckPolicies(q) \/ ReadPolicy(q) \/ CheckGrants(q)
            \/ AdministratorsAreNotStripped(q)

Statement(q) ==
  \/ InsertPolicy(q) \/ UpdatePolicyRow(q) \/ DeletePolicyRow(q)
  \/ InsertRole(q) \/ UpdateRoleRow(q) \/ DeleteRoleRow(q)
  \/ InsertUser(q) \/ DeleteUserRow(q)
  \/ InsertUserLinks(q) \/ DeleteUserLinks(q)
  \/ InsertPolicyLinks(q) \/ DeletePolicyLinks(q)

CacheStep(f) == \/ \E u \in Readers : BeginFill(f, u)
                \/ EndFill(f) \/ LoseFill(f)

Next ==
  \/ \E q \in Requests :
       \/ Handler(q) \/ Guard(q) \/ Statement(q) \/ Fail(q) \/ Crash(q)
       \/ \E k \in request[q].keys : Invalidate(q, k) \/ InvalidateFails(q, k)
  \/ \E f \in Replicas : CacheStep(f)
  \/ \E u \in Users : Expire(u)

Spec == Init /\ [][Next]_vars

----------------------------------------------------------------------------------
(* Properties                                                                    *)

Keyed == ({"user", "authz"} \X Users) \cup ({"role"} \X Roles) \cup ({"policy"} \X Policies)
Ops == {"none", "create policy", "update policy", "delete policy", "create role",
        "update role", "delete role", "create user", "delete user", "link users",
        "unlink users", "link policies", "unlink policies"}
Request == [at : {"start", "read", "check", "guard", "write", "drop", "done"},
            op : Ops, caller : Users, users : SUBSET Users, roles : SUBSET Roles,
            policies : SUBSET Policies, grant : Grants \cup Edits \cup {NoRow},
            row : Grants \cup {NoRow}, read : SUBSET (Roles \cup Policies),
            asked : SUBSET Grants, keys : SUBSET Keyed]
Entry == [grants : SUBSET Grants, dependencies : SUBSET Keyed]
Fill == [user : Users, grants : SUBSET Grants, dependencies : SUBSET Keyed,
         overtaken : BOOLEAN]

\* Every variable keeps its shape, and a link names two rows that are there: what
\* the foreign keys of users_roles and roles_policies hold.
TypeOK ==
  /\ users \subseteq Users /\ roles \subseteq Roles
  /\ policy \in [Policies -> Grants \cup {NoRow}]
  /\ holds \subseteq users \X roles
  /\ composes \subseteq roles \X {p \in Policies : policy[p] # NoRow}
  /\ request \in [Requests -> Request]
  /\ entry \in [Users -> Entry \cup {NoEntry}]
  /\ fill \in [Replicas -> Fill \cup {NoFill}]
  /\ vouched \subseteq Grants /\ raced \subseteq Policies /\ excused \subseteq Users

\* Whatever the order of edits, links, unlinks and cascaded deletes, the seeded
\* account is there and holds * on *: the system rows' triggers and the two links'
\* (fn_protect_bootstrap_links) leave no way round them.
BootstrapKeepsEverything ==
  /\ Root \in users
  /\ <<Root, AdministratorRole>> \in holds
  /\ <<AdministratorRole, FullAccess>> \in composes
  /\ policy[FullAccess] = Everything

InUse(r) == r \in AutoAssign \/ \E u \in Users : <<u, r>> \in holds

\* What an account holds, somebody who held it handed out: a grant in use was put
\* whole to GrantGuard, and its caller's live grants covered it, whatever changed
\* between a check and its write. The one way round is two edits of one policy that
\* each read the row the other then changed.
GrantsAreVouched ==
  \A rp \in composes : InUse(rp[1]) => policy[rp[2]] \in vouched \/ rp[2] \in raced

Pending(u) == \E q \in Requests : request[q].at = "drop"
                                  /\ \E k \in request[q].keys : Reaches(k, u)

\* A cached grant that has been revoked is on its way out: the statement that took
\* it away still has a key to invalidate that reaches the entry. An invalidation
\* that failed, and a fill overtaken by a write, are the only ways to be served a
\* revoked grant until the TTL.
RevokedGrantsAreDropped ==
  \A u \in Users : entry[u] # NoEntry /\ u \notin excused =>
    entry[u].grants \subseteq Effective(u) \/ Pending(u)

\* The same of a grant that was given: "Each path that widens or narrows a grant
\* invalidates".
CachedGrantsAreCurrent ==
  \A u \in Users : entry[u] # NoEntry /\ u \notin excused =>
    entry[u].grants = Effective(u) \/ Pending(u)
==================================================================================
