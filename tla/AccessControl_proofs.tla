-------------------------- MODULE AccessControl_proofs --------------------------
(* What holds of AccessControl for any accounts, roles, policies, requests and   *)
(* replicas.                                                                     *)
EXTENDS AccessControl, TLAPS

----------------------------------------------------------------------------------
(* Types                                                                         *)

\* What a request carries in its one field for what it is to write.
Carries(r) == /\ r.op = "create policy" => r.grant \in Grants
              /\ r.op = "update policy" => r.grant \in Edits

TypeInv == TypeOK /\ \A q \in Requests : Carries(request[q])

\* A request as its handler leaves it: every one that hands something out still
\* has its guard in front of it.
Asked(r) ==
  /\ r \in Request /\ Carries(r)
  /\ r.at \in {"read", "check", "guard", "write"}
  /\ r.op \in {"link users", "link policies", "update policy"} => r.at = "read"
  /\ r.op = "create policy" => r.at = "check" /\ r.grant \in r.asked
  /\ r.read = {}

Rest == <<tables, entry, fill, vouched, raced, excused>>

AskedBy(q) ==
  /\ request[q].at = "start"
  /\ \E r : Asked(r) /\ request' = [request EXCEPT ![q] = r]
  /\ UNCHANGED Rest

Unguarded == {"delete policy", "create role", "update role", "delete role",
              "create user", "delete user", "unlink users", "unlink policies"}

\* A handler only adds a request that its guard has not passed.
LEMMA AskIsAsked ==
  ASSUME NEW q \in Requests, TypeInv, NEW at, NEW op, NEW us, NEW rs, NEW ps,
         NEW grant, NEW asked, Ask(q, at, op, us, rs, ps, grant, asked),
         \A c \in Users :
           Asked([at |-> at, op |-> op, caller |-> c, users |-> us, roles |-> rs,
                  policies |-> ps, grant |-> grant, row |-> NoRow, read |-> {}, asked |-> asked,
                  keys |-> {}])
  PROVE  AskedBy(q)
<1>1. PICK c \in users \cap Callers :
        request' = [request EXCEPT ![q] =
         [at |-> at, op |-> op, caller |-> c, users |-> us, roles |-> rs,
          policies |-> ps, grant |-> grant, row |-> NoRow, read |-> {}, asked |-> asked,
          keys |-> {}]]
  BY DEF Ask
<1>2. c \in Users
  BY DEF TypeInv, TypeOK
<1>3. request[q].at = "start" /\ UNCHANGED Rest
  BY DEF Ask, Rest
<1> QED
  BY <1>1, <1>2, <1>3 DEF AskedBy

\* The requests that hand nothing out.
LEMMA AskToWrite ==
  ASSUME NEW q \in Requests, TypeInv, NEW at \in {"write", "guard"},
         NEW op \in Unguarded, NEW us \in SUBSET Users, NEW rs \in SUBSET Roles,
         NEW ps \in SUBSET Policies, Ask(q, at, op, us, rs, ps, NoRow, {})
  PROVE  AskedBy(q)
<1>1. ASSUME NEW c \in Users
      PROVE  Asked([at |-> at, op |-> op, caller |-> c, users |-> us, roles |-> rs,
                    policies |-> ps, grant |-> NoRow, row |-> NoRow, read |-> {}, asked |-> {},
                    keys |-> {}])
  BY DEF Asked, Carries, Request, Ops, Unguarded
<1> QED
  BY <1>1, AskIsAsked

\* The links, whose guard reads first.
LEMMA AskToRead ==
  ASSUME NEW q \in Requests, TypeInv,
         NEW op \in {"link users", "link policies"}, NEW us \in SUBSET Users,
         NEW rs \in SUBSET Roles, NEW ps \in SUBSET Policies,
         Ask(q, "read", op, us, rs, ps, NoRow, {})
  PROVE  AskedBy(q)
<1>1. ASSUME NEW c \in Users
      PROVE  Asked([at |-> "read", op |-> op, caller |-> c, users |-> us,
                    roles |-> rs, policies |-> ps, grant |-> NoRow, row |-> NoRow, read |-> {},
                    asked |-> {}, keys |-> {}])
  BY DEF Asked, Carries, Request, Ops
<1> QED
  BY <1>1, AskIsAsked

LEMMA NamedIsSubset == \A S : \A T \in Named(S) : T \in SUBSET S
BY DEF Named

LEMMA HandlerAsks ==
  ASSUME NEW q \in Requests, TypeInv, Handler(q)
  PROVE  AskedBy(q)
<1>1. CASE CreatePolicy(q)
  <2>1. PICK p \in Policies, g \in NewGrants :
          Ask(q, "check", "create policy", {}, {}, {p}, g, {g})
    BY <1>1 DEF CreatePolicy
  <2>2. g \in Grants
    BY SeedAssumption
  <2>3. ASSUME NEW c \in Users
        PROVE  Asked([at |-> "check", op |-> "create policy", caller |-> c,
                      users |-> {}, roles |-> {}, policies |-> {p}, grant |-> g,
                      row |-> NoRow, read |-> {}, asked |-> {g}, keys |-> {}])
    BY <2>2 DEF Asked, Carries, Request, Ops
  <2> QED BY <2>1, <2>3, AskIsAsked
<1>2. CASE UpdatePolicy(q)
  <2>1. PICK p \in Policies, e \in Edits :
          Ask(q, "read", "update policy", {}, {}, {p}, e, {})
    BY <1>2 DEF UpdatePolicy
  <2>2. ASSUME NEW c \in Users
        PROVE  Asked([at |-> "read", op |-> "update policy", caller |-> c,
                      users |-> {}, roles |-> {}, policies |-> {p}, grant |-> e,
                      row |-> NoRow, read |-> {}, asked |-> {}, keys |-> {}])
    BY DEF Asked, Carries, Request, Ops
  <2> QED BY <2>1, <2>2, AskIsAsked
<1>3. CASE DeletePolicy(q)
  <2>1. PICK p \in Policies :
          Ask(q, "write", "delete policy", {}, {}, {p}, NoRow, {})
    BY <1>3 DEF DeletePolicy
  <2>2. "delete policy" \in Unguarded
    BY DEF Unguarded
  <2>3. {} \in SUBSET Users /\ {} \in SUBSET Roles /\ {p} \in SUBSET Policies
    BY NamedIsSubset
  <2> QED BY <2>1, <2>2, <2>3, AskToWrite
<1>4. CASE CreateRole(q)
  <2>1. PICK r \in Roles :
          Ask(q, "write", "create role", {}, {r}, {}, NoRow, {})
    BY <1>4 DEF CreateRole
  <2>2. "create role" \in Unguarded
    BY DEF Unguarded
  <2>3. {} \in SUBSET Users /\ {r} \in SUBSET Roles /\ {} \in SUBSET Policies
    BY NamedIsSubset
  <2> QED BY <2>1, <2>2, <2>3, AskToWrite
<1>5. CASE UpdateRole(q)
  <2>1. PICK r \in Roles :
          Ask(q, "write", "update role", {}, {r}, {}, NoRow, {})
    BY <1>5 DEF UpdateRole
  <2>2. "update role" \in Unguarded
    BY DEF Unguarded
  <2>3. {} \in SUBSET Users /\ {r} \in SUBSET Roles /\ {} \in SUBSET Policies
    BY NamedIsSubset
  <2> QED BY <2>1, <2>2, <2>3, AskToWrite
<1>6. CASE DeleteRole(q)
  <2>1. PICK r \in Roles :
          Ask(q, "guard", "delete role", {}, {r}, {}, NoRow, {})
    BY <1>6 DEF DeleteRole
  <2>2. "delete role" \in Unguarded
    BY DEF Unguarded
  <2>3. {} \in SUBSET Users /\ {r} \in SUBSET Roles /\ {} \in SUBSET Policies
    BY NamedIsSubset
  <2> QED BY <2>1, <2>2, <2>3, AskToWrite
<1>7. CASE CreateUser(q)
  <2>1. PICK u \in Users :
          Ask(q, "write", "create user", {u}, {}, {}, NoRow, {})
    BY <1>7 DEF CreateUser
  <2>2. "create user" \in Unguarded
    BY DEF Unguarded
  <2>3. {u} \in SUBSET Users /\ {} \in SUBSET Roles /\ {} \in SUBSET Policies
    BY NamedIsSubset
  <2> QED BY <2>1, <2>2, <2>3, AskToWrite
<1>8. CASE DeleteUser(q)
  <2>1. PICK u \in Users :
          Ask(q, "guard", "delete user", {u}, {}, {}, NoRow, {})
    BY <1>8 DEF DeleteUser
  <2>2. "delete user" \in Unguarded
    BY DEF Unguarded
  <2>3. {u} \in SUBSET Users /\ {} \in SUBSET Roles /\ {} \in SUBSET Policies
    BY NamedIsSubset
  <2> QED BY <2>1, <2>2, <2>3, AskToWrite
<1>9. CASE LinkUsers(q)
  <2>1. PICK r \in Roles, us \in Named(Users) :
          Ask(q, "read", "link users", us, {r}, {}, NoRow, {})
    BY <1>9 DEF LinkUsers
  <2>3. us \in SUBSET Users /\ {r} \in SUBSET Roles /\ {} \in SUBSET Policies
    BY NamedIsSubset
  <2> QED BY <2>1, <2>3, AskToRead
<1>10. CASE UnlinkUsers(q)
  <2>1. PICK r \in Roles, us \in Named(Users) :
          Ask(q, "guard", "unlink users", us, {r}, {}, NoRow, {})
    BY <1>10 DEF UnlinkUsers
  <2>2. "unlink users" \in Unguarded
    BY DEF Unguarded
  <2>3. us \in SUBSET Users /\ {r} \in SUBSET Roles /\ {} \in SUBSET Policies
    BY NamedIsSubset
  <2> QED BY <2>1, <2>2, <2>3, AskToWrite
<1>11. CASE LinkRolesToUser(q)
  <2>1. PICK u \in Users, rs \in Named(Roles) :
          Ask(q, "read", "link users", {u}, rs, {}, NoRow, {})
    BY <1>11 DEF LinkRolesToUser
  <2>3. {u} \in SUBSET Users /\ rs \in SUBSET Roles /\ {} \in SUBSET Policies
    BY NamedIsSubset
  <2> QED BY <2>1, <2>3, AskToRead
<1>12. CASE UnlinkRolesFromUser(q)
  <2>1. PICK u \in Users, rs \in Named(Roles) :
          Ask(q, "guard", "unlink users", {u}, rs, {}, NoRow, {})
    BY <1>12 DEF UnlinkRolesFromUser
  <2>2. "unlink users" \in Unguarded
    BY DEF Unguarded
  <2>3. {u} \in SUBSET Users /\ rs \in SUBSET Roles /\ {} \in SUBSET Policies
    BY NamedIsSubset
  <2> QED BY <2>1, <2>2, <2>3, AskToWrite
<1>13. CASE LinkPolicies(q)
  <2>1. PICK r \in Roles, ps \in Named(Policies) :
          Ask(q, "read", "link policies", {}, {r}, ps, NoRow, {})
    BY <1>13 DEF LinkPolicies
  <2>3. {} \in SUBSET Users /\ {r} \in SUBSET Roles /\ ps \in SUBSET Policies
    BY NamedIsSubset
  <2> QED BY <2>1, <2>3, AskToRead
<1>14. CASE UnlinkPolicies(q)
  <2>1. PICK r \in Roles, ps \in Named(Policies) :
          Ask(q, "write", "unlink policies", {}, {r}, ps, NoRow, {})
    BY <1>14 DEF UnlinkPolicies
  <2>2. "unlink policies" \in Unguarded
    BY DEF Unguarded
  <2>3. {} \in SUBSET Users /\ {r} \in SUBSET Roles /\ ps \in SUBSET Policies
    BY NamedIsSubset
  <2> QED BY <2>1, <2>2, <2>3, AskToWrite
<1>15. CASE LinkRolesToPolicy(q)
  <2>1. PICK p \in Policies, rs \in Named(Roles) :
          Ask(q, "read", "link policies", {}, rs, {p}, NoRow, {})
    BY <1>15 DEF LinkRolesToPolicy
  <2>3. {} \in SUBSET Users /\ rs \in SUBSET Roles /\ {p} \in SUBSET Policies
    BY NamedIsSubset
  <2> QED BY <2>1, <2>3, AskToRead
<1>16. CASE UnlinkRolesFromPolicy(q)
  <2>1. PICK p \in Policies, rs \in Named(Roles) :
          Ask(q, "write", "unlink policies", {}, rs, {p}, NoRow, {})
    BY <1>16 DEF UnlinkRolesFromPolicy
  <2>2. "unlink policies" \in Unguarded
    BY DEF Unguarded
  <2>3. {} \in SUBSET Users /\ rs \in SUBSET Roles /\ {p} \in SUBSET Policies
    BY NamedIsSubset
  <2> QED BY <2>1, <2>2, <2>3, AskToWrite
<1> QED
  BY <1>1, <1>2, <1>3, <1>4, <1>5, <1>6, <1>7, <1>8, <1>9, <1>10, <1>11, <1>12, <1>13, <1>14, <1>15, <1>16 DEF Handler

\* Every handler's request is one of those.
LEMMA SeedsAreTyped ==
  /\ NoRequest \in Request /\ Carries(NoRequest)
  /\ Finished \in Request /\ Carries(Finished)
BY SeedAssumption DEF NoRequest, Finished, Request, Carries, Ops

RequestsTyped == /\ request \in [Requests -> Request]
                 /\ \A q \in Requests : Carries(request[q])

\* A step that sets one request to a typed one leaves them all typed.
LEMMA OneRequestTyped ==
  ASSUME NEW q \in Requests, RequestsTyped, NEW r, r \in Request, Carries(r),
         request' = [request EXCEPT ![q] = r]
  PROVE  RequestsTyped'
<1>1. request' \in [Requests -> Request]
  BY DEF RequestsTyped
<1>2. ASSUME NEW s \in Requests PROVE Carries(request'[s])
  <2>1. CASE s = q
    <3>1. request'[s] = r
      BY <2>1 DEF RequestsTyped
    <3> QED BY <3>1
  <2>2. CASE s # q
    <3>1. request'[s] = request[s]
      BY <2>2 DEF RequestsTyped
    <3> QED BY <3>1 DEF RequestsTyped
  <2> QED BY <2>1, <2>2
<1>3. \A s \in Requests : Carries(request[s])'
  BY <1>2 DEF Carries
<1> QED BY <1>1, <1>3 DEF RequestsTyped

\* What a request becomes when its statement has committed.
Committing(keys) == IF keys = {} THEN Finished
                    ELSE [NoRequest EXCEPT !.at = "drop", !.keys = keys]

LEMMA CommittedTypes ==
  ASSUME NEW q \in Requests, TypeInv, NEW keys \in SUBSET Keyed, Committed(q, keys)
  PROVE  /\ RequestsTyped'
         /\ fill' \in [Replicas -> Fill \cup {NoFill}]
         /\ UNCHANGED <<entry, vouched, excused>>
<1> DEFINE r == [NoRequest EXCEPT !.at = "drop", !.keys = keys]
<1>1. Committing(keys) \in Request /\ Carries(Committing(keys))
  <2>1. NoRequest \in Request /\ NoRequest.op = "none"
    BY SeedsAreTyped DEF NoRequest
  <2>2. r \in Request
    BY <2>1 DEF Request
  <2>3. r.op = "none"
    BY <2>1 DEF Request
  <2>4. Carries(r)
    BY <2>3 DEF Carries
  <2>5. CASE keys = {}
    BY <2>5, SeedsAreTyped DEF Committing
  <2>6. CASE keys # {}
    <3>1. Committing(keys) = r
      BY <2>6 DEF Committing
    <3> QED BY <2>2, <2>4, <3>1
  <2> QED BY <2>5, <2>6
<1>2. request' = [request EXCEPT ![q] = Committing(keys)]
  BY DEF Committed, Committing
<1>3. RequestsTyped'
  BY <1>1, <1>2, OneRequestTyped DEF TypeInv, TypeOK, RequestsTyped
<1>4. fill' \in [Replicas -> Fill \cup {NoFill}]
  <2>1. ASSUME NEW f \in Replicas, fill[f] # NoFill
        PROVE  [fill[f] EXCEPT !.overtaken = TRUE] \in Fill
    BY <2>1 DEF TypeInv, TypeOK, Fill
  <2> QED BY <2>1 DEF Committed
<1> QED BY <1>3, <1>4 DEF Committed

LinksTyped == /\ holds \subseteq users \X roles
              /\ composes \subseteq roles \X {p \in Policies : policy[p] # NoRow}

TablesTyped == /\ users \subseteq Users /\ roles \subseteq Roles
               /\ policy \in [Policies -> Grants \cup {NoRow}]
               /\ LinksTyped /\ raced \subseteq Policies

LEMMA StatementTypes ==
  ASSUME NEW q \in Requests, TypeInv, NEW keys \in SUBSET Keyed, Committed(q, keys),
         TablesTyped'
  PROVE  TypeInv'
<1>1. RequestsTyped'
  BY CommittedTypes
<1>2. fill' \in [Replicas -> Fill \cup {NoFill}] /\ UNCHANGED <<entry, vouched, excused>>
  BY CommittedTypes
<1>3. TypeOK'
  BY <1>1, <1>2 DEF TypeInv, TypeOK, TablesTyped, LinksTyped, RequestsTyped
<1>4. (\A r \in Requests : Carries(request[r]))'
  BY <1>1 DEF RequestsTyped
<1> QED BY <1>3, <1>4 DEF TypeInv

\* The ids and the keys of a request.
LEMMA RequestIds ==
  ASSUME NEW q \in Requests, TypeInv
  PROVE  /\ request[q] \in Request
         /\ request[q].users \subseteq Users /\ request[q].roles \subseteq Roles
         /\ request[q].policies \subseteq Policies
         /\ Keys("user", request[q].users) \in SUBSET Keyed
         /\ Keys("authz", request[q].users) \in SUBSET Keyed
         /\ Keys("role", request[q].roles) \in SUBSET Keyed
         /\ Keys("policy", request[q].policies) \in SUBSET Keyed
         /\ {} \in SUBSET Keyed
         /\ UserLinkKeys(q) \in SUBSET Keyed /\ PolicyLinkKeys(q) \in SUBSET Keyed
<1>1. request[q] \in Request
  BY DEF TypeInv, TypeOK
<1>2. /\ request[q].users \subseteq Users /\ request[q].roles \subseteq Roles
      /\ request[q].policies \subseteq Policies
  BY <1>1 DEF Request
<1>3. /\ Keys("user", request[q].users) \in SUBSET Keyed
      /\ Keys("authz", request[q].users) \in SUBSET Keyed
  BY <1>2 DEF Keys, Keyed
<1>4. Keys("role", request[q].roles) \in SUBSET Keyed
  BY <1>2 DEF Keys, Keyed
<1>5. Keys("policy", request[q].policies) \in SUBSET Keyed
  BY <1>2 DEF Keys, Keyed
<1> QED BY <1>1, <1>2, <1>3, <1>4, <1>5 DEF UserLinkKeys, PolicyLinkKeys

LEMMA MergedIsGrant ==
  ASSUME NEW row \in Grants, NEW edit \in Edits
  PROVE  Merged(row, edit) \in Grants
<1>1. edit \in [action : Actions \cup {Star, Keep}, resource : Resources \cup {Star, Keep}]
  BY SeedAssumption
<1> QED BY <1>1 DEF Merged, Grants

LEMMA StatementTyped ==
  ASSUME NEW q \in Requests, TypeInv, Statement(q)
  PROVE  TypeInv'
<1> USE RequestIds
<1>1. CASE InsertPolicy(q)
  <2>1. Committed(q, {})
    BY <1>1 DEF InsertPolicy
  <2>2. PICK p \in request[q].policies :
          policy[p] = NoRow /\ policy' = [policy EXCEPT ![p] = request[q].grant]
    BY <1>1 DEF InsertPolicy
  <2>3. request[q].grant \in Grants
    BY <1>1 DEF InsertPolicy, At, TypeInv, Carries
  <2>4. policy' \in [Policies -> Grants \cup {NoRow}]
    BY <2>2, <2>3 DEF TypeInv, TypeOK
  <2>5. \A o \in Policies : policy[o] # NoRow => policy'[o] # NoRow
    BY <2>2 DEF TypeInv, TypeOK
  <2>6. UNCHANGED <<users, roles, holds, composes, raced>>
    BY <1>1 DEF InsertPolicy
  <2>7. LinksTyped'
    BY <2>5, <2>6 DEF TypeInv, TypeOK, LinksTyped
  <2>8. TablesTyped'
    BY <2>4, <2>6, <2>7 DEF TypeInv, TypeOK, TablesTyped
  <2> QED BY <2>1, <2>8, StatementTypes
<1>2. CASE UpdatePolicyRow(q)
  <2>1. Committed(q, Keys("policy", request[q].policies))
    BY <1>2 DEF UpdatePolicyRow
  <2>2. PICK p \in request[q].policies :
          /\ policy[p] # NoRow
          /\ policy' = [policy EXCEPT ![p] = Merged(policy[p], request[q].grant)]
          /\ raced' = IF policy[p] = request[q].row THEN raced ELSE raced \cup {p}
    BY <1>2 DEF UpdatePolicyRow
  <2>3. request[q].grant \in Edits
    BY <1>2 DEF UpdatePolicyRow, At, TypeInv, Carries
  <2>4. p \in Policies /\ policy[p] \in Grants
    BY <2>2 DEF TypeInv, TypeOK
  <2>5. Merged(policy[p], request[q].grant) \in Grants
    BY <2>3, <2>4, MergedIsGrant
  <2>6. policy' \in [Policies -> Grants \cup {NoRow}]
    BY <2>2, <2>5 DEF TypeInv, TypeOK
  <2>7. \A o \in Policies : policy[o] # NoRow => policy'[o] # NoRow
    BY <2>2, <2>5, SeedAssumption DEF TypeInv, TypeOK
  <2>8. UNCHANGED <<users, roles, holds, composes>>
    BY <1>2 DEF UpdatePolicyRow
  <2>9. LinksTyped'
    BY <2>7, <2>8 DEF TypeInv, TypeOK, LinksTyped
  <2>10. raced' \subseteq Policies
    BY <2>2, <2>4 DEF TypeInv, TypeOK
  <2>11. TablesTyped'
    BY <2>6, <2>8, <2>9, <2>10 DEF TypeInv, TypeOK, TablesTyped
  <2> QED BY <2>1, <2>11, StatementTypes
<1>3. CASE DeletePolicyRow(q)
  <2>1. Committed(q, Keys("policy", request[q].policies))
    BY <1>3 DEF DeletePolicyRow
  <2>2. policy' \in [Policies -> Grants \cup {NoRow}]
    BY <1>3 DEF DeletePolicyRow, TypeInv, TypeOK
  <2>3. \A x \in composes' : x \in composes /\ policy'[x[2]] # NoRow
    BY <1>3 DEF DeletePolicyRow, TypeInv, TypeOK
  <2>4. UNCHANGED <<users, roles, holds, raced>>
    BY <1>3 DEF DeletePolicyRow
  <2>5. LinksTyped'
    BY <2>3, <2>4 DEF TypeInv, TypeOK, LinksTyped
  <2>6. TablesTyped'
    BY <2>2, <2>4, <2>5 DEF TypeInv, TypeOK, TablesTyped
  <2> QED BY <2>1, <2>6, StatementTypes
<1>4. CASE InsertRole(q)
  <2>1. Committed(q, {})
    BY <1>4 DEF InsertRole
  <2>2. roles' = roles \cup request[q].roles /\ UNCHANGED <<users, policy, holds, composes, raced>>
    BY <1>4 DEF InsertRole
  <2>3. LinksTyped'
    BY <2>2 DEF TypeInv, TypeOK, LinksTyped
  <2>4. TablesTyped'
    BY <2>2, <2>3 DEF TypeInv, TypeOK, TablesTyped
  <2> QED BY <2>1, <2>4, StatementTypes
<1>5. CASE UpdateRoleRow(q)
  <2>1. Committed(q, Keys("role", request[q].roles))
    BY <1>5 DEF UpdateRoleRow
  <2>2. UNCHANGED <<users, roles, policy, holds, composes, raced>>
    BY <1>5 DEF UpdateRoleRow, tables
  <2>3. TablesTyped'
    BY <2>2 DEF TypeInv, TypeOK, TablesTyped, LinksTyped
  <2> QED BY <2>1, <2>3, StatementTypes
<1>6. CASE DeleteRoleRow(q)
  <2>1. Committed(q, Keys("role", request[q].roles))
    BY <1>6 DEF DeleteRoleRow
  <2>2. /\ roles' = roles \ request[q].roles
        /\ holds' = {x \in holds : x[2] \notin request[q].roles}
        /\ composes' = {x \in composes : x[1] \notin request[q].roles}
        /\ UNCHANGED <<users, policy, raced>>
    BY <1>6 DEF DeleteRoleRow
  <2>3. LinksTyped'
    BY <2>2 DEF TypeInv, TypeOK, LinksTyped
  <2>4. TablesTyped'
    BY <2>2, <2>3 DEF TypeInv, TypeOK, TablesTyped
  <2> QED BY <2>1, <2>4, StatementTypes
<1>7. CASE InsertUser(q)
  <2>1. Committed(q, {})
    BY <1>7 DEF InsertUser
  <2>2. /\ users' = users \cup request[q].users
        /\ holds' = holds \cup (request[q].users \X (AutoAssign \cap roles))
        /\ UNCHANGED <<roles, policy, composes, raced>>
    BY <1>7 DEF InsertUser
  <2>3. LinksTyped'
    BY <2>2 DEF TypeInv, TypeOK, LinksTyped
  <2>4. TablesTyped'
    BY <2>2, <2>3 DEF TypeInv, TypeOK, TablesTyped
  <2> QED BY <2>1, <2>4, StatementTypes
<1>8. CASE DeleteUserRow(q)
  <2>1. Committed(q, Keys("user", request[q].users))
    BY <1>8 DEF DeleteUserRow
  <2>2. /\ users' = users \ request[q].users
        /\ holds' = {x \in holds : x[1] \notin request[q].users}
        /\ UNCHANGED <<roles, policy, composes, raced>>
    BY <1>8 DEF DeleteUserRow
  <2>3. LinksTyped'
    BY <2>2 DEF TypeInv, TypeOK, LinksTyped
  <2>4. TablesTyped'
    BY <2>2, <2>3 DEF TypeInv, TypeOK, TablesTyped
  <2> QED BY <2>1, <2>4, StatementTypes
<1>9. CASE InsertUserLinks(q)
  <2>1. Committed(q, UserLinkKeys(q))
    BY <1>9 DEF InsertUserLinks
  <2>2. /\ holds' = holds \cup (request[q].users \X request[q].roles)
        /\ request[q].users \subseteq users /\ request[q].roles \subseteq roles
        /\ UNCHANGED <<users, roles, policy, composes, raced>>
    BY <1>9 DEF InsertUserLinks
  <2>3. LinksTyped'
    BY <2>2 DEF TypeInv, TypeOK, LinksTyped
  <2>4. TablesTyped'
    BY <2>2, <2>3 DEF TypeInv, TypeOK, TablesTyped
  <2> QED BY <2>1, <2>4, StatementTypes
<1>10. CASE DeleteUserLinks(q)
  <2>1. Committed(q, UserLinkKeys(q))
    BY <1>10 DEF DeleteUserLinks
  <2>2. /\ holds' = holds \ (request[q].users \X request[q].roles)
        /\ UNCHANGED <<users, roles, policy, composes, raced>>
    BY <1>10 DEF DeleteUserLinks
  <2>3. LinksTyped'
    BY <2>2 DEF TypeInv, TypeOK, LinksTyped
  <2>4. TablesTyped'
    BY <2>2, <2>3 DEF TypeInv, TypeOK, TablesTyped
  <2> QED BY <2>1, <2>4, StatementTypes
<1>11. CASE InsertPolicyLinks(q)
  <2>1. Committed(q, PolicyLinkKeys(q))
    BY <1>11 DEF InsertPolicyLinks
  <2>2. /\ composes' = composes \cup (request[q].roles \X request[q].policies)
        /\ request[q].roles \subseteq roles
        /\ \A p \in request[q].policies : policy[p] # NoRow
        /\ UNCHANGED <<users, roles, policy, holds, raced>>
    BY <1>11 DEF InsertPolicyLinks
  <2>3. LinksTyped'
    BY <2>2 DEF TypeInv, TypeOK, LinksTyped
  <2>4. TablesTyped'
    BY <2>2, <2>3 DEF TypeInv, TypeOK, TablesTyped
  <2> QED BY <2>1, <2>4, StatementTypes
<1>12. CASE DeletePolicyLinks(q)
  <2>1. Committed(q, PolicyLinkKeys(q))
    BY <1>12 DEF DeletePolicyLinks
  <2>2. /\ composes' = composes \ (request[q].roles \X request[q].policies)
        /\ UNCHANGED <<users, roles, policy, holds, raced>>
    BY <1>12 DEF DeletePolicyLinks
  <2>3. LinksTyped'
    BY <2>2 DEF TypeInv, TypeOK, LinksTyped
  <2>4. TablesTyped'
    BY <2>2, <2>3 DEF TypeInv, TypeOK, TablesTyped
  <2> QED BY <2>1, <2>4, StatementTypes
<1> QED
  BY <1>1, <1>2, <1>3, <1>4, <1>5, <1>6, <1>7, <1>8, <1>9, <1>10, <1>11, <1>12
  DEF Statement

\* The steps that write no table: a handler's, a guard's, and those of the cache.
LEMMA RequestStepTypes ==
  ASSUME NEW q \in Requests, TypeInv, NEW r, r \in Request, Carries(r),
         request' = [request EXCEPT ![q] = r], UNCHANGED <<tables, fill, raced>>,
         entry' \in [Users -> Entry \cup {NoEntry}], vouched' \subseteq Grants,
         excused' \subseteq Users
  PROVE  TypeInv'
<1>1. RequestsTyped'
  BY OneRequestTyped DEF TypeInv, TypeOK, RequestsTyped
<1>2. TypeOK'
  BY <1>1 DEF TypeInv, TypeOK, RequestsTyped, tables
<1>3. (\A s \in Requests : Carries(request[s]))'
  BY <1>1 DEF RequestsTyped
<1> QED BY <1>2, <1>3 DEF TypeInv

LEMMA AskTyped ==
  ASSUME NEW q \in Requests, TypeInv, AskedBy(q)
  PROVE  TypeInv'
<1>1. PICK r : Asked(r) /\ request' = [request EXCEPT ![q] = r]
  BY DEF AskedBy
<1>2. UNCHANGED <<tables, fill, raced, entry, vouched, excused>>
  BY DEF AskedBy, Rest
<1>3. /\ entry' \in [Users -> Entry \cup {NoEntry}] /\ vouched' \subseteq Grants
      /\ excused' \subseteq Users
  BY <1>2 DEF TypeInv, TypeOK
<1> QED BY <1>1, <1>2, <1>3, RequestStepTypes DEF Asked

\* A policy's row is a grant where a link names it.
LEMMA LinkedRow ==
  ASSUME TypeInv, NEW rp \in composes
  PROVE  /\ rp[1] \in roles /\ rp[1] \in Roles /\ rp[2] \in Policies
         /\ policy[rp[2]] \in Grants
         /\ rp = <<rp[1], rp[2]>>
BY DEF TypeInv, TypeOK

LEMMA EffectiveTyped ==
  ASSUME TypeInv, NEW u \in Users
  PROVE  Effective(u) \in SUBSET Grants /\ Dependencies(u) \in SUBSET Keyed
<1>1. Composing(u) \subseteq composes
  BY DEF Composing
<1>2. Effective(u) \in SUBSET Grants
  BY <1>1, LinkedRow DEF Effective
<1>3. \A rp \in Composing(u) : rp[1] \in Roles /\ rp[2] \in Policies
  BY <1>1, LinkedRow
<1>4. Dependencies(u) \in SUBSET Keyed
  <2>1. {<<"user", u>>} \subseteq Keyed
    BY DEF Keyed
  <2>2. {<<"role", rp[1]>> : rp \in Composing(u)} \subseteq Keyed
    BY <1>3 DEF Keyed
  <2>3. {<<"policy", rp[2]>> : rp \in Composing(u)} \subseteq Keyed
    BY <1>3 DEF Keyed
  <2> QED BY <2>1, <2>2, <2>3 DEF Dependencies
<1> QED BY <1>2, <1>4

\* What a guard leaves of its request: what it asks for, or that it may write.
LEMMA AskingTyped ==
  ASSUME NEW q \in Requests, TypeInv,
         NEW at \in {"check", "write"}, NEW asked \in SUBSET Grants,
         NEW row \in Grants \cup {NoRow},
         request' = [request EXCEPT ![q].row = row, ![q].asked = asked, ![q].at = at],
         UNCHANGED <<tables, entry, fill, vouched, raced, excused>>
  PROVE  TypeInv'
<1> DEFINE r == [request[q] EXCEPT !.row = row, !.asked = asked, !.at = at]
<1>1. request[q] \in Request /\ Carries(request[q])
  BY DEF TypeInv, TypeOK
<1>2. r \in Request
  BY <1>1 DEF Request
<1>3. Carries(r)
  BY <1>1 DEF Request, Carries
<1>4. request' = [request EXCEPT ![q] = r]
  BY DEF TypeInv, TypeOK
<1>5. /\ entry' \in [Users -> Entry \cup {NoEntry}] /\ vouched' \subseteq Grants
      /\ excused' \subseteq Users
  BY DEF TypeInv, TypeOK
<1>6. UNCHANGED <<tables, fill, raced>>
  OBVIOUS
<1> HIDE DEF r
<1> QED BY <1>2, <1>3, <1>4, <1>5, <1>6, RequestStepTypes

LEMMA HandingTyped ==
  ASSUME NEW q \in Requests, TypeInv, NEW named, NEW id \in Roles \cup Policies,
         NEW grants \in SUBSET Grants, Handing(q, named, id, grants)
  PROVE  TypeInv'
<1> DEFINE read == request[q].read \cup {id}
           asked == request[q].asked \cup grants
           at == IF named \subseteq read THEN "check" ELSE "read"
           r == [request[q] EXCEPT !.read = read, !.asked = asked, !.at = at]
<1>1. request[q] \in Request /\ Carries(request[q])
  BY DEF TypeInv, TypeOK
<1>2. r \in Request
  BY <1>1 DEF Request
<1>3. Carries(r)
  BY <1>1 DEF Request, Carries
<1>4. request' = [request EXCEPT ![q] = r]
  BY DEF TypeInv, TypeOK, Handing
<1>5. /\ entry' \in [Users -> Entry \cup {NoEntry}] /\ vouched' \subseteq Grants
      /\ excused' \subseteq Users
  BY DEF TypeInv, TypeOK, Handing
<1>6. UNCHANGED <<tables, fill, raced>>
  BY DEF Handing
<1> HIDE DEF r
<1> QED BY <1>2, <1>3, <1>4, <1>5, <1>6, RequestStepTypes

LEMMA GuardTyped ==
  ASSUME NEW q \in Requests, TypeInv, Guard(q)
  PROVE  TypeInv'
<1>1. CASE CheckRoles(q)
  <2>1. PICK id \in request[q].roles :
          Handing(q, request[q].roles, id,
                  {policy[rp[2]] : rp \in {x \in composes : x[1] = id}})
    BY <1>1 DEF CheckRoles
  <2>2. {policy[rp[2]] : rp \in {x \in composes : x[1] = id}} \in SUBSET Grants
    BY LinkedRow
  <2>3. id \in Roles \cup Policies
    BY <2>1, RequestIds
  <2> QED BY <2>1, <2>2, <2>3, HandingTyped
<1>2. CASE CheckPolicies(q)
  <2>1. PICK id \in request[q].policies :
          policy[id] # NoRow /\ Handing(q, request[q].policies, id, {policy[id]})
    BY <1>2 DEF CheckPolicies
  <2>2. id \in Roles \cup Policies /\ {policy[id]} \in SUBSET Grants
    BY <2>1, RequestIds DEF TypeInv, TypeOK
  <2> QED BY <2>1, <2>2, HandingTyped
<1>3. CASE ReadPolicy(q)
  <2>1. PICK p \in request[q].policies :
          /\ policy[p] # NoRow
          /\ LET merged == Merged(policy[p], request[q].grant) IN
             request' = [request EXCEPT
               ![q].row = policy[p],
               ![q].asked = IF merged = policy[p] THEN {} ELSE {merged},
               ![q].at = IF merged = policy[p] THEN "write" ELSE "check"]
    BY <1>3 DEF ReadPolicy
  <2>2. request[q].grant \in Edits
    BY <1>3 DEF ReadPolicy, At, TypeInv, Carries
  <2>3. policy[p] \in Grants
    BY <2>1, RequestIds DEF TypeInv, TypeOK
  <2>4. Merged(policy[p], request[q].grant) \in Grants
    BY <2>2, <2>3, MergedIsGrant
  <2>5. UNCHANGED <<tables, entry, fill, vouched, raced, excused>>
    BY <1>3 DEF ReadPolicy
  <2> DEFINE merged == Merged(policy[p], request[q].grant)
             asked == IF merged = policy[p] THEN {} ELSE {merged}
             at == IF merged = policy[p] THEN "write" ELSE "check"
  <2>6. asked \in SUBSET Grants /\ at \in {"check", "write"}
    BY <2>4
  <2>7. request' = [request EXCEPT ![q].row = policy[p], ![q].asked = asked, ![q].at = at]
    BY <2>1
  <2> HIDE DEF asked, at
  <2> QED BY <2>3, <2>5, <2>6, <2>7, AskingTyped
<1>4. CASE CheckGrants(q)
  <2> DEFINE r == [request[q] EXCEPT !.at = "write", !.asked = {}]
  <2>1. request[q] \in Request /\ Carries(request[q])
    BY DEF TypeInv, TypeOK
  <2>2. r \in Request
    BY <2>1 DEF Request
  <2>3. Carries(r)
    BY <2>1 DEF Request, Carries
  <2>4. request' = [request EXCEPT ![q] = r]
    BY <1>4 DEF TypeInv, TypeOK, CheckGrants
  <2>5. vouched' \subseteq Grants
    BY <1>4, <2>1 DEF TypeInv, TypeOK, CheckGrants, Request
  <2>6. UNCHANGED <<tables, fill, raced, entry, excused>>
    BY <1>4 DEF CheckGrants
  <2>7. entry' \in [Users -> Entry \cup {NoEntry}] /\ excused' \subseteq Users
    BY <2>6 DEF TypeInv, TypeOK
  <2> HIDE DEF r
  <2> QED BY <2>2, <2>3, <2>4, <2>5, <2>6, <2>7, RequestStepTypes
<1>5. CASE AdministratorsAreNotStripped(q)
  <2> DEFINE r == [request[q] EXCEPT !.at = "write"]
  <2>1. request[q] \in Request /\ Carries(request[q])
    BY DEF TypeInv, TypeOK
  <2>2. r \in Request
    BY <2>1 DEF Request
  <2>3. Carries(r)
    BY <2>1 DEF Request, Carries
  <2>4. request' = [request EXCEPT ![q] = r]
    BY <1>5 DEF TypeInv, TypeOK, AdministratorsAreNotStripped
  <2>5. UNCHANGED <<tables, fill, raced, entry, vouched, excused>>
    BY <1>5 DEF AdministratorsAreNotStripped
  <2>6. /\ entry' \in [Users -> Entry \cup {NoEntry}] /\ excused' \subseteq Users
        /\ vouched' \subseteq Grants
    BY <2>5 DEF TypeInv, TypeOK
  <2> HIDE DEF r
  <2> QED BY <2>2, <2>3, <2>4, <2>5, <2>6, RequestStepTypes
<1> QED BY <1>1, <1>2, <1>3, <1>4, <1>5 DEF Guard

LEMMA FailTyped ==
  ASSUME NEW q \in Requests, TypeInv, request' = [request EXCEPT ![q] = Finished],
         UNCHANGED <<tables, entry, fill, vouched, raced>>, excused' \subseteq Users
  PROVE  TypeInv'
<1>1. Finished \in Request /\ Carries(Finished)
  BY SeedsAreTyped
<1>2. entry' \in [Users -> Entry \cup {NoEntry}] /\ vouched' \subseteq Grants
  BY DEF TypeInv, TypeOK
<1>3. UNCHANGED <<tables, fill, raced>>
  OBVIOUS
<1> QED BY <1>1, <1>2, <1>3, RequestStepTypes

LEMMA DroppedTyped ==
  ASSUME NEW q \in Requests, TypeInv, NEW k, Dropped(q, k),
         UNCHANGED <<tables, fill, vouched, raced>>,
         entry' \in [Users -> Entry \cup {NoEntry}], excused' \subseteq Users
  PROVE  TypeInv'
<1>1. request[q] \in Request /\ Carries(request[q])
  BY DEF TypeInv, TypeOK
<1>2. vouched' \subseteq Grants /\ UNCHANGED <<tables, fill, raced>>
  BY DEF TypeInv, TypeOK
<1>3. CASE request[q].keys = {k}
  <2>1. request' = [request EXCEPT ![q] = Finished]
    BY <1>3 DEF Dropped
  <2> QED BY <1>2, <2>1, SeedsAreTyped, RequestStepTypes
<1>4. CASE request[q].keys # {k}
  <2> DEFINE r == [request[q] EXCEPT !.keys = @ \ {k}]
  <2>1. request' = [request EXCEPT ![q] = r]
    BY <1>4 DEF Dropped
  <2>2. r \in Request
    BY <1>1 DEF Request
  <2>3. Carries(r)
    BY <1>1 DEF Request, Carries
  <2> HIDE DEF r
  <2> QED BY <1>2, <2>1, <2>2, <2>3, RequestStepTypes
<1> QED BY <1>3, <1>4

LEMMA CacheTyped ==
  ASSUME NEW f \in Replicas, TypeInv, CacheStep(f)
  PROVE  TypeInv'
<1>1. ASSUME NEW u \in Readers, BeginFill(f, u)
      PROVE  TypeInv'
  <2> DEFINE v == [user |-> u, grants |-> Effective(u),
                   dependencies |-> Dependencies(u), overtaken |-> FALSE]
  <2>1. u \in Users
    BY <1>1 DEF BeginFill, TypeInv, TypeOK
  <2>2. v \in Fill
    BY <2>1, EffectiveTyped DEF Fill
  <2>3. fill' = [fill EXCEPT ![f] = v]
    BY <1>1 DEF BeginFill
  <2>4. UNCHANGED <<tables, request, entry, vouched, raced, excused>>
    BY <1>1 DEF BeginFill
  <2>5. fill' \in [Replicas -> Fill \cup {NoFill}]
    BY <2>2, <2>3 DEF TypeInv, TypeOK
  <2>6. TypeOK'
    BY <2>4, <2>5 DEF TypeInv, TypeOK, tables
  <2>7. (\A s \in Requests : Carries(request[s]))'
    BY <2>4 DEF TypeInv, Carries
  <2> QED BY <2>6, <2>7 DEF TypeInv
<1>2. CASE EndFill(f)
  <2> DEFINE u == fill[f].user
             e == [grants |-> fill[f].grants, dependencies |-> fill[f].dependencies]
  <2>1. fill[f] \in Fill
    BY <1>2 DEF EndFill, TypeInv, TypeOK
  <2>2. u \in Users /\ e \in Entry
    BY <2>1 DEF Fill, Entry
  <2>3. /\ fill' = [fill EXCEPT ![f] = NoFill]
        /\ entry' = [entry EXCEPT ![u] = e]
        /\ excused' = IF fill[f].overtaken THEN excused \cup {u} ELSE excused \ {u}
        /\ UNCHANGED <<tables, request, vouched, raced>>
    BY <1>2 DEF EndFill
  <2> HIDE DEF u, e
  <2>4. fill' \in [Replicas -> Fill \cup {NoFill}]
    BY <2>3 DEF TypeInv, TypeOK
  <2>5. entry' \in [Users -> Entry \cup {NoEntry}] /\ excused' \subseteq Users
    BY <2>2, <2>3 DEF TypeInv, TypeOK
  <2>6. TypeOK'
    BY <2>3, <2>4, <2>5 DEF TypeInv, TypeOK, tables
  <2>7. (\A s \in Requests : Carries(request[s]))'
    BY <2>3 DEF TypeInv, Carries
  <2> QED BY <2>6, <2>7 DEF TypeInv
<1>3. CASE LoseFill(f)
  <2>1. TypeOK'
    BY <1>3 DEF LoseFill, TypeInv, TypeOK, tables
  <2>2. (\A s \in Requests : Carries(request[s]))'
    BY <1>3 DEF LoseFill, TypeInv, Carries
  <2> QED BY <2>1, <2>2 DEF TypeInv
<1> QED BY <1>1, <1>2, <1>3 DEF CacheStep

LEMMA TypeNext == TypeInv /\ [Next]_vars => TypeInv'
<1> SUFFICES ASSUME TypeInv, [Next]_vars PROVE TypeInv'
  OBVIOUS
<1>1. ASSUME NEW q \in Requests, Handler(q) PROVE TypeInv'
  BY <1>1, HandlerAsks, AskTyped
<1>2. ASSUME NEW q \in Requests, Guard(q) PROVE TypeInv'
  BY <1>2, GuardTyped
<1>3. ASSUME NEW q \in Requests, Statement(q) PROVE TypeInv'
  BY <1>3, StatementTyped
<1>4. ASSUME NEW q \in Requests, Fail(q) PROVE TypeInv'
  <2>1. excused' \subseteq Users
    BY <1>4 DEF Fail, TypeInv, TypeOK
  <2> QED BY <1>4, <2>1, FailTyped DEF Fail
<1>5. ASSUME NEW q \in Requests, Crash(q) PROVE TypeInv'
  <2>1. excused' \subseteq Users
    BY <1>5 DEF Crash, TypeInv, TypeOK
  <2> QED BY <1>5, <2>1, FailTyped DEF Crash
<1>6. ASSUME NEW q \in Requests, NEW k \in request[q].keys, Invalidate(q, k)
      PROVE  TypeInv'
  <2>1. entry' \in [Users -> Entry \cup {NoEntry}] /\ excused' \subseteq Users
    BY <1>6 DEF Invalidate, TypeInv, TypeOK
  <2> QED BY <1>6, <2>1, DroppedTyped DEF Invalidate
<1>7. ASSUME NEW q \in Requests, NEW k \in request[q].keys, InvalidateFails(q, k)
      PROVE  TypeInv'
  <2>1. entry' \in [Users -> Entry \cup {NoEntry}] /\ excused' \subseteq Users
    BY <1>7 DEF InvalidateFails, TypeInv, TypeOK
  <2> QED BY <1>7, <2>1, DroppedTyped DEF InvalidateFails
<1>8. ASSUME NEW f \in Replicas, CacheStep(f) PROVE TypeInv'
  BY <1>8, CacheTyped
<1>9. ASSUME NEW u \in Users, Expire(u) PROVE TypeInv'
  <2>1. TypeOK'
    BY <1>9 DEF Expire, TypeInv, TypeOK, tables
  <2>2. (\A s \in Requests : Carries(request[s]))'
    BY <1>9 DEF Expire, TypeInv, Carries
  <2> QED BY <2>1, <2>2 DEF TypeInv
<1>10. CASE UNCHANGED vars
  <2>1. TypeOK'
    BY <1>10 DEF vars, TypeInv, TypeOK, tables
  <2>2. (\A s \in Requests : Carries(request[s]))'
    BY <1>10 DEF vars, TypeInv, Carries
  <2> QED BY <2>1, <2>2 DEF TypeInv
<1> QED
  BY <1>1, <1>2, <1>3, <1>4, <1>5, <1>6, <1>7, <1>8, <1>9, <1>10 DEF Next

LEMMA TypeInit == Init => TypeInv
<1> SUFFICES ASSUME Init PROVE TypeInv
  OBVIOUS
<1>1. PICK l \in FirstLinks : holds = l.holds /\ composes = l.composes
  BY DEF Init
<1>2. /\ users = FirstUsers /\ roles = FirstRoles /\ policy = FirstGrants
      /\ request = [q \in Requests |-> NoRequest]
      /\ entry = [u \in Users |-> NoEntry] /\ fill = [f \in Replicas |-> NoFill]
      /\ raced = {} /\ excused = {}
  BY DEF Init
<1>3. users \subseteq Users /\ roles \subseteq Roles
  BY <1>2, SeedAssumption
<1>4. policy \in [Policies -> Grants \cup {NoRow}]
  BY <1>2, SeedAssumption
<1>5. /\ holds \subseteq users \X roles
      /\ composes \subseteq roles \X {p \in Policies : policy[p] # NoRow}
  BY <1>1, <1>2, SeedAssumption
<1>6. request \in [Requests -> Request] /\ \A q \in Requests : Carries(request[q])
  BY <1>2, SeedsAreTyped
<1>7. vouched \subseteq Grants
  <2>1. \A rp \in composes : policy[rp[2]] \in Grants
    BY <1>4, <1>5
  <2> QED BY <2>1 DEF Init
<1>8. /\ entry \in [Users -> Entry \cup {NoEntry}]
      /\ fill \in [Replicas -> Fill \cup {NoFill}]
      /\ raced \subseteq Policies /\ excused \subseteq Users
  BY <1>2
<1>9. TypeOK
  BY <1>3, <1>4, <1>5, <1>6, <1>7, <1>8 DEF TypeOK
<1> QED BY <1>6, <1>9 DEF TypeInv

\* Every variable keeps its shape and every link its two ends, for any number of
\* accounts, roles, policies, requests and replicas.
THEOREM TypeCorrect == Spec => []TypeOK
<1>1. Spec => []TypeInv
  BY TypeInit, TypeNext, PTL DEF Spec
<1>2. TypeInv => TypeOK
  BY DEF TypeInv
<1> QED BY <1>1, <1>2, PTL

----------------------------------------------------------------------------------
(* The seeded administrator                                                      *)

\* Everything but a statement leaves the tables alone, and takes no grant back
\* from those that were checked.
Quiet == UNCHANGED <<tables, raced>> /\ vouched \subseteq vouched'

LEMMA QuietOrStatement ==
  ASSUME [Next]_vars
  PROVE  Quiet \/ \E q \in Requests : Statement(q)
<1>1. ASSUME NEW q \in Requests, Handler(q) PROVE Quiet
  BY <1>1 DEF Handler, CreatePolicy, UpdatePolicy, DeletePolicy, CreateRole, UpdateRole,
     DeleteRole, CreateUser, DeleteUser, LinkUsers, UnlinkUsers, LinkRolesToUser,
     UnlinkRolesFromUser, LinkPolicies, UnlinkPolicies, LinkRolesToPolicy,
     UnlinkRolesFromPolicy, Ask, Quiet
<1>2. ASSUME NEW q \in Requests, Guard(q) PROVE Quiet
  BY <1>2 DEF Guard, CheckRoles, CheckPolicies, Handing, ReadPolicy, CheckGrants,
     AdministratorsAreNotStripped, Quiet
<1>3. ASSUME NEW q \in Requests, Fail(q) \/ Crash(q) PROVE Quiet
  BY <1>3 DEF Fail, Crash, Quiet
<1>4. ASSUME NEW q \in Requests, NEW k, Invalidate(q, k) \/ InvalidateFails(q, k)
      PROVE  Quiet
  BY <1>4 DEF Invalidate, InvalidateFails, Quiet
<1>5. ASSUME NEW f \in Replicas, CacheStep(f) PROVE Quiet
  BY <1>5 DEF CacheStep, BeginFill, EndFill, LoseFill, Quiet
<1>6. ASSUME NEW u \in Users, Expire(u) PROVE Quiet
  BY <1>6 DEF Expire, Quiet
<1>7. CASE UNCHANGED vars
  BY <1>7 DEF vars, Quiet
<1> QED BY <1>1, <1>2, <1>3, <1>4, <1>5, <1>6, <1>7 DEF Next

LEMMA BootstrapInit == Init => BootstrapKeepsEverything
BY SeedAssumption DEF Init, BootstrapKeepsEverything

LEMMA BootstrapStatement ==
  ASSUME NEW q \in Requests, TypeInv, BootstrapKeepsEverything, Statement(q)
  PROVE  BootstrapKeepsEverything'
<1>1. /\ Root \in users /\ <<Root, AdministratorRole>> \in holds
      /\ <<AdministratorRole, FullAccess>> \in composes
      /\ policy[FullAccess] = Everything
  BY DEF BootstrapKeepsEverything
<1>2. /\ AdministratorRole \in SystemRoles /\ FullAccess \in SystemPolicies
      /\ FullAccess \in Policies
  BY SeedAssumption
<1>3. CASE InsertPolicy(q)
  <2>1. PICK p \in request[q].policies :
          policy[p] = NoRow /\ policy' = [policy EXCEPT ![p] = request[q].grant]
    BY <1>3 DEF InsertPolicy
  <2>2. policy[FullAccess] # NoRow
    BY <1>1, <1>2, LinkedRow, SeedAssumption DEF TypeInv, TypeOK
  <2>3. policy'[FullAccess] = Everything
    BY <1>1, <1>2, <2>1, <2>2 DEF TypeInv, TypeOK
  <2> QED BY <1>1, <1>3, <2>3 DEF InsertPolicy, BootstrapKeepsEverything
<1>4. CASE UpdatePolicyRow(q)
  <2>1. PICK p \in request[q].policies :
          /\ p \notin SystemPolicies
          /\ policy' = [policy EXCEPT ![p] = Merged(policy[p], request[q].grant)]
    BY <1>4 DEF UpdatePolicyRow
  <2>2. policy'[FullAccess] = Everything
    BY <1>1, <1>2, <2>1 DEF TypeInv, TypeOK
  <2> QED BY <1>1, <1>4, <2>2 DEF UpdatePolicyRow, BootstrapKeepsEverything
<1>5. CASE DeletePolicyRow(q)
  BY <1>1, <1>2, <1>5 DEF DeletePolicyRow, BootstrapKeepsEverything
<1>6. CASE InsertRole(q)
  BY <1>1, <1>6 DEF InsertRole, BootstrapKeepsEverything
<1>7. CASE UpdateRoleRow(q)
  BY <1>1, <1>7 DEF UpdateRoleRow, tables, BootstrapKeepsEverything
<1>8. CASE DeleteRoleRow(q)
  BY <1>1, <1>2, <1>8 DEF DeleteRoleRow, BootstrapKeepsEverything
<1>9. CASE InsertUser(q)
  BY <1>1, <1>9 DEF InsertUser, BootstrapKeepsEverything
<1>10. CASE DeleteUserRow(q)
  BY <1>1, <1>10 DEF DeleteUserRow, BootstrapKeepsEverything
<1>11. CASE InsertUserLinks(q)
  BY <1>1, <1>11 DEF InsertUserLinks, BootstrapKeepsEverything
<1>12. CASE DeleteUserLinks(q)
  BY <1>1, <1>12 DEF DeleteUserLinks, BootstrapKeepsEverything
<1>13. CASE InsertPolicyLinks(q)
  BY <1>1, <1>13 DEF InsertPolicyLinks, BootstrapKeepsEverything
<1>14. CASE DeletePolicyLinks(q)
  BY <1>1, <1>14 DEF DeletePolicyLinks, BootstrapKeepsEverything
<1> QED
  BY <1>3, <1>4, <1>5, <1>6, <1>7, <1>8, <1>9, <1>10, <1>11, <1>12, <1>13, <1>14
  DEF Statement

\* The seeded administrator keeps * on * in every reachable state, whoever asks for
\* what: the triggers on the three rows and the two links are enough.
THEOREM BootstrapStands == Spec => []BootstrapKeepsEverything
<1>1. TypeInv /\ BootstrapKeepsEverything /\ [Next]_vars => BootstrapKeepsEverything'
  <2> SUFFICES ASSUME TypeInv, BootstrapKeepsEverything, [Next]_vars
               PROVE  BootstrapKeepsEverything'
    OBVIOUS
  <2>1. CASE Quiet
    BY <2>1 DEF Quiet, tables, BootstrapKeepsEverything
  <2>2. ASSUME NEW q \in Requests, Statement(q) PROVE BootstrapKeepsEverything'
    BY <2>2, BootstrapStatement
  <2> QED BY <2>1, <2>2, QuietOrStatement
<1> QED BY <1>1, TypeInit, TypeNext, BootstrapInit, PTL DEF Spec

----------------------------------------------------------------------------------
(* Handing out only what one holds                                               *)

\* The contents of a policy that is there have been vouched for, or are among those
\* a request is about to be checked for.
Known(p, asked) == policy[p] \in vouched \cup asked \/ p \in raced

KnownRoles(rs, asked) == \A rp \in composes : rp[1] \in rs => Known(rp[2], asked)
KnownPolicies(ps, asked) == \A p \in ps : policy[p] # NoRow => Known(p, asked)

Guarded(r) == r.at \in {"check", "write"}
Claimed(r) == IF r.at \in {"read", "check"} THEN r.asked ELSE {}
Hands == {"create policy", "update policy", "link users", "link policies"}

\* What a request has learnt from its guard, for as long as it waits to write: of a
\* link, from the first of its ids on.
CreateFacts(r) == Guarded(r) /\ r.op = "create policy" => r.grant \in vouched \cup Claimed(r)
UpdateFacts(r) == Guarded(r) /\ r.op = "update policy" =>
                    \/ Merged(r.row, r.grant) \in vouched \cup Claimed(r)
                    \/ Merged(r.row, r.grant) = r.row
LinkUsersFacts(r) ==
  (r.at = "read" \/ Guarded(r)) /\ r.op = "link users" =>
    /\ KnownRoles(r.read, Claimed(r))
    /\ Guarded(r) => r.roles \subseteq r.read
LinkPoliciesFacts(r) ==
  (r.at = "read" \/ Guarded(r)) /\ r.op = "link policies" =>
    /\ KnownPolicies(r.read \cap Policies, Claimed(r))
    /\ Guarded(r) => r.policies \subseteq r.read

Facts(r) == /\ CreateFacts(r) /\ UpdateFacts(r)
            /\ LinkUsersFacts(r) /\ LinkPoliciesFacts(r)
            /\ r.at = "guard" => r.op \notin Hands

Trust == GrantsAreVouched /\ \A q \in Requests : Facts(request[q])

\* What every step has to keep for what was learnt to stay true: a known policy
\* stays known, a new link names a known one, and so does a link newly in use.
StaysKnown == \A p \in Policies : \A A :
  policy'[p] # NoRow /\ (policy[p] # NoRow => Known(p, A)) => Known(p, A)'
NewLinksKnown == \A rp \in composes' \ composes : Known(rp[2], {})'
NewUsesKnown ==
  \A rp \in composes' : InUse(rp[1])' => (rp \in composes /\ InUse(rp[1])) \/ Known(rp[2], {})'

Kept == StaysKnown /\ NewLinksKnown /\ NewUsesKnown

LEMMA KnownMore ==
  ASSUME NEW p, NEW A, Known(p, {})'
  PROVE  Known(p, A)'
BY DEF Known

LEMMA FactsCarry ==
  ASSUME TypeInv, TypeInv', Kept, vouched \subseteq vouched',
         NEW q \in Requests, request'[q] = request[q], Facts(request[q])
  PROVE  Facts(request[q])'
<1> DEFINE r == request[q]
<1>1. r \in Request
  BY DEF TypeInv, TypeOK
<1>2. CreateFacts(request[q])'
  BY DEF Facts, CreateFacts, Guarded, Claimed
<1>3. UpdateFacts(request[q])'
  BY DEF Facts, UpdateFacts, Guarded, Claimed
<1>4. LinkUsersFacts(request[q])'
  <2> SUFFICES ASSUME r.at = "read" \/ Guarded(r), r.op = "link users"
               PROVE  KnownRoles(r.read, Claimed(r))'
    BY DEF Facts, LinkUsersFacts, Guarded
  <2>1. PICK A : A = Claimed(r)
    OBVIOUS
  <2>2. PICK R : R = r.read
    OBVIOUS
  <2>3. Claimed(r)' = A /\ r.read' = R
    BY <2>1, <2>2 DEF Claimed
  <2>4. KnownRoles(R, A)
    BY <2>1, <2>2 DEF Facts, LinkUsersFacts
  <2>5. ASSUME NEW rp \in composes', rp[1] \in R
        PROVE  Known(rp[2], A)'
    <3>1. rp[2] \in Policies /\ policy'[rp[2]] # NoRow
      BY DEF TypeInv, TypeOK
    <3>2. CASE rp \in composes
      BY <2>4, <2>5, <3>1, <3>2 DEF KnownRoles, Kept, StaysKnown
    <3>3. CASE rp \notin composes
      BY <3>3, KnownMore DEF Kept, NewLinksKnown
    <3> QED BY <3>2, <3>3
  <2>6. KnownRoles(R, A)'
    BY <2>5 DEF KnownRoles
  <2> QED BY <2>3, <2>6 DEF KnownRoles, Known
<1>5. LinkPoliciesFacts(request[q])'
  <2> SUFFICES ASSUME r.at = "read" \/ Guarded(r), r.op = "link policies"
               PROVE  KnownPolicies(r.read \cap Policies, Claimed(r))'
    BY DEF Facts, LinkPoliciesFacts, Guarded
  <2>1. PICK A : A = Claimed(r)
    OBVIOUS
  <2>2. PICK P : P = r.read \cap Policies
    OBVIOUS
  <2>3. Claimed(r)' = A /\ (r.read \cap Policies)' = P /\ P \subseteq Policies
    BY <2>1, <2>2 DEF Claimed
  <2>4. KnownPolicies(P, A)
    BY <2>1, <2>2 DEF Facts, LinkPoliciesFacts
  <2>5. ASSUME NEW p \in P, policy'[p] # NoRow
        PROVE  Known(p, A)'
    BY <2>3, <2>4, <2>5 DEF KnownPolicies, Kept, StaysKnown
  <2>6. KnownPolicies(P, A)'
    BY <2>5 DEF KnownPolicies
  <2> QED BY <2>3, <2>6 DEF KnownPolicies, Known
<1>6. (request[q].at = "guard" => request[q].op \notin Hands)'
  BY DEF Facts, Hands
<1> QED BY <1>2, <1>3, <1>4, <1>5, <1>6 DEF Facts

LEMMA TrustCarries ==
  ASSUME TypeInv, TypeInv', Trust, Kept, vouched \subseteq vouched',
         \A q \in Requests : request'[q] = request[q] \/ Facts(request[q])'
  PROVE  Trust'
<1>1. \A q \in Requests : Facts(request[q])'
  BY FactsCarry DEF Trust
<1>2. ASSUME NEW rp \in composes', InUse(rp[1])'
      PROVE  Known(rp[2], {})'
  <2>1. rp[2] \in Policies /\ policy'[rp[2]] # NoRow
    BY DEF TypeInv, TypeOK
  <2>2. CASE rp \in composes /\ InUse(rp[1])
    <3>1. Known(rp[2], {})
      BY <2>2 DEF Trust, GrantsAreVouched, Known
    <3> QED BY <2>1, <3>1 DEF Kept, StaysKnown
  <2> QED BY <1>2, <2>2 DEF Kept, NewUsesKnown
<1>3. GrantsAreVouched'
  BY <1>2 DEF GrantsAreVouched, Known
<1> QED BY <1>1, <1>3 DEF Trust

LEMMA QuietKeeps == ASSUME TypeInv, Quiet PROVE Kept
<1>1. StaysKnown
  BY DEF Quiet, tables, StaysKnown, Known
<1>2. NewLinksKnown
  BY DEF Quiet, tables, NewLinksKnown
<1>3. NewUsesKnown
  BY DEF Quiet, tables, NewUsesKnown, InUse
<1> QED BY <1>1, <1>2, <1>3 DEF Kept

\* A statement that writes no policy and takes links or rows away.
LEMMA ShrinkingKeeps ==
  ASSUME UNCHANGED <<policy, vouched, raced>>,
         composes' \subseteq composes, holds' \subseteq holds
  PROVE  Kept
<1>1. StaysKnown
  BY DEF StaysKnown, Known
<1>2. NewLinksKnown
  BY DEF NewLinksKnown
<1>3. \A r : InUse(r)' => InUse(r)
  BY DEF InUse
<1>4. NewUsesKnown
  BY <1>3 DEF NewUsesKnown
<1> QED BY <1>1, <1>2, <1>4 DEF Kept

LEMMA StatementKeeps ==
  ASSUME NEW q \in Requests, TypeInv, Trust, Statement(q)
  PROVE  Kept
<1> USE RequestIds
<1>1. Facts(request[q])
  BY DEF Trust
<1>2. CASE InsertPolicy(q)
  <2>1. PICK p \in request[q].policies :
          policy[p] = NoRow /\ policy' = [policy EXCEPT ![p] = request[q].grant]
    BY <1>2 DEF InsertPolicy
  <2>2. UNCHANGED <<composes, holds, raced, vouched>>
    BY <1>2 DEF InsertPolicy, Committed
  <2>3. request[q].grant \in vouched
    BY <1>1, <1>2 DEF InsertPolicy, At, Facts, CreateFacts, Guarded, Claimed
  <2>4. StaysKnown
    <3> SUFFICES ASSUME NEW o \in Policies, NEW A, policy'[o] # NoRow,
                        policy[o] # NoRow => Known(o, A)
                 PROVE  Known(o, A)'
      BY DEF StaysKnown
    <3>1. CASE o = p
      <4>1. policy'[o] = request[q].grant
        BY <2>1, <3>1 DEF TypeInv, TypeOK
      <4> QED BY <2>2, <2>3, <4>1 DEF Known
    <3>2. CASE o # p
      <4>1. policy'[o] = policy[o]
        BY <2>1, <3>2 DEF TypeInv, TypeOK
      <4> QED BY <2>2, <4>1 DEF Known
    <3> QED BY <3>1, <3>2
  <2>5. NewLinksKnown
    BY <2>2 DEF NewLinksKnown
  <2>6. NewUsesKnown
    BY <2>2 DEF NewUsesKnown, InUse
  <2> QED BY <2>4, <2>5, <2>6 DEF Kept
<1>3. CASE UpdatePolicyRow(q)
  <2>1. PICK p \in request[q].policies :
          /\ policy' = [policy EXCEPT ![p] = Merged(policy[p], request[q].grant)]
          /\ policy[p] # NoRow
          /\ raced' = IF policy[p] = request[q].row THEN raced ELSE raced \cup {p}
    BY <1>3 DEF UpdatePolicyRow
  <2>2. UNCHANGED <<composes, holds, vouched>>
    BY <1>3 DEF UpdatePolicyRow, Committed
  <2>3. \/ Merged(request[q].row, request[q].grant) \in vouched
        \/ Merged(request[q].row, request[q].grant) = request[q].row
    BY <1>1, <1>3 DEF UpdatePolicyRow, At, Facts, UpdateFacts, Guarded, Claimed
  <2>4. StaysKnown
    <3> SUFFICES ASSUME NEW o \in Policies, NEW A, policy'[o] # NoRow,
                        policy[o] # NoRow => Known(o, A)
                 PROVE  Known(o, A)'
      BY DEF StaysKnown
    <3>1. CASE o = p /\ policy[p] = request[q].row
      <4>1. policy'[o] = Merged(request[q].row, request[q].grant)
        BY <2>1, <3>1 DEF TypeInv, TypeOK
      <4>2. CASE policy'[o] \in vouched
        BY <2>2, <4>2 DEF Known
      <4>3. CASE policy'[o] = policy[o]
        <5>1. raced' = raced
          BY <2>1, <3>1
        <5>2. Known(o, A)
          BY <2>1, <3>1
        <5> QED BY <2>2, <4>3, <5>1, <5>2 DEF Known
      <4> QED BY <2>3, <3>1, <4>1, <4>2, <4>3
    <3>2. CASE o = p /\ policy[p] # request[q].row
      <4>1. o \in raced'
        BY <2>1, <3>2
      <4> QED BY <4>1 DEF Known
    <3>3. CASE o # p
      <4>1. policy'[o] = policy[o]
        BY <2>1, <3>3 DEF TypeInv, TypeOK
      <4>2. raced \subseteq raced'
        BY <2>1
      <4>3. Known(o, A)
        BY <4>1
      <4> QED BY <2>2, <4>1, <4>2, <4>3 DEF Known
    <3> QED BY <3>1, <3>2, <3>3
  <2>5. NewLinksKnown
    BY <2>2 DEF NewLinksKnown
  <2>6. NewUsesKnown
    BY <2>2 DEF NewUsesKnown, InUse
  <2> QED BY <2>4, <2>5, <2>6 DEF Kept
<1>4. CASE DeletePolicyRow(q)
  <2>1. /\ policy' = [p \in Policies |-> IF p \in request[q].policies THEN NoRow ELSE policy[p]]
        /\ composes' \subseteq composes /\ UNCHANGED <<holds, raced, vouched>>
    BY <1>4 DEF DeletePolicyRow, Committed
  <2>2. StaysKnown
    BY <2>1 DEF StaysKnown, Known
  <2>3. NewLinksKnown
    BY <2>1 DEF NewLinksKnown
  <2>4. NewUsesKnown
    BY <2>1 DEF NewUsesKnown, InUse
  <2> QED BY <2>2, <2>3, <2>4 DEF Kept
<1>5. CASE InsertRole(q)
  BY <1>5, ShrinkingKeeps DEF InsertRole, Committed
<1>6. CASE UpdateRoleRow(q)
  BY <1>6, ShrinkingKeeps DEF UpdateRoleRow, Committed, tables
<1>7. CASE DeleteRoleRow(q)
  BY <1>7, ShrinkingKeeps DEF DeleteRoleRow, Committed
<1>8. CASE InsertUser(q)
  <2>1. /\ holds' = holds \cup (request[q].users \X (AutoAssign \cap roles))
        /\ UNCHANGED <<policy, composes, raced, vouched>>
    BY <1>8 DEF InsertUser, Committed
  <2>2. StaysKnown /\ NewLinksKnown
    BY <2>1 DEF StaysKnown, NewLinksKnown, Known
  <2>3. \A r : InUse(r)' => InUse(r)
    BY <2>1 DEF InUse
  <2>4. NewUsesKnown
    BY <2>1, <2>3 DEF NewUsesKnown
  <2> QED BY <2>2, <2>4 DEF Kept
<1>9. CASE DeleteUserRow(q)
  BY <1>9, ShrinkingKeeps DEF DeleteUserRow, Committed
<1>10. CASE InsertUserLinks(q)
  <2>1. /\ holds' = holds \cup (request[q].users \X request[q].roles)
        /\ UNCHANGED <<policy, composes, raced, vouched>>
    BY <1>10 DEF InsertUserLinks, Committed
  <2>2. StaysKnown /\ NewLinksKnown
    BY <2>1 DEF StaysKnown, NewLinksKnown, Known
  <2>3. \A r : InUse(r)' => InUse(r) \/ r \in request[q].roles
    BY <2>1 DEF InUse
  <2>4. KnownRoles(request[q].roles, {})
    BY <1>1, <1>10 DEF InsertUserLinks, At, Facts, LinkUsersFacts, Guarded, Claimed, KnownRoles
  <2>5. NewUsesKnown
    BY <2>1, <2>3, <2>4 DEF NewUsesKnown, KnownRoles, Known
  <2> QED BY <2>2, <2>5 DEF Kept
<1>11. CASE DeleteUserLinks(q)
  BY <1>11, ShrinkingKeeps DEF DeleteUserLinks, Committed
<1>12. CASE InsertPolicyLinks(q)
  <2>1. /\ composes' = composes \cup (request[q].roles \X request[q].policies)
        /\ \A p \in request[q].policies : policy[p] # NoRow
        /\ UNCHANGED <<policy, holds, raced, vouched>>
    BY <1>12 DEF InsertPolicyLinks, Committed
  <2>2. KnownPolicies(request[q].policies, {})
    BY <1>1, <1>12 DEF InsertPolicyLinks, At, Facts, LinkPoliciesFacts, Guarded, Claimed,
                       KnownPolicies
  <2>3. StaysKnown
    BY <2>1 DEF StaysKnown, Known
  <2>4. \A rp \in composes' \ composes : Known(rp[2], {})
    BY <2>1, <2>2 DEF KnownPolicies
  <2>5. NewLinksKnown
    BY <2>1, <2>4 DEF NewLinksKnown, Known
  <2>6. NewUsesKnown
    BY <2>1, <2>5 DEF NewUsesKnown, NewLinksKnown, InUse
  <2> QED BY <2>3, <2>5, <2>6 DEF Kept
<1>13. CASE DeletePolicyLinks(q)
  BY <1>13, ShrinkingKeeps DEF DeletePolicyLinks, Committed
<1> QED
  BY <1>2, <1>3, <1>4, <1>5, <1>6, <1>7, <1>8, <1>9, <1>10, <1>11, <1>12, <1>13
  DEF Statement

\* A request that waits for no write has learnt nothing.
LEMMA IdleFacts ==
  ASSUME NEW q \in Requests, request'[q].at \notin {"read", "check", "write", "guard"}
  PROVE  Facts(request[q])'
BY DEF Facts, CreateFacts, UpdateFacts, LinkUsersFacts, LinkPoliciesFacts, Guarded

LEMMA CommittedIdle ==
  ASSUME NEW q \in Requests, TypeInv, NEW keys, Committed(q, keys)
  PROVE  /\ request'[q].at \in {"drop", "done"}
         /\ keys # {} => request'[q].at = "drop" /\ request'[q].keys = keys
         /\ \A s \in Requests \ {q} : request'[s] = request[s]
         /\ entry' = entry /\ excused' = excused /\ vouched' = vouched
         /\ \A f \in Replicas : fill'[f] = NoFill \/ fill'[f].overtaken
<1>1. request' = [request EXCEPT ![q] = Committing(keys)]
  BY DEF Committed, Committing
<1>2. request'[q] = Committing(keys) /\ \A s \in Requests \ {q} : request'[s] = request[s]
  BY <1>1 DEF TypeInv, TypeOK
<1>3. /\ Committing(keys).at \in {"drop", "done"}
      /\ keys # {} => Committing(keys).at = "drop" /\ Committing(keys).keys = keys
  BY DEF Committing, Finished, NoRequest
<1>4. ASSUME NEW f \in Replicas PROVE fill'[f] = NoFill \/ fill'[f].overtaken
  <2>1. CASE fill[f] = NoFill
    BY <2>1 DEF Committed
  <2>2. CASE fill[f] # NoFill
    <3>1. fill[f] \in Fill
      BY <2>2 DEF TypeInv, TypeOK
    <3>2. fill'[f] = [fill[f] EXCEPT !.overtaken = TRUE]
      BY <2>2 DEF Committed
    <3> QED BY <3>1, <3>2 DEF Fill
  <2> QED BY <2>1, <2>2
<1> QED BY <1>2, <1>3, <1>4 DEF Committed

LEMMA StatementCommits ==
  ASSUME NEW q \in Requests, Statement(q)
  PROVE  /\ request[q].at = "write"
         /\ \E keys \in {{}, UserLinkKeys(q), PolicyLinkKeys(q)}
                  \cup {Keys("user", request[q].users), Keys("role", request[q].roles),
                        Keys("policy", request[q].policies)} : Committed(q, keys)
BY DEF Statement, InsertPolicy, UpdatePolicyRow, DeletePolicyRow, InsertRole,
   UpdateRoleRow, DeleteRoleRow, InsertUser, DeleteUserRow, InsertUserLinks,
   DeleteUserLinks, InsertPolicyLinks, DeletePolicyLinks, At

LEMMA StatementTrusted ==
  ASSUME NEW q \in Requests, TypeInv, TypeInv', Trust, Statement(q)
  PROVE  Trust'
<1>1. Kept
  BY StatementKeeps
<1>2. PICK keys : Committed(q, keys)
  BY StatementCommits
<1>3. request'[q].at \in {"drop", "done"} /\ vouched' = vouched
  BY <1>2, CommittedIdle
<1>4. \A s \in Requests \ {q} : request'[s] = request[s]
  BY <1>2, CommittedIdle
<1>5. Facts(request[q])'
  BY <1>3, IdleFacts
<1> QED BY <1>1, <1>3, <1>4, <1>5, TrustCarries

\* A step that touches one request, and no table.
LEMMA QuietTrusted ==
  ASSUME NEW q \in Requests, TypeInv, TypeInv', Trust, Quiet,
         \A s \in Requests \ {q} : request'[s] = request[s],
         request'[q] = request[q] \/ Facts(request[q])'
  PROVE  Trust'
<1>1. Kept /\ vouched \subseteq vouched'
  BY QuietKeeps DEF Quiet
<1> QED BY <1>1, TrustCarries

LEMMA AskTrusted ==
  ASSUME NEW q \in Requests, TypeInv, TypeInv', Trust, Quiet, AskedBy(q)
  PROVE  Trust'
<1>1. PICK r : Asked(r) /\ request' = [request EXCEPT ![q] = r]
  BY DEF AskedBy
<1>2. request'[q] = r /\ \A s \in Requests \ {q} : request'[s] = request[s]
  BY <1>1 DEF TypeInv, TypeOK
<1>3. CreateFacts(request[q])'
  BY <1>1, <1>2 DEF Asked, CreateFacts, Guarded, Claimed
<1>4. /\ UpdateFacts(request[q])' /\ LinkUsersFacts(request[q])'
      /\ LinkPoliciesFacts(request[q])'
  BY <1>1, <1>2 DEF Asked, UpdateFacts, LinkUsersFacts, LinkPoliciesFacts, Guarded,
                    KnownRoles, KnownPolicies
<1>5. (request[q].at = "guard" => request[q].op \notin Hands)'
  BY <1>1, <1>2 DEF Asked, Hands
<1>6. Facts(request[q])'
  BY <1>3, <1>4, <1>5 DEF Facts
<1> QED BY <1>2, <1>6, QuietTrusted

\* What reading one more id leaves of its request.
LEMMA HandingReads ==
  ASSUME NEW q \in Requests, TypeInv, NEW named, NEW id, NEW grants,
         Handing(q, named, id, grants)
  PROVE  /\ request'[q].at \in {"read", "check"}
         /\ request'[q].at = "check" => named \subseteq request'[q].read
         /\ request'[q].read = request[q].read \cup {id}
         /\ request'[q].asked = request[q].asked \cup grants
         /\ request'[q].op = request[q].op
         /\ request'[q].roles = request[q].roles
         /\ request'[q].policies = request[q].policies
         /\ \A s \in Requests \ {q} : request'[s] = request[s]
         /\ UNCHANGED <<composes, policy, vouched, raced>>
<1>1. request[q] \in Request
  BY DEF TypeInv, TypeOK
<1> QED BY <1>1 DEF Handing, tables, TypeInv, TypeOK, Request

\* A guard leaves its request with the facts its write relies on.
LEMMA GuardFacts ==
  ASSUME NEW q \in Requests, TypeInv, Trust, Quiet, Guard(q)
  PROVE  Facts(request[q])' /\ \A s \in Requests \ {q} : request'[s] = request[s]
<1>1. request[q] \in Request /\ Facts(request[q])
  BY DEF TypeInv, TypeOK, Trust
<1>2. CASE CheckRoles(q)
  <2>1. PICK id \in request[q].roles :
          Handing(q, request[q].roles, id,
                  {policy[rp[2]] : rp \in {x \in composes : x[1] = id}})
    BY <1>2 DEF CheckRoles
  <2> DEFINE grants == {policy[rp[2]] : rp \in {x \in composes : x[1] = id}}
  <2>2. request[q].at = "read" /\ request[q].op = "link users"
    BY <1>2 DEF CheckRoles, At
  <2>3. \A rp \in composes : rp[1] = id => policy[rp[2]] \in grants
    OBVIOUS
  <2>4. Handing(q, request[q].roles, id, grants)
    BY <2>1
  <2> HIDE DEF grants
  <2>5. /\ request'[q].at \in {"read", "check"}
        /\ request'[q].at = "check" => request[q].roles \subseteq request'[q].read
        /\ request'[q].read = request[q].read \cup {id}
        /\ request'[q].asked = request[q].asked \cup grants
        /\ request'[q].op = request[q].op
        /\ request'[q].roles = request[q].roles
        /\ request'[q].policies = request[q].policies
        /\ \A s \in Requests \ {q} : request'[s] = request[s]
        /\ UNCHANGED <<composes, policy, vouched, raced>>
    BY <2>4, HandingReads, Zenon
  <2>6. /\ request'[q].at \in {"read", "check"} /\ request'[q].op = "link users"
        /\ request'[q].at = "check" => request'[q].roles \subseteq request'[q].read
        /\ request'[q].read = request[q].read \cup {id}
        /\ request'[q].asked = request[q].asked \cup grants
        /\ \A s \in Requests \ {q} : request'[s] = request[s]
        /\ UNCHANGED <<composes, policy, vouched, raced>>
    BY <2>2, <2>5
  <2>7. KnownRoles(request[q].read, request[q].asked)
    BY <1>1, <2>2 DEF Facts, LinkUsersFacts, Claimed
  <2>8. ASSUME NEW rp \in composes', rp[1] \in request'[q].read
        PROVE  policy'[rp[2]] \in vouched' \cup request'[q].asked \/ rp[2] \in raced'
    <3>1. CASE rp[1] = id
      BY <2>3, <2>6, <3>1
    <3>2. CASE rp[1] \in request[q].read
      BY <2>6, <2>7, <3>2 DEF KnownRoles, Known
    <3> QED BY <2>6, <2>8, <3>1, <3>2
  <2>9. LinkUsersFacts(request[q])'
    BY <2>6, <2>8 DEF LinkUsersFacts, KnownRoles, Known, Claimed, Guarded
  <2>10. /\ CreateFacts(request[q])' /\ UpdateFacts(request[q])'
         /\ LinkPoliciesFacts(request[q])'
         /\ (request[q].at = "guard" => request[q].op \notin Hands)'
    BY <2>6 DEF CreateFacts, UpdateFacts, LinkPoliciesFacts
  <2> QED BY <2>6, <2>9, <2>10 DEF Facts
<1>3. CASE CheckPolicies(q)
  <2>1. PICK id \in request[q].policies :
          Handing(q, request[q].policies, id, {policy[id]})
    BY <1>3 DEF CheckPolicies
  <2>2. request[q].at = "read" /\ request[q].op = "link policies"
    BY <1>3 DEF CheckPolicies, At
  <2>3. /\ request'[q].at \in {"read", "check"}
        /\ request'[q].at = "check" => request[q].policies \subseteq request'[q].read
        /\ request'[q].read = request[q].read \cup {id}
        /\ request'[q].asked = request[q].asked \cup {policy[id]}
        /\ request'[q].op = request[q].op
        /\ request'[q].roles = request[q].roles
        /\ request'[q].policies = request[q].policies
        /\ \A s \in Requests \ {q} : request'[s] = request[s]
        /\ UNCHANGED <<composes, policy, vouched, raced>>
    BY <2>1, HandingReads, Zenon
  <2>4. /\ request'[q].at \in {"read", "check"} /\ request'[q].op = "link policies"
        /\ request'[q].at = "check" => request'[q].policies \subseteq request'[q].read
        /\ request'[q].read = request[q].read \cup {id}
        /\ request'[q].asked = request[q].asked \cup {policy[id]}
        /\ \A s \in Requests \ {q} : request'[s] = request[s]
        /\ UNCHANGED <<composes, policy, vouched, raced>>
    BY <2>2, <2>3
  <2>5. KnownPolicies(request[q].read \cap Policies, request[q].asked)
    BY <1>1, <2>2 DEF Facts, LinkPoliciesFacts, Claimed
  <2>6. ASSUME NEW p \in request'[q].read \cap Policies, policy'[p] # NoRow
        PROVE  policy'[p] \in vouched' \cup request'[q].asked \/ p \in raced'
    BY <2>4, <2>5, <2>6 DEF KnownPolicies, Known
  <2>7. LinkPoliciesFacts(request[q])'
    BY <2>4, <2>6 DEF LinkPoliciesFacts, KnownPolicies, Known, Claimed, Guarded
  <2>8. /\ CreateFacts(request[q])' /\ UpdateFacts(request[q])'
        /\ LinkUsersFacts(request[q])'
        /\ (request[q].at = "guard" => request[q].op \notin Hands)'
    BY <2>4 DEF CreateFacts, UpdateFacts, LinkUsersFacts
  <2> QED BY <2>4, <2>7, <2>8 DEF Facts
<1>4. CASE ReadPolicy(q)
  <2>1. PICK p \in request[q].policies :
          LET merged == Merged(policy[p], request[q].grant) IN
             request' = [request EXCEPT
               ![q].row = policy[p],
               ![q].asked = IF merged = policy[p] THEN {} ELSE {merged},
               ![q].at = IF merged = policy[p] THEN "write" ELSE "check"]
    BY <1>4 DEF ReadPolicy
  <2> DEFINE merged == Merged(policy[p], request[q].grant)
             asked == IF merged = policy[p] THEN {} ELSE {merged}
             at == IF merged = policy[p] THEN "write" ELSE "check"
  <2>2. at \in {"check", "write"} /\ (at = "write" => merged = policy[p])
        /\ (at = "check" => merged \in asked)
    OBVIOUS
  <2>3. request' = [request EXCEPT ![q].row = policy[p], ![q].asked = asked, ![q].at = at]
    BY <2>1
  <2>4. request[q].op = "update policy"
    BY <1>4 DEF ReadPolicy, At
  <2> HIDE DEF asked, at, merged
  <2>5. /\ request'[q].at = at /\ request'[q].op = "update policy"
        /\ request'[q].grant = request[q].grant
        /\ \A s \in Requests \ {q} : request'[s] = request[s]
    BY <1>1, <2>3, <2>4 DEF TypeInv, TypeOK, Request
  <2>6. request'[q].row = policy[p] /\ request'[q].asked = asked
    BY <1>1, <2>3 DEF TypeInv, TypeOK, Request
  <2>7. Merged(request'[q].row, request'[q].grant) = merged
    BY <2>5, <2>6 DEF merged
  <2>8. UpdateFacts(request[q])'
    BY <2>2, <2>5, <2>6, <2>7 DEF UpdateFacts, Claimed
  <2>9. /\ CreateFacts(request[q])' /\ LinkPoliciesFacts(request[q])'
        /\ LinkUsersFacts(request[q])'
        /\ (request[q].at = "guard" => request[q].op \notin Hands)'
    BY <2>2, <2>5 DEF CreateFacts, LinkPoliciesFacts, LinkUsersFacts
  <2> QED BY <2>5, <2>8, <2>9 DEF Facts
<1>5. CASE CheckGrants(q)
  <2>1. /\ request' = [request EXCEPT ![q].at = "write", ![q].asked = {}]
        /\ request[q].at = "check"
        /\ vouched' = vouched \cup request[q].asked
        /\ UNCHANGED <<composes, policy, raced>>
    BY <1>5 DEF CheckGrants, tables
  <2>2. /\ request'[q].at = "write" /\ request'[q].op = request[q].op
        /\ request'[q].grant = request[q].grant /\ request'[q].row = request[q].row
        /\ request'[q].roles = request[q].roles
        /\ request'[q].policies = request[q].policies
        /\ request'[q].read = request[q].read
        /\ \A s \in Requests \ {q} : request'[s] = request[s]
    BY <1>1, <2>1 DEF TypeInv, TypeOK, Request
  <2>3. Claimed(request[q]) = request[q].asked /\ Guarded(request[q])
    BY <2>1 DEF Claimed, Guarded
  <2>4. CreateFacts(request[q])'
    BY <1>1, <2>1, <2>2, <2>3 DEF Facts, CreateFacts
  <2>5. UpdateFacts(request[q])'
    BY <1>1, <2>1, <2>2, <2>3 DEF Facts, UpdateFacts
  <2>6. LinkUsersFacts(request[q])'
    BY <1>1, <2>1, <2>2, <2>3 DEF Facts, LinkUsersFacts, KnownRoles, Known
  <2>7. LinkPoliciesFacts(request[q])'
    BY <1>1, <2>1, <2>2, <2>3 DEF Facts, LinkPoliciesFacts, KnownPolicies, Known
  <2>8. (request[q].at = "guard" => request[q].op \notin Hands)'
    BY <2>2
  <2> QED BY <2>2, <2>4, <2>5, <2>6, <2>7, <2>8 DEF Facts
<1>6. CASE AdministratorsAreNotStripped(q)
  <2>1. /\ request' = [request EXCEPT ![q].at = "write"] /\ request[q].at = "guard"
    BY <1>6 DEF AdministratorsAreNotStripped
  <2>2. /\ request'[q].at = "write" /\ request'[q].op = request[q].op
        /\ \A s \in Requests \ {q} : request'[s] = request[s]
    BY <1>1, <2>1 DEF TypeInv, TypeOK, Request
  <2>3. request'[q].op \notin Hands
    BY <1>1, <2>1, <2>2 DEF Facts
  <2>4. CreateFacts(request[q])' /\ UpdateFacts(request[q])'
    BY <2>3 DEF CreateFacts, UpdateFacts, Hands
  <2>5. LinkUsersFacts(request[q])' /\ LinkPoliciesFacts(request[q])'
    BY <2>3 DEF LinkUsersFacts, LinkPoliciesFacts, Hands
  <2>6. (request[q].at = "guard" => request[q].op \notin Hands)'
    BY <2>3 DEF Hands
  <2> QED BY <2>2, <2>4, <2>5, <2>6 DEF Facts
<1> QED BY <1>2, <1>3, <1>4, <1>5, <1>6 DEF Guard

LEMMA QuietSteps ==
  ASSUME NEW q \in Requests
  PROVE  /\ Handler(q) \/ Guard(q) \/ Fail(q) \/ Crash(q) => Quiet
         /\ \A k : Invalidate(q, k) \/ InvalidateFails(q, k) => Quiet
<1>1. CASE Handler(q)
  BY <1>1 DEF Handler, CreatePolicy, UpdatePolicy, DeletePolicy, CreateRole, UpdateRole,
     DeleteRole, CreateUser, DeleteUser, LinkUsers, UnlinkUsers, LinkRolesToUser,
     UnlinkRolesFromUser, LinkPolicies, UnlinkPolicies, LinkRolesToPolicy,
     UnlinkRolesFromPolicy, Ask, Quiet
<1>2. CASE Guard(q)
  BY <1>2 DEF Guard, CheckRoles, CheckPolicies, Handing, ReadPolicy, CheckGrants,
     AdministratorsAreNotStripped, Quiet
<1>3. Fail(q) \/ Crash(q) => Quiet
  BY DEF Fail, Crash, Quiet
<1>4. \A k : Invalidate(q, k) \/ InvalidateFails(q, k) => Quiet
  BY DEF Invalidate, InvalidateFails, Quiet
<1> QED BY <1>1, <1>2, <1>3, <1>4

LEMMA FinishedIdle ==
  ASSUME NEW q \in Requests, TypeInv, request' = [request EXCEPT ![q] = Finished]
  PROVE  /\ request'[q].at = "done"
         /\ \A s \in Requests \ {q} : request'[s] = request[s]
<1>1. Finished.at = "done"
  BY DEF Finished, NoRequest
<1> QED BY <1>1 DEF TypeInv, TypeOK

\* Dropping one of its keys leaves a request with the others, or finished.
LEMMA DroppedIdle ==
  ASSUME NEW q \in Requests, TypeInv, NEW k, Dropped(q, k)
  PROVE  /\ request'[q].at \in {"drop", "done"}
         /\ \A s \in Requests \ {q} : request'[s] = request[s]
         /\ \A o \in request[q].keys \ {k} : request'[q].at = "drop" /\ o \in request'[q].keys
<1>1. request[q] \in Request /\ request[q].at = "drop" /\ k \in request[q].keys
  BY DEF Dropped, TypeInv, TypeOK
<1>2. CASE request[q].keys = {k}
  <2>1. request' = [request EXCEPT ![q] = Finished]
    BY <1>2 DEF Dropped
  <2> QED BY <1>2, <2>1, FinishedIdle
<1>3. CASE request[q].keys # {k}
  <2> DEFINE r == [request[q] EXCEPT !.keys = @ \ {k}]
  <2>1. request' = [request EXCEPT ![q] = r]
    BY <1>3 DEF Dropped
  <2>2. r.at = "drop" /\ r.keys = request[q].keys \ {k}
    BY <1>1 DEF Request
  <2> HIDE DEF r
  <2>3. request'[q] = r /\ \A s \in Requests \ {q} : request'[s] = request[s]
    BY <2>1 DEF TypeInv, TypeOK
  <2> QED BY <2>2, <2>3
<1> QED BY <1>2, <1>3

LEMMA TrustNext == TypeInv /\ Trust /\ [Next]_vars => Trust'
<1> SUFFICES ASSUME TypeInv, Trust, [Next]_vars PROVE Trust'
  OBVIOUS
<1>t. TypeInv'
  BY TypeNext
<1>1. ASSUME NEW q \in Requests, Handler(q) PROVE Trust'
  BY <1>1, <1>t, HandlerAsks, QuietSteps, AskTrusted
<1>2. ASSUME NEW q \in Requests, Guard(q) PROVE Trust'
  BY <1>2, <1>t, QuietSteps, GuardFacts, QuietTrusted
<1>3. ASSUME NEW q \in Requests, Statement(q) PROVE Trust'
  BY <1>3, <1>t, StatementTrusted
<1>4. ASSUME NEW q \in Requests, Fail(q) \/ Crash(q) PROVE Trust'
  <2>1. request' = [request EXCEPT ![q] = Finished] /\ Quiet
    BY <1>4, QuietSteps DEF Fail, Crash
  <2>2. Facts(request[q])'
    BY <2>1, FinishedIdle, IdleFacts
  <2> QED BY <2>1, <2>2, <1>t, FinishedIdle, QuietTrusted
<1>5. ASSUME NEW q \in Requests, NEW k \in request[q].keys,
             Invalidate(q, k) \/ InvalidateFails(q, k)
      PROVE  Trust'
  <2>1. Dropped(q, k) /\ Quiet
    BY <1>5, QuietSteps DEF Invalidate, InvalidateFails
  <2>2. Facts(request[q])'
    BY <2>1, DroppedIdle, IdleFacts
  <2>3. \A s \in Requests \ {q} : request'[s] = request[s]
    BY <2>1, DroppedIdle
  <2> QED BY <2>1, <2>2, <2>3, <1>t, QuietTrusted
<1>6. CASE Quiet /\ UNCHANGED request
  <2>1. Kept /\ vouched \subseteq vouched'
    BY <1>6, QuietKeeps DEF Quiet
  <2>2. \A q \in Requests : request'[q] = request[q]
    BY <1>6
  <2> QED BY <2>1, <2>2, <1>t, TrustCarries
<1>7. ASSUME NEW f \in Replicas, CacheStep(f) PROVE Trust'
  <2>1. Quiet /\ UNCHANGED request
    BY <1>7 DEF CacheStep, BeginFill, EndFill, LoseFill, Quiet
  <2> QED BY <2>1, <1>6
<1>8. ASSUME NEW u \in Users, Expire(u) PROVE Trust'
  <2>1. Quiet /\ UNCHANGED request
    BY <1>8 DEF Expire, Quiet
  <2> QED BY <2>1, <1>6
<1>9. CASE UNCHANGED vars
  <2>1. Quiet /\ UNCHANGED request
    BY <1>9 DEF vars, Quiet
  <2> QED BY <2>1, <1>6
<1> QED
  BY <1>1, <1>2, <1>3, <1>4, <1>5, <1>7, <1>8, <1>9 DEF Next

LEMMA TrustInit == Init => Trust
<1> SUFFICES ASSUME Init PROVE Trust
  OBVIOUS
<1>1. GrantsAreVouched
  BY DEF Init, GrantsAreVouched, InUse
<1>2. ASSUME NEW q \in Requests PROVE Facts(request[q])
  <2>1. request[q].at = "start"
    BY DEF Init, NoRequest
  <2> QED BY <2>1 DEF Facts, CreateFacts, UpdateFacts, LinkUsersFacts,
             LinkPoliciesFacts, Guarded
<1> QED BY <1>1, <1>2 DEF Trust

\* Whatever an account holds was put to the guard by a caller who held it, through
\* every interleaving of checks and writes, but for the policies two edits raced on.
THEOREM GrantsWereChecked == Spec => []GrantsAreVouched
<1>1. Spec => []TypeInv
  BY TypeInit, TypeNext, PTL DEF Spec
<1>2. Spec => []Trust
  BY <1>1, TrustInit, TrustNext, PTL DEF Spec
<1>3. Trust => GrantsAreVouched
  BY DEF Trust
<1> QED BY <1>2, <1>3, PTL

----------------------------------------------------------------------------------
(* The cached permissions                                                        *)

\* The link and the policy that a cached grant was read from are still there, and
\* the entry depends on both.
Derives(u, e, g, rp) ==
  /\ rp \in composes /\ <<u, rp[1]>> \in holds /\ policy[rp[2]] = g
  /\ <<"role", rp[1]>> \in e.dependencies /\ <<"policy", rp[2]>> \in e.dependencies

Supported(u, e) ==
  /\ <<"user", u>> \in e.dependencies
  /\ \A g \in e.grants : \E rp \in composes : Derives(u, e, g, rp)

EntrySound(u) == entry[u] # NoEntry /\ u \notin excused
                   => Pending(u) \/ Supported(u, entry[u])
FillSound(f) == fill[f] # NoFill /\ ~fill[f].overtaken
                  => Supported(fill[f].user, fill[f])

CacheInv == (\A u \in Users : EntrySound(u)) /\ \A f \in Replicas : FillSound(f)

LEMMA SupportedIsHeld ==
  ASSUME NEW u, NEW e, Supported(u, e)
  PROVE  e.grants \subseteq Effective(u)
BY DEF Supported, Derives, Effective, Composing

\* The dependencies a fill reads are those its grants are derived from.
LEMMA FillIsSupported ==
  ASSUME TypeInv, NEW u \in Users, NEW e, e.grants = Effective(u),
         e.dependencies = Dependencies(u)
  PROVE  Supported(u, e)
<1>1. <<"user", u>> \in e.dependencies
  BY DEF Dependencies
<1>2. ASSUME NEW g \in e.grants
      PROVE  \E rp \in composes : Derives(u, e, g, rp)
  <2>1. PICK rp \in Composing(u) : policy[rp[2]] = g
    BY DEF Effective
  <2>2. rp \in composes /\ <<u, rp[1]>> \in holds
    BY DEF Composing
  <2>3. <<"role", rp[1]>> \in e.dependencies /\ <<"policy", rp[2]>> \in e.dependencies
    BY DEF Dependencies
  <2> QED BY <2>1, <2>2, <2>3 DEF Derives
<1> QED BY <1>1, <1>2 DEF Supported

\* One of the keys the request now has to invalidate reaches the entry.
Reaching(q, u, e) == \E k \in request[q].keys :
                       request[q].at = "drop" /\ k \in e.dependencies \cup {<<"authz", u>>}

LEMMA ReachingKey ==
  ASSUME NEW q \in Requests, TypeInv, NEW u, NEW e, NEW keys, NEW k \in keys,
         Committed(q, keys), k \in e.dependencies \cup {<<"authz", u>>}
  PROVE  Reaching(q, u, e)'
<1>1. request'[q].at = "drop" /\ request'[q].keys = keys
  BY CommittedIdle
<1> QED BY <1>1 DEF Reaching

\* A statement that takes a grant away invalidates a key the entry depends on.
LEMMA LostGrantReached ==
  ASSUME NEW q \in Requests, TypeInv, Statement(q), NEW u \in Users, NEW e, NEW g,
         NEW rp \in composes, Derives(u, e, g, rp), <<"user", u>> \in e.dependencies
  PROVE  Derives(u, e, g, rp)' \/ Reaching(q, u, e)'
<1> USE DEF Derives
<1>0. rp[1] \in roles /\ rp[2] \in Policies /\ policy[rp[2]] # NoRow
      /\ rp = <<rp[1], rp[2]>>
  BY LinkedRow, SeedAssumption
<1>1. CASE InsertPolicy(q)
  <2>1. PICK p \in request[q].policies :
          policy[p] = NoRow /\ policy' = [policy EXCEPT ![p] = request[q].grant]
    BY <1>1 DEF InsertPolicy
  <2>2. policy'[rp[2]] = policy[rp[2]]
    BY <1>0, <2>1 DEF TypeInv, TypeOK
  <2> QED BY <1>1, <2>2 DEF InsertPolicy
<1>2. CASE UpdatePolicyRow(q)
  <2>1. PICK p \in request[q].policies :
          policy' = [policy EXCEPT ![p] = Merged(policy[p], request[q].grant)]
    BY <1>2 DEF UpdatePolicyRow
  <2>2. CASE p = rp[2]
    <3>1. <<"policy", rp[2]>> \in Keys("policy", request[q].policies)
      BY <2>2 DEF Keys
    <3>2. Committed(q, Keys("policy", request[q].policies))
      BY <1>2 DEF UpdatePolicyRow
    <3> QED BY <3>1, <3>2, ReachingKey
  <2>3. CASE p # rp[2]
    <3>1. policy'[rp[2]] = policy[rp[2]]
      BY <1>0, <2>1, <2>3 DEF TypeInv, TypeOK
    <3> QED BY <1>2, <3>1 DEF UpdatePolicyRow
  <2> QED BY <2>2, <2>3
<1>3. CASE DeletePolicyRow(q)
  <2>1. CASE rp[2] \in request[q].policies
    <3>1. <<"policy", rp[2]>> \in Keys("policy", request[q].policies)
      BY <2>1 DEF Keys
    <3>2. Committed(q, Keys("policy", request[q].policies))
      BY <1>3 DEF DeletePolicyRow
    <3> QED BY <3>1, <3>2, ReachingKey
  <2>2. CASE rp[2] \notin request[q].policies
    BY <1>0, <1>3, <2>2 DEF DeletePolicyRow
  <2> QED BY <2>1, <2>2
<1>4. CASE InsertRole(q)
  BY <1>4 DEF InsertRole
<1>5. CASE UpdateRoleRow(q)
  BY <1>5 DEF UpdateRoleRow, tables
<1>6. CASE DeleteRoleRow(q)
  <2>1. CASE rp[1] \in request[q].roles
    <3>1. <<"role", rp[1]>> \in Keys("role", request[q].roles)
      BY <2>1 DEF Keys
    <3>2. Committed(q, Keys("role", request[q].roles))
      BY <1>6 DEF DeleteRoleRow
    <3> QED BY <3>1, <3>2, ReachingKey
  <2>2. CASE rp[1] \notin request[q].roles
    BY <1>6, <2>2 DEF DeleteRoleRow
  <2> QED BY <2>1, <2>2
<1>7. CASE InsertUser(q)
  BY <1>7 DEF InsertUser
<1>8. CASE DeleteUserRow(q) /\ u \notin request[q].users
  BY <1>8 DEF DeleteUserRow
<1>9. CASE DeleteUserRow(q) /\ u \in request[q].users
  <2>1. <<"user", u>> \in Keys("user", request[q].users)
    BY <1>9 DEF Keys
  <2>2. Committed(q, Keys("user", request[q].users))
    BY <1>9 DEF DeleteUserRow
  <2> QED BY <1>9, <2>1, <2>2, ReachingKey
<1>10. CASE InsertUserLinks(q)
  BY <1>10 DEF InsertUserLinks
<1>11. CASE DeleteUserLinks(q)
  <2>1. CASE u \in request[q].users
    <3>1. <<"authz", u>> \in UserLinkKeys(q)
      BY <2>1 DEF UserLinkKeys, Keys
    <3>2. Committed(q, UserLinkKeys(q))
      BY <1>11 DEF DeleteUserLinks
    <3> QED BY <3>1, <3>2, ReachingKey
  <2>2. CASE u \notin request[q].users
    BY <1>11, <2>2 DEF DeleteUserLinks
  <2> QED BY <2>1, <2>2
<1>12. CASE InsertPolicyLinks(q)
  BY <1>12 DEF InsertPolicyLinks
<1>13. CASE DeletePolicyLinks(q)
  <2>1. CASE rp[1] \in request[q].roles
    <3>1. <<"role", rp[1]>> \in PolicyLinkKeys(q)
      BY <2>1 DEF PolicyLinkKeys, Keys
    <3>2. Committed(q, PolicyLinkKeys(q))
      BY <1>13 DEF DeletePolicyLinks
    <3> QED BY <3>1, <3>2, ReachingKey
  <2>2. CASE rp[1] \notin request[q].roles
    BY <1>0, <1>13, <2>2 DEF DeletePolicyLinks
  <2> QED BY <2>1, <2>2
<1> QED
  BY <1>1, <1>2, <1>3, <1>4, <1>5, <1>6, <1>7, <1>8, <1>9, <1>10, <1>11, <1>12, <1>13
  DEF Statement

LEMMA StatementReaches ==
  ASSUME NEW q \in Requests, TypeInv, Statement(q), NEW u \in Users, NEW e,
         Supported(u, e)
  PROVE  Supported(u, e)' \/ Reaching(q, u, e)'
<1> SUFFICES ASSUME ~Reaching(q, u, e)' PROVE Supported(u, e)'
  OBVIOUS
<1>1. <<"user", u>> \in e.dependencies
  BY DEF Supported
<1>2. ASSUME NEW g \in e.grants
      PROVE  \E rp \in composes' : Derives(u, e, g, rp)'
  <2>1. PICK rp \in composes : Derives(u, e, g, rp)
    BY DEF Supported
  <2>2. Derives(u, e, g, rp)'
    BY <1>1, <2>1, LostGrantReached
  <2>3. rp \in composes'
    BY <2>2 DEF Derives
  <2> QED BY <2>2, <2>3
<1> QED BY <1>1, <1>2 DEF Supported

LEMMA StatementCached ==
  ASSUME NEW q \in Requests, TypeInv, CacheInv, Statement(q)
  PROVE  CacheInv'
<1>1. PICK keys : Committed(q, keys)
  BY StatementCommits
<1>2. /\ entry' = entry /\ excused' = excused
      /\ \A s \in Requests \ {q} : request'[s] = request[s]
      /\ \A f \in Replicas : fill'[f] = NoFill \/ fill'[f].overtaken
  BY <1>1, CommittedIdle
<1>3. request[q].at = "write"
  BY StatementCommits
<1>4. ASSUME NEW u \in Users PROVE EntrySound(u)'
  <2> SUFFICES ASSUME entry'[u] # NoEntry, u \notin excused'
               PROVE  Pending(u)' \/ Supported(u, entry[u])'
    BY DEF EntrySound
  <2>1. PICK e : e = entry[u]
    OBVIOUS
  <2>2. entry[u] # NoEntry /\ u \notin excused /\ entry'[u] = e
    BY <1>2, <2>1
  <2>3. CASE Pending(u)
    <3>1. PICK s \in Requests : request[s].at = "drop" /\ \E o \in request[s].keys : Reaches(o, u)
      BY <2>3 DEF Pending
    <3>1a. PICK k \in request[s].keys : Reaches(k, u)
      BY <3>1
    <3>2. request'[s] = request[s]
      BY <1>2, <1>3, <3>1
    <3>3. Reaches(k, u)'
      BY <1>2, <3>1a DEF Reaches
    <3> QED BY <3>1, <3>1a, <3>2, <3>3 DEF Pending
  <2>4. CASE Supported(u, e)
    <3>1. Supported(u, e)' \/ Reaching(q, u, e)'
      BY <2>4, StatementReaches
    <3>2. CASE Supported(u, e)'
      BY <2>2, <3>2 DEF Supported, Derives
    <3>3. CASE Reaching(q, u, e)'
      <4>1. PICK k \in request'[q].keys :
              request'[q].at = "drop" /\ k \in e.dependencies \cup {<<"authz", u>>}
        BY <3>3 DEF Reaching
      <4>2. Reaches(k, u)'
        BY <1>2, <2>2, <4>1 DEF Reaches
      <4> QED BY <4>1, <4>2 DEF Pending
    <3> QED BY <3>1, <3>2, <3>3
  <2>5. Pending(u) \/ Supported(u, entry[u])
    BY <2>2 DEF CacheInv, EntrySound
  <2> QED BY <2>1, <2>3, <2>4, <2>5
<1>5. ASSUME NEW f \in Replicas PROVE FillSound(f)'
  BY <1>2 DEF FillSound
<1> QED BY <1>4, <1>5 DEF CacheInv

\* What the tables support does not change while they do not.
LEMMA SupportStays ==
  ASSUME UNCHANGED tables, NEW u, NEW e, Supported(u, e)
  PROVE  Supported(u, e)'
BY DEF tables, Supported, Derives

LEMMA FillsStay ==
  ASSUME UNCHANGED <<tables, fill>>, CacheInv
  PROVE  \A f \in Replicas : FillSound(f)'
<1> SUFFICES ASSUME NEW f \in Replicas, fill'[f] # NoFill, ~fill'[f].overtaken
             PROVE  Supported(fill[f].user, fill[f])'
  BY DEF FillSound
<1>1. PICK v : v = fill[f]
  OBVIOUS
<1>2. Supported(v.user, v)
  BY <1>1 DEF CacheInv, FillSound
<1>3. Supported(v.user, v)'
  BY <1>2, SupportStays
<1>4. fill'[f] = v
  BY <1>1
<1> QED BY <1>3, <1>4 DEF Supported, Derives

\* A step that leaves the tables and an entry alone, or drops or excuses it.
LEMMA EntryStays ==
  ASSUME UNCHANGED tables, NEW u \in Users, EntrySound(u),
         entry'[u] = entry[u] /\ u \notin excused' => u \notin excused,
         entry'[u] = entry[u] \/ entry'[u] = NoEntry,
         Pending(u) => Pending(u)' \/ entry'[u] = NoEntry \/ u \in excused'
  PROVE  EntrySound(u)'
<1> SUFFICES ASSUME entry'[u] # NoEntry, u \notin excused'
             PROVE  Pending(u)' \/ Supported(u, entry[u])'
  BY DEF EntrySound
<1>1. PICK e : e = entry[u]
  OBVIOUS
<1>2. entry'[u] = e /\ e # NoEntry /\ u \notin excused
  BY <1>1
<1>3. Pending(u) \/ Supported(u, e)
  BY <1>1, <1>2 DEF EntrySound
<1>4. CASE Supported(u, e)
  <2>1. Supported(u, e)'
    BY <1>4, SupportStays
  <2> QED BY <1>2, <2>1 DEF Supported, Derives
<1> QED BY <1>3, <1>4

\* A request that was not invalidating keeps every pending invalidation pending.
LEMMA PendingStays ==
  ASSUME NEW q \in Requests, NEW u \in Users, Pending(u), entry'[u] = entry[u],
         request[q].at # "drop", \A s \in Requests \ {q} : request'[s] = request[s]
  PROVE  Pending(u)'
<1>1. PICK s \in Requests : request[s].at = "drop" /\ \E o \in request[s].keys : Reaches(o, u)
  BY DEF Pending
<1>1a. PICK k \in request[s].keys : Reaches(k, u)
  BY <1>1
<1>2. request'[s] = request[s]
  BY <1>1
<1>3. Reaches(k, u)'
  BY <1>1a DEF Reaches
<1> QED BY <1>1, <1>1a, <1>2, <1>3 DEF Pending

LEMMA OtherRequestCached ==
  ASSUME NEW q \in Requests, CacheInv, UNCHANGED <<tables, fill, entry, excused>>,
         request[q].at # "drop", \A s \in Requests \ {q} : request'[s] = request[s]
  PROVE  CacheInv'
<1>1. ASSUME NEW u \in Users PROVE EntrySound(u)'
  <2>1. Pending(u) => Pending(u)'
    BY PendingStays
  <2> QED BY <2>1, EntryStays DEF CacheInv
<1> QED BY <1>1, FillsStay DEF CacheInv

\* An invalidation drops or excuses what its key reaches, and takes away no other.
LEMMA DroppedPending ==
  ASSUME NEW q \in Requests, TypeInv, NEW k, Dropped(q, k), NEW u \in Users, Pending(u),
         entry'[u] = entry[u], ~Reaches(k, u)
  PROVE  Pending(u)'
<1>1. PICK s \in Requests : request[s].at = "drop" /\ \E o \in request[s].keys : Reaches(o, u)
  BY DEF Pending
<1>1a. PICK o \in request[s].keys : Reaches(o, u)
  BY <1>1
<1>2. Reaches(o, u)'
  BY <1>1a DEF Reaches
<1>3. request'[s].at = "drop" /\ o \in request'[s].keys
  <2>1. CASE s = q
    <3>1. o \in request[q].keys \ {k}
      BY <1>1a, <2>1
    <3> QED BY <2>1, <3>1, DroppedIdle
  <2>2. CASE s # q
    <3>1. request'[s] = request[s]
      BY <2>2, DroppedIdle
    <3> QED BY <1>1, <1>1a, <3>1
  <2> QED BY <2>1, <2>2
<1> QED BY <1>2, <1>3 DEF Pending

LEMMA GuardWaits ==
  ASSUME NEW q \in Requests, Guard(q) \/ Fail(q) \/ AskedBy(q)
  PROVE  request[q].at # "drop"
BY DEF Guard, CheckRoles, CheckPolicies, ReadPolicy, CheckGrants, Fail, At,
   AdministratorsAreNotStripped, AskedBy

LEMMA CacheStepCached ==
  ASSUME NEW f \in Replicas, TypeInv, CacheInv, CacheStep(f)
  PROVE  CacheInv'
<1>1. UNCHANGED <<tables, request>>
  BY DEF CacheStep, BeginFill, EndFill, LoseFill
<1>2. ASSUME NEW u \in Users, entry'[u] = entry[u], Pending(u)
      PROVE  Pending(u)'
  BY <1>1, <1>2 DEF Pending, Reaches
<1>3. ASSUME NEW s \in Replicas \ {f}, fill'[s] = fill[s]
      PROVE  FillSound(s)'
  <2> SUFFICES ASSUME fill'[s] # NoFill, ~fill'[s].overtaken
               PROVE  Supported(fill[s].user, fill[s])'
    BY DEF FillSound
  <2>1. PICK v : v = fill[s]
    OBVIOUS
  <2>2. Supported(v.user, v)
    BY <1>3, <2>1 DEF CacheInv, FillSound
  <2>3. Supported(v.user, v)'
    BY <1>1, <2>2, SupportStays
  <2>4. fill'[s] = v
    BY <1>3, <2>1
  <2> QED BY <2>3, <2>4 DEF Supported, Derives
<1>4. ASSUME NEW u \in Readers, BeginFill(f, u) PROVE CacheInv'
  <2> DEFINE v == [user |-> u, grants |-> Effective(u),
                   dependencies |-> Dependencies(u), overtaken |-> FALSE]
  <2>1. u \in Users /\ fill' = [fill EXCEPT ![f] = v] /\ UNCHANGED <<entry, excused>>
    BY <1>4 DEF BeginFill, TypeInv, TypeOK
  <2>2. PICK w : w = v
    OBVIOUS
  <2>3. w.user = u /\ Supported(u, w)
    BY <2>1, <2>2, FillIsSupported
  <2>4. Supported(u, w)'
    BY <1>1, <2>3, SupportStays
  <2> HIDE DEF v
  <2>5. fill'[f] = w /\ \A s \in Replicas \ {f} : fill'[s] = fill[s]
    BY <2>1, <2>2 DEF TypeInv, TypeOK
  <2>6. FillSound(f)'
    BY <2>3, <2>4, <2>5 DEF FillSound, Supported, Derives
  <2>7. ASSUME NEW o \in Users PROVE EntrySound(o)'
    <3>1. entry'[o] = entry[o] /\ (Pending(o) => Pending(o)')
      BY <1>2, <2>1
    <3> QED BY <1>1, <2>1, <3>1, EntryStays DEF CacheInv
  <2> QED BY <1>3, <2>5, <2>6, <2>7 DEF CacheInv
<1>5. CASE EndFill(f)
  <2>1. PICK v : v = fill[f]
    OBVIOUS
  <2>2. PICK e : e = [grants |-> v.grants, dependencies |-> v.dependencies]
    OBVIOUS
  <2>3. PICK u : u = v.user
    OBVIOUS
  <2>4. v \in Fill /\ u \in Users
    BY <1>5, <2>1, <2>3 DEF EndFill, TypeInv, TypeOK, Fill
  <2>5. /\ fill' = [fill EXCEPT ![f] = NoFill]
        /\ entry' = [entry EXCEPT ![u] = e]
        /\ excused' = IF v.overtaken THEN excused \cup {u} ELSE excused \ {u}
        /\ v # NoFill
    BY <1>5, <2>1, <2>2, <2>3 DEF EndFill
  <2>6. fill'[f] = NoFill /\ \A s \in Replicas \ {f} : fill'[s] = fill[s]
    BY <2>5 DEF TypeInv, TypeOK
  <2>7. FillSound(f)'
    BY <2>6 DEF FillSound
  <2>8. ASSUME NEW o \in Users \ {u} PROVE EntrySound(o)'
    <3>1. entry'[o] = entry[o]
      BY <2>5 DEF TypeInv, TypeOK
    <3>2. o \notin excused' => o \notin excused
      BY <2>5
    <3>3. Pending(o) => Pending(o)'
      BY <1>2, <3>1
    <3> QED BY <1>1, <3>1, <3>2, <3>3, EntryStays DEF CacheInv
  <2>9. EntrySound(u)'
    <3>1. CASE v.overtaken
      <4>1. u \in excused'
        BY <2>5, <3>1
      <4> QED BY <4>1 DEF EntrySound
    <3>2. CASE ~v.overtaken
      <4>1. Supported(u, v)
        BY <2>1, <2>3, <2>5, <3>2 DEF CacheInv, FillSound
      <4>2. Supported(u, v)'
        BY <1>1, <4>1, SupportStays
      <4>3. e.grants = v.grants /\ e.dependencies = v.dependencies
        BY <2>2
      <4>4. Supported(u, e)'
        BY <4>2, <4>3 DEF Supported, Derives
      <4>5. entry'[u] = e
        BY <2>4, <2>5 DEF TypeInv, TypeOK
      <4> QED BY <4>4, <4>5 DEF EntrySound, Supported, Derives
    <3> QED BY <3>1, <3>2
  <2> QED BY <1>3, <2>6, <2>7, <2>8, <2>9 DEF CacheInv
<1>6. CASE LoseFill(f)
  <2>1. fill' = [fill EXCEPT ![f] = NoFill] /\ UNCHANGED <<entry, excused>>
    BY <1>6 DEF LoseFill
  <2>2. fill'[f] = NoFill /\ \A s \in Replicas \ {f} : fill'[s] = fill[s]
    BY <2>1 DEF TypeInv, TypeOK
  <2>3. FillSound(f)'
    BY <2>2 DEF FillSound
  <2>4. ASSUME NEW o \in Users PROVE EntrySound(o)'
    <3>1. entry'[o] = entry[o] /\ (Pending(o) => Pending(o)')
      BY <1>2, <2>1
    <3> QED BY <1>1, <2>1, <3>1, EntryStays DEF CacheInv
  <2> QED BY <1>3, <2>2, <2>3, <2>4 DEF CacheInv
<1> QED BY <1>4, <1>5, <1>6 DEF CacheStep

LEMMA CacheNext == TypeInv /\ CacheInv /\ [Next]_vars => CacheInv'
<1> SUFFICES ASSUME TypeInv, CacheInv, [Next]_vars PROVE CacheInv'
  OBVIOUS
<1>1. ASSUME NEW q \in Requests, Handler(q) PROVE CacheInv'
  <2>1. AskedBy(q)
    BY <1>1, HandlerAsks
  <2>2. request[q].at # "drop"
    BY <2>1, GuardWaits
  <2>3. UNCHANGED <<tables, fill, entry, excused>>
    BY <2>1 DEF AskedBy, Rest
  <2>4. \A s \in Requests \ {q} : request'[s] = request[s]
    BY <2>1 DEF AskedBy, TypeInv, TypeOK
  <2> QED BY <2>2, <2>3, <2>4, OtherRequestCached
<1>2. ASSUME NEW q \in Requests, Guard(q) PROVE CacheInv'
  <2>1. request[q].at # "drop"
    BY <1>2, GuardWaits
  <2>2. UNCHANGED <<tables, fill, entry, excused>>
    BY <1>2 DEF Guard, CheckRoles, CheckPolicies, Handing, ReadPolicy, CheckGrants,
       AdministratorsAreNotStripped
  <2>3. \E r : request' = [request EXCEPT ![q] = r]
    BY <1>2 DEF Guard, CheckRoles, CheckPolicies, Handing, ReadPolicy, CheckGrants,
       AdministratorsAreNotStripped
  <2>4. \A s \in Requests \ {q} : request'[s] = request[s]
    BY <2>3 DEF TypeInv, TypeOK
  <2> QED BY <2>1, <2>2, <2>4, OtherRequestCached
<1>3. ASSUME NEW q \in Requests, Statement(q) PROVE CacheInv'
  BY <1>3, StatementCached
<1>4. ASSUME NEW q \in Requests, Fail(q) PROVE CacheInv'
  <2>1. request[q].at # "drop"
    BY <1>4, GuardWaits
  <2>2. UNCHANGED <<tables, fill, entry, excused>>
    BY <1>4 DEF Fail
  <2>3. \A s \in Requests \ {q} : request'[s] = request[s]
    BY <1>4, FinishedIdle DEF Fail
  <2> QED BY <2>1, <2>2, <2>3, OtherRequestCached
<1>5. ASSUME NEW q \in Requests, Crash(q) PROVE CacheInv'
  <2>1. /\ UNCHANGED <<tables, fill, entry>> /\ excused \subseteq excused'
        /\ request[q].at = "drop"
        /\ \A u \in Users : (\E k \in request[q].keys : Reaches(k, u)) => u \in excused'
    BY <1>5 DEF Crash
  <2>2. \A s \in Requests \ {q} : request'[s] = request[s]
    BY <1>5, FinishedIdle DEF Crash
  <2>3. ASSUME NEW u \in Users PROVE EntrySound(u)'
    <3>1. ASSUME Pending(u), u \notin excused' PROVE Pending(u)'
      <4>1. PICK s \in Requests : request[s].at = "drop" /\ \E k \in request[s].keys : Reaches(k, u)
        BY <3>1 DEF Pending
      <4>2. s # q
        BY <2>1, <3>1, <4>1
      <4>3. request'[s] = request[s]
        BY <2>2, <4>2
      <4> QED BY <2>1, <4>1, <4>3 DEF Pending, Reaches
    <3> QED BY <2>1, <3>1, EntryStays DEF CacheInv
  <2> QED BY <2>1, <2>3, FillsStay DEF CacheInv
<1>6. ASSUME NEW q \in Requests, NEW k \in request[q].keys, Invalidate(q, k)
      PROVE  CacheInv'
  <2>1. /\ Dropped(q, k) /\ UNCHANGED <<tables, fill, excused>>
        /\ entry' = [u \in Users |-> IF Reaches(k, u) THEN NoEntry ELSE entry[u]]
    BY <1>6 DEF Invalidate
  <2>2. ASSUME NEW u \in Users PROVE EntrySound(u)'
    <3>1. CASE Reaches(k, u)
      <4>1. entry'[u] = NoEntry
        BY <2>1, <3>1
      <4> QED BY <4>1 DEF EntrySound
    <3>2. CASE ~Reaches(k, u)
      <4>1. entry'[u] = entry[u]
        BY <2>1, <3>2
      <4>2. Pending(u) => Pending(u)'
        BY <2>1, <3>2, <4>1, DroppedPending
      <4> QED BY <2>1, <4>1, <4>2, EntryStays DEF CacheInv
    <3> QED BY <3>1, <3>2
  <2> QED BY <2>1, <2>2, FillsStay DEF CacheInv
<1>7. ASSUME NEW q \in Requests, NEW k \in request[q].keys, InvalidateFails(q, k)
      PROVE  CacheInv'
  <2>1. /\ Dropped(q, k) /\ UNCHANGED <<tables, fill, entry>>
        /\ excused' = excused \cup {u \in Users : Reaches(k, u)}
    BY <1>7 DEF InvalidateFails
  <2>2. ASSUME NEW u \in Users PROVE EntrySound(u)'
    <3>1. CASE Reaches(k, u)
      <4>1. u \in excused'
        BY <2>1, <3>1
      <4> QED BY <4>1 DEF EntrySound
    <3>2. CASE ~Reaches(k, u)
      <4>1. Pending(u) => Pending(u)'
        BY <2>1, <3>2, DroppedPending
      <4> QED BY <2>1, <4>1, EntryStays DEF CacheInv
    <3> QED BY <3>1, <3>2
  <2> QED BY <2>1, <2>2, FillsStay DEF CacheInv
<1>8. ASSUME NEW f \in Replicas, CacheStep(f) PROVE CacheInv'
  BY <1>8, CacheStepCached
<1>9. ASSUME UNCHANGED <<tables, request, fill, excused>>,
             \A u \in Users : entry'[u] = entry[u] \/ entry'[u] = NoEntry
      PROVE  CacheInv'
  <2>1. ASSUME NEW u \in Users PROVE EntrySound(u)'
    <3>1. CASE entry'[u] = NoEntry
      BY <3>1 DEF EntrySound
    <3>2. CASE entry'[u] = entry[u]
      <4>1. Pending(u) => Pending(u)'
        BY <1>9, <3>2 DEF Pending, Reaches
      <4> QED BY <1>9, <3>2, <4>1, EntryStays DEF CacheInv
    <3> QED BY <1>9, <3>1, <3>2
  <2> QED BY <1>9, <2>1, FillsStay DEF CacheInv
<1>10. ASSUME NEW u \in Users, Expire(u) PROVE CacheInv'
  <2>1. \A o \in Users : entry'[o] = entry[o] \/ entry'[o] = NoEntry
    BY <1>10 DEF Expire, TypeInv, TypeOK
  <2> QED BY <1>9, <1>10, <2>1 DEF Expire
<1>11. CASE UNCHANGED vars
  BY <1>9, <1>11 DEF vars
<1> QED
  BY <1>1, <1>2, <1>3, <1>4, <1>5, <1>6, <1>7, <1>8, <1>10, <1>11 DEF Next

LEMMA CacheInit == Init => CacheInv
BY DEF Init, CacheInv, EntrySound, FillSound

\* A revoked grant is served only while the statement that revoked it has yet to
\* invalidate a key the cached copy depends on.
THEOREM RevokedGrantsGo == Spec => []RevokedGrantsAreDropped
<1>1. Spec => []TypeInv
  BY TypeInit, TypeNext, PTL DEF Spec
<1>2. Spec => []CacheInv
  BY <1>1, CacheInit, CacheNext, PTL DEF Spec
<1>3. CacheInv => RevokedGrantsAreDropped
  BY SupportedIsHeld DEF CacheInv, EntrySound, RevokedGrantsAreDropped
<1> QED BY <1>2, <1>3, PTL
=================================================================================
