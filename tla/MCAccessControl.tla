---- MODULE MCAccessControl ----
(* Two management requests of each kind over one seeded administrator, one other  *)
(* account, one custom role and one custom policy.                                *)
EXTENDS AccessControl, TLC

CONSTANTS root, ana, bo, adm, member, spare, full, tasks, fresh, q1, q2

G(a, r) == [action |-> a, resource |-> r]
MCFirstGrants == (full :> Everything) @@ (tasks :> G("get", "a")) @@ (fresh :> NoRow)
MCNewGrants == {G("post", "b")}
MCEdits == {G("post", Keep), G(Keep, "b"), G("get", Keep)}
MCFirstLinks == [holds : {{<<root, adm>>} \cup s : s \in SUBSET {<<ana, member>>}},
                 composes : {{<<adm, full>>} \cup s : s \in SUBSET {<<member, tasks>>}}]
Symmetric == Permutations({q1, q2})
====
