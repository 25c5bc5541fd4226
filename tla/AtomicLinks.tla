----------------------------- MODULE AtomicLinks -----------------------------
(* What the tables of accounts, providers and identities promise whoever uses *)
(* them, with no lock, no statement and no request: every operation happens   *)
(* at once, on the tables it finds, or does not happen.                       *)
(*                                                                            *)
(* IdentityLinks implements this: its transactions interleave as they like.   *)
CONSTANTS Users, Providers, Issuers, Subjects

VARIABLES accounts, local, providers, issuer, enabled, links

vars == <<accounts, local, providers, issuer, enabled, links>>

SameKey(l, m) == l.idp = m.idp /\ (l.subject = m.subject \/ l.user = m.user)

\* An account has an identity at another provider than p.
Elsewhere(a, p) == \E l \in links : l.user = a /\ l.idp # p

Init ==
    /\ accounts \subseteq Users /\ providers \subseteq Providers
    /\ local \in [Users -> BOOLEAN]
    /\ issuer \in [Providers -> Issuers] /\ enabled \in [Providers -> BOOLEAN]
    /\ \A l, m \in links : SameKey(l, m) => l = m
    /\ \A l \in links :
          l.user \in accounts /\ l.idp \in providers /\ l.asserted = issuer[l.idp]

\* The provider is there, points at who said the subject, and neither knows the
\* subject nor the account by another one.
Add(a, p, s) ==
    /\ p \in providers
    /\ LET l == [user |-> a, idp |-> p, subject |-> s, asserted |-> issuer[p]]
       IN  /\ \A m \in links : ~SameKey(l, m)
           /\ links' = links \cup {l}
    /\ UNCHANGED <<providers, issuer, enabled>>

Link(a, p, s) ==
    /\ a \in accounts
    /\ Add(a, p, s)
    /\ UNCHANGED <<accounts, local>>

\* A first sign-in: never an account without its identity, nor one with a
\* password.
SignUp(a, p, s) ==
    /\ a \notin accounts
    /\ Add(a, p, s)
    /\ accounts' = accounts \cup {a}
    /\ local' = [local EXCEPT ![a] = FALSE]

Unlink(a, p) ==
    /\ local[a] \/ Elsewhere(a, p)
    /\ links' = {l \in links : ~(l.user = a /\ l.idp = p)}
    /\ UNCHANGED <<accounts, local, providers, issuer, enabled>>

RemoveProvider(p) ==
    /\ \A l \in links : l.idp = p => local[l.user] \/ Elsewhere(l.user, p)
    /\ providers' = providers \ {p}
    /\ links' = {l \in links : l.idp # p}
    /\ UNCHANGED <<accounts, local, issuer, enabled>>

ChangeProvider(p, i, e) ==
    /\ i = issuer[p] \/ \A l \in links : l.idp # p
    /\ issuer' = [issuer EXCEPT ![p] = i]
    /\ enabled' = [enabled EXCEPT ![p] = e]
    /\ UNCHANGED <<accounts, local, providers, links>>

RemoveAccount(a) ==
    /\ a \in accounts
    /\ accounts' = accounts \ {a}
    /\ links' = {l \in links : l.user # a}
    /\ UNCHANGED <<local, providers, issuer, enabled>>

\* The one operation that asks for no other way in.
SetLocal(a, b) ==
    /\ a \in accounts
    /\ local' = [local EXCEPT ![a] = b]
    /\ UNCHANGED <<accounts, providers, issuer, enabled, links>>

Next ==
    \/ \E a \in Users, p \in Providers :
          \/ \E s \in Subjects : Link(a, p, s) \/ SignUp(a, p, s)
          \/ Unlink(a, p)
    \/ \E p \in Providers :
          RemoveProvider(p) \/ \E i \in Issuers, e \in BOOLEAN : ChangeProvider(p, i, e)
    \/ \E a \in Users : RemoveAccount(a) \/ \E b \in BOOLEAN : SetLocal(a, b)

Spec == Init /\ [][Next]_vars
==============================================================================
