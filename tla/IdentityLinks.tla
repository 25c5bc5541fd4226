---------------------------- MODULE IdentityLinks ----------------------------
(* Accounts, identity providers and the identities that link them             *)
(* (users_identities), and the transactions that write them.  PostgreSQL runs *)
(* those at READ COMMITTED: a statement reads what was committed when it      *)
(* began.  So each transaction takes its row locks, a statement then decides  *)
(* on what it reads, and what it writes is there for the others at its        *)
(* commit.  The locks a request holds follow from where it is.                *)
EXTENDS Naturals, FiniteSets

CONSTANTS
    Users,        \* accounts, by id; ids are ordered
    Existing,     \* the accounts there are at the start
    Providers,    \* identity providers, by id
    Issuers,      \* what a provider is pointed at: its kind and its issuer
    FirstIssuer,  \* where every provider points at the start
    Subjects,     \* what an issuer calls its people
    Requests,     \* request goroutines, of any replica
    MaxRequests   \* bound: how many requests start

ASSUME LinksAssumption ==
    /\ Users \subseteq Nat
    /\ Existing \subseteq Users
    /\ FirstIssuer \in Issuers
    /\ MaxRequests \in Nat

VARIABLES
    accounts,     \* the rows of users
    used,         \* the ids given out: a new account never has an old one
    local,        \* local_account: the account signs in with a password
    providers,    \* the rows of idps
    issuer,       \* idp_types and issuer_url of each
    enabled,      \* whether each is
    links,        \* the rows of users_identities
    request,      \* where each request is, and what it was asked for
    excused,      \* made federated while they had no identity (history)
    started       \* how many requests have started

vars == <<accounts, used, local, providers, issuer, enabled, links, request,
          excused, started>>

\* An identity; asserted is the issuer whose token said it (history).
Identities ==
    [user : Users, idp : Providers, subject : Subjects, asserted : Issuers]

Linking == {"link", "insert", "account", "commit link"}
Unlinking == {"ask row", "unlink", "commit unlink"}
Deleting == {"ask delete", "ask accounts", "lock accounts", "delete",
             "commit delete"}
Updating == {"ask update", "update", "commit update"}

Idle == [at |-> "idle"]

RequestStates ==
    {Idle}
    \cup [at : {"sign in"}, idp : Providers, subject : Subjects,
          issuer : Issuers]
    \cup [at : Linking, user : Users, idp : Providers, subject : Subjects,
          issuer : Issuers, creates : BOOLEAN]
    \cup [at : Unlinking, user : Users, idp : Providers]
    \cup [at : Deleting, idp : Providers, todo : SUBSET Users,
          rows : SUBSET Users]
    \cup [at : Updating, idp : Providers, issuer : Issuers, enable : BOOLEAN]

At(r) == request[r].at

\* pk_users_identities and unique_users_identities_user_idp.
SameKey(l, m) == l.idp = m.idp /\ (l.subject = m.subject \/ l.user = m.user)

\* The types, and the two unique keys of users_identities.
TypeOK ==
    /\ accounts \subseteq used /\ used \subseteq Users
    /\ local \in [Users -> BOOLEAN]
    /\ providers \subseteq Providers
    /\ issuer \in [Providers -> Issuers]
    /\ enabled \in [Providers -> BOOLEAN]
    /\ links \subseteq Identities
    /\ \A l, m \in links : SameKey(l, m) => l = m
    /\ request \in [Requests -> RequestStates]
    /\ excused \subseteq Users
    /\ started \in Nat

HasLink(a) == \E l \in links : l.user = a

Init ==
    /\ accounts = Existing /\ used = Existing
    /\ local \in [Users -> BOOLEAN]
    /\ providers = Providers
    /\ issuer = [p \in Providers |-> FirstIssuer]
    /\ enabled = [p \in Providers |-> TRUE]
    /\ links \in SUBSET [user : Existing, idp : Providers, subject : Subjects,
                         asserted : {FirstIssuer}]
    /\ \A l, m \in links : SameKey(l, m) => l = m
    /\ excused = {a \in Existing : ~local[a] /\ ~HasLink(a)}
    /\ request = [r \in Requests |-> Idle]
    /\ started = 0

Counted == started < MaxRequests /\ started' = started + 1

Starts(r, state) ==
    /\ request[r] = Idle /\ Counted
    /\ request' = [request EXCEPT ![r] = state]

Goes(r, place) ==
    /\ request' = [request EXCEPT ![r].at = place]
    /\ UNCHANGED started

Ends(r) ==
    /\ request' = [request EXCEPT ![r] = Idle]
    /\ UNCHANGED started

\* A step that writes no table.
Reads == UNCHANGED <<accounts, local, providers, issuer, enabled, links, excused>>

-----------------------------------------------------------------------------
(* Row locks.  KEY SHARE conflicts with FOR UPDATE only, FOR NO KEY UPDATE    *)
(* with itself and with FOR UPDATE.                                           *)

\* A provider's row, by an identity's insert, until it commits.
KeyShareOfProvider(r, p) ==
    At(r) \in Linking \ {"link"} /\ request[r].idp = p

\* A provider's row, by its delete or its update.
ForUpdateOfProvider(r, p) ==
    /\ At(r) \in (Deleting \cup Updating) \ {"ask delete", "ask update"}
    /\ request[r].idp = p

\* An account's row, by the foreign key of an identity's insert.
KeyShareOfAccount(r, a) == At(r) = "commit link" /\ request[r].user = a

\* An account's row, by what removes one of its identities.
NoKeyUpdateOfAccount(r, a) ==
    \/ At(r) \in Unlinking \ {"ask row"} /\ request[r].user = a
    \/ At(r) \in Deleting /\ a \in request[r].rows

ProviderFreeToShare(r, p) == \A q \in Requests \ {r} : ~ForUpdateOfProvider(q, p)
ProviderFreeForUpdate(r, p) ==
    \A q \in Requests \ {r} : ~ForUpdateOfProvider(q, p) /\ ~KeyShareOfProvider(q, p)
AccountFree(r, a) == \A q \in Requests \ {r} : ~NoKeyUpdateOfAccount(q, a)
AccountUntouched(a) ==
    \A q \in Requests : ~NoKeyUpdateOfAccount(q, a) /\ ~KeyShareOfAccount(q, a)

-----------------------------------------------------------------------------
(* Callback: a sign-in, a first sign-in, a link                               *)

\* The provider as the callback read it; its answer may take any time.
StartSignIn(r, p, s) ==
    /\ p \in providers /\ enabled[p]
    /\ Starts(r, [at |-> "sign in", idp |-> p, subject |-> s, issuer |-> issuer[p]])
    /\ Reads /\ UNCHANGED used

StartLink(r, a, p, s) ==
    /\ p \in providers /\ enabled[p]
    /\ a \in accounts
    /\ Starts(r, [at |-> "link", user |-> a, idp |-> p, subject |-> s,
                  issuer |-> issuer[p], creates |-> FALSE])
    /\ Reads /\ UNCHANGED used

\* (fault) the lookup by provider and subject alone.
KnownAnyhow(job, l) ==
    /\ l.idp = job.idp /\ l.subject = job.subject
    /\ job.idp \in providers

\* SelectBySubject: the identity, under the provider as the sign-in used it.
Known(job, l) ==
    /\ l.idp = job.idp /\ l.subject = job.subject
    /\ job.idp \in providers /\ issuer[job.idp] = job.issuer

\* A known identity signs in, and that is the end of it here.
SignInKnown(r) ==
    /\ At(r) = "sign in"
    /\ \E l \in links : Known(request[r], l)
    /\ Ends(r)
    /\ Reads /\ UNCHANGED used

\* An unknown one is given an account, under an id of its own.
Provision(r, a) ==
    /\ At(r) = "sign in"
    /\ ~ \E l \in links : Known(request[r], l)
    /\ a \notin used /\ used' = used \cup {a}
    /\ request' = [request EXCEPT ![r] =
            [at |-> "link", user |-> a, idp |-> request[r].idp,
             subject |-> request[r].subject, issuer |-> request[r].issuer,
             creates |-> TRUE]]
    /\ UNCHANGED started
    /\ Reads

\* queryLinkIdentity: the provider's row FOR KEY SHARE, read again once it has
\* it; another issuer, or no provider, and nothing is stored.
LockProviderForLink(r) ==
    /\ At(r) = "link"
    /\ ProviderFreeToShare(r, request[r].idp)
    /\ request[r].idp \in providers
    /\ issuer[request[r].idp] = request[r].issuer
    /\ Goes(r, "insert")
    /\ Reads /\ UNCHANGED used

\* Another insert of the same key that has not ended is waited for.
KeyWaitsFor(r, q) ==
    /\ At(q) \in {"account", "commit link"} /\ SameKey(request[r], request[q])

\* (fault) the table without its unique keys.
InsertAnyhow(r) ==
    /\ At(r) = "insert"
    /\ Goes(r, "account")
    /\ Reads /\ UNCHANGED used

\* The two unique keys.
Insert(r) ==
    /\ At(r) = "insert"
    /\ \A q \in Requests \ {r} : ~KeyWaitsFor(r, q)
    /\ \A l \in links : ~SameKey(request[r], l)
    /\ Goes(r, "account")
    /\ Reads /\ UNCHANGED used

\* The foreign key of the account, which a first sign-in has just inserted.
LockAccountForLink(r) ==
    /\ At(r) = "account"
    /\ request[r].creates \/ request[r].user \in accounts
    /\ Goes(r, "commit link")
    /\ Reads /\ UNCHANGED used

\* Insert's transaction, or Link's statement: the account of a first sign-in is
\* stored with its identity, and has no password.
CommitLink(r) ==
    /\ At(r) = "commit link"
    /\ accounts' = accounts \cup {request[r].user}
    /\ local' = [local EXCEPT ![request[r].user] = @ /\ ~request[r].creates]
    /\ links' = links \cup
            {[user |-> request[r].user, idp |-> request[r].idp,
              subject |-> request[r].subject, asserted |-> request[r].issuer]}
    /\ excused' = excused \ {request[r].user}
    /\ Ends(r)
    /\ UNCHANGED <<used, providers, issuer, enabled>>

-----------------------------------------------------------------------------
(* UnlinkIdentity                                                             *)

\* keepsAWayIn: another identity, at a provider that is enabled.
KeepsAWayIn(a, p) == \E l \in links : l.user = a /\ l.idp # p /\ enabled[l.idp]

\* The use-case asks first.
StartUnlink(r, a, p) ==
    /\ a \in accounts
    /\ local[a] \/ KeepsAWayIn(a, p)
    /\ Starts(r, [at |-> "ask row", user |-> a, idp |-> p])
    /\ Reads /\ UNCHANGED used

\* (fault) no lock: what queryUnlinkIdentity then asks may change before it acts.
LockNothingForUnlink(r) ==
    /\ At(r) = "ask row"
    /\ Goes(r, "unlink")
    /\ Reads /\ UNCHANGED used

LockAccountForUnlink(r) ==
    /\ At(r) = "ask row"
    /\ AccountFree(r, request[r].user)
    /\ Goes(r, "unlink")
    /\ Reads /\ UNCHANGED used

\* queryUnlinkIdentity asks again, under the lock.
Unlink(r) ==
    /\ At(r) = "unlink"
    /\ \E l \in links : l.user = request[r].user /\ l.idp = request[r].idp
    /\ local[request[r].user] \/ KeepsAWayIn(request[r].user, request[r].idp)
    /\ Goes(r, "commit unlink")
    /\ Reads /\ UNCHANGED used

CommitUnlink(r) ==
    /\ At(r) = "commit unlink"
    /\ links' = {l \in links : ~(l.user = request[r].user /\ l.idp = request[r].idp)}
    /\ Ends(r)
    /\ UNCHANGED <<accounts, used, local, providers, issuer, enabled, excused>>

-----------------------------------------------------------------------------
(* A provider's delete                                                        *)

StartDelete(r, p) ==
    /\ p \in providers
    /\ Starts(r, [at |-> "ask delete", idp |-> p, todo |-> {}, rows |-> {}])
    /\ Reads /\ UNCHANGED used

\* queryLockIDPForDelete
LockProviderForDelete(r) ==
    /\ At(r) = "ask delete"
    /\ ProviderFreeForUpdate(r, request[r].idp)
    /\ request[r].idp \in providers
    /\ Goes(r, "ask accounts")
    /\ Reads /\ UNCHANGED used

\* (fault) the delete holds its provider's row and no account's.
FindNoAccount(r) ==
    /\ At(r) = "ask accounts"
    /\ Goes(r, "lock accounts")
    /\ Reads /\ UNCHANGED used

\* queryLockAccountsOfIDP: the accounts linked to it, as its snapshot has them.
FindAccounts(r) ==
    /\ At(r) = "ask accounts"
    /\ request' = [request EXCEPT
            ![r].at = "lock accounts",
            ![r].todo = {a \in Users : \E l \in links :
                            l.idp = request[r].idp /\ l.user = a}]
    /\ Reads /\ UNCHANGED <<used, started>>

First(set, a) == a \in set /\ \A b \in set : a <= b

\* (fault) the accounts in the order the table gives them.
LockAnyAccountForDelete(r) ==
    /\ At(r) = "lock accounts"
    /\ \E a \in request[r].todo :
          /\ AccountFree(r, a)
          /\ request' = [request EXCEPT
                ![r].todo = @ \ {a},
                ![r].rows = @ \cup (accounts \cap {a})]
    /\ Reads /\ UNCHANGED <<used, started>>

\* Its rows in the order of their ids; one that is gone is passed over.
LockAccountForDelete(r) ==
    /\ At(r) = "lock accounts"
    /\ \E a \in request[r].todo :
          /\ First(request[r].todo, a)
          /\ AccountFree(r, a)
          /\ request' = [request EXCEPT
                ![r].todo = @ \ {a},
                ![r].rows = @ \cup (accounts \cap {a})]
    /\ Reads /\ UNCHANGED <<used, started>>

AccountsLocked(r) ==
    /\ At(r) = "lock accounts"
    /\ request[r].todo = {}
    /\ Goes(r, "delete")
    /\ Reads /\ UNCHANGED used

\* An account with no password and no identity elsewhere, enabled or not.
OnlyWayIn(a, p) == ~local[a] /\ ~ \E l \in links : l.user = a /\ l.idp # p

\* queryDeleteIDP
DeleteProvider(r) ==
    /\ At(r) = "delete"
    /\ ~ \E l \in links : l.idp = request[r].idp /\ OnlyWayIn(l.user, l.idp)
    /\ Goes(r, "commit delete")
    /\ Reads /\ UNCHANGED used

\* The identities at it go with it (ON DELETE CASCADE).
CommitDelete(r) ==
    /\ At(r) = "commit delete"
    /\ providers' = providers \ {request[r].idp}
    /\ links' = {l \in links : l.idp # request[r].idp}
    /\ Ends(r)
    /\ UNCHANGED <<accounts, used, local, issuer, enabled, excused>>

-----------------------------------------------------------------------------
(* A provider's update: the form sends every field back                       *)

StartUpdate(r, p, i, e) ==
    /\ p \in providers
    /\ Starts(r, [at |-> "ask update", idp |-> p, issuer |-> i, enable |-> e])
    /\ Reads /\ UNCHANGED used

\* (fault) no lock of its own: an UPDATE that changes no key takes the row FOR
\* NO KEY UPDATE, which an insert's KEY SHARE does not conflict with.
LockProviderWeakly(r) ==
    /\ At(r) = "ask update"
    /\ ProviderFreeToShare(r, request[r].idp)
    /\ request[r].idp \in providers
    /\ Goes(r, "update")
    /\ Reads /\ UNCHANGED used

\* queryLockIDPForUpdate
LockProviderForUpdate(r) ==
    /\ At(r) = "ask update"
    /\ ProviderFreeForUpdate(r, request[r].idp)
    /\ request[r].idp \in providers
    /\ Goes(r, "update")
    /\ Reads /\ UNCHANGED used

\* queryUpdateIDP: not pointed elsewhere under its identities.
UpdateProvider(r) ==
    /\ At(r) = "update"
    /\ \/ request[r].issuer = issuer[request[r].idp]
       \/ \A l \in links : l.idp # request[r].idp
    /\ Goes(r, "commit update")
    /\ Reads /\ UNCHANGED used

CommitUpdate(r) ==
    /\ At(r) = "commit update"
    /\ issuer' = [issuer EXCEPT ![request[r].idp] = request[r].issuer]
    /\ enabled' = [enabled EXCEPT ![request[r].idp] = request[r].enable]
    /\ Ends(r)
    /\ UNCHANGED <<accounts, used, local, providers, links, excused>>

-----------------------------------------------------------------------------
(* What one statement does, and what may always happen                        *)

\* A refusal, a failed statement, a time out, a dead process: the transaction
\* is rolled back and its locks are given up.
Rollback(r) ==
    /\ request[r] # Idle
    /\ Ends(r)
    /\ Reads /\ UNCHANGED used

\* UsersRepository.DeleteByID; the account's identities go with it.
DeleteAccount(a) ==
    /\ a \in accounts /\ AccountUntouched(a)
    /\ Counted
    /\ accounts' = accounts \ {a}
    /\ links' = {l \in links : l.user # a}
    /\ excused' = excused \ {a}
    /\ UNCHANGED <<used, local, providers, issuer, enabled, request>>

\* UsersRepository.UpdateByID with local_account: FOR NO KEY UPDATE of its row,
\* and nothing asks what other way in the account has.
SetLocal(a, b) ==
    /\ a \in accounts /\ Counted
    /\ \A q \in Requests : ~NoKeyUpdateOfAccount(q, a)
    /\ local' = [local EXCEPT ![a] = b]
    /\ excused' = IF b \/ HasLink(a) THEN excused \ {a} ELSE excused \cup {a}
    /\ UNCHANGED <<accounts, used, providers, issuer, enabled, links, request>>

Next ==
    \/ \E r \in Requests :
          \/ \E p \in Providers, s \in Subjects : StartSignIn(r, p, s)
          \/ \E a \in Users, p \in Providers, s \in Subjects : StartLink(r, a, p, s)
          \/ SignInKnown(r)
          \/ \E a \in Users : Provision(r, a)
          \/ LockProviderForLink(r) \/ Insert(r) \/ LockAccountForLink(r)
          \/ CommitLink(r)
          \/ \E a \in Users, p \in Providers : StartUnlink(r, a, p)
          \/ LockAccountForUnlink(r) \/ Unlink(r) \/ CommitUnlink(r)
          \/ \E p \in Providers : StartDelete(r, p)
          \/ LockProviderForDelete(r) \/ FindAccounts(r)
          \/ LockAccountForDelete(r) \/ AccountsLocked(r)
          \/ DeleteProvider(r) \/ CommitDelete(r)
          \/ \E p \in Providers, i \in Issuers, e \in BOOLEAN : StartUpdate(r, p, i, e)
          \/ LockProviderForUpdate(r) \/ UpdateProvider(r) \/ CommitUpdate(r)
          \/ Rollback(r)
    \/ \E a \in Users : DeleteAccount(a) \/ \E b \in BOOLEAN : SetLocal(a, b)

Spec == Init /\ [][Next]_vars

-----------------------------------------------------------------------------

\* An account that has no password has an identity, unless an update made it
\* federated when it had none: no unlink, no provider's delete and no half of a
\* first sign-in takes an account's last way in, whatever runs beside it.
NoStrandedAccount ==
    \A a \in accounts \ excused : local[a] \/ HasLink(a)

\* An identity is of an account and of a provider that are there, and what the
\* provider points at now is what said it: a repoint and an insert in flight
\* never pass each other.
LinksHold ==
    \A l \in links :
        /\ l.user \in accounts
        /\ l.idp \in providers
        /\ issuer[l.idp] = l.asserted

\* A sign-in that was long on its way finds an identity only if the issuer that
\* proved its subject is the one that said that identity: the provider may have
\* been pointed elsewhere, and linked again, meanwhile.
SignsInByItsIssuer ==
    \A r \in Requests, l \in links :
        At(r) = "sign in" /\ Known(request[r], l) => l.asserted = request[r].issuer

\* What r waits for, that q holds.
WaitsFor(r, q) ==
    \/ /\ At(r) = "link"
       /\ ForUpdateOfProvider(q, request[r].idp)
    \/ At(r) = "insert" /\ KeyWaitsFor(r, q)
    \/ /\ At(r) \in {"ask delete", "ask update"}
       /\ ForUpdateOfProvider(q, request[r].idp) \/ KeyShareOfProvider(q, request[r].idp)
    \/ At(r) = "ask row" /\ NoKeyUpdateOfAccount(q, request[r].user)
    \/ /\ At(r) = "lock accounts"
       /\ request[r].todo # {}
       /\ \A a \in request[r].todo :
             NoKeyUpdateOfAccount(q, a) \/ ~First(request[r].todo, a)

\* No requests wait for one another: a provider's row before its accounts', and
\* those in the order of their ids, leave no circle to break.
NoWaitCycle ==
    \A S \in SUBSET Requests :
        S # {} => \E r \in S : \A q \in S \ {r} : ~WaitsFor(r, q)

-----------------------------------------------------------------------------
(* The promise the transactions keep                                          *)

Atomic == INSTANCE AtomicLinks

\* Each transaction takes effect at its commit as if nothing ran beside it: what
\* an earlier statement of it has decided is still so in the tables it changes
\* then, whatever has committed since (queryLinkIdentity, queryUnlinkIdentity,
\* queryDeleteIDP, queryUpdateIDP).
TransactionsAreAtomic == Atomic!Spec
=============================================================================
