------------------------------ MODULE Accounts ------------------------------
(* Who may sign in, and who may change that: the rows of users, the update    *)
(* and the delete of an account with the guard of the administrator account,  *)
(* the mailed links, and the one identity provider whose disable asks the     *)
(* same question.  Every statement is a step of its own, so that what a       *)
(* request was judged on may have changed when it writes.                     *)
EXTENDS Naturals, FiniteSets

CONSTANTS
    Users,        \* account ids
    Seeded,       \* the account migration 00003 seeds
    Others,       \* the other accounts there are at the start
    Addresses,    \* e-mail addresses, in the service's spelling
    FirstEmail,   \* each account's address at the start
    Keep,         \* what an update says of an address it does not carry
    Bodies,       \* what updates say: an address, fields set and fields cleared
    Tokens,       \* ids of mailed links
    NotMailed,    \* a link that has not been mailed
    Requests,     \* request goroutines, of any replica
    MaxRequests   \* bound: how many requests start

Fields == {"admin", "disabled", "lock", "local"}

Updates ==
    [email : Addresses \cup {Keep}, on : SUBSET Fields, off : SUBSET Fields]

Links == [kind : {"verification", "reset"}, user : Users, address : Addresses]

ASSUME AccountsAssumption ==
    /\ IsFiniteSet(Users)
    /\ Seeded \in Users /\ Others \subseteq Users
    /\ FirstEmail \in [Users -> Addresses]
    /\ \A a, b \in Users : FirstEmail[a] = FirstEmail[b] => a = b
    /\ Keep \notin Addresses /\ NotMailed \notin Links
    /\ Bodies \subseteq Updates
    /\ \A b \in Bodies : b.on \cap b.off = {}
    /\ MaxRequests \in Nat

VARIABLES
    accounts,     \* the rows of users
    email,        \* and their columns: the address,
    admins,       \* admin,
    disabled,     \* disabled,
    locked,       \* disabled_by_admin,
    locals,       \* local_account,
    verified,     \* verified
    linked,       \* accounts with an identity at the provider
    open,         \* whether the provider is enabled
    had,          \* addresses accounts have had: a cached copy may say them
    mailed,       \* the link behind each token
    spent,        \* tokens with a row in revoked_tokens
    served,       \* how often each has written to an account (history)
    request,      \* where each request is, and what it was judged on
    stale,        \* requests during which another one wrote (history)
    stood,        \* whose caller was an administrator meanwhile (history)
    overlapped,   \* a stale request has written (history)
    started       \* how many requests have started

columns == <<accounts, email, admins, disabled, locked, locals, verified>>
history == <<stale, stood, overlapped>>
vars == <<columns, linked, open, had, mailed, spent, served, request, history,
          started>>

Idle == [at |-> "idle"]

Judging == {"address", "address caller", "row", "caller", "signs in", "count"}
Writing == {"update", "delete"}

\* An update or a delete; said is what its body said, two that it pulls the
\* account in two directions, flagged the target's flag as it was read.
EditStates ==
    [at : Judging \cup Writing, does : Writing, caller : Users, target : Users,
     email : Addresses \cup {Keep}, on : SUBSET Fields, off : SUBSET Fields,
     said : Updates, flagged : BOOLEAN, takes : BOOLEAN, two : BOOLEAN]

Clicks == [at : {"spend", "copy", "follow"}, token : Tokens]
Closings == [at : {"count without", "count now", "close"}]

At(r) == request[r].at
IsEdit(r) == At(r) \in Judging \cup Writing

\* The types, the unique address, and the seeded row.
TypeOK ==
    /\ accounts \subseteq Users
    /\ email \in [Users -> Addresses]
    /\ \A a, b \in accounts : email[a] = email[b] => a = b
    /\ admins \subseteq accounts /\ disabled \subseteq accounts
    /\ locked \subseteq accounts /\ locals \subseteq accounts
    /\ verified \subseteq accounts /\ linked \subseteq accounts
    /\ open \in BOOLEAN
    /\ had \subseteq Users \X Addresses
    /\ mailed \in [Tokens -> Links \cup {NotMailed}]
    /\ spent \subseteq Tokens /\ served \in [Tokens -> Nat]
    /\ request \in
           [Requests -> {Idle} \cup EditStates \cup Clicks \cup Closings]
    /\ stale \subseteq Requests /\ stood \subseteq Requests
    /\ overlapped \in BOOLEAN
    /\ started \in Nat

-----------------------------------------------------------------------------
(* Who may sign in, by the one predicate of enabledAdministrator.             *)

Administrators == admins \ disabled
Linked == IF open THEN linked ELSE {}
SigningIn == Administrators \cap (locals \cup Linked)
SigningInWithout == Administrators \cap locals

\* What the seed and earlier requests left: the lock marks a disabled account,
\* and one that is not verified is a registration whose link is still out.
Init ==
    /\ accounts = {Seeded} \cup Others
    /\ email = FirstEmail
    /\ admins \in SUBSET accounts /\ disabled \in SUBSET accounts
    /\ locked \in SUBSET disabled /\ locals \in SUBSET accounts
    /\ verified \in SUBSET accounts
    /\ linked \in SUBSET Others
    /\ accounts \ verified \subseteq (disabled \cap locals) \ linked
    /\ Seeded \in (admins \cap locals \cap verified) \ disabled
    /\ open = TRUE
    /\ had = {<<a, email[a]>> : a \in accounts}
    /\ mailed = [t \in Tokens |-> NotMailed]
    /\ spent = {} /\ served = [t \in Tokens |-> 0]
    /\ request = [r \in Requests |-> Idle]
    /\ stale = {} /\ stood = {} /\ overlapped = FALSE
    /\ started = 0

\* A request of a caller that may act (Standing) or, for a link, of anybody.
Starts(r, state) ==
    /\ request[r] = Idle
    /\ started < MaxRequests /\ started' = started + 1
    /\ request' = [request EXCEPT ![r] = state]
    /\ stale' = stale \ {r} /\ UNCHANGED overlapped

Standing(a) == a \in accounts /\ a \notin disabled

Reads == UNCHANGED <<columns, linked, open, had, mailed, spent, served>>

\* The request goes on, without a write, or answers.
Goes(r, state) ==
    /\ request' = [request EXCEPT ![r] = state]
    /\ Reads /\ UNCHANGED <<history, started>>

Ends(r) == Goes(r, Idle)

\* What every write does to the history: the requests under way are judged on
\* what was, and some of their callers may have become administrators.
Wrote(r) ==
    /\ stale' = {q \in Requests \ {r} : request[q] # Idle}
    /\ stood' = stood \cup {q \in Requests \ {r} :
                               IsEdit(q) /\ request[q].caller \in Administrators'}
    /\ overlapped' = (overlapped \/ r \in stale)
    /\ request' = [request EXCEPT ![r] = Idle]
    /\ UNCHANGED started

-----------------------------------------------------------------------------
(* UpdateByID.                                                                *)

\* What a set column becomes for a, told to set or to clear it.
Told(column, field, a, u) ==
    IF field \in u.on THEN column \cup {a}
    ELSE IF field \in u.off THEN column \ {a} ELSE column

Held(a) == {f \in Fields : \/ f = "admin" /\ a \in admins
                           \/ f = "disabled" /\ a \in disabled
                           \/ f = "lock" /\ a \in locked
                           \/ f = "local" /\ a \in locals}

\* Values that are no change, and those of them taken out of the update.
NoChange(a, u) == (u.on \cap Held(a)) \cup (u.off \ Held(a))
Dropped(a, u) ==
    NoChange(a, u) \cap
        ( {"admin", "lock"}
          \cup (IF "lock" \in u.on \cup u.off THEN {"disabled"} ELSE {})
          \cup (IF a \in admins THEN {"disabled", "local"} ELSE {}) )

\* A fault: the lock is dropped as no change before the two are compared.
TwoDirectionsOfChanges(a, u) ==
    \/ "lock" \in u.on \ Held(a) /\ "disabled" \in u.off /\ a \in disabled
    \/ "lock" \in u.off \cap Held(a) /\ "disabled" \in u.on /\ a \notin disabled

\* A change of disabled that disagrees with the lock beside it.
TwoDirections(a, u) ==
    \/ "lock" \in u.on /\ "disabled" \in u.off /\ a \in disabled
    \/ "lock" \in u.off /\ "disabled" \in u.on /\ a \notin disabled

\* Whether what is left of an update takes an administrator's sign-in away.
TakesAway(on, off) ==
    on \cap {"disabled", "lock"} # {} \/ off \cap {"admin", "local"} # {}

\* Which questions it raises: the flag's own, and the guard's on an account
\* that has the flag.
AsksCaller(a, on, off) ==
    "admin" \in on \cup off \/ (a \in admins /\ on \cup off # {})

Touches(u) == u.on \cup u.off # {}

StartUpdate(r) ==
    \E caller \in Users, a \in Users, u \in Bodies :
        /\ Standing(caller) /\ (u.email # Keep \/ Touches(u))
        /\ Starts(r, [at |-> IF u.email # Keep THEN "address" ELSE "row",
                      does |-> "update", caller |-> caller, target |-> a,
                      email |-> u.email, on |-> u.on, off |-> u.off, said |-> u,
                      flagged |-> FALSE, takes |-> FALSE, two |-> FALSE])
        /\ stood' = IF caller \in Administrators
                    THEN stood \cup {r} ELSE stood \ {r}
        /\ Reads

\* addressMayChange has let the address through, or taken it out.
AddressJudged(r, address) ==
    Goes(r, [request[r] EXCEPT
                 !.email = address,
                 !.at = IF Touches(request[r]) THEN "row" ELSE "update"])

ReadAddress(r) ==
    /\ At(r) = "address"
    /\ LET a == request[r].target
       IN  \/ a \notin accounts /\ Ends(r)
           \/ a \in accounts /\ email[a] = request[r].email
              /\ AddressJudged(r, Keep)
           \/ a \in accounts /\ email[a] # request[r].email
              /\ Goes(r, [request[r] EXCEPT !.at = "address caller"])

\* A fault: any account that may act changes an address.
AskAddressCallerStands(r) ==
    /\ At(r) = "address caller"
    /\ IF Standing(request[r].caller) THEN AddressJudged(r, request[r].email)
       ELSE Ends(r)

AskAddressCaller(r) ==
    /\ At(r) = "address caller"
    /\ IF request[r].caller \in Administrators
       THEN AddressJudged(r, request[r].email)
       ELSE Ends(r)

\* Judged: the body that pulls in two directions is refused last.
Passes(r) ==
    IF request[r].two THEN Ends(r)
    ELSE Goes(r, [request[r] EXCEPT !.at = request[r].does])

ReadRow(r) ==
    /\ At(r) = "row" /\ request[r].does = "update"
    /\ LET a == request[r].target
           u == request[r]
           on == u.on \ Dropped(a, u)
           off == u.off \ Dropped(a, u)
           two == TwoDirections(a, u)
           judged == [u EXCEPT !.on = on, !.off = off, !.two = two,
                               !.flagged = (a \in admins),
                               !.takes = (a \in admins /\ TakesAway(on, off))]
       IN  \/ a \notin accounts /\ Ends(r)
           \/ a \in accounts /\ AsksCaller(a, on, off)
              /\ Goes(r, [judged EXCEPT !.at = "caller"])
           \/ a \in accounts /\ ~AsksCaller(a, on, off) /\ two /\ Ends(r)
           \/ a \in accounts /\ ~AsksCaller(a, on, off) /\ ~two
              /\ Goes(r, [judged EXCEPT !.at = "update"])

\* guardAdministrator.  The code asks again for every field that changes;
\* asked once, a request is refused less.
AskCaller(r) ==
    /\ At(r) = "caller"
    /\ \/ request[r].caller \notin Administrators /\ Ends(r)
       \/ /\ request[r].caller \in Administrators
          /\ IF request[r].takes
             THEN Goes(r, [request[r] EXCEPT !.at = "signs in"])
             ELSE Passes(r)

AskSignsIn(r) ==
    /\ At(r) = "signs in"
    /\ IF request[r].target \in SigningIn
       THEN Goes(r, [request[r] EXCEPT !.at = "count"])
       ELSE Passes(r)

\* A fault: the count is compared as if it left the target out.
AskCountOffByOne(r) ==
    /\ At(r) = "count"
    /\ IF Cardinality(SigningIn) < 1 THEN Ends(r) ELSE Passes(r)

AskCount(r) ==
    /\ At(r) = "count"
    /\ IF Cardinality(SigningIn) <= 1 THEN Ends(r) ELSE Passes(r)

\* The statement, on the row as it is by now.
DisabledAfter(a, u) ==
    IF "lock" \in u.on THEN disabled \cup {a}
    ELSE IF "lock" \in u.off /\ a \in locked /\ "disabled" \notin u.on \cup u.off
         THEN IF a \in verified THEN disabled \ {a} ELSE disabled \cup {a}
         ELSE Told(disabled, "disabled", a, u)

LockedAfter(a, u) ==
    IF "lock" \in u.on \cup u.off THEN Told(locked, "lock", a, u)
    ELSE IF "disabled" \in u.on \cap Held(a) \/ "disabled" \in u.off \ Held(a)
         THEN locked
         ELSE Told(locked, "disabled", a, u)

\* A fault: no unique index on the address.
RefusedByTriggerOnly(a, u) == a = Seeded /\ a \in admins /\ "admin" \in u.off

\* The unique address, and fn_protect_bootstrap_administrator.
Refused(a, u) ==
    \/ u.email # Keep /\ \E b \in accounts \ {a} : email[b] = u.email
    \/ a = Seeded /\ a \in admins /\ "admin" \in u.off

Update(r) ==
    /\ At(r) = "update"
    /\ LET a == request[r].target
           u == request[r]
       IN  /\ a \in accounts /\ ~Refused(a, u)
           /\ email' = IF u.email = Keep THEN email
                       ELSE [email EXCEPT ![a] = u.email]
           /\ had' = had \cup {<<a, email'[a]>>}
           /\ admins' = Told(admins, "admin", a, u)
           /\ disabled' = DisabledAfter(a, u)
           /\ locked' = LockedAfter(a, u)
           /\ locals' = Told(locals, "local", a, u)
    /\ UNCHANGED <<accounts, verified, linked, open, mailed, spent, served>>
    /\ Wrote(r)

-----------------------------------------------------------------------------
(* DeleteByID, and what makes an account.                                     *)

StartDelete(r) ==
    \E caller \in Users, a \in Users :
        /\ Standing(caller)
        /\ Starts(r, [at |-> "row", does |-> "delete", caller |-> caller,
                      target |-> a, email |-> Keep, on |-> {}, off |-> {},
                      said |-> [email |-> Keep, on |-> {}, off |-> {}],
                      flagged |-> FALSE, takes |-> TRUE, two |-> FALSE])
        /\ stood' = IF caller \in Administrators
                    THEN stood \cup {r} ELSE stood \ {r}
        /\ Reads

\* An account that is not there is the statement's to answer.
ReadDeleted(r) ==
    /\ At(r) = "row" /\ request[r].does = "delete"
    /\ IF request[r].target \in admins
       THEN Goes(r, [request[r] EXCEPT !.at = "caller", !.flagged = TRUE])
       ELSE Goes(r, [request[r] EXCEPT !.at = "delete"])

\* The seeded row's delete would take its role's link with it, which
\* fn_protect_bootstrap_links refuses.
Delete(r) ==
    /\ At(r) = "delete"
    /\ LET a == request[r].target
       IN  /\ a \in accounts /\ a # Seeded
           /\ accounts' = accounts \ {a} /\ admins' = admins \ {a}
           /\ disabled' = disabled \ {a} /\ locked' = locked \ {a}
           /\ locals' = locals \ {a} /\ verified' = verified \ {a}
           /\ linked' = linked \ {a}
    /\ UNCHANGED <<email, open, had, mailed, spent, served>>
    /\ Wrote(r)

\* A row is inserted: made by an administrator (locked, and vouched for), by a
\* registration (shut until its link is followed) or by a first sign-in.
Create(r) ==
    \E a \in Users \ accounts, address \in Addresses,
       how \in {"made", "registered", "provisioned"} :
        /\ request[r] = Idle
        /\ started < MaxRequests /\ started' = started + 1
        /\ \A b \in accounts : email[b] # address
        /\ (how = "provisioned" => open)
        /\ accounts' = accounts \cup {a}
        /\ email' = [email EXCEPT ![a] = address]
        /\ had' = had \cup {<<a, address>>}
        /\ disabled' = IF how = "provisioned" THEN disabled ELSE disabled \cup {a}
        /\ locked' = IF how = "made" THEN locked \cup {a} ELSE locked
        /\ locals' = IF how = "provisioned" THEN locals ELSE locals \cup {a}
        /\ verified' = IF how = "registered" THEN verified ELSE verified \cup {a}
        /\ linked' = IF how = "provisioned" THEN linked \cup {a} ELSE linked
        /\ stale' = {q \in Requests \ {r} : request[q] # Idle}
        /\ UNCHANGED <<admins, open, mailed, spent, served, request, stood,
                       overlapped>>

-----------------------------------------------------------------------------
(* Mailed links.  Where one goes is read from the row or from a cached copy,  *)
(* which may say whatever the row has been; what it does is decided by the    *)
(* statement at its end.                                                      *)

Mail(t) ==
    \E a \in Users, address \in Addresses, kind \in {"verification", "reset"} :
        /\ mailed[t] = NotMailed /\ <<a, address>> \in had
        /\ mailed' = [mailed EXCEPT ![t] = [kind |-> kind, user |-> a,
                                            address |-> address]]
        /\ UNCHANGED <<columns, linked, open, had, spent, served, request,
                       history, started>>

Click(r) ==
    \E t \in Tokens :
        /\ mailed[t] # NotMailed
        /\ Starts(r, [at |-> "spend", token |-> t])
        /\ Reads /\ UNCHANGED stood

\* consumeSingleUseToken: the row in revoked_tokens is the first use.
Spend(r) ==
    /\ At(r) = "spend"
    /\ LET t == request[r].token
       IN  \/ t \in spent /\ Ends(r)
           \/ /\ t \notin spent /\ spent' = spent \cup {t}
              /\ request' = [request EXCEPT ![r].at =
                     IF mailed[t].kind = "reset" THEN "follow" ELSE "copy"]
              /\ UNCHANGED <<columns, linked, open, had, mailed, served, history,
                             started>>

\* The verification's copy of the account; where it differs the link is
\* refused.
ReadCopy(r) == At(r) = "copy" /\ Goes(r, [request[r] EXCEPT !.at = "follow"])

\* A fault: the statement is keyed by the account alone.
ServesWhoeverHasIt(l) ==
    /\ l.user \in accounts
    /\ (l.kind = "verification" => l.user \notin verified)
    /\ (l.kind = "reset" => l.user \in locals \ disabled)

Serves(l) ==
    /\ l.user \in accounts /\ email[l.user] = l.address
    /\ (l.kind = "verification" => l.user \notin verified)
    /\ (l.kind = "reset" => l.user \in locals \ disabled)

Follow(r) ==
    /\ At(r) = "follow"
    /\ LET t == request[r].token
           l == mailed[t]
       IN  /\ Serves(l)
           /\ served' = [served EXCEPT ![t] = @ + 1]
           /\ verified' = IF l.kind = "verification"
                          THEN verified \cup {l.user} ELSE verified
           /\ disabled' = IF l.kind = "verification" /\ l.user \notin locked \cup admins
                          THEN disabled \ {l.user} ELSE disabled
    /\ UNCHANGED <<accounts, email, admins, locked, locals, linked, open, had,
                   mailed, spent>>
    /\ Wrote(r)

-----------------------------------------------------------------------------
(* The provider, and an account's own identity at it.                         *)

StartClose(r) ==
    /\ open /\ Starts(r, [at |-> "count without"])
    /\ Reads /\ UNCHANGED stood

CountWithout(r) ==
    /\ At(r) = "count without"
    /\ Goes(r, [at |-> IF SigningInWithout # {} THEN "close" ELSE "count now"])

CountNow(r) ==
    /\ At(r) = "count now"
    /\ IF SigningIn # {} THEN Ends(r) ELSE Goes(r, [at |-> "close"])

Close(r) ==
    /\ At(r) = "close"
    /\ open' = FALSE
    /\ UNCHANGED <<columns, linked, had, mailed, spent, served>>
    /\ Wrote(r)

\* A write that only gives sign-ins, or takes one an account has twice.
Aside ==
    /\ started < MaxRequests /\ started' = started + 1
    /\ stale' = {q \in Requests : request[q] # Idle}
    /\ UNCHANGED <<columns, had, mailed, spent, served, request, stood,
                   overlapped>>

Open == ~open /\ open' = TRUE /\ UNCHANGED linked /\ Aside

Link(a) ==
    /\ open /\ a \in accounts \ linked
    /\ linked' = linked \cup {a} /\ UNCHANGED open /\ Aside

\* queryUnlinkIdentity: of an account that has a password.
Unlink(a) ==
    /\ a \in linked \cap locals
    /\ linked' = linked \ {a} /\ UNCHANGED open /\ Aside

-----------------------------------------------------------------------------
\* A database call fails or is refused, at any place: the request answers.
Fail(r) == request[r] # Idle /\ Ends(r)

Next ==
    \/ \E r \in Requests :
          \/ StartUpdate(r) \/ ReadAddress(r) \/ AskAddressCaller(r)
          \/ ReadRow(r) \/ AskCaller(r) \/ AskSignsIn(r) \/ AskCount(r)
          \/ Update(r) \/ StartDelete(r) \/ ReadDeleted(r) \/ Delete(r)
          \/ Create(r) \/ Click(r) \/ Spend(r) \/ ReadCopy(r) \/ Follow(r)
          \/ StartClose(r) \/ CountWithout(r) \/ CountNow(r) \/ Close(r)
          \/ Fail(r)
    \/ \E t \in Tokens : Mail(t)
    \/ \E a \in Users : Link(a) \/ Unlink(a)
    \/ Open

Spec == Init /\ [][Next]_vars

-----------------------------------------------------------------------------
(* Properties.                                                                *)

Writes(r, a) == At(r) \in Writing /\ request[r].target = a /\ request'[r] = Idle

\* addressMayChange, flagMayChange, administratorSignInMayChange: an address
\* and the flag are changed, and an account with the flag is deleted, disabled,
\* enabled, locked, made federated or local, only in a request whose caller was
\* an enabled administrator at some moment of it.  One the account's flag was
\* given during is judged as it was read.  A link and a first sign-in never do.
OnlyTheFlagDoes ==
    [][\A a \in accounts :
        LET kept == a \in accounts'
            signIn == \/ ~kept
                      \/ (a \in disabled) # (a \in disabled')
                      \/ (a \in locked) # (a \in locked')
                      \/ (a \in locals) # (a \in locals')
            byOne == \E r \in stood : Writes(r, a)
            asRead == \E r \in Requests : Writes(r, a) /\ ~request[r].flagged
        IN  /\ (kept /\ email'[a] # email[a]) => byOne
            /\ (kept /\ (a \in admins) # (a \in admins')) => byOne
            /\ (a \in admins /\ signIn) => (byOne \/ asRead)]_vars

\* lockMayChange and Verify: what an administrator locked stays disabled and
\* locked until an update whose body says to unlock or enable it, and does not
\* say lock as well: never by a link, and never by a value judged no change.
LockedStaysShut ==
    [][\A a \in locked \cap accounts' :
        (a \notin disabled' \/ a \notin locked') =>
            \E r \in Requests :
                /\ Writes(r, a)
                /\ {"lock", "disabled"} \cap request[r].said.off # {}
                /\ "lock" \notin request[r].said.on]_vars

\* consumeSingleUseToken and the two statements: a link writes once, and only
\* to the account that still has the address it was mailed to; it resets no
\* password of an account that was disabled or made federated since.
LinksServeTheirMailbox ==
    [][\A t \in Tokens :
        served'[t] # served[t] =>
            /\ served[t] = 0
            /\ mailed[t].user \in accounts
            /\ email[mailed[t].user] = mailed[t].address
            /\ (mailed[t].kind = "reset" => mailed[t].user \in locals \ disabled)]_vars

\* guardAdministrator and keepsAnAdministrator: unless a request wrote after
\* another one wrote during it, some administrator account can sign in; and the
\* seeded one keeps its flag whatever overlaps.
AnAdministratorRemains ==
    /\ Seeded \in admins
    /\ overlapped \/ SigningIn # {}
=============================================================================
