--------------------------- MODULE AccessDenylist ---------------------------
(* Revoked access tokens: the rows of revoked_tokens, and on every replica    *)
(* the two in-memory sets of usecase/revoked_access_tokens.go that its        *)
(* middleware consults.  A reload is a query, a Store of remote and a prune   *)
(* of local, with the replica's other goroutines in between; a logout is a    *)
(* row and then an Add.                                                       *)
EXTENDS Integers, FiniteSets

CONSTANTS
    Replicas,
    Handlers,   \* handler goroutines of a replica that serve logouts
    Tokens,     \* access tokens, by jti
    Exp,        \* the expiry of each
    Skew,       \* how far the database's clock is ahead of the replicas'
    Faults,     \* a subset of {"crash", "fail"}
    MaxTime     \* bound on the clock

ASSUME DenylistAssumption ==
    /\ Exp \in [Tokens -> Nat] /\ Skew \in Int /\ MaxTime \in Nat
    /\ Faults \subseteq {"crash", "fail"}

VARIABLES
    now,       \* the replicas' clock
    row,       \* tokens with a row of type access_token
    status,    \* per replica: "down", "starting" (first load), "serving"
    remote,    \* per replica: the last good reload
    local,     \* per replica: what it revoked itself
    reload,    \* per replica: where its Reload is, and what its query returned
    logout,    \* per replica and handler: where its logout is
    answered   \* per replica: tokens whose logout it answered 200, ever

vars == <<now, row, status, remote, local, reload, logout, answered>>

NoReload == [at |-> "idle", jtis |-> {}]
NoLogout == [at |-> "idle", tokens |-> {}]

Reloads == [at : {"idle", "read", "prune"}, jtis : SUBSET Tokens]
Logouts == [at : {"idle", "revoke", "add", "answer"}, tokens : SUBSET Tokens]

\* What a replica may be doing at each stage of its life: nothing before its
\* process runs, only the first load until that has ended.
StagesOK ==
    \A r \in Replicas :
        /\ status[r] = "down" => reload[r] = NoReload
        /\ status[r] = "starting" => reload[r].at # "idle"
        /\ status[r] # "serving" => \A h \in Handlers : logout[r][h] = NoLogout

TypeOK ==
    /\ now \in 0..MaxTime
    /\ row \subseteq Tokens
    /\ status \in [Replicas -> {"down", "starting", "serving"}]
    /\ remote \in [Replicas -> SUBSET Tokens]
    /\ local \in [Replicas -> SUBSET Tokens]
    /\ reload \in [Replicas -> Reloads]
    /\ logout \in [Replicas -> [Handlers -> Logouts]]
    /\ answered \in [Replicas -> SUBSET Tokens]
    /\ StagesOK

Init ==
    /\ now = 0
    /\ row = {}
    /\ status = [r \in Replicas |-> "down"]
    /\ remote = [r \in Replicas |-> {}]
    /\ local = [r \in Replicas |-> {}]
    /\ reload = [r \in Replicas |-> NoReload]
    /\ logout = [r \in Replicas |-> [h \in Handlers |-> NoLogout]]
    /\ answered = [r \in Replicas |-> {}]

Expired(t) == Exp[t] <= now

\* Contains, and the middleware around it: an unexpired token that is in
\* neither set passes.  The two loads of Contains are one step: a token leaves
\* local only expired, so no Add or Store between them changes the answer.
Contains(r, t) == t \in remote[r] \cup local[r]
Accepts(r, t) == status[r] = "serving" /\ ~Expired(t) /\ ~Contains(r, t)

-----------------------------------------------------------------------------
(* The table.  Its clock is the database's.                                   *)

ExpiredInStore(t) == Exp[t] <= now + Skew

\* SelectUnexpiredJTIs
Unexpired == {t \in row : ~ExpiredInStore(t)}

DeleteExpired ==
    /\ \E t \in row : ExpiredInStore(t)
    /\ row' = Unexpired
    /\ UNCHANGED <<now, status, remote, local, reload, logout, answered>>

-----------------------------------------------------------------------------
(* Reload                                                                     *)

\* The query, on the first load and on every tick.
ReadUnexpired(r) ==
    /\ reload[r].at = "idle"
    /\ reload' = [reload EXCEPT ![r] = [at |-> "read", jtis |-> Unexpired]]

Start(r) ==
    /\ status[r] = "down"
    /\ ReadUnexpired(r)
    /\ status' = [status EXCEPT ![r] = "starting"]
    /\ UNCHANGED <<now, row, remote, local, logout, answered>>

Tick(r) ==
    /\ status[r] = "serving"
    /\ ReadUnexpired(r)
    /\ UNCHANGED <<now, row, status, remote, local, logout, answered>>

\* (fault) one set: a reload replaces the local additions as well.
StoreRemoteForgettingLocal(r) ==
    /\ reload[r].at = "read"
    /\ remote' = [remote EXCEPT ![r] = reload[r].jtis]
    /\ local' = [local EXCEPT ![r] = {}]
    /\ reload' = [reload EXCEPT ![r] = [at |-> "prune", jtis |-> {}]]
    /\ UNCHANGED <<now, row, status, logout, answered>>

StoreRemote(r) ==
    /\ reload[r].at = "read"
    /\ remote' = [remote EXCEPT ![r] = reload[r].jtis]
    /\ reload' = [reload EXCEPT ![r] = [at |-> "prune", jtis |-> {}]]
    /\ UNCHANGED <<now, row, status, local, logout, answered>>

\* After it, a first load lets the replica serve.
PruneLocal(r) ==
    /\ reload[r].at = "prune"
    /\ local' = [local EXCEPT ![r] = {t \in @ : ~Expired(t)}]
    /\ reload' = [reload EXCEPT ![r] = NoReload]
    /\ status' = [status EXCEPT ![r] = "serving"]
    /\ UNCHANGED <<now, row, remote, logout, answered>>

\* (fault) a failed reload leaves the set empty, and a failed first load is not
\* fatal.
FailReloadOpen(r) ==
    /\ "fail" \in Faults
    /\ reload[r].at = "read"
    /\ reload' = [reload EXCEPT ![r] = NoReload]
    /\ remote' = [remote EXCEPT ![r] = {}]
    /\ status' = [status EXCEPT ![r] = "serving"]
    /\ UNCHANGED <<now, row, local, logout, answered>>

\* (fault) the error of the first load is logged like a later one's: the process
\* neither serves nor exits.
FailReloadOnlyLogged(r) ==
    /\ "fail" \in Faults
    /\ reload[r].at = "read"
    /\ reload' = [reload EXCEPT ![r] = NoReload]
    /\ UNCHANGED <<now, row, status, remote, local, logout, answered>>

\* The previous set is kept; a replica that was starting does not start.
FailReload(r) ==
    /\ "fail" \in Faults
    /\ reload[r].at = "read"
    /\ reload' = [reload EXCEPT ![r] = NoReload]
    /\ status' = [status EXCEPT ![r] = IF @ = "starting" THEN "down" ELSE @]
    /\ UNCHANGED <<now, row, remote, local, logout, answered>>

-----------------------------------------------------------------------------
(* LogoutUser, of the token the request was authorised with.                  *)

SetLogout(r, h, at, tokens) ==
    logout' = [logout EXCEPT ![r][h] = [at |-> at, tokens |-> tokens]]

LogoutBegin(r, h, t) ==
    /\ logout[r][h].at = "idle"
    /\ Accepts(r, t)
    /\ SetLogout(r, h, "revoke", {t})
    /\ UNCHANGED <<now, row, status, remote, local, reload, answered>>

\* (fault) the local set first, and the row whether or not it can be written.
RevokeRowAfterAdd(r, h) ==
    /\ logout[r][h].at = "revoke"
    /\ local' = [local EXCEPT ![r] = @ \cup logout[r][h].tokens]
    /\ \/ row' = row \cup logout[r][h].tokens
       \/ "fail" \in Faults /\ row' = row
    /\ SetLogout(r, h, "answer", logout[r][h].tokens)
    /\ UNCHANGED <<now, status, remote, reload, answered>>

RevokeRow(r, h) ==
    /\ logout[r][h].at = "revoke"
    /\ row' = row \cup logout[r][h].tokens
    /\ SetLogout(r, h, "add", logout[r][h].tokens)
    /\ UNCHANGED <<now, status, remote, local, reload, answered>>

\* The statement fails, or commits and its answer is lost: the logout answers
\* an error and adds nothing.
RevokeRowFails(r, h) ==
    /\ "fail" \in Faults
    /\ logout[r][h].at = "revoke"
    /\ row' \in {row, row \cup logout[r][h].tokens}
    /\ SetLogout(r, h, "idle", {})
    /\ UNCHANGED <<now, status, remote, local, reload, answered>>

Add(r, h) ==
    /\ logout[r][h].at = "add"
    /\ local' = [local EXCEPT ![r] = @ \cup logout[r][h].tokens]
    /\ SetLogout(r, h, "answer", logout[r][h].tokens)
    /\ UNCHANGED <<now, row, status, remote, reload, answered>>

LogoutAnswer(r, h) ==
    /\ logout[r][h].at = "answer"
    /\ answered' = [answered EXCEPT ![r] = @ \cup logout[r][h].tokens]
    /\ SetLogout(r, h, "idle", {})
    /\ UNCHANGED <<now, row, status, remote, local, reload>>

-----------------------------------------------------------------------------
Crash(r) ==
    /\ "crash" \in Faults
    /\ status[r] # "down"
    /\ status' = [status EXCEPT ![r] = "down"]
    /\ remote' = [remote EXCEPT ![r] = {}]
    /\ local' = [local EXCEPT ![r] = {}]
    /\ reload' = [reload EXCEPT ![r] = NoReload]
    /\ logout' = [logout EXCEPT ![r] = [h \in Handlers |-> NoLogout]]
    /\ UNCHANGED <<now, row, answered>>

TimePasses ==
    /\ now < MaxTime
    /\ now' = now + 1
    /\ UNCHANGED <<row, status, remote, local, reload, logout, answered>>

Next ==
    \/ \E r \in Replicas :
         \/ Start(r) \/ Tick(r) \/ StoreRemote(r) \/ PruneLocal(r) \/ FailReload(r)
         \/ Crash(r)
         \/ \E h \in Handlers :
              \/ \E t \in Tokens : LogoutBegin(r, h, t)
              \/ RevokeRow(r, h) \/ RevokeRowFails(r, h) \/ Add(r, h) \/ LogoutAnswer(r, h)
    \/ DeleteExpired
    \/ TimePasses

Spec == Init /\ [][Next]_vars

\* The ticker ticks for ever, every reload ends, and infinitely many succeed.
Fairness(r) ==
    /\ WF_vars(Tick(r))
    /\ WF_vars(StoreRemote(r) \/ FailReload(r))
    /\ SF_vars(StoreRemote(r))
    /\ WF_vars(PruneLocal(r))

FairSpec == Spec /\ \A r \in Replicas : Fairness(r)

-----------------------------------------------------------------------------
\* A replica that answered a logout never lets the token through again: not
\* when a reload that read the table before the logout lands after it, and not
\* after a restart (LogoutUser, Reload).
LoggedOutHereStaysOut ==
    \A r \in Replicas : \A t \in answered[r] : ~Accepts(r, t)

\* What a replica refuses of its own accord is on record for the others and for
\* its own next life, for as long as the token could be used (LogoutUser: the
\* store first, then the local set).
LocalIsRecorded ==
    \A r \in Replicas : \A t \in local[r] : Expired(t) \/ t \in row

\* A revocation on record reaches every replica and stays there: from some
\* point on none lets the token through, whichever reloads fail (Run, Reload).
RevocationSpreads ==
    \A r \in Replicas, t \in Tokens : t \in row ~> []~Accepts(r, t)
=============================================================================
