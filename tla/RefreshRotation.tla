-------------------------- MODULE RefreshRotation --------------------------
(***************************************************************************)
(* Refresh tokens, their rotation and their revocation.                    *)
(*                                                                         *)
(* A refresh spends the token it was given and hands out a successor; the  *)
(* denylist (table revoked_tokens) records the link.  A replay after the   *)
(* grace window, and a logout, walk the chain to its live end and revoke   *)
(* it.  Each request is a process: every call it makes to the store is a   *)
(* step of its own, so requests interleave between their store calls, and  *)
(* any of them may stop after any step (store error, crash, lost answer).  *)
(***************************************************************************)
EXTENDS Integers, Sequences, FiniteSets

CONSTANTS Users,     \* accounts that can log in
          Requests,  \* HTTP requests that may be in flight at the same time
          MaxJti,    \* bound: how many refresh tokens are ever signed
          MaxTime,   \* bound: the last instant of the clock
          Lifetime,  \* refresh token lifetime at login
          Grace,     \* authn.refresh.token.rotation.grace
          RotationEnabled  \* authn.refresh.token.rotation.enabled

ASSUME BoundsAssumption == /\ MaxJti \in Nat
                           /\ MaxTime \in Nat
                           /\ Lifetime \in Nat \ {0}
                           /\ Grace \in Nat
                           /\ RotationEnabled \in BOOLEAN

VARIABLES now,      \* the clock that the service and the database share
          claims,   \* the claims of every refresh token signed so far, by jti
          out,      \* the jtis that some response carried to a client
          row,      \* revoked_tokens, by jti
          req,      \* the requests in flight
          ended     \* ghost: sessions the service has declared over

vars == <<now, claims, out, row, req, ended>>

Jti    == 1 .. MaxJti
NilJti == 0                       \* uuid.Nil()
NoRow  == [at |-> 0, exp |-> 0, repl |-> NilJti, present |-> FALSE]

\* A signed token: whose it is, until when, and (ghost) the login it stems from.
Claims == [user : Users, exp : Nat, root : Jti]

\* A row of revoked_tokens.  repl = NilJti: revoked outright.
Rows == [at : Nat, exp : Nat, repl : Jti \cup {NilJti}, present : BOOLEAN]

Idle == [pc |-> "idle", jti |-> NilJti, new |-> NilJti, target |-> NilJti,
         refused |-> FALSE, exp |-> 0]

PCs == {"idle", "get", "getSuccessor", "account", "rotate", "respond",
        "revoke", "walk", "insertTip"}

ReqStates == [pc : PCs, jti : Jti \cup {NilJti}, new : Jti \cup {NilJti},
              target : Jti \cup {NilJti}, refused : BOOLEAN, exp : Nat]

-----------------------------------------------------------------------------
(* The denylist repository *)

Signed == DOMAIN claims            \* the ids minted so far
\* (fault) An id generator that advances when a token is answered, not when it is signed.
NewJtiPerAnswer == Cardinality(out) + 1

NewJti == Len(claims) + 1          \* uuid.NewV7: fresh, and newer than all others
CanSign == NewJti \in Jti          \* (bound)

Rotated(r) == r.repl # NilJti

\* (fault) The horizon of the read is ahead of the token's expiry.
GetRowTooShort(j) == IF row[j].present /\ row[j].exp > now + 1 THEN row[j] ELSE NoRow

\* Get: an expired row answers "no record".
GetRow(j) == IF row[j].present /\ row[j].exp > now THEN row[j] ELSE NoRow

\* (fault) DO UPDATE: the last writer wins.
InsertRowUpserting(j, exp, repl) ==
  row' = [row EXCEPT ![j] = [at |-> now, exp |-> exp, repl |-> repl, present |-> TRUE]]

\* INSERT ... ON CONFLICT (jti) DO NOTHING, used by Revoke and by Rotate.
InsertRow(j, exp, repl) ==
  row' = IF row[j].present THEN row
         ELSE [row EXCEPT ![j] = [at |-> now, exp |-> exp, repl |-> repl, present |-> TRUE]]

Revoke(j, exp)      == InsertRow(j, exp, NilJti)

\* (fault) The two ids of a rotation in the wrong order.
RotateSwapped(j, new, exp) == InsertRow(new, exp, j)

Rotate(j, new, exp) == InsertRow(j, exp, new)

\* The rows the recursive walk of RevokeChain visits: the least set that holds
\* the start and is closed under replaced_by.
FollowsLinks(S) ==
  \A k \in S : row[k].present /\ Rotated(row[k]) => row[k].repl \in S
Chain(j) == {k \in Jti : \A S \in SUBSET Jti : j \in S /\ FollowsLinks(S) => k \in S}

\* (fault) One step of the chain instead of the whole walk.
TipsOneStep(j) == {k \in Jti : row[j].present /\ row[j].repl = k /\ ~row[k].present}

\* The successors named in the chain that have no row of their own.
Tips(j) == {row[k].repl : k \in {c \in Chain(j) : row[c].present /\ Rotated(row[c])}}
             \cap {k \in Jti : ~row[k].present}

\* DeleteExpired: every row whose token has expired on its own.
DeleteExpired ==
  /\ \E j \in Jti : row[j].present /\ row[j].exp <= now
  /\ row' = [j \in Jti |-> IF row[j].present /\ row[j].exp <= now THEN NoRow ELSE row[j]]
  /\ UNCHANGED <<now, claims, out, req, ended>>

-----------------------------------------------------------------------------
(* Login, refresh and logout *)

\* issueSession: a new chain of one token.
Login(u) ==
  /\ CanSign
  /\ claims' = Append(claims, [user |-> u, exp |-> now + Lifetime, root |-> NewJti])
  /\ out' = out \cup {NewJti}
  /\ UNCHANGED <<now, row, req, ended>>

Goto(r, pc) == req' = [req EXCEPT ![r].pc = pc]
Finish(r)   == req' = [req EXCEPT ![r] = Idle]

\* The denylist would refuse j now: revoked outright, or spent longer ago than
\* the grace window.
Refused(j) == row[j].present /\ (Rotated(row[j]) => now - row[j].at > Grace)

\* The presented token verifies: it was signed here and has not expired.
\* refused (ghost) remembers what the denylist said of it at this moment.
RefreshBegin(r, j) ==
  /\ req[r].pc = "idle"
  /\ j \in out
  /\ now < claims[j].exp
  /\ req' = [req EXCEPT ![r] = [Idle EXCEPT !.pc = "get", !.jti = j, !.exp = claims[j].exp,
                                            !.refused = Refused(j)]]
  /\ UNCHANGED <<now, claims, out, row, ended>>

\* What a record means: a revoked token, a retry inside the grace window, or a replay.
ResolveSpent(r, record) ==
  \/ /\ ~Rotated(record)
     /\ Finish(r)
  \/ /\ Rotated(record)
     /\ now - record.at <= Grace
     /\ req' = [req EXCEPT ![r].pc = "getSuccessor", ![r].target = record.repl]
  \/ /\ Rotated(record)
     /\ now - record.at > Grace
     /\ req' = [req EXCEPT ![r].pc = "walk", ![r].exp = record.exp]

RefreshGet(r) ==
  /\ req[r].pc = "get"
  /\ LET record == GetRow(req[r].jti)
     IN \/ /\ record.present
           /\ ResolveSpent(r, record)
        \/ /\ ~record.present
           /\ Goto(r, "account")
  /\ UNCHANGED <<now, claims, out, row, ended>>

\* Inside the grace window the recorded successor is re-issued, if still live.
RefreshGetSuccessor(r) ==
  /\ req[r].pc = "getSuccessor"
  /\ IF GetRow(req[r].target).present
     THEN Finish(r)
     ELSE req' = [req EXCEPT ![r].pc = "account", ![r].new = req[r].target]
  /\ UNCHANGED <<now, claims, out, row, ended>>

\* (fault) The expiry is renewed at every refresh.
SignSuccessorRenewed(r) ==
  /\ CanSign
  /\ claims' = Append(claims, [claims[req[r].jti] EXCEPT !.exp = now + Lifetime])
  /\ req' = [req EXCEPT ![r].pc = "rotate", ![r].new = NewJti]

\* (fault) The rotation is recorded although nothing was signed.
SignSuccessorUnsigned(r) ==
  /\ CanSign
  /\ req' = [req EXCEPT ![r].pc = "rotate", ![r].new = NewJti]
  /\ UNCHANGED claims

\* The account may renew its session (a refusal is Abort), and the successor is
\* signed before anything is recorded.  Its expiry is the spent token's.
SignSuccessor(r) ==
  /\ CanSign
  /\ claims' = Append(claims, [claims[req[r].jti] EXCEPT !.exp = req[r].exp])
  /\ req' = [req EXCEPT ![r].pc = "rotate", ![r].new = NewJti]

\* (fault) A retry inside the grace window gets a new link instead of the recorded one.
RefreshSignAlwaysNew(r) ==
  /\ req[r].pc = "account"
  /\ SignSuccessor(r)
  /\ UNCHANGED <<now, out, row, ended>>

RefreshSign(r) ==
  /\ req[r].pc = "account"
  /\ \/ /\ ~RotationEnabled
        /\ req' = [req EXCEPT ![r].pc = "respond", ![r].new = req[r].jti]
        /\ UNCHANGED claims
     \/ /\ RotationEnabled
        /\ req[r].new # NilJti
        /\ Goto(r, "respond")
        /\ UNCHANGED claims
     \/ /\ RotationEnabled
        /\ req[r].new = NilJti
        /\ SignSuccessor(r)
  /\ UNCHANGED <<now, out, row, ended>>

\* The old token is recorded as spent; a row that is already there is kept and
\* the call succeeds all the same.
RefreshRotate(r) ==
  /\ req[r].pc = "rotate"
  /\ Rotate(req[r].jti, req[r].new, req[r].exp)
  /\ Goto(r, "respond")
  /\ UNCHANGED <<now, claims, out, ended>>

\* The pair of tokens is in the answer.
RefreshRespond(r) ==
  /\ req[r].pc = "respond"
  /\ out' = out \cup {req[r].new}
  /\ Finish(r)
  /\ UNCHANGED <<now, claims, row, ended>>

\* LogoutUser with a refresh token of the caller: signature, type and subject
\* were verified.  (An expired one is "nothing to revoke".)
LogoutBegin(r, u, j) ==
  /\ req[r].pc = "idle"
  /\ j \in out
  /\ claims[j].user = u
  /\ now < claims[j].exp
  /\ req' = [req EXCEPT ![r] = [Idle EXCEPT !.pc = "revoke", !.jti = j, !.exp = claims[j].exp]]
  /\ UNCHANGED <<now, claims, out, row, ended>>

\* (fault) A logout that follows the chain but forgets the token it was given.
LogoutRevokeSkipped(r) ==
  /\ req[r].pc = "revoke"
  /\ Goto(r, "walk")
  /\ UNCHANGED <<now, claims, out, row, ended>>

LogoutRevoke(r) ==
  /\ req[r].pc = "revoke"
  /\ Revoke(req[r].jti, req[r].exp)
  /\ Goto(r, "walk")
  /\ UNCHANGED <<now, claims, out, ended>>

\* RevokeChain is one statement: its snapshot is taken here ...
ChainWalk(r) ==
  /\ req[r].pc = "walk"
  /\ \/ /\ Tips(req[r].jti) = {}
        /\ Finish(r)
        /\ ended' = ended \cup {claims[req[r].jti].root}
     \/ \E tip \in Tips(req[r].jti) :
          /\ req' = [req EXCEPT ![r].pc = "insertTip", ![r].target = tip]
          /\ UNCHANGED ended
  /\ UNCHANGED <<now, claims, out, row>>

\* ... and its insert meets the rows committed since (READ COMMITTED).  After it
\* the logout answers 200, or the replay 401: either way the session is over.
ChainInsertTip(r) ==
  /\ req[r].pc = "insertTip"
  /\ Revoke(req[r].target, req[r].exp)
  /\ ended' = ended \cup {claims[req[r].jti].root}
  /\ Finish(r)
  /\ UNCHANGED <<now, claims, out>>

\* A store error, a refusal by the account check, a crash, a lost answer.
Abort(r) ==
  /\ req[r].pc # "idle"
  /\ Finish(r)
  /\ UNCHANGED <<now, claims, out, row, ended>>

Tick ==
  /\ now < MaxTime
  /\ now' = now + 1
  /\ UNCHANGED <<claims, out, row, req, ended>>

-----------------------------------------------------------------------------

Init ==
  /\ now = 0
  /\ claims = <<>>
  /\ out = {}
  /\ row = [j \in Jti |-> NoRow]
  /\ req = [r \in Requests |-> Idle]
  /\ ended = {}

RefreshStep(r) ==
  \/ RefreshGet(r)
  \/ RefreshGetSuccessor(r)
  \/ RefreshSign(r)
  \/ RefreshRotate(r)
  \/ RefreshRespond(r)

ChainStep(r) == ChainWalk(r) \/ ChainInsertTip(r)

Next ==
  \/ Tick
  \/ DeleteExpired
  \/ \E u \in Users : Login(u)
  \/ \E r \in Requests, j \in Jti : RefreshBegin(r, j)
  \/ \E r \in Requests, u \in Users, j \in Jti : LogoutBegin(r, u, j)
  \/ \E r \in Requests : RefreshStep(r) \/ LogoutRevoke(r) \/ ChainStep(r) \/ Abort(r)

Spec == Init /\ [][Next]_vars

\* Nobody sends two requests for one session at the same time: a client that
\* waits for each answer.  Any number of sessions are served at once.
OneRequestPerSession ==
  \A q, r \in Requests :
    q # r /\ req[q].pc # "idle" /\ req[r].pc # "idle" =>
      claims[req[q].jti].root # claims[req[r].jti].root

SequentialSpec == Init /\ [][Next /\ OneRequestPerSession']_vars

-----------------------------------------------------------------------------
(* Properties *)

\* Every variable keeps its type.
TypeOK ==
  /\ now \in Nat
  /\ claims \in Seq(Claims)
  /\ Len(claims) <= MaxJti
  /\ out \subseteq Signed
  /\ row \in [Jti -> Rows]
  /\ req \in [Requests -> ReqStates]
  /\ ended \subseteq Jti

\* The rotation links of revoked_tokens lead from a token to a later one of the
\* same login: they cannot form a loop (the CYCLE clause of RevokeChain is only
\* insurance) and a walk never leaves the session, so neither a logout nor a
\* replay can revoke somebody else's token.
ChainsStayInTheirSession ==
  \A j \in Jti : row[j].present /\ Rotated(row[j]) =>
    /\ j < row[j].repl
    /\ {j, row[j].repl} \subseteq Signed
    /\ claims[row[j].repl].root = claims[j].root
    /\ claims[row[j].repl].user = claims[j].user

\* No token is the recorded successor of two others, so the chain is a line and
\* the LIMIT 1 of RevokeChain drops no tip.
SuccessorsAreUnique ==
  \A i, j \in Jti :
    /\ row[i].present /\ Rotated(row[i])
    /\ row[j].present /\ Rotated(row[j])
    /\ row[i].repl = row[j].repl
    => i = j

\* Rotation carries the expiry of the login over and never renews it: no token
\* of a session outlives the first one.
SessionNeverExtended ==
  \A j \in Signed : claims[j].root \in Signed /\ claims[j].exp = claims[claims[j].root].exp

\* A row once written is neither changed nor dropped while the token it names
\* could still verify: the first successor wins, a revocation is final, and the
\* sweep changes no answer.
DenylistNeverForgets ==
  [][\A j \in Signed : row[j].present /\ now' < claims[j].exp => row'[j] = row[j]]_vars

\* A refresh of a token that the denylist refused when the request started never
\* gets past the denylist, whatever runs beside it, unless the token itself
\* expires in the meantime.
RefusedTokenIsNotExchanged ==
  \A r \in Requests :
    req[r].refused /\ req[r].pc \in {"account", "rotate", "respond"} =>
      claims[req[r].jti].exp <= now

\* A token that an unhurried refresh would exchange for a new pair.
Live(j) == j \in out /\ now < claims[j].exp /\ ~row[j].present

\* Refresh tokens are single-use: a session has at most one live token.
AtMostOneLiveToken ==
  \A i, j \in Signed : Live(i) /\ Live(j) /\ claims[i].root = claims[j].root => i = j

\* A logout that answered 200, and a replay that was detected, leave no token of
\* the session that can still be exchanged.
EndedSessionIsOver == \A j \in Signed : Live(j) => claims[j].root \notin ended

-----------------------------------------------------------------------------
(* The promise the table keeps *)

LiveTokens(s) == {j \in Signed : Live(j) /\ claims[j].root = s}
DeadTokens    == {j \in Signed : claims[j].exp <= now \/ row[j].present}

Sessions == INSTANCE LoginSessions WITH
  Token <- Jti,
  live  <- [s \in Jti |-> LiveTokens(s)],
  dead  <- DeadTokens,
  over  <- ended

\* While the requests of a session do not overlap, rotation, grace window, replay detection,
\* logout and sweep together are a session with one token at a time: a rotation
\* hands over to exactly one successor, a retry hands out no second one, and a
\* token once spent, revoked or expired never works again.
SessionsAreSingleUse == Sessions!Spec
=============================================================================
