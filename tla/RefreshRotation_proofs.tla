----------------------- MODULE RefreshRotation_proofs -----------------------
(***************************************************************************)
(* What holds of RefreshRotation for any number of accounts, requests,     *)
(* tokens and instants; and, in the second half, that it implements        *)
(* LoginSessions while the requests of a session do not overlap.           *)
(***************************************************************************)
EXTENDS RefreshRotation, TLAPS

-----------------------------------------------------------------------------
(* The inductive invariant *)

\* The claims of a token are those of the login it stems from.
ClaimsInv ==
  \A j \in Signed :
    /\ claims[j].root \in Signed
    /\ claims[claims[j].root].root = claims[j].root
    /\ claims[j].user = claims[claims[j].root].user
    /\ claims[j].exp = claims[claims[j].root].exp

\* Two tokens of one login.
SameLogin(i, j) == claims[i].root = claims[j].root

\* A row carries the expiry of the token it names.
RowInv == \A j \in Jti : row[j].present => j \in Signed /\ row[j].exp = claims[j].exp

LinkInv ==
  \A j \in Jti : row[j].present /\ Rotated(row[j]) =>
    /\ j < row[j].repl
    /\ row[j].repl \in Signed
    /\ SameLogin(row[j].repl, j)

\* What a request knows of the tokens it works on.
RequestInv(q) ==
  q.pc # "idle" =>
    /\ q.jti \in Signed
    /\ q.exp = claims[q.jti].exp
    /\ q.new # NilJti => q.new \in Signed /\ SameLogin(q.new, q.jti)
    /\ q.pc = "respond" => q.new # NilJti
    /\ q.pc = "rotate" => q.new # NilJti /\ q.jti < q.new
    /\ q.pc \in {"getSuccessor", "insertTip"} =>
         q.target \in Signed /\ SameLogin(q.target, q.jti)

ReqInv == \A r \in Requests : RequestInv(req[r])

\* A successor that is signed but not recorded yet belongs to one request only.
FreshInv ==
  \A r \in Requests : req[r].pc = "rotate" =>
    /\ \A j \in Jti : row[j].present => row[j].repl # req[r].new
    /\ \A s \in Requests : req[s].pc = "rotate" /\ req[s].new = req[r].new => s = r

\* A request whose token was refused is still before the denylist, and the
\* denylist still refuses it, unless the token has expired.
RefusalInv(q) ==
  q.refused =>
    /\ q.pc # "idle"
    /\ now < claims[q.jti].exp =>
         /\ Refused(q.jti)
         /\ q.pc \notin {"getSuccessor", "account", "rotate", "respond"}

RefusedInv == \A r \in Requests : RefusalInv(req[r])

\* The inductive invariant: what holds initially and is kept by every step.
IInv ==
  /\ TypeOK
  /\ ClaimsInv
  /\ RowInv
  /\ LinkInv
  /\ SuccessorsAreUnique
  /\ ReqInv
  /\ FreshInv
  /\ RefusedInv

-----------------------------------------------------------------------------
(* The operators the actions are built from *)

\* The ids signed so far are an initial segment of the ids there can be.
LEMMA SignedAreIds ==
  ASSUME TypeOK
  PROVE  /\ Signed \subseteq Jti
         /\ Signed = 1 .. Len(claims)
         /\ Len(claims) \in Nat
         /\ \A j \in Signed : claims[j] \in Claims
BY BoundsAssumption DEF TypeOK, Signed, Jti

\* ON CONFLICT (jti) DO NOTHING: at most one row changes, one that was not there.
LEMMA InsertRowEffect ==
  ASSUME TypeOK, NEW j \in Jti, NEW e \in Nat, NEW n \in Jti \cup {NilJti},
         InsertRow(j, e, n)
  PROVE  /\ row' \in [Jti -> Rows]
         /\ \A k \in Jti : \/ row'[k] = row[k]
                           \/ /\ k = j
                              /\ ~row[k].present
                              /\ row'[k] = [at |-> now, exp |-> e, repl |-> n, present |-> TRUE]
         /\ \A k \in Jti : row[k].present => row'[k] = row[k]
BY DEF InsertRow, TypeOK, Rows

\* The walk of RevokeChain stays among the tokens of one login.
LEMMA TipsOfSameLogin ==
  ASSUME TypeOK, LinkInv, NEW j \in Signed, NEW tip \in Tips(j)
  PROVE  tip \in Signed /\ SameLogin(tip, j)
<1> DEFINE S == {i \in Signed : SameLogin(i, j)}
<1>1. Signed \subseteq Jti
  BY SignedAreIds
<1>2. j \in S /\ S \in SUBSET Jti
  BY <1>1 DEF SameLogin
<1>3. FollowsLinks(S)
  BY <1>1 DEF FollowsLinks, LinkInv, SameLogin
<1>4. Chain(j) \subseteq S
  BY <1>2, <1>3 DEF Chain
<1>5. PICK c \in Chain(j) : row[c].present /\ Rotated(row[c]) /\ tip = row[c].repl
  BY DEF Tips
<1>6. c \in S /\ c \in Jti
  BY <1>4, <1>1
<1> QED
  BY <1>5, <1>6 DEF LinkInv, SameLogin

\* A signature adds one fresh id and leaves the claims of the others alone.
LEMMA SignEffect ==
  ASSUME TypeOK, CanSign, NEW c \in Claims, claims' = Append(claims, c)
  PROVE  /\ claims' \in Seq(Claims)
         /\ Len(claims') <= MaxJti
         /\ NewJti \in Jti
         /\ NewJti \notin Signed
         /\ Signed' = Signed \cup {NewJti}
         /\ \A k \in Signed : claims'[k] = claims[k] /\ k < NewJti
         /\ claims'[NewJti] = c
BY BoundsAssumption DEF TypeOK, CanSign, NewJti, Signed, Jti

\* A row of the denylist is only added, for a signed token with its expiry, and
\* a link only to a later token of the same login that no row names yet.
LEMMA InsertRowSafe ==
  ASSUME IInv, UNCHANGED claims,
         NEW j \in Signed, NEW n \in Jti \cup {NilJti},
         InsertRow(j, claims[j].exp, n),
         n # NilJti => /\ n \in Signed
                       /\ j < n
                       /\ SameLogin(n, j)
                       /\ \A k \in Jti : row[k].present => row[k].repl # n
  PROVE  row' \in [Jti -> Rows] /\ (RowInv /\ LinkInv /\ SuccessorsAreUnique)'
<1>1. /\ j \in Jti
      /\ claims[j].exp \in Nat
  BY SignedAreIds DEF IInv, Claims
<1>2. /\ row' \in [Jti -> Rows]
      /\ \A k \in Jti : \/ row'[k] = row[k]
                        \/ /\ k = j
                           /\ ~row[k].present
                           /\ row'[k] = [at |-> now, exp |-> claims[j].exp, repl |-> n, present |-> TRUE]
  BY <1>1, InsertRowEffect DEF IInv
<1>3. RowInv'
  BY <1>2 DEF IInv, RowInv, Signed
<1>4. LinkInv'
  BY <1>2 DEF IInv, LinkInv, Signed, Rotated, SameLogin
<1>5. SuccessorsAreUnique'
  BY <1>2 DEF IInv, SuccessorsAreUnique, Rotated
<1> QED
  BY <1>2, <1>3, <1>4, <1>5

\* Request r moves to a state in which what it knows is true.
MovesTo(r, q) ==
  /\ q \in ReqStates
  /\ RequestInv(q)
  /\ RefusalInv(q)
  /\ req' = [req EXCEPT ![r] = q]

\* The row of k is kept, or revoked outright, or linked to the token r signed.
AddsLinkOf(r, k) ==
  \/ row'[k] = row[k]
  \/ row'[k].repl = NilJti
  \/ row'[k].repl = req[r].new /\ req[r].pc = "rotate"

\* One request moves on, and rows are at most added: what the requests know stays
\* true, if it is true of the new state of that request.
LEMMA RequestMoves ==
  ASSUME IInv, UNCHANGED <<now, claims>>,
         NEW r \in Requests, NEW q, MovesTo(r, q), q.pc # "rotate",
         \A k \in Jti : row[k].present => row'[k] = row[k],
         \A k \in Jti : AddsLinkOf(r, k)
  PROVE  req' \in [Requests -> ReqStates] /\ ReqInv' /\ FreshInv' /\ RefusedInv'
<1>1. /\ req' \in [Requests -> ReqStates]
      /\ req'[r] = q
      /\ \A s \in Requests \ {r} : req'[s] = req[s]
  BY DEF IInv, TypeOK, MovesTo
<1>2. ReqInv'
  BY <1>1 DEF IInv, ReqInv, RequestInv, Signed, SameLogin, MovesTo
<1>3. FreshInv'
  <2> SUFFICES ASSUME NEW s \in Requests, req'[s].pc = "rotate"
               PROVE  /\ \A k \in Jti : row'[k].present => row'[k].repl # req'[s].new
                      /\ \A t \in Requests : req'[t].pc = "rotate" /\ req'[t].new = req'[s].new => t = s
    BY DEF FreshInv
  <2>1. s # r /\ req'[s] = req[s] /\ req[s].new # NilJti
    BY <1>1 DEF IInv, ReqInv, RequestInv
  <2>2. ASSUME NEW k \in Jti, row'[k].present PROVE row'[k].repl # req[s].new
    BY <2>1, <2>2 DEF IInv, FreshInv, AddsLinkOf
  <2> QED
    BY <1>1, <2>1, <2>2 DEF IInv, FreshInv
<1>4. RefusedInv'
  <2>1. \A j \in Jti : Refused(j) => Refused(j)'
    BY DEF Refused
  <2>2. \A s \in Requests : req'[s].refused => req'[s].jti \in Jti
    BY <1>1, SignedAreIds DEF IInv, RefusedInv, RefusalInv, ReqInv, RequestInv, MovesTo
  <2> QED
    BY <1>1, <2>1, <2>2 DEF IInv, RefusedInv, RefusalInv, MovesTo
<1> QED
  BY <1>1, <1>2, <1>3, <1>4

-----------------------------------------------------------------------------
(* The initial state *)

LEMMA InitIInv == Init => IInv
<1> SUFFICES ASSUME Init PROVE IInv
  OBVIOUS
<1>1. TypeOK
  BY BoundsAssumption DEF Init, TypeOK, Jti, NoRow, Rows, Idle, ReqStates, PCs, NilJti, Signed
<1>2. Signed = {}
  BY DEF Init, Signed
<1>3. ClaimsInv
  BY <1>2 DEF ClaimsInv
<1>4. RowInv /\ LinkInv /\ SuccessorsAreUnique
  BY DEF Init, RowInv, LinkInv, SuccessorsAreUnique, NoRow
<1>5. ReqInv /\ FreshInv /\ RefusedInv
  BY DEF Init, ReqInv, RequestInv, FreshInv, RefusedInv, RefusalInv, Idle
<1> QED
  BY <1>1, <1>3, <1>4, <1>5 DEF IInv

-----------------------------------------------------------------------------
(* Every step preserves the invariant: one lemma per action *)

LEMMA TickStep == IInv /\ Tick => IInv'
<1> SUFFICES ASSUME IInv, Tick PROVE IInv'
  OBVIOUS
<1> USE DEF IInv, Tick
<1>1. TypeOK'
  BY DEF TypeOK, Signed
<1>2. (ClaimsInv /\ RowInv /\ LinkInv /\ SuccessorsAreUnique /\ ReqInv /\ FreshInv)'
  BY DEF ClaimsInv, RowInv, LinkInv, SuccessorsAreUnique, ReqInv, RequestInv, FreshInv,
         Signed, SameLogin
<1>3. RefusedInv'
  <2> SUFFICES ASSUME NEW r \in Requests, req[r].refused
               PROVE  RefusalInv(req[r])'
    BY DEF RefusedInv, RefusalInv
  <2>1. req[r].jti \in Jti /\ claims[req[r].jti].exp \in Nat /\ now \in Nat
    BY SignedAreIds DEF ReqInv, RequestInv, RefusedInv, RefusalInv, Claims, TypeOK
  <2> QED
    BY <2>1, BoundsAssumption DEF RefusedInv, RefusalInv, Refused, TypeOK, Rows
<1> QED
  BY <1>1, <1>2, <1>3

LEMMA DeleteExpiredStep == IInv /\ DeleteExpired => IInv'
<1> SUFFICES ASSUME IInv, DeleteExpired PROVE IInv'
  OBVIOUS
<1> USE DEF IInv
<1>0. /\ UNCHANGED <<now, claims, out, req, ended>>
      /\ \A j \in Jti : row'[j] \in {row[j], NoRow}
      /\ \A j \in Jti : row[j].present /\ now < row[j].exp => row'[j] = row[j]
  BY DEF DeleteExpired, TypeOK, Rows
<1>1. TypeOK'
  <2>1. row' \in [Jti -> Rows]
    BY DEF DeleteExpired, TypeOK, Rows, NoRow, NilJti
  <2> QED
    BY <1>0, <2>1 DEF TypeOK, Signed
<1>2. ClaimsInv'
  BY <1>0 DEF ClaimsInv, Signed
<1>3. (RowInv /\ LinkInv /\ SuccessorsAreUnique /\ FreshInv)'
  BY <1>0 DEF RowInv, LinkInv, SuccessorsAreUnique, FreshInv, NoRow, Signed, SameLogin, Rotated
<1>4. ReqInv'
  BY <1>0 DEF ReqInv, RequestInv, Signed, SameLogin
<1>5. RefusedInv'
  <2> SUFFICES ASSUME NEW r \in Requests, req[r].refused
               PROVE  RefusalInv(req[r])'
    BY <1>0 DEF RefusedInv, RefusalInv
  <2>1. req[r].jti \in Jti /\ (row[req[r].jti].present => row[req[r].jti].exp = claims[req[r].jti].exp)
    BY SignedAreIds DEF ReqInv, RequestInv, RefusedInv, RefusalInv, RowInv
  <2> QED
    BY <1>0, <2>1 DEF RefusedInv, RefusalInv, Refused
<1> QED
  BY <1>1, <1>2, <1>3, <1>4, <1>5

\* A step that moves one request and leaves tokens and denylist alone.
LEMMA RequestOnlyStep ==
  ASSUME IInv, UNCHANGED <<now, claims, row>>, out' \subseteq Signed, ended' \subseteq Jti,
         NEW r \in Requests, NEW q, MovesTo(r, q), q.pc # "rotate"
  PROVE  IInv'
<1>0. \A k \in Jti : row'[k] = row[k] /\ AddsLinkOf(r, k)
  BY DEF AddsLinkOf
<1>1. req' \in [Requests -> ReqStates] /\ ReqInv' /\ FreshInv' /\ RefusedInv'
  BY <1>0, RequestMoves
<1>2. (ClaimsInv /\ RowInv /\ LinkInv /\ SuccessorsAreUnique)'
  BY DEF IInv, ClaimsInv, RowInv, LinkInv, SuccessorsAreUnique, Signed, SameLogin
<1>3. TypeOK'
  BY <1>1 DEF IInv, TypeOK, Signed
<1> QED
  BY <1>1, <1>2, <1>3 DEF IInv

LEMMA FinishStep ==
  ASSUME IInv, NEW r \in Requests, Finish(r), UNCHANGED <<now, claims, row>>,
         out' \subseteq Signed, ended' \subseteq Jti
  PROVE  IInv'
<1>1. /\ Idle \in ReqStates
      /\ RequestInv(Idle)
      /\ RefusalInv(Idle)
      /\ Idle.pc # "rotate"
  BY DEF Idle, ReqStates, PCs, RequestInv, RefusalInv
<1> QED
  BY <1>1, RequestOnlyStep DEF Finish, MovesTo

\* What is known of a request in flight.
LEMMA RequestFacts ==
  ASSUME IInv, NEW r \in Requests
  PROVE  /\ req[r] \in ReqStates
         /\ RequestInv(req[r])
         /\ RefusalInv(req[r])
         /\ out \subseteq Signed
         /\ ended \subseteq Jti
         /\ Signed \subseteq Jti
         /\ now \in Nat
         /\ row \in [Jti -> Rows]
BY SignedAreIds DEF IInv, TypeOK, ReqInv, RefusedInv

LEMMA RefreshBeginStep ==
  ASSUME IInv, NEW r \in Requests, NEW j \in Jti, RefreshBegin(r, j) PROVE IInv'
<1> DEFINE q == [Idle EXCEPT !.pc = "get", !.jti = j, !.exp = claims[j].exp, !.refused = Refused(j)]
<1>1. j \in Signed /\ claims[j].exp \in Nat
  BY RequestFacts, SignedAreIds DEF IInv, RefreshBegin, Claims
<1>2. q \in ReqStates /\ q.pc = "get" /\ q.jti = j /\ q.exp = claims[j].exp /\ q.new = NilJti
        /\ q.refused = Refused(j)
  BY <1>1 DEF Idle, ReqStates, PCs, Refused, IInv, TypeOK, Rows
<1>3. RequestInv(q) /\ RefusalInv(q)
  BY <1>1, <1>2 DEF RequestInv, RefusalInv
<1>4. req' = [req EXCEPT ![r] = q]
  BY DEF RefreshBegin
<1> HIDE DEF q
<1> QED
  BY <1>2, <1>3, <1>4, RequestFacts, RequestOnlyStep DEF RefreshBegin, MovesTo

LEMMA LogoutBeginStep ==
  ASSUME IInv, NEW r \in Requests, NEW u \in Users, NEW j \in Jti, LogoutBegin(r, u, j)
  PROVE  IInv'
<1> DEFINE q == [Idle EXCEPT !.pc = "revoke", !.jti = j, !.exp = claims[j].exp]
<1>1. j \in Signed /\ claims[j].exp \in Nat
  BY RequestFacts, SignedAreIds DEF IInv, LogoutBegin, Claims
<1>2. q \in ReqStates /\ q.pc = "revoke" /\ q.jti = j /\ q.exp = claims[j].exp /\ q.new = NilJti
        /\ q.refused = FALSE
  BY <1>1 DEF Idle, ReqStates, PCs
<1>3. RequestInv(q) /\ RefusalInv(q)
  BY <1>1, <1>2 DEF RequestInv, RefusalInv
<1>4. req' = [req EXCEPT ![r] = q]
  BY DEF LogoutBegin
<1> HIDE DEF q
<1> QED
  BY <1>2, <1>3, <1>4, RequestFacts, RequestOnlyStep DEF LogoutBegin, MovesTo

LEMMA RefreshGetStep ==
  ASSUME IInv, NEW r \in Requests, RefreshGet(r) PROVE IInv'
<1> DEFINE j == req[r].jti
           record == GetRow(j)
<1>1. /\ j \in Signed
      /\ j \in Jti
      /\ req[r].exp = claims[j].exp
      /\ req[r].new # NilJti => req[r].new \in Signed /\ SameLogin(req[r].new, j)
      /\ claims[j].exp \in Nat
  BY RequestFacts, SignedAreIds DEF RefreshGet, RequestInv, IInv, Claims
<1>2. UNCHANGED <<now, claims, row>> /\ out' \subseteq Signed /\ ended' \subseteq Jti
  BY RequestFacts DEF RefreshGet
\* A refused token that has not expired is found in the denylist.
<1>3. ASSUME req[r].refused, now < claims[j].exp
      PROVE  /\ record.present
             /\ Rotated(record) => now - record.at > Grace
  <2>1. row[j].present /\ (Rotated(row[j]) => now - row[j].at > Grace)
    BY <1>1, <1>3, RequestFacts DEF RefusalInv, Refused
  <2>2. row[j].exp = claims[j].exp
    BY <1>1, <2>1 DEF IInv, RowInv
  <2> QED
    BY <1>3, <2>1, <2>2 DEF GetRow
<1>4. CASE record.present /\ ~Rotated(record) /\ Finish(r)
  BY <1>2, <1>4, FinishStep
<1>5. CASE /\ record.present
           /\ Rotated(record)
           /\ now - record.at <= Grace
           /\ req' = [req EXCEPT ![r].pc = "getSuccessor", ![r].target = record.repl]
  <2> DEFINE q == [req[r] EXCEPT !.pc = "getSuccessor", !.target = record.repl]
  <2>1. record = row[j] /\ record.repl \in Signed /\ record.repl \in Jti /\ SameLogin(record.repl, j)
    BY <1>1, <1>5, RequestFacts DEF GetRow, IInv, LinkInv, NoRow
  <2>2. q \in ReqStates
    <3>1. req[r] \in ReqStates
      BY RequestFacts
    <3>2. [req[r] EXCEPT !.pc = "getSuccessor"] \in ReqStates
      BY <3>1 DEF ReqStates, PCs
    <3>3. [[req[r] EXCEPT !.pc = "getSuccessor"] EXCEPT !.target = record.repl] \in ReqStates
      BY <2>1, <3>2 DEF ReqStates
    <3> QED BY <3>1, <3>3 DEF ReqStates
  <2>3. RequestInv(q) /\ RefusalInv(q)
    <3>1. now - record.at \in Int /\ Grace \in Int
      BY <1>1, <2>1, RequestFacts, BoundsAssumption DEF Rows
    <3> QED
      BY <1>1, <1>3, <1>5, <2>1, <3>1, RequestFacts DEF RequestInv, RefusalInv, ReqStates
  <2>4. q.pc # "rotate" /\ req' = [req EXCEPT ![r] = q]
    BY <1>5, RequestFacts DEF ReqStates
  <2> HIDE DEF q
  <2> QED
    BY <1>2, <2>2, <2>3, <2>4, RequestOnlyStep DEF MovesTo
<1>6. CASE /\ record.present
           /\ Rotated(record)
           /\ req' = [req EXCEPT ![r].pc = "walk", ![r].exp = record.exp]
  <2> DEFINE q == [req[r] EXCEPT !.pc = "walk", !.exp = record.exp]
  <2>1. record = row[j] /\ record.exp = claims[j].exp
    BY <1>1, <1>6, RequestFacts DEF GetRow, IInv, RowInv, NoRow
  <2>2. q \in ReqStates
    BY <1>1, <2>1, RequestFacts DEF ReqStates, PCs
  <2>3. RequestInv(q) /\ RefusalInv(q)
    BY <1>1, <2>1, RequestFacts DEF RequestInv, RefusalInv, ReqStates
  <2>4. q.pc # "rotate" /\ req' = [req EXCEPT ![r] = q]
    BY <1>6, RequestFacts DEF ReqStates
  <2> HIDE DEF q
  <2> QED
    BY <1>2, <2>2, <2>3, <2>4, RequestOnlyStep DEF MovesTo
<1>7. CASE ~record.present /\ Goto(r, "account")
  <2> DEFINE q == [req[r] EXCEPT !.pc = "account"]
  <2>1. q \in ReqStates
    BY RequestFacts DEF ReqStates, PCs
  <2>2. RequestInv(q) /\ RefusalInv(q)
    BY <1>1, <1>3, <1>7, RequestFacts DEF RequestInv, RefusalInv, ReqStates
  <2>3. q.pc # "rotate" /\ req' = [req EXCEPT ![r] = q]
    BY <1>7, RequestFacts DEF ReqStates, Goto
  <2> HIDE DEF q
  <2> QED
    BY <1>2, <2>1, <2>2, <2>3, RequestOnlyStep DEF MovesTo
<1> QED
  BY <1>4, <1>5, <1>6, <1>7 DEF RefreshGet, ResolveSpent

LEMMA RefreshGetSuccessorStep ==
  ASSUME IInv, NEW r \in Requests, RefreshGetSuccessor(r) PROVE IInv'
<1> DEFINE q == [req[r] EXCEPT !.pc = "account", !.new = req[r].target]
<1>1. UNCHANGED <<now, claims, row>> /\ out' \subseteq Signed /\ ended' \subseteq Jti
  BY RequestFacts DEF RefreshGetSuccessor
<1>2. CASE Finish(r)
  BY <1>1, <1>2, FinishStep
<1>3. CASE req' = [req EXCEPT ![r].pc = "account", ![r].new = req[r].target]
  <2>1. q \in ReqStates
    BY RequestFacts DEF ReqStates, PCs
  <2>2. RequestInv(q) /\ RefusalInv(q)
    BY RequestFacts DEF RefreshGetSuccessor, RequestInv, RefusalInv, ReqStates
  <2>3. q.pc # "rotate" /\ req' = [req EXCEPT ![r] = q]
    BY <1>3, RequestFacts DEF ReqStates
  <2> HIDE DEF q
  <2> QED
    BY <1>1, <2>1, <2>2, <2>3, RequestOnlyStep DEF MovesTo
<1> QED
  BY <1>2, <1>3 DEF RefreshGetSuccessor

LEMMA RefreshRespondStep ==
  ASSUME IInv, NEW r \in Requests, RefreshRespond(r) PROVE IInv'
<1>1. out' \subseteq Signed /\ ended' \subseteq Jti
  BY RequestFacts DEF RefreshRespond, RequestInv
<1> QED
  BY <1>1, FinishStep DEF RefreshRespond

LEMMA AbortStep ==
  ASSUME IInv, NEW r \in Requests, Abort(r) PROVE IInv'
BY RequestFacts, FinishStep DEF Abort

LEMMA ChainWalkStep ==
  ASSUME IInv, NEW r \in Requests, ChainWalk(r) PROVE IInv'
<1>1. /\ req[r].jti \in Signed
      /\ claims[req[r].jti].root \in Jti
  <2>1. req[r].jti \in Signed
    BY RequestFacts DEF ChainWalk, RequestInv
  <2> QED
    BY <2>1, RequestFacts DEF IInv, ClaimsInv
<1>2. UNCHANGED <<now, claims, row>> /\ out' \subseteq Signed /\ ended' \subseteq Jti
  BY <1>1, RequestFacts DEF ChainWalk
<1>3. CASE Finish(r)
  BY <1>2, <1>3, FinishStep
<1>4. ASSUME NEW tip \in Tips(req[r].jti),
             req' = [req EXCEPT ![r].pc = "insertTip", ![r].target = tip]
      PROVE  IInv'
  <2> DEFINE q == [req[r] EXCEPT !.pc = "insertTip", !.target = tip]
  <2>1. tip \in Signed /\ tip \in Jti /\ SameLogin(tip, req[r].jti)
    BY <1>1, TipsOfSameLogin, RequestFacts DEF IInv
  <2>2. q \in ReqStates
    BY <2>1, RequestFacts DEF ReqStates, PCs
  <2>3. RequestInv(q) /\ RefusalInv(q)
    BY <1>1, <2>1, RequestFacts DEF ChainWalk, RequestInv, RefusalInv, ReqStates
  <2>4. q.pc # "rotate" /\ req' = [req EXCEPT ![r] = q]
    BY <1>4, RequestFacts DEF ReqStates
  <2> HIDE DEF q
  <2> QED
    BY <1>2, <2>2, <2>3, <2>4, RequestOnlyStep DEF MovesTo
<1> QED
  BY <1>3, <1>4 DEF ChainWalk

\* A step that adds a row (or finds it there) and moves one request.
LEMMA InsertRowStep ==
  ASSUME IInv, UNCHANGED <<now, claims, out>>, ended' \subseteq Jti,
         NEW r \in Requests, NEW q, MovesTo(r, q), q.pc # "rotate",
         row' \in [Jti -> Rows], RowInv', LinkInv', SuccessorsAreUnique',
         \A k \in Jti : row[k].present => row'[k] = row[k],
         \A k \in Jti : AddsLinkOf(r, k)
  PROVE  IInv'
<1>1. req' \in [Requests -> ReqStates] /\ ReqInv' /\ FreshInv' /\ RefusedInv'
  BY RequestMoves
<1>2. ClaimsInv'
  BY DEF IInv, ClaimsInv, Signed
<1>3. TypeOK'
  BY <1>1 DEF IInv, TypeOK, Signed
<1> QED
  BY <1>1, <1>2, <1>3 DEF IInv

LEMMA RefreshRotateStep ==
  ASSUME IInv, NEW r \in Requests, RefreshRotate(r) PROVE IInv'
<1> DEFINE j == req[r].jti
           n == req[r].new
           q == [req[r] EXCEPT !.pc = "respond"]
<1>1. /\ j \in Signed /\ n \in Signed /\ j < n /\ SameLogin(n, j) /\ n # NilJti
      /\ req[r].exp = claims[j].exp
      /\ \A k \in Jti : row[k].present => row[k].repl # n
  BY RequestFacts DEF RefreshRotate, RequestInv, IInv, FreshInv
<1>2. j \in Jti /\ n \in Jti \cup {NilJti} /\ claims[j].exp \in Nat
  BY <1>1, RequestFacts, SignedAreIds DEF Claims, IInv
<1>3. InsertRow(j, claims[j].exp, n) /\ UNCHANGED <<now, claims, out, ended>>
  BY <1>1 DEF RefreshRotate, Rotate
<1>4. row' \in [Jti -> Rows] /\ RowInv' /\ LinkInv' /\ SuccessorsAreUnique'
  BY <1>1, <1>2, <1>3, InsertRowSafe
<1>5. /\ \A k \in Jti : row[k].present => row'[k] = row[k]
      /\ \A k \in Jti : AddsLinkOf(r, k)
  <2>1. /\ \A k \in Jti : row[k].present => row'[k] = row[k]
        /\ \A k \in Jti : \/ row'[k] = row[k]
                          \/ row'[k] = [at |-> now, exp |-> claims[j].exp, repl |-> n, present |-> TRUE]
    BY <1>2, <1>3, InsertRowEffect DEF IInv
  <2> QED
    BY <2>1 DEF AddsLinkOf, RefreshRotate
<1>6. q \in ReqStates
  BY RequestFacts DEF ReqStates, PCs
<1>7. RequestInv(q) /\ RefusalInv(q)
  BY <1>1, RequestFacts DEF RefreshRotate, RequestInv, RefusalInv, ReqStates
<1>8. q.pc # "rotate" /\ req' = [req EXCEPT ![r] = q]
  BY RequestFacts DEF RefreshRotate, Goto, ReqStates
<1>9. MovesTo(r, q) /\ ended' \subseteq Jti /\ UNCHANGED <<now, claims, out>>
  BY <1>3, <1>6, <1>7, <1>8, RequestFacts DEF MovesTo
<1> HIDE DEF q, j, n
<1> QED
  BY <1>4, <1>5, <1>8, <1>9, InsertRowStep

LEMMA LogoutRevokeStep ==
  ASSUME IInv, NEW r \in Requests, LogoutRevoke(r) PROVE IInv'
<1> DEFINE j == req[r].jti
           q == [req[r] EXCEPT !.pc = "walk"]
<1>1. j \in Signed /\ req[r].exp = claims[j].exp
  BY RequestFacts DEF LogoutRevoke, RequestInv
<1>2. j \in Jti /\ claims[j].exp \in Nat
  BY <1>1, RequestFacts, SignedAreIds DEF Claims, IInv
<1>3. InsertRow(j, claims[j].exp, NilJti) /\ UNCHANGED <<now, claims, out, ended>>
  BY <1>1 DEF LogoutRevoke, Revoke
<1>4. row' \in [Jti -> Rows] /\ RowInv' /\ LinkInv' /\ SuccessorsAreUnique'
  BY <1>1, <1>2, <1>3, InsertRowSafe
<1>5. /\ \A k \in Jti : row[k].present => row'[k] = row[k]
      /\ \A k \in Jti : AddsLinkOf(r, k)
  <2>1. /\ \A k \in Jti : row[k].present => row'[k] = row[k]
        /\ \A k \in Jti : \/ row'[k] = row[k]
                          \/ row'[k] = [at |-> now, exp |-> claims[j].exp, repl |-> NilJti, present |-> TRUE]
    BY <1>2, <1>3, InsertRowEffect DEF IInv
  <2> QED
    BY <2>1 DEF AddsLinkOf
<1>6. q \in ReqStates
  BY RequestFacts DEF ReqStates, PCs
<1>7. RequestInv(q) /\ RefusalInv(q)
  BY <1>1, RequestFacts DEF LogoutRevoke, RequestInv, RefusalInv, ReqStates
<1>8. q.pc # "rotate" /\ req' = [req EXCEPT ![r] = q]
  BY RequestFacts DEF LogoutRevoke, Goto, ReqStates
<1>9. MovesTo(r, q) /\ ended' \subseteq Jti /\ UNCHANGED <<now, claims, out>>
  BY <1>3, <1>6, <1>7, <1>8, RequestFacts DEF MovesTo
<1> HIDE DEF q, j
<1> QED
  BY <1>4, <1>5, <1>8, <1>9, InsertRowStep

LEMMA ChainInsertTipStep ==
  ASSUME IInv, NEW r \in Requests, ChainInsertTip(r) PROVE IInv'
<1> DEFINE j == req[r].target
           q == Idle
<1>1. /\ j \in Signed
      /\ req[r].jti \in Signed
      /\ claims[req[r].jti].root \in Jti
      /\ req[r].exp = claims[j].exp
  <2>1. /\ j \in Signed
        /\ req[r].jti \in Signed
        /\ SameLogin(j, req[r].jti)
        /\ req[r].exp = claims[req[r].jti].exp
    BY RequestFacts DEF ChainInsertTip, RequestInv
  <2>2. claims[req[r].jti].root \in Jti
    BY <2>1, RequestFacts DEF IInv, ClaimsInv
  <2> QED
    BY <2>1, <2>2 DEF IInv, ClaimsInv, SameLogin
<1>2. j \in Jti /\ claims[j].exp \in Nat
  BY <1>1, RequestFacts, SignedAreIds DEF Claims, IInv
<1>3. InsertRow(j, claims[j].exp, NilJti) /\ UNCHANGED <<now, claims, out>>
  BY <1>1 DEF ChainInsertTip, Revoke
<1>4. row' \in [Jti -> Rows] /\ RowInv' /\ LinkInv' /\ SuccessorsAreUnique'
  BY <1>1, <1>2, <1>3, InsertRowSafe
<1>5. /\ \A k \in Jti : row[k].present => row'[k] = row[k]
      /\ \A k \in Jti : AddsLinkOf(r, k)
  <2>1. /\ \A k \in Jti : row[k].present => row'[k] = row[k]
        /\ \A k \in Jti : \/ row'[k] = row[k]
                          \/ row'[k] = [at |-> now, exp |-> claims[j].exp, repl |-> NilJti, present |-> TRUE]
    BY <1>2, <1>3, InsertRowEffect DEF IInv
  <2> QED
    BY <2>1 DEF AddsLinkOf
<1>6. q \in ReqStates /\ RequestInv(q) /\ RefusalInv(q) /\ q.pc # "rotate"
  BY DEF Idle, ReqStates, PCs, RequestInv, RefusalInv
<1>7. ended' \subseteq Jti
  BY <1>1, RequestFacts DEF ChainInsertTip
<1>8. MovesTo(r, q) /\ UNCHANGED <<now, claims, out>>
  BY <1>3, <1>6 DEF MovesTo, ChainInsertTip, Finish
<1> HIDE DEF q, j
<1> QED
  BY <1>4, <1>5, <1>6, <1>7, <1>8, InsertRowStep

\* A new signature disturbs nothing that is known of the tokens signed before.
LEMMA SignKeepsInv ==
  ASSUME IInv, CanSign, UNCHANGED <<now, row>>,
         NEW c \in Claims, claims' = Append(claims, c),
         \/ /\ c.root = NewJti
         \/ /\ c.root \in Signed
            /\ claims[c.root].root = c.root
            /\ c.user = claims[c.root].user
            /\ c.exp = claims[c.root].exp
  PROVE  /\ ClaimsInv'
         /\ (RowInv /\ LinkInv /\ SuccessorsAreUnique)'
<1>1. /\ Signed' = Signed \cup {NewJti}
      /\ NewJti \notin Signed
      /\ \A k \in Signed : claims'[k] = claims[k] /\ k < NewJti
      /\ claims'[NewJti] = c
      /\ NewJti \in Jti
  BY SignEffect DEF IInv
<1>3. ClaimsInv'
  <2> SUFFICES ASSUME NEW j \in Signed'
               PROVE  /\ claims'[j].root \in Signed'
                      /\ claims'[claims'[j].root].root = claims'[j].root
                      /\ claims'[j].user = claims'[claims'[j].root].user
                      /\ claims'[j].exp = claims'[claims'[j].root].exp
    BY DEF ClaimsInv
  <2>1. CASE j \in Signed
    <3>1. /\ claims[j].root \in Signed
          /\ claims[claims[j].root].root = claims[j].root
          /\ claims[j].user = claims[claims[j].root].user
          /\ claims[j].exp = claims[claims[j].root].exp
      BY <2>1 DEF IInv, ClaimsInv
    <3> QED
      BY <1>1, <2>1, <3>1
  <2>2. CASE j = NewJti
    BY <1>1, <2>2
  <2> QED
    BY <1>1, <2>1, <2>2
<1>4. (RowInv /\ LinkInv /\ SuccessorsAreUnique)'
  <2>1. \A j \in Jti : row[j].present => j \in Signed
    BY DEF IInv, RowInv
  <2> QED
    BY <1>1, <2>1 DEF IInv, RowInv, LinkInv, SuccessorsAreUnique, SameLogin
<1> QED
  BY <1>3, <1>4

LEMMA LoginStep ==
  ASSUME IInv, NEW u \in Users, Login(u) PROVE IInv'
<1> DEFINE c == [user |-> u, exp |-> now + Lifetime, root |-> NewJti]
<1>1. /\ NewJti \in Jti
      /\ c \in Claims
      /\ c.root = NewJti
      /\ claims' = Append(claims, c)
      /\ UNCHANGED <<now, row, req, ended>>
  <2>1. NewJti \in Jti /\ now + Lifetime \in Nat
    BY BoundsAssumption DEF Login, CanSign, IInv, TypeOK
  <2> QED
    BY <2>1 DEF Login, Claims
<1> HIDE DEF c
<1>2. /\ ClaimsInv' /\ RowInv' /\ LinkInv' /\ SuccessorsAreUnique'
  BY <1>1, SignKeepsInv DEF Login
<1>3. /\ claims' \in Seq(Claims)
      /\ Len(claims') <= MaxJti
      /\ Signed' = Signed \cup {NewJti}
      /\ \A k \in Signed : claims'[k] = claims[k]
  BY <1>1, SignEffect DEF Login, IInv
<1>4. TypeOK'
  BY <1>1, <1>3 DEF Login, IInv, TypeOK
<1>5. ReqInv'
  <2> SUFFICES ASSUME NEW s \in Requests PROVE RequestInv(req[s])'
    BY DEF ReqInv
  <2> QED
    BY <1>1, <1>3, RequestFacts DEF RequestInv, SameLogin
<1>6. FreshInv'
  BY <1>1 DEF IInv, FreshInv
<1>7. RefusedInv'
  <2> SUFFICES ASSUME NEW s \in Requests, req[s].refused
               PROVE  RefusalInv(req[s])'
    BY <1>1 DEF RefusedInv, RefusalInv
  <2>1. req[s].jti \in Signed
    BY RequestFacts DEF RefusalInv, RequestInv
  <2>2. claims'[req[s].jti] = claims[req[s].jti]
    BY <1>3, <2>1
  <2> QED
    BY <1>1, <2>2, RequestFacts DEF RefusalInv, Refused
<1> QED
  BY <1>2, <1>4, <1>5, <1>6, <1>7 DEF IInv

LEMMA SignSuccessorStep ==
  ASSUME IInv, NEW r \in Requests, req[r].pc = "account", SignSuccessor(r),
         UNCHANGED <<now, out, row, ended>>
  PROVE  IInv'
<1> DEFINE j == req[r].jti
           c == [claims[j] EXCEPT !.exp = req[r].exp]
           q == [req[r] EXCEPT !.pc = "rotate", !.new = NewJti]
<1>1. j \in Signed /\ req[r].exp = claims[j].exp /\ claims[j] \in Claims
  BY RequestFacts, SignedAreIds DEF RequestInv, IInv
<1>2. c = claims[j] /\ c \in Claims
  BY <1>1 DEF Claims
<1>3. claims' = Append(claims, c) /\ CanSign
  BY DEF SignSuccessor
<1> HIDE DEF c
<1>4. /\ claims' \in Seq(Claims)
      /\ Len(claims') <= MaxJti
      /\ NewJti \in Jti
      /\ NewJti \notin Signed
      /\ Signed' = Signed \cup {NewJti}
      /\ \A k \in Signed : claims'[k] = claims[k] /\ k < NewJti
      /\ claims'[NewJti] = c
  BY <1>2, <1>3, SignEffect DEF IInv
<1>5. ClaimsInv' /\ RowInv' /\ LinkInv' /\ SuccessorsAreUnique'
  <2>1. /\ c.root \in Signed
        /\ claims[c.root].root = c.root
        /\ c.user = claims[c.root].user
        /\ c.exp = claims[c.root].exp
    BY <1>1, <1>2 DEF IInv, ClaimsInv
  <2> QED
    BY <1>2, <1>3, <2>1, SignKeepsInv
<1>6. /\ q \in ReqStates
      /\ q.jti = j /\ q.new = NewJti /\ q.pc = "rotate" /\ q.exp = req[r].exp
      /\ q.refused = req[r].refused
  BY <1>4, RequestFacts DEF ReqStates, PCs
<1>7. /\ req' \in [Requests -> ReqStates]
      /\ req'[r] = q
      /\ \A s \in Requests \ {r} : req'[s] = req[s]
  BY <1>6 DEF SignSuccessor, IInv, TypeOK
<1> HIDE DEF q, j
<1>8. TypeOK'
  BY <1>4, <1>7 DEF IInv, TypeOK
<1>9. ReqInv'
  <2> SUFFICES ASSUME NEW s \in Requests PROVE RequestInv(req[s])'
    BY DEF ReqInv
  <2>1. CASE s = r
    <3>1. NewJti # NilJti
      BY <1>4 DEF Jti, NilJti
    <3> QED
      BY <1>1, <1>2, <1>4, <1>6, <1>7, <2>1, <3>1 DEF RequestInv, SameLogin
  <2>2. CASE s # r
    <3>1. req'[s] = req[s] /\ RequestInv(req[s])
      BY <1>7, <2>2, RequestFacts
    <3> QED
      BY <1>4, <3>1 DEF RequestInv, SameLogin
  <2> QED
    BY <2>1, <2>2
<1>10. FreshInv'
  <2>1. \A k \in Jti : row[k].present => row[k].repl # NewJti
    BY <1>4, RequestFacts DEF IInv, LinkInv, Rotated, Jti, NilJti
  <2>2. \A s \in Requests \ {r} : req[s].pc = "rotate" => req[s].new # NewJti
    BY <1>4, RequestFacts DEF RequestInv
  <2> QED
    BY <1>6, <1>7, <2>1, <2>2 DEF IInv, FreshInv
<1>11. RefusedInv'
  <2> SUFFICES ASSUME NEW s \in Requests PROVE RefusalInv(req[s])'
    BY DEF RefusedInv
  <2>1. req'[s].refused = req[s].refused /\ req'[s].jti = req[s].jti
    BY <1>6, <1>7 DEF j
  <2>2. req[s].refused => claims'[req[s].jti] = claims[req[s].jti]
    BY <1>4, RequestFacts DEF RefusalInv, RequestInv
  <2>3. CASE s = r
    BY <1>6, <1>7, <2>1, <2>2, <2>3, RequestFacts DEF RefusalInv, Refused
  <2>4. CASE s # r
    BY <1>7, <2>1, <2>2, <2>4, RequestFacts DEF RefusalInv, Refused
  <2> QED
    BY <2>3, <2>4
<1> QED
  BY <1>5, <1>8, <1>9, <1>10, <1>11 DEF IInv

LEMMA RefreshSignStep ==
  ASSUME IInv, NEW r \in Requests, RefreshSign(r) PROVE IInv'
<1>1. req[r].pc = "account" /\ req[r].jti \in Signed /\ req[r].jti \in Jti /\ NilJti \notin Jti
  BY RequestFacts DEF RefreshSign, RequestInv, Jti, NilJti
<1>2. CASE /\ req' = [req EXCEPT ![r].pc = "respond", ![r].new = req[r].jti]
           /\ UNCHANGED <<now, claims, out, row, ended>>
  <2> DEFINE q == [req[r] EXCEPT !.pc = "respond", !.new = req[r].jti]
  <2>1. q \in ReqStates
    BY <1>1, RequestFacts DEF ReqStates, PCs
  <2>2. RequestInv(q) /\ RefusalInv(q)
    BY <1>1, RequestFacts DEF RequestInv, RefusalInv, ReqStates, SameLogin
  <2>3. q.pc # "rotate" /\ req' = [req EXCEPT ![r] = q]
    BY <1>2, RequestFacts DEF ReqStates
  <2>4. MovesTo(r, q) /\ out' \subseteq Signed /\ ended' \subseteq Jti /\ UNCHANGED <<now, claims, row>>
    BY <1>2, <2>1, <2>2, <2>3, RequestFacts DEF MovesTo
  <2> HIDE DEF q
  <2> QED
    BY <2>3, <2>4, RequestOnlyStep
<1>3. CASE req[r].new # NilJti /\ Goto(r, "respond") /\ UNCHANGED <<now, claims, out, row, ended>>
  <2> DEFINE q == [req[r] EXCEPT !.pc = "respond"]
  <2>1. q \in ReqStates
    BY <1>1, RequestFacts DEF ReqStates, PCs
  <2>2. RequestInv(q) /\ RefusalInv(q)
    BY <1>1, <1>3, RequestFacts DEF RequestInv, RefusalInv, ReqStates
  <2>3. q.pc # "rotate" /\ req' = [req EXCEPT ![r] = q]
    BY <1>3, RequestFacts DEF ReqStates, Goto
  <2>4. MovesTo(r, q) /\ out' \subseteq Signed /\ ended' \subseteq Jti /\ UNCHANGED <<now, claims, row>>
    BY <1>3, <2>1, <2>2, <2>3, RequestFacts DEF MovesTo
  <2> HIDE DEF q
  <2> QED
    BY <2>3, <2>4, RequestOnlyStep
<1>4. CASE SignSuccessor(r) /\ UNCHANGED <<now, out, row, ended>>
  BY <1>1, <1>4, SignSuccessorStep
<1> QED
  BY <1>2, <1>3, <1>4 DEF RefreshSign

-----------------------------------------------------------------------------
(* The theorems *)

LEMMA NextStep == IInv /\ [Next]_vars => IInv'
<1> SUFFICES ASSUME IInv, [Next]_vars PROVE IInv'
  OBVIOUS
<1>1. CASE UNCHANGED vars
  <2>1. TypeOK'
    BY <1>1 DEF vars, IInv, TypeOK, Signed
  <2>2. (ClaimsInv /\ RowInv /\ LinkInv /\ SuccessorsAreUnique /\ ReqInv /\ FreshInv /\ RefusedInv)'
    BY <1>1 DEF vars, IInv, ClaimsInv, RowInv, LinkInv, SuccessorsAreUnique, ReqInv, RequestInv,
                FreshInv, RefusedInv, RefusalInv, Refused, Signed, SameLogin
  <2> QED
    BY <2>1, <2>2 DEF IInv
<1>2. CASE Tick
  BY <1>2, TickStep
<1>3. CASE DeleteExpired
  BY <1>3, DeleteExpiredStep
<1>4. ASSUME NEW u \in Users, Login(u) PROVE IInv'
  BY <1>4, LoginStep
<1>5. ASSUME NEW r \in Requests, NEW j \in Jti, RefreshBegin(r, j) PROVE IInv'
  BY <1>5, RefreshBeginStep
<1>6. ASSUME NEW r \in Requests, NEW u \in Users, NEW j \in Jti, LogoutBegin(r, u, j) PROVE IInv'
  BY <1>6, LogoutBeginStep
<1>7. ASSUME NEW r \in Requests, RefreshStep(r) PROVE IInv'
  BY <1>7, RefreshGetStep, RefreshGetSuccessorStep, RefreshSignStep, RefreshRotateStep,
     RefreshRespondStep DEF RefreshStep
<1>8. ASSUME NEW r \in Requests, LogoutRevoke(r) \/ ChainStep(r) \/ Abort(r) PROVE IInv'
  BY <1>8, LogoutRevokeStep, ChainWalkStep, ChainInsertTipStep, AbortStep DEF ChainStep
<1> QED
  BY <1>1, <1>2, <1>3, <1>4, <1>5, <1>6, <1>7, <1>8 DEF Next

\* The inductive invariant holds in every state that can be reached.
THEOREM Invariant == Spec => []IInv
BY InitIInv, NextStep, PTL DEF Spec

\* Tokens, rows and requests keep their types, whatever the interleaving.
THEOREM TypeCorrect == Spec => []TypeOK
<1>1. IInv => TypeOK
  BY DEF IInv
<1> QED
  BY <1>1, Invariant, PTL

\* A rotation link leads to a later token of the same login: a walk of RevokeChain
\* ends, and it never revokes the token of another session or account.
THEOREM ChainsStay == Spec => []ChainsStayInTheirSession
<1>1. IInv => ChainsStayInTheirSession
  BY DEF IInv, RowInv, LinkInv, ClaimsInv, SameLogin, ChainsStayInTheirSession
<1> QED
  BY <1>1, Invariant, PTL

\* A chain is a line, so the LIMIT 1 of RevokeChain drops no tip, however many
\* requests rotate at once.
THEOREM SuccessorsUnique == Spec => []SuccessorsAreUnique
<1>1. IInv => SuccessorsAreUnique
  BY DEF IInv
<1> QED
  BY <1>1, Invariant, PTL

\* No refresh, and no re-issue, prolongs the session its login began.
THEOREM NeverExtended == Spec => []SessionNeverExtended
<1>1. IInv => SessionNeverExtended
  BY DEF IInv, ClaimsInv, SessionNeverExtended
<1> QED
  BY <1>1, Invariant, PTL

\* A token that was refused when a refresh started is not exchanged by that
\* refresh before it has expired, whatever the other requests do meanwhile.
THEOREM RefusedNotExchanged == Spec => []RefusedTokenIsNotExchanged
<1>1. IInv => RefusedTokenIsNotExchanged
  <2> SUFFICES ASSUME IInv, NEW r \in Requests, req[r].refused,
                      req[r].pc \in {"account", "rotate", "respond"}
               PROVE  claims[req[r].jti].exp <= now
    BY DEF RefusedTokenIsNotExchanged
  <2>1. ~(now < claims[req[r].jti].exp)
    BY RequestFacts DEF RefusalInv
  <2>2. now \in Nat /\ claims[req[r].jti].exp \in Nat
    BY RequestFacts, SignedAreIds DEF RequestInv, IInv, Claims
  <2> QED
    BY <2>1, <2>2
<1> QED
  BY <1>1, Invariant, PTL

\* The denylist never forgets: a row stays as it was first written for as long as
\* the token it names could verify, through rotations, logouts and sweeps.
THEOREM NeverForgets == Spec => DenylistNeverForgets
<1> DEFINE Kept == \A j \in Signed : row[j].present /\ now' < claims[j].exp => row'[j] = row[j]
<1>1. IInv /\ [Next]_vars => [Kept]_vars
  <2> SUFFICES ASSUME IInv, Next PROVE Kept
    OBVIOUS
  <2> SUFFICES ASSUME NEW j \in Signed, row[j].present, now' < claims[j].exp
               PROVE  row'[j] = row[j]
    OBVIOUS
  <2>0. row \in [Jti -> Rows] /\ now \in Nat
    BY DEF IInv, TypeOK
  <2>1. j \in Jti /\ row[j].exp = claims[j].exp
    BY SignedAreIds DEF IInv, RowInv
  <2>2. CASE DeleteExpired
    BY <2>0, <2>1, <2>2 DEF DeleteExpired, Rows
  <2>3. CASE UNCHANGED row
    BY <2>3
  <2>4. ASSUME NEW r \in Requests, RefreshRotate(r) \/ LogoutRevoke(r) \/ ChainInsertTip(r)
        PROVE  row'[j] = row[j]
    BY <2>0, <2>1, <2>4
    DEF RefreshRotate, LogoutRevoke, ChainInsertTip, Rotate, Revoke, InsertRow
  <2>5. \/ UNCHANGED row
        \/ DeleteExpired
        \/ \E r \in Requests : RefreshRotate(r) \/ LogoutRevoke(r) \/ ChainInsertTip(r)
    BY DEF Next, Tick, Login, RefreshBegin, LogoutBegin, RefreshStep, RefreshGet,
           RefreshGetSuccessor, RefreshSign, RefreshRespond, ChainStep, ChainWalk, Abort
  <2> QED
    BY <2>2, <2>3, <2>4, <2>5
<1> QED
  BY <1>1, Invariant, PTL DEF Spec, DenylistNeverForgets

-----------------------------------------------------------------------------
(* One request per session: the invariant the promise rests on *)

Unexpired(j) == now < claims[j].exp

\* A token that a client was given or is about to be: the first of its session,
\* or the recorded successor of another.
Linked(j)  == \E k \in Jti : row[k].present /\ row[k].repl = j
OnChain(j) == j \in Signed /\ (claims[j].root = j \/ Linked(j))

\* The live end of a chain.
Tip(j) == OnChain(j) /\ Unexpired(j) /\ ~row[j].present

OutOnChain   == \A j \in out : Unexpired(j) => OnChain(j)
OneTip       == \A i, j \in Jti : Tip(i) /\ Tip(j) /\ SameLogin(i, j) => i = j
OverHasNoTip == ended \subseteq Signed /\ \A j \in Jti : Tip(j) => claims[j].root \notin ended
TipReached   == \A i, t \in Jti : OnChain(i) /\ Tip(t) /\ SameLogin(i, t) => t \in Chain(i)

\* What the session's request in flight knows of it, if it has not expired.
Knows(q) ==
  /\ q.pc \in {"account", "rotate"} /\ (q.pc = "account" => q.new = NilJti) => ~row[q.jti].present
  /\ q.pc \in {"account", "respond"} /\ q.new # NilJti => OnChain(q.new)
  /\ q.pc \in {"getSuccessor", "insertTip"} => OnChain(q.target)
  /\ q.pc \in {"walk", "insertTip"} => row[q.jti].present
  /\ q.pc = "insertTip" => ~row[q.target].present

KnowsInv(q) ==
  q.pc # "idle" =>
    /\ q.jti \in out
    /\ q.pc = "get" => q.new = NilJti
    /\ Unexpired(q.jti) => Knows(q)

AllKnow == \A r \in Requests : KnowsInv(req[r])

StoreInv == OutOnChain /\ OneTip /\ OverHasNoTip /\ TipReached

SInv == IInv /\ StoreInv /\ AllKnow

-----------------------------------------------------------------------------
(* Walks *)

LEMMA ChainFacts ==
  ASSUME IInv, NEW j \in Jti
  PROVE  /\ Chain(j) \subseteq Jti
         /\ j \in Chain(j)
         /\ \A k \in Chain(j) : row[k].present /\ Rotated(row[k]) => row[k].repl \in Chain(j)
<1>1. \A k \in Jti : row[k].present /\ Rotated(row[k]) => row[k].repl \in Jti
  BY SignedAreIds DEF IInv, LinkInv
<1> QED
  BY <1>1 DEF Chain, FollowsLinks

\* A walk that finds no tip has started in a session without one.
LEMMA NoTipNoSession ==
  ASSUME IInv, StoreInv, NEW j \in Jti, OnChain(j), row[j].present, Tips(j) = {},
         NEW t \in Jti, Tip(t)
  PROVE  ~SameLogin(j, t)
<1> SUFFICES ASSUME SameLogin(j, t) PROVE FALSE
  OBVIOUS
<1>1. t \in Chain(j) /\ ~row[t].present /\ t # j
  BY DEF StoreInv, TipReached, Tip
<1> DEFINE S == Chain(j) \ {t}
<1>2. S \in SUBSET Jti /\ j \in S
  BY <1>1, ChainFacts
<1>3. FollowsLinks(S)
  BY <1>1, ChainFacts DEF FollowsLinks, Tips
<1>4. t \in S
  BY <1>1, <1>2, <1>3 DEF Chain
<1> QED
  BY <1>4

\* Rows that only appear make walks only longer.
LEMMA ChainGrows ==
  ASSUME NEW j \in Jti,
         \A k \in Jti : row[k].present /\ Rotated(row[k]) => row'[k] = row[k]
  PROVE  Chain(j) \subseteq Chain(j)'
<1>1. \A S \in SUBSET Jti : FollowsLinks(S)' => FollowsLinks(S)
  BY DEF FollowsLinks, Rotated
<1> QED
  BY <1>1 DEF Chain

\* Tokens of one session expire together.
LEMMA ExpireTogether ==
  ASSUME IInv, NEW i \in Signed, NEW j \in Signed, SameLogin(i, j)
  PROVE  claims[i].exp = claims[j].exp /\ (Unexpired(i) <=> Unexpired(j))
BY DEF IInv, ClaimsInv, SameLogin, Unexpired

-----------------------------------------------------------------------------
(* A row is added *)

LEMMA InsertStore ==
  ASSUME IInv, StoreInv, UNCHANGED <<now, claims, out>>,
         NEW j \in Signed, NEW n \in Signed \cup {NilJti}, NEW e \in Nat,
         InsertRow(j, e, n),
         n # NilJti => SameLogin(n, j),
         Unexpired(j) => OnChain(j) /\ (n # NilJti => ~row[j].present)
  PROVE  /\ (OutOnChain /\ OneTip /\ TipReached)'
         /\ row'[j].present
         /\ \A k \in Jti : OnChain(k) => OnChain(k)'
         /\ \A k \in Jti : Tip(k)' => k # j /\ (Tip(k) \/ (k = n /\ Tip(j)))
         /\ n # NilJti /\ Unexpired(j) => OnChain(n)'
<1>0. /\ Signed \subseteq Jti /\ j \in Jti /\ n \in Jti \cup {NilJti} /\ NilJti \notin Jti
      /\ Signed' = Signed
  BY SignedAreIds DEF IInv, Jti, NilJti, Signed
<1>1. /\ \A k \in Jti : \/ row'[k] = row[k]
                        \/ /\ k = j
                           /\ ~row[k].present
                           /\ row'[k] = [at |-> now, exp |-> e, repl |-> n, present |-> TRUE]
      /\ \A k \in Jti : row[k].present => row'[k] = row[k]
      /\ row' \in [Jti -> Rows]
  BY <1>0, InsertRowEffect DEF IInv
<1>2. row'[j].present
  BY <1>0 DEF InsertRow, IInv, TypeOK, Rows
<1>3. ~row[j].present => row'[j].repl = n
  BY <1>0, <1>1, <1>2
<1>4. \A k \in Jti : OnChain(k) => OnChain(k)'
  BY <1>0, <1>1 DEF OnChain, Linked
<1>5. \A k \in Jti : OnChain(k)' => OnChain(k) \/ k = n
  BY <1>0, <1>1 DEF OnChain, Linked
<1>6. \A k \in Jti : Unexpired(k)' <=> Unexpired(k)
  BY DEF Unexpired
<1>7. n # NilJti /\ Unexpired(n) => Unexpired(j) /\ Tip(j)
  BY <1>0, ExpireTogether DEF Tip
<1>8. \A k \in Jti : Tip(k)' => k # j /\ (Tip(k) \/ (k = n /\ Tip(j)))
  BY <1>0, <1>1, <1>2, <1>5, <1>6, <1>7 DEF Tip
<1>9. n # NilJti /\ Unexpired(j) => OnChain(n)'
  BY <1>0, <1>2, <1>3 DEF OnChain, Linked
<1>10. OutOnChain'
  <2>1. out \subseteq Jti
    BY <1>0 DEF IInv, TypeOK
  <2> QED
    BY <1>4, <1>6, <2>1 DEF OutOnChain, StoreInv
<1>11. OneTip'
  <2> SUFFICES ASSUME NEW i \in Jti, NEW k \in Jti, Tip(i)', Tip(k)', SameLogin(i, k), i # k
               PROVE  FALSE
    BY DEF OneTip, SameLogin
  <2>1. ~(Tip(i) /\ Tip(k))
    BY DEF StoreInv, OneTip
  <2>2. CASE i = n /\ Tip(j) /\ Tip(k)
    <3>1. SameLogin(j, k) /\ k # j
      BY <1>0, <1>8, <2>2 DEF SameLogin
    <3> QED
      BY <1>0, <2>2, <3>1 DEF StoreInv, OneTip
  <2>3. CASE k = n /\ Tip(j) /\ Tip(i)
    <3>1. SameLogin(j, i) /\ i # j
      BY <1>0, <1>8, <2>3 DEF SameLogin
    <3> QED
      BY <1>0, <2>3, <3>1 DEF StoreInv, OneTip
  <2> QED
    BY <1>8, <2>1, <2>2, <2>3
<1>12. TipReached'
  <2> SUFFICES ASSUME NEW i \in Jti, NEW t \in Jti, OnChain(i)', Tip(t)', SameLogin(i, t)
               PROVE  t \in Chain(i)'
    BY DEF TipReached, SameLogin
  <2>1. t # j
    BY <1>8
  <2>2. \A k \in Jti : Chain(k) \subseteq Chain(k)'
    BY <1>1, ChainGrows
  <2>3. t = n => Tip(j) /\ SameLogin(j, t)
    BY <1>0, <1>6, <1>7 DEF Tip, SameLogin
  <2>4. i = n => Tip(j)
    <3>1. i = n => i \in Signed /\ t \in Signed /\ Unexpired(t)
      BY <1>0, <1>6 DEF Tip, OnChain
    <3> QED
      BY <1>0, <1>7, <3>1, ExpireTogether
  <2>5. CASE t # n /\ i # n
    BY <1>5, <1>8, <2>2, <2>5 DEF StoreInv, TipReached
  <2>6. CASE t # n /\ i = n
    <3>1. Tip(t) /\ Tip(j) /\ SameLogin(t, j)
      BY <1>0, <1>8, <2>4, <2>6 DEF SameLogin
    <3> QED
      BY <1>0, <2>1, <3>1 DEF StoreInv, OneTip
  <2>7. CASE t = n /\ i = n
    BY <2>7 DEF Chain
  <2>8. CASE t = n /\ i # n
    <3>1. SameLogin(i, j) /\ OnChain(i)
      BY <1>5, <2>3, <2>8 DEF SameLogin
    <3>2. j \in Chain(i)'
      BY <1>0, <2>2, <2>3, <2>8, <3>1 DEF StoreInv, TipReached
    <3>3. row'[j].present /\ row'[j].repl = t /\ t # NilJti
      BY <1>0, <1>2, <1>3, <2>3, <2>8 DEF Tip
    <3> QED
      BY <1>0, <3>2, <3>3 DEF Chain, FollowsLinks, Rotated
  <2> QED
    BY <2>5, <2>6, <2>7, <2>8
<1> QED
  BY <1>2, <1>4, <1>8, <1>9, <1>10, <1>11, <1>12

-----------------------------------------------------------------------------
(* Time passes, rows are swept, tokens are signed *)

\* Tokens and rows stay, and time does not go back.
LEMMA StoreAges ==
  ASSUME IInv, StoreInv, UNCHANGED <<claims, row, out, ended>>, now' \in Nat, now <= now'
  PROVE  /\ StoreInv'
         /\ \A j \in Jti : OnChain(j)' <=> OnChain(j)
         /\ \A j \in Signed : Unexpired(j)' => Unexpired(j)
<1>0. now \in Nat /\ Signed \subseteq Jti /\ out \subseteq Signed /\ \A j \in Signed : claims[j].exp \in Nat
  BY SignedAreIds DEF IInv, TypeOK, Claims
<1>1. \A j \in Jti : OnChain(j)' <=> OnChain(j)
  BY DEF OnChain, Linked, Signed
<1>2. \A j \in Signed : Unexpired(j)' => Unexpired(j)
  BY <1>0 DEF Unexpired
<1>3. \A j \in Jti : Tip(j)' => Tip(j)
  BY <1>1, <1>2 DEF Tip, OnChain
<1>4. \A j \in Jti : Chain(j)' = Chain(j)
  BY DEF Chain, FollowsLinks, Rotated
<1>5. OutOnChain'
  BY <1>0, <1>1, <1>2 DEF StoreInv, OutOnChain
<1>6. OneTip'
  BY <1>3 DEF StoreInv, OneTip, SameLogin
<1>7. OverHasNoTip'
  BY <1>3 DEF StoreInv, OverHasNoTip, Signed
<1>8. TipReached'
  BY <1>1, <1>3, <1>4 DEF StoreInv, TipReached, SameLogin
<1> QED
  BY <1>1, <1>2, <1>5, <1>6, <1>7, <1>8 DEF StoreInv

\* The sweep drops rows of expired tokens only: chains that can still matter stay.
LEMMA StoreSwept ==
  ASSUME IInv, StoreInv, DeleteExpired
  PROVE  /\ StoreInv'
         /\ \A j \in Jti : Unexpired(j) /\ OnChain(j) => OnChain(j)'
         /\ \A j \in Signed : Unexpired(j) => row'[j] = row[j]
<1>0. /\ UNCHANGED <<now, claims, out, req, ended>>
      /\ \A j \in Jti : row'[j] \in {row[j], NoRow}
      /\ \A j \in Jti : row[j].present /\ now < row[j].exp => row'[j] = row[j]
  BY DEF DeleteExpired, IInv, TypeOK, Rows
<1>1. /\ Signed' = Signed /\ Signed \subseteq Jti /\ out \subseteq Signed
      /\ \A j \in Jti : row[j].present => j \in Signed /\ row[j].exp = claims[j].exp
  BY <1>0, SignedAreIds DEF IInv, TypeOK, RowInv, Signed
<1>2. \A j \in Signed : Unexpired(j) => row'[j] = row[j] \/ ~row[j].present
  BY <1>0, <1>1 DEF Unexpired
<1>3. \A j \in Signed : ~row[j].present => row'[j] = row[j]
  BY <1>0, <1>1 DEF DeleteExpired, IInv, TypeOK
<1>4. \A j \in Jti : Unexpired(j)' <=> Unexpired(j)
  BY <1>0 DEF Unexpired
<1>5. \A k \in Jti : row[k].present /\ Rotated(row[k]) =>
        k \in Signed /\ row[k].repl \in Signed /\ (Unexpired(k) <=> Unexpired(row[k].repl))
  BY <1>1, ExpireTogether DEF IInv, LinkInv
<1>6. \A j \in Jti : Unexpired(j) /\ OnChain(j) => OnChain(j)'
  <2> SUFFICES ASSUME NEW j \in Jti, Unexpired(j), OnChain(j) PROVE OnChain(j)'
    OBVIOUS
  <2>1. CASE claims[j].root = j
    BY <1>0, <1>1, <2>1 DEF OnChain
  <2>2. CASE Linked(j)
    <3>1. PICK k \in Jti : row[k].present /\ row[k].repl = j
      BY <2>2 DEF Linked
    <3>2. j # NilJti
      BY DEF Jti, NilJti
    <3>3. k \in Signed /\ Unexpired(k)
      BY <1>5, <3>1, <3>2 DEF Rotated
    <3> QED
      BY <1>1, <1>2, <3>1, <3>3 DEF OnChain, Linked
  <2> QED
    BY <2>1, <2>2 DEF OnChain
<1>7. \A j \in Jti : OnChain(j)' => OnChain(j)
  <2>1. \A k \in Jti : row'[k].present => row'[k] = row[k]
    BY <1>0 DEF NoRow
  <2> QED
    BY <1>0, <1>1, <2>1 DEF OnChain, Linked
<1>8. \A j \in Jti : Tip(j)' => Tip(j)
  <2> SUFFICES ASSUME NEW j \in Jti, Tip(j)' PROVE Tip(j)
    OBVIOUS
  <2>1. OnChain(j) /\ Unexpired(j) /\ j \in Signed /\ ~row'[j].present
    BY <1>1, <1>4, <1>7 DEF Tip, OnChain
  <2> QED
    BY <1>2, <2>1 DEF Tip
<1>9. OutOnChain'
  BY <1>0, <1>1, <1>4, <1>6 DEF StoreInv, OutOnChain
<1>10. OneTip'
  BY <1>0, <1>8 DEF StoreInv, OneTip, SameLogin
<1>11. OverHasNoTip'
  BY <1>0, <1>1, <1>8 DEF StoreInv, OverHasNoTip
<1>12. TipReached'
  <2> SUFFICES ASSUME NEW i \in Jti, NEW t \in Jti, OnChain(i)', Tip(t)', SameLogin(i, t),
                      NEW S \in SUBSET Jti, i \in S, FollowsLinks(S)'
               PROVE  t \in S
    BY <1>0 DEF TipReached, Chain, SameLogin
  <2>1. t \in Chain(i) /\ t \in Signed /\ Unexpired(t)
    BY <1>7, <1>8 DEF StoreInv, TipReached, Tip, OnChain
  <2> DEFINE D == S \cup {k \in Signed : ~Unexpired(k)}
  <2>2. D \in SUBSET Jti /\ i \in D
    BY <1>1
  <2>3. FollowsLinks(D)
    <3> SUFFICES ASSUME NEW k \in D, row[k].present, Rotated(row[k]) PROVE row[k].repl \in D
      BY DEF FollowsLinks
    <3>1. k \in Jti /\ k \in Signed /\ row[k].repl \in Signed /\ (Unexpired(k) <=> Unexpired(row[k].repl))
      BY <1>5, <2>2
    <3>2. CASE ~Unexpired(k)
      BY <3>1, <3>2
    <3>3. CASE Unexpired(k)
      <4>1. k \in S /\ row'[k] = row[k]
        BY <1>2, <3>1, <3>3
      <4> QED
        BY <4>1 DEF FollowsLinks, Rotated
    <3> QED
      BY <3>2, <3>3
  <2>4. t \in D
    BY <2>1, <2>2, <2>3 DEF Chain
  <2> QED
    BY <2>1, <2>4
<1> QED
  BY <1>2, <1>3, <1>6, <1>9, <1>10, <1>11, <1>12 DEF StoreInv

\* A signature puts no token on a chain but the first one of a login.
LEMMA StoreSigned ==
  ASSUME IInv, StoreInv, CanSign, UNCHANGED <<now, row, ended>>,
         NEW c \in Claims, claims' = Append(claims, c),
         \/ c.root = NewJti /\ out' = out \cup {NewJti}
         \/ c.root \in Signed /\ out' = out
  PROVE  /\ StoreInv'
         /\ \A j \in Signed : OnChain(j)' <=> OnChain(j)
         /\ \A j \in Signed : Unexpired(j)' <=> Unexpired(j)
<1>0. PICK n \in Jti : n = NewJti
  BY SignEffect DEF IInv
<1>1. /\ Signed' = Signed \cup {n} /\ n \notin Signed /\ n \in Jti
      /\ \A k \in Signed : claims'[k] = claims[k]
      /\ claims'[n] = c
      /\ Signed \subseteq Jti /\ out \subseteq Signed /\ ended \subseteq Signed
  BY <1>0, SignEffect, SignedAreIds DEF IInv, TypeOK, StoreInv, OverHasNoTip
<1>12. \/ c.root = n /\ out' = out \cup {n}
       \/ c.root \in Signed /\ out' = out
  BY <1>0
<1>2. \A k \in Jti : row[k].present => k # n /\ row[k].repl # n
  BY <1>1, RequestFacts DEF IInv, RowInv, LinkInv, Rotated, Jti, NilJti
<1>3. \A j \in Signed : OnChain(j)' <=> OnChain(j)
  BY <1>1 DEF OnChain, Linked
<1>4. OnChain(n)' <=> c.root = n
  BY <1>1, <1>2 DEF OnChain, Linked
<1>5. \A j \in Signed : Unexpired(j)' <=> Unexpired(j)
  BY <1>1 DEF Unexpired
<1>6. \A j \in Jti : Tip(j)' => (j \in Signed /\ Tip(j)) \/ (j = n /\ c.root = n)
  BY <1>1, <1>3, <1>4, <1>5 DEF Tip, OnChain
<1>7. \A j \in Signed : claims[j].root # n
  BY <1>1 DEF IInv, ClaimsInv
<1>8. OutOnChain'
  BY <1>1, <1>3, <1>4, <1>5, <1>12 DEF StoreInv, OutOnChain
<1>9. OneTip'
  BY <1>1, <1>6, <1>7, <1>12 DEF StoreInv, OneTip, SameLogin
<1>10. OverHasNoTip'
  BY <1>1, <1>6, <1>12 DEF StoreInv, OverHasNoTip
<1>11. TipReached'
  <2> SUFFICES ASSUME NEW i \in Jti, NEW t \in Jti, OnChain(i)', Tip(t)', SameLogin(i, t)'
               PROVE  t \in Chain(i)'
    BY DEF TipReached
  <2>1. \A k \in Jti : Chain(k)' = Chain(k)
    BY DEF Chain, FollowsLinks, Rotated
  <2>2. i \in Signed \/ (i = n /\ c.root = n)
    BY <1>1, <1>4 DEF OnChain
  <2>3. CASE i \in Signed /\ t \in Signed
    <3>1. OnChain(i) /\ Tip(t) /\ SameLogin(i, t)
      BY <1>1, <1>3, <1>6, <2>3 DEF SameLogin
    <3> QED
      BY <2>1, <3>1 DEF StoreInv, TipReached
  <2>4. CASE i = t
    BY <2>1, <2>4, ChainFacts
  <2> QED
    BY <1>1, <1>6, <1>7, <2>2, <2>3, <2>4 DEF SameLogin
<1> QED
  BY <1>3, <1>5, <1>8, <1>9, <1>10, <1>11 DEF StoreInv

-----------------------------------------------------------------------------
(* Every step preserves it while a session has one request at a time *)

\* A step that leaves the tokens and the denylist alone.
LEMMA StoreStays ==
  ASSUME IInv, StoreInv, UNCHANGED <<now, claims, row>>
  PROVE  /\ \A j \in Jti : OnChain(j)' <=> OnChain(j)
         /\ \A j \in Jti : Unexpired(j)' <=> Unexpired(j)
         /\ \A j \in Jti : Tip(j)' <=> Tip(j)
         /\ UNCHANGED <<out, ended>> => StoreInv'
<1>1. /\ \A j \in Jti : OnChain(j)' <=> OnChain(j)
      /\ \A j \in Jti : Unexpired(j)' <=> Unexpired(j)
  BY DEF OnChain, Linked, Unexpired, Signed
<1>2. \A j \in Jti : Tip(j)' <=> Tip(j)
  BY <1>1 DEF Tip
<1>3. UNCHANGED <<out, ended>> => StoreInv'
  <2>1. now' \in Nat /\ now <= now'
    BY DEF IInv, TypeOK
  <2> QED
    BY <2>1, StoreAges
<1> QED
  BY <1>1, <1>2, <1>3

\* What a request in flight knows, spelled out.
LEMMA KnownFacts ==
  ASSUME SInv, NEW r \in Requests, req[r].pc # "idle"
  PROVE  /\ req[r].jti \in out /\ req[r].jti \in Signed /\ req[r].jti \in Jti
         /\ req[r].pc = "get" => req[r].new = NilJti
         /\ Unexpired(req[r].jti) => OnChain(req[r].jti) /\ Knows(req[r])
         /\ req[r].exp = claims[req[r].jti].exp
BY RequestFacts DEF SInv, AllKnow, KnowsInv, RequestInv, StoreInv, OutOnChain

\* What a request knows stays true while nobody adds a row of its session.
LEMMA OthersKnow ==
  ASSUME SInv, NEW p \in Requests, req'[p] = req[p],
         now' = now, Signed \subseteq Signed', \A k \in Signed : claims'[k] = claims[k],
         out \subseteq out',
         \A k \in Signed : OnChain(k) => OnChain(k)',
         \A k \in Signed : req[p].pc # "idle" /\ SameLogin(k, req[p].jti) => row'[k] = row[k]
  PROVE  KnowsInv(req[p])'
<1>1. CASE req[p].pc = "idle"
  BY <1>1 DEF KnowsInv
<1>2. CASE req[p].pc # "idle"
  <2>1. PICK j \in Signed : j = req[p].jti
    BY <1>2, KnownFacts
  <2>2. /\ j \in out
        /\ Unexpired(j) => Knows(req[p])
        /\ req[p].pc = "get" => req[p].new = NilJti
        /\ row'[j] = row[j] /\ claims'[j] = claims[j]
    BY <1>2, <2>1, KnownFacts DEF SameLogin
  <2>3. /\ req[p].new # NilJti => req[p].new \in Signed /\ SameLogin(req[p].new, j)
        /\ req[p].pc \in {"getSuccessor", "insertTip"} =>
             req[p].target \in Signed /\ SameLogin(req[p].target, j)
    BY <1>2, <2>1, RequestFacts DEF RequestInv, SInv
  <2>4. ASSUME NEW x \in Signed, OnChain(x) PROVE OnChain(x)'
    BY <2>4
  <2>5. Unexpired(j) /\ req[p].pc \in {"account", "respond"} /\ req[p].new # NilJti =>
          OnChain(req[p].new)'
    <3> SUFFICES ASSUME Unexpired(j), req[p].pc \in {"account", "respond"}, req[p].new # NilJti
                 PROVE  OnChain(req[p].new)'
      OBVIOUS
    <3>1. PICK n \in Signed : n = req[p].new
      BY <2>3
    <3>2. OnChain(n)'
      BY <2>2, <2>4, <3>1 DEF Knows
    <3> QED
      BY <3>1, <3>2 DEF OnChain, Linked, Signed
  <2>6. Unexpired(j) /\ req[p].pc \in {"getSuccessor", "insertTip"} => OnChain(req[p].target)'
    <3> SUFFICES ASSUME Unexpired(j), req[p].pc \in {"getSuccessor", "insertTip"}
                 PROVE  OnChain(req[p].target)'
      OBVIOUS
    <3>1. PICK n \in Signed : n = req[p].target
      BY <2>3
    <3>2. OnChain(n)'
      BY <2>2, <2>4, <3>1 DEF Knows
    <3> QED
      BY <3>1, <3>2 DEF OnChain, Linked, Signed
  <2>7. Unexpired(j) /\ req[p].pc = "insertTip" => ~row'[req[p].target].present
    BY <1>2, <2>1, <2>2, <2>3 DEF Knows
  <2>8. Unexpired(j) => Knows(req[p])'
    BY <2>1, <2>2, <2>5, <2>6, <2>7 DEF Knows
  <2>9. Unexpired(j)' => Unexpired(j)
    BY <2>2 DEF Unexpired
  <2> QED
    BY <2>1, <2>2, <2>8, <2>9 DEF KnowsInv
<1> QED
  BY <1>1, <1>2

\* A step of r that adds no row: what r knows is all that has to be shown.
LEMMA QuietKnow ==
  ASSUME SInv, NEW r \in Requests, UNCHANGED <<now, claims, row>>, out \subseteq out',
         \A q \in Requests \ {r} : req'[q] = req[q], KnowsInv(req[r])'
  PROVE  AllKnow'
<1>1. \A j \in Jti : OnChain(j)' <=> OnChain(j)
  BY StoreStays DEF SInv
<1>2. \A k \in Signed : OnChain(k) => OnChain(k)'
  BY <1>1, SignedAreIds DEF SInv, IInv
<1>3. Signed' = Signed
  BY DEF Signed
<1>4. ASSUME NEW q \in Requests \ {r} PROVE KnowsInv(req[q])'
  BY <1>2, <1>3, OthersKnow
<1> QED
  BY <1>4 DEF AllKnow

\* A step of r that adds a row of its session says nothing to the others.
LEMMA InsertKnow ==
  ASSUME SInv, OneRequestPerSession, NEW r \in Requests, req[r].pc # "idle",
         UNCHANGED <<now, claims, out>>,
         NEW j \in Signed, SameLogin(j, req[r].jti), NEW e \in Nat, NEW n \in Jti \cup {NilJti},
         InsertRow(j, e, n),
         \A k \in Jti : OnChain(k) => OnChain(k)',
         \A q \in Requests \ {r} : req'[q] = req[q], KnowsInv(req[r])'
  PROVE  AllKnow'
<1>1. Signed' = Signed /\ Signed \subseteq Jti
  BY SignedAreIds DEF Signed, SInv, IInv
<1>2. \A k \in Jti : k # j => row'[k] = row[k]
  BY <1>1, InsertRowEffect DEF SInv, IInv
<1>3. ASSUME NEW q \in Requests \ {r} PROVE KnowsInv(req[q])'
  <2>1. \A k \in Signed : req[q].pc # "idle" /\ SameLogin(k, req[q].jti) => row'[k] = row[k]
    BY <1>1, <1>2 DEF OneRequestPerSession, SameLogin
  <2> QED
    BY <1>1, <2>1, OthersKnow
<1> QED
  BY <1>3 DEF AllKnow

\* A request begins, or stops short.
LEMMA IdleKnows ==
  ASSUME IInv
  PROVE  Idle \in ReqStates /\ KnowsInv(Idle)'
BY DEF Idle, ReqStates, PCs, KnowsInv

LEMMA FinishKnows ==
  ASSUME SInv, NEW r \in Requests, Finish(r)
  PROVE  KnowsInv(req[r])' /\ \A q \in Requests \ {r} : req'[q] = req[q]
BY IdleKnows DEF SInv, IInv, TypeOK, Finish

LEMMA SeqFinish ==
  ASSUME SInv, NEW r \in Requests, Finish(r), UNCHANGED <<now, claims, row, out, ended>>
  PROVE  (StoreInv /\ AllKnow)'
BY StoreStays, FinishKnows, QuietKnow DEF SInv

LEMMA SeqBegin ==
  ASSUME SInv, NEW r \in Requests, NEW j \in Jti,
         RefreshBegin(r, j) \/ \E u \in Users : LogoutBegin(r, u, j)
  PROVE  (StoreInv /\ AllKnow)'
<1>1. /\ UNCHANGED <<now, claims, row, out, ended>>
      /\ j \in out /\ req'[r].jti = j /\ req'[r].pc \in {"get", "revoke"} /\ req'[r].new = NilJti
      /\ \A q \in Requests \ {r} : req'[q] = req[q]
  <2>1. req \in [Requests -> ReqStates]
    BY DEF SInv, IInv, TypeOK
  <2>2. CASE RefreshBegin(r, j)
    BY <2>1, <2>2 DEF RefreshBegin, Idle
  <2>3. CASE \E u \in Users : LogoutBegin(r, u, j)
    BY <2>1, <2>3 DEF LogoutBegin, Idle
  <2> QED
    BY <2>1, <2>2, <2>3
<1>2. KnowsInv(req[r])'
  BY <1>1 DEF KnowsInv, Knows
<1> QED
  BY <1>1, <1>2, StoreStays, QuietKnow DEF SInv

LEMMA SeqGet ==
  ASSUME SInv, NEW r \in Requests, RefreshGet(r)
  PROVE  (StoreInv /\ AllKnow)'
<1>0. PICK j \in Jti : j = req[r].jti
  BY KnownFacts DEF RefreshGet
<1> DEFINE record == GetRow(j)
<1>1. /\ UNCHANGED <<now, claims, row, out, ended>>
      /\ req[r].pc = "get" /\ req[r].new = NilJti /\ j \in out
      /\ StoreInv' /\ IInv /\ StoreInv /\ req \in [Requests -> ReqStates]
      /\ record.present => record = row[j]
      /\ Unexpired(j) => record.present \/ ~row[j].present
  <2>1. row[j].present => row[j].exp = claims[j].exp
    BY DEF SInv, IInv, RowInv
  <2> QED
    BY <1>0, <2>1, KnownFacts, StoreStays, RequestFacts
    DEF RefreshGet, SInv, GetRow, Unexpired, NoRow, IInv, TypeOK
<1>2. CASE Finish(r)
  BY <1>1, <1>2, SeqFinish
<1>3. CASE record.present /\ Rotated(record) /\ req' = [req EXCEPT ![r].pc = "getSuccessor", ![r].target = record.repl]
  <2>1. PICK t \in Signed : t = record.repl
    BY <1>1, <1>3 DEF Rotated, SInv, IInv, LinkInv
  <2>2. OnChain(t)
    BY <1>1, <1>3, <2>1 DEF OnChain, Linked
  <2>3. req'[r].pc = "getSuccessor" /\ req'[r].target = t /\ req'[r].jti = j
    BY <1>0, <1>1, <1>3, <2>1
  <2>4. KnowsInv(req[r])'
    BY <1>1, <2>2, <2>3 DEF KnowsInv, Knows, OnChain, Linked, Signed
  <2> QED
    BY <1>1, <1>3, <2>4, QuietKnow
<1>4. CASE record.present /\ req' = [req EXCEPT ![r].pc = "walk", ![r].exp = record.exp]
  <2>1. row[j].present
    BY <1>1, <1>4
  <2>2. req'[r].pc = "walk" /\ req'[r].jti = j
    BY <1>0, <1>1, <1>4
  <2>3. KnowsInv(req[r])'
    BY <1>1, <2>1, <2>2 DEF KnowsInv, Knows
  <2> QED
    BY <1>1, <1>4, <2>3, QuietKnow
<1>5. CASE ~record.present /\ Goto(r, "account")
  <2>1. req'[r].pc = "account" /\ req'[r].jti = j /\ req'[r].new = NilJti
    BY <1>0, <1>1, <1>5 DEF Goto
  <2>2. KnowsInv(req[r])'
    BY <1>1, <1>5, <2>1 DEF KnowsInv, Knows, Unexpired
  <2> QED
    BY <1>1, <1>5, <2>2, QuietKnow DEF Goto
<1> QED
  BY <1>0, <1>1, <1>2, <1>3, <1>4, <1>5 DEF RefreshGet, ResolveSpent

LEMMA SeqGetSuccessor ==
  ASSUME SInv, NEW r \in Requests, RefreshGetSuccessor(r)
  PROVE  (StoreInv /\ AllKnow)'
<1>0. PICK j \in Jti, t \in Signed : j = req[r].jti /\ t = req[r].target
  BY KnownFacts, RequestFacts DEF RefreshGetSuccessor, RequestInv, SInv
<1>1. /\ UNCHANGED <<now, claims, row, out, ended>>
      /\ req[r].pc = "getSuccessor" /\ j \in out
      /\ Unexpired(j) => OnChain(t)
      /\ req \in [Requests -> ReqStates] /\ StoreInv'
  BY <1>0, KnownFacts, StoreStays, RequestFacts
  DEF RefreshGetSuccessor, SInv, Knows, IInv, TypeOK
<1>2. CASE Finish(r)
  BY <1>1, <1>2, SeqFinish
<1>3. CASE req' = [req EXCEPT ![r].pc = "account", ![r].new = req[r].target]
  <2>1. t # NilJti
    BY RequestFacts DEF SInv, Jti, NilJti
  <2>2. req'[r].pc = "account" /\ req'[r].new = t /\ req'[r].jti = j
    BY <1>0, <1>1, <1>3
  <2>3. KnowsInv(req[r])'
    BY <1>1, <2>1, <2>2 DEF KnowsInv, Knows, OnChain, Linked, Unexpired, Signed
  <2> QED
    BY <1>1, <1>3, <2>3, QuietKnow
<1> QED
  BY <1>2, <1>3, <1>1 DEF RefreshGetSuccessor

LEMMA SeqSign ==
  ASSUME SInv, NEW r \in Requests, RefreshSign(r)
  PROVE  (StoreInv /\ AllKnow)'
<1>0. PICK j \in Signed : j = req[r].jti
  BY KnownFacts DEF RefreshSign
<1>1. /\ UNCHANGED <<now, row, out, ended>>
      /\ req[r].pc = "account" /\ j \in out /\ j \in Jti /\ out \subseteq Signed
      /\ Unexpired(j) => OnChain(j) /\ Knows(req[r])
      /\ req[r].exp = claims[j].exp
      /\ req \in [Requests -> ReqStates] /\ IInv /\ StoreInv
  BY <1>0, KnownFacts, RequestFacts DEF RefreshSign, SInv, IInv, TypeOK
<1>2. CASE UNCHANGED claims /\ req' = [req EXCEPT ![r].pc = "respond", ![r].new = req[r].jti]
  <2>1. req'[r].pc = "respond" /\ req'[r].jti = j /\ req'[r].new = j
    BY <1>0, <1>1, <1>2
  <2>2. KnowsInv(req[r])'
    BY <1>1, <1>2, <2>1 DEF KnowsInv, Knows, OnChain, Linked, Unexpired, Signed
  <2> QED
    BY <1>1, <1>2, <2>2, StoreStays, QuietKnow
<1>3. CASE req[r].new # NilJti /\ Goto(r, "respond") /\ UNCHANGED claims
  <2>1. PICK n \in Signed : n = req[r].new
    BY <1>1, <1>3, RequestFacts DEF RequestInv
  <2>2. req'[r].pc = "respond" /\ req'[r].jti = j /\ req'[r].new = n
    BY <1>0, <1>1, <1>3, <2>1 DEF Goto
  <2>3. Unexpired(j) => OnChain(n)
    BY <1>1, <1>3, <2>1 DEF Knows
  <2>4. KnowsInv(req[r])'
    BY <1>1, <1>3, <2>2, <2>3 DEF KnowsInv, Knows, OnChain, Linked, Unexpired, Signed
  <2> QED
    BY <1>1, <1>3, <2>4, StoreStays, QuietKnow DEF Goto
<1>4. CASE req[r].new = NilJti /\ SignSuccessor(r)
  <2> DEFINE c == [claims[j] EXCEPT !.exp = req[r].exp]
  <2>1. c = claims[j] /\ c \in Claims /\ c.root \in Signed
    BY <1>1, SignedAreIds DEF IInv, Claims, ClaimsInv
  <2>2. claims' = Append(claims, c) /\ CanSign
    BY <1>0, <1>4 DEF SignSuccessor
  <2> HIDE DEF c
  <2>3. /\ StoreInv'
        /\ \A k \in Signed : OnChain(k)' <=> OnChain(k)
        /\ \A k \in Signed : Unexpired(k)' <=> Unexpired(k)
    BY <1>1, <2>1, <2>2, StoreSigned
  <2>4. /\ req'[r].pc = "rotate" /\ req'[r].jti = j
    BY <1>0, <1>1, <1>4 DEF SignSuccessor
  <2>5. claims'[j] = claims[j]
    BY <1>1, <2>1, <2>2, SignEffect DEF IInv
  <2>6. Unexpired(j) => ~row[j].present
    BY <1>0, <1>1, <1>4 DEF Knows
  <2>7. KnowsInv(req[r])'
    BY <1>1, <2>4, <2>5, <2>6 DEF KnowsInv, Knows, Unexpired
  <2>8. /\ Signed \subseteq Signed' /\ \A k \in Signed : claims'[k] = claims[k]
        /\ \A q \in Requests \ {r} : req'[q] = req[q]
    BY <1>1, <1>4, <2>1, <2>2, SignEffect DEF SignSuccessor, IInv
  <2>9. ASSUME NEW q \in Requests \ {r} PROVE KnowsInv(req[q])'
    BY <1>1, <2>3, <2>8, OthersKnow
  <2> QED
    BY <2>3, <2>7, <2>9 DEF AllKnow
<1> QED
  BY <1>0, <1>1, <1>2, <1>3, <1>4 DEF RefreshSign

LEMMA SeqRotate ==
  ASSUME OneRequestPerSession, SInv, NEW r \in Requests, RefreshRotate(r)
  PROVE  /\ (StoreInv /\ AllKnow)'
         /\ \A k \in Jti : Tip(k)' => k # req[r].jti /\ (Tip(k) \/ k = req[r].new)
<1>0. PICK j \in Signed, n \in Signed : j = req[r].jti /\ n = req[r].new
  BY KnownFacts, RequestFacts DEF RefreshRotate, RequestInv, SInv
<1>1. /\ UNCHANGED <<now, claims, out, ended>>
      /\ req[r].pc = "rotate" /\ j \in out /\ j \in Jti /\ out \subseteq Signed
      /\ Unexpired(j) => OnChain(j) /\ ~row[j].present
      /\ InsertRow(j, claims[j].exp, n) /\ claims[j].exp \in Nat
      /\ n # NilJti /\ SameLogin(n, j)
      /\ req \in [Requests -> ReqStates] /\ IInv /\ StoreInv
  BY <1>0, KnownFacts, RequestFacts, SignedAreIds
  DEF RefreshRotate, Rotate, SInv, IInv, TypeOK, Knows, RequestInv, Claims
<1>2. /\ (OutOnChain /\ OneTip /\ TipReached)'
      /\ \A k \in Jti : Tip(k)' => k # j /\ (Tip(k) \/ (k = n /\ Tip(j)))
      /\ \A k \in Jti : OnChain(k) => OnChain(k)'
      /\ Unexpired(j) => OnChain(n)'
  <2>1. n \in Signed \cup {NilJti}
    OBVIOUS
  <2> QED
    BY <1>1, <2>1, InsertStore
<1>3. OverHasNoTip'
  BY <1>1, <1>2 DEF StoreInv, OverHasNoTip, SameLogin, Signed
<1>4. req'[r].pc = "respond" /\ req'[r].jti = j /\ req'[r].new = n
  BY <1>0, <1>1 DEF RefreshRotate, Goto
<1>5. KnowsInv(req[r])'
  BY <1>1, <1>2, <1>4 DEF KnowsInv, Knows, OnChain, Linked, Unexpired, Signed
<1>6. \A q \in Requests \ {r} : req'[q] = req[q]
  BY <1>1 DEF RefreshRotate, Goto
<1>7. AllKnow'
  <2>1. SameLogin(j, req[r].jti) /\ n \in Jti \cup {NilJti}
    BY <1>0, <1>1, SignedAreIds DEF SameLogin, IInv
  <2> QED
    BY <1>1, <1>2, <1>5, <1>6, <2>1, InsertKnow
<1> QED
  BY <1>0, <1>1, <1>2, <1>3, <1>7 DEF StoreInv

LEMMA SeqRespond ==
  ASSUME SInv, NEW r \in Requests, RefreshRespond(r)
  PROVE  (StoreInv /\ AllKnow)'
<1>0. PICK j \in Signed, n \in Signed : j = req[r].jti /\ n = req[r].new
  BY KnownFacts, RequestFacts DEF RefreshRespond, RequestInv, SInv
<1>1. /\ UNCHANGED <<now, claims, row, ended>> /\ out' = out \cup {n} /\ Finish(r)
      /\ j \in Jti /\ n \in Jti /\ out \subseteq Jti
      /\ SameLogin(n, j) /\ n # NilJti
      /\ Unexpired(j) => OnChain(n)
      /\ IInv /\ StoreInv
  BY <1>0, KnownFacts, RequestFacts DEF RefreshRespond, SInv, IInv, TypeOK, Knows, RequestInv
<1>2. /\ \A k \in Jti : OnChain(k)' <=> OnChain(k)
      /\ \A k \in Jti : Unexpired(k)' <=> Unexpired(k)
      /\ \A k \in Jti : Tip(k)' <=> Tip(k)
  BY <1>1, StoreStays
<1>3. Unexpired(n) => OnChain(n)
  BY <1>1, ExpireTogether
<1>4. OutOnChain'
  BY <1>1, <1>2, <1>3 DEF StoreInv, OutOnChain
<1>5. OneTip' /\ OverHasNoTip'
  BY <1>1, <1>2 DEF StoreInv, OneTip, OverHasNoTip, SameLogin, Signed
<1>6. TipReached'
  <2>1. \A k \in Jti : Chain(k)' = Chain(k)
    BY <1>1 DEF Chain, FollowsLinks, Rotated
  <2> QED
    BY <1>1, <1>2, <2>1 DEF StoreInv, TipReached, SameLogin
<1>7. AllKnow'
  BY <1>1, FinishKnows, QuietKnow
<1> QED
  BY <1>4, <1>5, <1>6, <1>7 DEF StoreInv

LEMMA SeqLogoutRevoke ==
  ASSUME OneRequestPerSession, SInv, NEW r \in Requests, LogoutRevoke(r)
  PROVE  /\ (StoreInv /\ AllKnow)'
         /\ \A k \in Jti : Tip(k)' => k # req[r].jti /\ Tip(k)
<1>0. PICK j \in Signed : j = req[r].jti
  BY KnownFacts DEF LogoutRevoke
<1>1. /\ UNCHANGED <<now, claims, out, ended>>
      /\ j \in out /\ j \in Jti /\ out \subseteq Signed
      /\ Unexpired(j) => OnChain(j)
      /\ InsertRow(j, claims[j].exp, NilJti) /\ claims[j].exp \in Nat
      /\ req \in [Requests -> ReqStates] /\ IInv /\ StoreInv
      /\ req[r].pc = "revoke"
  BY <1>0, KnownFacts, RequestFacts, SignedAreIds
  DEF LogoutRevoke, Revoke, SInv, IInv, TypeOK, Claims
<1>2. /\ (OutOnChain /\ OneTip /\ TipReached)'
      /\ row'[j].present
      /\ \A k \in Jti : OnChain(k) => OnChain(k)'
      /\ \A k \in Jti : Tip(k)' => k # j /\ (Tip(k) \/ (k = NilJti /\ Tip(j)))
  <2>1. NilJti \in Signed \cup {NilJti}
    OBVIOUS
  <2> QED
    BY <1>1, <2>1, InsertStore
<1>3. \A k \in Jti : Tip(k)' => k # j /\ Tip(k)
  BY <1>2 DEF Jti, NilJti
<1>4. OverHasNoTip'
  BY <1>1, <1>3 DEF StoreInv, OverHasNoTip, Signed
<1>5. req'[r].pc = "walk" /\ req'[r].jti = j
  BY <1>0, <1>1 DEF LogoutRevoke, Goto
<1>6. KnowsInv(req[r])'
  BY <1>1, <1>2, <1>5 DEF KnowsInv, Knows
<1>7. \A q \in Requests \ {r} : req'[q] = req[q]
  BY <1>1 DEF LogoutRevoke, Goto
<1>8. AllKnow'
  <2>1. SameLogin(j, req[r].jti)
    BY <1>0 DEF SameLogin
  <2> QED
    BY <1>1, <1>2, <1>6, <1>7, <2>1, InsertKnow
<1> QED
  BY <1>0, <1>2, <1>3, <1>4, <1>8 DEF StoreInv

\* A session that a walk finds without a live end has none.
LEMMA SeqChainWalk ==
  ASSUME SInv, NEW r \in Requests, ChainWalk(r)
  PROVE  (StoreInv /\ AllKnow)'
<1>0. PICK j \in Signed : j = req[r].jti
  BY KnownFacts DEF ChainWalk
<1>1. /\ UNCHANGED <<now, claims, row, out>>
      /\ j \in out /\ j \in Jti /\ Signed \subseteq Jti
      /\ Unexpired(j) => OnChain(j) /\ row[j].present
      /\ req \in [Requests -> ReqStates] /\ IInv /\ StoreInv
      /\ req[r].pc = "walk"
  BY <1>0, KnownFacts, RequestFacts DEF ChainWalk, SInv, IInv, TypeOK, Knows
<1>2. CASE Tips(j) = {} /\ Finish(r) /\ ended' = ended \cup {claims[j].root}
  <2>1. \A t \in Jti : Tip(t) => ~SameLogin(j, t)
    <3> SUFFICES ASSUME NEW t \in Jti, Tip(t), SameLogin(j, t) PROVE FALSE
      OBVIOUS
    <3>1. Unexpired(j)
      BY <1>1, ExpireTogether DEF Tip, OnChain
    <3> QED
      BY <1>1, <1>2, <3>1, NoTipNoSession
  <2>2. /\ \A k \in Jti : OnChain(k)' <=> OnChain(k)
        /\ \A k \in Jti : Unexpired(k)' <=> Unexpired(k)
        /\ \A k \in Jti : Tip(k)' <=> Tip(k)
    BY <1>1, StoreStays
  <2>3. OutOnChain' /\ OneTip'
    BY <1>1, <2>2, RequestFacts DEF StoreInv, OutOnChain, OneTip, SameLogin, IInv, TypeOK
  <2>4. OverHasNoTip'
    BY <1>1, <1>2, <2>1, <2>2 DEF StoreInv, OverHasNoTip, SameLogin, Signed, IInv, ClaimsInv
  <2>5. TipReached'
    <3>1. \A k \in Jti : Chain(k)' = Chain(k)
      BY <1>1 DEF Chain, FollowsLinks, Rotated
    <3> QED
      BY <1>1, <2>2, <3>1 DEF StoreInv, TipReached, SameLogin
  <2>6. AllKnow'
    BY <1>1, <1>2, FinishKnows, QuietKnow
  <2> QED
    BY <2>3, <2>4, <2>5, <2>6 DEF StoreInv
<1>3. ASSUME NEW tip \in Tips(j), UNCHANGED ended,
             req' = [req EXCEPT ![r].pc = "insertTip", ![r].target = tip]
      PROVE  (StoreInv /\ AllKnow)'
  <2>1. tip \in Signed /\ tip \in Jti /\ OnChain(tip) /\ ~row[tip].present
    BY <1>1, <1>3, TipsOfSameLogin, ChainFacts DEF Tips, OnChain, Linked, IInv
  <2>2. req'[r].pc = "insertTip" /\ req'[r].jti = j /\ req'[r].target = tip
    BY <1>0, <1>1, <1>3
  <2>3. KnowsInv(req[r])'
    BY <1>1, <2>1, <2>2 DEF KnowsInv, Knows, OnChain, Linked, Unexpired, Signed
  <2> QED
    BY <1>1, <1>3, <2>3, StoreStays, QuietKnow
<1> QED
  BY <1>0, <1>1, <1>2, <1>3 DEF ChainWalk

\* The tip that is revoked was the only one.
LEMMA SeqInsertTip ==
  ASSUME OneRequestPerSession, SInv, NEW r \in Requests, ChainInsertTip(r)
  PROVE  /\ (StoreInv /\ AllKnow)'
         /\ \A k \in Jti : Tip(k)' => k # req[r].target /\ Tip(k)
<1>0. PICK j \in Signed, t \in Signed : j = req[r].jti /\ t = req[r].target
  BY KnownFacts, RequestFacts DEF ChainInsertTip, RequestInv, SInv
<1>1. /\ UNCHANGED <<now, claims, out>> /\ Finish(r)
      /\ ended' = ended \cup {claims[j].root}
      /\ j \in Jti /\ t \in Jti /\ SameLogin(t, j)
      /\ Unexpired(j) => OnChain(t) /\ ~row[t].present
      /\ Unexpired(j) <=> Unexpired(t)
      /\ InsertRow(t, claims[t].exp, NilJti) /\ claims[t].exp \in Nat
      /\ IInv /\ StoreInv
  <2>1. /\ j \in Jti /\ t \in Jti /\ SameLogin(t, j) /\ req[r].exp = claims[j].exp
        /\ Unexpired(j) => OnChain(t) /\ ~row[t].present
        /\ claims[t].exp \in Nat /\ IInv /\ StoreInv
    BY <1>0, KnownFacts, RequestFacts, SignedAreIds
    DEF ChainInsertTip, SInv, IInv, Knows, Claims, RequestInv
  <2>2. claims[t].exp = claims[j].exp /\ (Unexpired(j) <=> Unexpired(t))
    BY <2>1, ExpireTogether
  <2> QED
    BY <1>0, <2>1, <2>2 DEF ChainInsertTip, Revoke
<1>2. /\ (OutOnChain /\ OneTip /\ TipReached)'
      /\ \A k \in Jti : Tip(k)' => k # t /\ (Tip(k) \/ (k = NilJti /\ Tip(t)))
      /\ \A k \in Jti : OnChain(k) => OnChain(k)'
  <2>1. NilJti \in Signed \cup {NilJti}
    OBVIOUS
  <2> QED
    BY <1>1, <2>1, InsertStore
<1>3. \A k \in Jti : Tip(k)' => k # t /\ Tip(k)
  BY <1>2 DEF Jti, NilJti
<1>4. \A k \in Jti : Tip(k)' => ~SameLogin(k, j)
  <2> SUFFICES ASSUME NEW k \in Jti, Tip(k)', SameLogin(k, j) PROVE FALSE
    OBVIOUS
  <2>1. Tip(k) /\ k # t /\ k \in Signed /\ Unexpired(j)
    BY <1>3, ExpireTogether, <1>1 DEF Tip, OnChain
  <2>2. Tip(t) /\ SameLogin(t, k)
    BY <1>1, <2>1 DEF Tip, SameLogin
  <2> QED
    BY <1>1, <2>1, <2>2 DEF StoreInv, OneTip
<1>5. OverHasNoTip'
  BY <1>1, <1>3, <1>4 DEF StoreInv, OverHasNoTip, Signed, SameLogin, IInv, ClaimsInv
<1>6. AllKnow'
  <2>1. SameLogin(t, req[r].jti) /\ req[r].pc # "idle"
    BY <1>0, <1>1 DEF ChainInsertTip
  <2>2. UNCHANGED <<now, claims, out>> /\ NilJti \in Jti \cup {NilJti}
    BY <1>1
  <2> QED
    BY <1>1, <1>2, <2>1, <2>2, FinishKnows, InsertKnow
<1> QED
  BY <1>0, <1>2, <1>3, <1>5, <1>6 DEF StoreInv

LEMMA SeqTick ==
  ASSUME SInv, Tick
  PROVE  (StoreInv /\ AllKnow)'
<1>1. /\ UNCHANGED <<claims, row, out, req, ended>> /\ IInv /\ StoreInv
      /\ now' \in Nat /\ now <= now'
  BY DEF Tick, SInv, IInv, TypeOK
<1>2. /\ StoreInv'
      /\ \A j \in Jti : OnChain(j)' <=> OnChain(j)
      /\ \A j \in Signed : Unexpired(j)' => Unexpired(j)
  BY <1>1, StoreAges
<1>3. ASSUME NEW r \in Requests PROVE KnowsInv(req[r])'
  <2>1. CASE req[r].pc = "idle"
    BY <1>1, <2>1 DEF KnowsInv
  <2>2. CASE req[r].pc # "idle"
    <3>1. Unexpired(req[r].jti)' => Unexpired(req[r].jti)
      BY <1>1, <1>2, <2>2, KnownFacts DEF Unexpired
    <3>2. Unexpired(req[r].jti) => Knows(req[r])'
      BY <1>1, <2>2, KnownFacts DEF Knows, OnChain, Linked, Signed
    <3> QED
      BY <1>1, <2>2, <3>1, <3>2, KnownFacts DEF KnowsInv
  <2> QED
    BY <2>1, <2>2
<1> QED
  BY <1>2, <1>3 DEF AllKnow

LEMMA SeqDeleteExpired ==
  ASSUME SInv, DeleteExpired
  PROVE  (StoreInv /\ AllKnow)'
<1>1. /\ UNCHANGED <<now, claims, out, req, ended>> /\ IInv /\ StoreInv
  BY DEF DeleteExpired, SInv
<1>2. /\ StoreInv'
      /\ \A j \in Jti : Unexpired(j) /\ OnChain(j) => OnChain(j)'
      /\ \A j \in Signed : Unexpired(j) => row'[j] = row[j]
  BY <1>1, StoreSwept
<1>3. ASSUME NEW r \in Requests PROVE KnowsInv(req[r])'
  <2>1. CASE req[r].pc = "idle"
    BY <1>1, <2>1 DEF KnowsInv
  <2>2. CASE req[r].pc # "idle" /\ ~Unexpired(req[r].jti)
    BY <1>1, <2>2, KnownFacts DEF KnowsInv, Unexpired
  <2>3. CASE req[r].pc # "idle" /\ Unexpired(req[r].jti)
    <3>1. PICK j \in Signed : j = req[r].jti
      BY <2>3, KnownFacts
    <3>2. /\ row'[j] = row[j] /\ j \in out /\ Knows(req[r])
          /\ req[r].pc = "get" => req[r].new = NilJti
      BY <1>2, <2>3, <3>1, KnownFacts
    <3>3. \A k \in Signed : SameLogin(k, j) => Unexpired(k) /\ row'[k] = row[k]
      BY <1>1, <1>2, <2>3, <3>1, ExpireTogether
    <3>4. /\ req[r].new # NilJti => req[r].new \in Signed /\ SameLogin(req[r].new, j)
          /\ req[r].pc \in {"getSuccessor", "insertTip"} =>
               req[r].target \in Signed /\ SameLogin(req[r].target, j)
      BY <1>1, <2>3, <3>1, RequestFacts DEF RequestInv
    <3>5. \A k \in Signed : SameLogin(k, j) /\ OnChain(k) => OnChain(k)'
      BY <1>1, <1>2, <3>3, SignedAreIds DEF IInv
    <3>6. req[r].pc \in {"account", "respond"} /\ req[r].new # NilJti => OnChain(req[r].new)'
      <4> SUFFICES ASSUME req[r].pc \in {"account", "respond"}, req[r].new # NilJti
                   PROVE  OnChain(req[r].new)'
        OBVIOUS
      <4>1. PICK n \in Signed : n = req[r].new
        BY <3>4
      <4>2. OnChain(n)'
        BY <3>2, <3>4, <3>5, <4>1 DEF Knows
      <4> QED
        BY <1>1, <4>1, <4>2 DEF OnChain, Linked, Signed
    <3>7. req[r].pc \in {"getSuccessor", "insertTip"} => OnChain(req[r].target)'
      <4> SUFFICES ASSUME req[r].pc \in {"getSuccessor", "insertTip"}
                   PROVE  OnChain(req[r].target)'
        OBVIOUS
      <4>1. PICK n \in Signed : n = req[r].target
        BY <3>4
      <4>2. OnChain(n)'
        BY <3>2, <3>4, <3>5, <4>1 DEF Knows
      <4> QED
        BY <1>1, <4>1, <4>2 DEF OnChain, Linked, Signed
    <3>8. req[r].pc = "insertTip" => ~row'[req[r].target].present
      BY <3>2, <3>3, <3>4 DEF Knows
    <3> QED
      BY <1>1, <3>1, <3>2, <3>6, <3>7, <3>8 DEF KnowsInv, Knows
  <2> QED
    BY <2>1, <2>2, <2>3
<1> QED
  BY <1>2, <1>3 DEF AllKnow

LEMMA SeqLogin ==
  ASSUME SInv, NEW u \in Users, Login(u)
  PROVE  (StoreInv /\ AllKnow)'
<1>0. PICK c : c = [user |-> u, exp |-> now + Lifetime, root |-> NewJti]
  OBVIOUS
<1>1. /\ UNCHANGED <<now, row, req, ended>> /\ IInv /\ StoreInv /\ CanSign
      /\ c \in Claims /\ c.root = NewJti /\ claims' = Append(claims, c)
      /\ out' = out \cup {NewJti}
      /\ req \in [Requests -> ReqStates]
  <2>1. now + Lifetime \in Nat /\ NewJti \in Jti
    BY BoundsAssumption DEF SInv, IInv, TypeOK, Login, CanSign
  <2> QED
    BY <1>0, <2>1 DEF Login, SInv, Claims, IInv, TypeOK
<1>2. /\ StoreInv'
      /\ \A j \in Signed : OnChain(j)' <=> OnChain(j)
      /\ \A j \in Signed : Unexpired(j)' <=> Unexpired(j)
  BY <1>1, StoreSigned
<1>3. ASSUME NEW r \in Requests PROVE KnowsInv(req[r])'
  <2>1. CASE req[r].pc = "idle"
    BY <1>1, <2>1 DEF KnowsInv
  <2>2. CASE req[r].pc # "idle"
    <3>1. PICK j \in Signed : j = req[r].jti
      BY <2>2, KnownFacts
    <3>2. /\ Unexpired(j)' <=> Unexpired(j)
          /\ j \in out /\ Unexpired(j) => Knows(req[r])
          /\ j \in out'
          /\ req[r].pc = "get" => req[r].new = NilJti
      BY <1>1, <1>2, <2>2, <3>1, KnownFacts
    <3>3. req[r].new # NilJti /\ OnChain(req[r].new) => OnChain(req[r].new)'
      <4> SUFFICES ASSUME req[r].new # NilJti, OnChain(req[r].new) PROVE OnChain(req[r].new)'
        OBVIOUS
      <4>1. PICK n \in Signed : n = req[r].new
        BY DEF OnChain
      <4>2. OnChain(n)'
        BY <1>2, <4>1
      <4> QED
        BY <1>1, <4>1, <4>2 DEF OnChain, Linked, Signed
    <3>4. OnChain(req[r].target) => OnChain(req[r].target)'
      <4> SUFFICES ASSUME OnChain(req[r].target) PROVE OnChain(req[r].target)'
        OBVIOUS
      <4>1. PICK n \in Signed : n = req[r].target
        BY DEF OnChain
      <4>2. OnChain(n)'
        BY <1>2, <4>1
      <4> QED
        BY <1>1, <4>1, <4>2 DEF OnChain, Linked, Signed
    <3>5. Unexpired(j) => Knows(req[r])'
      BY <1>1, <3>2, <3>3, <3>4, KnownFacts, <2>2, <3>1 DEF Knows
    <3> QED
      BY <1>1, <3>1, <3>2, <3>5 DEF KnowsInv, Unexpired
  <2> QED
    BY <2>1, <2>2
<1> QED
  BY <1>2, <1>3 DEF AllKnow

LEMMA SInitInv == Init => SInv
<1> SUFFICES ASSUME Init PROVE SInv
  OBVIOUS
<1>1. IInv
  BY InitIInv
<1>2. Signed = {} /\ out = {} /\ ended = {} /\ \A r \in Requests : req[r].pc = "idle"
  BY DEF Init, Signed, Idle
<1>3. \A j \in Jti : ~OnChain(j)
  BY <1>2 DEF OnChain
<1> QED
  BY <1>1, <1>2, <1>3
  DEF SInv, StoreInv, OutOnChain, OneTip, OverHasNoTip, TipReached, AllKnow, KnowsInv, Tip

LEMMA SeqAbort ==
  ASSUME SInv, NEW r \in Requests, Abort(r)
  PROVE  (StoreInv /\ AllKnow)'
BY SeqFinish DEF Abort

LEMMA SNextStep == OneRequestPerSession /\ SInv /\ [Next]_vars => SInv'
<1> SUFFICES ASSUME OneRequestPerSession, SInv, [Next]_vars PROVE SInv'
  OBVIOUS
<1>1. IInv'
  BY NextStep DEF SInv
<1>2. (StoreInv /\ AllKnow)'
  <2>1. CASE UNCHANGED vars
    <3>1. StoreInv'
      BY <2>1, StoreStays DEF vars, SInv
    <3>2. AllKnow'
      BY <2>1 DEF vars, SInv, AllKnow, KnowsInv, Knows, Unexpired, OnChain, Linked, Signed
    <3> QED
      BY <3>1, <3>2
  <2>2. CASE Tick
    BY <2>2, SeqTick
  <2>3. CASE DeleteExpired
    BY <2>3, SeqDeleteExpired
  <2>4. ASSUME NEW u \in Users, Login(u) PROVE (StoreInv /\ AllKnow)'
    BY <2>4, SeqLogin
  <2>5. ASSUME NEW r \in Requests, NEW j \in Jti,
               RefreshBegin(r, j) \/ \E u \in Users : LogoutBegin(r, u, j)
        PROVE  (StoreInv /\ AllKnow)'
    BY <2>5, SeqBegin
  <2>6. ASSUME NEW r \in Requests, RefreshStep(r) PROVE (StoreInv /\ AllKnow)'
    BY <2>6, SeqGet, SeqGetSuccessor, SeqSign, SeqRotate, SeqRespond DEF RefreshStep
  <2>7. ASSUME NEW r \in Requests, LogoutRevoke(r) \/ ChainStep(r) \/ Abort(r)
        PROVE  (StoreInv /\ AllKnow)'
    BY <2>7, SeqLogoutRevoke, SeqChainWalk, SeqInsertTip, SeqAbort DEF ChainStep
  <2> QED
    BY <2>1, <2>2, <2>3, <2>4, <2>5, <2>6, <2>7 DEF Next
<1> QED
  BY <1>1, <1>2 DEF SInv

-----------------------------------------------------------------------------
(* The promise: every step is one of LoginSessions, or none *)

\* The tokens of T die and nothing else happens to a token.
Dies(T) ==
  /\ Signed \subseteq Signed'
  /\ \A x \in Signed : claims'[x].root = claims[x].root
  /\ \A x \in Signed' : Live(x)' <=> (x \in Signed /\ Live(x) /\ x \notin T)
  /\ DeadTokens' = DeadTokens \cup T

LEMMA DiesKills ==
  ASSUME NEW T \in SUBSET Jti, Dies(T)
  PROVE  /\ DeadTokens' = DeadTokens \cup T
         /\ \A s \in Jti : LiveTokens(s)' = LiveTokens(s) \ T
<1>1. ASSUME NEW s \in Jti, NEW x PROVE x \in LiveTokens(s)' <=> x \in LiveTokens(s) \ T
  BY DEF Dies, LiveTokens
<1> QED
  BY <1>1 DEF Dies

LEMMA LoseStep ==
  ASSUME NEW T \in SUBSET Jti, Dies(T), UNCHANGED ended
  PROVE  Sessions!Next
<1>1. Sessions!Lose(T)
  BY DiesKills DEF Sessions!Lose, Sessions!Kill
<1> QED
  BY <1>1 DEF Sessions!Next

LEMMA EndStep ==
  ASSUME NEW T \in SUBSET Jti, Dies(T), NEW s \in Jti, ended' = ended \cup {s},
         LiveTokens(s)' = {}
  PROVE  Sessions!Next
<1>1. Sessions!End(s, T)
  BY DiesKills DEF Sessions!End, Sessions!Kill
<1> QED
  BY <1>1 DEF Sessions!Next

LEMMA HandStep ==
  ASSUME NEW s \in Jti, NEW t \in Jti, UNCHANGED <<DeadTokens, ended>>,
         s \notin ended, LiveTokens(s) = {}, t \notin DeadTokens,
         \A q \in Jti : t \notin LiveTokens(q),
         LiveTokens(s)' = {t},
         \A q \in Jti \ {s} : LiveTokens(q)' = LiveTokens(q)
  PROVE  Sessions!Next
<1>1. Sessions!Hand(s, t)
  BY DEF Sessions!Hand
<1> QED
  BY <1>1 DEF Sessions!Next

\* Nothing changes that a client or an operator could tell.
LEMMA StutterStep ==
  ASSUME Dies({}), UNCHANGED ended
  PROVE  UNCHANGED Sessions!vars
<1>1. /\ DeadTokens' = DeadTokens
      /\ \A s \in Jti : LiveTokens(s)' = LiveTokens(s)
  <2>1. PICK T \in SUBSET Jti : T = {}
    OBVIOUS
  <2>2. Dies(T)
    BY <2>1 DEF Dies
  <2>3. /\ DeadTokens' = DeadTokens \cup T
        /\ \A s \in Jti : LiveTokens(s)' = LiveTokens(s) \ T
    BY <2>2, DiesKills
  <2> QED
    BY <2>1, <2>3
<1> QED
  BY <1>1 DEF Sessions!vars

\* Live tokens are the live ends of chains that have reached a client.
LEMMA LiveIsTip ==
  ASSUME SInv, NEW j \in Signed, Live(j)
  PROVE  Tip(j) /\ j \in Jti /\ j \notin DeadTokens
BY RequestFacts, SignedAreIds
DEF SInv, StoreInv, OutOnChain, Tip, Live, Unexpired, DeadTokens, IInv, TypeOK, Claims

\* A step that leaves tokens, answers, denylist and clock alone.
LEMMA QuietSim ==
  ASSUME UNCHANGED <<now, claims, out, row, ended>>
  PROVE  UNCHANGED Sessions!vars
BY DEF Sessions!vars, LiveTokens, DeadTokens, Live, Signed

LEMMA TickSim ==
  ASSUME SInv, Tick
  PROVE  Sessions!Next
<1> DEFINE T == {x \in Signed : claims[x].exp <= now + 1}
<1>1. /\ UNCHANGED <<claims, row, out, ended>> /\ now' = now + 1 /\ now \in Nat
      /\ Signed \subseteq Jti /\ \A x \in Signed : claims[x].exp \in Nat
      /\ Signed' = Signed
  BY SignedAreIds DEF Tick, SInv, IInv, TypeOK, Claims, Signed
<1>2. \A x \in Signed : Live(x)' <=> Live(x) /\ x \notin T
  BY <1>1 DEF Live
<1>3. DeadTokens' = DeadTokens \cup T
  BY <1>1 DEF DeadTokens
<1>4. Dies(T) /\ T \in SUBSET Jti
  BY <1>1, <1>2, <1>3 DEF Dies
<1> HIDE DEF T
<1> QED
  BY <1>1, <1>4, LoseStep

LEMMA DeleteExpiredSim ==
  ASSUME SInv, DeleteExpired
  PROVE  UNCHANGED Sessions!vars
<1>1. /\ UNCHANGED <<now, claims, out, ended>> /\ now \in Nat
      /\ \A x \in Signed : x \in Jti /\ claims[x].exp \in Nat
      /\ \A x \in Signed : row[x].present => row[x].exp = claims[x].exp
      /\ Signed' = Signed
      /\ \A x \in Jti : row'[x] = row[x] \/ (row[x].present /\ row[x].exp <= now /\ ~row'[x].present)
  BY SignedAreIds DEF DeleteExpired, SInv, IInv, TypeOK, Claims, RowInv, Signed, NoRow
<1>2. \A x \in Signed : Live(x)' <=> Live(x)
  BY <1>1 DEF Live
<1>3. DeadTokens' = DeadTokens
  BY <1>1 DEF DeadTokens
<1>4. Dies({})
  BY <1>1, <1>2, <1>3 DEF Dies
<1> QED
  BY <1>1, <1>4, StutterStep

\* A login hands out the first token of a new session.
LEMMA LoginSim ==
  ASSUME SInv, NEW u \in Users, Login(u)
  PROVE  Sessions!Next
<1>0. PICK n \in Jti, c \in Claims :
         n = NewJti /\ c = [user |-> u, exp |-> now + Lifetime, root |-> NewJti]
  BY BoundsAssumption DEF Login, CanSign, SInv, IInv, TypeOK, Claims
<1>1. /\ UNCHANGED <<now, row, ended>> /\ out' = out \cup {n} /\ c.root = n /\ now < c.exp
      /\ Signed' = Signed \cup {n} /\ n \notin Signed
      /\ \A k \in Signed : claims'[k] = claims[k] /\ claims[k].root # n
      /\ claims'[n] = c
      /\ out \subseteq Signed /\ ended \subseteq Signed
      /\ ~row[n].present /\ now \in Nat /\ c.exp \in Nat
  <2>1. /\ UNCHANGED <<now, row, ended>> /\ out' = out \cup {n} /\ claims' = Append(claims, c)
        /\ CanSign /\ n = NewJti
    BY <1>0 DEF Login
  <2>2. c.root = n /\ c.exp = now + Lifetime /\ now \in Nat /\ Lifetime \in Nat \ {0}
    BY <1>0, BoundsAssumption DEF SInv, IInv, TypeOK
  <2>3. /\ Signed' = Signed \cup {n} /\ n \notin Signed
        /\ \A k \in Signed : claims'[k] = claims[k]
        /\ claims'[n] = c
    BY <2>1, SignEffect DEF SInv, IInv
  <2>4. /\ \A k \in Signed : claims[k].root # n
        /\ out \subseteq Signed /\ ended \subseteq Signed /\ ~row[n].present
    BY <2>3 DEF SInv, IInv, TypeOK, StoreInv, OverHasNoTip, RowInv, ClaimsInv
  <2>5. c.root = n /\ now < c.exp /\ now \in Nat /\ c.exp \in Nat
    BY <2>2
  <2> QED
    BY <2>1, <2>3, <2>4, <2>5
<1>2. Live(n)' /\ \A x \in Signed : Live(x)' <=> Live(x)
  BY <1>1 DEF Live
<1>3. DeadTokens' = DeadTokens /\ n \notin DeadTokens
  BY <1>1 DEF DeadTokens
<1>4. /\ LiveTokens(n) = {} /\ LiveTokens(n)' = {n}
      /\ \A q \in Jti : n \notin LiveTokens(q)
      /\ \A q \in Jti \ {n} : LiveTokens(q)' = LiveTokens(q)
  <2>1. ASSUME NEW q \in Jti, NEW x
        PROVE  x \in LiveTokens(q)' <=> x \in LiveTokens(q) \/ (x = n /\ q = n)
    BY <1>1, <1>2 DEF LiveTokens
  <2>2. \A q \in Jti : n \notin LiveTokens(q)
    BY <1>1 DEF LiveTokens
  <2>3. LiveTokens(n) = {}
    BY <1>1 DEF LiveTokens
  <2>4. LiveTokens(n)' = {n}
    BY <2>1, <2>3
  <2> QED
    BY <2>1, <2>2, <2>3, <2>4
<1> QED
  BY <1>1, <1>3, <1>4, HandStep

\* A signature hands out nothing: at most the token expires before it is used.
LEMMA SignSim ==
  ASSUME SInv, NEW r \in Requests, RefreshSign(r)
  PROVE  Sessions!Next \/ UNCHANGED Sessions!vars
<1>1. CASE UNCHANGED claims
  BY <1>1, QuietSim DEF RefreshSign
<1>2. CASE SignSuccessor(r)
  <2>0. PICK n \in Jti, c \in Claims : n = NewJti /\ claims' = Append(claims, c)
    <3>1. req[r].jti \in Signed /\ req[r].exp = claims[req[r].jti].exp /\ claims[req[r].jti] \in Claims
      BY KnownFacts, SignedAreIds DEF RefreshSign, SInv, IInv
    <3> QED
      BY <1>2, <3>1 DEF SignSuccessor, CanSign, Claims
  <2>1. /\ UNCHANGED <<now, row, out, ended>>
        /\ Signed' = Signed \cup {n} /\ n \notin Signed
        /\ \A k \in Signed : claims'[k] = claims[k]
        /\ out \subseteq Signed
        /\ ~row[n].present
    BY <1>2, <2>0, SignEffect DEF RefreshSign, SignSuccessor, SInv, IInv, TypeOK, RowInv
  <2>2. \A x \in Signed' : Live(x)' <=> x \in Signed /\ Live(x)
    BY <2>1 DEF Live
  <2> DEFINE T == {x \in {n} : claims'[n].exp <= now}
  <2>3. DeadTokens' = DeadTokens \cup T
    BY <2>1 DEF DeadTokens
  <2>4. PICK D \in SUBSET Jti : D = T
    OBVIOUS
  <2>5. D \subseteq {n} /\ n \notin Signed
    BY <2>1, <2>4
  <2>6. Dies(D)
    BY <2>1, <2>2, <2>3, <2>4, <2>5 DEF Dies
  <2> QED
    BY <2>1, <2>6, LoseStep
<1> QED
  BY <1>1, <1>2 DEF RefreshSign

\* A row that is added kills the token it names.
LEMMA InsertDies ==
  ASSUME IInv, UNCHANGED <<now, claims, out>>,
         NEW j \in Signed, NEW n \in Jti \cup {NilJti}, NEW e \in Nat,
         InsertRow(j, e, n)
  PROVE  Dies({j})
<1>1. /\ Signed' = Signed /\ j \in Jti /\ Signed \subseteq Jti
      /\ row'[j].present
      /\ \A k \in Jti : k # j => row'[k] = row[k]
  BY SignedAreIds DEF InsertRow, IInv, TypeOK, Rows, Signed
<1>2. \A x \in Signed : Live(x)' <=> Live(x) /\ x # j
  BY <1>1 DEF Live
<1>3. DeadTokens' = DeadTokens \cup {j}
  BY <1>1 DEF DeadTokens
<1> QED
  BY <1>1, <1>2, <1>3 DEF Dies

LEMMA RotateSim ==
  ASSUME SInv, NEW r \in Requests, RefreshRotate(r)
  PROVE  Sessions!Next
<1>0. PICK j \in Signed, n \in Jti : j = req[r].jti /\ n = req[r].new
  BY KnownFacts, RequestFacts DEF RefreshRotate, RequestInv, SInv
<1>1. /\ UNCHANGED <<now, claims, out, ended>> /\ IInv /\ j \in Jti
      /\ InsertRow(j, claims[j].exp, n) /\ claims[j].exp \in Nat
  BY <1>0, KnownFacts, SignedAreIds DEF RefreshRotate, Rotate, SInv, IInv, Claims
<1>2. Dies({j})
  BY <1>1, InsertDies
<1> QED
  BY <1>1, <1>2, LoseStep

LEMMA LogoutRevokeSim ==
  ASSUME SInv, NEW r \in Requests, LogoutRevoke(r)
  PROVE  Sessions!Next
<1>0. PICK j \in Signed : j = req[r].jti
  BY KnownFacts DEF LogoutRevoke
<1>1. /\ UNCHANGED <<now, claims, out, ended>> /\ IInv /\ j \in Jti
      /\ InsertRow(j, claims[j].exp, NilJti) /\ claims[j].exp \in Nat
  BY <1>0, KnownFacts, SignedAreIds DEF LogoutRevoke, Revoke, SInv, IInv, Claims
<1>2. Dies({j})
  BY <1>1, InsertDies
<1> QED
  BY <1>1, <1>2, LoseStep

\* An answer hands a token over, or repeats one that was handed over before, or
\* carries one that is dead already.
LEMMA RespondSim ==
  ASSUME SInv, NEW r \in Requests, RefreshRespond(r)
  PROVE  Sessions!Next \/ UNCHANGED Sessions!vars
<1>0. PICK j \in Signed, n \in Signed : j = req[r].jti /\ n = req[r].new
  BY KnownFacts, RequestFacts DEF RefreshRespond, RequestInv, SInv
<1>1. /\ UNCHANGED <<now, claims, row, ended>> /\ out' = out \cup {n}
      /\ n \in Jti /\ Signed' = Signed /\ Signed \subseteq Jti
      /\ Unexpired(n) => OnChain(n)
      /\ claims[n].root \in Jti /\ claims[n].exp \in Nat /\ now \in Nat
  <2>1. /\ n \in Jti /\ SameLogin(n, j) /\ n # NilJti
        /\ Unexpired(j) => OnChain(n)
        /\ claims[n].root \in Jti /\ claims[n].exp \in Nat /\ now \in Nat
        /\ Signed \subseteq Jti /\ IInv
    BY <1>0, KnownFacts, RequestFacts, SignedAreIds
    DEF RefreshRespond, SInv, Knows, RequestInv, IInv, Claims
  <2> QED
    BY <1>0, <2>1, ExpireTogether DEF RefreshRespond, Signed
<1>2. DeadTokens' = DeadTokens
  BY <1>1 DEF DeadTokens
<1>3. \A x \in Signed : Live(x)' <=> Live(x) \/ (x = n /\ Unexpired(n) /\ ~row[n].present)
  BY <1>1 DEF Live, Unexpired
<1>4. CASE Live(n) \/ ~Unexpired(n) \/ row[n].present
  <2>1. \A x \in Signed : Live(x)' <=> Live(x)
    BY <1>3, <1>4 DEF Live, Unexpired
  <2>2. Dies({})
    BY <1>1, <1>2, <2>1 DEF Dies
  <2> QED
    BY <1>1, <2>2, StutterStep
<1>5. CASE ~Live(n) /\ Unexpired(n) /\ ~row[n].present
  <2>1. PICK s \in Jti : s = claims[n].root
    BY <1>1
  <2>2. Tip(n)
    BY <1>1, <1>5 DEF Tip
  <2>3. s \notin ended /\ n \notin DeadTokens
    BY <1>1, <1>5, <2>1, <2>2 DEF SInv, StoreInv, OverHasNoTip, DeadTokens, Unexpired
  <2>4. LiveTokens(s) = {}
    <3> SUFFICES ASSUME NEW x \in Signed, Live(x), claims[x].root = s PROVE FALSE
      BY DEF LiveTokens
    <3>1. Tip(x) /\ x \in Jti /\ SameLogin(x, n)
      BY <2>1, LiveIsTip DEF SameLogin
    <3> QED
      BY <1>1, <1>5, <2>2, <3>1 DEF SInv, StoreInv, OneTip
  <2>5. \A q \in Jti : n \notin LiveTokens(q)
    BY <1>5 DEF LiveTokens
  <2>6. ASSUME NEW q \in Jti, NEW x
        PROVE  x \in LiveTokens(q)' <=> x \in LiveTokens(q) \/ (x = n /\ q = s)
    BY <1>1, <1>3, <1>5, <2>1 DEF LiveTokens
  <2>7. LiveTokens(s)' = {n} /\ \A q \in Jti \ {s} : LiveTokens(q)' = LiveTokens(q)
    <3>1. LiveTokens(s)' = {n}
      BY <2>4, <2>6
    <3>2. ASSUME NEW q \in Jti \ {s} PROVE LiveTokens(q)' = LiveTokens(q)
      BY <2>6
    <3> QED
      BY <3>1, <3>2
  <2> QED
    BY <1>1, <1>2, <2>3, <2>4, <2>5, <2>7, HandStep
<1> QED
  BY <1>4, <1>5

\* Nothing is live of a session that a step leaves ended.
LEMMA OverIsDead ==
  ASSUME SInv', NEW s \in Jti, s \in ended'
  PROVE  LiveTokens(s)' = {}
<1> SUFFICES ASSUME NEW x \in Signed', Live(x)', claims'[x].root = s PROVE FALSE
  BY DEF LiveTokens
<1>1. x \in Jti
  BY BoundsAssumption DEF SInv, IInv, TypeOK, Signed, Jti
<1>2. Tip(x)'
  BY DEF SInv, StoreInv, OutOnChain, Tip, Live, Unexpired
<1> QED
  BY <1>1, <1>2 DEF SInv, StoreInv, OverHasNoTip

LEMMA ChainWalkSim ==
  ASSUME SInv, SInv', NEW r \in Requests, ChainWalk(r)
  PROVE  Sessions!Next \/ UNCHANGED Sessions!vars
<1>0. PICK j \in Signed : j = req[r].jti
  BY KnownFacts DEF ChainWalk
<1>1. UNCHANGED <<now, claims, row, out>> /\ Signed \subseteq Jti /\ Signed' = Signed
  BY SignedAreIds DEF ChainWalk, SInv, IInv, Signed
<1>2. CASE UNCHANGED ended
  BY <1>1, <1>2, QuietSim
<1>3. CASE ended' = ended \cup {claims[j].root}
  <2>1. PICK s \in Jti, T \in SUBSET Jti : s = claims[j].root /\ T = {}
    BY <1>1 DEF SInv, IInv, ClaimsInv
  <2>2. Dies(T)
    <3>1. \A x \in Signed : Live(x)' <=> Live(x)
      BY <1>1 DEF Live
    <3>2. DeadTokens' = DeadTokens
      BY <1>1 DEF DeadTokens
    <3> QED
      BY <1>1, <2>1, <3>1, <3>2 DEF Dies
  <2>3. ended' = ended \cup {s}
    BY <1>3, <2>1
  <2>4. LiveTokens(s)' = {}
    BY <2>3, OverIsDead
  <2> QED
    BY <2>2, <2>3, <2>4, EndStep
<1> QED
  BY <1>0, <1>2, <1>3 DEF ChainWalk

LEMMA InsertTipSim ==
  ASSUME SInv, SInv', NEW r \in Requests, ChainInsertTip(r)
  PROVE  Sessions!Next
<1>0. PICK j \in Signed, t \in Signed : j = req[r].jti /\ t = req[r].target
  BY KnownFacts, RequestFacts DEF ChainInsertTip, RequestInv, SInv
<1>1. /\ UNCHANGED <<now, claims, out>> /\ IInv /\ t \in Jti
      /\ InsertRow(t, claims[t].exp, NilJti) /\ claims[t].exp \in Nat
      /\ ended' = ended \cup {claims[j].root}
  <2>1. /\ t \in Jti /\ SameLogin(t, j) /\ req[r].exp = claims[j].exp
        /\ claims[t].exp \in Nat /\ IInv
    BY <1>0, KnownFacts, RequestFacts, SignedAreIds
    DEF ChainInsertTip, SInv, IInv, Claims, RequestInv
  <2> QED
    BY <1>0, <2>1, ExpireTogether DEF ChainInsertTip, Revoke
<1>2. Dies({t})
  BY <1>1, InsertDies
<1>3. PICK s \in Jti : s = claims[j].root
  BY SignedAreIds DEF SInv, IInv, ClaimsInv
<1>4. LiveTokens(s)' = {}
  BY <1>1, <1>3, OverIsDead
<1> QED
  BY <1>1, <1>2, <1>3, <1>4, EndStep

LEMMA SimulationStep ==
  ASSUME SInv, SInv', [Next]_vars
  PROVE  Sessions!Next \/ UNCHANGED Sessions!vars
<1>1. CASE UNCHANGED vars
  BY <1>1, QuietSim DEF vars
<1>2. CASE Tick
  BY <1>2, TickSim
<1>3. CASE DeleteExpired
  BY <1>3, DeleteExpiredSim
<1>4. ASSUME NEW u \in Users, Login(u) PROVE Sessions!Next
  BY <1>4, LoginSim
<1>5. ASSUME NEW r \in Requests, NEW j \in Jti,
             RefreshBegin(r, j) \/ \E u \in Users : LogoutBegin(r, u, j)
      PROVE  UNCHANGED Sessions!vars
  BY <1>5, QuietSim DEF RefreshBegin, LogoutBegin
<1>6. ASSUME NEW r \in Requests, RefreshStep(r)
      PROVE  Sessions!Next \/ UNCHANGED Sessions!vars
  <2>1. CASE RefreshGet(r) \/ RefreshGetSuccessor(r)
    BY <2>1, QuietSim DEF RefreshGet, RefreshGetSuccessor
  <2> QED
    BY <1>6, <2>1, SignSim, RotateSim, RespondSim DEF RefreshStep
<1>7. ASSUME NEW r \in Requests, LogoutRevoke(r) \/ ChainStep(r) \/ Abort(r)
      PROVE  Sessions!Next \/ UNCHANGED Sessions!vars
  <2>1. CASE Abort(r)
    BY <2>1, QuietSim DEF Abort
  <2> QED
    BY <1>7, <2>1, LogoutRevokeSim, ChainWalkSim, InsertTipSim DEF ChainStep
<1> QED
  BY <1>1, <1>2, <1>3, <1>4, <1>5, <1>6, <1>7 DEF Next

LEMMA SimulationInit == Init => Sessions!Init
BY DEF Init, Sessions!Init, LiveTokens, DeadTokens, Signed

\* A session has one request at a time, and what that rests on.
LEMMA SequentialInv == SequentialSpec => [](SInv /\ OneRequestPerSession)
<1>1. Init => SInv /\ OneRequestPerSession
  BY SInitInv DEF Init, OneRequestPerSession, Idle
<1>2. SInv /\ OneRequestPerSession /\ [Next /\ OneRequestPerSession']_vars =>
        (SInv /\ OneRequestPerSession)'
  <2> SUFFICES ASSUME SInv, OneRequestPerSession, [Next /\ OneRequestPerSession']_vars
               PROVE  (SInv /\ OneRequestPerSession)'
    OBVIOUS
  <2>1. SInv'
    BY SNextStep
  <2>2. UNCHANGED vars => OneRequestPerSession'
    BY DEF vars, OneRequestPerSession
  <2> QED
    BY <2>1, <2>2
<1> QED
  BY <1>1, <1>2, PTL DEF SequentialSpec

\* While the requests of a session do not overlap, rotation, grace window, replay
\* detection, logout and sweep implement sessions with one token at a time, for
\* any number of accounts, sessions and requests served at once, tokens and
\* instants.
THEOREM SequentialSessions == SequentialSpec => SessionsAreSingleUse
<1>1. SInv /\ SInv' /\ [Next /\ OneRequestPerSession']_vars =>
        [Sessions!Next]_(Sessions!vars)
  BY SimulationStep
<1> QED
  BY <1>1, SimulationInit, SequentialInv, PTL
  DEF SequentialSpec, SessionsAreSingleUse, Sessions!Spec

\* ... so a session never has two live tokens,
THEOREM OneLiveToken == SequentialSpec => []AtMostOneLiveToken
<1>1. SInv => AtMostOneLiveToken
  <2> SUFFICES ASSUME SInv, NEW i \in Signed, NEW j \in Signed, Live(i), Live(j),
                      claims[i].root = claims[j].root
               PROVE  i = j
    BY DEF AtMostOneLiveToken
  <2>1. Tip(i) /\ Tip(j) /\ i \in Jti /\ j \in Jti
    BY LiveIsTip
  <2> QED
    BY <2>1 DEF SInv, StoreInv, OneTip, SameLogin
<1> QED
  BY <1>1, SequentialInv, PTL

\* ... and a logout that answered, or a replay that was detected, leaves none.
THEOREM LogoutEndsSession == SequentialSpec => []EndedSessionIsOver
<1>1. SInv => EndedSessionIsOver
  <2> SUFFICES ASSUME SInv, NEW j \in Signed, Live(j) PROVE claims[j].root \notin ended
    BY DEF EndedSessionIsOver
  <2> QED
    BY LiveIsTip DEF SInv, StoreInv, OverHasNoTip
<1> QED
  BY <1>1, SequentialInv, PTL
=============================================================================
