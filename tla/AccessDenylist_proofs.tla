------------------------ MODULE AccessDenylist_proofs ------------------------
(* What AccessDenylist guarantees for any replicas, handlers, tokens and      *)
(* faults, as long as the database's clock does not run ahead: a row that the *)
(* sweep deletes, or that a reload leaves out, is then of a token that no     *)
(* replica would accept anyway.                                               *)
EXTENDS AccessDenylist, TLAPS

StoreNotAhead == Skew <= 0

\* A revocation the store has, for as long as it matters.
Recorded(t) == Expired(t) \/ t \in row

\* Replica r refuses t, and whatever its Reload is about to store keeps it so.
Holds(r, t) ==
    /\ status[r] = "serving" => t \in remote[r] \/ t \in local[r]
    /\ reload[r].at = "read" => t \in reload[r].jtis \/ t \in local[r]
    /\ reload[r].at = "prune" => t \in remote[r] \/ t \in local[r]

Refused(r, t) == Expired(t) \/ (t \in row /\ Holds(r, t))

AddsAreRecorded ==
    \A r \in Replicas, h \in Handlers :
        logout[r][h].at = "add" => \A t \in logout[r][h].tokens : Recorded(t)

AnswersHold ==
    \A r \in Replicas, h \in Handlers :
        logout[r][h].at = "answer" => \A t \in logout[r][h].tokens : Refused(r, t)

AnsweredHold ==
    \A r \in Replicas : \A t \in answered[r] : Refused(r, t)

Inv ==
    /\ TypeOK
    /\ LocalIsRecorded
    /\ AddsAreRecorded
    /\ AnswersHold
    /\ AnsweredHold

-----------------------------------------------------------------------------
(* Every action, one name.                                                    *)

ReplicaStep(r) ==
    \/ Start(r) \/ Tick(r) \/ StoreRemote(r) \/ PruneLocal(r) \/ FailReload(r) \/ Crash(r)

HandlerStep(r, h) ==
    \/ \E t \in Tokens : LogoutBegin(r, h, t)
    \/ RevokeRow(r, h) \/ RevokeRowFails(r, h) \/ Add(r, h) \/ LogoutAnswer(r, h)

LEMMA NextSteps ==
    ASSUME Next
    PROVE  \/ \E r \in Replicas : ReplicaStep(r)
           \/ \E r \in Replicas, h \in Handlers : HandlerStep(r, h)
           \/ DeleteExpired
           \/ TimePasses
BY Zenon DEF Next, ReplicaStep, HandlerStep

LEMMA SetLogoutType ==
    ASSUME TypeOK, NEW r \in Replicas, NEW h \in Handlers,
           NEW at \in {"idle", "revoke", "add", "answer"}, NEW tokens \in SUBSET Tokens,
           SetLogout(r, h, at, tokens)
    PROVE  logout' \in [Replicas -> [Handlers -> Logouts]]
<1>1. [at |-> at, tokens |-> tokens] \in Logouts
  BY DEF Logouts
<1>2. logout \in [Replicas -> [Handlers -> Logouts]]
  BY DEF TypeOK
<1> QED
  BY <1>1, <1>2, Zenon DEF SetLogout

\* A replica's own step leaves it at a stage of its life, and the others alone.
LEMMA ReplicaStages ==
    ASSUME TypeOK, NEW r \in Replicas, ReplicaStep(r)
    PROVE  StagesOK'
<1>1. /\ reload \in [Replicas -> Reloads] /\ logout \in [Replicas -> [Handlers -> Logouts]]
      /\ status \in [Replicas -> {"down", "starting", "serving"}]
      /\ StagesOK
  BY DEF TypeOK
<1>2. NoReload.at = "idle"
  BY DEF NoReload
<1>3. CASE Start(r) \/ Tick(r)
  BY <1>1, <1>3 DEF StagesOK, Start, Tick, ReadUnexpired
<1>4. CASE StoreRemote(r)
  BY <1>1, <1>2, <1>4 DEF StagesOK, StoreRemote
<1>5. CASE PruneLocal(r) \/ FailReload(r)
  BY <1>1, <1>2, <1>5 DEF StagesOK, PruneLocal, FailReload
<1>6. CASE Crash(r)
  <2>1. /\ \A q \in Replicas :
             q # r => UNCHANGED <<status[q], reload[q], logout[q]>>
        /\ status'[r] = "down" /\ reload'[r] = NoReload
        /\ \A h \in Handlers : logout'[r][h] = NoLogout
    BY <1>1, <1>6 DEF Crash
  <2> QED
    BY <1>1, <2>1 DEF StagesOK
<1> QED
  BY <1>3, <1>4, <1>5, <1>6 DEF ReplicaStep

\* Only a serving replica has a logout to go on with.
LEMMA HandlerStages ==
    ASSUME TypeOK, NEW r \in Replicas, NEW h \in Handlers, HandlerStep(r, h)
    PROVE  StagesOK'
<1>1. logout \in [Replicas -> [Handlers -> Logouts]] /\ StagesOK
  BY DEF TypeOK
<1>2. status[r] = "serving"
  <2>1. CASE \E t \in Tokens : LogoutBegin(r, h, t)
    BY <2>1 DEF LogoutBegin, Accepts
  <2>2. CASE ~\E t \in Tokens : LogoutBegin(r, h, t)
    <3>1. logout[r][h].at # "idle"
      BY <2>2 DEF HandlerStep, RevokeRow, RevokeRowFails, Add, LogoutAnswer
    <3>2. logout[r][h] # NoLogout
      BY <3>1 DEF NoLogout
    <3> QED
      BY <1>1, <3>2 DEF StagesOK
  <2> QED
    BY <2>1, <2>2
<1>3. UNCHANGED <<status, reload>>
      /\ \A q \in Replicas : q # r => logout'[q] = logout[q]
  BY <1>1 DEF HandlerStep, LogoutBegin, RevokeRow, RevokeRowFails, Add, LogoutAnswer, SetLogout
<1> QED
  BY <1>1, <1>2, <1>3 DEF StagesOK

LEMMA ReplicaStepType ==
    ASSUME TypeOK, NEW r \in Replicas, ReplicaStep(r)
    PROVE  TypeOK'
<1>0. StagesOK'
  BY ReplicaStages
<1>1. reload \in [Replicas -> Reloads] /\ logout \in [Replicas -> [Handlers -> Logouts]]
  BY DEF TypeOK
<1>2. reload[r].jtis \in SUBSET Tokens
  BY <1>1 DEF Reloads
<1>3. NoReload \in Reloads /\ [at |-> "read", jtis |-> Unexpired] \in Reloads
      /\ [at |-> "prune", jtis |-> {}] \in Reloads
  BY DEF NoReload, Reloads, Unexpired, TypeOK
<1>4. NoLogout \in Logouts
  BY DEF NoLogout, Logouts
<1>5. CASE Start(r)
  BY <1>0, <1>1, <1>3, <1>5 DEF TypeOK, Start, ReadUnexpired
<1>6. CASE Tick(r)
  BY <1>0, <1>1, <1>3, <1>6 DEF TypeOK, Tick, ReadUnexpired
<1>7. CASE StoreRemote(r)
  BY <1>0, <1>1, <1>2, <1>3, <1>7 DEF TypeOK, StoreRemote
<1>8. CASE PruneLocal(r)
  BY <1>0, <1>1, <1>3, <1>8 DEF TypeOK, PruneLocal
<1>9. CASE FailReload(r)
  BY <1>0, <1>1, <1>3, <1>9 DEF TypeOK, FailReload
<1>10. CASE Crash(r)
  BY <1>0, <1>1, <1>3, <1>4, <1>10 DEF TypeOK, Crash
<1> QED
  BY <1>5, <1>6, <1>7, <1>8, <1>9, <1>10 DEF ReplicaStep

LEMMA HandlerStepType ==
    ASSUME TypeOK, NEW r \in Replicas, NEW h \in Handlers, HandlerStep(r, h)
    PROVE  TypeOK'
<1>0. StagesOK'
  BY HandlerStages
<1>1. logout[r][h].tokens \in SUBSET Tokens
  <2>1. logout[r][h] \in Logouts
    BY DEF TypeOK
  <2> QED
    BY <2>1 DEF Logouts
<1>2. ASSUME NEW at \in {"idle", "revoke", "add", "answer"}, NEW tokens \in SUBSET Tokens,
             SetLogout(r, h, at, tokens)
      PROVE  logout' \in [Replicas -> [Handlers -> Logouts]]
  BY <1>2, SetLogoutType
<1>3. CASE \E t \in Tokens : LogoutBegin(r, h, t)
  BY <1>0, <1>2, <1>3 DEF TypeOK, LogoutBegin
<1>4. CASE RevokeRow(r, h)
  BY <1>0, <1>1, <1>2, <1>4 DEF TypeOK, RevokeRow
<1>5. CASE RevokeRowFails(r, h)
  BY <1>0, <1>1, <1>2, <1>5 DEF TypeOK, RevokeRowFails
<1>6. CASE Add(r, h)
  BY <1>0, <1>1, <1>2, <1>6 DEF TypeOK, Add
<1>7. CASE LogoutAnswer(r, h)
  BY <1>0, <1>1, <1>2, <1>7 DEF TypeOK, LogoutAnswer
<1> QED
  BY <1>3, <1>4, <1>5, <1>6, <1>7 DEF HandlerStep

LEMMA StepType ==
    ASSUME TypeOK, [Next]_vars
    PROVE  TypeOK'
<1>1. CASE DeleteExpired
  BY <1>1 DEF TypeOK, StagesOK, DeleteExpired, Unexpired
<1>2. CASE TimePasses
  BY <1>2, DenylistAssumption DEF TypeOK, StagesOK, TimePasses
<1>3. CASE UNCHANGED vars
  BY <1>3 DEF TypeOK, StagesOK, vars
<1> QED
  BY <1>1, <1>2, <1>3, NextSteps, ReplicaStepType, HandlerStepType

LEMMA InitType == ASSUME Init PROVE TypeOK
<1>1. NoReload \in Reloads /\ NoLogout \in Logouts
  BY DEF NoReload, Reloads, NoLogout, Logouts
<1> QED
  BY <1>1, DenylistAssumption DEF Init, TypeOK, StagesOK

-----------------------------------------------------------------------------
(* A recorded revocation stays recorded, a refused token stays refused.       *)

\* DeleteExpired removes rows, and only of tokens that are expired for the
\* replicas as well.
LEMMA RecordedStays ==
    ASSUME StoreNotAhead, TypeOK, [Next]_vars, NEW t \in Tokens, Recorded(t)
    PROVE  Recorded(t)'
<1>1. Exp[t] \in Nat /\ now \in Nat /\ Skew \in Int
  BY DenylistAssumption DEF TypeOK
<1>2. CASE DeleteExpired
  <2>1. ExpiredInStore(t) => Expired(t)
    BY <1>1 DEF ExpiredInStore, Expired, StoreNotAhead
  <2> QED
    BY <1>2, <2>1 DEF Recorded, DeleteExpired, Unexpired, Expired
<1>3. CASE TimePasses
  BY <1>1, <1>3 DEF Recorded, TimePasses, Expired
<1>4. CASE UNCHANGED vars
  BY <1>4 DEF Recorded, vars, Expired
<1>5. CASE \E r \in Replicas : ReplicaStep(r)
  BY <1>5 DEF ReplicaStep, Start, Tick, StoreRemote, PruneLocal, FailReload, Crash, Recorded, Expired
<1>6. CASE \E r \in Replicas, h \in Handlers : HandlerStep(r, h)
  BY <1>6 DEF HandlerStep, LogoutBegin, RevokeRow, RevokeRowFails, Add, LogoutAnswer, Recorded, Expired
<1> QED
  BY <1>2, <1>3, <1>4, <1>5, <1>6, NextSteps

\* A replica's own reload never lets go of a token it refuses.
LEMMA ReplicaKeepsHolding ==
    ASSUME StoreNotAhead, TypeOK, NEW q \in Replicas, ReplicaStep(q),
           NEW r \in Replicas, NEW t \in Tokens, t \in row, ~Expired(t), Holds(r, t)
    PROVE  Holds(r, t)'
<1> USE DEF Holds
<1>1. reload \in [Replicas -> Reloads] /\ remote \in [Replicas -> SUBSET Tokens]
      /\ local \in [Replicas -> SUBSET Tokens]
      /\ status \in [Replicas -> {"down", "starting", "serving"}]
  BY DEF TypeOK
<1>2. t \in Unexpired
  <2>1. Exp[t] \in Nat /\ now \in Nat /\ Skew \in Int
    BY DenylistAssumption DEF TypeOK
  <2> QED
    BY <2>1 DEF Unexpired, ExpiredInStore, Expired, StoreNotAhead
<1>3. CASE Start(q)
  BY <1>1, <1>2, <1>3 DEF Start, ReadUnexpired
<1>4. CASE Tick(q)
  BY <1>1, <1>2, <1>4 DEF Tick, ReadUnexpired
<1>5. CASE StoreRemote(q)
  BY <1>1, <1>5 DEF StoreRemote
<1>6. CASE PruneLocal(q)
  BY <1>1, <1>6 DEF PruneLocal, NoReload
<1>7. CASE FailReload(q)
  BY <1>1, <1>7 DEF FailReload, NoReload
<1>8. CASE Crash(q)
  BY <1>1, <1>8 DEF Crash, NoReload
<1> QED
  BY <1>3, <1>4, <1>5, <1>6, <1>7, <1>8 DEF ReplicaStep

LEMMA HandlerKeepsHolding ==
    ASSUME TypeOK, NEW q \in Replicas, NEW h \in Handlers, HandlerStep(q, h),
           NEW r \in Replicas, NEW t \in Tokens, Holds(r, t)
    PROVE  Holds(r, t)'
<1> USE DEF Holds
<1>1. local \in [Replicas -> SUBSET Tokens]
  BY DEF TypeOK
<1>2. CASE Add(q, h)
  BY <1>1, <1>2 DEF Add
<1>3. CASE UNCHANGED <<status, remote, local, reload>>
  BY <1>3
<1> QED
  BY <1>2, <1>3 DEF HandlerStep, LogoutBegin, RevokeRow, RevokeRowFails, LogoutAnswer

LEMMA ExpiredStays ==
    ASSUME TypeOK, [Next]_vars, NEW t \in Tokens, Expired(t)
    PROVE  Expired(t)'
<1>1. now \in Nat /\ Exp[t] \in Nat
  BY DenylistAssumption DEF TypeOK
<1>2. now' = now \/ now' = now + 1
  BY NextSteps DEF vars, ReplicaStep, HandlerStep, Start, Tick, StoreRemote, PruneLocal,
     FailReload, Crash, LogoutBegin, RevokeRow, RevokeRowFails, Add, LogoutAnswer,
     DeleteExpired, TimePasses
<1> QED
  BY <1>1, <1>2 DEF Expired

LEMMA RefusedStays ==
    ASSUME StoreNotAhead, TypeOK, [Next]_vars,
           NEW r \in Replicas, NEW t \in Tokens, Refused(r, t)
    PROVE  Refused(r, t)'
<1>1. Recorded(t)'
  BY RecordedStays DEF Refused, Recorded
<1>2. CASE Expired(t)
  BY <1>2, ExpiredStays DEF Refused
<1>3. CASE t \in row /\ ~Expired(t) /\ Holds(r, t)
  <2>1. Holds(r, t)'
    <3>1. CASE UNCHANGED <<status, remote, local, reload>>
      BY <1>3, <3>1 DEF Holds
    <3>2. CASE \E q \in Replicas : ReplicaStep(q)
      BY <1>3, <3>2, ReplicaKeepsHolding
    <3>3. CASE \E q \in Replicas, h \in Handlers : HandlerStep(q, h)
      BY <1>3, <3>3, HandlerKeepsHolding
    <3> QED
      BY <3>1, <3>2, <3>3, NextSteps DEF DeleteExpired, TimePasses, vars
  <2> QED
    BY <1>1, <2>1 DEF Recorded, Refused
<1> QED
  BY <1>2, <1>3 DEF Refused

-----------------------------------------------------------------------------
(* The three conjuncts about logouts, and LocalIsRecorded.                    *)

LEMMA LogoutTokens ==
    ASSUME TypeOK, NEW r \in Replicas, NEW h \in Handlers
    PROVE  logout[r][h] \in Logouts /\ logout[r][h].tokens \in SUBSET Tokens
<1>1. logout[r][h] \in Logouts
  BY DEF TypeOK
<1> QED
  BY <1>1 DEF Logouts

\* What a step does to a logout: it stays, it is dropped, or it is the one the
\* step is about.
LEMMA LogoutSteps ==
    ASSUME TypeOK, [Next]_vars, NEW r \in Replicas, NEW h \in Handlers
    PROVE  \/ logout'[r][h] = logout[r][h]
           \/ logout'[r][h] = NoLogout
           \/ HandlerStep(r, h)
<1>0. logout \in [Replicas -> [Handlers -> Logouts]]
  BY DEF TypeOK
<1>1. CASE UNCHANGED logout
  BY <1>1
<1>2. ASSUME NEW q \in Replicas, ReplicaStep(q)
      PROVE  logout'[r][h] = logout[r][h] \/ logout'[r][h] = NoLogout
  <2>1. CASE Crash(q)
    BY <1>0, <2>1 DEF Crash
  <2> QED
    BY <1>2, <2>1 DEF ReplicaStep, Start, Tick, StoreRemote, PruneLocal, FailReload
<1>3. ASSUME NEW q \in Replicas, NEW g \in Handlers, HandlerStep(q, g),
             q # r \/ g # h
      PROVE  logout'[r][h] = logout[r][h]
  <2>1. \E at, tokens : SetLogout(q, g, at, tokens)
    BY <1>3 DEF HandlerStep, LogoutBegin, RevokeRow, RevokeRowFails, Add, LogoutAnswer
  <2> QED
    BY <1>0, <1>3, <2>1 DEF SetLogout
<1> QED
  BY <1>1, <1>2, <1>3, NextSteps DEF DeleteExpired, TimePasses, vars

LEMMA StepLocal ==
    ASSUME StoreNotAhead, Inv, [Next]_vars
    PROVE  LocalIsRecorded'
<1> SUFFICES ASSUME NEW r \in Replicas, NEW t \in local'[r]
             PROVE  Recorded(t)'
  BY DEF LocalIsRecorded, Recorded, Expired
<1> USE DEF Inv
<1>1. local \in [Replicas -> SUBSET Tokens]
  BY DEF TypeOK
<1>2. CASE t \in local[r]
  BY <1>1, <1>2, RecordedStays DEF LocalIsRecorded, Recorded
<1>3. ASSUME NEW q \in Replicas, NEW h \in Handlers, Add(q, h), t \notin local[r]
      PROVE  Recorded(t)'
  <2>1. q = r /\ t \in logout[r][h].tokens /\ logout[r][h].at = "add"
    BY <1>1, <1>3 DEF Add
  <2>2. t \in Tokens
    BY <2>1, LogoutTokens
  <2> QED
    BY <2>1, <2>2, RecordedStays DEF AddsAreRecorded
<1>4. ASSUME t \notin local[r]
      PROVE  \E q \in Replicas, h \in Handlers : Add(q, h)
  <2>1. CASE UNCHANGED local
    BY <1>4, <2>1
  <2>2. CASE \E q \in Replicas : ReplicaStep(q)
    BY <1>1, <1>4, <2>2 DEF ReplicaStep, Start, Tick, StoreRemote, PruneLocal, FailReload, Crash
  <2> QED
    BY <2>1, <2>2, NextSteps DEF HandlerStep, LogoutBegin, RevokeRow, RevokeRowFails,
       LogoutAnswer, DeleteExpired, TimePasses, vars
<1> QED
  BY <1>2, <1>3, <1>4

LEMMA StepAdds ==
    ASSUME StoreNotAhead, Inv, [Next]_vars
    PROVE  AddsAreRecorded'
<1> SUFFICES ASSUME NEW r \in Replicas, NEW h \in Handlers,
                    logout'[r][h].at = "add", NEW t \in logout'[r][h].tokens
             PROVE  Recorded(t)'
  BY DEF AddsAreRecorded, Recorded, Expired
<1> USE DEF Inv
<1>1. CASE logout'[r][h] = logout[r][h]
  BY <1>1, LogoutTokens, RecordedStays DEF AddsAreRecorded
<1>2. CASE HandlerStep(r, h)
  <2>1. logout \in [Replicas -> [Handlers -> Logouts]]
    BY DEF TypeOK
  <2>2. RevokeRow(r, h)
    BY <1>2, <2>1 DEF HandlerStep, LogoutBegin, RevokeRowFails, Add, LogoutAnswer, SetLogout
  <2>3. logout'[r][h].tokens = logout[r][h].tokens
    BY <2>1, <2>2 DEF RevokeRow, SetLogout
  <2> QED
    BY <2>2, <2>3 DEF RevokeRow, Recorded
<1> QED
  BY <1>1, <1>2, LogoutSteps DEF NoLogout

LEMMA StepAnswers ==
    ASSUME StoreNotAhead, Inv, [Next]_vars
    PROVE  AnswersHold'
<1> SUFFICES ASSUME NEW r \in Replicas, NEW h \in Handlers,
                    logout'[r][h].at = "answer", NEW t \in logout'[r][h].tokens
             PROVE  Refused(r, t)'
  BY DEF AnswersHold, Refused, Expired, Holds
<1> USE DEF Inv
<1>1. CASE logout'[r][h] = logout[r][h]
  BY <1>1, LogoutTokens, RefusedStays DEF AnswersHold
<1>2. CASE HandlerStep(r, h)
  <2>1. logout \in [Replicas -> [Handlers -> Logouts]] /\ local \in [Replicas -> SUBSET Tokens]
    BY DEF TypeOK
  <2>2. Add(r, h)
    BY <1>2, <2>1 DEF HandlerStep, LogoutBegin, RevokeRow, RevokeRowFails, LogoutAnswer, SetLogout
  <2>3. logout'[r][h].tokens = logout[r][h].tokens
    BY <2>1, <2>2 DEF Add, SetLogout
  <2>4. t \in local'[r]
    BY <2>1, <2>2, <2>3 DEF Add
  <2>5. Recorded(t)
    BY <2>2, <2>3 DEF Add, AddsAreRecorded
  <2> QED
    BY <2>2, <2>4, <2>5 DEF Add, Recorded, Refused, Holds, Expired
<1> QED
  BY <1>1, <1>2, LogoutSteps DEF NoLogout

LEMMA StepAnswered ==
    ASSUME StoreNotAhead, Inv, [Next]_vars
    PROVE  AnsweredHold'
<1> SUFFICES ASSUME NEW r \in Replicas, NEW t \in answered'[r]
             PROVE  Refused(r, t)'
  BY DEF AnsweredHold, Refused, Expired, Holds
<1> USE DEF Inv
<1>1. answered \in [Replicas -> SUBSET Tokens]
  BY DEF TypeOK
<1>2. CASE t \in answered[r]
  BY <1>1, <1>2, RefusedStays DEF AnsweredHold
<1>3. ASSUME t \notin answered[r]
      PROVE  \E h \in Handlers : logout[r][h].at = "answer" /\ t \in logout[r][h].tokens
  <2>1. \E q \in Replicas, h \in Handlers : LogoutAnswer(q, h)
    BY <1>3, NextSteps DEF ReplicaStep, HandlerStep, Start, Tick, StoreRemote, PruneLocal,
       FailReload, Crash, LogoutBegin, RevokeRow, RevokeRowFails, Add, DeleteExpired,
       TimePasses, vars
  <2> QED
    BY <1>1, <1>3, <2>1 DEF LogoutAnswer
<1>4. ASSUME NEW h \in Handlers, logout[r][h].at = "answer", t \in logout[r][h].tokens
      PROVE  Refused(r, t)'
  BY <1>4, LogoutTokens, RefusedStays DEF AnswersHold
<1> QED
  BY <1>2, <1>3, <1>4

-----------------------------------------------------------------------------
(* The theorems.                                                              *)

LEMMA InitInv == ASSUME Init PROVE Inv
<1>1. TypeOK
  BY InitType
<1>2. LocalIsRecorded /\ AnsweredHold
  BY DEF Init, LocalIsRecorded, AnsweredHold
<1>3. AddsAreRecorded /\ AnswersHold
  BY DEF Init, AddsAreRecorded, AnswersHold, NoLogout
<1> QED
  BY <1>1, <1>2, <1>3 DEF Inv

LEMMA StepInv == ASSUME StoreNotAhead, Inv, [Next]_vars PROVE Inv'
<1>1. TypeOK'
  BY StepType DEF Inv
<1> QED
  BY <1>1, StepLocal, StepAdds, StepAnswers, StepAnswered DEF Inv

LEMMA Invariant == ASSUME StoreNotAhead PROVE Spec => []Inv
  BY InitInv, StepInv, PTL DEF Spec

\* Types hold whatever the clocks are.
THEOREM TypeCorrect == Spec => []TypeOK
  BY InitType, StepType, PTL DEF Spec

\* A replica that answered a logout never accepts the token again, through any
\* interleaving of Reload, Add, crashes and restarts.
THEOREM LogoutIsFinal ==
    ASSUME StoreNotAhead PROVE Spec => []LoggedOutHereStaysOut
<1>1. Inv => LoggedOutHereStaysOut
  BY DEF Inv, AnsweredHold, Refused, Holds, LoggedOutHereStaysOut, Accepts, Contains
<1> QED
  BY <1>1, Invariant, PTL

\* Nothing is refused by one replica alone: what is in local is in the table.
THEOREM LocalHasARow ==
    ASSUME StoreNotAhead PROVE Spec => []LocalIsRecorded
<1>1. Inv => LocalIsRecorded
  BY DEF Inv
<1> QED
  BY <1>1, Invariant, PTL

-----------------------------------------------------------------------------
(* A revocation reaches a replica with the second reload that ends after it:  *)
(* the first may have read the table too early.                               *)

\* Whatever r is about to store has the recorded token.
Fresh(r, t) ==
    \/ Expired(t)
    \/ /\ t \in row
       /\ reload[r].at = "read" => t \in reload[r].jtis \/ t \in local[r]

LEMMA FreshStays ==
    ASSUME StoreNotAhead, TypeOK, [Next]_vars,
           NEW r \in Replicas, NEW t \in Tokens, Fresh(r, t)
    PROVE  Fresh(r, t)'
<1>1. Recorded(t)'
  BY RecordedStays DEF Fresh, Recorded
<1>2. CASE Expired(t)
  BY <1>2, ExpiredStays DEF Fresh
<1>3. CASE ~Expired(t) /\ UNCHANGED <<local, reload>>
  BY <1>1, <1>3 DEF Fresh, Recorded
<1>4. CASE ~Expired(t) /\ \E q \in Replicas : ReplicaStep(q)
  <2>1. t \in Unexpired
    <3>1. Exp[t] \in Nat /\ now \in Nat /\ Skew \in Int
      BY DenylistAssumption DEF TypeOK
    <3> QED
      BY <1>4, <3>1 DEF Fresh, Unexpired, ExpiredInStore, Expired, StoreNotAhead
  <2>2. PICK q \in Replicas : ReplicaStep(q)
    BY <1>4
  <2>3. reload \in [Replicas -> Reloads] /\ local \in [Replicas -> SUBSET Tokens]
    BY DEF TypeOK
  <2>4. reload'[r].at = "read" => t \in reload'[r].jtis \/ t \in local'[r]
    <3>1. CASE Start(q) \/ Tick(q)
      BY <1>4, <2>1, <2>3, <3>1 DEF Fresh, Start, Tick, ReadUnexpired
    <3>2. CASE StoreRemote(q)
      BY <1>4, <2>3, <3>2 DEF Fresh, StoreRemote
    <3>3. CASE PruneLocal(q)
      BY <1>4, <2>3, <3>3 DEF Fresh, PruneLocal, NoReload
    <3>4. CASE FailReload(q) \/ Crash(q)
      BY <1>4, <2>3, <3>4 DEF Fresh, FailReload, Crash, NoReload
    <3> QED
      BY <2>2, <3>1, <3>2, <3>3, <3>4 DEF ReplicaStep
  <2> QED
    BY <1>1, <2>4 DEF Fresh, Recorded
<1>5. CASE ~Expired(t) /\ \E q \in Replicas, h \in Handlers : HandlerStep(q, h)
  <2>1. PICK q \in Replicas, h \in Handlers : HandlerStep(q, h)
    BY <1>5
  <2>2. local \in [Replicas -> SUBSET Tokens]
    BY DEF TypeOK
  <2>3. reload' = reload /\ local[r] \subseteq local'[r]
    BY <2>1, <2>2 DEF HandlerStep, LogoutBegin, RevokeRow, RevokeRowFails, Add, LogoutAnswer
  <2> QED
    BY <1>1, <1>5, <2>3 DEF Fresh, Recorded
<1> QED
  BY <1>2, <1>3, <1>4, <1>5, NextSteps DEF DeleteExpired, TimePasses, vars

\* A reload that has stored leaves nothing older on its way.
LEMMA StoreIsFresh ==
    ASSUME TypeOK, NEW r \in Replicas, NEW t \in Tokens, StoreRemote(r), Recorded(t)
    PROVE  Fresh(r, t)'
<1>1. reload'[r].at = "prune"
  BY DEF StoreRemote, TypeOK
<1> QED
  BY <1>1 DEF StoreRemote, Recorded, Fresh, Expired

LEMMA StoreRefuses ==
    ASSUME TypeOK, NEW r \in Replicas, NEW t \in Tokens, StoreRemote(r), Fresh(r, t)
    PROVE  Refused(r, t)'
<1>1. /\ reload'[r].at = "prune"
      /\ remote'[r] = reload[r].jtis
      /\ UNCHANGED <<now, row, local>>
  BY DEF StoreRemote, TypeOK
<1> QED
  BY <1>1 DEF StoreRemote, Fresh, Refused, Holds, Expired

\* Fairness(r), with the guard of each action in the place of ENABLED.
Schedules(r) ==
    /\ []<>~(status[r] = "serving" /\ reload[r].at = "idle") \/ []<><<Tick(r)>>_vars
    /\ []<>~(reload[r].at = "prune") \/ []<><<PruneLocal(r)>>_vars
    /\ <>[]~(reload[r].at = "read") \/ []<><<StoreRemote(r)>>_vars

KeepsReloading(r) ==
    []<><<StoreRemote(r)>>_vars \/ <>[]~(status[r] = "serving")

\* A replica that does not serve and has stored nothing yet: a crash leads here,
\* and only a reload that has stored leads on.
Blank(r) == status[r] # "serving" /\ reload[r].at # "prune"

LEMMA StepsOfOne ==
    ASSUME TypeOK, [Next]_vars, NEW r \in Replicas
    PROVE  \/ status'[r] = status[r] /\ reload'[r] = reload[r]
           \/ ReplicaStep(r)
<1>1. /\ reload \in [Replicas -> Reloads]
      /\ status \in [Replicas -> {"down", "starting", "serving"}]
  BY DEF TypeOK
<1>2. ASSUME NEW q \in Replicas, ReplicaStep(q), q # r
      PROVE  status'[r] = status[r] /\ reload'[r] = reload[r]
  BY <1>1, <1>2 DEF ReplicaStep, Start, Tick, ReadUnexpired, StoreRemote, PruneLocal,
                    FailReload, Crash
<1> QED
  BY <1>2, NextSteps DEF HandlerStep, LogoutBegin, RevokeRow, RevokeRowFails, Add,
                         LogoutAnswer, DeleteExpired, TimePasses, vars

LEMMA StepOfItsOwn ==
    ASSUME TypeOK, NEW r \in Replicas, ReplicaStep(r)
    PROVE  /\ status[r] = "serving" => status'[r] = "serving" \/ Blank(r)'
           /\ Blank(r) => Blank(r)' \/ <<StoreRemote(r)>>_vars
           /\ reload[r].at = "idle" => reload'[r].at \in {"idle", "read"}
<1>1. /\ reload \in [Replicas -> Reloads]
      /\ status \in [Replicas -> {"down", "starting", "serving"}]
  BY DEF TypeOK
<1>2. CASE Start(r) \/ Tick(r)
  BY <1>1, <1>2 DEF Blank, Start, Tick, ReadUnexpired
<1>3. CASE StoreRemote(r)
  <2>1. reload' # reload
    BY <1>1, <1>3 DEF StoreRemote
  <2> QED
    BY <1>1, <1>3, <2>1 DEF Blank, StoreRemote, vars
<1>4. CASE PruneLocal(r)
  BY <1>1, <1>4 DEF Blank, PruneLocal
<1>5. CASE FailReload(r) \/ Crash(r)
  BY <1>1, <1>5 DEF Blank, FailReload, Crash, NoReload
<1> QED
  BY <1>2, <1>3, <1>4, <1>5 DEF ReplicaStep

\* A replica that serves for ever reads, and so stores, again and again; one
\* that comes back again and again has stored each time.
LEMMA ServingReloads ==
    ASSUME NEW r \in Replicas
    PROVE  Spec /\ Schedules(r) => KeepsReloading(r)
<1>1. TypeOK /\ [Next]_vars =>
        /\ status[r] = "serving" => (status[r] = "serving")' \/ Blank(r)'
        /\ Blank(r) => Blank(r)' \/ <<StoreRemote(r)>>_vars
        /\ reload[r].at = "idle" => (reload[r].at = "idle")' \/ (reload[r].at = "read")'
  BY StepsOfOne, StepOfItsOwn DEF Blank
<1>2. Blank(r) => ~(status[r] = "serving")
  BY DEF Blank
<1>3. TypeOK /\ <<Tick(r)>>_vars => (reload[r].at = "read")'
  BY DEF TypeOK, Tick, ReadUnexpired
<1>4. TypeOK /\ <<PruneLocal(r)>>_vars => (reload[r].at = "idle")'
  BY DEF TypeOK, PruneLocal, NoReload
<1>5. TypeOK =>
        \/ reload[r].at = "idle"
        \/ reload[r].at = "read"
        \/ reload[r].at = "prune"
  BY DEF TypeOK, Reloads
<1> QED
  BY <1>1, <1>2, <1>3, <1>4, <1>5, TypeCorrect, PTL DEF Spec, Schedules, KeepsReloading

\* A revocation on record reaches every replica and is refused there for good,
\* whichever reloads fail (Run, Reload): the second reload that stores after it
\* has it, and nothing takes it away again.
THEOREM RevocationReaches ==
    ASSUME StoreNotAhead
    PROVE  Spec /\ (\A r \in Replicas : Schedules(r)) => RevocationSpreads
<1>1. ASSUME NEW r \in Replicas, NEW t \in Tokens
      PROVE  Spec /\ Schedules(r) => (t \in row ~> []~Accepts(r, t))
  <2>1. t \in row => Recorded(t)
    BY DEF Recorded
  <2>2. TypeOK /\ Recorded(t) /\ [Next]_vars => Recorded(t)'
    BY RecordedStays
  <2>3. TypeOK /\ Recorded(t) /\ <<StoreRemote(r)>>_vars => Fresh(r, t)'
    BY StoreIsFresh
  <2>4. TypeOK /\ Fresh(r, t) /\ [Next]_vars => Fresh(r, t)'
    BY FreshStays
  <2>5. TypeOK /\ Fresh(r, t) /\ <<StoreRemote(r)>>_vars => Refused(r, t)'
    BY StoreRefuses
  <2>6. TypeOK /\ Refused(r, t) /\ [Next]_vars => Refused(r, t)'
    BY RefusedStays
  <2>7. Refused(r, t) => ~Accepts(r, t)
    BY DEF Refused, Holds, Accepts, Contains
  <2>8. ~(status[r] = "serving") => ~Accepts(r, t)
    BY DEF Accepts
  <2>9. Spec /\ Schedules(r) => KeepsReloading(r)
    BY ServingReloads
  <2> QED
    BY <2>1, <2>2, <2>3, <2>4, <2>5, <2>6, <2>7, <2>8, <2>9, TypeCorrect, PTL
    DEF Spec, KeepsReloading
<1> QED
  BY <1>1 DEF RevocationSpreads
=============================================================================
