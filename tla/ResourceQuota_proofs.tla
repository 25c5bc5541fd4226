------------------------ MODULE ResourceQuota_proofs ------------------------
(* What the counter of a scope guarantees for any requests, resources, limit  *)
(* and faults.  The argument counts: a unit belongs to a resource that exists *)
(* or to a request that holds it, on the way to its insert or to the          *)
(* statement that gives it back.                                              *)
EXTENDS ResourceQuota, FiniteSetTheorems, TLAPS

HoldingAt == {"insert", "release", "decrement"}
Holding == {p \in Requests : request[p].at \in HoldingAt}

\* The units accounted for, and those the counter has in excess of them.
Units == Cardinality(existing) + Cardinality(Holding)

NoRowIsZero == ~counted => usage = 0

Balance ==
    /\ Covered => Units <= usage /\ usage <= HardLimit
    /\ faulted = {} => Units = usage

Inv ==
    /\ TypeOK
    /\ NoRowIsZero
    /\ Balance

-----------------------------------------------------------------------------
(* Actions grouped by what they do to the units.                              *)

ItemStep(p, i) ==
    \/ Reserve(p, i) \/ ReserveFindsNone(p, i) \/ Delete(p, i) \/ DeleteUnanswered(p, i)

RequestStep(p) ==
    \/ ReserveRefused(p) \/ ReserveFirst(p) \/ ReserveFirstRefused(p) \/ ReserveUnanswered(p)
    \/ Insert(p) \/ InsertRefused(p) \/ InsertFails(p) \/ InsertUnanswered(p)
    \/ Release(p) \/ Decrement(p) \/ GiveBackFails(p) \/ Crash(p)

LEMMA NextSteps ==
    ASSUME Next
    PROVE  \/ \E p \in Requests, i \in Items : ItemStep(p, i)
           \/ \E p \in Requests : RequestStep(p)
           \/ Recount
BY Zenon DEF Next, ItemStep, RequestStep

-----------------------------------------------------------------------------
(* Types.                                                                     *)

LEMMA StateTypes ==
    /\ Idle \in RequestStates
    /\ \A i \in Items, at \in Reserving : [at |-> at, item |-> i] \in RequestStates
    /\ [at |-> "decrement"] \in RequestStates
BY DEF RequestStates, Idle

LEMMA StateShape ==
    ASSUME NEW s \in RequestStates
    PROVE  /\ s.at \in {"idle", "decrement"} \cup Reserving
           /\ s.at = "idle" => s = Idle
           /\ s.at \in Reserving =>
                /\ s.item \in Items
                /\ \A at \in Reserving :
                     /\ [s EXCEPT !.at = at] \in RequestStates
                     /\ [s EXCEPT !.at = at].at = at
<1>1. CASE s = Idle
  BY <1>1 DEF Idle, Reserving
<1>2. CASE s \in [at : Reserving, item : Items]
  BY <1>2 DEF Reserving, RequestStates
<1>3. CASE s \in [at : {"decrement"}]
  BY <1>3 DEF Reserving
<1> QED
  BY <1>1, <1>2, <1>3 DEF RequestStates

LEMMA GoesType ==
    ASSUME TypeOK, NEW p \in Requests, NEW s \in RequestStates, Goes(p, s)
    PROVE  request' \in [Requests -> RequestStates]
BY Zenon DEF TypeOK, Goes

LEMMA FaultType ==
    ASSUME TypeOK, NEW k \in FaultKinds, Fault(k)
    PROVE  faulted' \subseteq FaultKinds
BY DEF TypeOK, Fault

LEMMA CountType ==
    ASSUME TypeOK
    PROVE  /\ IsFiniteSet(existing) /\ Cardinality(existing) \in Nat
           /\ IsFiniteSet(Holding) /\ Cardinality(Holding) \in Nat
           /\ HardLimit \in Nat
<1>1. existing \subseteq Items /\ Holding \subseteq Requests
  BY DEF TypeOK, Holding
<1>2. IsFiniteSet(existing) /\ IsFiniteSet(Holding)
  BY <1>1, FS_Subset, QuotaAssumption
<1> QED
  BY <1>2, FS_CardinalityType, QuotaAssumption

LEMMA ItemStepType ==
    ASSUME TypeOK, NEW p \in Requests, NEW i \in Items, ItemStep(p, i)
    PROVE  TypeOK'
<1>1. Idle \in RequestStates /\ [at |-> "insert", item |-> i] \in RequestStates
      /\ [at |-> "first", item |-> i] \in RequestStates /\ [at |-> "decrement"] \in RequestStates
  BY StateTypes DEF Reserving
<1>2. "unanswered" \in FaultKinds
  BY DEF FaultKinds
<1>3. CASE Reserve(p, i)
  BY <1>1, <1>3, GoesType DEF Reserve, TakeUnit, TypeOK
<1>4. CASE ReserveFindsNone(p, i)
  BY <1>1, <1>4, GoesType DEF ReserveFindsNone, TypeOK
<1>5. CASE Delete(p, i)
  BY <1>1, <1>5, GoesType DEF Delete, TypeOK
<1>6. CASE DeleteUnanswered(p, i)
  BY <1>2, <1>6, FaultType DEF DeleteUnanswered, TypeOK
<1> QED
  BY <1>3, <1>4, <1>5, <1>6 DEF ItemStep

LEMMA GiveUnitBackType ==
    ASSUME TypeOK, GiveUnitBack
    PROVE  usage' \in Nat
BY DEF TypeOK, GiveUnitBack

LEMMA RequestStepType ==
    ASSUME TypeOK, NEW p \in Requests, RequestStep(p)
    PROVE  TypeOK'
<1>1. request[p] \in RequestStates /\ Idle \in RequestStates
  BY StateTypes DEF TypeOK
<1>2. \A at \in Reserving : request[p].at \in Reserving =>
         [request[p] EXCEPT !.at = at] \in RequestStates /\ request[p].item \in Items
  BY <1>1, StateShape
<1>3. {"fail", "crash", "unanswered", "insert unanswered"} \subseteq FaultKinds
  BY DEF FaultKinds
<1>4. CASE ReserveRefused(p)
  BY <1>4 DEF ReserveRefused, vars, TypeOK
<1>5. CASE ReserveFirst(p)
  BY <1>2, <1>5, GoesType DEF ReserveFirst, TakeUnit, TypeOK, Reserving
<1>6. CASE ReserveFirstRefused(p)
  BY <1>1, <1>6, GoesType DEF ReserveFirstRefused, TypeOK
<1>7. CASE ReserveUnanswered(p)
  <2>1. faulted' \subseteq FaultKinds
    BY <1>3, <1>7, FaultType DEF ReserveUnanswered
  <2> QED
    BY <1>7, <2>1 DEF ReserveUnanswered, TakeUnit, TypeOK
<1>8. CASE Insert(p)
  BY <1>1, <1>2, <1>8, GoesType DEF Insert, TypeOK, Reserving
<1>9. CASE InsertRefused(p)
  BY <1>2, <1>9, GoesType DEF InsertRefused, TypeOK, Reserving
<1>10. CASE InsertFails(p)
  BY <1>2, <1>3, <1>10, GoesType, FaultType DEF InsertFails, TypeOK, Reserving
<1>11. CASE InsertUnanswered(p)
  BY <1>2, <1>3, <1>11, GoesType, FaultType DEF InsertUnanswered, TypeOK, Reserving
<1>12. CASE Release(p) \/ Decrement(p)
  BY <1>1, <1>12, GoesType, GiveUnitBackType DEF Release, Decrement, TypeOK
<1>13. CASE GiveBackFails(p) \/ Crash(p)
  BY <1>1, <1>3, <1>13, GoesType, FaultType DEF GiveBackFails, Crash, TypeOK
<1> QED
  BY <1>4, <1>5, <1>6, <1>7, <1>8, <1>9, <1>10, <1>11, <1>12, <1>13, Zenon DEF RequestStep

LEMMA RecountType ==
    ASSUME TypeOK, Recount
    PROVE  TypeOK'
<1>1. "recount" \in FaultKinds
  BY DEF FaultKinds
<1> QED
  BY <1>1, FaultType, CountType DEF Recount, TypeOK

LEMMA InitType ==
    ASSUME Init
    PROVE  TypeOK
<1>1. request \in [Requests -> RequestStates]
  BY StateTypes DEF Init
<1>2. usage \in Nat /\ existing \subseteq Items /\ faulted \subseteq FaultKinds
  BY DEF Init
<1>3. counted \in BOOLEAN
  BY Zenon DEF Init
<1> QED
  BY <1>1, <1>2, <1>3 DEF TypeOK

LEMMA StepType ==
    ASSUME TypeOK, [Next]_vars
    PROVE  TypeOK'
<1>1. CASE Next
  BY <1>1, NextSteps, ItemStepType, RequestStepType, RecountType
<1>2. CASE UNCHANGED vars
  BY <1>2 DEF vars, TypeOK
<1> QED
  BY <1>1, <1>2

\* The counter of a scope is never negative, and every request is in one of its
\* states (the CHECK of resources_usage, and the request paths of Create and
\* DeleteByID).
THEOREM TypeCorrect == Spec => []TypeOK
BY InitType, StepType, PTL DEF Spec

-----------------------------------------------------------------------------
(* How a step moves the requests that hold a unit, and the resources.         *)

LEMMA Moves ==
    ASSUME TypeOK, NEW p \in Requests, NEW s \in RequestStates, Goes(p, s)
    PROVE  Holding' = IF s.at \in HoldingAt THEN Holding \cup {p} ELSE Holding \ {p}
<1>1. \A q \in Requests : request'[q] = IF q = p THEN s ELSE request[q]
  BY DEF TypeOK, Goes
<1> QED
  BY <1>1 DEF Holding

LEMMA KeepsHolding ==
    ASSUME TypeOK, NEW p \in Requests, NEW s \in RequestStates, Goes(p, s),
           p \in Holding <=> s.at \in HoldingAt
    PROVE  Cardinality(Holding') = Cardinality(Holding)
<1>1. Holding' = Holding
  BY Moves
<1> QED
  BY <1>1

LEMMA StartsHolding ==
    ASSUME TypeOK, NEW p \in Requests, NEW s \in RequestStates, Goes(p, s),
           p \notin Holding, s.at \in HoldingAt
    PROVE  Cardinality(Holding') = Cardinality(Holding) + 1
<1>1. Holding' = Holding \cup {p}
  BY Moves
<1> QED
  BY <1>1, CountType, FS_AddElement

LEMMA StopsHolding ==
    ASSUME TypeOK, NEW p \in Requests, NEW s \in RequestStates, Goes(p, s),
           p \in Holding, s.at \notin HoldingAt
    PROVE  /\ Cardinality(Holding') = Cardinality(Holding) - 1
           /\ Cardinality(Holding) >= 1
<1>1. Holding' = Holding \ {p}
  BY Moves
<1>2. Cardinality(Holding') = Cardinality(Holding) - 1
  BY <1>1, CountType, FS_RemoveElement
<1>3. IsFiniteSet(Holding') /\ Cardinality(Holding') \in Nat
  BY <1>1, CountType, FS_RemoveElement, FS_CardinalityType
<1> QED
  BY <1>2, <1>3, CountType

LEMMA AddsResource ==
    ASSUME TypeOK, NEW i, i \notin existing, existing' = existing \cup {i}
    PROVE  Cardinality(existing') = Cardinality(existing) + 1
BY CountType, FS_AddElement

LEMMA RemovesResource ==
    ASSUME TypeOK, NEW i, i \in existing, existing' = existing \ {i}
    PROVE  Cardinality(existing') = Cardinality(existing) - 1
BY CountType, FS_RemoveElement

LEMMA SameRequests ==
    ASSUME request' = request
    PROVE  Cardinality(Holding') = Cardinality(Holding)
BY DEF Holding

\* A step adds to the kinds of faults, and a step with a fault leaves some.
LEMMA FaultsGrow ==
    ASSUME NEW k, Fault(k)
    PROVE  (Covered' => Covered) /\ faulted' # {}
BY DEF Fault, Covered

LEMMA NoFault ==
    ASSUME UNCHANGED faulted
    PROVE  Covered' <=> Covered
BY DEF Covered

-----------------------------------------------------------------------------
(* The balance, by the kind of step: the counter and the units move together, *)
(* or a fault lets the units fall behind.                                     *)

LEMMA TogetherKeeps ==
    ASSUME Inv, UNCHANGED faulted, usage' \in Nat,
           usage' - usage = Units' - Units, Units' \in Nat,
           usage' <= usage \/ usage' <= HardLimit
    PROVE  Balance'
<1>1. Units \in Nat /\ usage \in Nat /\ HardLimit \in Nat
  BY CountType DEF Inv, TypeOK, Units
<1>2. Covered' <=> Covered
  BY NoFault
<1> HIDE DEF Units, Covered
<1> QED
  BY <1>1, <1>2 DEF Inv, Balance

LEMMA FallsBehind ==
    ASSUME NEW u \in Nat, NEW uu \in Nat, NEW v \in Nat, NEW vv \in Nat, NEW limit \in Nat,
           u <= v /\ v <= limit, v - u <= vv - uu, vv <= v \/ vv <= limit
    PROVE  uu <= vv /\ vv <= limit
OBVIOUS

LEMMA BehindKeeps ==
    ASSUME Inv, Covered' => Covered, faulted' # {}, usage' \in Nat, Units' \in Nat,
           usage - Units <= usage' - Units',
           usage' <= usage \/ usage' <= HardLimit
    PROVE  Balance'
<1>1. Units \in Nat /\ usage \in Nat /\ HardLimit \in Nat
  BY CountType DEF Inv, TypeOK, Units
<1>2. Covered => Units <= usage /\ usage <= HardLimit
  BY DEF Inv, Balance
<1>3. Units <= usage /\ usage <= HardLimit => Units' <= usage' /\ usage' <= HardLimit
  BY <1>1, FallsBehind
<1> QED
  BY <1>2, <1>3 DEF Balance

LEMMA UncoveredKeeps ==
    ASSUME ~Covered'
    PROVE  Balance'
<1>1. faulted' # {}
  BY DEF Covered
<1> QED
  BY <1>1 DEF Balance

\* A request that holds a unit is covered by the counter, which has a row then.
LEMMA GivesUnitBack ==
    ASSUME Inv, NEW p \in Requests, p \in Holding, GiveUnitBack, Goes(p, Idle),
           UNCHANGED <<counted, existing, faulted>>
    PROVE  Balance'
<1>1. /\ Cardinality(Holding') = Cardinality(Holding) - 1
      /\ Cardinality(Holding) >= 1
  BY StopsHolding, StateTypes DEF Inv, Idle, HoldingAt
<1>2. /\ Cardinality(existing) \in Nat /\ Cardinality(Holding) \in Nat /\ usage \in Nat
      /\ counted \in BOOLEAN
  BY CountType DEF Inv, TypeOK
<1>3. Units' = Units - 1 /\ Units' \in Nat /\ Units \in Nat
  BY <1>1, <1>2 DEF Units
<1>4. CASE Covered
  <2>1. usage > 0
    BY <1>1, <1>2, <1>4 DEF Inv, Balance, Units
  <2>2. counted
    BY <2>1 DEF Inv, NoRowIsZero
  <2>3. usage' = usage - 1 /\ usage' \in Nat
    BY <1>2, <2>1, <2>2 DEF GiveUnitBack
  <2> HIDE DEF Units
  <2>4. usage' - usage = Units' - Units /\ usage' <= usage
    BY <1>2, <1>3, <2>3
  <2> QED
    BY <1>3, <2>3, <2>4, TogetherKeeps
<1>5. CASE ~Covered
  BY <1>5, NoFault, UncoveredKeeps DEF Covered
<1> QED
  BY <1>4, <1>5

\* A reservation takes a unit under the limit, for a request that held none.
LEMMA TakesUnit ==
    ASSUME Inv, NEW p \in Requests, NEW s \in RequestStates, Goes(p, s),
           p \notin Holding, s.at \in HoldingAt, TakeUnit, UNCHANGED <<existing, faulted>>
    PROVE  Balance'
<1>1. Cardinality(Holding') = Cardinality(Holding) + 1
  BY StartsHolding DEF Inv
<1>2. /\ Cardinality(existing) \in Nat /\ Cardinality(Holding) \in Nat
      /\ usage \in Nat /\ HardLimit \in Nat
  BY CountType DEF Inv, TypeOK
<1>3. Units' = Units + 1 /\ Units' \in Nat /\ Units \in Nat
  BY <1>1, <1>2 DEF Units
<1>4. usage' = usage + 1 /\ usage' \in Nat /\ usage' <= HardLimit
  BY <1>2 DEF TakeUnit
<1>5. usage' - usage = Units' - Units
  BY <1>2, <1>3, <1>4
<1> QED
  BY <1>3, <1>4, <1>5, TogetherKeeps

\* The resources, the holders and the counter change by these amounts.
Changes(e, h, u) ==
    /\ Cardinality(existing') = Cardinality(existing) + e
    /\ Cardinality(Holding') = Cardinality(Holding) + h
    /\ usage' = usage + u
    /\ usage' \in Nat /\ Cardinality(existing') \in Nat /\ Cardinality(Holding') \in Nat

LEMMA SameTotal ==
    ASSUME Inv, UNCHANGED faulted, NEW e \in Int, Changes(e, -e, 0)
    PROVE  Balance'
<1>1. /\ Cardinality(existing) \in Nat /\ Cardinality(Holding) \in Nat /\ usage \in Nat
  BY CountType DEF Inv, TypeOK
<1>2. Units' = Units /\ Units' \in Nat /\ usage' = usage /\ usage' \in Nat
  BY <1>1 DEF Units, Changes
<1>3. usage' - usage = Units' - Units /\ usage' <= usage
  BY <1>1, <1>2
<1> QED
  BY <1>2, <1>3, TogetherKeeps

LEMMA FaultLosesUnits ==
    ASSUME Inv, NEW k, Fault(k), NEW e \in Int, NEW h \in Int, NEW u \in Int,
           Changes(e, h, u), e + h <= u, u <= 0 \/ usage' <= HardLimit
    PROVE  Balance'
<1>1. /\ Cardinality(existing) \in Nat /\ Cardinality(Holding) \in Nat /\ usage \in Nat
  BY CountType DEF Inv, TypeOK
<1>2. Units' = Units + (e + h) /\ Units' \in Nat /\ Units \in Nat
  BY <1>1 DEF Units, Changes
<1>3. usage' = usage + u /\ usage' \in Nat
  BY DEF Changes
<1>4. usage - Units <= usage' - Units'
  BY <1>1, <1>2, <1>3
<1>5. usage' <= usage \/ usage' <= HardLimit
  BY <1>1, <1>3
<1> QED
  BY <1>2, <1>3, <1>4, <1>5, FaultsGrow, BehindKeeps

LEMMA NextCountType ==
    ASSUME TypeOK'
    PROVE  usage' \in Nat /\ Cardinality(existing') \in Nat /\ Cardinality(Holding') \in Nat
<1>1. existing' \subseteq Items /\ Holding' \subseteq Requests /\ usage' \in Nat
  BY DEF TypeOK, Holding
<1>2. IsFiniteSet(existing') /\ IsFiniteSet(Holding')
  BY <1>1, FS_Subset, QuotaAssumption
<1> QED
  BY <1>1, <1>2, FS_CardinalityType

LEMMA ItemStepBalance ==
    ASSUME Inv, TypeOK', NEW p \in Requests, NEW i \in Items, ItemStep(p, i)
    PROVE  Balance'
<1>1. /\ Idle \in RequestStates /\ [at |-> "insert", item |-> i] \in RequestStates
      /\ [at |-> "first", item |-> i] \in RequestStates /\ [at |-> "decrement"] \in RequestStates
  BY StateTypes DEF Reserving
<1>2. /\ TypeOK /\ Cardinality(existing) \in Nat /\ Cardinality(Holding) \in Nat /\ usage \in Nat
      /\ HardLimit \in Nat
  BY CountType DEF Inv, TypeOK
<1>3. usage' \in Nat /\ Cardinality(existing') \in Nat /\ Cardinality(Holding') \in Nat
  BY NextCountType
<1>4. request[p] = Idle => p \notin Holding
  BY DEF Holding, Idle, HoldingAt
<1>5. CASE Reserve(p, i)
  BY <1>1, <1>4, <1>5, TakesUnit DEF Reserve, HoldingAt
<1>6. CASE ReserveFindsNone(p, i)
  <2>1. Cardinality(Holding') = Cardinality(Holding)
    BY <1>1, <1>2, <1>4, <1>6, KeepsHolding DEF ReserveFindsNone, HoldingAt
  <2>2. Changes(0, -0, 0)
    BY <1>2, <1>3, <1>6, <2>1 DEF ReserveFindsNone, Changes
  <2> QED
    BY <1>6, <2>2, SameTotal DEF ReserveFindsNone
<1>7. CASE Delete(p, i)
  <2>1. Cardinality(Holding') = Cardinality(Holding) + 1
    BY <1>1, <1>2, <1>4, <1>7, StartsHolding DEF Delete, HoldingAt
  <2>2. Cardinality(existing') = Cardinality(existing) - 1
    BY <1>2, <1>7, RemovesResource DEF Delete
  <2>3. Changes(-1, -(-1), 0)
    BY <1>2, <1>3, <1>7, <2>1, <2>2 DEF Delete, Changes
  <2> QED
    BY <1>7, <2>3, SameTotal DEF Delete
<1>8. CASE DeleteUnanswered(p, i)
  <2>1. Cardinality(Holding') = Cardinality(Holding)
    BY <1>8, SameRequests DEF DeleteUnanswered
  <2>2. Cardinality(existing') = Cardinality(existing) - 1
    BY <1>2, <1>8, RemovesResource DEF DeleteUnanswered
  <2>3. Changes(-1, 0, 0)
    BY <1>2, <1>3, <1>8, <2>1, <2>2 DEF DeleteUnanswered, Changes
  <2> QED
    BY <1>8, <2>3, FaultLosesUnits DEF DeleteUnanswered
<1> QED
  BY <1>5, <1>6, <1>7, <1>8 DEF ItemStep

LEMMA RequestStepBalance ==
    ASSUME Inv, TypeOK', NEW p \in Requests, RequestStep(p)
    PROVE  Balance'
<1>1. TypeOK /\ request[p] \in RequestStates /\ Idle \in RequestStates /\ Idle.at \notin HoldingAt
  BY StateTypes DEF Inv, TypeOK, Idle, HoldingAt
<1>2. /\ Cardinality(existing) \in Nat /\ Cardinality(Holding) \in Nat /\ usage \in Nat
      /\ HardLimit \in Nat
  BY CountType DEF Inv, TypeOK
<1>3. usage' \in Nat /\ Cardinality(existing') \in Nat /\ Cardinality(Holding') \in Nat
  BY NextCountType
<1>4. p \in Holding <=> request[p].at \in HoldingAt
  BY DEF Holding
<1>5. \A at \in Reserving : request[p].at \in Reserving =>
         /\ [request[p] EXCEPT !.at = at] \in RequestStates
         /\ [request[p] EXCEPT !.at = at].at = at
  BY <1>1, StateShape
<1>6. CASE ReserveRefused(p)
  BY <1>6 DEF ReserveRefused, vars, Inv, Balance, Covered, Units, Holding
<1>7. CASE ReserveFirst(p)
  BY <1>4, <1>5, <1>7, TakesUnit DEF ReserveFirst, Reserving, HoldingAt
<1>8. CASE ReserveFirstRefused(p)
  <2>1. Cardinality(Holding') = Cardinality(Holding)
    BY <1>1, <1>4, <1>8, KeepsHolding DEF ReserveFirstRefused, HoldingAt
  <2>2. Changes(0, -0, 0)
    BY <1>2, <1>3, <1>8, <2>1 DEF ReserveFirstRefused, Changes
  <2> QED
    BY <1>8, <2>2, SameTotal DEF ReserveFirstRefused
<1>9. CASE ReserveUnanswered(p)
  <2>1. Cardinality(Holding') = Cardinality(Holding)
    BY <1>9, SameRequests DEF ReserveUnanswered
  <2>2. Changes(0, 0, 1) /\ usage' <= HardLimit
    BY <1>2, <1>3, <1>9, <2>1 DEF ReserveUnanswered, TakeUnit, Changes
  <2> QED
    BY <1>9, <2>2, FaultLosesUnits DEF ReserveUnanswered
<1>10. CASE Insert(p)
  <2>1. Cardinality(Holding') = Cardinality(Holding) - 1
    BY <1>1, <1>4, <1>10, StopsHolding DEF Insert, HoldingAt
  <2>2. Cardinality(existing') = Cardinality(existing) + 1
    BY <1>1, <1>10, AddsResource DEF Insert
  <2>3. Changes(1, -1, 0)
    BY <1>2, <1>3, <1>10, <2>1, <2>2 DEF Insert, Changes
  <2> QED
    BY <1>10, <2>3, SameTotal DEF Insert
<1>11. CASE InsertRefused(p)
  <2>1. Cardinality(Holding') = Cardinality(Holding)
    BY <1>1, <1>4, <1>5, <1>11, KeepsHolding DEF InsertRefused, Reserving, HoldingAt
  <2>2. Changes(0, -0, 0)
    BY <1>2, <1>3, <1>11, <2>1 DEF InsertRefused, Changes
  <2> QED
    BY <1>11, <2>2, SameTotal DEF InsertRefused
<1>12. CASE InsertFails(p)
  <2>1. Cardinality(Holding') = Cardinality(Holding)
    BY <1>1, <1>4, <1>5, <1>12, KeepsHolding DEF InsertFails, Reserving, HoldingAt
  <2>2. Changes(0, 0, 0)
    BY <1>2, <1>3, <1>12, <2>1 DEF InsertFails, Changes
  <2> QED
    BY <1>12, <2>2, FaultLosesUnits DEF InsertFails
<1>13. CASE InsertUnanswered(p)
  BY <1>13, UncoveredKeeps DEF InsertUnanswered, Fault, Covered
<1>14. CASE Release(p) \/ Decrement(p)
  BY <1>4, <1>14, GivesUnitBack DEF Release, Decrement, HoldingAt
<1>15. CASE GiveBackFails(p)
  <2>1. Cardinality(Holding') = Cardinality(Holding) - 1
    BY <1>1, <1>4, <1>15, StopsHolding DEF GiveBackFails, HoldingAt
  <2>2. Changes(0, -1, 0)
    BY <1>2, <1>3, <1>15, <2>1 DEF GiveBackFails, Changes
  <2> QED
    BY <1>15, <2>2, FaultLosesUnits DEF GiveBackFails
<1>16. CASE Crash(p)
  <2>1. CASE p \in Holding
    <3>1. Cardinality(Holding') = Cardinality(Holding) - 1
      BY <1>1, <1>16, <2>1, StopsHolding DEF Crash
    <3>2. Changes(0, -1, 0)
      BY <1>2, <1>3, <1>16, <3>1 DEF Crash, Changes
    <3> QED
      BY <1>16, <3>2, FaultLosesUnits DEF Crash
  <2>2. CASE p \notin Holding
    <3>1. Cardinality(Holding') = Cardinality(Holding)
      BY <1>1, <1>16, <2>2, KeepsHolding DEF Crash
    <3>2. Changes(0, 0, 0)
      BY <1>2, <1>3, <1>16, <3>1 DEF Crash, Changes
    <3> QED
      BY <1>16, <3>2, FaultLosesUnits DEF Crash
  <2> QED
    BY <2>1, <2>2
<1> QED
  BY <1>6, <1>7, <1>8, <1>9, <1>10, <1>11, <1>12, <1>13, <1>14, <1>15, <1>16, Zenon
     DEF RequestStep

LEMMA StepNoRow ==
    ASSUME Inv, Next
    PROVE  NoRowIsZero'
<1>1. ASSUME NEW p \in Requests, NEW i \in Items, ItemStep(p, i)
      PROVE  NoRowIsZero'
  BY <1>1 DEF ItemStep, Reserve, ReserveFindsNone, Delete, DeleteUnanswered, TakeUnit,
     Inv, NoRowIsZero
<1>2. ASSUME NEW p \in Requests, Release(p) \/ Decrement(p)
      PROVE  NoRowIsZero'
  BY <1>2 DEF Release, Decrement, GiveUnitBack, Inv, NoRowIsZero
<1>3. ASSUME NEW p \in Requests, ReserveFirst(p) \/ ReserveUnanswered(p)
      PROVE  NoRowIsZero'
  BY <1>3 DEF ReserveFirst, ReserveUnanswered, TakeUnit, NoRowIsZero
<1>4. ASSUME NEW p \in Requests, RequestStep(p), UNCHANGED <<counted, usage>>
      PROVE  NoRowIsZero'
  BY <1>4 DEF Inv, NoRowIsZero
<1>5. ASSUME NEW p \in Requests, RequestStep(p)
      PROVE  NoRowIsZero'
  BY <1>2, <1>3, <1>4, <1>5 DEF RequestStep, ReserveRefused, ReserveFirstRefused, Insert,
     InsertRefused, InsertFails, InsertUnanswered, GiveBackFails, Crash, vars
<1>6. CASE Recount
  BY <1>6 DEF Recount, NoRowIsZero
<1> QED
  BY <1>1, <1>5, <1>6, NextSteps

LEMMA InitInv ==
    ASSUME Init
    PROVE  Inv
<1>1. TypeOK
  BY InitType
<1>2. existing = {} /\ Holding = {} /\ usage = 0 /\ HardLimit \in Nat
  BY QuotaAssumption DEF Init, Holding, HoldingAt, Idle
<1>3. Units = 0
  BY <1>2, FS_EmptySet DEF Units
<1> QED
  BY <1>1, <1>2, <1>3 DEF Inv, NoRowIsZero, Balance

LEMMA StepInv ==
    ASSUME Inv, [Next]_vars
    PROVE  Inv'
<1>1. CASE Next
  <2>1. TypeOK'
    BY <1>1, StepType DEF Inv
  <2>2. NoRowIsZero'
    BY <1>1, StepNoRow
  <2>3. CASE \E p \in Requests, i \in Items : ItemStep(p, i)
    BY <2>1, <2>2, <2>3, ItemStepBalance DEF Inv
  <2>4. CASE \E p \in Requests : RequestStep(p)
    BY <2>1, <2>2, <2>4, RequestStepBalance DEF Inv
  <2>5. CASE Recount
    <3>1. ~Covered'
      BY <2>5 DEF Recount, Fault, Covered
    <3> QED
      BY <2>1, <2>2, <3>1, UncoveredKeeps DEF Inv
  <2> QED
    BY <1>1, <2>3, <2>4, <2>5, NextSteps
<1>2. CASE UNCHANGED vars
  BY <1>2 DEF vars, Inv, TypeOK, NoRowIsZero, Balance, Covered, Units, Holding
<1> QED
  BY <1>1, <1>2

LEMMA Invariance == Spec => []Inv
BY InitInv, StepInv, PTL DEF Spec

-----------------------------------------------------------------------------
\* A creation or a deletion that is interrupted, refused, failed or not answered
\* leaves the counter too high, never too low (ReserveResourceSlot).
THEOREM CounterCovers == Spec => []NeverUndercounts
<1>1. Inv => NeverUndercounts
  BY CountType DEF Inv, Balance, Units, NeverUndercounts, TypeOK
<1> QED
  BY <1>1, Invariance, PTL

\* However many requests race for the last units, first reservations without a
\* row to lock included, no more resources exist than the limit allows
\* (ReserveUsage).
THEOREM LimitHolds == Spec => []WithinLimit
<1>1. Inv => WithinLimit
  BY CountType DEF Inv, Balance, Units, WithinLimit, TypeOK
<1> QED
  BY <1>1, Invariance, PTL

\* Requests that ran to their end without a fault leave the counter exact
\* (Create, DeleteByID).
THEOREM ExactWhenIdle == Spec => []ExactAtRest
<1>1. Inv => ExactAtRest
  <2> SUFFICES ASSUME Inv, faulted = {}, \A p \in Requests : request[p] = Idle
               PROVE  usage = Cardinality(existing)
    BY DEF ExactAtRest
  <2>1. Holding = {}
    BY DEF Holding, HoldingAt, Idle
  <2> QED
    BY <2>1, CountType, FS_EmptySet DEF Inv, Balance, Units, TypeOK
<1> QED
  BY <1>1, Invariance, PTL
=============================================================================
