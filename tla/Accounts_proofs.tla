--------------------------- MODULE Accounts_proofs ---------------------------
(* Proofs about Accounts for any accounts, addresses, bodies, links and       *)
(* requests.  The argument: a request carries what it was judged on, and what *)
(* it was judged on is still so unless another request has written since.     *)
EXTENDS Accounts, FiniteSetTheorems, TLAPS

-----------------------------------------------------------------------------
(* The inductive invariant: what is known of a request r that is at s.        *)

States == {Idle} \cup EditStates \cup Clicks \cup Closings

Judged == {"caller", "signs in", "count"}
Clicking == {"copy", "follow"}

\* Where an edit may be, and what it still carries of its body.
Shape(s) ==
    s \in EditStates =>
        /\ s.on \subseteq s.said.on /\ s.off \subseteq s.said.off
        /\ s.said.on \cap s.said.off = {}
        /\ (s.at \in Writing => s.at = s.does)
        /\ (s.at \in {"address", "address caller"} => (s.does = "update" /\ ~s.takes))
        /\ (s.does = "delete" => (s.takes /\ s.off = {}))
        /\ (s.at \in {"address", "address caller", "row"} => s.on = s.said.on)
        /\ (s.at \in {"address", "address caller", "row"} => (~s.two /\ ~s.flagged))

\* A body that says lock and still carries disabled: false is refused.
Agrees(s) ==
    s \in EditStates =>
        /\ (s.at = "update" => ~s.two)
        /\ ((s.at \in Judged \cup {"update"} /\ "lock" \in s.said.on
             /\ "disabled" \in s.off) => s.two)

\* The caller was found to be an administrator where it had to be one.
Vouched(r, s) ==
    s \in EditStates =>
        /\ (s.caller \in Administrators => r \in stood)
        /\ ((s.email # Keep /\ s.at \notin {"address", "address caller"}) => r \in stood)
        /\ (s.at \in {"signs in", "count"} => r \in stood)
        /\ ((s.at = "update" /\ "admin" \in s.on \cup s.off) => r \in stood)
        /\ ((s.at = "update" /\ s.flagged /\ Touches(s)) => r \in stood)
        /\ ((s.at = "delete" /\ s.flagged) => r \in stood)

\* What still holds while nothing was written during the request.
Fresh(r, s) ==
    r \notin stale =>
        /\ ((s \in EditStates /\ s.at \in Judged \cup {"update"} /\ s.does = "update"
             /\ s.target \in admins /\ TakesAway(s.on, s.off)) => s.takes)
        /\ ((s \in EditStates /\ s.at = "count") => s.target \in SigningIn)
        /\ ((s \in EditStates /\ s.at \in Writing /\ s.takes /\ s.target \in SigningIn)
                => \E b \in SigningIn : b # s.target)
        /\ ((s \in Closings /\ s.at = "close") => (SigningInWithout # {} \/ SigningIn = {}))

\* A link's request holds a token it has spent and not yet used.
Holding(s) ==
    s \in Clicks =>
        /\ mailed[s.token] # NotMailed
        /\ (s.at \in Clicking => s.token \in spent /\ served[s.token] = 0)

\* And that nobody else holds.
Apart(s, z) ==
    (s \in Clicks /\ z \in Clicks /\ s.at \in Clicking /\ z.at \in Clicking)
        => s.token # z.token

Facts(r, s) == Shape(s) /\ Agrees(s) /\ Vouched(r, s) /\ Fresh(r, s) /\ Holding(s)

Rows ==
    /\ locked \subseteq disabled
    /\ \A t \in Tokens : t \notin spent => served[t] = 0

Inv ==
    /\ TypeOK /\ Rows /\ AnAdministratorRemains
    /\ \A r \in Requests : Facts(r, request[r])
    /\ \A r, q \in Requests : r # q => Apart(request[r], request[q])

-----------------------------------------------------------------------------
(* A request that goes on without a write.                                    *)

LEMMA AtEdits ==
  ASSUME TypeOK, NEW r \in Requests
  PROVE  /\ request[r] \in States
         /\ At(r) \in Judging \cup Writing => request[r] \in EditStates
         /\ At(r) \in {"spend", "copy", "follow"} => request[r] \in Clicks
         /\ At(r) \in {"count without", "count now", "close"} => request[r] \in Closings
<1>1. request[r] \in States
  BY DEF TypeOK, States
<1>2. /\ \A s \in EditStates : s.at \in Judging \cup Writing
      /\ \A s \in Clicks : s.at \in {"spend", "copy", "follow"}
      /\ \A s \in Closings : s.at \in {"count without", "count now", "close"}
      /\ Idle.at = "idle"
  BY DEF EditStates, Clicks, Closings, Idle
<1> QED
  BY <1>1, <1>2 DEF States, At, Judging, Writing

LEMMA GoesOn ==
  ASSUME Inv, NEW r \in Requests, NEW s \in States, Goes(r, s), Facts(r, s),
         \A q \in Requests \ {r} : Apart(s, request[q])
  PROVE  Inv'
<1>1. TypeOK'
  BY DEF Inv, TypeOK, Goes, Reads, columns, history, States
<1>2. Rows' /\ AnAdministratorRemains'
  BY DEF Inv, Rows, AnAdministratorRemains, Goes, Reads, columns, history, SigningIn,
         Administrators, Linked
<1>3. \A q \in Requests : request'[q] = IF q = r THEN s ELSE request[q]
  BY DEF Inv, TypeOK, Goes
<1>4. /\ UNCHANGED <<columns, linked, open, mailed, spent, served, stale, stood>>
      /\ Administrators' = Administrators /\ SigningIn' = SigningIn
      /\ SigningInWithout' = SigningInWithout
  BY DEF Goes, Reads, columns, history, SigningIn, SigningInWithout, Administrators,
         Linked
<1>5. ASSUME NEW q \in Requests, NEW CONSTANT z, Facts(q, z)
      PROVE  Facts(q, z)'
  <2>1. Shape(z)' /\ Agrees(z)'
    BY <1>5 DEF Facts, Shape, Agrees
  <2>2. Vouched(q, z)'
    BY <1>4, <1>5 DEF Facts, Vouched, Touches
  <2>3. Fresh(q, z)'
    BY <1>4, <1>5 DEF Facts, Fresh, TakesAway, columns
  <2>4. Holding(z)'
    BY <1>4, <1>5 DEF Facts, Holding
  <2> QED
    BY <2>1, <2>2, <2>3, <2>4 DEF Facts
<1>6. ASSUME NEW q \in Requests
      PROVE  Facts(q, request[q])'
  <2>1. PICK z : z = request'[q]
    OBVIOUS
  <2>2. Facts(q, z)
    BY <2>1, <1>3 DEF Inv
  <2>3. Facts(q, z)'
    BY <2>2, <1>5
  <2>4. Shape(z)' /\ Agrees(z)' /\ Vouched(q, z)' /\ Fresh(q, z)' /\ Holding(z)'
    BY <2>3, Zenon DEF Facts
  <2>5. Shape(request[q])'
    BY <2>1, <2>4 DEF Shape
  <2>6. Agrees(request[q])'
    BY <2>1, <2>4 DEF Agrees
  <2>7. Vouched(q, request[q])'
    BY <2>1, <2>4 DEF Vouched, Touches
  <2>8. Fresh(q, request[q])'
    BY <2>1, <2>4 DEF Fresh, TakesAway
  <2>9. Holding(request[q])'
    BY <2>1, <2>4 DEF Holding
  <2> QED
    BY <2>5, <2>6, <2>7, <2>8, <2>9, Zenon DEF Facts
<1>7. ASSUME NEW p \in Requests, NEW q \in Requests, p # q
      PROVE  Apart(request[p], request[q])'
  BY <1>3, <1>7 DEF Inv, Apart
<1> QED
  BY <1>1, <1>2, <1>6, <1>7 DEF Inv

-----------------------------------------------------------------------------
(* A write: whatever it does, it leaves the other requests stale.             *)

LEMMA WroteOn ==
  ASSUME Inv, TypeOK', Rows', AnAdministratorRemains',
         \A q \in Requests : request'[q] \in {request[q], Idle},
         \A q \in Requests : request'[q] # Idle => q \in stale',
         \A q \in Requests : (request'[q] # Idle /\ IsEdit(q)
                              /\ request[q].caller \in Administrators') => q \in stood',
         stood \subseteq stood', mailed' = mailed, spent' = spent,
         \A q \in Requests : (request'[q] # Idle /\ At(q) \in Clicking) =>
             served'[request[q].token] = served[request[q].token]
  PROVE  Inv'
<1>1. /\ Idle \notin EditStates /\ Idle \notin Clicks /\ Idle \notin Closings
      /\ \A z \in EditStates : z.at \in Judging \cup Writing
  BY DEF Idle, EditStates, Clicks, Closings, Judging, Writing
<1>2. ASSUME NEW q \in Requests
      PROVE  Facts(q, request[q])'
  <2>1. PICK z : z = request'[q]
    OBVIOUS
  <2>2. z # Idle => (z = request[q] /\ q \in stale')
    BY <2>1
  <2>3. z # Idle => Facts(q, z)
    BY <2>2, Zenon DEF Inv
  <2>4. z # Idle => (Shape(z) /\ Agrees(z) /\ Vouched(q, z) /\ Holding(z))
    BY <2>3, Zenon DEF Facts
  <2>5. Shape(request[q])'
    BY <2>1, <2>4, <1>1 DEF Shape
  <2>6. Agrees(request[q])'
    BY <2>1, <2>4, <1>1 DEF Agrees
  <2>7. Vouched(q, request[q])'
    <3>1. (z # Idle /\ z \in EditStates /\ z.caller \in Administrators') => q \in stood'
      BY <2>1, <2>2, <1>1 DEF IsEdit, At
    <3>2. (z # Idle /\ q \in stood) => q \in stood'
      OBVIOUS
    <3> QED
      BY <2>1, <2>4, <3>1, <3>2, <1>1 DEF Vouched, Touches
  <2>8. Fresh(q, request[q])'
    BY <2>1, <2>2, <1>1 DEF Fresh
  <2>9. Holding(request[q])'
    BY <2>1, <2>2, <2>4, <1>1 DEF Holding, At
  <2> QED
    BY <2>5, <2>6, <2>7, <2>8, <2>9, Zenon DEF Facts
<1>3. ASSUME NEW p \in Requests, NEW q \in Requests, p # q
      PROVE  Apart(request[p], request[q])'
  BY <1>1, <1>3 DEF Inv, Apart
<1> QED
  BY <1>2, <1>3 DEF Inv

-----------------------------------------------------------------------------
(* The questions of an edit, one by one.                                      *)

LEMMA Ending ==
  ASSUME Inv, NEW r \in Requests, Ends(r)
  PROVE  Inv'
<1>1. /\ Idle \in States /\ Idle \notin EditStates /\ Idle \notin Clicks
      /\ Idle \notin Closings
  BY DEF States, Idle, EditStates, Clicks, Closings
<1>2. Facts(r, Idle) /\ \A q \in Requests \ {r} : Apart(Idle, request[q])
  BY <1>1 DEF Facts, Shape, Agrees, Vouched, Fresh, Holding, Apart
<1> QED
  BY <1>1, <1>2, GoesOn DEF Ends

\* An edit that goes on holds no token.
LEMMA EditGoesOn ==
  ASSUME Inv, NEW r \in Requests, NEW s \in EditStates, Goes(r, s),
         Shape(s), Agrees(s), Vouched(r, s), Fresh(r, s)
  PROVE  Inv'
<1>1. s \in States /\ s \notin Clicks
  BY DEF States, EditStates, Clicks, Judging, Writing
<1>2. Facts(r, s) /\ \A q \in Requests \ {r} : Apart(s, request[q])
  BY <1>1 DEF Facts, Holding, Apart
<1> QED
  BY <1>1, <1>2, GoesOn

LEMMA JudgesAddress ==
  ASSUME Inv, NEW r \in Requests, NEW address \in Addresses \cup {Keep},
         At(r) \in {"address", "address caller"}, AddressJudged(r, address),
         address # Keep => r \in stood
  PROVE  Inv'
<1> DEFINE s == [request[r] EXCEPT !.email = address,
                     !.at = IF Touches(request[r]) THEN "row" ELSE "update"]
<1>1. request[r] \in EditStates /\ Facts(r, request[r])
  BY AtEdits, Zenon DEF Inv, Judging
<1>2. s \in EditStates
  BY <1>1 DEF EditStates, Judging, Writing
<1>3. /\ s.email = address /\ s.at = (IF Touches(request[r]) THEN "row" ELSE "update")
      /\ s.on = request[r].on /\ s.off = request[r].off /\ s.said = request[r].said
      /\ s.caller = request[r].caller /\ s.does = request[r].does
      /\ s.target = request[r].target /\ s.two = request[r].two
      /\ s.takes = request[r].takes /\ s.flagged = request[r].flagged
  BY <1>1 DEF EditStates
<1> HIDE DEF s
<1>4. /\ request[r].does = "update" /\ ~request[r].two /\ ~request[r].takes
      /\ ~request[r].flagged
      /\ request[r].on \subseteq request[r].said.on
      /\ request[r].off \subseteq request[r].said.off
      /\ request[r].on = request[r].said.on
      /\ request[r].said.on \cap request[r].said.off = {}
  BY <1>1 DEF Facts, Shape, At
<1>5. /\ s.at \in {"row", "update"} /\ (s.at = "update" => (s.on = {} /\ s.off = {}))
  BY <1>3 DEF Touches
<1>6. Shape(s)
  BY <1>3, <1>4, <1>5 DEF Shape, Writing
<1>7. Agrees(s)
  BY <1>3, <1>4, <1>5 DEF Agrees, Judged
<1>9. Vouched(r, s)
  <2>1. request[r].caller \in Administrators => r \in stood
    BY <1>1 DEF Facts, Vouched
  <2> QED
    BY <2>1, <1>3, <1>5 DEF Vouched, Touches
<1>10. Fresh(r, s)
  <2>1. s \notin Closings /\ s.at \notin Judged /\ s.at # "count"
    BY <1>2, <1>5 DEF EditStates, Closings, Judging, Writing, Judged
  <2>2. s.at = "update" => ~TakesAway(s.on, s.off)
    BY <1>5 DEF TakesAway
  <2> QED
    BY <1>3, <1>4, <2>1, <2>2 DEF Fresh
<1>11. Goes(r, s)
  BY DEF AddressJudged, s
<1> QED
  BY <1>2, <1>6, <1>7, <1>9, <1>10, <1>11, EditGoesOn

LEMMA AddressSteps ==
  ASSUME Inv, NEW r \in Requests, ReadAddress(r) \/ AskAddressCaller(r)
  PROVE  Inv'
<1>1. request[r] \in EditStates /\ Facts(r, request[r])
  BY AtEdits, Zenon DEF Inv, Judging, ReadAddress, AskAddressCaller
<1>2. CASE ReadAddress(r) /\ AddressJudged(r, Keep)
  BY <1>2, JudgesAddress DEF ReadAddress
<1>3. CASE ReadAddress(r) /\ Ends(r)
  BY <1>3, Ending
<1>4. CASE ReadAddress(r) /\ Goes(r, [request[r] EXCEPT !.at = "address caller"])
  <2> DEFINE s == [request[r] EXCEPT !.at = "address caller"]
  <2>1. s \in EditStates /\ s.at = "address caller" /\ request[r].at = "address"
    BY <1>1, <1>4 DEF EditStates, Judging, ReadAddress, At
  <2>2. /\ s.on = request[r].on /\ s.off = request[r].off /\ s.said = request[r].said
        /\ s.caller = request[r].caller /\ s.does = request[r].does
        /\ s.two = request[r].two /\ s.takes = request[r].takes
        /\ s.flagged = request[r].flagged
    BY <1>1 DEF EditStates
  <2> HIDE DEF s
  <2>3. Shape(s) /\ Agrees(s)
    BY <1>1, <2>1, <2>2 DEF Facts, Shape, Agrees, Judged, Writing
  <2>4. Vouched(r, s)
    BY <1>1, <2>1, <2>2 DEF Facts, Vouched
  <2>5. Fresh(r, s)
    BY <2>1 DEF Fresh, Judged, Writing
  <2>6. Goes(r, s)
    BY <1>4 DEF s
  <2> QED
    BY <2>1, <2>3, <2>4, <2>5, <2>6, EditGoesOn
<1>5. CASE AskAddressCaller(r) /\ Ends(r)
  BY <1>5, Ending
<1>6. CASE /\ AskAddressCaller(r) /\ AddressJudged(r, request[r].email)
           /\ request[r].caller \in Administrators
  <2>1. request[r].email \in Addresses \cup {Keep} /\ r \in stood
    BY <1>1, <1>6 DEF EditStates, Facts, Vouched
  <2> QED
    BY <1>6, <2>1, JudgesAddress DEF AskAddressCaller
<1> QED
  BY <1>2, <1>3, <1>4, <1>5, <1>6, Zenon DEF ReadAddress, AskAddressCaller

LEMMA RowIsRead ==
  ASSUME Inv, NEW r \in Requests, ReadRow(r)
  PROVE  Inv'
<1> DEFINE a == request[r].target
           u == request[r]
           on == u.on \ Dropped(a, u)
           off == u.off \ Dropped(a, u)
           two == TwoDirections(a, u)
           judged == [u EXCEPT !.on = on, !.off = off, !.two = two,
                               !.flagged = (a \in admins),
                               !.takes = (a \in admins /\ TakesAway(on, off))]
<1>1. /\ u \in EditStates /\ Facts(r, u) /\ u.at = "row" /\ u.does = "update"
      /\ a \in Users /\ u.on \subseteq Fields /\ u.off \subseteq Fields
  <2>1. u \in EditStates /\ Facts(r, u)
    BY AtEdits, Zenon DEF Inv, Judging, ReadRow
  <2> QED
    BY <2>1 DEF EditStates, ReadRow, At
<1>2. two \in BOOLEAN /\ (a \in admins) \in BOOLEAN
      /\ (a \in admins /\ TakesAway(on, off)) \in BOOLEAN
  BY DEF TwoDirections
<1>3. ASSUME NEW p \in {"caller", "update"}, p = "update" => (~AsksCaller(a, on, off) /\ ~two),
             Goes(r, [judged EXCEPT !.at = p])
      PROVE  Inv'
  <2> DEFINE s == [judged EXCEPT !.at = p]
  <2>1. s \in EditStates
    <3>1. on \in SUBSET Fields /\ off \in SUBSET Fields
      BY <1>1
    <3> HIDE DEF on, off, two
    <3> QED
      BY <1>1, <1>2, <3>1, <1>3 DEF EditStates, Judging, Writing
  <2>2. /\ s.at = p /\ s.on = on /\ s.off = off /\ s.two = two
        /\ s.flagged = (a \in admins) /\ s.takes = (a \in admins /\ TakesAway(on, off))
        /\ s.said = u.said /\ s.caller = u.caller /\ s.email = u.email
        /\ s.does = "update" /\ s.target = a
    <3> HIDE DEF on, off, two
    <3> QED
      BY <1>1 DEF EditStates
  <2> HIDE DEF s
  <2>3. Goes(r, s)
    BY <1>3 DEF s
  <2>4. /\ u.on = u.said.on /\ u.off \subseteq u.said.off
        /\ u.said.on \cap u.said.off = {}
    BY <1>1 DEF Facts, Shape
  <2>5. Shape(s)
    <3>1. on \subseteq u.said.on /\ off \subseteq u.said.off
      BY <2>4
    <3> HIDE DEF on, off
    <3> QED
      BY <2>2, <2>4, <3>1 DEF Shape, Writing
  <2>6. Agrees(s)
    <3>1. ("lock" \in u.said.on /\ "disabled" \in off) => two
      BY <2>4 DEF TwoDirections, Dropped, NoChange, Held, Fields
    <3> HIDE DEF on, off, two
    <3> QED
      BY <2>2, <3>1, <1>3 DEF Agrees
  <2>7. Vouched(r, s)
    <3>1. (u.caller \in Administrators => r \in stood) /\ (u.email # Keep => r \in stood)
      BY <1>1 DEF Facts, Vouched
    <3> HIDE DEF on, off, two
    <3> QED
      BY <2>2, <3>1, <1>3 DEF Vouched, AsksCaller, Touches
  <2>8. Fresh(r, s)
    <3> HIDE DEF on, off, two
    <3>1. s.at # "count" /\ s.at # "close"
      BY <2>2
    <3>2. s.at \in Writing => ~s.takes
      BY <2>2, <1>3 DEF Writing, AsksCaller, TakesAway
    <3> QED
      BY <2>2, <3>1, <3>2 DEF Fresh
  <2> QED
    BY <2>1, <2>3, <2>5, <2>6, <2>7, <2>8, EditGoesOn
<1>4. CASE Ends(r)
  BY <1>4, Ending
<1> HIDE DEF judged, on, off, two
<1>5. CASE AsksCaller(a, on, off) /\ Goes(r, [judged EXCEPT !.at = "caller"])
  BY <1>5, <1>3
<1>6. CASE ~AsksCaller(a, on, off) /\ ~two /\ Goes(r, [judged EXCEPT !.at = "update"])
  BY <1>6, <1>3
<1>7. \/ Ends(r)
      \/ AsksCaller(a, on, off) /\ Goes(r, [judged EXCEPT !.at = "caller"])
      \/ ~AsksCaller(a, on, off) /\ ~two /\ Goes(r, [judged EXCEPT !.at = "update"])
  BY Zenon DEF ReadRow, judged, on, off, two
<1> QED
  BY <1>4, <1>5, <1>6, <1>7

\* An edit that has been asked everything.
LEMMA PassesOn ==
  ASSUME Inv, NEW r \in Requests, At(r) \in Judged, Passes(r), r \in stood,
         (r \notin stale /\ request[r].takes /\ request[r].target \in SigningIn)
             => \E b \in SigningIn : b # request[r].target
  PROVE  Inv'
<1> DEFINE s == [request[r] EXCEPT !.at = request[r].does]
<1>1. request[r] \in EditStates /\ Facts(r, request[r])
  BY AtEdits, Zenon DEF Inv, Judging, Judged
<1>2. CASE request[r].two
  BY <1>2, Ending DEF Passes
<1>3. CASE ~request[r].two
  <2>1. s \in EditStates /\ s.at = request[r].does /\ s.at \in Writing
    BY <1>1 DEF EditStates, Judging, Writing
  <2>2. /\ s.on = request[r].on /\ s.off = request[r].off /\ s.said = request[r].said
        /\ s.caller = request[r].caller /\ s.does = request[r].does
        /\ s.two = request[r].two /\ s.takes = request[r].takes
        /\ s.target = request[r].target /\ s.email = request[r].email
    BY <1>1 DEF EditStates
  <2>3. Goes(r, s)
    BY <1>3 DEF Passes
  <2> HIDE DEF s
  <2>4. Shape(s)
    BY <1>1, <2>1, <2>2 DEF Facts, Shape, Writing
  <2>5. Agrees(s)
    BY <1>1, <1>3, <2>1, <2>2 DEF Facts, Agrees, Writing, Judged, At
  <2>6. Vouched(r, s)
    BY <2>1, <2>2 DEF Vouched
  <2>7. Fresh(r, s)
    <3>1. request[r].at \in Judged
      BY DEF At
    <3>2. s.at # "count" /\ s.at # "close"
      BY <2>1 DEF Writing
    <3> QED
      BY <1>1, <2>1, <2>2, <3>1, <3>2 DEF Facts, Fresh, Writing, Judged
  <2> QED
    BY <2>1, <2>3, <2>4, <2>5, <2>6, <2>7, EditGoesOn
<1> QED
  BY <1>2, <1>3

\* One that goes to another question.
LEMMA AskedNext ==
  ASSUME Inv, NEW r \in Requests, At(r) \in Judged, NEW p \in {"signs in", "count"},
         Goes(r, [request[r] EXCEPT !.at = p]), r \in stood,
         p = "count" => request[r].target \in SigningIn
  PROVE  Inv'
<1> DEFINE s == [request[r] EXCEPT !.at = p]
<1>1. request[r] \in EditStates /\ Facts(r, request[r])
  BY AtEdits, Zenon DEF Inv, Judging, Judged
<1>2. s \in EditStates /\ s.at = p
  BY <1>1 DEF EditStates, Judging, Writing
<1>3. /\ s.on = request[r].on /\ s.off = request[r].off /\ s.said = request[r].said
      /\ s.caller = request[r].caller /\ s.does = request[r].does
      /\ s.two = request[r].two /\ s.takes = request[r].takes
      /\ s.target = request[r].target /\ s.email = request[r].email
  BY <1>1 DEF EditStates
<1> HIDE DEF s
<1>4. Shape(s)
  BY <1>1, <1>2, <1>3 DEF Facts, Shape, Writing
<1>5. Agrees(s)
  BY <1>1, <1>2, <1>3 DEF Facts, Agrees, Judged, At
<1>6. Vouched(r, s)
  BY <1>2, <1>3 DEF Vouched
<1>7. Fresh(r, s)
  <2>1. s.at \notin Writing /\ s.at # "close" /\ request[r].at \in Judged
    BY <1>2 DEF Writing, At
  <2> QED
    BY <1>1, <1>2, <1>3, <2>1 DEF Facts, Fresh, Judged
<1>8. Goes(r, s)
  BY DEF s
<1> QED
  BY <1>2, <1>4, <1>5, <1>6, <1>7, <1>8, EditGoesOn

LEMMA AdministratorsFinite ==
  ASSUME TypeOK
  PROVE  IsFiniteSet(SigningIn)
BY FS_Subset, AccountsAssumption DEF TypeOK, AccountsAssumption, SigningIn, Administrators

LEMMA MoreThanOne ==
  ASSUME NEW S, IsFiniteSet(S), ~(Cardinality(S) <= 1), NEW a
  PROVE  \E b \in S : b # a
<1>1. SUFFICES ASSUME \A b \in S : b = a
               PROVE  FALSE
  OBVIOUS
<1>2. S \subseteq {a} /\ IsFiniteSet({a}) /\ Cardinality({a}) = 1
  BY <1>1, FS_Singleton
<1> QED
  BY <1>2, FS_Subset, FS_CardinalityType

LEMMA QuestionSteps ==
  ASSUME Inv, NEW r \in Requests, AskCaller(r) \/ AskSignsIn(r) \/ AskCount(r)
  PROVE  Inv'
<1>1. At(r) \in Judged /\ request[r] \in EditStates /\ Facts(r, request[r])
  BY AtEdits, Zenon DEF Inv, Judging, Judged, AskCaller, AskSignsIn, AskCount
<1>2. CASE Ends(r)
  BY <1>2, Ending
<1>3. CASE AskCaller(r) /\ request[r].caller \in Administrators
  <2>1. r \in stood
    BY <1>1, <1>3 DEF Facts, Vouched
  <2> QED
    BY <1>1, <1>3, <2>1, PassesOn, AskedNext DEF AskCaller
<1>4. CASE AskSignsIn(r)
  <2>1. r \in stood
    BY <1>1, <1>4 DEF Facts, Vouched, AskSignsIn, At
  <2> QED
    BY <1>1, <1>4, <2>1, PassesOn, AskedNext DEF AskSignsIn
<1>5. CASE AskCount(r) /\ Passes(r)
  <2>1. r \in stood
    BY <1>1, <1>5 DEF Facts, Vouched, AskCount, At
  <2>2. IsFiniteSet(SigningIn)
    BY AdministratorsFinite DEF Inv
  <2>3. Cardinality(SigningIn) <= 1 => Ends(r)
    BY <1>5 DEF AskCount
  <2> QED
    BY <1>1, <1>2, <1>5, <2>1, <2>2, <2>3, PassesOn, MoreThanOne
<1> QED
  BY <1>2, <1>3, <1>4, <1>5 DEF AskCaller, AskCount

-----------------------------------------------------------------------------
(* Steps that write no account and are not only a request going on.           *)

\* What is known of a request they leave where it is.
LEMMA OthersKeep ==
  ASSUME Inv, NEW q \in Requests, request'[q] = request[q],
         UNCHANGED <<columns, linked, open, served>>,
         q \in stale' <=> q \in stale, q \in stood' <=> q \in stood,
         spent \subseteq spent',
         \A t \in Tokens : mailed[t] # NotMailed => mailed'[t] # NotMailed
  PROVE  Facts(q, request[q])'
<1>1. PICK z : z = request'[q]
  OBVIOUS
<1>2. Facts(q, z) /\ z \in States
  BY <1>1, AtEdits DEF Inv
<1>3. Shape(z) /\ Agrees(z) /\ Vouched(q, z) /\ Fresh(q, z) /\ Holding(z)
  BY <1>2, Zenon DEF Facts
<1>4. /\ Administrators' = Administrators /\ SigningIn' = SigningIn
      /\ SigningInWithout' = SigningInWithout /\ admins' = admins
  BY DEF columns, SigningIn, SigningInWithout, Administrators, Linked
<1>5. Shape(request[q])'
  BY <1>1, <1>3 DEF Shape
<1>6. Agrees(request[q])'
  BY <1>1, <1>3 DEF Agrees
<1>7. Vouched(q, request[q])'
  BY <1>1, <1>3, <1>4 DEF Vouched, Touches
<1>8. Fresh(q, request[q])'
  BY <1>1, <1>3, <1>4 DEF Fresh, TakesAway
<1>9. Holding(request[q])'
  <2>1. z \in Clicks => z.token \in Tokens
    BY DEF Clicks
  <2> QED
    BY <1>1, <1>3, <2>1 DEF Holding
<1> QED
  BY <1>5, <1>6, <1>7, <1>8, <1>9, Zenon DEF Facts

LEMMA OneMore ==
  ASSUME NEW n \in Nat
  PROVE  n + 1 \in Nat
OBVIOUS

LEMMA StartsOn ==
  ASSUME Inv, NEW r \in Requests, NEW s \in States, Starts(r, s), Reads,
         stood' \subseteq Requests,
         \A q \in Requests \ {r} : q \in stood' <=> q \in stood,
         Shape(s), s.at \in {"address", "row", "spend", "count without"},
         s \in EditStates => /\ (s.caller \in Administrators => r \in stood')
                             /\ (s.at = "row" => s.email = Keep),
         s \in Clicks => mailed[s.token] # NotMailed
  PROVE  Inv'
<1>1. TypeOK'
  <2>1. request' \in [Requests -> States]
    BY DEF Inv, TypeOK, Starts, States
  <2>2. stale' = stale \ {r} /\ overlapped' = overlapped
    BY DEF Starts
  <2>3. started' \in Nat
    <3>1. started \in Nat
      BY DEF Inv, TypeOK
    <3>2. started' = started + 1
      BY Zenon DEF Starts
    <3> QED
      BY <3>1, <3>2, OneMore, Zenon
  <2> QED
    BY <2>1, <2>2, <2>3 DEF Inv, TypeOK, Reads, columns, States
<1>2. Rows' /\ AnAdministratorRemains'
  BY DEF Inv, Rows, AnAdministratorRemains, Starts, Reads, columns, SigningIn,
         Administrators, Linked
<1>3. \A q \in Requests : request'[q] = IF q = r THEN s ELSE request[q]
  BY DEF Inv, TypeOK, Starts
<1>4. UNCHANGED <<columns, linked, open, served, spent, mailed>>
  BY DEF Reads
<1>5. ASSUME NEW q \in Requests
      PROVE  Facts(q, request[q])'
  <2>1. CASE q = r
    <3>1. Administrators' = Administrators
      BY <1>4 DEF columns, Administrators
    <3>2. request'[q] = s
      BY <1>3, <2>1
    <3>3. Shape(request[q])'
      BY <3>2 DEF Shape
    <3>4. Agrees(request[q])'
      BY <3>2 DEF Agrees, Judged
    <3>5. Vouched(q, request[q])'
      <4>1. s.at \notin {"signs in", "count", "update", "delete"}
        OBVIOUS
      <4>2. s \in EditStates => (s.caller \in Administrators' => r \in stood')
        BY <3>1
      <4>3. (s \in EditStates /\ s.email # Keep) => s.at = "address"
        BY DEF EditStates, Judging, Writing
      <4> QED
        BY <2>1, <3>2, <4>1, <4>2, <4>3 DEF Vouched
    <3>6. Fresh(q, request[q])'
      BY <3>2 DEF Fresh, Judged, Writing
    <3>7. Holding(request[q])'
      BY <3>2, <1>4 DEF Holding, Clicking
    <3> QED
      BY <3>3, <3>4, <3>5, <3>6, <3>7, Zenon DEF Facts
  <2>2. CASE q # r
    <3>1. (q \in stale' <=> q \in stale) /\ request'[q] = request[q]
      BY <1>3, <2>2 DEF Starts
    <3>2. \A t \in Tokens : mailed[t] # NotMailed => mailed'[t] # NotMailed
      BY <1>4
    <3> QED
      BY <1>4, <2>2, <3>1, <3>2, OthersKeep
  <2> QED
    BY <2>1, <2>2
<1>6. ASSUME NEW p \in Requests, NEW q \in Requests, p # q
      PROVE  Apart(request[p], request[q])'
  BY <1>3, <1>6 DEF Inv, Apart, Clicking
<1> QED
  BY <1>1, <1>2, <1>5, <1>6 DEF Inv

LEMMA EditStarts ==
  ASSUME Inv, NEW r \in Requests, StartUpdate(r) \/ StartDelete(r)
  PROVE  Inv'
<1>1. CASE StartUpdate(r)
  <2>1. PICK caller \in Users, a \in Users, u \in Bodies :
          /\ Starts(r, [at |-> IF u.email # Keep THEN "address" ELSE "row",
                        does |-> "update", caller |-> caller, target |-> a,
                        email |-> u.email, on |-> u.on, off |-> u.off, said |-> u,
                        flagged |-> FALSE, takes |-> FALSE, two |-> FALSE])
          /\ stood' = IF caller \in Administrators
                      THEN stood \cup {r} ELSE stood \ {r}
          /\ Reads
    BY <1>1, Zenon DEF StartUpdate
  <2> DEFINE s == [at |-> IF u.email # Keep THEN "address" ELSE "row",
                   does |-> "update", caller |-> caller, target |-> a,
                   email |-> u.email, on |-> u.on, off |-> u.off, said |-> u,
                   flagged |-> FALSE, takes |-> FALSE, two |-> FALSE]
  <2>2. u \in Updates /\ u.on \cap u.off = {}
    BY AccountsAssumption DEF AccountsAssumption
  <2>3. s \in EditStates
    BY <2>2 DEF EditStates, Updates, Judging, Writing
  <2>4. s \in States /\ s \notin Clicks
    BY <2>3 DEF States, EditStates, Clicks, Judging, Writing
  <2>5. Shape(s)
    BY <2>2 DEF Shape, Writing
  <2>6. s.at \in {"address", "row"} /\ (s.at = "row" => s.email = Keep) /\ s.caller = caller
    OBVIOUS
  <2>7. /\ stood' \subseteq Requests
        /\ \A q \in Requests \ {r} : q \in stood' <=> q \in stood
        /\ caller \in Administrators => r \in stood'
    BY <2>1 DEF Inv, TypeOK
  <2>8. Starts(r, s) /\ Reads
    BY <2>1
  <2> HIDE DEF s
  <2> QED
    BY <2>4, <2>5, <2>6, <2>7, <2>8, StartsOn
<1>2. CASE StartDelete(r)
  <2>1. PICK caller \in Users, a \in Users :
          /\ Starts(r, [at |-> "row", does |-> "delete", caller |-> caller,
                        target |-> a, email |-> Keep, on |-> {}, off |-> {},
                        said |-> [email |-> Keep, on |-> {}, off |-> {}],
                        flagged |-> FALSE, takes |-> TRUE, two |-> FALSE])
          /\ stood' = IF caller \in Administrators
                      THEN stood \cup {r} ELSE stood \ {r}
          /\ Reads
    BY <1>2, Zenon DEF StartDelete
  <2> DEFINE s == [at |-> "row", does |-> "delete", caller |-> caller,
                   target |-> a, email |-> Keep, on |-> {}, off |-> {},
                   said |-> [email |-> Keep, on |-> {}, off |-> {}],
                   flagged |-> FALSE, takes |-> TRUE, two |-> FALSE]
  <2>2. [email |-> Keep, on |-> {}, off |-> {}] \in Updates
    BY DEF Updates
  <2>3. s \in EditStates
    BY <2>2 DEF EditStates, Judging, Writing
  <2>4. s \in States /\ s \notin Clicks
    BY <2>3 DEF States, EditStates, Clicks, Judging, Writing
  <2>5. Shape(s)
    BY DEF Shape, Writing
  <2>6. s.at = "row" /\ s.email = Keep /\ s.caller = caller
    OBVIOUS
  <2>7. /\ stood' \subseteq Requests
        /\ \A q \in Requests \ {r} : q \in stood' <=> q \in stood
        /\ caller \in Administrators => r \in stood'
    BY <2>1 DEF Inv, TypeOK
  <2>8. Starts(r, s) /\ Reads
    BY <2>1
  <2> HIDE DEF s
  <2> QED
    BY <2>4, <2>5, <2>6, <2>7, <2>8, StartsOn
<1> QED
  BY <1>1, <1>2

LEMMA LinkStarts ==
  ASSUME Inv, NEW r \in Requests, Click(r)
  PROVE  Inv'
<1>1. PICK t \in Tokens :
        /\ mailed[t] # NotMailed /\ Starts(r, [at |-> "spend", token |-> t])
        /\ Reads /\ UNCHANGED stood
  BY DEF Click
<1> DEFINE s == [at |-> "spend", token |-> t]
<1>2. s \in Clicks /\ s.at = "spend" /\ s.token = t
  BY DEF Clicks
<1>3. s \in States /\ s \notin EditStates
  BY <1>2 DEF States, EditStates, Judging, Writing
<1>4. Shape(s) /\ stood' \subseteq Requests
  BY <1>1, <1>3 DEF Shape, Inv, TypeOK
<1>5. Starts(r, s)
  BY <1>1
<1> HIDE DEF s
<1> QED
  BY <1>1, <1>2, <1>3, <1>4, <1>5, StartsOn

LEMMA CloseStarts ==
  ASSUME Inv, NEW r \in Requests, StartClose(r)
  PROVE  Inv'
<1> DEFINE s == [at |-> "count without"]
<1>1. s \in States /\ s \notin EditStates /\ s \notin Clicks /\ s.at = "count without"
  BY DEF States, EditStates, Clicks, Closings, Judging, Writing
<1>2. Shape(s) /\ stood' \subseteq Requests /\ stood' = stood /\ Reads
  BY <1>1 DEF Shape, Inv, TypeOK, StartClose
<1>3. Starts(r, s)
  BY DEF StartClose
<1> HIDE DEF s
<1> QED
  BY <1>1, <1>2, <1>3, StartsOn

LEMMA DeletedIsRead ==
  ASSUME Inv, NEW r \in Requests, ReadDeleted(r)
  PROVE  Inv'
<1>1. request[r] \in EditStates /\ Facts(r, request[r])
  BY AtEdits, Zenon DEF Inv, Judging, ReadDeleted
<1>2. request[r].at = "row" /\ request[r].does = "delete"
  BY DEF ReadDeleted, At
<1>3. ASSUME NEW p \in {"caller", "delete"}, NEW f \in BOOLEAN,
             f = (IF p = "caller" THEN TRUE ELSE request[r].flagged),
             p = "caller" <=> request[r].target \in admins,
             Goes(r, [request[r] EXCEPT !.at = p, !.flagged = f])
      PROVE  Inv'
  <2> DEFINE s == [request[r] EXCEPT !.at = p, !.flagged = f]
  <2>1. s \in EditStates /\ s.at = p
    BY <1>1, <1>3 DEF EditStates, Judging, Writing
  <2>2. /\ s.on = request[r].on /\ s.off = request[r].off /\ s.said = request[r].said
        /\ s.caller = request[r].caller /\ s.does = "delete" /\ s.flagged = f
        /\ s.two = request[r].two /\ s.takes = request[r].takes
        /\ s.target = request[r].target /\ s.email = request[r].email
    BY <1>1, <1>2 DEF EditStates
  <2>3. Goes(r, s)
    BY <1>3
  <2> HIDE DEF s
  <2>4. Shape(s)
    BY <1>1, <1>2, <2>1, <2>2 DEF Facts, Shape, Writing
  <2>5. Agrees(s)
    BY <1>1, <1>2, <2>1, <2>2 DEF Facts, Shape, Agrees, Judged
  <2>6. Vouched(r, s)
    BY <1>1, <1>2, <1>3, <2>1, <2>2 DEF Facts, Shape, Vouched
  <2>7. Fresh(r, s)
    <3>1. s.at = "delete" => s.target \notin SigningIn
      BY <1>3, <2>1, <2>2 DEF SigningIn, Administrators
    <3> QED
      BY <2>1, <2>2, <3>1 DEF Fresh, Writing
  <2> QED
    BY <2>1, <2>3, <2>4, <2>5, <2>6, <2>7, EditGoesOn
<1>4. CASE request[r].target \in admins
  BY <1>3, <1>4 DEF ReadDeleted
<1>5. CASE request[r].target \notin admins
  <2>1. [request[r] EXCEPT !.at = "delete"]
          = [request[r] EXCEPT !.at = "delete", !.flagged = request[r].flagged]
    BY <1>1 DEF EditStates
  <2>2. request[r].flagged \in BOOLEAN
    BY <1>1 DEF EditStates
  <2> QED
    BY <1>3, <1>5, <2>1, <2>2 DEF ReadDeleted
<1> QED
  BY <1>4, <1>5

-----------------------------------------------------------------------------
(* A link is spent, and the provider's count.                                 *)

LEMMA LinkIsSpent ==
  ASSUME Inv, NEW r \in Requests, Spend(r)
  PROVE  Inv'
<1>1. CASE Ends(r)
  BY <1>1, Ending
<1>2. CASE ~Ends(r)
  <2> DEFINE t == request[r].token
             p == IF mailed[t].kind = "reset" THEN "follow" ELSE "copy"
             s == [request[r] EXCEPT !.at = p]
  <2>1. request[r] \in Clicks /\ Facts(r, request[r]) /\ t \in Tokens
    <3>1. request[r] \in Clicks /\ Facts(r, request[r])
      BY AtEdits, Zenon DEF Inv, Spend
    <3> QED
      BY <3>1 DEF Clicks
  <2>2. /\ t \notin spent /\ spent' = spent \cup {t}
        /\ request' = [request EXCEPT ![r].at = p]
        /\ UNCHANGED <<columns, linked, open, had, mailed, served, history, started>>
    BY <1>2, Zenon DEF Spend
  <2>3. s \in Clicks /\ s.at \in Clicking /\ s.token = t /\ s \notin EditStates
        /\ s \notin Closings
    BY <2>1 DEF Clicks, Clicking, EditStates, Closings, Judging, Writing
  <2>4. \A q \in Requests : request'[q] = IF q = r THEN s ELSE request[q]
    BY <2>2 DEF Inv, TypeOK
  <2> HIDE DEF s
  <2>5. TypeOK'
    <3>1. request' \in [Requests -> States]
      BY <2>2, <2>3 DEF Inv, TypeOK, States, s
    <3> QED
      BY <2>1, <2>2, <3>1 DEF Inv, TypeOK, States, columns, history
  <2>6. Rows' /\ AnAdministratorRemains'
    BY <2>2 DEF Inv, Rows, AnAdministratorRemains, columns, history, SigningIn,
           Administrators, Linked
  <2>7. ASSUME NEW q \in Requests
        PROVE  Facts(q, request[q])'
    <3>1. CASE q = r
      <4>1. request'[q] = s /\ t \in spent' /\ served'[t] = 0 /\ mailed'[t] # NotMailed
        <5>1. mailed[t] # NotMailed
          BY <2>1 DEF Facts, Holding
        <5> QED
          BY <2>1, <2>2, <2>4, <3>1, <5>1 DEF Inv, Rows
      <4>2. Shape(request[q])' /\ Agrees(request[q])'
        BY <2>3, <4>1 DEF Shape, Agrees
      <4>3. Vouched(q, request[q])'
        BY <2>3, <4>1 DEF Vouched
      <4>4. Fresh(q, request[q])'
        BY <2>3, <4>1 DEF Fresh
      <4>5. Holding(request[q])'
        BY <2>3, <4>1 DEF Holding
      <4> QED
        BY <4>2, <4>3, <4>4, <4>5, Zenon DEF Facts
    <3>2. CASE q # r
      BY <2>2, <2>4, <3>2, OthersKeep DEF history
    <3> QED
      BY <3>1, <3>2
  <2>8. ASSUME NEW u \in Requests, NEW q \in Requests, u # q
        PROVE  Apart(request[u], request[q])'
    <3>1. \A z \in Requests : (request[z] \in Clicks /\ request[z].at \in Clicking)
                                => request[z].token # t
      BY <2>2 DEF Inv, Facts, Holding
    <3> QED
      BY <2>3, <2>4, <2>8, <3>1 DEF Inv, Apart
  <2> QED
    BY <2>5, <2>6, <2>7, <2>8 DEF Inv
<1> QED
  BY <1>1, <1>2

LEMMA CopyIsRead ==
  ASSUME Inv, NEW r \in Requests, ReadCopy(r)
  PROVE  Inv'
<1> DEFINE s == [request[r] EXCEPT !.at = "follow"]
<1>1. request[r] \in Clicks /\ Facts(r, request[r])
  BY AtEdits, Zenon DEF Inv, ReadCopy
<1>2. /\ s \in Clicks /\ s.at = "follow" /\ s.token = request[r].token
      /\ s \in States /\ s \notin EditStates /\ s \notin Closings
  BY <1>1 DEF States, Clicks, EditStates, Closings, Judging, Writing
<1>3. Goes(r, s) /\ request[r].at = "copy"
  BY DEF ReadCopy, At
<1> HIDE DEF s
<1>4. Facts(r, s)
  BY <1>1, <1>2, <1>3 DEF Facts, Shape, Agrees, Vouched, Fresh, Holding, Clicking
<1>5. \A q \in Requests \ {r} : Apart(s, request[q])
  BY <1>1, <1>2, <1>3 DEF Inv, Apart, Clicking
<1> QED
  BY <1>2, <1>3, <1>4, <1>5, GoesOn

LEMMA CountSteps ==
  ASSUME Inv, NEW r \in Requests, CountWithout(r) \/ CountNow(r)
  PROVE  Inv'
<1>1. ASSUME NEW p \in {"close", "count now"}, Goes(r, [at |-> p]),
             p = "close" => (SigningInWithout # {} \/ SigningIn = {})
      PROVE  Inv'
  <2> DEFINE s == [at |-> p]
  <2>1. /\ s \in Closings /\ s \in States /\ s \notin EditStates /\ s \notin Clicks
        /\ s.at = p
    BY <1>1 DEF States, Closings, EditStates, Clicks, Judging, Writing
  <2>2. Facts(r, s)
    BY <1>1, <2>1 DEF Facts, Shape, Agrees, Vouched, Fresh, Holding
  <2>3. \A q \in Requests \ {r} : Apart(s, request[q])
    BY <2>1 DEF Apart
  <2>4. Goes(r, s)
    BY <1>1
  <2> HIDE DEF s
  <2> QED
    BY <2>1, <2>2, <2>3, <2>4, GoesOn
<1>2. CASE Ends(r)
  BY <1>2, Ending
<1> QED
  BY <1>1, <1>2 DEF CountWithout, CountNow

LEMMA LinkIsMailed ==
  ASSUME Inv, NEW t \in Tokens, Mail(t)
  PROVE  Inv'
<1>1. PICK a \in Users, address \in Addresses, kind \in {"verification", "reset"} :
        /\ mailed[t] = NotMailed
        /\ mailed' = [mailed EXCEPT ![t] = [kind |-> kind, user |-> a,
                                            address |-> address]]
        /\ UNCHANGED <<columns, linked, open, had, spent, served, request,
                       history, started>>
  BY DEF Mail
<1> DEFINE l == [kind |-> kind, user |-> a, address |-> address]
<1>2. l \in Links
  BY DEF Links
<1>3. mailed' = [mailed EXCEPT ![t] = l]
  BY <1>1
<1> HIDE DEF l
<1>4. TypeOK'
  <2>1. mailed' \in [Tokens -> Links \cup {NotMailed}]
    BY <1>2, <1>3 DEF Inv, TypeOK
  <2> QED
    BY <1>1, <2>1 DEF Inv, TypeOK, columns, history
<1>5. Rows' /\ AnAdministratorRemains'
  BY <1>1 DEF Inv, Rows, AnAdministratorRemains, columns, history, SigningIn,
         Administrators, Linked
<1>6. ASSUME NEW q \in Requests
      PROVE  Facts(q, request[q])'
  <2>1. \A u \in Tokens : mailed[u] # NotMailed => mailed'[u] # NotMailed
    BY <1>1, <1>3 DEF Inv, TypeOK
  <2> QED
    BY <1>1, <2>1, OthersKeep DEF history
<1>7. ASSUME NEW u \in Requests, NEW q \in Requests, u # q
      PROVE  Apart(request[u], request[q])'
  BY <1>1, <1>7 DEF Inv, Apart
<1> QED
  BY <1>4, <1>5, <1>6, <1>7 DEF Inv

-----------------------------------------------------------------------------
(* The writes.                                                                *)

RowTypes ==
    /\ accounts \subseteq Users
    /\ email \in [Users -> Addresses]
    /\ \A a, b \in accounts : email[a] = email[b] => a = b
    /\ admins \subseteq accounts /\ disabled \subseteq accounts
    /\ locked \subseteq accounts /\ locals \subseteq accounts
    /\ verified \subseteq accounts /\ linked \subseteq accounts
    /\ open \in BOOLEAN
    /\ had \subseteq Users \X Addresses
    /\ served \in [Tokens -> Nat]

\* A request that nothing was written during leaves someone who signs in.
LEMMA WritesOn ==
  ASSUME Inv, NEW r \in Requests, Wrote(r), RowTypes', Rows',
         mailed' = mailed, spent' = spent, Seeded \in admins',
         (r \notin stale /\ SigningIn # {}) => SigningIn' # {},
         \A q \in Requests \ {r} : At(q) \in Clicking =>
             served'[request[q].token] = served[request[q].token]
  PROVE  Inv'
<1>1. TypeOK'
  <2>1. request' \in [Requests -> States]
    BY DEF Inv, TypeOK, Wrote, States
  <2>2. /\ stale' \subseteq Requests /\ stood' \subseteq Requests
        /\ overlapped' \in BOOLEAN /\ started' \in Nat
    BY Zenon DEF Inv, TypeOK, Wrote
  <2>3. mailed' \in [Tokens -> Links \cup {NotMailed}] /\ spent' \subseteq Tokens
    BY DEF Inv, TypeOK
  <2> QED
    BY <2>1, <2>2, <2>3 DEF TypeOK, RowTypes, States
<1>2. AnAdministratorRemains'
  BY DEF Inv, AnAdministratorRemains, Wrote
<1>3. \A q \in Requests : request'[q] = IF q = r THEN Idle ELSE request[q]
  BY DEF Inv, TypeOK, Wrote
<1>4. /\ \A q \in Requests : request'[q] \in {request[q], Idle}
      /\ \A q \in Requests : request'[q] # Idle => q \in stale'
      /\ stood \subseteq stood'
  BY <1>3 DEF Wrote
<1>5. \A q \in Requests : (request'[q] # Idle /\ IsEdit(q)
                           /\ request[q].caller \in Administrators') => q \in stood'
  BY <1>3 DEF Wrote
<1>6. \A q \in Requests : (request'[q] # Idle /\ At(q) \in Clicking) =>
          served'[request[q].token] = served[request[q].token]
  BY <1>3
<1> QED
  BY <1>1, <1>2, <1>4, <1>5, <1>6, WroteOn

\* Who signs in and is not written to still does.
LEMMA UpdateWrites ==
  ASSUME Inv, NEW r \in Requests, Update(r)
  PROVE  Inv'
<1> DEFINE a == request[r].target
           u == request[r]
<1>1. u \in EditStates /\ Facts(r, u) /\ u.at = "update"
  BY AtEdits, Zenon DEF Inv, Writing, Update, At
<1>2. /\ a \in accounts /\ ~Refused(a, u)
      /\ email' = IF u.email = Keep THEN email ELSE [email EXCEPT ![a] = u.email]
      /\ had' = had \cup {<<a, email'[a]>>}
      /\ admins' = Told(admins, "admin", a, u)
      /\ disabled' = DisabledAfter(a, u)
      /\ locked' = LockedAfter(a, u)
      /\ locals' = Told(locals, "local", a, u)
      /\ UNCHANGED <<accounts, verified, linked, open, mailed, spent, served>>
      /\ Wrote(r)
  BY Zenon DEF Update
<1>3. a \in Users /\ u.email \in Addresses \cup {Keep}
  BY <1>1 DEF EditStates
<1> HIDE DEF a, u
<1>4. RowTypes'
  <2>1. email' \in [Users -> Addresses] /\ had' \subseteq Users \X Addresses
    <3>1. email' \in [Users -> Addresses]
      BY <1>2, <1>3 DEF Inv, TypeOK
    <3> QED
      BY <1>2, <1>3, <3>1 DEF Inv, TypeOK
  <2>2. \A b, c \in accounts' : email'[b] = email'[c] => b = c
    <3>1. CASE u.email = Keep
      BY <1>2, <3>1 DEF Inv, TypeOK
    <3>2. CASE u.email # Keep
      <4>1. \A b \in accounts \ {a} : email[b] # u.email
        BY <1>2, <3>2 DEF Refused
      <4>2. \A b \in accounts : email'[b] = IF b = a THEN u.email ELSE email[b]
        BY <1>2, <3>2 DEF Inv, TypeOK
      <4> QED
        BY <1>2, <4>1, <4>2 DEF Inv, TypeOK
    <3> QED
      BY <3>1, <3>2
  <2>3. admins' \subseteq accounts /\ locals' \subseteq accounts
    BY <1>2 DEF Inv, TypeOK, Told
  <2>4. disabled' \subseteq accounts /\ locked' \subseteq accounts
    BY <1>2 DEF Inv, TypeOK, Told, DisabledAfter, LockedAfter
  <2> QED
    BY <1>2, <2>1, <2>2, <2>3, <2>4 DEF Inv, TypeOK, RowTypes
<1>5. Rows'
  <2>1. locked' \subseteq disabled'
    BY <1>2 DEF Inv, Rows, Told, DisabledAfter, LockedAfter, Held, Fields
  <2> QED
    BY <1>2, <2>1 DEF Inv, Rows
<1>6. Seeded \in admins'
  BY <1>2 DEF Inv, AnAdministratorRemains, Told, Refused
<1>7. ASSUME r \notin stale, SigningIn # {}
      PROVE  SigningIn' # {}
  <2>1. \A b \in SigningIn : b # a => b \in SigningIn'
    BY <1>2 DEF SigningIn, Administrators, Linked, Told, DisabledAfter
  <2>2. CASE a \notin SigningIn
    BY <1>7, <2>1, <2>2
  <2>3. CASE a \in SigningIn /\ TakesAway(u.on, u.off)
    <3>1. u.target \in admins /\ u.target \in SigningIn /\ u.does = "update"
      BY <1>1, <2>3 DEF SigningIn, Administrators, Facts, Shape, Writing, a, u
    <3>2. u.takes
      BY <1>1, <1>7, <2>3, <3>1 DEF Facts, Fresh
    <3>3. \E b \in SigningIn : b # a
      BY <1>1, <1>7, <3>1, <3>2 DEF Facts, Fresh, Writing, a, u
    <3> QED
      BY <2>1, <3>3
  <2>4. CASE a \in SigningIn /\ ~TakesAway(u.on, u.off)
    <3>1. a \notin locked
      BY <2>4 DEF Inv, Rows, SigningIn, Administrators
    <3>2. a \in SigningIn'
      BY <1>2, <2>4, <3>1 DEF SigningIn, Administrators, Linked, Told, DisabledAfter,
             TakesAway
    <3> QED
      BY <3>2
  <2> QED
    BY <2>2, <2>3, <2>4
<1> QED
  BY <1>2, <1>4, <1>5, <1>6, <1>7, WritesOn

LEMMA DeleteWrites ==
  ASSUME Inv, NEW r \in Requests, Delete(r)
  PROVE  Inv'
<1> DEFINE a == request[r].target
           u == request[r]
<1>1. u \in EditStates /\ Facts(r, u) /\ u.at = "delete"
  BY AtEdits, Zenon DEF Inv, Writing, Delete, At
<1>2. /\ a \in accounts /\ a # Seeded
      /\ accounts' = accounts \ {a} /\ admins' = admins \ {a}
      /\ disabled' = disabled \ {a} /\ locked' = locked \ {a}
      /\ locals' = locals \ {a} /\ verified' = verified \ {a}
      /\ linked' = linked \ {a}
      /\ UNCHANGED <<email, open, had, mailed, spent, served>>
      /\ Wrote(r)
  BY Zenon DEF Delete
<1>3. u.takes /\ u.at \in Writing /\ u.target = a
  BY <1>1 DEF Facts, Shape, Writing
<1> HIDE DEF a, u
<1>4. RowTypes'
  BY <1>2 DEF Inv, TypeOK, RowTypes
<1>5. Rows' /\ Seeded \in admins'
  BY <1>2 DEF Inv, Rows, AnAdministratorRemains
<1>6. ASSUME r \notin stale, SigningIn # {}
      PROVE  SigningIn' # {}
  <2>1. \A b \in SigningIn : b # a => b \in SigningIn'
    BY <1>2 DEF SigningIn, Administrators, Linked
  <2>2. a \in SigningIn => \E b \in SigningIn : b # a
    BY <1>1, <1>3, <1>6 DEF Facts, Fresh
  <2> QED
    BY <1>6, <2>1, <2>2
<1> QED
  BY <1>2, <1>4, <1>5, <1>6, WritesOn

LEMMA CloseWrites ==
  ASSUME Inv, NEW r \in Requests, Close(r)
  PROVE  Inv'
<1>1. request[r] \in Closings /\ Facts(r, request[r]) /\ request[r].at = "close"
  BY AtEdits, Zenon DEF Inv, Close, At
<1>2. /\ open' = FALSE /\ Wrote(r)
      /\ UNCHANGED <<columns, linked, had, mailed, spent, served>>
  BY DEF Close
<1>3. RowTypes' /\ Rows' /\ Seeded \in admins'
  BY <1>2 DEF Inv, TypeOK, RowTypes, Rows, AnAdministratorRemains, columns
<1>4. SigningIn' = SigningInWithout
  BY <1>2 DEF SigningIn, SigningInWithout, Administrators, Linked, columns
<1>5. (r \notin stale /\ SigningIn # {}) => SigningIn' # {}
  BY <1>1, <1>4 DEF Facts, Fresh
<1> QED
  BY <1>2, <1>3, <1>5, WritesOn

LEMMA LinkWrites ==
  ASSUME Inv, NEW r \in Requests, Follow(r)
  PROVE  Inv'
<1> DEFINE t == request[r].token
           l == mailed[t]
<1>1. /\ request[r] \in Clicks /\ Facts(r, request[r]) /\ request[r].at = "follow"
  BY AtEdits, Zenon DEF Inv, Follow, At
<1>2. /\ Serves(l) /\ served' = [served EXCEPT ![t] = @ + 1]
      /\ verified' = IF l.kind = "verification"
                     THEN verified \cup {l.user} ELSE verified
      /\ disabled' = IF l.kind = "verification" /\ l.user \notin locked \cup admins
                     THEN disabled \ {l.user} ELSE disabled
      /\ UNCHANGED <<accounts, email, admins, locked, locals, linked, open, had,
                     mailed, spent>>
      /\ Wrote(r)
  BY Zenon DEF Follow
<1>3. t \in Tokens /\ t \in spent
  BY <1>1 DEF Clicks, Facts, Holding, Clicking
<1>4. \A q \in Requests \ {r} : At(q) \in Clicking =>
          (request[q] \in Clicks /\ request[q].token # t)
  <2>1. \A q \in Requests : At(q) \in Clicking => request[q] \in Clicks
    BY AtEdits DEF Inv, Clicking
  <2> QED
    BY <1>1, <2>1 DEF Inv, Apart, Clicking, At
<1> HIDE DEF t, l
<1>5. served' \in [Tokens -> Nat] /\ \A v \in Tokens : v # t => served'[v] = served[v]
  BY <1>2, <1>3 DEF Inv, TypeOK
<1>6. RowTypes'
  <2>1. l.user \in accounts
    BY <1>2 DEF Serves
  <2>2. verified' \subseteq accounts /\ disabled' \subseteq accounts
    BY <1>2, <2>1 DEF Inv, TypeOK
  <2> QED
    BY <1>2, <1>5, <2>2 DEF Inv, TypeOK, RowTypes
<1>7. Rows'
  BY <1>2, <1>3, <1>5 DEF Inv, Rows
<1>8. Seeded \in admins' /\ SigningIn \subseteq SigningIn'
  BY <1>2 DEF Inv, AnAdministratorRemains, SigningIn, Administrators, Linked
<1>9. \A q \in Requests \ {r} : At(q) \in Clicking =>
          served'[request[q].token] = served[request[q].token]
  BY <1>4, <1>5 DEF Clicks
<1> QED
  BY <1>2, <1>6, <1>7, <1>8, <1>9, WritesOn

LEMMA RowIsInserted ==
  ASSUME Inv, NEW r \in Requests, Create(r)
  PROVE  Inv'
<1>1. PICK a \in Users \ accounts, address \in Addresses,
           how \in {"made", "registered", "provisioned"} :
        /\ request[r] = Idle
        /\ started' = started + 1
        /\ \A b \in accounts : email[b] # address
        /\ accounts' = accounts \cup {a}
        /\ email' = [email EXCEPT ![a] = address]
        /\ had' = had \cup {<<a, address>>}
        /\ disabled' = IF how = "provisioned" THEN disabled ELSE disabled \cup {a}
        /\ locked' = IF how = "made" THEN locked \cup {a} ELSE locked
        /\ locals' = IF how = "provisioned" THEN locals ELSE locals \cup {a}
        /\ verified' = IF how = "registered" THEN verified ELSE verified \cup {a}
        /\ linked' = IF how = "provisioned" THEN linked \cup {a} ELSE linked
        /\ stale' = {q \in Requests \ {r} : request[q] # Idle}
        /\ UNCHANGED <<admins, open, mailed, spent, served, request, stood,
                       overlapped>>
  BY Zenon DEF Create
<1>2. TypeOK'
  <2>1. email' \in [Users -> Addresses]
    BY <1>1 DEF Inv, TypeOK
  <2>2. \A b, c \in accounts' : email'[b] = email'[c] => b = c
    <3>1. \A b \in accounts' : email'[b] = IF b = a THEN address ELSE email[b]
      BY <1>1 DEF Inv, TypeOK
    <3> QED
      BY <1>1, <3>1 DEF Inv, TypeOK
  <2>3. started' \in Nat
    <3>1. started \in Nat
      BY DEF Inv, TypeOK
    <3> QED
      BY <1>1, <3>1, OneMore, Zenon
  <2>4. /\ disabled' \subseteq accounts' /\ locked' \subseteq accounts'
        /\ locals' \subseteq accounts' /\ verified' \subseteq accounts'
        /\ linked' \subseteq accounts'
    BY <1>1 DEF Inv, TypeOK
  <2>5. accounts' \subseteq Users /\ admins' \subseteq accounts'
    BY <1>1 DEF Inv, TypeOK
  <2>6. had' \subseteq Users \X Addresses
    BY <1>1 DEF Inv, TypeOK
  <2>7. /\ open' \in BOOLEAN /\ mailed' \in [Tokens -> Links \cup {NotMailed}]
        /\ spent' \subseteq Tokens /\ served' \in [Tokens -> Nat]
        /\ request' \in [Requests -> {Idle} \cup EditStates \cup Clicks \cup Closings]
        /\ stale' \subseteq Requests /\ stood' \subseteq Requests
        /\ overlapped' \in BOOLEAN
    BY <1>1 DEF Inv, TypeOK
  <2> QED
    BY <2>1, <2>2, <2>3, <2>4, <2>5, <2>6, <2>7 DEF TypeOK
<1>3. Rows'
  BY <1>1 DEF Inv, Rows
<1>4. /\ a \notin admins /\ Administrators' = Administrators
      /\ SigningIn \subseteq SigningIn'
  <2>1. a \notin admins
    BY <1>1 DEF Inv, TypeOK
  <2> QED
    BY <1>1, <2>1 DEF SigningIn, Administrators, Linked
<1>5. AnAdministratorRemains'
  BY <1>1, <1>4 DEF Inv, AnAdministratorRemains
<1>6. /\ \A q \in Requests : request'[q] \in {request[q], Idle}
      /\ \A q \in Requests : request'[q] # Idle => q \in stale'
      /\ stood \subseteq stood'
  BY <1>1
<1>7. \A q \in Requests : (request'[q] # Idle /\ IsEdit(q)
                           /\ request[q].caller \in Administrators') => q \in stood'
  <2>1. \A q \in Requests : IsEdit(q) => request[q] \in EditStates
    BY AtEdits DEF Inv, IsEdit
  <2> QED
    BY <1>1, <1>4, <2>1 DEF Inv, Facts, Vouched
<1> QED
  BY <1>1, <1>2, <1>3, <1>5, <1>6, <1>7, WroteOn

LEMMA AsideWrites ==
  ASSUME Inv, Open \/ \E a \in Users : Link(a) \/ Unlink(a)
  PROVE  Inv'
<1>1. /\ Aside /\ linked' \subseteq accounts /\ open' \in BOOLEAN
      /\ SigningIn \subseteq SigningIn'
  <2>1. CASE Open
    BY <2>1 DEF Inv, TypeOK, Open, Aside, columns, SigningIn, Administrators, Linked
  <2>2. CASE \E a \in Users : Link(a)
    BY <2>2 DEF Inv, TypeOK, Link, Aside, columns, SigningIn, Administrators, Linked
  <2>3. CASE \E a \in Users : Unlink(a)
    BY <2>3 DEF Inv, TypeOK, Unlink, Aside, columns, SigningIn, Administrators, Linked
  <2> QED
    BY <2>1, <2>2, <2>3
<1>2. /\ stale' = {q \in Requests : request[q] # Idle} /\ started' = started + 1
      /\ UNCHANGED <<columns, had, mailed, spent, served, request, stood, overlapped>>
  BY <1>1, Zenon DEF Aside
<1>3. TypeOK'
  <2>1. started' \in Nat
    <3>1. started \in Nat
      BY DEF Inv, TypeOK
    <3> QED
      BY <1>2, <3>1, OneMore, Zenon
  <2> QED
    BY <1>1, <1>2, <2>1 DEF Inv, TypeOK, columns
<1>4. Rows' /\ AnAdministratorRemains'
  BY <1>1, <1>2 DEF Inv, Rows, AnAdministratorRemains, columns
<1>5. \A q \in Requests : (request'[q] # Idle /\ IsEdit(q)
                           /\ request[q].caller \in Administrators') => q \in stood'
  <2>1. \A q \in Requests : IsEdit(q) => request[q] \in EditStates
    BY AtEdits DEF Inv, IsEdit
  <2>2. Administrators' = Administrators
    BY <1>2 DEF columns, Administrators
  <2> QED
    BY <1>2, <2>1, <2>2 DEF Inv, Facts, Vouched
<1> QED
  BY <1>2, <1>3, <1>4, <1>5, WroteOn

-----------------------------------------------------------------------------
(* The theorems.                                                              *)

LEMMA Initially ==
  ASSUME Init
  PROVE  Inv
<1>1. TypeOK
  <2>1. FirstEmail \in [Users -> Addresses] /\ {Seeded} \cup Others \subseteq Users
    BY AccountsAssumption DEF AccountsAssumption
  <2>2. \A a, b \in accounts : email[a] = email[b] => a = b
    BY AccountsAssumption DEF AccountsAssumption, Init
  <2>3. linked \subseteq accounts /\ locked \subseteq accounts /\ stale \subseteq Requests
    BY DEF Init
  <2>4. had \subseteq Users \X Addresses
    BY <2>1 DEF Init
  <2>5. /\ mailed \in [Tokens -> Links \cup {NotMailed}]
        /\ served \in [Tokens -> Nat]
        /\ request \in [Requests -> {Idle} \cup EditStates \cup Clicks \cup Closings]
    BY DEF Init
  <2> QED
    BY <2>1, <2>2, <2>3, <2>4, <2>5 DEF Init, TypeOK
<1>2. Rows
  BY DEF Init, Rows
<1>3. AnAdministratorRemains
  BY DEF Init, AnAdministratorRemains, SigningIn, Administrators
<1>4. \A r \in Requests : request[r] = Idle
  BY DEF Init
<1>5. Idle \notin EditStates /\ Idle \notin Clicks /\ Idle \notin Closings
  BY DEF Idle, EditStates, Clicks, Closings
<1>6. \A r \in Requests : Facts(r, request[r])
  BY <1>4, <1>5 DEF Facts, Shape, Agrees, Vouched, Fresh, Holding
<1>7. \A r, q \in Requests : r # q => Apart(request[r], request[q])
  BY <1>4, <1>5 DEF Apart
<1> QED
  BY <1>1, <1>2, <1>3, <1>6, <1>7 DEF Inv

LEMMA Stutters ==
  ASSUME Inv, UNCHANGED vars
  PROVE  Inv'
<1>1. TypeOK' /\ Rows' /\ AnAdministratorRemains'
  BY DEF Inv, vars, columns, history, TypeOK, Rows, AnAdministratorRemains, SigningIn,
         Administrators, Linked
<1>2. ASSUME NEW q \in Requests
      PROVE  Facts(q, request[q])'
  BY OthersKeep DEF vars, columns, history
<1>3. ASSUME NEW r \in Requests, NEW q \in Requests, r # q
      PROVE  Apart(request[r], request[q])'
  BY <1>3 DEF Inv, Apart, vars
<1> QED
  BY <1>1, <1>2, <1>3 DEF Inv

LEMMA Inductive == Spec => []Inv
<1>1. Init => Inv
  BY Initially
<1>2. Inv /\ [Next]_vars => Inv'
  <2> SUFFICES ASSUME Inv, [Next]_vars
               PROVE  Inv'
    OBVIOUS
  <2>1. ASSUME NEW r \in Requests, StartUpdate(r) \/ StartDelete(r)
        PROVE  Inv'
    BY <2>1, EditStarts
  <2>2. ASSUME NEW r \in Requests, ReadAddress(r) \/ AskAddressCaller(r)
        PROVE  Inv'
    BY <2>2, AddressSteps
  <2>3. ASSUME NEW r \in Requests, AskCaller(r) \/ AskSignsIn(r) \/ AskCount(r)
        PROVE  Inv'
    BY <2>3, QuestionSteps
  <2>4. ASSUME NEW r \in Requests, ReadRow(r) \/ ReadDeleted(r)
        PROVE  Inv'
    BY <2>4, RowIsRead, DeletedIsRead
  <2>5. ASSUME NEW r \in Requests, Update(r) \/ Delete(r) \/ Create(r)
        PROVE  Inv'
    BY <2>5, UpdateWrites, DeleteWrites, RowIsInserted
  <2>6. ASSUME NEW r \in Requests, Click(r) \/ Spend(r) \/ ReadCopy(r) \/ Follow(r)
        PROVE  Inv'
    BY <2>6, LinkStarts, LinkIsSpent, CopyIsRead, LinkWrites
  <2>7. ASSUME NEW r \in Requests,
               StartClose(r) \/ CountWithout(r) \/ CountNow(r) \/ Close(r)
        PROVE  Inv'
    BY <2>7, CloseStarts, CountSteps, CloseWrites
  <2>8. ASSUME NEW r \in Requests, Fail(r)
        PROVE  Inv'
    BY <2>8, Ending DEF Fail
  <2>9. CASE \/ \E t \in Tokens : Mail(t)
             \/ Open
             \/ \E a \in Users : Link(a) \/ Unlink(a)
    BY <2>9, LinkIsMailed, AsideWrites
  <2>10. CASE UNCHANGED vars
    BY <2>10, Stutters
  <2> QED
    BY <2>1, <2>2, <2>3, <2>4, <2>5, <2>6, <2>7, <2>8, <2>9, <2>10, Zenon DEF Next
<1> QED
  BY <1>1, <1>2, PTL DEF Spec

\* Types, the unique address of queryUserInsert and Update, and accounts that
\* are deleted leaving nothing behind, for any set of accounts and bodies.
THEOREM TypeCorrect == Spec => []TypeOK
<1>1. Inv => TypeOK
  BY DEF Inv
<1> QED
  BY <1>1, Inductive, PTL

\* Whatever overlaps, the seeded account keeps its flag, and as long as nothing
\* was written during a request that wrote, an administrator can sign in.
THEOREM AdministratorStays == Spec => []AnAdministratorRemains
<1>1. Inv => AnAdministratorRemains
  BY DEF Inv
<1> QED
  BY <1>1, Inductive, PTL

-----------------------------------------------------------------------------
(* What a step may never do.                                                  *)

LEMMA WhoWrites ==
  ASSUME [Next]_vars
  PROVE  \/ UNCHANGED <<columns, served>>
         \/ \E r \in Requests : Update(r) \/ Delete(r) \/ Create(r) \/ Follow(r)
<1>1. ASSUME NEW r \in Requests, NEW s, Goes(r, s)
      PROVE  UNCHANGED <<columns, served>>
  BY <1>1 DEF Goes, Reads
<1>2. ASSUME NEW r \in Requests, StartUpdate(r) \/ StartDelete(r) \/ Click(r) \/ StartClose(r)
      PROVE  UNCHANGED <<columns, served>>
  BY <1>2 DEF StartUpdate, StartDelete, Click, StartClose, Reads
<1>3. ASSUME NEW r \in Requests, ReadAddress(r) \/ AskAddressCaller(r) \/ ReadRow(r)
      PROVE  UNCHANGED <<columns, served>>
  BY <1>1, <1>3 DEF ReadAddress, AskAddressCaller, AddressJudged, ReadRow, Ends
<1>4. ASSUME NEW r \in Requests, AskCaller(r) \/ AskSignsIn(r) \/ AskCount(r)
      PROVE  UNCHANGED <<columns, served>>
  BY <1>1, <1>4 DEF AskCaller, AskSignsIn, AskCount, Passes, Ends
<1>5. ASSUME NEW r \in Requests,
             ReadDeleted(r) \/ ReadCopy(r) \/ CountWithout(r) \/ CountNow(r) \/ Fail(r)
      PROVE  UNCHANGED <<columns, served>>
  BY <1>1, <1>5 DEF ReadDeleted, ReadCopy, CountWithout, CountNow, Fail, Ends
<1>6. ASSUME NEW r \in Requests, Spend(r) \/ Close(r)
      PROVE  UNCHANGED <<columns, served>>
  BY <1>1, <1>6 DEF Spend, Close, Ends
<1>7. CASE \/ \E t \in Tokens : Mail(t)
           \/ Open
           \/ \E a \in Users : Link(a) \/ Unlink(a)
           \/ UNCHANGED vars
  BY <1>7 DEF Mail, Open, Link, Unlink, Aside, vars
<1> QED
  BY <1>2, <1>3, <1>4, <1>5, <1>6, <1>7, Zenon DEF Next

\* A link that writes is used for the first time, by the request that spent it,
\* and the account still has its address.
THEOREM LinksServeOnce == Spec => LinksServeTheirMailbox
<1> DEFINE Served(t) ==
        served'[t] # served[t] =>
            /\ served[t] = 0
            /\ mailed[t].user \in accounts
            /\ email[mailed[t].user] = mailed[t].address
            /\ (mailed[t].kind = "reset" => mailed[t].user \in locals \ disabled)
<1>1. ASSUME Inv, [Next]_vars, NEW t \in Tokens
      PROVE  Served(t)
  <2>1. CASE served' = served
    BY <2>1
  <2>2. ASSUME NEW r \in Requests, Follow(r)
        PROVE  Served(t)
    <3>1. request[r] \in Clicks /\ Facts(r, request[r]) /\ request[r].at = "follow"
      BY <1>1, <2>2, AtEdits, Zenon DEF Inv, Follow, At
    <3>2. /\ Serves(mailed[request[r].token])
          /\ served' = [served EXCEPT ![request[r].token] = @ + 1]
      BY <2>2, Zenon DEF Follow
    <3>3. served'[t] # served[t] => t = request[r].token
      BY <1>1, <3>2 DEF Inv, TypeOK
    <3>4. served[request[r].token] = 0
      BY <3>1 DEF Facts, Holding, Clicking
    <3> QED
      BY <3>2, <3>3, <3>4 DEF Serves
  <2>3. ASSUME NEW r \in Requests, Update(r) \/ Delete(r) \/ Create(r)
        PROVE  served' = served
    BY <2>3 DEF Update, Delete, Create
  <2> QED
    BY <1>1, <2>1, <2>2, <2>3, WhoWrites
<1>2. (Inv /\ [Next]_vars) => [\A t \in Tokens : Served(t)]_vars
  BY <1>1
<1> QED
  BY <1>2, Inductive, PTL DEF Spec, LinksServeTheirMailbox

\* What an edit writes is its target's row.
LEMMA OneRow ==
  ASSUME Inv, NEW r \in Requests, NEW a \in accounts, Update(r), a # request[r].target
  PROVE  /\ a \in accounts' /\ email'[a] = email[a]
         /\ a \in admins <=> a \in admins'
         /\ a \in disabled <=> a \in disabled'
         /\ a \in locked <=> a \in locked'
         /\ a \in locals <=> a \in locals'
BY DEF Inv, TypeOK, Update, Told, DisabledAfter, LockedAfter

\* Nothing but a body that says to unlock or to enable an account an
\* administrator locked lets it sign in again, and never one that says lock.
THEOREM LockHolds == Spec => LockedStaysShut
<1> DEFINE Unlocking(a) ==
        \E r \in Requests :
            /\ Writes(r, a)
            /\ {"lock", "disabled"} \cap request[r].said.off # {}
            /\ "lock" \notin request[r].said.on
<1>1. ASSUME Inv, [Next]_vars, NEW a \in locked \cap accounts',
             a \notin disabled' \/ a \notin locked'
      PROVE  Unlocking(a)
  <2>1. a \in accounts /\ a \in disabled
    BY <1>1 DEF Inv, TypeOK, Rows
  <2>2. CASE UNCHANGED <<columns, served>>
    BY <1>1, <2>1, <2>2 DEF columns
  <2>3. ASSUME NEW r \in Requests, Delete(r) \/ Create(r) \/ Follow(r)
        PROVE  FALSE
    BY <1>1, <2>1, <2>3 DEF Delete, Create, Follow
  <2>4. ASSUME NEW r \in Requests, Update(r)
        PROVE  Unlocking(a)
    <3> DEFINE u == request[r]
    <3>1. /\ u \in EditStates /\ Facts(r, u) /\ u.at = "update" /\ u.target = a
      <4>1. u \in EditStates /\ Facts(r, u) /\ u.at = "update"
        BY <1>1, <2>4, AtEdits, Zenon DEF Inv, Writing, Update, At
      <4> QED
        BY <1>1, <2>1, <2>4, <4>1, OneRow
    <3>2. /\ disabled' = DisabledAfter(u.target, u) /\ locked' = LockedAfter(u.target, u)
          /\ Wrote(r)
      BY <2>4, Zenon DEF Update
    <3>3. /\ u.on \subseteq u.said.on /\ u.off \subseteq u.said.off
          /\ u.said.on \cap u.said.off = {}
          /\ ~("lock" \in u.said.on /\ "disabled" \in u.off)
      BY <3>1 DEF Facts, Shape, Agrees
    <3>4. request'[r] = Idle
      BY <1>1, <3>2 DEF Inv, TypeOK, Wrote
    <3> HIDE DEF u
    <3>5. "lock" \notin u.on
      BY <1>1, <3>1, <3>2 DEF DisabledAfter, LockedAfter, Told
    <3>6. "lock" \in u.off \/ "disabled" \in u.off
      BY <1>1, <2>1, <3>1, <3>2, <3>5 DEF DisabledAfter, LockedAfter, Told
    <3>7. {"lock", "disabled"} \cap u.said.off # {} /\ "lock" \notin u.said.on
      BY <3>3, <3>6
    <3>8. Writes(r, a)
      BY <3>1, <3>4 DEF Writes, Writing, At, u
    <3> QED
      BY <3>7, <3>8 DEF u
  <2> QED
    BY <1>1, <2>2, <2>3, <2>4, WhoWrites
<1>2. (Inv /\ [Next]_vars) =>
          [\A a \in locked \cap accounts' :
              (a \notin disabled' \/ a \notin locked') => Unlocking(a)]_vars
  BY <1>1
<1> QED
  BY <1>2, Inductive, PTL DEF Spec, LockedStaysShut

\* Addresses, the flag, and the sign-in of those who have it are changed for an
\* administrator only, whatever else is written between judgement and write.
THEOREM OnlyAdministrators == Spec => OnlyTheFlagDoes
<1> DEFINE ByOne(a) == \E r \in stood : Writes(r, a)
           AsRead(a) == \E r \in Requests : Writes(r, a) /\ ~request[r].flagged
           Kept(a) == a \in accounts'
           SignIn(a) == \/ ~Kept(a)
                        \/ (a \in disabled) # (a \in disabled')
                        \/ (a \in locked) # (a \in locked')
                        \/ (a \in locals) # (a \in locals')
           Allowed(a) ==
               /\ (Kept(a) /\ email'[a] # email[a]) => ByOne(a)
               /\ (Kept(a) /\ (a \in admins) # (a \in admins')) => ByOne(a)
               /\ (a \in admins /\ SignIn(a)) => (ByOne(a) \/ AsRead(a))
<1>1. ASSUME Inv, [Next]_vars, NEW a \in accounts
      PROVE  Allowed(a)
  <2>1. ASSUME Kept(a), email'[a] = email[a], a \in admins <=> a \in admins',
               (a \in admins) => ((a \in disabled <=> a \in disabled')
                                  /\ (a \in locked <=> a \in locked')
                                  /\ (a \in locals <=> a \in locals'))
        PROVE  Allowed(a)
    BY <2>1
  <2> HIDE DEF Allowed
  <2>2. CASE UNCHANGED <<columns, served>>
    BY <2>1, <2>2 DEF columns
  <2>3. ASSUME NEW r \in Requests, Create(r)
        PROVE  Allowed(a)
    <3>1. /\ Kept(a) /\ email'[a] = email[a] /\ admins' = admins
          /\ a \in disabled <=> a \in disabled'
          /\ a \in locked <=> a \in locked'
          /\ a \in locals <=> a \in locals'
      BY <1>1, <2>3 DEF Inv, TypeOK, Create
    <3> QED
      BY <2>1, <3>1
  <2>4. ASSUME NEW r \in Requests, Follow(r)
        PROVE  Allowed(a)
    <3>1. /\ Kept(a) /\ email'[a] = email[a] /\ admins' = admins
          /\ locked' = locked /\ locals' = locals
          /\ a \in admins => (a \in disabled <=> a \in disabled')
      BY <1>1, <2>4 DEF Follow
    <3> QED
      BY <2>1, <3>1
  <2>5. ASSUME NEW r \in Requests, Delete(r)
        PROVE  Allowed(a)
    <3>1. CASE a # request[r].target
      <4>1. /\ Kept(a) /\ email'[a] = email[a]
            /\ a \in admins <=> a \in admins'
            /\ a \in disabled <=> a \in disabled'
            /\ a \in locked <=> a \in locked'
            /\ a \in locals <=> a \in locals'
        BY <1>1, <2>5, <3>1 DEF Delete
      <4> QED
        BY <2>1, <4>1
    <3>2. CASE a = request[r].target
      <4>1. request[r] \in EditStates /\ Facts(r, request[r]) /\ request[r].at = "delete"
        BY <1>1, <2>5, AtEdits, Zenon DEF Inv, Writing, Delete, At
      <4>2. ~Kept(a) /\ request'[r] = Idle
        BY <1>1, <2>5, <3>2 DEF Delete, Wrote, Inv, TypeOK
      <4>3. Writes(r, a)
        BY <3>2, <4>1, <4>2 DEF Writes, Writing, At
      <4>4. r \in stood \/ ~request[r].flagged
        BY <4>1 DEF Facts, Vouched, EditStates
      <4>5. ByOne(a) \/ AsRead(a)
        BY <4>3, <4>4
      <4> QED
        BY <4>2, <4>5 DEF Allowed
    <3> QED
      BY <3>1, <3>2
  <2>6. ASSUME NEW r \in Requests, Update(r)
        PROVE  Allowed(a)
    <3>1. CASE a # request[r].target
      BY <1>1, <2>1, <2>6, <3>1, OneRow
    <3>2. CASE a = request[r].target
      <4> DEFINE u == request[r]
      <4>1. u \in EditStates /\ Facts(r, u) /\ u.at = "update"
        BY <1>1, <2>6, AtEdits, Zenon DEF Inv, Writing, Update, At
      <4>2. /\ email' = IF u.email = Keep THEN email ELSE [email EXCEPT ![u.target] = u.email]
            /\ admins' = Told(admins, "admin", u.target, u)
            /\ disabled' = DisabledAfter(u.target, u)
            /\ locked' = LockedAfter(u.target, u)
            /\ locals' = Told(locals, "local", u.target, u)
            /\ Wrote(r)
        BY <2>6, Zenon DEF Update
      <4>3. Writes(r, a)
        <5>1. request'[r] = Idle
          BY <1>1, <4>2 DEF Wrote, Inv, TypeOK
        <5> QED
          BY <3>2, <4>1, <5>1 DEF Writes, Writing, At
      <4>4. email'[a] # email[a] => r \in stood
        <5>1. u.email # Keep => r \in stood
          BY <4>1 DEF Facts, Vouched
        <5> QED
          BY <4>2, <5>1
      <4>5. (a \in admins) # (a \in admins') => r \in stood
        <5>1. "admin" \in u.on \cup u.off => r \in stood
          BY <4>1 DEF Facts, Vouched
        <5>2. "admin" \notin u.on \cup u.off => admins' = admins
          BY <4>2 DEF Told
        <5> QED
          BY <5>1, <5>2
      <4>6. SignIn(a) => (r \in stood \/ ~u.flagged)
        <5>1. (u.flagged /\ Touches(u)) => r \in stood
          BY <4>1 DEF Facts, Vouched
        <5>2. Kept(a)
          BY <2>6 DEF Update
        <5>3. ~Touches(u) => (disabled' = disabled /\ locked' = locked /\ locals' = locals)
          BY <4>2 DEF Touches, Told, DisabledAfter, LockedAfter
        <5> HIDE DEF u, Kept
        <5>4. SignIn(a) => Touches(u)
          BY <5>2, <5>3
        <5> QED
          BY <5>1, <5>4
      <4>7. (r \in stood => ByOne(a)) /\ (~u.flagged => AsRead(a))
        BY <4>3
      <4> HIDE DEF ByOne, AsRead, SignIn, Kept, u
      <4> QED
        BY <4>4, <4>5, <4>6, <4>7 DEF Allowed
    <3> QED
      BY <3>1, <3>2
  <2> QED
    BY <1>1, <2>2, <2>3, <2>4, <2>5, <2>6, WhoWrites
<1>2. (Inv /\ [Next]_vars) => [\A a \in accounts : Allowed(a)]_vars
  BY <1>1
<1> QED
  BY <1>2, Inductive, PTL DEF Spec, OnlyTheFlagDoes

=============================================================================
