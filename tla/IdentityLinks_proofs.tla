------------------------ MODULE IdentityLinks_proofs ------------------------
(* What the transactions around users_identities keep for any accounts,       *)
(* providers, issuers, subjects and requests.  The argument is the one of the *)
(* locks: what a statement has read stays true until its commit, because      *)
(* whoever could change it waits for a lock the request holds.                *)
EXTENDS IdentityLinks, FiniteSetTheorems, TLAPS

\* The types alone; the two unique keys are proved with the rest.
Types ==
    /\ accounts \subseteq used /\ used \subseteq Users
    /\ local \in [Users -> BOOLEAN]
    /\ providers \subseteq Providers
    /\ issuer \in [Providers -> Issuers]
    /\ enabled \in [Providers -> BOOLEAN]
    /\ links \subseteq Identities
    /\ request \in [Requests -> RequestStates]
    /\ excused \subseteq Users
    /\ started \in Nat

Keys == \A l, m \in links : SameKey(l, m) => l = m

\* An insert that has passed a check of its own still passes it.
LinkFacts(r) ==
    /\ At(r) \in Linking =>
         /\ request[r].user \in used
         /\ request[r].creates => request[r].user \notin accounts
    /\ At(r) \in {"insert", "account", "commit link"} =>
         /\ request[r].idp \in providers
         /\ issuer[request[r].idp] = request[r].issuer
    /\ At(r) \in {"account", "commit link"} =>
         \A l \in links : ~SameKey(request[r], l)
    /\ At(r) = "commit link" => request[r].creates \/ request[r].user \in accounts

\* So has an unlink.
UnlinkFacts(r) ==
    At(r) = "commit unlink" =>
        /\ request[r].user \in accounts
        /\ \/ local[request[r].user]
           \/ \E m \in links : m.user = request[r].user /\ m.idp # request[r].idp

\* A delete has, or will have, the row of every account linked to its provider.
DeleteFacts(r) ==
    /\ At(r) \in {"lock accounts", "delete", "commit delete"} =>
         \A l \in links : l.idp = request[r].idp =>
                            l.user \in request[r].rows \cup request[r].todo
    /\ At(r) \in {"delete", "commit delete"} => request[r].todo = {}
    /\ At(r) = "commit delete" =>
         \A l \in links : l.idp = request[r].idp =>
            \/ local[l.user]
            \/ \E m \in links : m.user = l.user /\ m.idp # request[r].idp

UpdateFacts(r) ==
    At(r) = "commit update" =>
        \/ request[r].issuer = issuer[request[r].idp]
        \/ \A l \in links : l.idp # request[r].idp

Facts(r) == LinkFacts(r) /\ UnlinkFacts(r) /\ DeleteFacts(r) /\ UpdateFacts(r)

\* Two requests never hold locks that conflict, insert one key or one account.
ProvidersApart(r, q) ==
    \A p \in Providers : ForUpdateOfProvider(r, p) =>
        ~ForUpdateOfProvider(q, p) /\ ~KeyShareOfProvider(q, p)

RowsApart(r, q) ==
    \A a \in Users : ~(NoKeyUpdateOfAccount(r, a) /\ NoKeyUpdateOfAccount(q, a))

KeysApart(r, q) ==
    At(r) \in {"account", "commit link"} /\ At(q) \in {"account", "commit link"} =>
        ~SameKey(request[r], request[q])

NewApart(r, q) ==
    At(r) \in Linking /\ At(q) \in Linking /\ request[r].creates =>
        request[r].user # request[q].user

Apart(r, q) ==
    ProvidersApart(r, q) /\ RowsApart(r, q) /\ KeysApart(r, q) /\ NewApart(r, q)

Inv ==
    /\ Types
    /\ Keys
    /\ LinksHold
    /\ NoStrandedAccount
    /\ \A r \in Requests : Facts(r)
    /\ \A r, q \in Requests : r # q => Apart(r, q)

-----------------------------------------------------------------------------
(* The states of a request.                                                   *)

LinkStates == [at : Linking, user : Users, idp : Providers, subject : Subjects,
               issuer : Issuers, creates : BOOLEAN]
SignInStates == [at : {"sign in"}, idp : Providers, subject : Subjects, issuer : Issuers]
UnlinkStates == [at : Unlinking, user : Users, idp : Providers]
DeleteStates == [at : Deleting, idp : Providers, todo : SUBSET Users, rows : SUBSET Users]
UpdateStates == [at : Updating, idp : Providers, issuer : Issuers, enable : BOOLEAN]

LEMMA StatesOf ==
    /\ Idle \in RequestStates
    /\ SignInStates \subseteq RequestStates /\ LinkStates \subseteq RequestStates
    /\ UnlinkStates \subseteq RequestStates /\ DeleteStates \subseteq RequestStates
    /\ UpdateStates \subseteq RequestStates
BY Zenon DEF RequestStates, SignInStates, LinkStates, UnlinkStates, DeleteStates, UpdateStates

\* Which fields a request has follows from where it is.
LEMMA StateShape ==
    ASSUME NEW s \in RequestStates
    PROVE  /\ s.at = "idle" => s = Idle
           /\ s.at = "sign in" => s \in SignInStates
           /\ s.at \in Linking => s \in LinkStates
           /\ s.at \in Unlinking => s \in UnlinkStates
           /\ s.at \in Deleting => s \in DeleteStates
           /\ s.at \in Updating => s \in UpdateStates
<1>1. CASE s = Idle
  BY <1>1 DEF Idle, Linking, Unlinking, Deleting, Updating
<1>2. CASE s \in SignInStates
  <2>1. s.at = "sign in"
    BY <1>2 DEF SignInStates
  <2> QED
    BY <1>2, <2>1 DEF Linking, Unlinking, Deleting, Updating
<1>3. CASE s \in LinkStates
  <2>1. s.at \in Linking
    BY <1>3 DEF LinkStates
  <2> QED
    BY <1>3, <2>1 DEF Linking, Unlinking, Deleting, Updating
<1>4. CASE s \in UnlinkStates
  <2>1. s.at \in Unlinking
    BY <1>4 DEF UnlinkStates
  <2> QED
    BY <1>4, <2>1 DEF Linking, Unlinking, Deleting, Updating
<1>5. CASE s \in DeleteStates
  <2>1. s.at \in Deleting
    BY <1>5 DEF DeleteStates
  <2> QED
    BY <1>5, <2>1 DEF Linking, Unlinking, Deleting, Updating
<1>6. CASE s \in UpdateStates
  <2>1. s.at \in Updating
    BY <1>6 DEF UpdateStates
  <2> QED
    BY <1>6, <2>1 DEF Linking, Unlinking, Deleting, Updating
<1> QED
  BY <1>1, <1>2, <1>3, <1>4, <1>5, <1>6
     DEF RequestStates, SignInStates, LinkStates, UnlinkStates, DeleteStates, UpdateStates

LEMMA LinkGoes ==
    ASSUME Types, NEW r \in Requests, NEW place \in Linking,
           At(r) \in Linking, Goes(r, place)
    PROVE  /\ request[r] \in LinkStates /\ request'[r] \in LinkStates
           /\ request' \in [Requests -> RequestStates]
           /\ request'[r].at = place
           /\ request'[r].user = request[r].user /\ request'[r].idp = request[r].idp
           /\ request'[r].subject = request[r].subject
           /\ request'[r].issuer = request[r].issuer
           /\ request'[r].creates = request[r].creates
           /\ \A q \in Requests \ {r} : request'[q] = request[q]
           /\ started' = started
<1>1. request[r] \in LinkStates
  BY StateShape DEF Types, At
<1>2. [request[r] EXCEPT !.at = place] \in LinkStates
  BY <1>1 DEF LinkStates
<1>3. request'[r] = [request[r] EXCEPT !.at = place]
  BY DEF Goes, Types
<1>4. request' \in [Requests -> RequestStates]
  BY <1>2, StatesOf DEF Goes, Types
<1> QED
  BY <1>1, <1>2, <1>3, <1>4 DEF Goes, Types, LinkStates

LEMMA UnlinkGoes ==
    ASSUME Types, NEW r \in Requests, NEW place \in Unlinking,
           At(r) \in Unlinking, Goes(r, place)
    PROVE  /\ request[r] \in UnlinkStates /\ request'[r] \in UnlinkStates
           /\ request' \in [Requests -> RequestStates]
           /\ request'[r].at = place
           /\ request'[r].user = request[r].user
           /\ request'[r].idp = request[r].idp
           /\ \A q \in Requests \ {r} : request'[q] = request[q]
           /\ started' = started
<1>1. request[r] \in UnlinkStates
  BY StateShape DEF Types, At
<1>2. [request[r] EXCEPT !.at = place] \in UnlinkStates
  BY <1>1 DEF UnlinkStates
<1>3. request'[r] = [request[r] EXCEPT !.at = place]
  BY DEF Goes, Types
<1>4. request' \in [Requests -> RequestStates]
  BY <1>2, StatesOf DEF Goes, Types
<1> QED
  BY <1>1, <1>2, <1>3, <1>4 DEF Goes, Types, UnlinkStates

LEMMA DeleteGoes ==
    ASSUME Types, NEW r \in Requests, NEW place \in Deleting,
           At(r) \in Deleting, Goes(r, place)
    PROVE  /\ request[r] \in DeleteStates /\ request'[r] \in DeleteStates
           /\ request' \in [Requests -> RequestStates]
           /\ request'[r].at = place
           /\ request'[r].idp = request[r].idp
           /\ request'[r].todo = request[r].todo
           /\ request'[r].rows = request[r].rows
           /\ \A q \in Requests \ {r} : request'[q] = request[q]
           /\ started' = started
<1>1. request[r] \in DeleteStates
  BY StateShape DEF Types, At
<1>2. [request[r] EXCEPT !.at = place] \in DeleteStates
  BY <1>1 DEF DeleteStates
<1>3. request'[r] = [request[r] EXCEPT !.at = place]
  BY DEF Goes, Types
<1>4. request' \in [Requests -> RequestStates]
  BY <1>2, StatesOf DEF Goes, Types
<1> QED
  BY <1>1, <1>2, <1>3, <1>4 DEF Goes, Types, DeleteStates

LEMMA UpdateGoes ==
    ASSUME Types, NEW r \in Requests, NEW place \in Updating,
           At(r) \in Updating, Goes(r, place)
    PROVE  /\ request[r] \in UpdateStates /\ request'[r] \in UpdateStates
           /\ request' \in [Requests -> RequestStates]
           /\ request'[r].at = place
           /\ request'[r].idp = request[r].idp
           /\ request'[r].issuer = request[r].issuer
           /\ request'[r].enable = request[r].enable
           /\ \A q \in Requests \ {r} : request'[q] = request[q]
           /\ started' = started
<1>1. request[r] \in UpdateStates
  BY StateShape DEF Types, At
<1>2. [request[r] EXCEPT !.at = place] \in UpdateStates
  BY <1>1 DEF UpdateStates
<1>3. request'[r] = [request[r] EXCEPT !.at = place]
  BY DEF Goes, Types
<1>4. request' \in [Requests -> RequestStates]
  BY <1>2, StatesOf DEF Goes, Types
<1> QED
  BY <1>1, <1>2, <1>3, <1>4 DEF Goes, Types, UpdateStates

LEMMA StepEnds ==
    ASSUME Types, NEW r \in Requests, Ends(r)
    PROVE  /\ request' \in [Requests -> RequestStates]
           /\ request'[r].at = "idle"
           /\ \A q \in Requests \ {r} : request'[q] = request[q]
           /\ started' = started
BY StatesOf DEF Types, Ends, Idle

LEMMA StepStarts ==
    ASSUME Types, NEW r \in Requests, NEW s \in RequestStates, Starts(r, s)
    PROVE  /\ request' \in [Requests -> RequestStates]
           /\ request'[r] = s
           /\ \A q \in Requests \ {r} : request'[q] = request[q]
           /\ started' \in Nat
BY DEF Types, Starts, Counted

-----------------------------------------------------------------------------
(* A step that writes no table has its own request to answer for.             *)

QuietStep(r) ==
    /\ Reads
    /\ used \subseteq used' /\ used' \subseteq Users
    /\ started' \in Nat
    /\ request' \in [Requests -> RequestStates]
    /\ \A q \in Requests \ {r} : request'[q] = request[q]

LEMMA OthersFacts ==
    ASSUME Inv, NEW r \in Requests, QuietStep(r), NEW q \in Requests, q # r
    PROVE  Facts(q)'
<1>1. request'[q] = request[q] /\ Facts(q) /\ used \subseteq used'
  BY DEF QuietStep, Inv
<1>2. accounts' = accounts /\ local' = local /\ providers' = providers
      /\ issuer' = issuer /\ links' = links
  BY DEF QuietStep, Reads
<1>3. LinkFacts(q)'
  BY <1>1, <1>2 DEF Facts, LinkFacts, At, SameKey
<1>4. UnlinkFacts(q)'
  BY <1>1, <1>2 DEF Facts, UnlinkFacts, At
<1>5. DeleteFacts(q)'
  BY <1>1, <1>2 DEF Facts, DeleteFacts, At
<1>6. UpdateFacts(q)'
  BY <1>1, <1>2 DEF Facts, UpdateFacts, At
<1> QED
  BY <1>3, <1>4, <1>5, <1>6 DEF Facts

LEMMA OthersApart ==
    ASSUME Inv, NEW r \in Requests, QuietStep(r),
           NEW q \in Requests, NEW o \in Requests, q # r, o # r, q # o
    PROVE  Apart(q, o)'
<1>1. request'[q] = request[q] /\ request'[o] = request[o] /\ Apart(q, o)
  BY DEF QuietStep, Inv
<1> QED
  BY <1>1 DEF Apart, ProvidersApart, RowsApart, KeysApart, NewApart, At, SameKey,
              ForUpdateOfProvider, KeyShareOfProvider, NoKeyUpdateOfAccount

LEMMA Quiet ==
    ASSUME Inv, NEW r \in Requests, QuietStep(r), Facts(r)',
           \A q \in Requests \ {r} : Apart(r, q)' /\ Apart(q, r)'
    PROVE  Inv'
<1>1. Types'
  BY DEF Inv, Types, QuietStep, Reads
<1>2. Keys' /\ LinksHold' /\ NoStrandedAccount'
  <2>1. /\ accounts' = accounts /\ local' = local /\ providers' = providers
        /\ issuer' = issuer /\ links' = links /\ excused' = excused
    BY DEF QuietStep, Reads
  <2>2. Keys'
    BY <2>1 DEF Inv, Keys, SameKey
  <2>3. LinksHold'
    BY <2>1 DEF Inv, LinksHold
  <2>4. NoStrandedAccount'
    BY <2>1 DEF Inv, NoStrandedAccount, HasLink
  <2> QED
    BY <2>2, <2>3, <2>4
<1>3. ASSUME NEW q \in Requests
      PROVE  Facts(q)'
  <2>1. CASE q = r
    BY <2>1
  <2>2. CASE q # r
    BY <2>2, OthersFacts
  <2> QED
    BY <2>1, <2>2
<1>4. ASSUME NEW q \in Requests, NEW o \in Requests, q # o
      PROVE  Apart(q, o)'
  <2>1. CASE q = r
    BY <1>4, <2>1
  <2>2. CASE o = r
    BY <1>4, <2>2
  <2>3. CASE q # r /\ o # r
    BY <1>4, <2>3, OthersApart
  <2> QED
    BY <2>1, <2>2, <2>3
<1> QED
  BY <1>1, <1>2, <1>3, <1>4 DEF Inv

-----------------------------------------------------------------------------
(* What keeps two requests apart when only the first of them moves.           *)

LEMMA ProvidersKept ==
    ASSUME Inv, NEW r \in Requests, NEW q \in Requests, r # q, request'[q] = request[q],
           \A p \in Providers : /\ ForUpdateOfProvider(r, p)' => ForUpdateOfProvider(r, p)
                                /\ KeyShareOfProvider(r, p)' => KeyShareOfProvider(r, p)
    PROVE  ProvidersApart(r, q)' /\ ProvidersApart(q, r)'
<1>1. ProvidersApart(r, q) /\ ProvidersApart(q, r)
  BY DEF Inv, Apart
<1>2. \A p \in Providers : /\ ForUpdateOfProvider(q, p)' = ForUpdateOfProvider(q, p)
                           /\ KeyShareOfProvider(q, p)' = KeyShareOfProvider(q, p)
  BY DEF ForUpdateOfProvider, KeyShareOfProvider, At
<1> QED
  BY <1>1, <1>2, Zenon DEF ProvidersApart

LEMMA RowsKept ==
    ASSUME Inv, NEW r \in Requests, NEW q \in Requests, r # q, request'[q] = request[q],
           \A a \in Users : NoKeyUpdateOfAccount(r, a)' => NoKeyUpdateOfAccount(r, a)
    PROVE  RowsApart(r, q)' /\ RowsApart(q, r)'
<1>1. RowsApart(r, q)
  BY DEF Inv, Apart
<1>2. \A a \in Users : NoKeyUpdateOfAccount(q, a)' = NoKeyUpdateOfAccount(q, a)
  BY DEF NoKeyUpdateOfAccount, At
<1> QED
  BY <1>1, <1>2, Zenon DEF RowsApart

LEMMA KeysKept ==
    ASSUME Inv, NEW r \in Requests, NEW q \in Requests, r # q, request'[q] = request[q],
           At(r)' \in {"account", "commit link"} =>
             /\ At(r) \in {"account", "commit link"}
             /\ request'[r].user = request[r].user
             /\ request'[r].idp = request[r].idp
             /\ request'[r].subject = request[r].subject
    PROVE  KeysApart(r, q)' /\ KeysApart(q, r)'
<1>1. KeysApart(r, q)
  BY DEF Inv, Apart
<1> QED
  BY <1>1 DEF KeysApart, At, SameKey

LEMMA NewKept ==
    ASSUME Inv, NEW r \in Requests, NEW q \in Requests, r # q, request'[q] = request[q],
           At(r)' \in Linking =>
             /\ At(r) \in Linking
             /\ request'[r].user = request[r].user
             /\ request'[r].creates = request[r].creates
    PROVE  NewApart(r, q)' /\ NewApart(q, r)'
<1>1. NewApart(r, q) /\ NewApart(q, r)
  BY DEF Inv, Apart
<1> QED
  BY <1>1 DEF NewApart, At

\* Where a request holds nothing.
Lockless == {"idle", "sign in", "link", "ask row", "ask update"}

LEMMA LocklessApart ==
    ASSUME Inv, NEW r \in Requests, NEW q \in Requests, r # q, request'[q] = request[q],
           At(r)' \in Lockless
    PROVE  /\ ProvidersApart(r, q)' /\ ProvidersApart(q, r)'
           /\ RowsApart(r, q)' /\ RowsApart(q, r)'
           /\ KeysApart(r, q)' /\ KeysApart(q, r)'
<1>1. At(r)' \notin {"insert", "account", "commit link"} /\ At(r)' \notin Deleting
      /\ At(r)' \notin Updating \ {"ask update"} /\ At(r)' \notin Unlinking \ {"ask row"}
  BY DEF Lockless, Deleting, Updating, Unlinking
<1>2. \A p \in Providers : ~ForUpdateOfProvider(r, p)' /\ ~KeyShareOfProvider(r, p)'
  BY <1>1 DEF ForUpdateOfProvider, KeyShareOfProvider, Linking, Lockless, Deleting, Updating
<1>3. \A a \in Users : ~NoKeyUpdateOfAccount(r, a)'
  BY <1>1 DEF NoKeyUpdateOfAccount
<1> QED
  BY <1>1, <1>2, <1>3, ProvidersKept, RowsKept, KeysKept

\* A request at rest, or one that holds nothing and writes no identity, has no
\* facts to keep.
LEMMA NoFacts ==
    ASSUME NEW r \in Requests,
           At(r)' \in {"idle", "sign in", "ask row", "unlink", "ask delete", "ask accounts",
                      "ask update", "update"}
    PROVE  Facts(r)'
BY DEF Facts, LinkFacts, UnlinkFacts, DeleteFacts, UpdateFacts, Linking

-----------------------------------------------------------------------------
(* The steps that write no table.                                             *)

\* Steps after which the request holds nothing and has read nothing.
LEMMA ToRest ==
    ASSUME Inv, NEW r \in Requests, QuietStep(r),
           At(r)' \in {"idle", "sign in", "ask row", "ask update"}
    PROVE  Inv'
<1>1. Facts(r)'
  BY NoFacts
<1>2. ASSUME NEW q \in Requests \ {r}
      PROVE  Apart(r, q)' /\ Apart(q, r)'
  <2>1. request'[q] = request[q] /\ At(r)' \in Lockless /\ At(r)' \notin Linking
    BY DEF QuietStep, Lockless, Linking
  <2>2. NewApart(r, q)' /\ NewApart(q, r)'
    BY <2>1, NewKept
  <2> QED
    BY <2>1, <2>2, LocklessApart DEF Apart
<1> QED
  BY <1>1, <1>2, Quiet

LEMMA RestSteps ==
    ASSUME Inv, NEW r \in Requests,
           \/ \E p \in Providers, s \in Subjects : StartSignIn(r, p, s)
           \/ SignInKnown(r)
           \/ \E a \in Users, p \in Providers : StartUnlink(r, a, p)
           \/ \E p \in Providers, i \in Issuers, e \in BOOLEAN : StartUpdate(r, p, i, e)
           \/ Rollback(r)
    PROVE  Inv'
<1> USE DEF Inv
<1>1. ASSUME NEW s \in RequestStates, Starts(r, s), Reads, used' = used,
             s.at \in {"sign in", "ask row", "ask update"}
      PROVE  Inv'
  <2>1. QuietStep(r) /\ At(r)' = s.at
    BY <1>1, StepStarts DEF QuietStep, Types, At
  <2> QED
    BY <1>1, <2>1, ToRest
<1>2. ASSUME Ends(r), Reads, used' = used
      PROVE  Inv'
  <2>1. QuietStep(r) /\ At(r)' = "idle"
    BY <1>2, StepEnds DEF QuietStep, Types, At
  <2> QED
    BY <2>1, ToRest
<1>3. ASSUME NEW p \in Providers, NEW s \in Subjects, StartSignIn(r, p, s)
      PROVE  Inv'
  <2>1. [at |-> "sign in", idp |-> p, subject |-> s, issuer |-> issuer[p]] \in SignInStates
    BY DEF SignInStates, Types
  <2> QED
    BY <1>1, <1>3, <2>1, StatesOf DEF StartSignIn
<1>4. ASSUME NEW a \in Users, NEW p \in Providers, StartUnlink(r, a, p)
      PROVE  Inv'
  <2>1. [at |-> "ask row", user |-> a, idp |-> p] \in UnlinkStates
    BY DEF UnlinkStates, Unlinking
  <2> QED
    BY <1>1, <1>4, <2>1, StatesOf DEF StartUnlink
<1>5. ASSUME NEW p \in Providers, NEW i \in Issuers, NEW e \in BOOLEAN, StartUpdate(r, p, i, e)
      PROVE  Inv'
  <2>1. [at |-> "ask update", idp |-> p, issuer |-> i, enable |-> e] \in UpdateStates
    BY DEF UpdateStates, Updating
  <2> QED
    BY <1>1, <1>5, <2>1, StatesOf DEF StartUpdate
<1>6. CASE SignInKnown(r)
  BY <1>2, <1>6 DEF SignInKnown
<1>7. CASE Rollback(r)
  BY <1>2, <1>7 DEF Rollback
<1> QED
  BY <1>3, <1>4, <1>5, <1>6, <1>7

LEMMA StartLinkKeeps ==
    ASSUME Inv, NEW r \in Requests, NEW a \in Users, NEW p \in Providers, NEW s \in Subjects,
           StartLink(r, a, p, s)
    PROVE  Inv'
<1> DEFINE state == [at |-> "link", user |-> a, idp |-> p, subject |-> s,
                     issuer |-> issuer[p], creates |-> FALSE]
<1>1. state \in LinkStates
  BY DEF LinkStates, Linking, Inv, Types
<1>2. QuietStep(r) /\ request'[r] = state /\ a \in accounts /\ accounts' = accounts
      /\ used' = used
  BY <1>1, StatesOf, StepStarts DEF StartLink, QuietStep, Inv, Types, Reads
<1>3. Facts(r)'
  <2>1. At(r)' = "link" /\ request'[r].user \in used'
        /\ (request'[r].creates => request'[r].user \notin accounts')
    BY <1>2 DEF At, Inv, Types
  <2> QED
    BY <2>1 DEF Facts, LinkFacts, UnlinkFacts, DeleteFacts, UpdateFacts, Linking
<1>4. ASSUME NEW q \in Requests \ {r}
      PROVE  Apart(r, q)' /\ Apart(q, r)'
  <2>1. request'[q] = request[q] /\ LinkFacts(q)
    BY <1>2 DEF QuietStep, Inv, Facts
  <2>2. At(q)' = At(q) /\ request'[r].user = a /\ request'[r].creates = state.creates
    BY <1>2, <2>1 DEF At
  <2>3. NewApart(r, q)' /\ NewApart(q, r)'
    BY <1>2, <2>1, <2>2 DEF NewApart, LinkFacts, Inv, Types
  <2>4. At(r)' \in Lockless
    BY <1>2 DEF At, Lockless
  <2> QED
    BY <2>1, <2>3, <2>4, LocklessApart DEF Apart
<1> QED
  BY <1>2, <1>3, <1>4, Quiet

LEMMA ProvisionKeeps ==
    ASSUME Inv, NEW r \in Requests, NEW a \in Users, Provision(r, a)
    PROVE  Inv'
<1> DEFINE state == [at |-> "link", user |-> a, idp |-> request[r].idp,
                     subject |-> request[r].subject, issuer |-> request[r].issuer,
                     creates |-> TRUE]
<1>1. state \in LinkStates
  <2>1. request[r] \in SignInStates
    BY StateShape DEF Inv, Types, Provision, At
  <2> QED
    BY <2>1 DEF LinkStates, SignInStates, Linking
<1>2. QuietStep(r) /\ request'[r] = state /\ a \notin used /\ accounts' = accounts
      /\ used' = used \cup {a}
  BY <1>1, StatesOf DEF Provision, QuietStep, Inv, Types, Reads
<1>3. Facts(r)'
  <2>1. At(r)' = "link" /\ request'[r].user \in used'
        /\ (request'[r].creates => request'[r].user \notin accounts')
    BY <1>2 DEF At, Inv, Types
  <2> QED
    BY <2>1 DEF Facts, LinkFacts, UnlinkFacts, DeleteFacts, UpdateFacts, Linking
<1>4. ASSUME NEW q \in Requests \ {r}
      PROVE  Apart(r, q)' /\ Apart(q, r)'
  <2>1. request'[q] = request[q] /\ LinkFacts(q)
    BY <1>2 DEF QuietStep, Inv, Facts
  <2>2. At(q)' = At(q) /\ request'[r].user = a /\ request'[r].creates = state.creates
    BY <1>2, <2>1 DEF At
  <2>3. NewApart(r, q)' /\ NewApart(q, r)'
    BY <1>2, <2>1, <2>2 DEF NewApart, LinkFacts, Inv, Types
  <2>4. At(r)' \in Lockless
    BY <1>2 DEF At, Lockless
  <2> QED
    BY <2>1, <2>3, <2>4, LocklessApart DEF Apart
<1> QED
  BY <1>2, <1>3, <1>4, Quiet

\* A link's own steps leave its account, its key and its new id as they were.
LinkStep(r, place) ==
    /\ At(r) \in Linking /\ place \in Linking
    /\ Goes(r, place) /\ Reads /\ used' = used

LEMMA LinkStepKeeps ==
    ASSUME Inv, NEW r \in Requests, NEW place \in Linking, LinkStep(r, place),
           LinkFacts(r)',
           \A q \in Requests \ {r} : /\ ProvidersApart(r, q)' /\ ProvidersApart(q, r)'
                                    /\ KeysApart(r, q)' /\ KeysApart(q, r)'
    PROVE  Inv'
<1>1. /\ request' \in [Requests -> RequestStates] /\ At(r)' = place
      /\ request'[r].user = request[r].user /\ request'[r].creates = request[r].creates
      /\ \A q \in Requests \ {r} : request'[q] = request[q]
      /\ started' = started
  BY LinkGoes DEF LinkStep, Inv, At
<1>2. QuietStep(r)
  BY <1>1 DEF QuietStep, LinkStep, Inv, Types
<1>3. Facts(r)'
  <2>1. At(r)' \notin {"commit unlink", "lock accounts", "delete", "commit delete", "commit update"}
    BY <1>1 DEF Linking
  <2> QED
    BY <2>1 DEF Facts, UnlinkFacts, DeleteFacts, UpdateFacts
<1>4. ASSUME NEW q \in Requests \ {r}
      PROVE  Apart(r, q)' /\ Apart(q, r)'
  <2>1. request'[q] = request[q] /\ r # q /\ At(r) \in Linking
    BY <1>1 DEF LinkStep
  <2>2. NewApart(r, q)' /\ NewApart(q, r)'
    BY <1>1, <2>1, NewKept
  <2>3. \A a \in Users : ~NoKeyUpdateOfAccount(r, a)'
    BY <1>1 DEF NoKeyUpdateOfAccount, Linking, Unlinking, Deleting
  <2>4. RowsApart(r, q)' /\ RowsApart(q, r)'
    BY <2>1, <2>3, RowsKept
  <2> QED
    BY <2>2, <2>4 DEF Apart
<1> QED
  BY <1>2, <1>3, <1>4, Quiet

LEMMA LockProviderForLinkKeeps ==
    ASSUME Inv, NEW r \in Requests, LockProviderForLink(r)
    PROVE  Inv'
<1>1. "insert" \in Linking /\ LinkStep(r, "insert") /\ LinkFacts(r)
  BY DEF LinkStep, LockProviderForLink, Linking, Inv, Facts
<1>2. /\ request[r] \in LinkStates /\ At(r)' = "insert"
      /\ request'[r].user = request[r].user /\ request'[r].idp = request[r].idp
      /\ request'[r].issuer = request[r].issuer
      /\ request'[r].creates = request[r].creates
      /\ \A q \in Requests \ {r} : request'[q] = request[q]
  BY <1>1, LinkGoes DEF LinkStep, Inv, At
<1>3. LinkFacts(r)'
  BY <1>1, <1>2 DEF LinkFacts, LockProviderForLink, Reads, LinkStep, At
<1>4. ASSUME NEW q \in Requests \ {r}
      PROVE  /\ ProvidersApart(r, q)' /\ ProvidersApart(q, r)'
             /\ KeysApart(r, q)' /\ KeysApart(q, r)'
  <2>1. request'[q] = request[q] /\ r # q
    BY <1>2
  <2>2. KeysApart(r, q)' /\ KeysApart(q, r)'
    BY <1>2, <2>1, KeysKept
  <2>3. ~ForUpdateOfProvider(q, request[r].idp)
    BY DEF LockProviderForLink, ProviderFreeToShare
  <2>4. \A p \in Providers : ForUpdateOfProvider(q, p)' = ForUpdateOfProvider(q, p)
    BY <2>1 DEF ForUpdateOfProvider, At
  <2>5. \A p \in Providers : ~ForUpdateOfProvider(r, p)'
    BY <1>2 DEF ForUpdateOfProvider, Deleting, Updating
  <2>6. \A p \in Providers : KeyShareOfProvider(r, p)' => p = request[r].idp
    BY <1>2 DEF KeyShareOfProvider
  <2> QED
    BY <2>2, <2>3, <2>4, <2>5, <2>6 DEF ProvidersApart
<1> QED
  BY <1>1, <1>3, <1>4, LinkStepKeeps

LEMMA InsertKeeps ==
    ASSUME Inv, NEW r \in Requests, Insert(r)
    PROVE  Inv'
<1>1. "account" \in Linking /\ LinkStep(r, "account") /\ LinkFacts(r)
  BY DEF LinkStep, Insert, Linking, Inv, Facts
<1>2. /\ request[r] \in LinkStates /\ At(r)' = "account"
      /\ request'[r].user = request[r].user /\ request'[r].idp = request[r].idp
      /\ request'[r].issuer = request[r].issuer
      /\ request'[r].subject = request[r].subject
      /\ request'[r].creates = request[r].creates
      /\ \A q \in Requests \ {r} : request'[q] = request[q]
  BY <1>1, LinkGoes DEF LinkStep, Inv, At
<1>3. LinkFacts(r)'
  BY <1>1, <1>2 DEF LinkFacts, Insert, Reads, LinkStep, At, SameKey
<1>4. ASSUME NEW q \in Requests \ {r}
      PROVE  /\ ProvidersApart(r, q)' /\ ProvidersApart(q, r)'
             /\ KeysApart(r, q)' /\ KeysApart(q, r)'
  <2>1. request'[q] = request[q] /\ r # q
    BY <1>2
  <2>2. KeysApart(r, q)' /\ KeysApart(q, r)'
    BY <1>2, <2>1 DEF KeysApart, Insert, KeyWaitsFor, SameKey, At
  <2>3. \A p \in Providers : /\ ~ForUpdateOfProvider(r, p)'
                             /\ KeyShareOfProvider(r, p)' => KeyShareOfProvider(r, p)
    BY <1>2 DEF ForUpdateOfProvider, KeyShareOfProvider, Deleting, Updating, Linking, Insert
  <2>4. ProvidersApart(r, q)' /\ ProvidersApart(q, r)'
    BY <2>1, <2>3, ProvidersKept
  <2> QED
    BY <2>2, <2>4
<1> QED
  BY <1>1, <1>3, <1>4, LinkStepKeeps

LEMMA LockAccountForLinkKeeps ==
    ASSUME Inv, NEW r \in Requests, LockAccountForLink(r)
    PROVE  Inv'
<1>1. "commit link" \in Linking /\ LinkStep(r, "commit link") /\ LinkFacts(r)
  BY DEF LinkStep, LockAccountForLink, Linking, Inv, Facts
<1>2. /\ request[r] \in LinkStates /\ At(r)' = "commit link" /\ At(r) = "account"
      /\ request'[r].user = request[r].user /\ request'[r].idp = request[r].idp
      /\ request'[r].issuer = request[r].issuer
      /\ request'[r].subject = request[r].subject
      /\ request'[r].creates = request[r].creates
      /\ \A q \in Requests \ {r} : request'[q] = request[q]
  BY <1>1, LinkGoes DEF LinkStep, Inv, At, LockAccountForLink
<1>3. LinkFacts(r)'
  BY <1>1, <1>2 DEF LinkFacts, LockAccountForLink, Reads, LinkStep, At, SameKey
<1>4. ASSUME NEW q \in Requests \ {r}
      PROVE  /\ ProvidersApart(r, q)' /\ ProvidersApart(q, r)'
             /\ KeysApart(r, q)' /\ KeysApart(q, r)'
  <2>1. request'[q] = request[q] /\ r # q
    BY <1>2
  <2>2. KeysApart(r, q)' /\ KeysApart(q, r)'
    BY <1>2, <2>1, KeysKept DEF At
  <2>3. \A p \in Providers : /\ ~ForUpdateOfProvider(r, p)'
                             /\ KeyShareOfProvider(r, p)' => KeyShareOfProvider(r, p)
    BY <1>2 DEF ForUpdateOfProvider, KeyShareOfProvider, Deleting, Updating, Linking
  <2>4. ProvidersApart(r, q)' /\ ProvidersApart(q, r)'
    BY <2>1, <2>3, ProvidersKept
  <2> QED
    BY <2>2, <2>4
<1> QED
  BY <1>1, <1>3, <1>4, LinkStepKeeps

LEMMA UnlinkStepsKeep ==
    ASSUME Inv, NEW r \in Requests, LockAccountForUnlink(r) \/ Unlink(r)
    PROVE  Inv'
<1>1. PICK place \in {"unlink", "commit unlink"} :
         /\ Goes(r, place) /\ At(r) \in Unlinking /\ Reads /\ used' = used
         /\ place = "unlink" => LockAccountForUnlink(r)
         /\ place = "commit unlink" => Unlink(r)
  BY DEF LockAccountForUnlink, Unlink, Unlinking
<1>2. /\ request[r] \in UnlinkStates /\ At(r)' = place
      /\ request' \in [Requests -> RequestStates]
      /\ request'[r].user = request[r].user /\ request'[r].idp = request[r].idp
      /\ \A q \in Requests \ {r} : request'[q] = request[q]
      /\ started' = started
  BY <1>1, UnlinkGoes DEF Inv, At, Unlinking
<1>3. QuietStep(r)
  BY <1>1, <1>2 DEF QuietStep, Inv, Types
<1>4. Facts(r)'
  <2>1. CASE place = "unlink"
    BY <1>2, <2>1, NoFacts
  <2>2. CASE place = "commit unlink"
    <3>1. UnlinkFacts(r)'
      BY <1>1, <1>2, <2>2 DEF UnlinkFacts, Unlink, KeepsAWayIn, Reads, At, Inv, LinksHold
    <3> QED
      BY <1>2, <2>2, <3>1 DEF Facts, LinkFacts, DeleteFacts, UpdateFacts, Linking
  <2> QED
    BY <2>1, <2>2
<1>5. ASSUME NEW q \in Requests \ {r}
      PROVE  Apart(r, q)' /\ Apart(q, r)'
  <2>1. request'[q] = request[q] /\ r # q /\ Apart(r, q)
    BY <1>2 DEF Inv
  <2>2. At(r)' \in Unlinking \ {"ask row"} /\ At(r)' \notin Linking \cup Deleting \cup Updating
    BY <1>2 DEF Unlinking, Linking, Deleting, Updating
  <2>3. \A p \in Providers : ~ForUpdateOfProvider(r, p)' /\ ~KeyShareOfProvider(r, p)'
    BY <2>2 DEF ForUpdateOfProvider, KeyShareOfProvider
  <2>4. ProvidersApart(r, q)' /\ ProvidersApart(q, r)'
    BY <2>1, <2>3, ProvidersKept
  <2>5. KeysApart(r, q)' /\ KeysApart(q, r)' /\ NewApart(r, q)' /\ NewApart(q, r)'
    BY <2>1, <2>2, KeysKept, NewKept DEF Linking
  <2>6. \A a \in Users : NoKeyUpdateOfAccount(r, a)' => a = request[r].user
    BY <1>2, <2>2 DEF NoKeyUpdateOfAccount
  <2>7. ~NoKeyUpdateOfAccount(q, request[r].user)
    <3>1. CASE place = "unlink"
      BY <1>1, <3>1 DEF LockAccountForUnlink, AccountFree
    <3>2. CASE place = "commit unlink"
      <4>1. NoKeyUpdateOfAccount(r, request[r].user) /\ request[r].user \in Users
        BY <1>1, <1>2, <3>2 DEF Unlink, NoKeyUpdateOfAccount, Unlinking, UnlinkStates
      <4> QED
        BY <2>1, <4>1 DEF Apart, RowsApart
    <3> QED
      BY <3>1, <3>2
  <2>8. \A a \in Users : NoKeyUpdateOfAccount(q, a)' = NoKeyUpdateOfAccount(q, a)
    BY <2>1 DEF NoKeyUpdateOfAccount, At
  <2>9. RowsApart(r, q)' /\ RowsApart(q, r)'
    BY <2>6, <2>7, <2>8 DEF RowsApart
  <2> QED
    BY <2>4, <2>5, <2>9 DEF Apart
<1> QED
  BY <1>3, <1>4, <1>5, Quiet

-----------------------------------------------------------------------------
(* A provider's delete and update.                                            *)

\* A step of a delete after which it holds what it held, its account rows apart.
LEMMA DeleteStepKeeps ==
    ASSUME Inv, NEW r \in Requests, QuietStep(r), At(r)' \in Deleting, DeleteFacts(r)',
           \A q \in Requests \ {r} : /\ ProvidersApart(r, q)' /\ ProvidersApart(q, r)'
                                    /\ RowsApart(r, q)' /\ RowsApart(q, r)'
    PROVE  Inv'
<1>1. At(r)' \notin Linking /\ At(r)' \notin {"commit unlink", "commit update"}
      /\ At(r)' \notin {"insert", "account", "commit link"}
  BY DEF Deleting, Linking
<1>2. Facts(r)'
  BY <1>1 DEF Facts, LinkFacts, UnlinkFacts, UpdateFacts
<1>3. ASSUME NEW q \in Requests \ {r}
      PROVE  Apart(r, q)' /\ Apart(q, r)'
  <2>1. request'[q] = request[q] /\ r # q
    BY DEF QuietStep
  <2>2. KeysApart(r, q)' /\ KeysApart(q, r)' /\ NewApart(r, q)' /\ NewApart(q, r)'
    BY <1>1, <2>1, KeysKept, NewKept
  <2> QED
    BY <2>2 DEF Apart
<1> QED
  BY <1>2, <1>3, Quiet

\* The provider's row, once taken, stays taken: no lock on a provider is gained.
LEMMA DeleteHolds ==
    ASSUME Inv, NEW r \in Requests, QuietStep(r),
           At(r) \in Deleting \ {"ask delete"}, At(r)' \in Deleting,
           request'[r].idp = request[r].idp,
           NEW q \in Requests \ {r}
    PROVE  ProvidersApart(r, q)' /\ ProvidersApart(q, r)'
<1>1. request'[q] = request[q]
  BY DEF QuietStep
<1>2. \A p \in Providers : /\ ForUpdateOfProvider(r, p)' => ForUpdateOfProvider(r, p)
                           /\ ~KeyShareOfProvider(r, p)'
  BY DEF ForUpdateOfProvider, KeyShareOfProvider, Deleting, Updating, Linking
<1> QED
  BY <1>1, <1>2, ProvidersKept

LEMMA DeleteRowsKept ==
    ASSUME Inv, NEW r \in Requests, QuietStep(r),
           At(r) \in Deleting, At(r)' \in Deleting,
           request'[r].rows \subseteq request[r].rows,
           NEW q \in Requests \ {r}
    PROVE  RowsApart(r, q)' /\ RowsApart(q, r)'
<1>1. request'[q] = request[q]
  BY DEF QuietStep
<1>2. \A a \in Users : NoKeyUpdateOfAccount(r, a)' => NoKeyUpdateOfAccount(r, a)
  BY DEF NoKeyUpdateOfAccount, Deleting, Unlinking
<1> QED
  BY <1>1, <1>2, RowsKept

LEMMA StartDeleteKeeps ==
    ASSUME Inv, NEW r \in Requests, NEW p \in Providers, StartDelete(r, p)
    PROVE  Inv'
<1> DEFINE state == [at |-> "ask delete", idp |-> p, todo |-> {}, rows |-> {}]
<1>1. state \in DeleteStates
  BY DEF DeleteStates, Deleting
<1>2. QuietStep(r) /\ request'[r] = state
  BY <1>1, StatesOf, StepStarts DEF StartDelete, QuietStep, Inv, Types
<1>3. At(r)' = "ask delete" /\ request'[r].rows = {}
  <2>1. state.at = "ask delete" /\ state.rows = {}
    OBVIOUS
  <2> QED
    BY <1>2, <2>1, Zenon DEF At
<1>4. At(r)' \in Deleting /\ DeleteFacts(r)'
  <2>1. At(r)' \in Deleting
    BY <1>3 DEF Deleting
  <2>2. DeleteFacts(r)'
    BY <1>3 DEF DeleteFacts
  <2> QED
    BY <2>1, <2>2
<1>5. ASSUME NEW q \in Requests \ {r}
      PROVE  /\ ProvidersApart(r, q)' /\ ProvidersApart(q, r)'
             /\ RowsApart(r, q)' /\ RowsApart(q, r)'
  <2>1. request'[q] = request[q]
    BY <1>2 DEF QuietStep
  <2>2. \A o \in Providers : ~ForUpdateOfProvider(r, o)' /\ ~KeyShareOfProvider(r, o)'
    BY <1>3 DEF ForUpdateOfProvider, KeyShareOfProvider, Linking, Updating
  <2>3. \A a \in Users : ~NoKeyUpdateOfAccount(r, a)'
    BY <1>3 DEF NoKeyUpdateOfAccount, Unlinking
  <2> QED
    BY <2>1, <2>2, <2>3, ProvidersKept, RowsKept
<1> QED
  BY <1>2, <1>4, <1>5, DeleteStepKeeps

LEMMA LockProviderForDeleteKeeps ==
    ASSUME Inv, NEW r \in Requests, LockProviderForDelete(r)
    PROVE  Inv'
<1>1. /\ request[r] \in DeleteStates /\ At(r)' = "ask accounts" /\ At(r) = "ask delete"
      /\ request' \in [Requests -> RequestStates]
      /\ request'[r].idp = request[r].idp /\ request'[r].rows = request[r].rows
      /\ \A q \in Requests \ {r} : request'[q] = request[q]
      /\ started' = started /\ Reads /\ used' = used
  <2>1. /\ Types /\ At(r) \in Deleting /\ "ask accounts" \in Deleting
        /\ Goes(r, "ask accounts") /\ At(r) = "ask delete" /\ Reads /\ used' = used
    BY DEF LockProviderForDelete, Inv, Deleting
  <2> QED
    BY <2>1, DeleteGoes DEF At
<1>2. QuietStep(r) /\ At(r)' \in Deleting /\ At(r) \in Deleting /\ DeleteFacts(r)'
  BY <1>1 DEF QuietStep, Inv, Types, Deleting, DeleteFacts
<1>3. ASSUME NEW q \in Requests \ {r}
      PROVE  /\ ProvidersApart(r, q)' /\ ProvidersApart(q, r)'
             /\ RowsApart(r, q)' /\ RowsApart(q, r)'
  <2>1. request'[q] = request[q]
    BY <1>1
  <2>2. ~ForUpdateOfProvider(q, request[r].idp) /\ ~KeyShareOfProvider(q, request[r].idp)
    BY DEF LockProviderForDelete, ProviderFreeForUpdate
  <2>3. \A p \in Providers : /\ ForUpdateOfProvider(q, p)' = ForUpdateOfProvider(q, p)
                             /\ KeyShareOfProvider(q, p)' = KeyShareOfProvider(q, p)
    BY <2>1 DEF ForUpdateOfProvider, KeyShareOfProvider, At
  <2>4. \A p \in Providers : /\ ForUpdateOfProvider(r, p)' => p = request[r].idp
                             /\ ~KeyShareOfProvider(r, p)'
    BY <1>1 DEF ForUpdateOfProvider, KeyShareOfProvider, Linking
  <2>5. ProvidersApart(r, q)' /\ ProvidersApart(q, r)'
    BY <2>2, <2>3, <2>4 DEF ProvidersApart
  <2> QED
    BY <1>1, <1>2, <2>5, DeleteRowsKept
<1> QED
  BY <1>2, <1>3, DeleteStepKeeps

LEMMA FindAccountsKeeps ==
    ASSUME Inv, NEW r \in Requests, FindAccounts(r)
    PROVE  Inv'
<1> DEFINE linked == {a \in Users : \E l \in links : l.idp = request[r].idp /\ l.user = a}
<1>1. request[r] \in DeleteStates /\ At(r) = "ask accounts" /\ Types
  BY StateShape DEF FindAccounts, At, Inv, Types, Deleting
<1>2. /\ request'[r] = [request[r] EXCEPT !.at = "lock accounts", !.todo = linked]
      /\ \A q \in Requests \ {r} : request'[q] = request[q]
      /\ started' = started /\ Reads /\ used' = used
      /\ request' = [request EXCEPT ![r] =
                        [request[r] EXCEPT !.at = "lock accounts", !.todo = linked]]
  BY <1>1 DEF FindAccounts, Types
<1>3. [request[r] EXCEPT !.at = "lock accounts", !.todo = linked] \in DeleteStates
  BY <1>1 DEF DeleteStates, Deleting
<1>4. request' \in [Requests -> RequestStates]
  BY <1>1, <1>2, <1>3, StatesOf DEF Types
<1>5. /\ At(r)' = "lock accounts" /\ request'[r].idp = request[r].idp
      /\ request'[r].rows = request[r].rows /\ request'[r].todo = linked
  <2>1. request'[r].at = "lock accounts"
    BY <1>1, <1>2 DEF DeleteStates
  <2>2. request'[r].idp = request[r].idp
    BY <1>1, <1>2 DEF DeleteStates
  <2>3. request'[r].rows = request[r].rows
    BY <1>1, <1>2 DEF DeleteStates
  <2>4. request'[r].todo = linked
    BY <1>1, <1>2 DEF DeleteStates
  <2> QED
    BY <2>1, <2>2, <2>3, <2>4, Zenon DEF At
<1>6. QuietStep(r)
  BY <1>1, <1>2, <1>4 DEF QuietStep, Types
<1>7. DeleteFacts(r)'
  <2>1. \A l \in links : l.user \in Users
    BY <1>1 DEF Types, Identities
  <2>2. \A l \in links : l.idp = request[r].idp => l.user \in linked
    BY <2>1
  <2> QED
    BY <1>2, <1>5, <2>2 DEF DeleteFacts, Reads
<1>8. ASSUME NEW q \in Requests \ {r}
      PROVE  /\ ProvidersApart(r, q)' /\ ProvidersApart(q, r)'
             /\ RowsApart(r, q)' /\ RowsApart(q, r)'
  BY <1>1, <1>5, <1>6, DeleteHolds, DeleteRowsKept DEF Deleting
<1> QED
  BY <1>5, <1>6, <1>7, <1>8, DeleteStepKeeps DEF Deleting

LEMMA LockAccountForDeleteKeeps ==
    ASSUME Inv, NEW r \in Requests, LockAccountForDelete(r)
    PROVE  Inv'
<1>1. request[r] \in DeleteStates /\ At(r) = "lock accounts" /\ Types
  BY StateShape DEF LockAccountForDelete, At, Inv, Types, Deleting
<1>2. PICK a \in request[r].todo :
         /\ AccountFree(r, a)
         /\ request' = [request EXCEPT
               ![r].todo = @ \ {a},
               ![r].rows = @ \cup (accounts \cap {a})]
  BY DEF LockAccountForDelete
<1> DEFINE todo == request[r].todo \ {a}
           rows == request[r].rows \cup (accounts \cap {a})
<1>3. /\ request'[r] = [request[r] EXCEPT !.todo = todo, !.rows = rows]
      /\ \A q \in Requests \ {r} : request'[q] = request[q]
      /\ started' = started /\ Reads /\ used' = used
      /\ request' = [request EXCEPT ![r] =
                        [request[r] EXCEPT !.todo = todo, !.rows = rows]]
  BY <1>1, <1>2 DEF LockAccountForDelete, Types
<1>4. [request[r] EXCEPT !.todo = todo, !.rows = rows] \in DeleteStates
  BY <1>1 DEF DeleteStates
<1>5. request' \in [Requests -> RequestStates]
  BY <1>1, <1>3, <1>4, StatesOf DEF Types
<1>6. /\ At(r)' = "lock accounts" /\ request'[r].idp = request[r].idp
      /\ request'[r].rows = rows /\ request'[r].todo = todo
  <2>1. request'[r].at = request[r].at
    BY <1>1, <1>3 DEF DeleteStates
  <2>2. request'[r].idp = request[r].idp
    BY <1>1, <1>3 DEF DeleteStates
  <2>3. request'[r].rows = rows
    BY <1>1, <1>3 DEF DeleteStates
  <2>4. request'[r].todo = todo
    BY <1>1, <1>3 DEF DeleteStates
  <2> QED
    BY <1>1, <2>1, <2>2, <2>3, <2>4, Zenon DEF At
<1>7. QuietStep(r)
  BY <1>1, <1>3, <1>5 DEF QuietStep, Types
<1>8. DeleteFacts(r)'
  <2>1. \A l \in links : l.idp = request[r].idp =>
                            l.user \in request[r].rows \cup request[r].todo
    BY <1>1 DEF Inv, Facts, DeleteFacts
  <2>2. \A l \in links : l.user \in accounts
    BY DEF Inv, LinksHold
  <2>3. \A l \in links : l.idp = request[r].idp => l.user \in rows \cup todo
    BY <2>1, <2>2
  <2> QED
    BY <1>3, <1>6, <2>3 DEF DeleteFacts, Reads
<1>9. ASSUME NEW q \in Requests \ {r}
      PROVE  /\ ProvidersApart(r, q)' /\ ProvidersApart(q, r)'
             /\ RowsApart(r, q)' /\ RowsApart(q, r)'
  <2>1. ProvidersApart(r, q)' /\ ProvidersApart(q, r)'
    BY <1>1, <1>6, <1>7, DeleteHolds DEF Deleting
  <2>2. RowsApart(r, q) /\ request'[q] = request[q]
    BY <1>3 DEF Inv, Apart
  <2>3. \A b \in Users : NoKeyUpdateOfAccount(q, b)' = NoKeyUpdateOfAccount(q, b)
    BY <2>2 DEF NoKeyUpdateOfAccount, At
  <2>4. \A b \in Users : NoKeyUpdateOfAccount(r, b)' => NoKeyUpdateOfAccount(r, b) \/ b = a
    BY <1>1, <1>6 DEF NoKeyUpdateOfAccount, Deleting, Unlinking
  <2>5. ~NoKeyUpdateOfAccount(q, a)
    BY <1>2 DEF AccountFree
  <2>6. RowsApart(r, q)' /\ RowsApart(q, r)'
    BY <2>2, <2>3, <2>4, <2>5 DEF RowsApart
  <2> QED
    BY <2>1, <2>6
<1> QED
  BY <1>6, <1>7, <1>8, <1>9, DeleteStepKeeps DEF Deleting

LEMMA DecidingStepsKeep ==
    ASSUME Inv, NEW r \in Requests, AccountsLocked(r) \/ DeleteProvider(r)
    PROVE  Inv'
<1>1. PICK place \in {"delete", "commit delete"} :
         /\ Goes(r, place) /\ Reads /\ used' = used
         /\ place = "delete" => AccountsLocked(r)
         /\ place = "commit delete" => DeleteProvider(r)
  BY DEF AccountsLocked, DeleteProvider
<1>2. /\ Types /\ At(r) \in {"lock accounts", "delete"} /\ place \in Deleting
      /\ At(r) \in Deleting \ {"ask delete"} /\ DeleteFacts(r)
  BY <1>1 DEF AccountsLocked, DeleteProvider, Deleting, Inv, Facts
<1>3. /\ request[r] \in DeleteStates /\ At(r)' = place
      /\ request' \in [Requests -> RequestStates]
      /\ request'[r].idp = request[r].idp /\ request'[r].rows = request[r].rows
      /\ request'[r].todo = request[r].todo
      /\ \A q \in Requests \ {r} : request'[q] = request[q]
      /\ started' = started
  BY <1>1, <1>2, DeleteGoes DEF At
<1>4. QuietStep(r)
  BY <1>1, <1>2, <1>3 DEF QuietStep, Types
<1>5. DeleteFacts(r)'
  <2>1. request[r].todo = {}
    BY <1>1, <1>2 DEF AccountsLocked, DeleteProvider, DeleteFacts
  <2>2. place = "commit delete" =>
          \A l \in links : l.idp = request[r].idp =>
             \/ local[l.user]
             \/ \E m \in links : m.user = l.user /\ m.idp # request[r].idp
    BY <1>1 DEF DeleteProvider, OnlyWayIn
  <2> QED
    BY <1>1, <1>2, <1>3, <2>1, <2>2 DEF DeleteFacts, Reads
<1>6. ASSUME NEW q \in Requests \ {r}
      PROVE  /\ ProvidersApart(r, q)' /\ ProvidersApart(q, r)'
             /\ RowsApart(r, q)' /\ RowsApart(q, r)'
  BY <1>2, <1>3, <1>4, DeleteHolds, DeleteRowsKept
<1> QED
  BY <1>2, <1>3, <1>4, <1>5, <1>6, DeleteStepKeeps

LEMMA UpdateStepsKeep ==
    ASSUME Inv, NEW r \in Requests, LockProviderForUpdate(r) \/ UpdateProvider(r)
    PROVE  Inv'
<1>1. PICK place \in {"update", "commit update"} :
         /\ Goes(r, place) /\ At(r) \in {"ask update", "update"} /\ Reads /\ used' = used
         /\ place = "update" => LockProviderForUpdate(r)
         /\ place = "commit update" => UpdateProvider(r)
  BY DEF LockProviderForUpdate, UpdateProvider
<1>2. Types /\ place \in Updating /\ At(r) \in Updating
  BY <1>1 DEF Updating, Inv
<1>3. /\ request[r] \in UpdateStates /\ At(r)' = place
      /\ request' \in [Requests -> RequestStates]
      /\ request'[r].idp = request[r].idp /\ request'[r].issuer = request[r].issuer
      /\ \A q \in Requests \ {r} : request'[q] = request[q]
      /\ started' = started
  BY <1>1, <1>2, UpdateGoes DEF At
<1>4. QuietStep(r)
  BY <1>1, <1>2, <1>3 DEF QuietStep, Types
<1>5. At(r)' \notin Linking \cup Unlinking \cup Deleting /\ At(r)' \in {"update", "commit update"}
  BY <1>3 DEF Linking, Unlinking, Deleting
<1>6. Facts(r)'
  <2>1. UpdateFacts(r)'
    BY <1>1, <1>3 DEF UpdateFacts, UpdateProvider, Reads
  <2> QED
    BY <1>5, <2>1 DEF Facts, LinkFacts, UnlinkFacts, DeleteFacts, Linking
<1>7. ASSUME NEW q \in Requests \ {r}
      PROVE  Apart(r, q)' /\ Apart(q, r)'
  <2>1. request'[q] = request[q] /\ r # q /\ ProvidersApart(r, q)
    BY <1>3 DEF Inv, Apart
  <2>2. KeysApart(r, q)' /\ KeysApart(q, r)' /\ NewApart(r, q)' /\ NewApart(q, r)'
    BY <1>5, <2>1, KeysKept, NewKept DEF Linking
  <2>3. \A a \in Users : ~NoKeyUpdateOfAccount(r, a)'
    BY <1>5 DEF NoKeyUpdateOfAccount
  <2>4. RowsApart(r, q)' /\ RowsApart(q, r)'
    BY <2>1, <2>3, RowsKept
  <2>5. ~ForUpdateOfProvider(q, request[r].idp) /\ ~KeyShareOfProvider(q, request[r].idp)
    <3>1. CASE place = "update"
      BY <1>1, <3>1 DEF LockProviderForUpdate, ProviderFreeForUpdate
    <3>2. CASE place = "commit update"
      <4>1. ForUpdateOfProvider(r, request[r].idp) /\ request[r].idp \in Providers
        BY <1>1, <1>3, <3>2 DEF UpdateProvider, ForUpdateOfProvider, Updating, UpdateStates
      <4> QED
        BY <2>1, <4>1 DEF ProvidersApart
    <3> QED
      BY <3>1, <3>2
  <2>6. \A p \in Providers : /\ ForUpdateOfProvider(q, p)' = ForUpdateOfProvider(q, p)
                             /\ KeyShareOfProvider(q, p)' = KeyShareOfProvider(q, p)
    BY <2>1 DEF ForUpdateOfProvider, KeyShareOfProvider, At
  <2>7. \A p \in Providers : /\ ForUpdateOfProvider(r, p)' => p = request[r].idp
                             /\ ~KeyShareOfProvider(r, p)'
    BY <1>3, <1>5 DEF ForUpdateOfProvider, KeyShareOfProvider
  <2>8. ProvidersApart(r, q)' /\ ProvidersApart(q, r)'
    BY <2>5, <2>6, <2>7 DEF ProvidersApart
  <2> QED
    BY <2>2, <2>4, <2>8 DEF Apart
<1> QED
  BY <1>4, <1>6, <1>7, Quiet

-----------------------------------------------------------------------------
(* The commits.  A request that ends has the tables and the others to answer  *)
(* for.                                                                       *)

LEMMA CommitKeeps ==
    ASSUME Inv, NEW r \in Requests, Ends(r),
           Types', Keys', LinksHold', NoStrandedAccount',
           \A q \in Requests \ {r} : Facts(q)'
    PROVE  Inv'
<1>1. At(r)' = "idle" /\ \A q \in Requests \ {r} : request'[q] = request[q]
  BY StepEnds DEF Inv, At
<1>2. Facts(r)'
  BY <1>1, NoFacts
<1>3. ASSUME NEW q \in Requests \ {r}
      PROVE  Apart(r, q)' /\ Apart(q, r)'
  <2>1. request'[q] = request[q] /\ At(r)' \in Lockless /\ At(r)' \notin Linking
    BY <1>1 DEF Lockless, Linking
  <2>2. NewApart(r, q)' /\ NewApart(q, r)'
    BY <2>1, NewKept
  <2> QED
    BY <2>1, <2>2, LocklessApart DEF Apart
<1>4. ASSUME NEW q \in Requests \ {r}, NEW o \in Requests \ {r}, q # o
      PROVE  Apart(q, o)'
  <2>1. request'[q] = request[q] /\ request'[o] = request[o] /\ Apart(q, o)
    BY <1>1, <1>4 DEF Inv
  <2> QED
    BY <2>1 DEF Apart, ProvidersApart, RowsApart, KeysApart, NewApart, At, SameKey,
                ForUpdateOfProvider, KeyShareOfProvider, NoKeyUpdateOfAccount
<1>5. ASSUME NEW q \in Requests, NEW o \in Requests, q # o
      PROVE  Apart(q, o)'
  <2>1. CASE q = r
    BY <1>3, <1>5, <2>1
  <2>2. CASE o = r
    BY <1>3, <1>5, <2>2
  <2>3. CASE q # r /\ o # r
    BY <1>4, <1>5, <2>3
  <2> QED
    BY <2>1, <2>2, <2>3
<1> QED
  BY <1>2, <1>5 DEF Inv

\* A delete that stands still while the identities change under it.
LEMMA DeleteFactsAfter ==
    ASSUME NEW q \in Requests, At(q)' = At(q), request'[q] = request[q], local' = local,
           At(q) \in {"lock accounts", "delete", "commit delete"} =>
             \A l \in links' : l.idp = request[q].idp =>
                                 l.user \in request[q].rows \cup request[q].todo,
           At(q) \in {"delete", "commit delete"} => request[q].todo = {},
           At(q) = "commit delete" => \A l \in links' : l.idp = request[q].idp =>
             \/ local[l.user]
             \/ \E m \in links' : m.user = l.user /\ m.idp # request[q].idp
    PROVE  DeleteFacts(q)'
BY Zenon DEF DeleteFacts

\* Fewer identities: what is left of the tables holds.
LEMMA FewerLinks ==
    ASSUME Inv, links' \subseteq links
    PROVE  Keys' /\ links' \subseteq Identities
BY DEF Inv, Keys, Types, SameKey

LEMMA CommitUpdateKeeps ==
    ASSUME Inv, NEW r \in Requests, CommitUpdate(r)
    PROVE  Inv'
<1>1. /\ Types /\ Ends(r) /\ At(r) = "commit update" /\ request[r] \in UpdateStates
      /\ issuer' = [issuer EXCEPT ![request[r].idp] = request[r].issuer]
      /\ enabled' = [enabled EXCEPT ![request[r].idp] = request[r].enable]
      /\ accounts' = accounts /\ used' = used /\ local' = local
      /\ providers' = providers /\ links' = links /\ excused' = excused
  BY StateShape DEF CommitUpdate, Inv, Types, At, Updating
<1>2. /\ request' \in [Requests -> RequestStates] /\ started' = started
      /\ \A q \in Requests \ {r} : request'[q] = request[q]
  BY <1>1, StepEnds
<1>3. /\ request[r].idp \in Providers /\ request[r].issuer \in Issuers
      /\ request[r].enable \in BOOLEAN
  BY <1>1 DEF UpdateStates
<1>4. issuer' \in [Providers -> Issuers] /\ enabled' \in [Providers -> BOOLEAN]
  BY <1>1, <1>3 DEF Types
<1>5. Types'
  BY <1>1, <1>2, <1>4 DEF Types
<1>6. Keys' /\ NoStrandedAccount'
  BY <1>1 DEF Inv, Keys, NoStrandedAccount, HasLink, SameKey
<1>7. LinksHold'
  <2>1. UpdateFacts(r) /\ LinksHold /\ \A l \in links : l.idp \in Providers
    BY <1>1 DEF Inv, Facts, Types, Identities
  <2> QED
    BY <1>1, <2>1 DEF LinksHold, UpdateFacts, Types
<1>8. ASSUME NEW q \in Requests \ {r}
      PROVE  Facts(q)'
  <2>1. request'[q] = request[q] /\ Facts(q) /\ ProvidersApart(r, q)
    BY <1>2 DEF Inv, Apart
  <2>2. ForUpdateOfProvider(r, request[r].idp)
    BY <1>1 DEF ForUpdateOfProvider, Updating
  <2>3. ~ForUpdateOfProvider(q, request[r].idp) /\ ~KeyShareOfProvider(q, request[r].idp)
    BY <1>3, <2>1, <2>2 DEF ProvidersApart
  <2>4. At(q) \in {"insert", "account", "commit link", "commit update"} =>
           request[q].idp # request[r].idp
    BY <2>3 DEF ForUpdateOfProvider, KeyShareOfProvider, Linking, Updating
  <2>5. At(q) \in {"insert", "account", "commit link"} => request[q].idp \in Providers
    BY <1>1, <2>1 DEF Facts, LinkFacts, Types
  <2>6. At(q) = "commit update" => request[q].idp \in Providers
    <3>1. request[q] \in RequestStates
      BY <1>1 DEF Types
    <3>2. At(q) = "commit update" => request[q] \in UpdateStates
      BY <3>1, StateShape DEF At, Updating
    <3> QED
      BY <3>2 DEF UpdateStates
  <2>7. LinkFacts(q)'
    BY <1>1, <2>1, <2>4, <2>5 DEF Facts, LinkFacts, At, SameKey, Types
  <2>8. UpdateFacts(q)'
    BY <1>1, <2>1, <2>4, <2>6 DEF Facts, UpdateFacts, At, Types
  <2>9. UnlinkFacts(q)' /\ DeleteFacts(q)'
    BY <1>1, <2>1 DEF Facts, UnlinkFacts, DeleteFacts, At
  <2> QED
    BY <2>7, <2>8, <2>9 DEF Facts
<1> QED
  BY <1>1, <1>5, <1>6, <1>7, <1>8, CommitKeeps

LEMMA CommitUnlinkKeeps ==
    ASSUME Inv, NEW r \in Requests, CommitUnlink(r)
    PROVE  Inv'
<1>1. /\ Types /\ Ends(r) /\ At(r) = "commit unlink" /\ request[r] \in UnlinkStates
      /\ links' = {l \in links : ~(l.user = request[r].user /\ l.idp = request[r].idp)}
      /\ accounts' = accounts /\ used' = used /\ local' = local
      /\ providers' = providers /\ issuer' = issuer /\ enabled' = enabled
      /\ excused' = excused
  BY StateShape DEF CommitUnlink, Inv, Types, At, Unlinking
<1>2. /\ request' \in [Requests -> RequestStates] /\ started' = started
      /\ \A q \in Requests \ {r} : request'[q] = request[q]
  BY <1>1, StepEnds
<1>3. links' \subseteq links /\ Keys' /\ links' \subseteq Identities
  BY <1>1, FewerLinks
<1>4. Types'
  BY <1>1, <1>2, <1>3 DEF Types
<1>5. LinksHold'
  BY <1>1, <1>3 DEF Inv, LinksHold
<1>6. NoStrandedAccount'
  <2>1. UnlinkFacts(r) /\ NoStrandedAccount
    BY DEF Inv, Facts
  <2>2. ASSUME NEW a \in accounts \ excused, ~local[a]
        PROVE  \E l \in links' : l.user = a
    <3>1. PICK l \in links : l.user = a
      BY <2>1, <2>2 DEF NoStrandedAccount, HasLink
    <3>2. CASE a = request[r].user
      BY <1>1, <2>1, <2>2, <3>2 DEF UnlinkFacts
    <3>3. CASE a # request[r].user
      BY <1>1, <3>1, <3>3
    <3> QED
      BY <3>2, <3>3
  <2> QED
    BY <1>1, <2>2 DEF NoStrandedAccount, HasLink
<1>7. ASSUME NEW q \in Requests \ {r}
      PROVE  Facts(q)'
  <2>1. request'[q] = request[q] /\ Facts(q) /\ RowsApart(r, q)
    BY <1>2 DEF Inv, Apart
  <2>2. NoKeyUpdateOfAccount(r, request[r].user) /\ request[r].user \in Users
    BY <1>1 DEF NoKeyUpdateOfAccount, Unlinking, UnlinkStates
  <2>3. ~NoKeyUpdateOfAccount(q, request[r].user)
    BY <2>1, <2>2 DEF RowsApart
  <2>4. LinkFacts(q)' /\ UpdateFacts(q)'
    BY <1>1, <1>3, <2>1 DEF Facts, LinkFacts, UpdateFacts, At, SameKey
  <2>5. At(q) = "commit unlink" => request[q].user # request[r].user
    BY <2>3 DEF NoKeyUpdateOfAccount, Unlinking
  <2>6. UnlinkFacts(q)'
    BY <1>1, <2>1, <2>5 DEF Facts, UnlinkFacts, At
  <2>7. At(q) \in Deleting => request[r].user \notin request[q].rows
    BY <2>3 DEF NoKeyUpdateOfAccount
  <2>8. At(q) = "commit delete" =>
          \A l \in links : l.idp = request[q].idp => l.user # request[r].user
    BY <2>1, <2>7 DEF Facts, DeleteFacts, Deleting
  <2>9. DeleteFacts(q)'
    <3>1. /\ DeleteFacts(q) /\ At(q)' = At(q) /\ request'[q] = request[q]
          /\ local' = local /\ links' \subseteq links
      BY <1>1, <1>3, <2>1 DEF Facts, At
    <3>2. \A m \in links : m.user # request[r].user => m \in links'
      BY <1>1
    <3>3. At(q) = "commit delete" => \A l \in links' : l.idp = request[q].idp =>
             \/ local[l.user]
             \/ \E m \in links' : m.user = l.user /\ m.idp # request[q].idp
      BY <2>8, <3>1, <3>2 DEF DeleteFacts
    <3>4. At(q) \in {"lock accounts", "delete", "commit delete"} =>
             \A l \in links' : l.idp = request[q].idp =>
                                 l.user \in request[q].rows \cup request[q].todo
      BY <3>1 DEF DeleteFacts
    <3>5. At(q) \in {"delete", "commit delete"} => request[q].todo = {}
      BY <3>1 DEF DeleteFacts
    <3> QED
      BY <3>1, <3>3, <3>4, <3>5, DeleteFactsAfter
  <2> QED
    BY <2>4, <2>6, <2>9 DEF Facts
<1> QED
  BY <1>1, <1>3, <1>4, <1>5, <1>6, <1>7, CommitKeeps

LEMMA CommitDeleteKeeps ==
    ASSUME Inv, NEW r \in Requests, CommitDelete(r)
    PROVE  Inv'
<1>1. /\ Types /\ Ends(r) /\ At(r) = "commit delete" /\ request[r] \in DeleteStates
      /\ providers' = providers \ {request[r].idp}
      /\ links' = {l \in links : l.idp # request[r].idp}
      /\ accounts' = accounts /\ used' = used /\ local' = local
      /\ issuer' = issuer /\ enabled' = enabled /\ excused' = excused
  BY StateShape DEF CommitDelete, Inv, Types, At, Deleting
<1>2. /\ request' \in [Requests -> RequestStates] /\ started' = started
      /\ \A q \in Requests \ {r} : request'[q] = request[q]
  BY <1>1, StepEnds
<1>3. links' \subseteq links /\ Keys' /\ links' \subseteq Identities
  BY <1>1, FewerLinks
<1>4. Types'
  BY <1>1, <1>2, <1>3 DEF Types
<1>5. LinksHold'
  BY <1>1, <1>3 DEF Inv, LinksHold
<1>6. \A l \in links : l.idp = request[r].idp =>
        /\ l.user \in request[r].rows
        /\ local[l.user] \/ \E m \in links' : m.user = l.user
  BY <1>1 DEF Inv, Facts, DeleteFacts
<1>7. NoStrandedAccount'
  <2>1. ASSUME NEW a \in accounts \ excused, ~local[a]
        PROVE  \E l \in links' : l.user = a
    <3>1. PICK l \in links : l.user = a
      BY <2>1 DEF Inv, NoStrandedAccount, HasLink
    <3>2. CASE l.idp = request[r].idp
      BY <1>6, <2>1, <3>1, <3>2
    <3>3. CASE l.idp # request[r].idp
      BY <1>1, <3>1, <3>3
    <3> QED
      BY <3>2, <3>3
  <2> QED
    BY <1>1, <2>1 DEF NoStrandedAccount, HasLink
<1>8. ASSUME NEW q \in Requests \ {r}
      PROVE  Facts(q)'
  <2>1. request'[q] = request[q] /\ Facts(q) /\ RowsApart(r, q) /\ ProvidersApart(r, q)
    BY <1>2 DEF Inv, Apart
  <2>2. ForUpdateOfProvider(r, request[r].idp) /\ request[r].idp \in Providers
    BY <1>1 DEF ForUpdateOfProvider, Deleting, DeleteStates
  <2>3. ~KeyShareOfProvider(q, request[r].idp)
    BY <2>1, <2>2 DEF ProvidersApart
  <2>4. At(q) \in {"insert", "account", "commit link"} => request[q].idp # request[r].idp
    BY <2>3 DEF KeyShareOfProvider, Linking
  <2>5. LinkFacts(q)' /\ UpdateFacts(q)'
    BY <1>1, <1>3, <2>1, <2>4 DEF Facts, LinkFacts, UpdateFacts, At, SameKey
  <2>6. \A a \in Users : NoKeyUpdateOfAccount(q, a) => a \notin request[r].rows
    BY <1>1, <2>1 DEF RowsApart, NoKeyUpdateOfAccount, Deleting
  <2>7. \A l \in links : NoKeyUpdateOfAccount(q, l.user) => l \in links'
    BY <1>1, <1>6, <2>6 DEF Types, Identities
  <2>8. UnlinkFacts(q)'
    <3>1. At(q) = "commit unlink" => NoKeyUpdateOfAccount(q, request[q].user)
      BY DEF NoKeyUpdateOfAccount, Unlinking
    <3> QED
      BY <1>1, <2>1, <2>7, <3>1 DEF Facts, UnlinkFacts, At
  <2>9. DeleteFacts(q)'
    <3>1. At(q) = "commit delete" => \A l \in links : l.idp = request[q].idp =>
             NoKeyUpdateOfAccount(q, l.user)
      BY <2>1 DEF Facts, DeleteFacts, NoKeyUpdateOfAccount, Deleting
    <3>2. At(q) = "commit delete" => \A l \in links, m \in links :
             l.idp = request[q].idp /\ m.user = l.user => m \in links'
      BY <2>7, <3>1
    <3>3. DeleteFacts(q) /\ At(q)' = At(q)
      BY <2>1 DEF Facts, At
    <3>4. At(q) = "commit delete" => \A l \in links' : l.idp = request[q].idp =>
             \/ local[l.user]
             \/ \E m \in links' : m.user = l.user /\ m.idp # request[q].idp
      BY <1>3, <3>2, <3>3 DEF DeleteFacts
    <3>5. At(q) \in {"lock accounts", "delete", "commit delete"} =>
             \A l \in links' : l.idp = request[q].idp =>
                                 l.user \in request[q].rows \cup request[q].todo
      BY <1>3, <3>3 DEF DeleteFacts
    <3>6. At(q) \in {"delete", "commit delete"} => request[q].todo = {}
      BY <3>3 DEF DeleteFacts
    <3>7. At(q)' = At(q) /\ request'[q] = request[q] /\ local' = local
      BY <1>1, <2>1, <3>3
    <3> QED
      BY <3>4, <3>5, <3>6, <3>7, DeleteFactsAfter
  <2> QED
    BY <2>5, <2>8, <2>9 DEF Facts
<1> QED
  BY <1>1, <1>3, <1>4, <1>5, <1>7, <1>8, CommitKeeps

LEMMA CommitLinkKeeps ==
    ASSUME Inv, NEW r \in Requests, CommitLink(r)
    PROVE  Inv'
<1> DEFINE new == [user |-> request[r].user, idp |-> request[r].idp,
                   subject |-> request[r].subject, asserted |-> request[r].issuer]
<1>1. /\ Types /\ Ends(r) /\ At(r) = "commit link" /\ request[r] \in LinkStates
      /\ LinkFacts(r) /\ accounts' = accounts \cup {request[r].user}
      /\ local' = [local EXCEPT ![request[r].user] = @ /\ ~request[r].creates]
      /\ links' = links \cup {new} /\ excused' = excused \ {request[r].user}
      /\ used' = used /\ providers' = providers /\ issuer' = issuer /\ enabled' = enabled
  BY StateShape DEF CommitLink, Inv, Types, At, Linking, Facts
<1>2. /\ request' \in [Requests -> RequestStates] /\ started' = started
      /\ \A q \in Requests \ {r} : request'[q] = request[q]
  BY <1>1, StepEnds
<1>3. /\ request[r].user \in Users /\ request[r].idp \in Providers
      /\ request[r].subject \in Subjects /\ request[r].issuer \in Issuers
      /\ request[r].creates \in BOOLEAN
  BY <1>1 DEF LinkStates
<1>4. /\ new.user = request[r].user /\ new.idp = request[r].idp
      /\ new.subject = request[r].subject /\ new.asserted = request[r].issuer
      /\ new \in Identities
  BY <1>3 DEF Identities
<1>5. /\ request[r].user \in used /\ request[r].idp \in providers
      /\ issuer[request[r].idp] = request[r].issuer
      /\ \A l \in links : ~SameKey(request[r], l)
      /\ request[r].creates => request[r].user \notin accounts
  BY <1>1 DEF LinkFacts, Linking
<1> HIDE DEF new
<1>6. /\ local' \in [Users -> BOOLEAN]
      /\ \A a \in accounts : local'[a] = local[a]
  <2>1. (local[request[r].user] /\ ~request[r].creates) \in BOOLEAN
    OBVIOUS
  <2>2. local' \in [Users -> BOOLEAN]
    BY <1>1, <1>3, <2>1 DEF Types
  <2>3. ASSUME NEW a \in accounts
        PROVE  local'[a] = local[a]
    <3>1. a \in Users /\ local[a] \in BOOLEAN
      BY <1>1 DEF Types
    <3>2. CASE a = request[r].user
      <4>1. ~request[r].creates
        BY <1>5, <3>2
      <4>2. local'[a] = (local[a] /\ ~request[r].creates)
        BY <1>1, <1>3, <3>1, <3>2 DEF Types
      <4> QED
        BY <3>1, <4>1, <4>2
    <3>3. CASE a # request[r].user
      BY <1>1, <3>1, <3>3 DEF Types
    <3> QED
      BY <3>2, <3>3
  <2> QED
    BY <2>2, <2>3
<1>7. Types'
  BY <1>1, <1>2, <1>3, <1>4, <1>5, <1>6 DEF Types
<1>8. Keys'
  <2>1. \A l \in links : ~SameKey(new, l) /\ ~SameKey(l, new)
    BY <1>4, <1>5 DEF SameKey
  <2>2. \A l, m \in links' : SameKey(l, m) => l = m
    BY <1>1, <2>1, Zenon DEF Inv, Keys
  <2> QED
    BY <2>2 DEF Keys, SameKey
<1>9. LinksHold'
  BY <1>1, <1>4, <1>5 DEF Inv, LinksHold
<1>10. NoStrandedAccount'
  <2>1. ASSUME NEW a \in accounts' \ excused', ~local'[a]
        PROVE  \E l \in links' : l.user = a
    <3>1. CASE a = request[r].user
      BY <1>1, <1>4, <3>1
    <3>2. CASE a # request[r].user
      <4>1. a \in accounts \ excused /\ ~local[a]
        BY <1>1, <1>6, <2>1, <3>2
      <4> QED
        BY <1>1, <4>1 DEF Inv, NoStrandedAccount, HasLink
    <3> QED
      BY <3>1, <3>2
  <2> QED
    BY <2>1 DEF NoStrandedAccount, HasLink
<1>11. ASSUME NEW q \in Requests \ {r}
       PROVE  Facts(q)'
  <2>1. /\ request'[q] = request[q] /\ At(q)' = At(q) /\ q # r
        /\ LinkFacts(q) /\ UnlinkFacts(q) /\ DeleteFacts(q) /\ UpdateFacts(q)
        /\ ProvidersApart(q, r) /\ KeysApart(q, r) /\ NewApart(q, r)
    BY <1>2 DEF Inv, Apart, Facts, At
  <2>2. KeyShareOfProvider(r, request[r].idp)
    BY <1>1 DEF KeyShareOfProvider, Linking
  <2>3. ~ForUpdateOfProvider(q, request[r].idp)
    BY <1>3, <2>1, <2>2 DEF ProvidersApart
  <2>4. At(q) \in {"lock accounts", "delete", "commit delete", "commit update"} =>
          new.idp # request[q].idp
    BY <1>4, <2>3 DEF ForUpdateOfProvider, Deleting, Updating
  <2>5. At(q) \in {"account", "commit link"} => ~SameKey(request[q], new)
    BY <1>1, <1>4, <2>1 DEF KeysApart, SameKey
  <2>6. At(q) \in Linking /\ request[q].creates => request[q].user # request[r].user
    BY <1>1, <2>1 DEF NewApart, Linking
  <2>7. LinkFacts(q)'
    BY <1>1, <2>1, <2>5, <2>6 DEF LinkFacts, SameKey
  <2>8. UnlinkFacts(q)'
    BY <1>1, <1>6, <2>1 DEF UnlinkFacts
  <2>9. UpdateFacts(q)'
    BY <1>1, <2>1, <2>4 DEF UpdateFacts
  <2>10. DeleteFacts(q)'
    <3>1. At(q) \in {"lock accounts", "delete", "commit delete"} =>
             \A l \in links' : l.idp = request[q].idp =>
                l \in links /\ l.user \in request[q].rows \cup request[q].todo
      BY <1>1, <2>1, <2>4 DEF DeleteFacts
    <3>2. At(q) \in {"delete", "commit delete"} => request[q].todo = {}
      BY <2>1 DEF DeleteFacts
    <3>3. \A l \in links : local'[l.user] = local[l.user]
      BY <1>6 DEF Inv, LinksHold
    <3>4. At(q) = "commit delete" => \A l \in links' : l.idp = request[q].idp =>
             \/ local'[l.user]
             \/ \E m \in links' : m.user = l.user /\ m.idp # request[q].idp
      BY <1>1, <2>1, <3>1, <3>3 DEF DeleteFacts
    <3> QED
      BY <2>1, <3>1, <3>2, <3>4, Zenon DEF DeleteFacts
  <2> QED
    BY <2>7, <2>8, <2>9, <2>10 DEF Facts
<1> QED
  BY <1>1, <1>7, <1>8, <1>9, <1>10, <1>11, CommitKeeps

\* One statement of its own: the requests stay where they are.
LEMMA StatementKeeps ==
    ASSUME Inv, request' = request,
           Types', Keys', LinksHold', NoStrandedAccount', \A q \in Requests : Facts(q)'
    PROVE  Inv'
<1>1. ASSUME NEW q \in Requests, NEW o \in Requests, Apart(q, o)
      PROVE  Apart(q, o)'
  BY <1>1 DEF Apart, ProvidersApart, RowsApart, KeysApart, NewApart, At, SameKey,
              ForUpdateOfProvider, KeyShareOfProvider, NoKeyUpdateOfAccount
<1>2. \A q, o \in Requests : q # o => Apart(q, o)'
  BY <1>1, Zenon DEF Inv
<1> QED
  BY <1>2 DEF Inv

LEMMA DeleteAccountKeeps ==
    ASSUME Inv, NEW a \in Users, DeleteAccount(a)
    PROVE  Inv'
<1>1. /\ Types /\ AccountUntouched(a)
      /\ accounts' = accounts \ {a} /\ links' = {l \in links : l.user # a}
      /\ excused' = excused \ {a} /\ used' = used /\ local' = local
      /\ providers' = providers /\ issuer' = issuer /\ enabled' = enabled
      /\ request' = request /\ started' \in Nat
  BY DEF DeleteAccount, Counted, Inv, Types
<1>2. links' \subseteq links /\ Keys' /\ links' \subseteq Identities
  BY <1>1, FewerLinks
<1>3. Types'
  BY <1>1, <1>2 DEF Types
<1>4. LinksHold'
  BY <1>1, <1>2 DEF Inv, LinksHold
<1>5. NoStrandedAccount'
  <2>1. ASSUME NEW b \in accounts \ excused, b # a, ~local[b]
        PROVE  \E l \in links' : l.user = b
    BY <1>1, <2>1 DEF Inv, NoStrandedAccount, HasLink
  <2> QED
    BY <1>1, <2>1 DEF NoStrandedAccount, HasLink
<1>6. ASSUME NEW q \in Requests
      PROVE  Facts(q)'
  <2>1. /\ request'[q] = request[q] /\ At(q)' = At(q)
        /\ LinkFacts(q) /\ UnlinkFacts(q) /\ DeleteFacts(q) /\ UpdateFacts(q)
        /\ ~NoKeyUpdateOfAccount(q, a) /\ ~KeyShareOfAccount(q, a)
    BY <1>1 DEF Inv, Facts, At, AccountUntouched
  <2>2. /\ At(q) = "commit unlink" => request[q].user # a
        /\ At(q) = "commit link" => request[q].user # a
    BY <2>1 DEF NoKeyUpdateOfAccount, KeyShareOfAccount, Unlinking
  <2>3. LinkFacts(q)' /\ UpdateFacts(q)'
    BY <1>1, <2>1, <2>2 DEF LinkFacts, UpdateFacts, SameKey
  <2>4. UnlinkFacts(q)'
    BY <1>1, <2>1, <2>2 DEF UnlinkFacts
  <2>5. DeleteFacts(q)'
    <3>1. At(q) \in {"lock accounts", "delete", "commit delete"} =>
             \A l \in links' : l.idp = request[q].idp =>
                l.user \in request[q].rows \cup request[q].todo
      BY <1>2, <2>1 DEF DeleteFacts
    <3>2. At(q) \in {"delete", "commit delete"} => request[q].todo = {}
      BY <2>1 DEF DeleteFacts
    <3>3. \A l \in links', m \in links : m.user = l.user => m \in links'
      BY <1>1
    <3>4. At(q) = "commit delete" => \A l \in links' : l.idp = request[q].idp =>
             \/ local[l.user]
             \/ \E m \in links' : m.user = l.user /\ m.idp # request[q].idp
      BY <1>2, <2>1, <3>3 DEF DeleteFacts
    <3> QED
      BY <1>1, <2>1, <3>1, <3>2, <3>4, Zenon DEF DeleteFacts
  <2> QED
    BY <2>3, <2>4, <2>5 DEF Facts
<1> QED
  BY <1>1, <1>2, <1>3, <1>4, <1>5, <1>6, StatementKeeps

LEMMA SetLocalKeeps ==
    ASSUME Inv, NEW a \in Users, NEW b \in BOOLEAN, SetLocal(a, b)
    PROVE  Inv'
<1>1. /\ Types /\ \A q \in Requests : ~NoKeyUpdateOfAccount(q, a)
      /\ local' = [local EXCEPT ![a] = b]
      /\ excused' = IF b \/ HasLink(a) THEN excused \ {a} ELSE excused \cup {a}
      /\ accounts' = accounts /\ links' = links /\ used' = used
      /\ providers' = providers /\ issuer' = issuer /\ enabled' = enabled
      /\ request' = request /\ started' \in Nat
  BY DEF SetLocal, Counted, Inv, Types
<1>2. local' \in [Users -> BOOLEAN] /\ local'[a] = b
      /\ \A c \in Users : c # a => local'[c] = local[c]
  BY <1>1 DEF Types
<1>3. excused' \subseteq Users /\ \A c \in Users : c # a /\ c \in excused => c \in excused'
  BY <1>1 DEF Types
<1>4. Types' /\ Keys' /\ LinksHold'
  BY <1>1, <1>2, <1>3 DEF Types, Inv, Keys, LinksHold, SameKey
<1>5. NoStrandedAccount'
  <2>1. ASSUME NEW c \in accounts, c \notin excused', ~local'[c]
        PROVE  \E l \in links : l.user = c
    <3>1. CASE c = a
      BY <1>1, <1>2, <2>1, <3>1 DEF HasLink
    <3>2. CASE c # a
      <4>1. c \in Users /\ c \notin excused /\ ~local[c]
        BY <1>1, <1>2, <1>3, <2>1, <3>2 DEF Types
      <4> QED
        BY <4>1 DEF Inv, NoStrandedAccount, HasLink
    <3> QED
      BY <3>1, <3>2
  <2> QED
    BY <1>1, <2>1 DEF NoStrandedAccount, HasLink
<1>6. ASSUME NEW q \in Requests
      PROVE  Facts(q)'
  <2>1. /\ request'[q] = request[q] /\ At(q)' = At(q) /\ ~NoKeyUpdateOfAccount(q, a)
        /\ LinkFacts(q) /\ UnlinkFacts(q) /\ DeleteFacts(q) /\ UpdateFacts(q)
    BY <1>1 DEF Inv, Facts, At
  <2>2. LinkFacts(q)' /\ UpdateFacts(q)'
    BY <1>1, <2>1 DEF LinkFacts, UpdateFacts, SameKey
  <2>3. At(q) = "commit unlink" => request[q].user # a /\ request[q].user \in Users
    BY <1>1, <2>1 DEF NoKeyUpdateOfAccount, Unlinking, UnlinkFacts, Types
  <2>4. UnlinkFacts(q)'
    BY <1>1, <1>2, <2>1, <2>3 DEF UnlinkFacts
  <2>5. At(q) = "commit delete" => \A l \in links : l.idp = request[q].idp =>
           l.user # a /\ l.user \in Users
    BY <1>1, <2>1 DEF DeleteFacts, NoKeyUpdateOfAccount, Deleting, Types, Identities
  <2>6. At(q) = "commit delete" => \A l \in links : l.idp = request[q].idp =>
           \/ local'[l.user]
           \/ \E m \in links : m.user = l.user /\ m.idp # request[q].idp
    BY <1>2, <2>1, <2>5 DEF DeleteFacts
  <2>7. DeleteFacts(q)'
    BY <1>1, <2>1, <2>6, Zenon DEF DeleteFacts
  <2> QED
    BY <2>2, <2>4, <2>7 DEF Facts
<1> QED
  BY <1>1, <1>4, <1>5, <1>6, StatementKeeps

-----------------------------------------------------------------------------
(* The theorems.                                                              *)

LEMMA InitHolds == Init => Inv
<1> SUFFICES ASSUME Init PROVE Inv
  OBVIOUS
<1>1. Types
  BY LinksAssumption, StatesOf DEF Init, Types, Identities
<1>2. Keys /\ LinksHold
  BY DEF Init, Keys, LinksHold
<1>3. NoStrandedAccount
  BY DEF Init, NoStrandedAccount, HasLink
<1>4. \A r \in Requests : At(r) = "idle"
  BY DEF Init, At, Idle
<1>5. \A r \in Requests : Facts(r)
  BY <1>4 DEF Facts, LinkFacts, UnlinkFacts, DeleteFacts, UpdateFacts, Linking
<1>6. \A r, q \in Requests : Apart(r, q)
  BY <1>4 DEF Apart, ProvidersApart, RowsApart, KeysApart, NewApart, ForUpdateOfProvider,
              NoKeyUpdateOfAccount, Linking, Unlinking, Deleting, Updating
<1> QED
  BY <1>1, <1>2, <1>3, <1>5, <1>6 DEF Inv

LEMMA NextKeeps == Inv /\ [Next]_vars => Inv'
<1> SUFFICES ASSUME Inv, [Next]_vars PROVE Inv'
  OBVIOUS
<1>1. ASSUME UNCHANGED vars
      PROVE  Inv'
  <2>1. request' = request /\ Types'
    BY <1>1 DEF vars, Inv, Types
  <2>2. Keys' /\ LinksHold' /\ NoStrandedAccount'
    BY <1>1 DEF vars, Inv, Keys, LinksHold, NoStrandedAccount, HasLink, SameKey
  <2>3. \A q \in Requests : Facts(q)'
    <3> TAKE q \in Requests
    <3>1. LinkFacts(q) /\ UnlinkFacts(q) /\ DeleteFacts(q) /\ UpdateFacts(q)
      BY DEF Inv, Facts
    <3>2. LinkFacts(q)' /\ UpdateFacts(q)'
      BY <1>1, <3>1 DEF vars, LinkFacts, UpdateFacts, At, SameKey
    <3>3. UnlinkFacts(q)'
      BY <1>1, <3>1 DEF vars, UnlinkFacts, At
    <3>4. DeleteFacts(q)'
      BY <1>1, <3>1 DEF vars, DeleteFacts, At
    <3> QED
      BY <3>2, <3>3, <3>4 DEF Facts
  <2> QED
    BY <2>1, <2>2, <2>3, StatementKeeps
<1>2. ASSUME NEW a \in Users, DeleteAccount(a) \/ \E b \in BOOLEAN : SetLocal(a, b)
      PROVE  Inv'
  BY <1>2, DeleteAccountKeeps, SetLocalKeeps
<1>3. ASSUME NEW r \in Requests,
             \/ \E p \in Providers, s \in Subjects : StartSignIn(r, p, s)
             \/ SignInKnown(r)
             \/ \E a \in Users, p \in Providers : StartUnlink(r, a, p)
             \/ \E p \in Providers, i \in Issuers, e \in BOOLEAN : StartUpdate(r, p, i, e)
             \/ Rollback(r)
      PROVE  Inv'
  BY <1>3, RestSteps
<1>4. ASSUME NEW r \in Requests,
             \/ \E a \in Users, p \in Providers, s \in Subjects : StartLink(r, a, p, s)
             \/ \E a \in Users : Provision(r, a)
             \/ LockProviderForLink(r) \/ Insert(r) \/ LockAccountForLink(r)
             \/ CommitLink(r)
      PROVE  Inv'
  BY <1>4, StartLinkKeeps, ProvisionKeeps, LockProviderForLinkKeeps, InsertKeeps,
     LockAccountForLinkKeeps, CommitLinkKeeps
<1>5. ASSUME NEW r \in Requests,
             LockAccountForUnlink(r) \/ Unlink(r) \/ CommitUnlink(r)
      PROVE  Inv'
  BY <1>5, UnlinkStepsKeep, CommitUnlinkKeeps
<1>6. ASSUME NEW r \in Requests,
             \/ \E p \in Providers : StartDelete(r, p)
             \/ LockProviderForDelete(r) \/ FindAccounts(r)
             \/ LockAccountForDelete(r) \/ AccountsLocked(r)
             \/ DeleteProvider(r) \/ CommitDelete(r)
      PROVE  Inv'
  BY <1>6, StartDeleteKeeps, LockProviderForDeleteKeeps, FindAccountsKeeps,
     LockAccountForDeleteKeeps, DecidingStepsKeep, CommitDeleteKeeps
<1>7. ASSUME NEW r \in Requests,
             LockProviderForUpdate(r) \/ UpdateProvider(r) \/ CommitUpdate(r)
      PROVE  Inv'
  BY <1>7, UpdateStepsKeep, CommitUpdateKeeps
<1> QED
  BY <1>1, <1>2, <1>3, <1>4, <1>5, <1>6, <1>7, Zenon DEF Next

LEMMA InvHolds == Spec => []Inv
BY InitHolds, NextKeeps, PTL DEF Spec

\* The tables and the requests keep their types, and users_identities its two
\* unique keys (migration 00010).
THEOREM TypeCorrect == Spec => []TypeOK
<1>1. Inv => TypeOK
  BY DEF Inv, Types, Keys, TypeOK
<1> QED
  BY <1>1, InvHolds, PTL

\* No unlink, provider's delete or broken-off first sign-in takes an account's
\* last way in, whatever runs beside it (queryUnlinkIdentity, queryDeleteIDP,
\* queryLockAccountsOfIDP).
THEOREM AccountsNotStranded == Spec => []NoStrandedAccount
<1>1. Inv => NoStrandedAccount
  BY DEF Inv
<1> QED
  BY <1>1, InvHolds, PTL

\* An identity's account and provider are there, and the provider is pointed at
\* the issuer that said it (queryLinkIdentity, queryUpdateIDP).
THEOREM LinksAlwaysHold == Spec => []LinksHold
<1>1. Inv => LinksHold
  BY DEF Inv
<1> QED
  BY <1>1, InvHolds, PTL

\* The identity a sign-in finds was said by the issuer the sign-in came from
\* (SelectBySubject).
THEOREM SignInIssuer == Spec => []SignsInByItsIssuer
<1>1. Inv => SignsInByItsIssuer
  BY DEF Inv, LinksHold, SignsInByItsIssuer, Known
<1> QED
  BY <1>1, InvHolds, PTL

-----------------------------------------------------------------------------
(* No circle of waiting requests.                                             *)

\* A finite set of requests has one whose rank no other exceeds.
LEMMA FiniteHasLast ==
    ASSUME NEW S, IsFiniteSet(S), S # {}, NEW rank, \A s \in S : rank[s] \in Nat
    PROVE  \E s \in S : \A t \in S : rank[t] <= rank[s]
<1> DEFINE Last(T) == \E s \in T : \A t \in T : rank[t] <= rank[s]
           Lastless == {T \in SUBSET S : T # {} /\ ~Last(T)}
<1>1. SUFFICES ASSUME Lastless # {} PROVE FALSE
  BY DEF Lastless
<1>2. Lastless \subseteq FiniteSubsetsOf(S)
  BY FS_Subset DEF FiniteSubsetsOf
<1>3. PICK T \in Lastless : \A U \in Lastless : <<U, T>> \notin StrictSubsetOrdering(S)
  <2> HIDE DEF Lastless
  <2> QED
    BY <1>1, <1>2, FS_StrictSubsetOrderingWellFounded, WFMin
<1>4. PICK x \in T : TRUE
  OBVIOUS
<1>5. CASE T = {x}
  BY <1>5
<1>6. CASE T \ {x} # {}
  <2>1. T \ {x} \in FiniteSubsetsOf(S) /\ T \in FiniteSubsetsOf(S)
    BY <1>2, FS_Subset DEF FiniteSubsetsOf
  <2>2. <<T \ {x}, T>> \in StrictSubsetOrdering(S)
    BY <2>1 DEF StrictSubsetOrdering, FiniteSubsetsOf
  <2>3. T \ {x} \notin Lastless
    BY <1>3, <2>2
  <2>4. Last(T \ {x})
    BY <1>6, <2>3
  <2>5. PICK s \in T \ {x} : \A t \in T \ {x} : rank[t] <= rank[s]
    BY <2>4
  <2>6. rank[s] \in Nat /\ rank[x] \in Nat
    OBVIOUS
  <2>7. CASE rank[x] <= rank[s]
    BY <2>5, <2>7
  <2>8. CASE rank[s] <= rank[x]
    BY <2>5, <2>6, <2>8
  <2> QED
    BY <2>6, <2>7, <2>8
<1> QED
  BY <1>5, <1>6

\* Ids are ordered: a set of accounts has a first one.
LEMMA HasFirst ==
    ASSUME NEW S \in SUBSET Users, S # {}
    PROVE  \E a \in S : First(S, a)
<1>1. PICK n \in S : n \in Nat
  BY LinksAssumption
<1> DEFINE T == {x \in S : x <= n}
           rank == [x \in T |-> n - x]
<1>2. IsFiniteSet(T)
  <2>1. IsFiniteSet(0..n)
    BY <1>1, FS_Interval
  <2>2. T \in SUBSET (0..n)
    <3>1. ASSUME NEW x \in T PROVE x \in 0..n
      <4>1. x \in Nat /\ x <= n
        BY <3>1, LinksAssumption
      <4> QED
        BY <1>1, <4>1
    <3> QED
      BY <3>1
  <2> HIDE DEF T
  <2> QED
    BY <2>1, <2>2, FS_Subset
<1>3. T # {} /\ \A x \in T : x \in Nat /\ rank[x] = n - x /\ rank[x] \in Nat
  BY <1>1, LinksAssumption
<1>4. PICK a \in T : \A x \in T : rank[x] <= rank[a]
  <2> HIDE DEF T, rank
  <2> QED
    BY <1>2, <1>3, FiniteHasLast
<1>5. a \in S /\ a \in Nat /\ a <= n
  BY <1>3
<1>6. ASSUME NEW b \in S PROVE a <= b
  <2>1. b \in Nat
    BY LinksAssumption
  <2>2. CASE b \in T
    BY <1>1, <1>3, <1>4, <1>5, <2>1, <2>2
  <2>3. CASE ~(b <= n)
    BY <1>1, <1>5, <2>1, <2>3
  <2> QED
    BY <2>2, <2>3
<1> QED
  BY <1>5, <1>6 DEF First

\* A provider's delete goes up the ids: the rows it has come before those it
\* has yet to take.
GoesUp(s) ==
    s.at \in Deleting =>
        /\ \A a \in s.rows, b \in s.todo : a < b
        /\ s.at \in {"ask delete", "ask accounts"} => s.rows = {}

LockOrder ==
    /\ \A r \in Requests : GoesUp(request[r])
    /\ IsFiniteSet({r \in Requests : request[r] # Idle})

\* A step moves one request, to a state that goes up, or none.
Moves(r) ==
    /\ \A q \in Requests \ {r} : request'[q] = request[q]
    /\ GoesUp(request'[r])

LEMMA MoveKeepsOrder ==
    ASSUME LockOrder, NEW r \in Requests, Moves(r)
    PROVE  LockOrder'
<1> DEFINE Out == {q \in Requests : request[q] # Idle}
<1>1. IsFiniteSet(Out \cup {r})
  BY FS_AddElement DEF LockOrder
<1>2. Out' \in SUBSET (Out \cup {r})
  BY DEF Moves
<1>3. IsFiniteSet(Out')
  <2> HIDE DEF Out
  <2> QED
    BY <1>1, <1>2, FS_Subset
<1>4. \A q \in Requests : GoesUp(request'[q])
  BY DEF Moves, LockOrder
<1> QED
  BY <1>3, <1>4 DEF LockOrder, GoesUp

\* A request that is none of a provider's delete has no such rows.
LEMMA OtherMoves ==
    ASSUME Types, NEW r \in Requests, NEW s, s.at \notin Deleting,
           request' = [request EXCEPT ![r] = s]
    PROVE  Moves(r)
BY DEF Types, Moves, GoesUp

LEMMA EndMoves ==
    ASSUME Types, NEW r \in Requests, Ends(r)
    PROVE  Moves(r)
BY OtherMoves DEF Ends, Idle, Deleting

LEMMA PlaceMoves ==
    ASSUME Types, NEW r \in Requests, GoesUp(request[r]), NEW place, Goes(r, place),
           \/ At(r) \in Linking \cup Unlinking \cup Updating /\ place \notin Deleting
           \/ /\ At(r) \in Deleting /\ place \in Deleting
              /\ place \in {"ask delete", "ask accounts"} => At(r) = "ask delete"
    PROVE  Moves(r)
<1>1. CASE At(r) \in Linking \cup Unlinking \cup Updating /\ place \notin Deleting
  <2>1. [request[r] EXCEPT !.at = place].at = place
    <3>1. CASE At(r) \in Linking
      <4>1. request[r] \in LinkStates
        BY <3>1, StateShape DEF Types, At
      <4> QED
        BY <4>1 DEF LinkStates
    <3>2. CASE At(r) \in Unlinking
      <4>1. request[r] \in UnlinkStates
        BY <3>2, StateShape DEF Types, At
      <4> QED
        BY <4>1 DEF UnlinkStates
    <3>3. CASE At(r) \in Updating
      <4>1. request[r] \in UpdateStates
        BY <3>3, StateShape DEF Types, At
      <4> QED
        BY <4>1 DEF UpdateStates
    <3> QED
      BY <1>1, <3>1, <3>2, <3>3
  <2> QED
    BY <1>1, <2>1, OtherMoves DEF Goes
<1>2. CASE At(r) \in Deleting /\ place \in Deleting
           /\ (place \in {"ask delete", "ask accounts"} => At(r) = "ask delete")
  BY <1>2, DeleteGoes DEF Moves, GoesUp, At
<1> QED
  BY <1>1, <1>2

LEMMA DeleteMoves ==
    ASSUME Types, NEW r \in Requests, GoesUp(request[r]),
           \/ \E p \in Providers : StartDelete(r, p)
           \/ FindAccounts(r)
           \/ LockAccountForDelete(r)
    PROVE  Moves(r)
<1>1. CASE \E p \in Providers : StartDelete(r, p)
  <2>1. PICK p \in Providers : StartDelete(r, p)
    BY <1>1
  <2>2. request'[r] = [at |-> "ask delete", idp |-> p, todo |-> {}, rows |-> {}]
        /\ \A q \in Requests \ {r} : request'[q] = request[q]
    BY <2>1 DEF StartDelete, Starts, Types
  <2>3. GoesUp([at |-> "ask delete", idp |-> p, todo |-> {}, rows |-> {}])
    BY DEF GoesUp
  <2>4. GoesUp(request'[r])
    BY <2>2, <2>3
  <2> QED
    BY <2>2, <2>4 DEF Moves
<1>2. CASE FindAccounts(r)
  <2>1. request[r] \in DeleteStates /\ At(r) = "ask accounts"
    BY <1>2, StateShape DEF Types, FindAccounts, At, Deleting
  <2>2. /\ request'[r].rows = request[r].rows /\ request'[r].at = "lock accounts"
        /\ \A q \in Requests \ {r} : request'[q] = request[q]
    BY <1>2, <2>1 DEF FindAccounts, Types, DeleteStates
  <2> QED
    BY <2>1, <2>2 DEF Moves, GoesUp, At, Deleting
<1>3. CASE LockAccountForDelete(r)
  <2>1. request[r] \in DeleteStates /\ At(r) = "lock accounts"
    BY <1>3, StateShape DEF Types, LockAccountForDelete, At, Deleting
  <2>2. PICK a \in request[r].todo :
           /\ First(request[r].todo, a)
           /\ request' = [request EXCEPT
                 ![r].todo = @ \ {a},
                 ![r].rows = @ \cup (accounts \cap {a})]
    BY <1>3 DEF LockAccountForDelete
  <2>3. /\ request'[r].rows = request[r].rows \cup (accounts \cap {a})
        /\ request'[r].todo = request[r].todo \ {a}
        /\ request'[r].at = "lock accounts"
        /\ \A q \in Requests \ {r} : request'[q] = request[q]
    BY <2>1, <2>2 DEF Types, DeleteStates, At
  <2>4. \A b \in request[r].todo : b \in Nat /\ a <= b
    BY <2>1, <2>2, LinksAssumption DEF First, DeleteStates
  <2>5. ASSUME NEW x \in request'[r].rows, NEW b \in request'[r].todo
        PROVE  x < b
    <3>1. b \in request[r].todo /\ b # a /\ x \in request[r].rows \cup {a}
      BY <2>3
    <3>2. \A y \in request[r].rows : y < b
      BY <2>1, <3>1 DEF GoesUp, Deleting, At
    <3>3. a < b
      BY <2>2, <2>4, <3>1
    <3> QED
      BY <3>1, <3>2, <3>3
  <2>6. GoesUp(request'[r])
    BY <2>3, <2>5 DEF GoesUp
  <2> QED
    BY <2>3, <2>6 DEF Moves
<1> QED
  BY <1>1, <1>2, <1>3

LEMMA OrderInit == Init => LockOrder
<1> SUFFICES ASSUME Init PROVE LockOrder
  OBVIOUS
<1>1. {r \in Requests : request[r] # Idle} = {}
  BY DEF Init
<1> QED
  BY <1>1, FS_EmptySet DEF Init, LockOrder, GoesUp, Idle, Deleting

LEMMA OrderKept == Types /\ LockOrder /\ [Next]_vars => LockOrder'
<1> SUFFICES ASSUME Types, LockOrder, [Next]_vars PROVE LockOrder'
  OBVIOUS
<1>1. CASE UNCHANGED request
  BY <1>1 DEF LockOrder, GoesUp
<1>2. ASSUME NEW r \in Requests,
             \/ \E p \in Providers, s \in Subjects : StartSignIn(r, p, s)
             \/ \E a \in Users, p \in Providers, s \in Subjects : StartLink(r, a, p, s)
             \/ \E a \in Users : Provision(r, a)
             \/ \E a \in Users, p \in Providers : StartUnlink(r, a, p)
             \/ \E p \in Providers, i \in Issuers, e \in BOOLEAN : StartUpdate(r, p, i, e)
      PROVE  Moves(r)
  BY <1>2, OtherMoves DEF StartSignIn, StartLink, Provision, StartUnlink, StartUpdate,
                          Starts, Deleting
<1>3. ASSUME NEW r \in Requests,
             \/ SignInKnown(r) \/ CommitLink(r) \/ CommitUnlink(r)
             \/ CommitDelete(r) \/ CommitUpdate(r) \/ Rollback(r)
      PROVE  Moves(r)
  BY <1>3, EndMoves DEF SignInKnown, CommitLink, CommitUnlink, CommitDelete,
                        CommitUpdate, Rollback
<1>4. ASSUME NEW r \in Requests,
             \/ LockProviderForLink(r) \/ Insert(r) \/ LockAccountForLink(r)
             \/ LockAccountForUnlink(r) \/ Unlink(r)
             \/ LockProviderForUpdate(r) \/ UpdateProvider(r)
      PROVE  Moves(r)
  <2>1. GoesUp(request[r])
    BY DEF LockOrder
  <2>2. CASE LockProviderForLink(r) \/ Insert(r) \/ LockAccountForLink(r)
    BY <2>1, <2>2, PlaceMoves
    DEF LockProviderForLink, Insert, LockAccountForLink, Linking, Deleting
  <2>3. CASE LockAccountForUnlink(r) \/ Unlink(r)
    BY <2>1, <2>3, PlaceMoves DEF LockAccountForUnlink, Unlink, Unlinking, Deleting
  <2>4. CASE LockProviderForUpdate(r) \/ UpdateProvider(r)
    BY <2>1, <2>4, PlaceMoves DEF LockProviderForUpdate, UpdateProvider, Updating, Deleting
  <2> QED
    BY <1>4, <2>2, <2>3, <2>4
<1>5. ASSUME NEW r \in Requests,
             \/ LockProviderForDelete(r) \/ AccountsLocked(r) \/ DeleteProvider(r)
      PROVE  Moves(r)
  <2>1. GoesUp(request[r])
    BY DEF LockOrder
  <2> QED
    BY <1>5, <2>1, PlaceMoves DEF LockProviderForDelete, AccountsLocked, DeleteProvider, Deleting
<1>6. ASSUME NEW r \in Requests,
             \/ \E p \in Providers : StartDelete(r, p)
             \/ FindAccounts(r)
             \/ LockAccountForDelete(r)
      PROVE  Moves(r)
  BY <1>6, DeleteMoves DEF LockOrder
<1>7. ASSUME NEW a \in Users, DeleteAccount(a) \/ \E b \in BOOLEAN : SetLocal(a, b)
      PROVE  UNCHANGED request
  BY <1>7 DEF DeleteAccount, SetLocal
<1>8. UNCHANGED vars => UNCHANGED request
  BY DEF vars
<1> QED
  BY <1>1, <1>2, <1>3, <1>4, <1>5, <1>6, <1>7, <1>8, MoveKeepsOrder, Zenon DEF Next

\* Where a request is when it may wait, in the order in which locks are taken.
Asks(r)   == At(r) \in {"link", "ask delete", "ask update", "ask row"}
Climbs(r) == At(r) = "lock accounts" /\ request[r].todo # {}
Inserts(r) == At(r) = "insert"

\* Who waits for whom: an insert for one that only has to commit, a delete on
\* its way up for one that is higher up, and anybody for those; nobody for one
\* that asks for its first lock.
LEMMA WaitsUp ==
    ASSUME Types, LockOrder, NEW r \in Requests, NEW q \in Requests, WaitsFor(r, q)
    PROVE  /\ Asks(r) \/ Climbs(r) \/ Inserts(r)
           /\ ~Asks(q)
           /\ Inserts(r) => ~Climbs(q) /\ ~Inserts(q)
           /\ Climbs(r) =>
                /\ ~Inserts(q)
                /\ Climbs(q) => \A a, b \in Users :
                     First(request[r].todo, a) /\ First(request[q].todo, b) => a < b
<1>1. Asks(r) \/ Climbs(r) \/ Inserts(r)
  BY DEF WaitsFor, Asks, Climbs, Inserts
<1>2. CASE At(r) \in {"link", "ask delete", "ask update"}
  BY <1>2 DEF WaitsFor, Asks, Climbs, Inserts, ForUpdateOfProvider, KeyShareOfProvider,
              Linking, Deleting, Updating
<1>3. CASE At(r) = "insert"
  BY <1>3 DEF WaitsFor, KeyWaitsFor, Asks, Climbs, Inserts
<1>4. CASE At(r) = "ask row"
  <2>1. NoKeyUpdateOfAccount(q, request[r].user)
    BY <1>4 DEF WaitsFor
  <2>2. GoesUp(request[q])
    BY DEF LockOrder
  <2> QED
    BY <1>4, <2>1, <2>2
    DEF NoKeyUpdateOfAccount, GoesUp, Asks, Climbs, Inserts, At, Unlinking, Deleting
<1>5. CASE At(r) = "lock accounts"
  <2>1. PICK a \in request[r].todo : First(request[r].todo, a)
    <3>1. request[r] \in DeleteStates /\ request[r].todo # {}
      BY <1>5, StateShape DEF Types, WaitsFor, At, Deleting
    <3> QED
      BY <3>1, HasFirst DEF DeleteStates, First
  <2>2. NoKeyUpdateOfAccount(q, a) /\ a \in Users /\ a \in Nat
    <3>1. request[r] \in DeleteStates
      BY <1>5, StateShape DEF Types, At, Deleting
    <3> QED
      BY <1>5, <2>1, <3>1, LinksAssumption DEF WaitsFor, DeleteStates
  <2>3. GoesUp(request[q])
    BY DEF LockOrder
  <2>4. ~Asks(q) /\ ~Inserts(q)
    BY <2>2, <2>3
    DEF NoKeyUpdateOfAccount, GoesUp, Asks, Inserts, At, Unlinking, Deleting
  <2>5. ASSUME Climbs(q), NEW c \in Users, NEW b \in Users,
               First(request[r].todo, c), First(request[q].todo, b)
        PROVE  c < b
    <3>1. c = a
      BY <2>1, <2>2, <2>5, LinksAssumption DEF First
    <3>2. a \in request[q].rows /\ b \in request[q].todo
      BY <2>2, <2>5 DEF NoKeyUpdateOfAccount, Climbs, First, Unlinking, Deleting
    <3> QED
      BY <2>3, <2>5, <3>1, <3>2 DEF GoesUp, Climbs, At, Deleting
  <2> QED
    BY <1>1, <1>5, <2>4, <2>5 DEF Inserts
<1> QED
  BY <1>1, <1>2, <1>3, <1>4, <1>5 DEF Asks, Climbs, Inserts

\* Of any requests one waits for none of them: one that does not wait, or an
\* insert, or the delete that is highest up, or all ask for their first lock.
LEMMA OrderMeansNoCircle ==
    ASSUME Types, LockOrder
    PROVE  NoWaitCycle
<1> SUFFICES ASSUME NEW S \in SUBSET Requests, S # {}
             PROVE  \E r \in S : \A q \in S \ {r} : ~WaitsFor(r, q)
  BY DEF NoWaitCycle
<1>1. CASE \E r \in S : ~(Asks(r) \/ Climbs(r) \/ Inserts(r))
  BY <1>1, WaitsUp
<1>2. CASE \E r \in S : Inserts(r) /\ \A q \in S : Asks(q) \/ Climbs(q) \/ Inserts(q)
  BY <1>2, WaitsUp
<1>3. CASE \A q \in S : Asks(q)
  BY <1>3, WaitsUp
<1>4. CASE (\E r \in S : Climbs(r)) /\ \A q \in S : Asks(q) \/ Climbs(q)
  <2> DEFINE High == {r \in S : Climbs(r)}
             rank == [r \in High |-> CHOOSE a \in Users : First(request[r].todo, a)]
  <2>1. IsFiniteSet(High)
    <3>1. ASSUME NEW q \in S, Climbs(q) PROVE request[q] # Idle
      <4> HIDE DEF rank, High
      <4>1. request[q].at # "idle"
        BY <3>1 DEF Climbs, At
      <4>2. Idle.at = "idle"
        BY DEF Idle
      <4> QED
        BY <4>1, <4>2
    <3>2. High \subseteq {q \in Requests : request[q] # Idle}
      <4> HIDE DEF rank
      <4> QED
        BY <3>1
    <3>3. IsFiniteSet({q \in Requests : request[q] # Idle})
      BY DEF LockOrder
    <3> HIDE DEF High, rank
    <3> QED
      BY <3>2, <3>3, FS_Subset, Zenon
  <2>2. ASSUME NEW r \in High
        PROVE  First(request[r].todo, rank[r]) /\ rank[r] \in Users /\ rank[r] \in Nat
    <3>1. request[r] \in DeleteStates /\ request[r].todo # {}
      BY StateShape DEF Types, Climbs, At, Deleting
    <3>2. \E a \in Users : First(request[r].todo, a)
      BY <3>1, HasFirst DEF DeleteStates, First
    <3>3. rank[r] = CHOOSE a \in Users : First(request[r].todo, a)
      OBVIOUS
    <3> HIDE DEF rank
    <3> QED
      BY <3>2, <3>3, LinksAssumption
  <2>3. PICK r \in High : \A q \in High : rank[q] <= rank[r]
    <3>1. High # {}
      BY <1>4
    <3> HIDE DEF High, rank
    <3> QED
      BY <2>1, <2>2, <3>1, FiniteHasLast
  <2>4. ASSUME NEW q \in S, WaitsFor(r, q) PROVE FALSE
    <3>1. Climbs(q) /\ Climbs(r) /\ q \in High
      BY <1>4, <2>4, WaitsUp
    <3>2. rank[r] < rank[q]
      <4> HIDE DEF rank
      <4> QED
        BY <2>2, <2>4, <3>1, WaitsUp
    <3>3. rank[r] \in Nat /\ rank[q] \in Nat /\ rank[q] <= rank[r]
      BY <2>2, <2>3, <3>1
    <3> HIDE DEF rank
    <3> QED
      BY <3>2, <3>3
  <2> QED
    BY <2>4
<1> QED
  BY <1>1, <1>2, <1>3, <1>4

\* No requests wait for one another, however many there are: nobody's lock has
\* to be broken (queryLockAccountsOfIDP's ORDER BY, the provider's row first).
THEOREM NobodyInACircle == Spec => []NoWaitCycle
<1>1. Inv => Types
  BY DEF Inv
<1> QED
  BY <1>1, InvHolds, OrderInit, OrderKept, OrderMeansNoCircle, PTL DEF Spec

-----------------------------------------------------------------------------
(* Every commit is one step of AtomicLinks, and no other step is one.         *)

LEMMA AtomicInit == Init => Atomic!Init
<1> SUFFICES ASSUME Init PROVE Atomic!Init
  OBVIOUS
<1>1. Inv
  BY InitHolds
<1>2. /\ accounts \subseteq Users /\ providers \subseteq Providers
      /\ local \in [Users -> BOOLEAN]
      /\ issuer \in [Providers -> Issuers] /\ enabled \in [Providers -> BOOLEAN]
  BY <1>1 DEF Inv, Types
<1>3. \A l, m \in links : Atomic!SameKey(l, m) => l = m
  BY <1>1 DEF Inv, Keys, SameKey, Atomic!SameKey
<1>4. \A l \in links :
         l.user \in accounts /\ l.idp \in providers /\ l.asserted = issuer[l.idp]
  BY <1>1 DEF Inv, LinksHold
<1> QED
  BY <1>2, <1>3, <1>4 DEF Atomic!Init

\* A step that writes no table.
LEMMA ReadsIsStutter ==
    ASSUME Reads
    PROVE  UNCHANGED Atomic!vars
BY DEF Reads, Atomic!vars

\* What an identity's insert has checked is still so at its commit.
LEMMA LinkIsAtomic ==
    ASSUME Inv, NEW r \in Requests, CommitLink(r)
    PROVE  Atomic!Next
<1>1. /\ request[r] \in LinkStates /\ At(r) = "commit link"
      /\ Facts(r)
  BY StateShape DEF Inv, Types, CommitLink, At, Linking
<1>2. PICK a \in Users, p \in Providers, s \in Subjects :
         a = request[r].user /\ p = request[r].idp /\ s = request[r].subject
  BY <1>1 DEF LinkStates
<1> DEFINE l == [user |-> a, idp |-> p, subject |-> s, asserted |-> issuer[p]]
<1>3. /\ p \in providers /\ issuer[p] = request[r].issuer
      /\ request[r].creates => a \notin accounts
      /\ ~request[r].creates => a \in accounts
      /\ \A m \in links : ~SameKey(request[r], m)
      /\ request[r].creates \in BOOLEAN
  BY <1>1, <1>2 DEF Facts, LinkFacts, LinkStates, Linking
<1>4. \A m \in links : ~Atomic!SameKey(l, m)
  BY <1>2, <1>3 DEF SameKey, Atomic!SameKey
<1>5. links' = links \cup {l}
  BY <1>2, <1>3 DEF CommitLink
<1>6. UNCHANGED <<providers, issuer, enabled>>
  BY DEF CommitLink
<1>7. Atomic!Add(a, p, s)
  BY <1>3, <1>4, <1>5, <1>6 DEF Atomic!Add
<1>8. CASE request[r].creates
  <2>1. accounts' = accounts \cup {a} /\ local' = [local EXCEPT ![a] = FALSE]
    BY <1>2, <1>8 DEF CommitLink
  <2> QED
    BY <1>3, <1>7, <1>8, <2>1 DEF Atomic!Next, Atomic!SignUp
<1>9. CASE ~request[r].creates
  <2>1. accounts' = accounts
    BY <1>2, <1>3, <1>9 DEF CommitLink
  <2>2. local' = local
    BY <1>2, <1>9 DEF CommitLink, Inv, Types
  <2> QED
    BY <1>3, <1>7, <1>9, <2>1, <2>2 DEF Atomic!Next, Atomic!Link
<1> QED
  BY <1>8, <1>9

\* Nobody takes the other way in from an account whose row an unlink holds.
LEMMA UnlinkIsAtomic ==
    ASSUME Inv, NEW r \in Requests, CommitUnlink(r)
    PROVE  Atomic!Next
<1>1. request[r] \in UnlinkStates /\ At(r) = "commit unlink" /\ Facts(r)
  BY StateShape DEF Inv, Types, CommitUnlink, At, Unlinking
<1>2. PICK a \in Users, p \in Providers : a = request[r].user /\ p = request[r].idp
  BY <1>1 DEF UnlinkStates
<1>3. local[a] \/ Atomic!Elsewhere(a, p)
  BY <1>1, <1>2 DEF Facts, UnlinkFacts, Atomic!Elsewhere
<1>4. /\ links' = {l \in links : ~(l.user = a /\ l.idp = p)}
      /\ UNCHANGED <<accounts, local, providers, issuer, enabled>>
  BY <1>2 DEF CommitUnlink
<1> QED
  BY <1>3, <1>4 DEF Atomic!Next, Atomic!Unlink

\* Nor from those whose rows a provider's delete holds: all it is linked to.
LEMMA DeleteIsAtomic ==
    ASSUME Inv, NEW r \in Requests, CommitDelete(r)
    PROVE  Atomic!Next
<1>1. request[r] \in DeleteStates /\ At(r) = "commit delete" /\ Facts(r)
  BY StateShape DEF Inv, Types, CommitDelete, At, Deleting
<1>2. PICK p \in Providers : p = request[r].idp
  BY <1>1 DEF DeleteStates
<1>3. \A l \in links : l.idp = p => local[l.user] \/ Atomic!Elsewhere(l.user, p)
  BY <1>1, <1>2 DEF Facts, DeleteFacts, Atomic!Elsewhere
<1>4. /\ providers' = providers \ {p} /\ links' = {l \in links : l.idp # p}
      /\ UNCHANGED <<accounts, local, issuer, enabled>>
  BY <1>2 DEF CommitDelete
<1> QED
  BY <1>3, <1>4 DEF Atomic!Next, Atomic!RemoveProvider

\* No identity is added at a provider whose row an update holds.
LEMMA UpdateIsAtomic ==
    ASSUME Inv, NEW r \in Requests, CommitUpdate(r)
    PROVE  Atomic!Next
<1>1. request[r] \in UpdateStates /\ At(r) = "commit update" /\ Facts(r)
  BY StateShape DEF Inv, Types, CommitUpdate, At, Updating
<1>2. PICK p \in Providers, i \in Issuers, e \in BOOLEAN :
         p = request[r].idp /\ i = request[r].issuer /\ e = request[r].enable
  BY <1>1 DEF UpdateStates
<1>3. i = issuer[p] \/ \A l \in links : l.idp # p
  BY <1>1, <1>2 DEF Facts, UpdateFacts
<1>4. /\ issuer' = [issuer EXCEPT ![p] = i] /\ enabled' = [enabled EXCEPT ![p] = e]
      /\ UNCHANGED <<accounts, local, providers, links>>
  BY <1>2 DEF CommitUpdate
<1>5. Atomic!ChangeProvider(p, i, e)
  BY <1>3, <1>4 DEF Atomic!ChangeProvider
<1> QED
  BY <1>5 DEF Atomic!Next

LEMMA StepIsAtomic ==
    ASSUME Inv, [Next]_vars
    PROVE  Atomic!Next \/ UNCHANGED Atomic!vars
<1>1. CASE UNCHANGED vars
  BY <1>1 DEF vars, Atomic!vars
<1>2. ASSUME NEW r \in Requests,
             \/ \E p \in Providers, s \in Subjects : StartSignIn(r, p, s)
             \/ \E a \in Users, p \in Providers, s \in Subjects : StartLink(r, a, p, s)
             \/ SignInKnown(r)
             \/ \E a \in Users : Provision(r, a)
             \/ LockProviderForLink(r) \/ Insert(r) \/ LockAccountForLink(r)
             \/ \E a \in Users, p \in Providers : StartUnlink(r, a, p)
             \/ LockAccountForUnlink(r) \/ Unlink(r)
             \/ \E p \in Providers : StartDelete(r, p)
             \/ LockProviderForDelete(r) \/ FindAccounts(r)
             \/ LockAccountForDelete(r) \/ AccountsLocked(r)
             \/ DeleteProvider(r)
             \/ \E p \in Providers, i \in Issuers, e \in BOOLEAN : StartUpdate(r, p, i, e)
             \/ LockProviderForUpdate(r) \/ UpdateProvider(r)
             \/ Rollback(r)
      PROVE  UNCHANGED Atomic!vars
  BY <1>2, ReadsIsStutter
  DEF StartSignIn, StartLink, SignInKnown, Provision, LockProviderForLink, Insert,
      LockAccountForLink, StartUnlink, LockAccountForUnlink, Unlink, StartDelete,
      LockProviderForDelete, FindAccounts, LockAccountForDelete, AccountsLocked,
      DeleteProvider, StartUpdate, LockProviderForUpdate, UpdateProvider, Rollback
<1>3. ASSUME NEW r \in Requests,
             CommitLink(r) \/ CommitUnlink(r) \/ CommitDelete(r) \/ CommitUpdate(r)
      PROVE  Atomic!Next
  BY <1>3, LinkIsAtomic, UnlinkIsAtomic, DeleteIsAtomic, UpdateIsAtomic
<1>4. ASSUME NEW a \in Users, DeleteAccount(a) PROVE Atomic!Next
  <2>1. Atomic!RemoveAccount(a)
    BY <1>4 DEF DeleteAccount, Atomic!RemoveAccount
  <2> QED
    BY <2>1 DEF Atomic!Next
<1>5. ASSUME NEW a \in Users, NEW b \in BOOLEAN, SetLocal(a, b) PROVE Atomic!Next
  <2>1. Atomic!SetLocal(a, b)
    BY <1>5 DEF SetLocal, Atomic!SetLocal
  <2> QED
    BY <2>1 DEF Atomic!Next
<1> QED
  BY <1>1, <1>2, <1>3, <1>4, <1>5, Zenon DEF Next

\* However they interleave, the transactions do what operations would do that
\* happen one after the other, at their commits: none acts on what has changed
\* since it looked (queryLinkIdentity, queryUnlinkIdentity, queryDeleteIDP,
\* queryUpdateIDP).
THEOREM ActsAtCommit == Spec => TransactionsAreAtomic
<1>1. Inv /\ [Next]_vars => [Atomic!Next]_(Atomic!vars)
  BY StepIsAtomic
<1> QED
  BY <1>1, AtomicInit, InvHolds, PTL DEF Spec, TransactionsAreAtomic, Atomic!Spec
=============================================================================
