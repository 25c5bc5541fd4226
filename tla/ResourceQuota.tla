---------------------------- MODULE ResourceQuota ----------------------------
(* One counter of resources_usage, the resources it counts and the requests   *)
(* that create and delete them.  A creation reserves a unit, inserts, and     *)
(* gives the unit back when the insert fails; a deletion removes the resource *)
(* and then gives its unit back; a replica that starts may recount.  The      *)
(* counter moves in transactions that hold its row, each one step here; the   *)
(* resource is another transaction, and anything may happen in between.       *)
(* The signature is left out: every transaction below writes the one that     *)
(* matches the value it stores.                                               *)
EXTENDS Integers, FiniteSets

CONSTANTS
    Requests,    \* request goroutines, of any replica
    Items,       \* resources, by id
    HardLimit,   \* the limit resolved for the scope
    Faults       \* a subset of FaultKinds

\* A statement fails; a process dies; a commit is not answered (that of an
\* insert apart); a replica recounts while others serve.
FaultKinds == {"fail", "crash", "unanswered", "insert unanswered", "recount"}

ASSUME QuotaAssumption ==
    /\ IsFiniteSet(Requests) /\ IsFiniteSet(Items)
    /\ HardLimit \in Nat
    /\ Faults \subseteq FaultKinds

VARIABLES
    counted,     \* whether the counter has a row
    usage,       \* its value
    existing,    \* the resources in their table
    request,     \* where each request is
    faulted      \* the kinds of faults that have happened (history)

vars == <<counted, usage, existing, request, faulted>>

Idle == [at |-> "idle"]
Reserving == {"first", "insert", "release"}

RequestStates ==
    {Idle} \cup [at : Reserving, item : Items] \cup [at : {"decrement"}]

TypeOK ==
    /\ counted \in BOOLEAN
    /\ usage \in Nat
    /\ existing \subseteq Items
    /\ request \in [Requests -> RequestStates]
    /\ faulted \subseteq FaultKinds

Init ==
    /\ counted = FALSE
    /\ usage = 0
    /\ existing = {}
    /\ request = [p \in Requests |-> Idle]
    /\ faulted = {}

Goes(p, state) == request' = [request EXCEPT ![p] = state]

\* A fault happens only where the instance allows its kind.
Fault(kind) == kind \in Faults /\ faulted' = faulted \cup {kind}

-----------------------------------------------------------------------------
(* ReserveUsage                                                               *)

\* (fault) the guard reads the limit as the last unit, not the number of units.
TakeUnitPastLimit ==
    /\ usage <= HardLimit
    /\ usage' = usage + 1
    /\ counted' = TRUE

\* The upsert and its guard, which a row created meanwhile is held to as well.
TakeUnit ==
    /\ usage < HardLimit
    /\ usage' = usage + 1
    /\ counted' = TRUE

\* FOR UPDATE finds the row: from there to the commit nothing else moves it.
Reserve(p, i) ==
    /\ request[p] = Idle
    /\ counted
    /\ TakeUnit
    /\ Goes(p, [at |-> "insert", item |-> i])
    /\ UNCHANGED <<existing, faulted>>

ReserveRefused(p) ==
    /\ request[p] = Idle
    /\ counted
    /\ usage >= HardLimit
    /\ UNCHANGED vars

\* There is no row to lock yet; several reservations may find that.
ReserveFindsNone(p, i) ==
    /\ request[p] = Idle
    /\ ~counted
    /\ Goes(p, [at |-> "first", item |-> i])
    /\ UNCHANGED <<counted, usage, existing, faulted>>

ReserveFirst(p) ==
    /\ request[p].at = "first"
    /\ TakeUnit
    /\ Goes(p, [request[p] EXCEPT !.at = "insert"])
    /\ UNCHANGED <<existing, faulted>>

\* The limit was reached meanwhile: the creation is refused.
ReserveFirstRefused(p) ==
    /\ request[p].at = "first"
    /\ usage >= HardLimit
    /\ Goes(p, Idle)
    /\ UNCHANGED <<counted, usage, existing, faulted>>

\* The commit is not answered: Create returns, and gives nothing back.
ReserveUnanswered(p) ==
    /\ request[p] = Idle
    /\ TakeUnit
    /\ Fault("unanswered")
    /\ UNCHANGED <<existing, request>>

-----------------------------------------------------------------------------
(* Create, after the reservation                                              *)

Insert(p) ==
    /\ request[p].at = "insert"
    /\ request[p].item \notin existing
    /\ existing' = existing \cup {request[p].item}
    /\ Goes(p, Idle)
    /\ UNCHANGED <<counted, usage, faulted>>

InsertRefused(p) ==
    /\ request[p].at = "insert"
    /\ request[p].item \in existing
    /\ Goes(p, [request[p] EXCEPT !.at = "release"])
    /\ UNCHANGED <<counted, usage, existing, faulted>>

InsertFails(p) ==
    /\ request[p].at = "insert"
    /\ Fault("fail")
    /\ Goes(p, [request[p] EXCEPT !.at = "release"])
    /\ UNCHANGED <<counted, usage, existing>>

\* The insert commits, the driver reports an error, and the unit of a resource
\* that exists is given back: the window ReleaseResourceSlot documents.
InsertUnanswered(p) ==
    /\ request[p].at = "insert"
    /\ request[p].item \notin existing
    /\ existing' = existing \cup {request[p].item}
    /\ Fault("insert unanswered")
    /\ Goes(p, [request[p] EXCEPT !.at = "release"])
    /\ UNCHANGED <<counted, usage>>

-----------------------------------------------------------------------------
(* DecrementUsage, of ReleaseResourceSlot and of the deletions                *)

\* (fault) no usage > 0 in the statement, and no CHECK on the column.
GiveUnitBackAnyway == usage' = IF counted THEN usage - 1 ELSE usage

\* usage > 0 in the statement: a counter at zero matches no row.
GiveUnitBack == usage' = IF counted /\ usage > 0 THEN usage - 1 ELSE usage

\* (fault) a creation that failed keeps its unit.
ReleaseNothing(p) ==
    /\ request[p].at = "release"
    /\ Goes(p, Idle)
    /\ UNCHANGED <<counted, usage, existing, faulted>>

Release(p) ==
    /\ request[p].at = "release"
    /\ GiveUnitBack
    /\ Goes(p, Idle)
    /\ UNCHANGED <<counted, existing, faulted>>

\* (fault) a statement that deletes nothing is a success.
DeleteWhatever(p, i) ==
    /\ request[p] = Idle
    /\ existing' = existing \ {i}
    /\ Goes(p, [at |-> "decrement"])
    /\ UNCHANGED <<counted, usage, faulted>>

\* A resource that is not there is not found, and nothing is given back.
Delete(p, i) ==
    /\ request[p] = Idle
    /\ i \in existing
    /\ existing' = existing \ {i}
    /\ Goes(p, [at |-> "decrement"])
    /\ UNCHANGED <<counted, usage, faulted>>

\* The deletion commits and is not answered: nothing is given back.
DeleteUnanswered(p, i) ==
    /\ request[p] = Idle
    /\ i \in existing
    /\ existing' = existing \ {i}
    /\ Fault("unanswered")
    /\ UNCHANGED <<counted, usage, request>>

Decrement(p) ==
    /\ request[p].at = "decrement"
    /\ GiveUnitBack
    /\ Goes(p, Idle)
    /\ UNCHANGED <<counted, existing, faulted>>

\* The statement of a release or a decrement fails; the request ends.
GiveBackFails(p) ==
    /\ request[p].at \in {"release", "decrement"}
    /\ Fault("fail")
    /\ Goes(p, Idle)
    /\ UNCHANGED <<counted, usage, existing>>

\* The process dies with the request in it.
Crash(p) ==
    /\ request[p] # Idle
    /\ Fault("crash")
    /\ Goes(p, Idle)
    /\ UNCHANGED <<counted, usage, existing>>

-----------------------------------------------------------------------------
\* RecountUsage, by the ReconcileAll of a replica that starts while others
\* serve.  It holds the row from before the count to the commit, so the counter
\* moves at the count.
Recount ==
    /\ counted
    /\ usage' = Cardinality(existing)
    /\ Fault("recount")
    /\ UNCHANGED <<counted, existing, request>>

Next ==
    \/ \E p \in Requests :
         \/ \E i \in Items :
              Reserve(p, i) \/ ReserveFindsNone(p, i) \/ Delete(p, i) \/ DeleteUnanswered(p, i)
         \/ ReserveRefused(p) \/ ReserveFirst(p) \/ ReserveFirstRefused(p)
         \/ ReserveUnanswered(p)
         \/ Insert(p) \/ InsertRefused(p) \/ InsertFails(p) \/ InsertUnanswered(p)
         \/ Release(p) \/ Decrement(p) \/ GiveBackFails(p)
         \/ Crash(p)
    \/ Recount

Spec == Init /\ [][Next]_vars

-----------------------------------------------------------------------------
\* Nothing has happened that gives back the unit of a resource that exists, or
\* counts one away that is still to be used.
Covered == {"insert unanswered", "recount"} \cap faulted = {}

\* The counter never falls below what exists: an interrupted request leaves it
\* too high, never too low (ReserveResourceSlot, DecrementUsage).
NeverUndercounts == Covered => Cardinality(existing) <= usage

\* However many creations race, no more exists than the limit allows
\* (ReserveUsage).
WithinLimit == Covered => Cardinality(existing) <= HardLimit

\* Requests that all ran to their end, refused ones included, leave the counter
\* exact: it drifts by faults only (Create, DeleteByID).
ExactAtRest ==
    (faulted = {} /\ \A p \in Requests : request[p] = Idle) => usage = Cardinality(existing)

\* What the comment of RecountUsage says of a reservation that races with a
\* repair: it waits for the corrected value or is counted, so that the repair
\* leaves no counter below what exists.
RepairCountsReservations == faulted \subseteq {"recount"} => Cardinality(existing) <= usage
=============================================================================
