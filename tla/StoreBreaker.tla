---------------------------- MODULE StoreBreaker ----------------------------
(* The circuit breaker in front of the shared rate-limit counter              *)
(* (ratelimitbreaker).  admit and record each run under the breaker's lock;   *)
(* between the two the request is at the store, for at most the store's       *)
(* timeout.  Time passes in ticks and is kept relative: how long the breaker  *)
(* still has to cool, how long each call has been out.                        *)
EXTENDS Integers

CONSTANTS
    Requests,   \* handler goroutines
    Threshold,  \* ratelimit.store.breaker.threshold
    Cooldown,   \* ratelimit.store.breaker.cooldown, in ticks
    Timeout     \* ratelimit.store.timeout, in ticks

\* New returns the bare limiter for a threshold or a cooldown that is not
\* positive.  Nothing in the configuration relates the cooldown to the timeout.
ASSUME BreakerAssumption ==
    Threshold \in Nat \ {0} /\ Cooldown \in Nat \ {0} /\ Timeout \in Nat \ {0}

VARIABLES
    open,      \* openUntil is not the zero time
    left,      \* ticks until now is no longer before openUntil
    failures,  \* consecutiveFailures, no higher than Threshold
    probing,   \* a half-open request is in flight
    storeUp,   \* the counter's store answers
    calls      \* per request: where its Allow is

vars == <<open, left, failures, probing, storeUp, calls>>

NoCall == [at |-> "idle", role |-> "regular", age |-> 0, answer |-> "none"]

TypeOK ==
    /\ open \in BOOLEAN /\ probing \in BOOLEAN /\ storeUp \in BOOLEAN
    /\ left \in 0..Cooldown
    /\ failures \in 0..Threshold
    /\ calls \in [Requests -> [at : {"idle", "asked", "answered"},
                               role : {"regular", "probe"},
                               age : 0..Timeout,
                               answer : {"none", "ok", "failed", "cancelled"}]]

Init ==
    /\ open = FALSE /\ left = 0 /\ failures = 0 /\ probing = FALSE
    /\ storeUp = TRUE
    /\ calls = [q \in Requests |-> NoCall]

InFlight(q) == calls[q].at # "idle"
IsProbe(q) == InFlight(q) /\ calls[q].role = "probe"

-----------------------------------------------------------------------------
(* admit: a closed breaker lets everything through, an open one nothing until *)
(* its cooldown has elapsed and then one probe.  A request that is not        *)
(* admitted gets ErrOpen and changes nothing.                                 *)

Ask(q, role) ==
    calls' = [calls EXCEPT ![q] =
                [at |-> "asked", role |-> role, age |-> 0, answer |-> "none"]]

AdmitClosed(q) ==
    /\ ~InFlight(q)
    /\ ~open
    /\ Ask(q, "regular")
    /\ UNCHANGED <<open, left, failures, probing, storeUp>>

AdmitProbe(q) ==
    /\ ~InFlight(q)
    /\ open /\ left = 0
    /\ ~probing
    /\ probing' = TRUE
    /\ Ask(q, "probe")
    /\ UNCHANGED <<open, left, failures, storeUp>>

-----------------------------------------------------------------------------
(* The store's answer, or the caller's going away before it.                  *)

Answer(q, answer) ==
    /\ calls[q].at = "asked"
    /\ calls' = [calls EXCEPT ![q].at = "answered", ![q].answer = answer]
    /\ UNCHANGED <<open, left, failures, probing, storeUp>>

AnswerOk(q) == storeUp /\ Answer(q, "ok")
AnswerFailed(q) == ~storeUp /\ Answer(q, "failed")
AnswerCancelled(q) == Answer(q, "cancelled")

-----------------------------------------------------------------------------
(* record: one outcome folded into the state.                                 *)

Done(q) == calls' = [calls EXCEPT ![q] = NoCall]

RecordOk(q) ==
    /\ calls[q].at = "answered" /\ calls[q].answer = "ok"
    /\ open' = FALSE /\ left' = 0
    /\ failures' = 0
    /\ probing' = FALSE
    /\ Done(q)
    /\ UNCHANGED storeUp

\* (fault) the failure that opens the breaker starts no cooldown.
RecordFailedNoCooldown(q) ==
    /\ calls[q].at = "answered" /\ calls[q].answer = "failed"
    /\ failures' = IF failures < Threshold THEN failures + 1 ELSE Threshold
    /\ open' = (open \/ failures' >= Threshold)
    /\ left' = left
    /\ probing' = FALSE
    /\ Done(q)
    /\ UNCHANGED storeUp

\* The count only matters up to the threshold, where it is kept.
RecordFailed(q) ==
    /\ calls[q].at = "answered" /\ calls[q].answer = "failed"
    /\ failures' = IF failures < Threshold THEN failures + 1 ELSE Threshold
    /\ IF failures' >= Threshold
         THEN open' = TRUE /\ left' = Cooldown
         ELSE UNCHANGED <<open, left>>
    /\ probing' = FALSE
    /\ Done(q)
    /\ UNCHANGED storeUp

\* (fault) a cancelled request returns before it gives the probe back.
RecordCancelledHoldingProbe(q) ==
    /\ calls[q].at = "answered" /\ calls[q].answer = "cancelled"
    /\ Done(q)
    /\ UNCHANGED <<open, left, failures, probing, storeUp>>

\* A cancelled request says nothing of the store, but gives the probe back.
RecordCancelled(q) ==
    /\ calls[q].at = "answered" /\ calls[q].answer = "cancelled"
    /\ probing' = FALSE
    /\ Done(q)
    /\ UNCHANGED <<open, left, failures, storeUp>>

Record(q) == RecordOk(q) \/ RecordFailed(q) \/ RecordCancelled(q)

-----------------------------------------------------------------------------
(* The store's health, and time: no call is out for longer than the timeout.  *)

StoreChanges ==
    /\ storeUp' = ~storeUp
    /\ UNCHANGED <<open, left, failures, probing, calls>>

\* (fault) calls to the store have no timeout: they outlive any bound.
TickUnbounded ==
    /\ left' = IF left > 0 THEN left - 1 ELSE 0
    /\ calls' = [q \in Requests |->
                   IF InFlight(q) THEN [calls[q] EXCEPT !.age = @ + 1] ELSE calls[q]]
    /\ UNCHANGED <<open, failures, probing, storeUp>>

Tick ==
    /\ \A q \in Requests : InFlight(q) => calls[q].age < Timeout
    /\ left' = IF left > 0 THEN left - 1 ELSE 0
    /\ calls' = [q \in Requests |->
                   IF InFlight(q) THEN [calls[q] EXCEPT !.age = @ + 1] ELSE calls[q]]
    /\ UNCHANGED <<open, failures, probing, storeUp>>

-----------------------------------------------------------------------------
Next ==
    \/ \E q \in Requests :
         \/ AdmitClosed(q) \/ AdmitProbe(q)
         \/ AnswerOk(q) \/ AnswerFailed(q) \/ AnswerCancelled(q)
         \/ RecordOk(q) \/ RecordFailed(q) \/ RecordCancelled(q)
    \/ StoreChanges
    \/ Tick

Spec == Init /\ [][Next]_vars

\* Requests keep coming, every call ends within the timeout and is recorded,
\* and of the calls an answering store gets not all are abandoned.
Fairness ==
    /\ WF_vars(Tick)
    /\ WF_vars(\E q \in Requests : AdmitClosed(q) \/ AdmitProbe(q))
    /\ \A q \in Requests :
         /\ WF_vars(AnswerOk(q) \/ AnswerFailed(q) \/ AnswerCancelled(q))
         /\ WF_vars(Record(q))
    /\ SF_vars(\E q \in Requests : AnswerOk(q))

FairSpec == Spec /\ Fairness

-----------------------------------------------------------------------------
\* Half-open admits exactly one probe (Breaker).
AtMostOneProbe ==
    \A p, q \in Requests : IsProbe(p) /\ IsProbe(q) => p = q

\* The flag says what it means: it is up exactly while a probe is in flight, so
\* it can neither let a second one through nor be left up with none (admit).
ProbingTracksTheProbe ==
    probing <=> \E q \in Requests : IsProbe(q)

\* During an outage the store gets one call per cooldown: once the breaker has
\* cooled, nothing but its probe is at the store (initRateLimits).
OnlyTheProbeIsOut ==
    open /\ left = 0 => \A q \in Requests : InFlight(q) => IsProbe(q)

\* Once the store answers for good, the breaker ends closed (admit, record).
RecoveryCloses == <>[]storeUp => <>[]~open
=============================================================================
