------------------------- MODULE StoreBreaker_proofs -------------------------
(* For any number of requests: a cooldown longer than the store's timeout     *)
(* keeps late answers away from the probe.                                    *)
EXTENDS StoreBreaker, TLAPS

\* A call admitted while the breaker was closed has been out at least as long
\* as the breaker has been cooling since.
LateCallsAreOld ==
    open => \A q \in Requests :
              InFlight(q) /\ ~IsProbe(q) => left + calls[q].age >= Cooldown

\* A probe in flight is alone at the store, of an open breaker that has cooled.
ProbeIsAlone ==
    \A p \in Requests :
      IsProbe(p) => /\ open /\ left = 0 /\ probing
                    /\ \A q \in Requests : InFlight(q) => q = p

FlagHasProbe == probing => \E q \in Requests : IsProbe(q)

IInv == TypeOK /\ LateCallsAreOld /\ ProbeIsAlone /\ FlagHasProbe

\* The records of calls.
Call == [at : {"idle", "asked", "answered"}, role : {"regular", "probe"},
         age : 0..Timeout, answer : {"none", "ok", "failed", "cancelled"}]

\* A call that is only asked for, and no call, are among them.
LEMMA FreshCall ==
  /\ NoCall \in Call
  /\ \A role \in {"regular", "probe"} :
       [at |-> "asked", role |-> role, age |-> 0, answer |-> "none"] \in Call
  <1>1. 0 \in 0..Timeout
    BY BreakerAssumption
  <1>2. \A at \in {"idle", "asked", "answered"}, role \in {"regular", "probe"} :
          [at |-> at, role |-> role, age |-> 0, answer |-> "none"] \in Call
    BY <1>1 DEF Call
  <1>4. NoCall \in Call
    BY <1>2 DEF NoCall
  <1> QED BY <1>2, <1>4

\* Nothing is in flight at the start.
LEMMA InitIInv == Init => IInv
  <1> SUFFICES ASSUME Init PROVE IInv
    OBVIOUS
  <1>1. TypeOK
    <2>1. left \in 0..Cooldown /\ failures \in 0..Threshold
      BY BreakerAssumption DEF Init
    <2>2. calls \in [Requests -> Call]
      BY FreshCall DEF Init
    <2>3. open \in BOOLEAN /\ probing \in BOOLEAN /\ storeUp \in BOOLEAN
      BY Zenon DEF Init
    <2> QED BY <2>1, <2>2, <2>3 DEF TypeOK, Call
  <1>2. \A q \in Requests : ~InFlight(q)
    BY DEF Init, NoCall, InFlight
  <1>3. LateCallsAreOld /\ ProbeIsAlone /\ FlagHasProbe
    BY <1>2 DEF Init, LateCallsAreOld, ProbeIsAlone, FlagHasProbe, IsProbe
  <1> QED BY <1>1, <1>3 DEF IInv

\* What a step does to one call, the others staying as they are.
LEMMA CallsTyped ==
  ASSUME TypeOK, NEW q \in Requests,
         NEW c \in Call,
         calls' = [calls EXCEPT ![q] = c]
  PROVE  /\ calls' \in [Requests -> Call]
         /\ calls'[q] = c
         /\ \A p \in Requests : p # q => calls'[p] = calls[p]
  BY DEF TypeOK, Call

\* Of a breaker that has cooled, with a cooldown longer than the timeout, only
\* the probe is out.
LEMMA CooledHasNoLateCall ==
  ASSUME Cooldown > Timeout, IInv, open, left = 0, NEW q \in Requests, InFlight(q)
  PROVE  IsProbe(q)
  <1>1. calls[q].age \in 0..Timeout /\ left \in Int
    BY DEF IInv, TypeOK
  <1> QED BY <1>1, BreakerAssumption DEF IInv, LateCallsAreOld

\* Admitting a request asks the store for it.
LEMMA AdmitTypes ==
  ASSUME TypeOK, NEW q \in Requests, NEW role \in {"regular", "probe"}, Ask(q, role),
         UNCHANGED <<open, left, failures, storeUp>>, probing' \in BOOLEAN
  PROVE  /\ TypeOK'
         /\ calls'[q] = [at |-> "asked", role |-> role, age |-> 0, answer |-> "none"]
         /\ \A p \in Requests : p # q => calls'[p] = calls[p]
  <1> DEFINE asked == [at |-> "asked", role |-> role, age |-> 0, answer |-> "none"]
  <1>1. asked \in Call
    BY FreshCall
  <1>2. calls' = [calls EXCEPT ![q] = asked]
    BY DEF Ask
  <1> HIDE DEF asked
  <1>3. /\ calls' \in [Requests -> Call]
        /\ calls'[q] = asked
        /\ \A p \in Requests : p # q => calls'[p] = calls[p]
    BY <1>1, <1>2, CallsTyped
  <1> QED BY <1>3 DEF TypeOK, Call, asked

\* Admitting a request, as the breaker's state allows.
LEMMA AdmitKeeps ==
  ASSUME Cooldown > Timeout, IInv, NEW q \in Requests, AdmitClosed(q) \/ AdmitProbe(q)
  PROVE  IInv'
  <1> DEFINE Asked(role) == [at |-> "asked", role |-> role, age |-> 0, answer |-> "none"]
  <1>1. CASE AdmitClosed(q)
    <2>1. Ask(q, "regular") /\ UNCHANGED <<open, left, failures, storeUp>> /\ probing' \in BOOLEAN
      BY <1>1 DEF AdmitClosed, IInv, TypeOK
    <2>2. /\ TypeOK'
          /\ calls'[q] = Asked("regular")
          /\ \A p \in Requests : p # q => calls'[p] = calls[p]
      BY <2>1, AdmitTypes DEF IInv
    <2>3. ~open /\ open' = open /\ probing' = probing
      BY <1>1 DEF AdmitClosed
    <2>4. \A p \in Requests : ~IsProbe(p)
      BY <2>3 DEF IInv, ProbeIsAlone
    <2>5. \A p \in Requests : ~IsProbe(p)'
      BY <2>2, <2>4 DEF IsProbe, InFlight, NoCall
    <2>6. ~probing
      BY <2>4 DEF IInv, FlagHasProbe
    <2> QED BY <2>2, <2>3, <2>5, <2>6 DEF IInv, LateCallsAreOld, ProbeIsAlone, FlagHasProbe
  <1>2. CASE AdmitProbe(q)
    <2>1. Ask(q, "probe") /\ UNCHANGED <<open, left, failures, storeUp>> /\ probing' \in BOOLEAN
      BY <1>2 DEF AdmitProbe, IInv, TypeOK
    <2>2. /\ TypeOK'
          /\ calls'[q] = Asked("probe")
          /\ \A p \in Requests : p # q => calls'[p] = calls[p]
      BY <2>1, AdmitTypes DEF IInv
    <2>3. open /\ left = 0 /\ ~probing /\ probing' /\ UNCHANGED <<open, left>>
      BY <1>2 DEF AdmitProbe
    <2>4. \A p \in Requests : ~InFlight(p)
      <3>1. \A p \in Requests : ~IsProbe(p)
        BY <2>3 DEF IInv, ProbeIsAlone
      <3> QED BY <2>3, <3>1, CooledHasNoLateCall
    <2>5. /\ IsProbe(q)'
          /\ \A p \in Requests : InFlight(p)' => p = q
      BY <2>2, <2>4 DEF IsProbe, InFlight, NoCall
    <2>6. LateCallsAreOld'
      BY <2>5 DEF LateCallsAreOld
    <2>7. ProbeIsAlone'
      BY <2>3, <2>5 DEF ProbeIsAlone, IsProbe
    <2>8. FlagHasProbe'
      BY <2>5 DEF FlagHasProbe
    <2> QED BY <2>2, <2>6, <2>7, <2>8 DEF IInv
  <1> QED BY <1>1, <1>2

\* An answer, or the caller's going away, moves one call on.
LEMMA AnswerTypes ==
  ASSUME TypeOK, NEW q \in Requests, NEW answer \in {"ok", "failed", "cancelled"},
         Answer(q, answer)
  PROVE  /\ TypeOK'
         /\ \A p \in Requests : /\ InFlight(p)' <=> InFlight(p)
                                /\ IsProbe(p)' <=> IsProbe(p)
                                /\ calls'[p].age = calls[p].age
  <1> DEFINE c == [[calls[q] EXCEPT !.at = "answered"] EXCEPT !.answer = answer]
  <1>1. /\ c \in Call
        /\ calls' = [calls EXCEPT ![q] = c]
        /\ calls[q].at = "asked"
    BY DEF TypeOK, Call, Answer
  <1>2. TypeOK'
    BY <1>1, CallsTyped DEF Answer, TypeOK, Call
  <1>3. \A p \in Requests : /\ InFlight(p)' <=> InFlight(p)
                            /\ IsProbe(p)' <=> IsProbe(p)
                            /\ calls'[p].age = calls[p].age
    BY <1>1 DEF InFlight, IsProbe, TypeOK
  <1> QED BY <1>2, <1>3

\* It leaves the breaker, and who is the probe, as they are.
LEMMA AnswerKeeps ==
  ASSUME IInv, NEW q \in Requests, NEW answer \in {"ok", "failed", "cancelled"},
         Answer(q, answer)
  PROVE  IInv'
  <1>1. /\ TypeOK'
        /\ \A p \in Requests : /\ InFlight(p)' <=> InFlight(p)
                               /\ IsProbe(p)' <=> IsProbe(p)
                               /\ calls'[p].age = calls[p].age
    BY AnswerTypes DEF IInv
  <1>2. UNCHANGED <<open, left, probing>>
    BY DEF Answer
  <1>3. LateCallsAreOld'
    BY <1>1, <1>2 DEF IInv, LateCallsAreOld
  <1>4. ProbeIsAlone'
    BY <1>1, <1>2 DEF IInv, ProbeIsAlone
  <1>5. FlagHasProbe'
    BY <1>1, <1>2 DEF IInv, FlagHasProbe
  <1> QED BY <1>1, <1>3, <1>4, <1>5 DEF IInv

\* Recording one outcome: the call is over, and the breaker is closed, opened
\* for a whole cooldown or left as it was.
LEMMA RecordTypes ==
  ASSUME TypeOK, NEW q \in Requests, Record(q)
  PROVE  /\ TypeOK'
         /\ InFlight(q) /\ calls'[q] = NoCall
         /\ \A p \in Requests : p # q => calls'[p] = calls[p]
         /\ probing' = FALSE
         /\ \/ ~open'
            \/ open' /\ left' = Cooldown
            \/ UNCHANGED <<open, left>>
  <1>1. NoCall \in Call
    BY FreshCall
  <1>2. /\ calls' = [calls EXCEPT ![q] = NoCall]
        /\ InFlight(q)
        /\ probing' = FALSE
        /\ storeUp' = storeUp
    BY DEF Record, RecordOk, RecordFailed, RecordCancelled, Done, InFlight
  <1>3. /\ open' \in BOOLEAN /\ left' \in 0..Cooldown /\ failures' \in 0..Threshold
        /\ \/ ~open'
           \/ open' /\ left' = Cooldown
           \/ UNCHANGED <<open, left>>
    <2>1. open \in BOOLEAN /\ left \in 0..Cooldown /\ failures \in 0..Threshold
      BY DEF TypeOK
    <2>2. CASE RecordOk(q)
      <3>1. left' \in 0..Cooldown /\ failures' \in 0..Threshold
        BY <2>2, BreakerAssumption DEF RecordOk
      <3>2. open' \in BOOLEAN /\ ~open'
        BY <2>2, Zenon DEF RecordOk
      <3> QED BY <3>1, <3>2
    <2>3. CASE RecordFailed(q)
      <3>1. failures' \in 0..Threshold
        BY <2>1, <2>3, BreakerAssumption DEF RecordFailed
      <3>2. CASE failures' >= Threshold
        <4>1. left' = Cooldown /\ Cooldown \in 0..Cooldown
          BY <2>3, <3>2, BreakerAssumption DEF RecordFailed
        <4>2. open' \in BOOLEAN /\ open'
          BY <2>3, <3>2, Zenon DEF RecordFailed
        <4> QED BY <3>1, <4>1, <4>2
      <3>3. CASE ~(failures' >= Threshold)
        BY <2>1, <2>3, <3>1, <3>3 DEF RecordFailed
      <3> QED BY <3>2, <3>3
    <2>4. CASE RecordCancelled(q)
      BY <2>1, <2>4 DEF RecordCancelled
    <2> QED BY <2>2, <2>3, <2>4 DEF Record
  <1>4. /\ TypeOK'
        /\ calls'[q] = NoCall
        /\ \A p \in Requests : p # q => calls'[p] = calls[p]
    BY <1>1, <1>2, <1>3, CallsTyped DEF TypeOK, Call
  <1> QED BY <1>2, <1>3, <1>4

\* A probe's outcome leaves nothing in flight, a late one finds no probe.
LEMMA RecordKeeps ==
  ASSUME IInv, NEW q \in Requests, Record(q)
  PROVE  IInv'
  <1>1. /\ TypeOK'
        /\ InFlight(q) /\ calls'[q] = NoCall
        /\ \A p \in Requests : p # q => calls'[p] = calls[p]
        /\ probing' = FALSE
        /\ \/ ~open'
           \/ open' /\ left' = Cooldown
           \/ UNCHANGED <<open, left>>
    BY RecordTypes DEF IInv
  <1>2. \A p \in Requests : /\ InFlight(p)' => p # q /\ InFlight(p)
                            /\ IsProbe(p)' => p # q /\ IsProbe(p)
    BY <1>1 DEF InFlight, IsProbe, NoCall
  <1>3. \A p \in Requests : ~IsProbe(p)'
    BY <1>1, <1>2 DEF IInv, ProbeIsAlone
  <1>4. LateCallsAreOld'
    <2> SUFFICES ASSUME open', NEW p \in Requests, InFlight(p)'
                 PROVE  left' + calls'[p].age >= Cooldown
      BY DEF LateCallsAreOld
    <2>1. calls'[p] = calls[p] /\ calls[p].age \in 0..Timeout /\ InFlight(p)
      BY <1>1, <1>2 DEF IInv, TypeOK
    <2>2. CASE left' = Cooldown
      BY <2>1, <2>2, BreakerAssumption
    <2>3. CASE UNCHANGED <<open, left>>
      <3>1. ~IsProbe(p)
        BY <1>1, <1>2, <1>3, <2>1 DEF IsProbe, InFlight
      <3> QED BY <2>1, <2>3, <3>1 DEF IInv, LateCallsAreOld
    <2> QED BY <1>1, <2>2, <2>3
  <1> QED BY <1>1, <1>3, <1>4 DEF IInv, ProbeIsAlone, FlagHasProbe

\* A tick of the clock brings the breaker nearer its probe and makes every call
\* as much older.
LEMMA TickTypes ==
  ASSUME TypeOK, Tick
  PROVE  /\ TypeOK'
         /\ \A p \in Requests : /\ InFlight(p)' <=> InFlight(p)
                                /\ IsProbe(p)' <=> IsProbe(p)
                                /\ InFlight(p) => calls'[p].age = calls[p].age + 1
  <1>1. \A p \in Requests :
          calls'[p] = IF InFlight(p) THEN [calls[p] EXCEPT !.age = @ + 1] ELSE calls[p]
    BY DEF Tick
  <1>2. \A p \in Requests :
          calls'[p] \in Call
    <2> SUFFICES ASSUME NEW p \in Requests
                 PROVE  calls'[p] \in Call
      OBVIOUS
    <2>1. calls[p] \in Call
      BY DEF TypeOK, Call
    <2>2. InFlight(p) => calls[p].age + 1 \in 0..Timeout
      BY <2>1, BreakerAssumption DEF Tick, Call
    <2> QED BY <1>1, <2>1, <2>2 DEF Call
  <1>3. TypeOK'
    <2>1. calls' = [p \in Requests |-> calls'[p]]
      BY DEF Tick
    <2>2. left' \in 0..Cooldown
      BY BreakerAssumption DEF Tick, TypeOK
    <2> QED BY <1>2, <2>1, <2>2 DEF Tick, TypeOK, Call
  <1>4. \A p \in Requests : /\ InFlight(p)' <=> InFlight(p)
                            /\ IsProbe(p)' <=> IsProbe(p)
                            /\ InFlight(p) => calls'[p].age = calls[p].age + 1
    BY <1>1 DEF InFlight, IsProbe, TypeOK
  <1> QED BY <1>3, <1>4

\* What a late call loses of the cooldown it gains in age.
LEMMA TickKeeps ==
  ASSUME IInv, Tick
  PROVE  IInv'
  <1>1. /\ TypeOK'
        /\ \A p \in Requests : /\ InFlight(p)' <=> InFlight(p)
                               /\ IsProbe(p)' <=> IsProbe(p)
                               /\ InFlight(p) => calls'[p].age = calls[p].age + 1
    BY TickTypes DEF IInv
  <1>2. LateCallsAreOld'
    <2> SUFFICES ASSUME open, NEW p \in Requests, InFlight(p), ~IsProbe(p)
                 PROVE  left' + calls'[p].age >= Cooldown
      BY <1>1 DEF LateCallsAreOld, Tick
    <2>1. left + calls[p].age >= Cooldown
      BY DEF IInv, LateCallsAreOld
    <2>2. left \in Nat /\ calls[p].age \in Nat
      BY BreakerAssumption DEF IInv, TypeOK
    <2>3. left' >= left - 1
      BY <2>2 DEF Tick
    <2>4. left' \in Int
      BY <2>2 DEF Tick
    <2> QED BY <1>1, <2>1, <2>2, <2>3, <2>4, BreakerAssumption
  <1>3. ProbeIsAlone'
    BY <1>1 DEF IInv, ProbeIsAlone, Tick
  <1>4. FlagHasProbe'
    BY <1>1 DEF IInv, FlagHasProbe, Tick
  <1> QED BY <1>1, <1>2, <1>3, <1>4 DEF IInv

\* Every step keeps the invariant, given a cooldown longer than the timeout.
LEMMA StepIInv == Cooldown > Timeout /\ IInv /\ [Next]_vars => IInv'
  <1> SUFFICES ASSUME Cooldown > Timeout, IInv, [Next]_vars PROVE IInv'
    OBVIOUS
  <1>1. CASE UNCHANGED vars
    BY <1>1 DEF vars, IInv, TypeOK, LateCallsAreOld, ProbeIsAlone, FlagHasProbe,
                InFlight, IsProbe
  <1>2. CASE StoreChanges
    BY <1>2 DEF StoreChanges, IInv, TypeOK, LateCallsAreOld, ProbeIsAlone, FlagHasProbe,
                InFlight, IsProbe
  <1>3. CASE Tick
    BY <1>3, TickKeeps
  <1>4. ASSUME NEW q \in Requests, AdmitClosed(q) \/ AdmitProbe(q) PROVE IInv'
    BY <1>4, AdmitKeeps
  <1>5. ASSUME NEW q \in Requests, AnswerOk(q) \/ AnswerFailed(q) \/ AnswerCancelled(q)
        PROVE  IInv'
    BY <1>5, AnswerKeeps DEF AnswerOk, AnswerFailed, AnswerCancelled
  <1>6. ASSUME NEW q \in Requests, RecordOk(q) \/ RecordFailed(q) \/ RecordCancelled(q)
        PROVE  IInv'
    BY <1>6, RecordKeeps DEF Record
  <1> QED BY <1>1, <1>2, <1>3, <1>4, <1>5, <1>6 DEF Next

\* Every reachable state satisfies the inductive invariant.
THEOREM Invariant == Cooldown > Timeout /\ Spec => []IInv
  <1>1. CASE Cooldown > Timeout
    <2>1. IInv /\ [Next]_vars => IInv'
      BY <1>1, StepIInv
    <2> QED BY <2>1, InitIInv, PTL DEF Spec
  <1>2. CASE ~(Cooldown > Timeout)
    BY <1>2
  <1> QED BY <1>1, <1>2

\* Each field stays within its bounds, a failure count no higher than the
\* threshold and no call out for longer than the timeout among them, whatever the
\* cooldown (admit, record).
THEOREM TypeCorrect == Spec => []TypeOK
  <1>1. Init => TypeOK
    BY InitIInv DEF IInv
  <1>2. TypeOK /\ [Next]_vars => TypeOK'
    <2> SUFFICES ASSUME TypeOK, [Next]_vars PROVE TypeOK'
      OBVIOUS
    <2>1. CASE UNCHANGED vars
      BY <2>1 DEF vars, TypeOK
    <2>2. CASE StoreChanges
      BY <2>2 DEF StoreChanges, TypeOK
    <2>3. CASE Tick
      BY <2>3, TickTypes
    <2>4. ASSUME NEW q \in Requests, AdmitClosed(q) \/ AdmitProbe(q) PROVE TypeOK'
      <3>1. CASE AdmitClosed(q)
        BY <3>1, AdmitTypes DEF AdmitClosed, TypeOK
      <3>2. CASE AdmitProbe(q)
        BY <3>2, AdmitTypes DEF AdmitProbe
      <3> QED BY <2>4, <3>1, <3>2
    <2>5. ASSUME NEW q \in Requests, AnswerOk(q) \/ AnswerFailed(q) \/ AnswerCancelled(q)
          PROVE  TypeOK'
      BY <2>5, AnswerTypes DEF AnswerOk, AnswerFailed, AnswerCancelled
    <2>6. ASSUME NEW q \in Requests, RecordOk(q) \/ RecordFailed(q) \/ RecordCancelled(q)
          PROVE  TypeOK'
      BY <2>6, RecordTypes DEF Record
    <2> QED BY <2>1, <2>2, <2>3, <2>4, <2>5, <2>6 DEF Next
  <1> QED BY <1>1, <1>2, PTL DEF Spec

\* A flag that is up was put up by a probe that is still out: every outcome that
\* is recorded takes it down.
LEMMA FlagStays ==
  ASSUME TypeOK, FlagHasProbe, [Next]_vars
  PROVE  FlagHasProbe'
  <1>1. CASE UNCHANGED <<probing, calls>>
    BY <1>1 DEF FlagHasProbe, IsProbe, InFlight
  <1>2. ASSUME NEW q \in Requests, AdmitClosed(q)
        PROVE  FlagHasProbe'
    <2>1. probing' \in BOOLEAN /\ probing' = probing /\ ~InFlight(q)
      BY <1>2 DEF AdmitClosed, TypeOK
    <2>2. \A p \in Requests : p # q => calls'[p] = calls[p]
      BY <1>2, <2>1, AdmitTypes DEF AdmitClosed
    <2> QED BY <2>1, <2>2 DEF FlagHasProbe, IsProbe, InFlight
  <1>3. ASSUME NEW q \in Requests, AdmitProbe(q)
        PROVE  FlagHasProbe'
    <2>1. calls'[q] = [at |-> "asked", role |-> "probe", age |-> 0, answer |-> "none"]
      BY <1>3, AdmitTypes DEF AdmitProbe
    <2> QED BY <2>1 DEF FlagHasProbe, IsProbe, InFlight
  <1>4. ASSUME NEW q \in Requests, AnswerOk(q) \/ AnswerFailed(q) \/ AnswerCancelled(q)
        PROVE  FlagHasProbe'
    <2>1. \E answer \in {"ok", "failed", "cancelled"} : Answer(q, answer)
      BY <1>4 DEF AnswerOk, AnswerFailed, AnswerCancelled
    <2>2. \A p \in Requests : IsProbe(p)' <=> IsProbe(p)
      BY <2>1, AnswerTypes
    <2> QED BY <2>1, <2>2 DEF FlagHasProbe, Answer
  <1>5. ASSUME NEW q \in Requests, RecordOk(q) \/ RecordFailed(q) \/ RecordCancelled(q)
        PROVE  FlagHasProbe'
    BY <1>5 DEF FlagHasProbe, RecordOk, RecordFailed, RecordCancelled
  <1>6. CASE Tick
    BY <1>6, TickTypes DEF FlagHasProbe, Tick
  <1> QED BY <1>1, <1>2, <1>3, <1>4, <1>5, <1>6 DEF Next, StoreChanges, vars

\* Whatever the cooldown, the flag is never up without a probe in flight: no probe
\* that was cancelled, or whose outcome came late, leaves the breaker waiting for
\* nobody (record).
THEOREM FlagNeverLeaks == Spec => []FlagHasProbe
  <1>1. Init => FlagHasProbe
    BY InitIInv DEF IInv
  <1>2. TypeOK /\ FlagHasProbe /\ [Next]_vars => FlagHasProbe'
    BY FlagStays
  <1> QED BY <1>1, <1>2, TypeCorrect, PTL DEF Spec

\* With a cooldown longer than the timeout, half-open admits exactly one probe
\* (admit).
THEOREM OneProbe == Cooldown > Timeout /\ Spec => []AtMostOneProbe
  <1>1. IInv => AtMostOneProbe
    BY DEF IInv, ProbeIsAlone, AtMostOneProbe, IsProbe
  <1> QED BY <1>1, Invariant, PTL

\* ... the flag is up exactly while a probe is in flight (admit, record).
THEOREM FlagMeansProbe == Cooldown > Timeout /\ Spec => []ProbingTracksTheProbe
  <1>1. IInv => ProbingTracksTheProbe
    BY DEF IInv, ProbeIsAlone, FlagHasProbe, ProbingTracksTheProbe
  <1> QED BY <1>1, Invariant, PTL

\* ... and a cooled breaker's probe is the only call at the store (Allow).
THEOREM OneCallPerCooldown == Cooldown > Timeout /\ Spec => []OnlyTheProbeIsOut
  <1>1. CASE Cooldown > Timeout
    <2>1. IInv => OnlyTheProbeIsOut
      BY <1>1, CooledHasNoLateCall DEF OnlyTheProbeIsOut
    <2> QED BY <2>1, Invariant, <1>1, PTL
  <1>2. CASE ~(Cooldown > Timeout)
    BY <1>2
  <1> QED BY <1>1, <1>2

-----------------------------------------------------------------------------
(* Recovery.                                                                  *)

\* A call with this outcome that is not recorded yet.
Outcome(answer) ==
    \E q \in Requests : calls[q].at = "answered" /\ calls[q].answer = answer

Asked == \E q \in Requests : calls[q].at = "asked"
Answered == \E q \in Requests : calls[q].at = "answered"
SomeIdle == \E q \in Requests : ~InFlight(q)

Admits == \E q \in Requests : AdmitClosed(q) \/ AdmitProbe(q)
Succeeds == \E q \in Requests : AnswerOk(q)
Records == \E q \in Requests : Record(q)
Closes == \E q \in Requests : RecordOk(q)

\* Fairness, with the guard of each action in the place of ENABLED.
Schedules ==
    /\ []<>~(SomeIdle /\ (~open \/ (left = 0 /\ ~probing))) \/ []<><<Admits>>_vars
    /\ []<>~Answered \/ []<><<Records>>_vars
    /\ []<>~Outcome("ok") \/ []<><<Closes>>_vars
    /\ <>[]~(storeUp /\ Asked) \/ []<><<Succeeds>>_vars

\* That an outage ends: what the fairness of Tick and of each Record gives by
\* counting down the cooldown and the failures of the calls that are still out,
\* a descent over numbers that takes an induction.
OutageEnds == <>[]storeUp => []<>(left = 0) /\ []<>~Outcome("failed")

\* With no failure left to record, nothing opens the breaker or lengthens its
\* cooldown; and no call fails at a store that answers.
LEMMA NoFailureLeft ==
  ASSUME TypeOK, [Next]_vars, ~Outcome("failed")
  PROVE  /\ storeUp => ~Outcome("failed")'
         /\ ~open => ~open'
         /\ left = 0 => left' = 0
  <1>1. \A q \in Requests : ~RecordFailed(q)
    BY DEF Outcome, RecordFailed
  <1>2. ~open => ~open'
    BY <1>1 DEF Next, AdmitClosed, AdmitProbe, AnswerOk, AnswerFailed, AnswerCancelled, Answer,
                RecordOk, RecordCancelled, StoreChanges, Tick, vars
  <1>3. left = 0 => left' = 0
    <2>1. CASE Tick
      BY <2>1 DEF Tick
    <2>2. CASE \E q \in Requests : RecordOk(q)
      BY <2>2 DEF RecordOk
    <2> QED
      BY <1>1, <2>1, <2>2
      DEF Next, AdmitClosed, AdmitProbe, AnswerOk, AnswerFailed, AnswerCancelled, Answer,
          RecordCancelled, StoreChanges, vars
  <1>4. ASSUME storeUp, NEW p \in Requests,
               calls'[p].at = "answered", calls'[p].answer = "failed"
        PROVE  FALSE
    <2>1. ~(calls[p].at = "answered" /\ calls[p].answer = "failed")
      BY DEF Outcome
    <2>2. CASE UNCHANGED calls
      BY <1>4, <2>1, <2>2
    <2>3. ASSUME NEW q \in Requests, NEW role \in {"regular", "probe"}, Ask(q, role)
          PROVE  FALSE
      BY <1>4, <2>1, <2>3 DEF Ask, TypeOK
    <2>4. ASSUME NEW q \in Requests, NEW answer \in {"ok", "cancelled"}, Answer(q, answer)
          PROVE  FALSE
      BY <1>4, <2>1, <2>4 DEF Answer, TypeOK
    <2>5. ASSUME NEW q \in Requests, Done(q)
          PROVE  FALSE
      BY <1>4, <2>1, <2>5 DEF Done, NoCall, TypeOK
    <2>6. CASE Tick
      BY <1>4, <2>1, <2>6 DEF Tick, TypeOK
    <2> QED
      BY <1>4, <2>2, <2>3, <2>4, <2>5, <2>6
      DEF Next, AdmitClosed, AdmitProbe, AnswerOk, AnswerFailed, AnswerCancelled,
          RecordOk, RecordFailed, RecordCancelled, StoreChanges, vars
  <1> QED BY <1>2, <1>3, <1>4 DEF Outcome

\* What a step does not take away: an answer until it is recorded, a request that
\* could ask until one does, a flag that is down until a probe puts it up.
LEMMA StepsKeep ==
  ASSUME TypeOK, [Next]_vars
  PROVE  /\ Outcome("ok") => Outcome("ok")' \/ Closes
         /\ SomeIdle => SomeIdle' \/ Admits
         /\ ~probing => ~probing' \/ Admits
  <1>1. ASSUME NEW p \in Requests, calls[p].at = "answered", calls[p].answer = "ok", ~Closes
        PROVE  calls'[p].at = "answered" /\ calls'[p].answer = "ok"
    <2>1. CASE UNCHANGED calls
      BY <1>1, <2>1
    <2>2. ASSUME NEW q \in Requests, NEW role \in {"regular", "probe"}, ~InFlight(q), Ask(q, role)
          PROVE  calls'[p] = calls[p]
      BY <1>1, <2>2 DEF Ask, InFlight, TypeOK
    <2>3. ASSUME NEW q \in Requests, NEW answer, Answer(q, answer)
          PROVE  calls'[p] = calls[p]
      BY <1>1, <2>3 DEF Answer, TypeOK
    <2>4. ASSUME NEW q \in Requests, RecordFailed(q) \/ RecordCancelled(q)
          PROVE  calls'[p] = calls[p]
      BY <1>1, <2>4 DEF RecordFailed, RecordCancelled, Done, TypeOK
    <2>5. CASE Tick
      BY <1>1, <2>5 DEF Tick, TypeOK
    <2> QED
      BY <1>1, <2>1, <2>2, <2>3, <2>4, <2>5
      DEF Next, AdmitClosed, AdmitProbe, AnswerOk, AnswerFailed, AnswerCancelled,
          Closes, StoreChanges, vars
  <1>2. ASSUME NEW p \in Requests, ~InFlight(p), ~Admits
        PROVE  ~InFlight(p)'
    <2>1. CASE UNCHANGED calls
      BY <1>2, <2>1 DEF InFlight
    <2>2. ASSUME NEW q \in Requests, NEW answer, Answer(q, answer)
          PROVE  calls'[p] = calls[p]
      BY <1>2, <2>2 DEF Answer, InFlight, TypeOK
    <2>3. ASSUME NEW q \in Requests, Done(q)
          PROVE  ~InFlight(p)'
      BY <1>2, <2>3 DEF Done, NoCall, InFlight, TypeOK
    <2>4. CASE Tick
      BY <1>2, <2>4 DEF Tick, InFlight, TypeOK
    <2> QED
      BY <1>2, <2>1, <2>2, <2>3, <2>4
      DEF Next, AnswerOk, AnswerFailed, AnswerCancelled, InFlight,
          RecordOk, RecordFailed, RecordCancelled, Admits, StoreChanges, vars
  <1>3. ~probing => ~probing' \/ Admits
    BY DEF Next, Admits, AnswerOk, AnswerFailed, AnswerCancelled, Answer,
           RecordOk, RecordFailed, RecordCancelled, StoreChanges, Tick, vars
  <1> QED BY <1>1, <1>2, <1>3 DEF Outcome, SomeIdle

\* Once the store answers for good, the breaker ends closed, whatever the cooldown
\* is (admit, record): an open one that has cooled finds its flag down or a probe
\* that will take it down, and the next probe brings the answer that closes it.
\* That the cooldown runs out is its hypothesis OutageEnds.
THEOREM BreakerRecovers ==
  ASSUME Requests # {} PROVE Spec /\ Schedules /\ OutageEnds => RecoveryCloses
  <1>1. TypeOK /\ [Next]_vars /\ ~Outcome("failed") =>
          /\ storeUp => ~Outcome("failed")'
          /\ ~open => ~open'
          /\ left = 0 => (left = 0)'
    BY NoFailureLeft
  <1>2. TypeOK /\ [Next]_vars =>
          /\ Outcome("ok") => Outcome("ok")' \/ <<Closes>>_vars
          /\ SomeIdle => SomeIdle' \/ <<Admits>>_vars
          /\ ~probing => ~probing' \/ <<Admits>>_vars
    <2>1. ASSUME UNCHANGED vars
          PROVE  (Outcome("ok") => Outcome("ok")') /\ (SomeIdle => SomeIdle')
                 /\ (~probing => ~probing')
      BY <2>1 DEF vars, Outcome, SomeIdle, InFlight
    <2> QED BY <2>1, StepsKeep
  <1>3. TypeOK /\ <<Succeeds>>_vars => Outcome("ok")'
    BY DEF TypeOK, Succeeds, AnswerOk, Answer, Outcome
  <1>4. <<Closes>>_vars => ~open'
    BY DEF Closes, RecordOk
  <1>5. TypeOK /\ <<Admits>>_vars => Asked'
    BY DEF TypeOK, Admits, AdmitClosed, AdmitProbe, Ask, Asked
  <1>6. TypeOK /\ <<Records>>_vars => ~probing' /\ SomeIdle'
    BY DEF TypeOK, Records, Record, RecordOk, RecordFailed, RecordCancelled, Done, NoCall,
           SomeIdle, InFlight
  <1>7. TypeOK /\ FlagHasProbe /\ probing /\ ~Asked => Answered
    BY DEF TypeOK, FlagHasProbe, IsProbe, InFlight, Asked, Answered
  <1>8. TypeOK /\ ~Asked /\ ~Answered => SomeIdle
    BY DEF TypeOK, Asked, Answered, SomeIdle, InFlight
  <1> QED
    BY <1>1, <1>2, <1>3, <1>4, <1>5, <1>6, <1>7, <1>8, TypeCorrect, FlagNeverLeaks, PTL
    DEF Spec, Schedules, OutageEnds, RecoveryCloses
=============================================================================
