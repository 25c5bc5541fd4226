------------------------ MODULE SettingsMirror_proofs ------------------------
(* What holds of the mirrors for any number of replicas, handlers and writes. *)
EXTENDS SettingsMirror, TLAPS

\* A PUT's query runs only between its write and its answer, and so returns
\* what the PUT wrote or something newer.
PutReadsItsWrite ==
    \A r \in Replicas, p \in Puts :
      reads[r][p] # 0 => /\ puts[r][p].at = "written"
                         /\ reads[r][p] >= puts[r][p].version

\* Once the reload of a PUT has stored with nothing older under way, its write is
\* in force, and no reload is under way that would take it back.
AppliedIsInForce ==
    \A r \in Replicas, p \in Puts :
      puts[r][p].at \in {"reloaded", "notified"} /\ puts[r][p].applied
        => /\ current[r] >= puts[r][p].version
           /\ \A l \in Loaders : reads[r][l] # 0 => reads[r][l] >= puts[r][p].version

IInv ==
    /\ TypeOK
    /\ ServingHasLifetimes
    /\ PutReadsItsWrite
    /\ AppliedIsInForce

\* The invariant holds before any replica has started.
LEMMA InitIInv == Init => IInv
  <1> SUFFICES ASSUME Init PROVE IInv
    OBVIOUS
  <1>1. TypeOK
    BY MirrorAssumption DEF Init, TypeOK, NoPut, Loaders
  <1>2. ServingHasLifetimes /\ PutReadsItsWrite /\ AppliedIsInForce
    BY DEF Init, ServingHasLifetimes, PutReadsItsWrite, AppliedIsInForce, NoPut, Loaders
  <1> QED BY <1>1, <1>2 DEF IInv

\* A query keeps the invariant whoever asks, provided a PUT asks after writing.
LEMMA ReadKeeps ==
  ASSUME IInv, NEW r \in Replicas, NEW l \in Loaders, ReadRow(r, l),
         l \in Puts => puts[r][l].at = "written",
         UNCHANGED <<row, refused, current, puts>>
  PROVE  /\ reads' \in [Replicas -> [Loaders -> 0..row']]
         /\ PutReadsItsWrite' /\ AppliedIsInForce'
  <1> USE DEF IInv, TypeOK
  <1>1. reads' \in [Replicas -> [Loaders -> 0..row']]
    BY DEF ReadRow
  <1>2. PutReadsItsWrite'
    <2> SUFFICES ASSUME NEW s \in Replicas, NEW p \in Puts, reads'[s][p] # 0
                 PROVE  puts[s][p].at = "written" /\ reads'[s][p] >= puts[s][p].version
      BY DEF PutReadsItsWrite
    <2>1. CASE s = r /\ p = l
      BY <2>1 DEF ReadRow, Loaders
    <2>2. CASE ~(s = r /\ p = l)
      <3>1. reads'[s][p] = reads[s][p]
        BY <2>2 DEF ReadRow, Loaders
      <3> QED BY <3>1 DEF PutReadsItsWrite
    <2> QED BY <2>1, <2>2
  <1>3. AppliedIsInForce'
    <2> SUFFICES ASSUME NEW s \in Replicas, NEW p \in Puts,
                        puts[s][p].at \in {"reloaded", "notified"}, puts[s][p].applied
                 PROVE  /\ current[s] >= puts[s][p].version
                        /\ \A m \in Loaders : reads'[s][m] # 0 => reads'[s][m] >= puts[s][p].version
      BY DEF AppliedIsInForce
    <2>1. puts[s][p].version \in 0..row
      OBVIOUS
    <2>2. \A m \in Loaders : reads'[s][m] = reads[s][m] \/ reads'[s][m] = row
      BY DEF ReadRow
    <2>3. row \in Int /\ puts[s][p].version \in Int /\ row >= puts[s][p].version
      BY <2>1
    <2>4. /\ current[s] >= puts[s][p].version
          /\ \A m \in Loaders : reads[s][m] # 0 => reads[s][m] >= puts[s][p].version
      BY DEF AppliedIsInForce
    <2> HIDE DEF IInv, TypeOK
    <2> QED BY <2>2, <2>3, <2>4
  <1> QED BY <1>1, <1>2, <1>3

\* What the end of a PUT's own reload leaves of its call.
LEMMA EndOfPut ==
  ASSUME TypeOK, NEW r \in Replicas, NEW l \in Puts, NEW ok \in BOOLEAN,
         ReloadEnds(r, l, ok)
  PROVE  /\ puts'[r][l].version = puts[r][l].version
         /\ puts'[r][l].applied <=> ok /\ ~OlderUnderWay(r, l)
  <1> DEFINE alone == ok /\ ~OlderUnderWay(r, l)
             Put == [at : {"idle", "written", "reloaded", "notified"},
                     version : 0..row, applied : BOOLEAN]
  <1>1. puts \in [Replicas -> [Puts -> Put]] /\ puts[r][l] \in Put
    BY DEF TypeOK
  <1>2. puts' = [puts EXCEPT ![r][l].at = "reloaded", ![r][l].applied = alone]
    BY DEF ReloadEnds
  <1> HIDE DEF alone
  <1>3. puts'[r][l] = [[puts[r][l] EXCEPT !.at = "reloaded"] EXCEPT !.applied = alone]
    BY <1>1, <1>2
  <1>4. puts'[r][l].version = puts[r][l].version /\ puts'[r][l].applied = alone
    BY <1>1, <1>3
  <1> QED BY <1>4 DEF alone

\* However a reload ends, the bookkeeping of its caller stays well typed.
LEMMA EndTyped ==
  ASSUME TypeOK, NEW r \in Replicas, NEW l \in Loaders, NEW ok \in BOOLEAN,
         ReloadEnds(r, l, ok), current' \in [Replicas -> 0..row]
  PROVE  TypeOK'
  <1>1. /\ row' \in 1..MaxVersion /\ refused' \subseteq 1..row'
        /\ current' \in [Replicas -> 0..row']
        /\ channel' \in [Replicas -> Seq(Replicas)] /\ since' \in [Replicas -> 0..row']
    BY DEF TypeOK, ReloadEnds
  <1>2. status' \in [Replicas -> {"down", "starting", "serving"}]
    BY DEF TypeOK, ReloadEnds
  <1>3. reads' \in [Replicas -> [Loaders -> 0..row']]
    BY DEF TypeOK, ReloadEnds
  <1>4. puts' \in [Replicas -> [Puts ->
                     [at : {"idle", "written", "reloaded", "notified"},
                      version : 0..row', applied : BOOLEAN]]]
    <2> DEFINE Put == [at : {"idle", "written", "reloaded", "notified"},
                       version : 0..row, applied : BOOLEAN]
    <2>1. puts \in [Replicas -> [Puts -> Put]] /\ row' = row
      BY DEF TypeOK, ReloadEnds
    <2>2. CASE l \notin Puts
      BY <2>1, <2>2 DEF ReloadEnds
    <2>3. CASE l \in Puts
      <3> DEFINE alone == ok /\ ~OlderUnderWay(r, l)
      <3>1. puts[r][l] \in Put /\ alone \in BOOLEAN
        BY <2>1, <2>3
      <3>2. [[puts[r][l] EXCEPT !.at = "reloaded"] EXCEPT !.applied = alone] \in Put
        BY <3>1
      <3>3. puts' = [puts EXCEPT ![r][l].at = "reloaded", ![r][l].applied = alone]
        BY <2>3 DEF ReloadEnds
      <3>4. \A s \in Replicas, p \in Puts :
              puts'[s][p] = IF s = r /\ p = l
                              THEN [[puts[r][l] EXCEPT !.at = "reloaded"] EXCEPT !.applied = alone]
                              ELSE puts[s][p]
        BY <2>1, <3>3 DEF TypeOK
      <3>5. puts' \in [Replicas -> [Puts -> Put]]
        <4>1. puts' = [s \in Replicas |-> puts'[s]]
          BY <2>1, <3>3
        <4>2. \A s \in Replicas : puts'[s] \in [Puts -> Put]
          <5> SUFFICES ASSUME NEW s \in Replicas PROVE puts'[s] \in [Puts -> Put]
            OBVIOUS
          <5>1. puts'[s] = [p \in Puts |-> puts'[s][p]]
            BY <2>1, <3>3
          <5>2. \A p \in Puts : puts'[s][p] \in Put
            <6> HIDE DEF Put
            <6> QED BY <2>1, <3>2, <3>4
          <5> QED BY <5>1, <5>2
        <4> QED BY <4>1, <4>2
      <3> QED BY <2>1, <3>5
    <2> QED BY <2>2, <2>3
  <1> QED BY <1>1, <1>2, <1>3, <1>4 DEF TypeOK

\* Storing a validated row keeps the invariant: no reload under way is behind a
\* write that is in force.
LEMMA StoreKeeps ==
  ASSUME IInv, NEW r \in Replicas, NEW l \in Loaders, StoreRow(r, l)
  PROVE  IInv'
  <1>1. TypeOK'
    <2>1. current' \in [Replicas -> 0..row] /\ ReloadEnds(r, l, TRUE)
      BY DEF IInv, TypeOK, StoreRow
    <2> QED BY <2>1, EndTyped DEF IInv
  <1> USE DEF IInv, TypeOK, StoreRow, ReloadEnds
  <1>2. ServingHasLifetimes'
    BY DEF ServingHasLifetimes, Validates
  <1>3. PutReadsItsWrite'
    <2> SUFFICES ASSUME NEW s \in Replicas, NEW p \in Puts, reads'[s][p] # 0
                 PROVE  puts'[s][p].at = "written" /\ reads'[s][p] >= puts'[s][p].version
      BY DEF PutReadsItsWrite
    <2>1. p \in Loaders
      BY DEF Loaders
    <2>2. ~(s = r /\ p = l)
      BY <2>1
    <2>3. reads'[s][p] = reads[s][p] /\ puts'[s][p] = puts[s][p]
      BY <2>1, <2>2
    <2> QED BY <2>3 DEF PutReadsItsWrite
  <1>4. /\ \A s \in Replicas, m \in Loaders :
             reads'[s][m] = IF s = r /\ m = l THEN 0 ELSE reads[s][m]
        /\ \A s \in Replicas : current'[s] = IF s = r THEN reads[r][l] ELSE current[s]
        /\ \A s \in Replicas, p \in Puts : ~(s = r /\ p = l) => puts'[s][p] = puts[s][p]
    OBVIOUS
  <1>5. ASSUME l \in Puts, puts'[r][l].applied
        PROVE  /\ puts'[r][l].version = puts[r][l].version
               /\ reads[r][l] >= puts[r][l].version
               /\ \A m \in Loaders \ {l} : reads[r][m] # 0 => reads[r][m] >= puts[r][l].version
    <2>1. puts'[r][l].version = puts[r][l].version /\ ~OlderUnderWay(r, l)
      BY <1>5, EndOfPut
    <2>2. reads[r][l] >= puts[r][l].version
      BY <1>5 DEF PutReadsItsWrite
    <2>3. puts[r][l].version \in Int /\ \A m \in Loaders : reads[r][m] \in Int
      BY <1>5
    <2> HIDE DEF IInv, TypeOK, StoreRow, ReloadEnds
    <2> QED BY <2>1, <2>2, <2>3 DEF OlderUnderWay
  <1>6. AppliedIsInForce /\ reads[r][l] # 0
    OBVIOUS
  <1> HIDE DEF IInv, TypeOK, StoreRow, ReloadEnds
  <1>7. AppliedIsInForce'
    <2> SUFFICES ASSUME NEW s \in Replicas, NEW p \in Puts,
                        puts'[s][p].at \in {"reloaded", "notified"}, puts'[s][p].applied
                 PROVE  /\ current'[s] >= puts'[s][p].version
                        /\ \A m \in Loaders : reads'[s][m] # 0 => reads'[s][m] >= puts'[s][p].version
      BY DEF AppliedIsInForce
    <2>1. CASE s = r /\ p = l
      BY <1>4, <1>5, <2>1
    <2>2. CASE ~(s = r /\ p = l)
      BY <1>4, <1>6, <2>2 DEF AppliedIsInForce
    <2> QED BY <2>1, <2>2
  <1> QED BY <1>1, <1>2, <1>3, <1>7 DEF IInv

\* A failed reload leaves the last good copy, so it keeps the invariant.
LEMMA FailKeeps ==
  ASSUME IInv, NEW r \in Replicas, NEW l \in Loaders, FailReload(r, l)
  PROVE  IInv'
  <1>1. TypeOK'
    <2>1. current' \in [Replicas -> 0..row] /\ ReloadEnds(r, l, FALSE)
      BY DEF IInv, TypeOK, FailReload
    <2> QED BY <2>1, EndTyped DEF IInv
  <1> USE DEF IInv, TypeOK, FailReload, ReloadEnds
  <1>2. ServingHasLifetimes'
    BY DEF ServingHasLifetimes
  <1>3. PutReadsItsWrite'
    <2> SUFFICES ASSUME NEW s \in Replicas, NEW p \in Puts, reads'[s][p] # 0
                 PROVE  puts'[s][p].at = "written" /\ reads'[s][p] >= puts'[s][p].version
      BY DEF PutReadsItsWrite
    <2>1. p \in Loaders
      BY DEF Loaders
    <2>2. ~(s = r /\ p = l)
      BY <2>1
    <2>3. reads'[s][p] = reads[s][p] /\ puts'[s][p] = puts[s][p]
      BY <2>1, <2>2
    <2> QED BY <2>3 DEF PutReadsItsWrite
  <1>4. /\ \A s \in Replicas, m \in Loaders : reads'[s][m] = reads[s][m] \/ reads'[s][m] = 0
        /\ \A s \in Replicas, p \in Puts : ~(s = r /\ p = l) => puts'[s][p] = puts[s][p]
        /\ l \in Puts => ~puts'[r][l].applied
    BY EndOfPut
  <1>5. AppliedIsInForce /\ current' = current
    OBVIOUS
  <1> HIDE DEF IInv, TypeOK, FailReload, ReloadEnds
  <1>6. AppliedIsInForce'
    BY <1>4, <1>5 DEF AppliedIsInForce
  <1> QED BY <1>1, <1>2, <1>3, <1>6 DEF IInv

\* Taking a message off a queue leaves a queue.
LEMMA Popped ==
  ASSUME TypeOK, NEW r \in Replicas, channel[r] # << >>
  PROVE  [channel EXCEPT ![r] = Tail(@)] \in [Replicas -> Seq(Replicas)]
  <1>1. channel[r] \in Seq(Replicas) /\ channel \in [Replicas -> Seq(Replicas)]
    BY DEF TypeOK
  <1>2. Tail(channel[r]) \in Seq(Replicas)
    BY <1>1
  <1> QED BY <1>1, <1>2

\* The steps that query: the rest of the state is as typed and as loaded.
LEMMA QueriesKeep ==
  ASSUME IInv, NEW r \in Replicas,
         \/ Start(r) \/ Tick(r) \/ Deliver(r)
         \/ \E p \in Puts : PutReload(r, p)
  PROVE  IInv'
  <1>1. PICK l \in Loaders :
          /\ ReadRow(r, l)
          /\ l \in Puts => puts[r][l].at = "written"
    BY MirrorAssumption DEF Start, Tick, Deliver, PutReload, Loaders
  <1>2. /\ UNCHANGED <<row, refused, current, puts, since>>
        /\ status' \in [Replicas -> {"down", "starting", "serving"}]
        /\ \A s \in Replicas : status'[s] = "serving" => status[s] = "serving"
    BY DEF Start, Tick, Deliver, PutReload, IInv, TypeOK
  <1>6. channel' \in [Replicas -> Seq(Replicas)]
    <2>1. CASE Deliver(r)
      BY <2>1, Popped DEF Deliver, IInv
    <2> QED BY <2>1 DEF Start, Tick, PutReload, IInv, TypeOK
  <1>3. /\ reads' \in [Replicas -> [Loaders -> 0..row']]
        /\ PutReadsItsWrite' /\ AppliedIsInForce'
    BY <1>1, <1>2, ReadKeeps
  <1>4. TypeOK'
    BY <1>2, <1>3, <1>6 DEF IInv, TypeOK
  <1>5. ServingHasLifetimes'
    BY <1>2 DEF IInv, ServingHasLifetimes
  <1> QED BY <1>3, <1>4, <1>5 DEF IInv

\* The steps that only move messages and subscriptions.
LEMMA SignalsKeep ==
  ASSUME IInv, NEW r \in Replicas, Subscribe(r) \/ Drop(r) \/ SkipEcho(r)
  PROVE  IInv'
  <1>1. /\ UNCHANGED <<row, refused, status, current, reads, puts>>
        /\ channel' \in [Replicas -> Seq(Replicas)]
        /\ since' \in [Replicas -> 0..row]
    <2>1. CASE Subscribe(r)
      BY <2>1 DEF Subscribe, IInv, TypeOK
    <2>2. CASE Drop(r)
      BY <2>2 DEF Drop, IInv, TypeOK
    <2>3. CASE SkipEcho(r)
      BY <2>3, Popped DEF SkipEcho, IInv, TypeOK
    <2> QED BY <2>1, <2>2, <2>3
  <1> QED BY <1>1 DEF IInv, TypeOK, ServingHasLifetimes, PutReadsItsWrite,
                      AppliedIsInForce

\* A crash forgets everything the replica held in memory.
LEMMA CrashKeeps ==
  ASSUME IInv, NEW r \in Replicas, Crash(r)
  PROVE  IInv'
  <1> USE DEF IInv, Crash
  <1>1. TypeOK'
    BY DEF TypeOK, NoPut
  <1>2. ServingHasLifetimes'
    BY DEF TypeOK, ServingHasLifetimes
  <1>3. /\ \A l \in Loaders : reads'[r][l] = 0
        /\ \A p \in Puts : puts'[r][p] = NoPut
        /\ \A s \in Replicas : s # r => reads'[s] = reads[s] /\ puts'[s] = puts[s]
                                        /\ current'[s] = current[s]
    BY DEF TypeOK
  <1>4. PutReadsItsWrite' /\ AppliedIsInForce'
    <2>1. PutReadsItsWrite'
      <3> SUFFICES ASSUME NEW s \in Replicas, NEW p \in Puts, reads'[s][p] # 0
                   PROVE  puts'[s][p].at = "written" /\ reads'[s][p] >= puts'[s][p].version
        BY DEF PutReadsItsWrite
      <3>1. s # r
        BY <1>3 DEF Loaders
      <3>2. reads'[s] = reads[s] /\ puts'[s] = puts[s]
        BY <1>3, <3>1
      <3> QED BY <3>2 DEF PutReadsItsWrite
    <2>2. AppliedIsInForce'
      BY <1>3 DEF AppliedIsInForce, NoPut
    <2> QED BY <2>1, <2>2
  <1> HIDE DEF IInv, Crash
  <1> QED BY <1>1, <1>2, <1>4 DEF IInv

\* A write starts a PUT that has neither queried nor applied anything; written
\* by hand or without an answer it starts none.
LEMMA WritesKeep ==
  ASSUME IInv,
         \/ \E r \in Replicas, p \in Puts : PutWrite(r, p) \/ PutWriteUnanswered(r, p)
         \/ HandEdit
  PROVE  IInv'
  <1>1. /\ row' = row + 1 /\ row' \in 1..MaxVersion
        /\ UNCHANGED <<status, current, reads, channel, since>>
        /\ refused' \subseteq refused \cup {row + 1}
    BY MirrorAssumption DEF PutWrite, PutWriteUnanswered, HandEdit, IInv, TypeOK
  <1>2. ServingHasLifetimes'
    BY <1>1 DEF IInv, TypeOK, ServingHasLifetimes
  <1>3. CASE UNCHANGED puts
    <2>1. TypeOK'
      BY <1>1, <1>3 DEF IInv, TypeOK
    <2> QED BY <1>1, <1>2, <1>3, <2>1
            DEF IInv, PutReadsItsWrite, AppliedIsInForce
  <1>4. ASSUME NEW r \in Replicas, NEW p \in Puts, PutWrite(r, p)
        PROVE  IInv'
    <2> DEFINE new == [at |-> "written", version |-> row + 1, applied |-> FALSE]
    <2>1. /\ puts[r][p].at = "idle"
          /\ puts' = [puts EXCEPT ![r][p] = new]
      BY <1>4 DEF PutWrite
    <2>2. TypeOK'
      BY <1>1, <2>1 DEF IInv, TypeOK
    <2>3. \A s \in Replicas, q \in Puts :
            puts'[s][q] = IF s = r /\ q = p THEN new ELSE puts[s][q]
      BY <2>1 DEF IInv, TypeOK
    <2>4. reads[r][p] = 0
      BY <2>1 DEF IInv, PutReadsItsWrite
    <2>5. PutReadsItsWrite'
      BY <1>1, <2>3, <2>4 DEF IInv, PutReadsItsWrite
    <2>6. AppliedIsInForce'
      BY <1>1, <2>3 DEF IInv, AppliedIsInForce
    <2> QED BY <1>2, <2>2, <2>5, <2>6 DEF IInv
  <1> QED BY <1>3, <1>4 DEF PutWriteUnanswered, HandEdit

\* Notifying and answering leave the mirror alone.
LEMMA AnswersKeep ==
  ASSUME IInv, NEW r \in Replicas, NEW p \in Puts, PutNotify(r, p) \/ PutAnswer(r, p)
  PROVE  IInv'
  <1>1. UNCHANGED <<row, refused, status, current, reads, since>>
    BY DEF PutNotify, PutAnswer
  <1>2. channel' \in [Replicas -> Seq(Replicas)]
    <2>1. Published(r) \in [Replicas -> Seq(Replicas)]
      BY DEF Published, IInv, TypeOK
    <2> QED BY <2>1 DEF PutNotify, PutAnswer, IInv, TypeOK
  <1>3. puts[r][p].at \in {"reloaded", "notified"}
    BY DEF PutNotify, PutAnswer
  <1>4. /\ puts' \in [Replicas -> [Puts ->
                     [at : {"idle", "written", "reloaded", "notified"},
                      version : 0..row', applied : BOOLEAN]]]
        /\ \A s \in Replicas, q \in Puts :
             ~(s = r /\ q = p) => puts'[s][q] = puts[s][q]
        /\ \/ puts'[r][p] = NoPut
           \/ puts'[r][p] = [puts[r][p] EXCEPT !.at = "notified"]
    <2>1. CASE PutNotify(r, p)
      <3> DEFINE Put == [at : {"idle", "written", "reloaded", "notified"},
                         version : 0..row, applied : BOOLEAN]
      <3>1. puts \in [Replicas -> [Puts -> Put]] /\ row' = row
        BY <1>1 DEF IInv, TypeOK
      <3>2. [puts[r][p] EXCEPT !.at = "notified"] \in Put
        BY <3>1
      <3>3. puts' = [puts EXCEPT ![r][p] = [puts[r][p] EXCEPT !.at = "notified"]]
        BY <2>1 DEF PutNotify
      <3>4. /\ puts' \in [Replicas -> [Puts -> Put]]
            /\ puts'[r][p] = [puts[r][p] EXCEPT !.at = "notified"]
            /\ \A s \in Replicas, q \in Puts :
                 ~(s = r /\ q = p) => puts'[s][q] = puts[s][q]
        <4> HIDE DEF Put
        <4> QED BY <3>1, <3>2, <3>3
      <3> QED BY <3>1, <3>4
    <2>2. CASE PutAnswer(r, p)
      BY <2>2, <1>1 DEF PutAnswer, NoPut, IInv, TypeOK
    <2> QED BY <2>1, <2>2
  <1>5. TypeOK'
    BY <1>1, <1>2, <1>4 DEF IInv, TypeOK
  <1>6. ServingHasLifetimes'
    BY <1>1 DEF IInv, ServingHasLifetimes
  <1>7. PutReadsItsWrite'
    <2>1. reads[r][p] = 0
      BY <1>3 DEF IInv, PutReadsItsWrite
    <2> QED BY <1>1, <1>4, <2>1 DEF IInv, PutReadsItsWrite
  <1>8. AppliedIsInForce'
    <2> SUFFICES ASSUME NEW s \in Replicas, NEW q \in Puts,
                        puts'[s][q].at \in {"reloaded", "notified"}, puts'[s][q].applied
                 PROVE  /\ current[s] >= puts'[s][q].version
                        /\ \A l \in Loaders : reads[s][l] # 0 => reads[s][l] >= puts'[s][q].version
      BY <1>1 DEF AppliedIsInForce
    <2>1. /\ puts[s][q].at \in {"reloaded", "notified"} /\ puts[s][q].applied
          /\ puts'[s][q].version = puts[s][q].version
      <3>1. CASE ~(s = r /\ q = p)
        BY <1>4, <3>1
      <3>2. CASE s = r /\ q = p
        <4>1. puts'[r][p] # NoPut
          BY <3>2 DEF NoPut
        <4>2. puts[r][p] \in [at : {"idle", "written", "reloaded", "notified"},
                              version : 0..row, applied : BOOLEAN]
          BY DEF IInv, TypeOK
        <4> QED BY <1>3, <1>4, <3>2, <4>1, <4>2
      <3> QED BY <3>1, <3>2
    <2> QED BY <2>1 DEF IInv, AppliedIsInForce
  <1> QED BY <1>5, <1>6, <1>7, <1>8 DEF IInv

\* Every step keeps the invariant.
LEMMA StepIInv == IInv /\ [Next]_vars => IInv'
  <1> SUFFICES ASSUME IInv, [Next]_vars PROVE IInv'
    OBVIOUS
  <1>1. CASE UNCHANGED vars
    BY <1>1 DEF vars, IInv, TypeOK, ServingHasLifetimes, PutReadsItsWrite,
                AppliedIsInForce
  <1>2. CASE HandEdit
    BY <1>2, WritesKeep
  <1>3. ASSUME NEW r \in Replicas, Start(r) \/ Tick(r) \/ Deliver(r) PROVE IInv'
    BY <1>3, QueriesKeep
  <1>4. ASSUME NEW r \in Replicas, Subscribe(r) \/ Drop(r) \/ SkipEcho(r) PROVE IInv'
    BY <1>4, SignalsKeep
  <1>5. ASSUME NEW r \in Replicas, Crash(r) PROVE IInv'
    BY <1>5, CrashKeeps
  <1>6. ASSUME NEW r \in Replicas, NEW l \in Loaders, StoreRow(r, l) \/ FailReload(r, l)
        PROVE  IInv'
    BY <1>6, StoreKeeps, FailKeeps
  <1>7. ASSUME NEW r \in Replicas, NEW p \in Puts,
               PutWrite(r, p) \/ PutWriteUnanswered(r, p)
        PROVE  IInv'
    BY <1>7, WritesKeep
  <1>8. ASSUME NEW r \in Replicas, NEW p \in Puts, PutReload(r, p) PROVE IInv'
    BY <1>8, QueriesKeep
  <1>9. ASSUME NEW r \in Replicas, NEW p \in Puts, PutNotify(r, p) \/ PutAnswer(r, p)
        PROVE  IInv'
    BY <1>9, AnswersKeep
  <1> QED BY <1>1, <1>2, <1>3, <1>4, <1>5, <1>6, <1>7, <1>8, <1>9 DEF Next

\* Every reachable state satisfies the inductive invariant.
THEOREM Invariant == Spec => []IInv
  BY InitIInv, StepIInv, PTL DEF Spec

\* The variables keep their types.
THEOREM TypeCorrect == Spec => []TypeOK
  <1>1. IInv => TypeOK
    BY DEF IInv
  <1> QED BY <1>1, Invariant, PTL

\* A serving replica has validated lifetimes, whatever fails and however its
\* reloads overlap (startTokenLifetimesMirror, Reload).
THEOREM AlwaysLoaded == Spec => []ServingHasLifetimes
  <1>1. IInv => ServingHasLifetimes
    BY DEF IInv
  <1> QED BY <1>1, Invariant, PTL

\* However the reloads of a replica overlap, a PUT whose own reload stored with no
\* query of before its write under way answers only once its replica issues with
\* what it wrote, or with something newer (applyLocally).
THEOREM OwnWriteFirst == Spec => []OwnWriteAppliesBeforeAnswer
  <1>1. IInv => OwnWriteAppliesBeforeAnswer
    BY DEF IInv, AppliedIsInForce, OwnWriteAppliesBeforeAnswer
  <1> QED BY <1>1, Invariant, PTL

\* While the row stays what it is, every step of the mirror's replica but a
\* crash is a query of that row, its end, or none.
LEMMA RowStands ==
    ASSUME TypeOK, [Next]_vars, UNCHANGED row, NEW r \in Replicas
    PROVE  /\ UNCHANGED refused
           /\ \A l \in Loaders : reads'[r][l] \in {reads[r][l], 0, row}
           /\ \/ current'[r] = current[r]
              \/ status'[r] = "down"
              \/ \E l \in Loaders : reads[r][l] # 0 /\ current'[r] = reads[r][l]
<1> USE DEF TypeOK
<1>1. CASE UNCHANGED <<reads, current, refused>>
  BY <1>1
<1>2. ASSUME NEW s \in Replicas, NEW l \in Loaders, ReadRow(s, l)
      PROVE  \A m \in Loaders : reads'[r][m] \in {reads[r][m], row}
  BY <1>2 DEF ReadRow
<1>3. ASSUME NEW s \in Replicas, Start(s) \/ Tick(s) \/ Deliver(s)
      PROVE  /\ UNCHANGED <<refused, current>>
             /\ \A m \in Loaders : reads'[r][m] \in {reads[r][m], row}
  BY <1>2, <1>3 DEF Start, Tick, Deliver, Loaders
<1>4. ASSUME NEW s \in Replicas, NEW p \in Puts, PutReload(s, p)
      PROVE  /\ UNCHANGED <<refused, current>>
             /\ \A m \in Loaders : reads'[r][m] \in {reads[r][m], row}
  BY <1>2, <1>4 DEF PutReload, Loaders
<1>5. ASSUME NEW s \in Replicas, NEW l \in Loaders, StoreRow(s, l) \/ FailReload(s, l)
      PROVE  /\ UNCHANGED refused
             /\ \A m \in Loaders : reads'[r][m] \in {reads[r][m], 0}
             /\ \/ current'[r] = current[r]
                \/ reads[r][l] # 0 /\ current'[r] = reads[r][l]
  <2>1. reads' = [reads EXCEPT ![s][l] = 0] /\ UNCHANGED refused
    BY <1>5 DEF StoreRow, FailReload, ReloadEnds
  <2>2. \/ current' = current
        \/ reads[s][l] # 0 /\ current' = [current EXCEPT ![s] = reads[s][l]]
    BY <1>5 DEF StoreRow, FailReload
  <2> QED
    BY <2>1, <2>2
<1>6. ASSUME NEW s \in Replicas, Crash(s)
      PROVE  /\ UNCHANGED refused
             /\ \A m \in Loaders : reads'[r][m] \in {reads[r][m], 0}
             /\ current'[r] = current[r] \/ status'[r] = "down"
  BY <1>6 DEF Crash
<1>7. ~HandEdit
  BY DEF HandEdit
<1> QED
  BY <1>1, <1>3, <1>4, <1>5, <1>6, <1>7
  DEF Next, vars, Subscribe, Drop, SkipEcho, PutWrite, PutWriteUnanswered, PutNotify, PutAnswer

\* A mirror that has caught up stays so while the row stands and it serves: no
\* reload, failed reload or signal of any replica takes it back (Reload).
THEOREM CaughtUpIsKept == Spec => CaughtUpStays
<1> DEFINE Kept == \A r \in Replicas :
      CaughtUp(r) /\ row' = row /\ status'[r] = "serving" => CaughtUp(r)'
<1>1. TypeOK /\ [Next]_vars => [Kept]_vars
  <2> SUFFICES ASSUME TypeOK, [Next]_vars, NEW r \in Replicas,
                      CaughtUp(r), row' = row, status'[r] = "serving"
               PROVE  CaughtUp(r)'
    OBVIOUS
  <2> QED
    BY RowStands DEF CaughtUp, NothingStale
<1>2. CaughtUpStays <=> [][Kept]_vars
  BY DEF CaughtUpStays
<1> HIDE DEF Kept
<1> QED
  BY <1>1, <1>2, TypeCorrect, PTL DEF Spec

-----------------------------------------------------------------------------
(* The ticker repairs a mirror once nobody writes the row any more.           *)

Reading(r) == ~(reads[r]["ticker"] = 0)

\* TickerFairness(r), with the guard of each action in the place of ENABLED.
Schedules(r) ==
    /\ []<>~(status[r] = "serving" /\ ~Reading(r)) \/ []<><<Tick(r)>>_vars
    /\ \/ <>[]~(Reading(r) /\ Validates(reads[r]["ticker"]))
       \/ []<><<StoreRow(r, "ticker")>>_vars

WritesEnd == <>[][UNCHANGED row]_vars

\* The queries of before a write end: what Progress gives once the row stands, by
\* counting off the queries that are older.
OldQueriesEnd(r) == []<>NothingStale(r)

\* A replica that stays up ends with the row it can validate, whichever signals
\* are lost and however its reloads overlap: once the queries that were under
\* way at the last write have ended, the ticker's next success is final (Reload).
THEOREM MirrorsConverge ==
    Spec /\ WritesEnd /\ (\A r \in Replicas : OldQueriesEnd(r) /\ Schedules(r))
        => TickerConverges
<1>1. ASSUME NEW r \in Replicas
      PROVE  Spec /\ WritesEnd /\ OldQueriesEnd(r) /\ Schedules(r) =>
               (<>[](status[r] = "serving") => <>[](current[r] = row \/ row \in refused))
  <2>1. TypeOK /\ [Next]_vars /\ [UNCHANGED row]_vars =>
          /\ NothingStale(r) => NothingStale(r)'
          /\ row \in refused => (row \in refused)'
          /\ NothingStale(r) /\ current[r] = row /\ (status[r] = "serving")'
               => (current[r] = row)'
    <3> SUFFICES ASSUME TypeOK, [Next]_vars, UNCHANGED row
                 PROVE  /\ NothingStale(r) => NothingStale(r)'
                        /\ row \in refused => (row \in refused)'
                        /\ NothingStale(r) /\ current[r] = row /\ (status[r] = "serving")'
                             => (current[r] = row)'
      BY DEF vars
    <3> QED
      BY RowStands DEF NothingStale
  <2>2. <<Tick(r)>>_vars /\ TypeOK => Reading(r)'
    BY DEF Tick, ReadRow, Reading, TypeOK, Loaders
  <2>3. NothingStale(r) /\ Reading(r) /\ ~(row \in refused)
          => Reading(r) /\ Validates(reads[r]["ticker"])
    BY DEF NothingStale, Reading, Validates, Loaders
  <2>4. TypeOK /\ NothingStale(r) /\ <<StoreRow(r, "ticker")>>_vars => (current[r] = row)'
    BY DEF TypeOK, NothingStale, StoreRow, ReloadEnds, Loaders
  <2> QED
    BY <2>1, <2>2, <2>3, <2>4, TypeCorrect, PTL DEF Spec, WritesEnd, OldQueriesEnd, Schedules
<1> QED
  BY <1>1 DEF TickerConverges
=============================================================================
