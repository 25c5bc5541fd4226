--------------------------- MODULE SettingsMirror ---------------------------
(* The in-memory mirror of one database row on every replica: the token       *)
(* lifetimes of usecase/token_lifetimes_mirror.go.  (The rate-limit rules     *)
(* are mirrored by the same mechanism.)  A reload is two steps, the query     *)
(* and the atomic Store, and up to four goroutines of a replica may be        *)
(* between the two at once: the first load, the ticker, the change watcher    *)
(* and every PUT.                                                             *)
(*                                                                            *)
(* The row is abstracted to its version: the number of writes it has had.     *)
(* Versions start at 1 (the seeding migration); 0 is "nothing".               *)
EXTENDS Integers, Sequences, FiniteSets

CONSTANTS
    Replicas,      \* the processes of the service
    Puts,          \* handler goroutines serving PUT /auth/token_lifetimes
    Watching,      \* a cache is configured, so there is a change notifier
    Faults,        \* what may go wrong, a subset of AllFaults
    MaxVersion     \* bound on the writes to the row

AllFaults == {"crash", "drop", "fail", "handEdit"}

ASSUME MirrorAssumption ==
    /\ Puts \cap {"first", "ticker", "watcher"} = {}
    /\ Watching \in BOOLEAN
    /\ Faults \subseteq AllFaults
    /\ MaxVersion \in Nat \ {0}

VARIABLES
    row,       \* version of the authn_token_lifetimes row
    refused,   \* versions domain Validate refuses: only a hand edit makes one
    status,    \* per replica: "down", "starting" (first load), "serving"
    current,   \* per replica: the version TokenLifetimes.current points at
    reads,     \* per replica and loader: the version its query returned
    puts,      \* per replica and handler: where its Update call is
    channel,   \* per replica: messages its subscription has not handled
    since      \* per replica: row version when it subscribed, 0 if it is not

vars == <<row, refused, status, current, reads, puts, channel, since>>

Loaders == {"first", "ticker", "watcher"} \cup Puts

\* A PUT's call: how far it is, the version it wrote, and whether its own reload
\* stored the row with no other query of before its write still under way.
NoPut == [at |-> "idle", version |-> 0, applied |-> FALSE]

TypeOK ==
    /\ row \in 1..MaxVersion
    /\ refused \subseteq 1..row
    /\ status \in [Replicas -> {"down", "starting", "serving"}]
    /\ current \in [Replicas -> 0..row]
    /\ reads \in [Replicas -> [Loaders -> 0..row]]
    /\ puts \in [Replicas -> [Puts ->
         [at : {"idle", "written", "reloaded", "notified"},
          version : 0..row, applied : BOOLEAN]]]
    /\ channel \in [Replicas -> Seq(Replicas)]
    /\ since \in [Replicas -> 0..row]

Init ==
    /\ row = 1
    /\ refused = {}
    /\ status = [r \in Replicas |-> "down"]
    /\ current = [r \in Replicas |-> 0]
    /\ reads = [r \in Replicas |-> [l \in Loaders |-> 0]]
    /\ puts = [r \in Replicas |-> [p \in Puts |-> NoPut]]
    /\ channel = [r \in Replicas |-> << >>]
    /\ since = [r \in Replicas |-> 0]

Subscribed(r) == since[r] # 0

-----------------------------------------------------------------------------
(* Reload: the query, then Validate and Store.                                *)

\* The query of a reload answers with the row as it is now.
ReadRow(r, l) ==
    /\ reads[r][l] = 0
    /\ reads' = [reads EXCEPT ![r][l] = row]

\* Another query of r under way answered before l's PUT had written.
OlderUnderWay(r, l) ==
    \E k \in Loaders \ {l} : reads[r][k] # 0 /\ reads[r][k] < puts[r][l].version

\* (fault) the caller does not look at the error of its reload.
ReloadEndsUnchecked(r, l, ok) ==
    /\ reads' = [reads EXCEPT ![r][l] = 0]
    /\ status' = IF l = "first" THEN [status EXCEPT ![r] = "serving"] ELSE status
    /\ puts' = IF l \in Puts
                 THEN [puts EXCEPT ![r][l].at = "reloaded", ![r][l].applied = TRUE]
                 ELSE puts
    /\ UNCHANGED <<row, refused, channel, since>>

\* How a reload's caller goes on: the first load lets the replica serve or
\* refuses to start it; a PUT goes on to notify either way.
ReloadEnds(r, l, ok) ==
    /\ reads' = [reads EXCEPT ![r][l] = 0]
    /\ status' = IF l = "first"
                   THEN [status EXCEPT ![r] = IF ok THEN "serving" ELSE "down"]
                   ELSE status
    /\ puts' = IF l \in Puts
                 THEN [puts EXCEPT
                         ![r][l].at = "reloaded",
                         ![r][l].applied = ok /\ ~OlderUnderWay(r, l)]
                 ELSE puts
    /\ UNCHANGED <<row, refused, channel, since>>

Validates(version) == version \notin refused

StoreRow(r, l) ==
    /\ reads[r][l] # 0
    /\ Validates(reads[r][l])
    /\ current' = [current EXCEPT ![r] = reads[r][l]]
    /\ ReloadEnds(r, l, TRUE)

\* (fault) a failed reload falls back to the lifetimes the migration seeded.
FailReloadToDefaults(r, l) ==
    /\ reads[r][l] # 0
    /\ "fail" \in Faults \/ ~Validates(reads[r][l])
    /\ current' = [current EXCEPT ![r] = 1]
    /\ ReloadEnds(r, l, FALSE)

\* The query failed or the row does not validate: the last good copy stays.
FailReload(r, l) ==
    /\ reads[r][l] # 0
    /\ "fail" \in Faults \/ ~Validates(reads[r][l])
    /\ current' = current
    /\ ReloadEnds(r, l, FALSE)

-----------------------------------------------------------------------------
(* The life of a replica and of its subscription.                             *)

Start(r) ==
    /\ status[r] = "down"
    /\ ReadRow(r, "first")
    /\ status' = [status EXCEPT ![r] = "starting"]
    /\ UNCHANGED <<row, refused, current, puts, channel, since>>

\* (fault) a subscribed replica leaves its refreshing to the signals.
TickUnsubscribed(r) ==
    /\ ~Subscribed(r)
    /\ status[r] = "serving"
    /\ ReadRow(r, "ticker")
    /\ UNCHANGED <<row, refused, status, current, puts, channel, since>>

Tick(r) ==
    /\ status[r] = "serving"
    /\ ReadRow(r, "ticker")
    /\ UNCHANGED <<row, refused, status, current, puts, channel, since>>

Crash(r) ==
    /\ "crash" \in Faults
    /\ status[r] # "down"
    /\ status' = [status EXCEPT ![r] = "down"]
    /\ current' = [current EXCEPT ![r] = 0]
    /\ reads' = [reads EXCEPT ![r] = [l \in Loaders |-> 0]]
    /\ puts' = [puts EXCEPT ![r] = [p \in Puts |-> NoPut]]
    /\ channel' = [channel EXCEPT ![r] = << >>]
    /\ since' = [since EXCEPT ![r] = 0]
    /\ UNCHANGED <<row, refused>>

Subscribe(r) ==
    /\ Watching
    /\ status[r] = "serving"
    /\ ~Subscribed(r)
    /\ since' = [since EXCEPT ![r] = row]
    /\ UNCHANGED <<row, refused, status, current, reads, puts, channel>>

\* The connection fails: what was under way to this replica is lost, and
\* nothing is delivered until Watch has subscribed again.
Drop(r) ==
    /\ "drop" \in Faults
    /\ Subscribed(r)
    /\ since' = [since EXCEPT ![r] = 0]
    /\ channel' = [channel EXCEPT ![r] = << >>]
    /\ UNCHANGED <<row, refused, status, current, reads, puts>>

\* The callback of Receive on another replica's message: reload.  Messages are
\* handled one at a time, so the next waits until this reload has ended.
Deliver(r) ==
    /\ channel[r] # << >>
    /\ Head(channel[r]) # r
    /\ ReadRow(r, "watcher")
    /\ channel' = [channel EXCEPT ![r] = Tail(@)]
    /\ UNCHANGED <<row, refused, status, current, puts, since>>

\* ... and on the replica's own message: return.
SkipEcho(r) ==
    /\ channel[r] # << >>
    /\ Head(channel[r]) = r
    /\ reads[r]["watcher"] = 0
    /\ channel' = [channel EXCEPT ![r] = Tail(@)]
    /\ UNCHANGED <<row, refused, status, current, reads, puts, since>>

-----------------------------------------------------------------------------
(* Update: write, reload this replica's mirror, tell the others, answer.      *)

\* (fault) an UPDATE that matched no row is reported as a write.
PutWriteMissed(r, p) ==
    /\ status[r] = "serving"
    /\ puts[r][p].at = "idle"
    /\ row < MaxVersion
    /\ row' = row
    /\ puts' = [puts EXCEPT ![r][p] =
                  [at |-> "written", version |-> row + 1, applied |-> FALSE]]
    /\ UNCHANGED <<refused, status, current, reads, channel, since>>

PutWrite(r, p) ==
    /\ status[r] = "serving"
    /\ puts[r][p].at = "idle"
    /\ row < MaxVersion
    /\ row' = row + 1
    /\ puts' = [puts EXCEPT ![r][p] =
                  [at |-> "written", version |-> row + 1, applied |-> FALSE]]
    /\ UNCHANGED <<refused, status, current, reads, channel, since>>

\* The statement commits and its answer is lost: Update returns the error, and
\* neither reloads nor notifies.
PutWriteUnanswered(r, p) ==
    /\ "fail" \in Faults
    /\ status[r] = "serving"
    /\ puts[r][p].at = "idle"
    /\ row < MaxVersion
    /\ row' = row + 1
    /\ UNCHANGED <<refused, status, current, reads, puts, channel, since>>

\* (fault) a PUT's reload joins the ticker's query when one is under way.
PutReloadJoining(r, p) ==
    /\ puts[r][p].at = "written"
    /\ reads[r][p] = 0
    /\ reads' = [reads EXCEPT ![r][p] =
                    IF reads[r]["ticker"] # 0 THEN reads[r]["ticker"] ELSE row]
    /\ UNCHANGED <<row, refused, status, current, puts, channel, since>>

PutReload(r, p) ==
    /\ puts[r][p].at = "written"
    /\ ReadRow(r, p)
    /\ UNCHANGED <<row, refused, status, current, puts, channel, since>>

\* Notify publishes this replica's id to whoever is subscribed, itself
\* included.  Without a notifier, or when publishing fails, nobody hears.
Published(r) ==
    [s \in Replicas |-> IF Subscribed(s) THEN Append(channel[s], r) ELSE channel[s]]

PutNotify(r, p) ==
    /\ puts[r][p].at = "reloaded"
    /\ puts' = [puts EXCEPT ![r][p].at = "notified"]
    /\ \/ Watching /\ channel' = Published(r)
       \/ (~Watching \/ "fail" \in Faults) /\ channel' = channel
    /\ UNCHANGED <<row, refused, status, current, reads, since>>

PutAnswer(r, p) ==
    /\ puts[r][p].at = "notified"
    /\ puts' = [puts EXCEPT ![r][p] = NoPut]
    /\ UNCHANGED <<row, refused, status, current, reads, channel, since>>

\* Somebody edits the row by hand, or a release narrows the bounds.
HandEdit ==
    /\ "handEdit" \in Faults
    /\ row < MaxVersion
    /\ row' = row + 1
    /\ refused' = refused \cup {row + 1}
    /\ UNCHANGED <<status, current, reads, puts, channel, since>>

-----------------------------------------------------------------------------
Next ==
    \/ \E r \in Replicas :
         \/ Start(r) \/ Tick(r) \/ Crash(r)
         \/ Subscribe(r) \/ Drop(r) \/ Deliver(r) \/ SkipEcho(r)
         \/ \E l \in Loaders : StoreRow(r, l) \/ FailReload(r, l)
         \/ \E p \in Puts : \/ PutWrite(r, p) \/ PutWriteUnanswered(r, p)
                            \/ PutReload(r, p) \/ PutNotify(r, p) \/ PutAnswer(r, p)
    \/ HandEdit

Spec == Init /\ [][Next]_vars

\* Every query ends, in an answer or in its timeout (maxQueryTimeout), and a
\* goroutine that can go on does.
Progress(r) ==
    /\ \A l \in Loaders : WF_vars(StoreRow(r, l) \/ FailReload(r, l))
    /\ \A p \in Puts : WF_vars(PutReload(r, p)) /\ WF_vars(PutNotify(r, p))
    /\ WF_vars(Deliver(r)) /\ WF_vars(SkipEcho(r))

\* The ticker ticks for ever, and the database answers it now and again.
TickerFairness(r) == WF_vars(Tick(r)) /\ SF_vars(StoreRow(r, "ticker"))

FairSpec == Spec /\ \A r \in Replicas : Progress(r) /\ TickerFairness(r)

-----------------------------------------------------------------------------
\* A serving replica has lifetimes to issue with, and never ones Validate
\* refuses: the first load is fatal and a failed reload keeps the last good
\* copy (startTokenLifetimesMirror, Reload).
ServingHasLifetimes ==
    \A r \in Replicas :
      /\ status[r] = "serving" => current[r] # 0
      /\ current[r] \notin refused

\* A PUT whose reload stored the row while no other query of before its write was under
\* way answers only when this replica issues with what it wrote or with something
\* newer, however reloads overlap after it (applyLocally).
OwnWriteAppliesBeforeAnswer ==
    \A r \in Replicas, p \in Puts :
      puts[r][p].at = "notified" /\ puts[r][p].applied
        => current[r] >= puts[r][p].version

\* No query of r under way has an older row than the table's.
NothingStale(r) == \A l \in Loaders : reads[r][l] \in {0, row}

CaughtUp(r) == current[r] = row /\ NothingStale(r)

\* A mirror that issues with the row, with no query of an older one under way, goes
\* on issuing with it until somebody writes it: no reload of any goroutine, and no
\* failure of one, takes it back ("keep the last good copy": Reload).
CaughtUpStays ==
    [][\A r \in Replicas :
         CaughtUp(r) /\ row' = row /\ status'[r] = "serving" => CaughtUp(r)']_vars

\* The ticker alone repairs everything: whatever signals are lost, writes go
\* unannounced or reloads fail, a replica that stays up ends with the row.
TickerConverges ==
    \A r \in Replicas :
      <>[](status[r] = "serving") => <>[](current[r] = row \/ row \in refused)
=============================================================================
