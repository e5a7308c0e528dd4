------------------------------- MODULE RunEnd -------------------------------
(* What a run of one target leaves behind (the end of _run_pipeline_impl and   *)
(* _finalize_stopped in engine.py, history.py, warehouse.py, logstore.py and   *)
(* run_end_notifications in notify.py): live ingests while it scans, then the   *)
(* snapshot, runs.json, diff.json, the warehouse, the alerts and the           *)
(* housekeeping.  Each may fail without failing the run, and the process may   *)
(* die in between.  The dashboard rebuilds an empty warehouse from the         *)
(* snapshots meanwhile.                                                     *)
EXTENDS Warehouse

CONSTANTS
  MaxStamp,  \* bound: stamps handed out (utc_stamp; a second each)
  MaxRuns,   \* bound: runs
  KeepRuns,  \* storage_keep_runs
  Rules      \* per fact: the alert rule of its class, [enabled, sides]

ASSUME RunEndAssumption == {MaxStamp, MaxRuns, KeepRuns} \subseteq Nat \ {0}

VARIABLES
  pc, runs, clock,
  tree,       \* the facts the target's directory holds now
  liveStamp,  \* run.live_stamp of the state document, None0 when absent
  stamp,      \* the stamp of the run that ends
  stopped,    \* does it end through _finalize_stopped?
  hist,       \* the snapshots: history/<stamp>
  runsJson,   \* the stamps of runs.json, in order
  diff,       \* diff.json
  gap,        \* history variable: was the last entry left without a diff?
  wrote,      \* history variable: did this run write its diff?
  db,
  rebuild     \* the dashboard's rebuild, and the snapshots it has left

engine == <<pc, runs, clock, liveStamp, stamp, stopped>>
files == <<hist, runsJson, diff, gap, wrote>>
vars == <<pc, runs, clock, tree, liveStamp, stamp, stopped, hist, runsJson, diff,
          gap, wrote, db, rebuild>>

None0 == 0
EmptyHist == [s \in {} |-> EmptyMaps]
Idle == [phase |-> "no", left |-> {}]
NoDiff == [from |-> None0, to |-> None0, older |-> EmptyMaps, newer |-> EmptyMaps]
\* The facts of a snapshot; a directory that is gone reads as empty.
Extract(s) == IF s \in DOMAIN hist THEN hist[s] ELSE EmptyMaps
\* The last stamp of runs.json that is another one.
Previous(s) ==
  LET before == {i \in DOMAIN runsJson : runsJson[i] # s}
  IN IF before = {} THEN None0 ELSE runsJson[Greatest(before)]
\* The rows of a diff, by the kind of change they tell.
Rows(d) == {k \in Key : d.older[k] # d.newer[k]}
Side(d, k) ==
  IF d.older[k] = None THEN "added" ELSE IF d.newer[k] = None THEN "removed" ELSE "changed"
\* The rules decide which row is worth an alert. (require_new_ip is left out.)
Worthy(d, k) == Rules[k].enabled /\ Side(d, k) \in Rules[k].sides
\* What is alerted: the worthy rows, but for a first run's baseline.
Alerts(d) == IF d.from = None0 THEN {} ELSE {k \in Rows(d) : Worthy(d, k)}

------------------------------------------------------------------------------
(* The run. *)

\* The run is over; the next one replaces the run object, and with it the live
\* stamp.
Over == pc' = "idle" /\ liveStamp' = None0 /\ stamp' = None0 /\ stopped' = FALSE /\ wrote' = FALSE

StartRun ==
  /\ pc = "idle" /\ runs < MaxRuns
  /\ runs' = runs + 1 /\ pc' = "scan"
  /\ UNCHANGED <<clock, tree, liveStamp, stamp, stopped, files, db, rebuild>>

\* The modules change what the directory holds.
Discover ==
  /\ pc = "scan" /\ tree' \in Maps \ {tree}
  /\ UNCHANGED <<engine, files, db, rebuild>>

\* At a module's end the facts are ingested under the run's live stamp, which
\* the first one creates.
IngestLive ==
  /\ pc = "scan"
  /\ IF liveStamp = None0
       THEN clock < MaxStamp /\ clock' = clock + 1 /\ liveStamp' = clock'
       ELSE UNCHANGED <<clock, liveStamp>>
  /\ db' = Ingested(db, liveStamp', tree)
  /\ UNCHANGED <<pc, runs, tree, stamp, stopped, files, rebuild>>

\* A pause of the circuit breaker replaces the run object: the stamp is lost.
LoseStamp ==
  /\ pc = "scan" /\ liveStamp # None0 /\ liveStamp' = None0
  /\ UNCHANGED <<pc, runs, clock, stamp, stopped, tree, files, db, rebuild>>

\* The run ends with a verdict under its live stamp or a fresh one, a stopped
\* one always under a fresh one.
End ==
  /\ pc = "scan" /\ pc' = "snapshot"
  /\ \E s \in BOOLEAN :
       /\ stopped' = s
       /\ IF liveStamp # None0 /\ ~s
            THEN stamp' = liveStamp /\ UNCHANGED clock
            ELSE clock < MaxStamp /\ clock' = clock + 1 /\ stamp' = clock'
  /\ liveStamp' = None0
  /\ UNCHANGED <<runs, tree, files, db, rebuild>>

\* A copy of the documents of every module.
Snapshot ==
  /\ pc = "snapshot" /\ pc' = "append"
  /\ hist' = [s \in DOMAIN hist \cup {stamp} |-> IF s = stamp THEN tree ELSE hist[s]]
  /\ UNCHANGED <<runs, clock, tree, liveStamp, stamp, stopped, runsJson, diff,
                 gap, wrote, db, rebuild>>

\* The entry of runs.json; the predecessor is read just before.
AppendRun ==
  /\ pc = "append" /\ pc' = "diff"
  /\ runsJson' = Append(runsJson, stamp)
  /\ UNCHANGED <<runs, clock, tree, liveStamp, stamp, stopped, hist, diff,
                 gap, wrote, db, rebuild>>

\* Mutant of WriteDiff: the newest snapshot but one is taken for the last run.
WriteDiffNewest ==
  /\ pc = "diff" /\ pc' = "ingest"
  /\ LET older == DOMAIN hist \ {stamp}
         prev == IF older = {} THEN None0 ELSE Greatest(older)
     IN diff' = [from |-> prev, to |-> stamp, older |-> Extract(prev), newer |-> Extract(stamp)]
  /\ gap' = FALSE /\ wrote' = TRUE
  /\ UNCHANGED <<runs, clock, tree, liveStamp, stamp, stopped, hist, runsJson,
                 db, rebuild>>

\* Mutant of WriteDiff: without a change the file is left as it is.
WriteDiffChanged ==
  /\ pc = "diff" /\ pc' = "ingest"
  /\ LET prev == Previous(stamp)
     IN diff' = IF Extract(prev) = Extract(stamp) THEN diff
                ELSE [from |-> prev, to |-> stamp, older |-> Extract(prev), newer |-> Extract(stamp)]
  /\ gap' = FALSE /\ wrote' = TRUE
  /\ UNCHANGED <<runs, clock, tree, liveStamp, stamp, stopped, hist, runsJson,
                 db, rebuild>>

\* The diff against the snapshot of the run before.
WriteDiff ==
  /\ pc = "diff" /\ pc' = "ingest"
  /\ LET prev == Previous(stamp)
     IN diff' = [from |-> prev, to |-> stamp, older |-> Extract(prev), newer |-> Extract(stamp)]
  /\ gap' = FALSE /\ wrote' = TRUE
  /\ UNCHANGED <<runs, clock, tree, liveStamp, stamp, stopped, hist, runsJson,
                 db, rebuild>>

\* An error in one of the three is disclosed and the run goes on.
HistoryFails ==
  /\ pc \in {"snapshot", "append", "diff"} /\ pc' = "ingest"
  /\ gap' = (gap \/ pc = "diff")
  /\ UNCHANGED <<runs, clock, tree, liveStamp, stamp, stopped, hist, runsJson,
                 diff, wrote, db, rebuild>>

IngestRunEnd ==
  /\ pc = "ingest" /\ pc' = "notify"
  /\ db' = Ingested(db, stamp, Extract(stamp))
  /\ UNCHANGED <<runs, clock, tree, liveStamp, stamp, stopped, files, rebuild>>

\* The alerts of whatever diff.json holds are sent.  A stopped run ends here.
Notify ==
  /\ pc = "notify"
  /\ IF stopped THEN Over ELSE pc' = "housekeep" /\ UNCHANGED <<liveStamp, stamp, stopped, wrote>>
  /\ UNCHANGED <<runs, clock, tree, hist, runsJson, diff, gap, db, rebuild>>

\* Retention keeps the newest n snapshots.
Pruned(n) ==
  {s \in DOMAIN hist : Cardinality({t \in DOMAIN hist : t >= s}) <= n}

\* Retention, then the cap on the directory's size, which may take the oldest
\* snapshots that are left, down to none.
Housekeep ==
  /\ pc = "housekeep" /\ Over
  /\ \E n \in 0..KeepRuns :
       hist' = [s \in Pruned(n) |-> hist[s]]
  /\ UNCHANGED <<runs, clock, tree, runsJson, diff, gap, db, rebuild>>

\* The process dies.
Die ==
  /\ pc # "idle" /\ Over
  /\ gap' = (gap \/ pc = "diff")
  /\ UNCHANGED <<runs, clock, tree, hist, runsJson, diff, db, rebuild>>

------------------------------------------------------------------------------
(* A rebuild: the file is thrown away, the snapshots listed are replayed, one   *)
(* transaction each. *)

\* The operator asks for it whatever there is; the dashboard's lazy fill looks for
\* snapshots and an empty warehouse first, and finds what may have changed since.
RebuildAsked ==
  /\ rebuild = Idle
  /\ rebuild' = [phase |-> "asked", left |-> {}]
  /\ UNCHANGED <<engine, tree, files, db>>

RebuildStart ==
  /\ rebuild.phase = "asked" /\ db' = EmptyDb
  /\ rebuild' = [phase |-> "replay", left |-> DOMAIN hist]
  /\ UNCHANGED <<engine, tree, files>>

\* The oldest snapshot first; a refused ingest ends the rebuild.
RebuildStep ==
  /\ rebuild.phase = "replay" /\ rebuild.left # {}
  /\ LET s == Smallest(rebuild.left)
     IN /\ db' = Ingested(db, s, Extract(s))
        /\ rebuild' = IF Accepts(db, s, Extract(s)) THEN [rebuild EXCEPT !.left = @ \ {s}] ELSE Idle
  /\ UNCHANGED <<engine, tree, files>>

RebuildEnd ==
  /\ rebuild.phase = "replay" /\ rebuild.left = {} /\ rebuild' = Idle
  /\ UNCHANGED <<engine, tree, files, db>>

\* A target that never ran, or one an older release left with a snapshot and
\* no warehouse.
Init ==
  /\ pc = "idle" /\ runs = 0 /\ liveStamp = None0 /\ stamp = None0
  /\ stopped = FALSE /\ gap = FALSE /\ wrote = FALSE
  /\ db = EmptyDb /\ rebuild = Idle
  /\ \/ /\ clock = 0 /\ tree = EmptyMaps /\ hist = EmptyHist /\ runsJson = <<>>
        /\ diff = NoDiff
     \/ /\ clock = 1 /\ tree \in Maps /\ hist = [s \in {1} |-> tree] /\ runsJson = <<1>>
        /\ diff = [from |-> None0, to |-> 1, older |-> EmptyMaps, newer |-> tree]

Next ==
  \/ StartRun \/ Discover \/ IngestLive \/ LoseStamp \/ End \/ Snapshot
  \/ AppendRun \/ WriteDiff \/ HistoryFails \/ IngestRunEnd \/ Notify
  \/ Housekeep \/ Die
  \/ RebuildAsked \/ RebuildStart \/ RebuildStep \/ RebuildEnd

Spec == Init /\ [][Next]_vars

------------------------------------------------------------------------------
(* Properties. *)

Stamps == 0..MaxStamp
TypeOK ==
  /\ pc \in {"idle", "scan", "snapshot", "append", "diff", "ingest", "notify", "housekeep"}
  /\ runs \in 0..MaxRuns /\ clock \in Stamps /\ tree \in Maps
  /\ liveStamp \in 0..clock /\ stamp \in 0..clock /\ stopped \in BOOLEAN
  /\ DOMAIN hist \subseteq 1..clock /\ \A s \in DOMAIN hist : hist[s] \in Maps
  /\ runsJson \in Seq(1..clock)
  /\ diff \in [from: Stamps, to: Stamps, older: Maps, newer: Maps]
  /\ gap \in BOOLEAN /\ wrote \in BOOLEAN
  /\ StampsOf(db) \subseteq 1..clock /\ DOMAIN db.facts \subseteq Key
  /\ rebuild \in [phase: {"no", "asked", "replay"}, left: SUBSET Stamps]

\* The warehouse keeps what it promises, whatever ingests are refused and
\* however a rebuild and a run's ingests interleave.
Archive == INSTANCE RunArchive WITH
  Stamp <- 1..MaxStamp, Facts <- Maps,
  archive <- [s \in StampsOf(db) |-> MapsForRun(db, s)]
ImplementsArchive == Archive!Spec

\* "Rebuild first/last-seen after a latest-run retry so SCD-2 identity stays
\* true" (warehouse.py:296): after every ingest, a fact's span is that of its
\* rows, its last hash is its last run's, and one of its versions is open.
IdentityTrue == Identity(db)

\* Not kept (no configuration checks it): the same sentence for the versions, which the
\* reconciliation leaves alone:
\* the version a run refers to is valid in that run.
VersionsTrue == VersionsCover(db)

\* Not kept (no configuration checks it): "Run-end ingest updates the same stamp"
\* (warehouse.py:357): once a run has
\* ingested its snapshot, the warehouse holds the snapshot's facts.
RunEndIngested ==
  pc = "notify" /\ wrote /\ rebuild = Idle => MapsForRun(db, stamp) = hist[stamp]

\* No change goes unreported between two runs: a diff starts where the last
\* written one ended, unless a run was recorded whose diff failed, or the
\* snapshot to compare with has been pruned.
DiffsChain ==
  [][ diff' # diff /\ diff # NoDiff /\ ~gap /\ Previous(stamp) \in DOMAIN hist
        => diff'.older = diff.newer ]_vars

\* The alerts at a run's end are about that run, and each is for a fact in which
\* it differs from the run before, unless its history failed: then the last
\* diff is sent once more.
AlertsOwn ==
  pc = "notify" /\ wrote =>
    /\ diff.to = stamp
    /\ \A k \in Alerts(diff) : Extract(stamp)[k] # Extract(Previous(stamp))[k]
=============================================================================
