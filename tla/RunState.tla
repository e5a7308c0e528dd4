------------------------------ MODULE RunState ------------------------------
(***************************************************************************)
(* The state document of one target: state.json, as pipeline/state.py     *)
(* reads and rewrites it.  Every function of state.py loads the whole      *)
(* document, changes part of it and replaces the file, so each is written  *)
(* here as a function from the document it loaded to the one it saves.     *)
(* When the load and the save happen is the business of RunControl.        *)
(* Timestamps are left out; the reason of a run status or of a pause is    *)
(* left out too, no decision of the pipeline reads it back.                *)
(***************************************************************************)
CONSTANTS
  Module,     \* the rows of "modules" (pipeline_modules of tools.yaml)
  NoDoc       \* no file yet

ModuleStatus == {"pending", "running", "done", "failed"}
RunStatus == {"running", "completed", "partial", "failed", "anomaly", "stopped"}

Doc ==
  [mods   : [Module -> ModuleStatus],
   run    : RunStatus,
   live   : BOOLEAN,          \* run.live_stamp is present
   paused : SUBSET Module]    \* keys of breaker.paused

ASSUME NoDocAssumption == NoDoc \notin Doc

EmptyState ==
  [mods |-> [m \in Module |-> "pending"], run |-> "running", live |-> FALSE, paused |-> {}]

\* load_state: a missing file reads as the empty document.
LoadState(file) == IF file = NoDoc THEN EmptyState ELSE file

OperatorStopped(file) == LoadState(file).run = "stopped"

\* Mutant of SkipDone: a row an engine left running is skipped too.
SkipBegun(doc, m) == doc.mods[m] \in {"done", "running"}

SkipDone(doc, m) == doc.mods[m] = "done"

RunningRows(doc) == {m \in Module : doc.mods[m] = "running"}

\* The run object is replaced whole by every writer: live_stamp goes with it.
WithRun(doc, status) == [doc EXCEPT !.run = status, !.live = FALSE]

\* new_run_state keeps the persisted pauses and nothing else.
NewRun(doc) == [EmptyState EXCEPT !.paused = doc.paused]

WithRow(doc, m, status) == [doc EXCEPT !.mods[m] = status]

\* set_run_status: an operator stop is kept unless the caller may overwrite it.
KeepsStop(doc, status, overwrite) ==
  doc.run = "stopped" /\ status # "stopped" /\ ~overwrite

\* persist_pause mirrors the pause into the run object at once.
PersistPause(doc, m) == [WithRun(doc, "anomaly") EXCEPT !.paused = @ \cup {m}]

ClearModulePause(doc, m) == [doc EXCEPT !.paused = @ \ {m}]

ClearPauses(doc) ==
  [(IF doc.run = "anomaly" THEN WithRun(doc, "completed") ELSE doc) EXCEPT !.paused = {}]

\* What the SCAN board makes of the file: whether the scan is still going (a row says
\* running, the process lives, or rows are left and the log is recent), and its badge.
StillGoing(doc, alive, recent) ==
  \/ RunningRows(doc) # {}
  \/ alive
  \/ recent /\ \E m \in Module : doc.mods[m] = "pending"

OperatorLabel(status, going) ==
  IF status # "anomaly" THEN status ELSE IF going THEN "running" ELSE "limited"

ScanRow(file, alive, recent) ==
  IF file = NoDoc THEN "idle"
  ELSE OperatorLabel(file.run, StillGoing(file, alive, recent))

\* ingest_live stamps the run object the first time it indexes the live tree.
StampLive(doc) == [doc EXCEPT !.live = TRUE]
=============================================================================
