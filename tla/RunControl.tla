----------------------------- MODULE RunControl -----------------------------
(***************************************************************************)
(* One target's run: the engine process (pipeline/engine.py) with its two  *)
(* concurrent branches and the port-check thread, the operator's START,    *)
(* STOP, RESUME, RESTART and RESET LIMITER (dashboard/app.py, cli.py), and *)
(* the two files they share: state.json (RunState) and run.pid.            *)
(*                                                                         *)
(* state.json has no lock.  A state.py call loads the document, changes it *)
(* and replaces the file; here the load computes the new document into     *)
(* buf[p] and a separate step Save(p) replaces the file, so that any other *)
(* process or thread may act in between.                                   *)
(***************************************************************************)
EXTENDS RunState, Naturals, Sequences, FiniteSets

CONSTANTS
  Engine,      \* engine processes: each is spawned at most once
  NoEngine,    \* run.pid is absent
  Dash,        \* the operator's process (the dashboard worker)
  Passive,     \* module order of the passive branch
  Before,      \* active branch up to and including dns-resolve
  After,       \* active branch after dns-resolve, without port-check
  Port,        \* port-check alone, or empty: runs beside After
  Post,        \* merge and the stages after it, in the main thread
  NoTool,      \* modules that start no tool container (merge)
  MayTrip,     \* modules whose tool may trip the circuit breaker
  MayFail,     \* modules whose runner may raise
  MayCrash,    \* the main thread may raise outside the guarded parts
  Requests,    \* bound on the operator's requests
  Kinds,       \* the requests the operator makes
  CliRuns,     \* bound on runs started from a shell, not by the dashboard
  Deaths       \* bound on abrupt deaths of an engine process

Thread == {"main", "passive", "active", "port"}
Worker == Engine \X Thread
Proc == Worker \cup {Dash}
Main(e) == <<e, "main">>

ASSUME ProcAssumption == Dash \notin Worker /\ NoEngine \notin Engine
ASSUME LadderAssumption ==
  /\ \A s \in {Passive, Before, After, Port, Post} : s \in Seq(Module)
  /\ Len(Port) <= 1
ASSUME CrashAssumption == MayCrash \in BOOLEAN
ASSUME BoundAssumption == Requests \in Nat /\ CliRuns \in Nat /\ Deaths \in Nat

VARIABLES
  disk,       \* state.json, or NoDoc
  pidfile,    \* the engine whose pid run.pid holds, or NoEngine
  pc,         \* where each process or thread is
  idx,        \* position of a thread in its module list
  buf,        \* document loaded and changed, not yet saved; or NoDoc
  todo,       \* rows fail_running_modules has still to rewrite
  seen,       \* done rows in the snapshot a branch decides skip_done on
  mem,        \* modules paused in the engine's CircuitBreaker
  alert,      \* engines whose breaker notified an anomaly
  soft,       \* engines with a partial marker
  hard,       \* engines with failed = True
  verdict,    \* what _classify_status returned
  resume,     \* engines started by RESUME
  leader,     \* engines that lead their process group
  cont,       \* threads whose tool container is running
  spawning,   \* what the dashboard spawns once STOP is through
  finished,   \* history: modules whose runner returned since the rows were reset
  recorded,   \* history: the status each engine appended to the run history
  quiet,      \* history: the last request was a STOP and it has returned
  left        \* what is left of the bounds

vars == <<disk, pidfile, pc, idx, buf, todo, seen, mem, alert, soft, hard,
          verdict, resume, leader, cont, spawning, finished, recorded, quiet, left>>

engineVars == <<mem, alert, soft, hard, verdict, resume, leader>>
history == <<finished, recorded, quiet, left>>

Branch == {"passive", "active"}
StagePc == {"check", "release", "guardRun", "setRun", "work", "tool", "check2",
            "stopFail", "guardDone", "setDone", "setLate", "live", "setFail", "setEmpty"}
MainPc == {"none", "boot", "init", "begin", "stop0", "reset", "resetEach",
           "fork", "join", "classify", "final", "setFinal", "after", "record",
           "fsList", "fsEach", "fsClear", "fsRecord",
           "fcCheck", "fcList", "fcEach", "fcClear", "gone"}
BranchPc == {"off", "snap", "joinPort", "ended", "stopped"}
DashPc == {"idle", "putPid", "list", "each", "clear", "docker"}
Pc == MainPc \cup StagePc \cup BranchPc \cup DashPc

Up(e) == pc[Main(e)] \notin {"none", "gone"}
Stopped == OperatorStopped(disk)
Loaded == LoadState(disk)

\* The module list of a thread of the ladder.
List(t) == IF t = "main" THEN Post
           ELSE IF t = "passive" THEN Passive
           ELSE IF t = "active" THEN Before \o After
           ELSE Port

Current(p) == List(p[2])[idx[p]]
Finished(p) == idx[p] > Len(List(p[2]))
\* port-check shares the active branch's snapshot (nonlocal st).
SnapOf(t) == IF t = "port" THEN "active" ELSE t

At(p, l) == pc[p] = l /\ buf[p] = NoDoc
Goto(p, l) == pc' = [pc EXCEPT ![p] = l]
Put(p, doc) == buf' = [buf EXCEPT ![p] = doc]

\* The processes es end, with every thread and whatever they had in memory, a
\* document not yet saved included; the dashboard moves on to l.
Gone(es, l) ==
  /\ pc' = [p \in Proc |-> IF p = Dash THEN l
                           ELSE IF p[1] \in es THEN "gone" ELSE pc[p]]
  /\ buf' = [p \in Proc |-> IF p # Dash /\ p[1] \in es THEN NoDoc ELSE buf[p]]
  /\ idx' = [p \in Worker |-> IF p[1] \in es THEN 1 ELSE idx[p]]
  /\ todo' = [p \in Proc |-> IF p # Dash /\ p[1] \in es THEN {} ELSE todo[p]]
  /\ seen' = [e \in Engine |-> IF e \in es THEN [b \in Branch |-> {}] ELSE seen[e]]
  /\ mem' = [e \in Engine |-> IF e \in es THEN {} ELSE mem[e]]
  /\ verdict' = [e \in Engine |-> IF e \in es THEN "running" ELSE verdict[e]]
  /\ alert' = alert \ es /\ soft' = soft \ es /\ hard' = hard \ es
  /\ resume' = resume \ es /\ leader' = leader \ es

Exit(e) == Gone({e}, pc[Dash])

Init ==
  /\ disk = NoDoc
  /\ pidfile = NoEngine
  /\ pc = [p \in Proc |-> IF p = Dash THEN "idle"
                          ELSE IF p[2] = "main" THEN "none" ELSE "off"]
  /\ idx = [p \in Worker |-> 1]
  /\ buf = [p \in Proc |-> NoDoc]
  /\ todo = [p \in Proc |-> {}]
  /\ seen = [e \in Engine |-> [b \in Branch |-> {}]]
  /\ mem = [e \in Engine |-> {}]
  /\ alert = {} /\ soft = {} /\ hard = {}
  /\ verdict = [e \in Engine |-> "running"]
  /\ resume = {} /\ leader = {}
  /\ cont = {}
  /\ spawning = NoEngine
  /\ finished = {}
  /\ recorded = [e \in Engine |-> "none"]
  /\ quiet = FALSE
  /\ left = [requests |-> Requests, cli |-> CliRuns, deaths |-> Deaths]

-----------------------------------------------------------------------------
(***************************************************************************)
(* state.json is replaced: the second half of every state.py writer.  The  *)
(* document an engine saves before it begins is the one that resets the    *)
(* rows, with it a new ladder starts and nothing has run in it.            *)
(***************************************************************************)
Save(p) ==
  /\ buf[p] # NoDoc
  /\ disk' = buf[p]
  /\ Put(p, NoDoc)
  /\ finished' = IF pc[p] = "begin" THEN {} ELSE finished
  /\ UNCHANGED <<pidfile, pc, idx, todo, seen, engineVars, cont, spawning, recorded, quiet, left>>

-----------------------------------------------------------------------------
(***************************************************************************)
(* The start of the engine: run.pid, state.json, the limiter's reset.      *)
(***************************************************************************)
\* cmd_resume: nothing to resume without a state.json.
NothingToResume(e) ==
  /\ At(Main(e), "boot") /\ e \in resume /\ disk = NoDoc
  /\ Exit(e)
  /\ UNCHANGED <<disk, pidfile, cont, spawning, history>>

WriteRunPid(e) ==
  /\ At(Main(e), "boot") /\ (e \in resume => disk # NoDoc)
  /\ pidfile' = e
  /\ Goto(Main(e), "init")
  /\ UNCHANGED <<disk, idx, buf, todo, seen, engineVars, cont, spawning, history>>

\* A fresh run resets the rows and keeps the pauses, whatever run says.
NewRunState(e) ==
  /\ At(Main(e), "init") /\ e \notin resume
  /\ Put(Main(e), NewRun(Loaded))
  /\ Goto(Main(e), "begin")
  /\ UNCHANGED <<disk, pidfile, idx, todo, seen, engineVars, cont, spawning, history>>

InitState(e) ==
  /\ At(Main(e), "init") /\ e \in resume
  /\ Put(Main(e), IF disk = NoDoc THEN EmptyState ELSE NoDoc)
  /\ Goto(Main(e), "begin")
  /\ UNCHANGED <<disk, pidfile, idx, todo, seen, engineVars, cont, spawning, history>>

\* set_run_status(running, overwrite_stopped=resume)
BeginRun(e) ==
  /\ At(Main(e), "begin")
  /\ Put(Main(e), IF KeepsStop(Loaded, "running", e \in resume) THEN NoDoc
                  ELSE WithRun(Loaded, "running"))
  /\ Goto(Main(e), "stop0")
  /\ UNCHANGED <<disk, pidfile, idx, todo, seen, engineVars, cont, spawning, history>>

\* The proxy gate may refuse the run after the stop check.
StartCheck(e) ==
  /\ At(Main(e), "stop0")
  /\ IF Stopped THEN Goto(Main(e), "fsList")
     ELSE \E l \in {"reset"} \cup (IF MayCrash THEN {"fcCheck"} ELSE {}) : Goto(Main(e), l)
  /\ UNCHANGED <<disk, pidfile, idx, buf, todo, seen, engineVars, cont, spawning, history>>

\* CircuitBreaker.__init__ loads the persisted pauses.
LoadPauses(e) ==
  /\ At(Main(e), "reset")
  /\ mem' = [mem EXCEPT ![e] = Loaded.paused]
  /\ Goto(Main(e), "resetEach")
  /\ UNCHANGED <<disk, pidfile, idx, buf, todo, seen, alert, soft, hard, verdict, resume,
                 leader, cont, spawning, history>>

ResetOne(e) ==
  /\ At(Main(e), "resetEach")
  /\ \E m \in mem[e] :
       /\ mem' = [mem EXCEPT ![e] = @ \ {m}]
       /\ Put(Main(e), ClearModulePause(Loaded, m))
  /\ UNCHANGED <<disk, pidfile, pc, idx, todo, seen, alert, soft, hard, verdict, resume,
                 leader, cont, spawning, history>>

\* reset_paused(None) ends with clear_breaker_pauses; then both branches start.
ResetAll(e) ==
  /\ At(Main(e), "resetEach") /\ mem[e] = {}
  /\ Put(Main(e), ClearPauses(Loaded))
  /\ Goto(Main(e), "fork")
  /\ UNCHANGED <<disk, pidfile, idx, todo, seen, engineVars, cont, spawning, history>>

Fork(e) ==
  /\ At(Main(e), "fork")
  /\ pc' = [pc EXCEPT ![Main(e)] = "join", ![<<e, "passive">>] = "snap",
                      ![<<e, "active">>] = "snap"]
  /\ UNCHANGED <<disk, pidfile, idx, buf, todo, seen, engineVars, cont, spawning, history>>

-----------------------------------------------------------------------------
(***************************************************************************)
(* One module of the ladder: the loop body of _run_passive_modules, _one   *)
(* of _run_active_modules, and the post-merge stages of the main thread.   *)
(***************************************************************************)
Snapshot(e, t) ==
  LET p == <<e, t>> IN
  /\ At(p, "snap") /\ t \in Branch
  /\ seen' = [seen EXCEPT ![e][t] = {m \in Module : SkipDone(Loaded, m)}]
  /\ Goto(p, "check")
  /\ UNCHANGED <<disk, pidfile, idx, buf, todo, engineVars, cont, spawning, history>>

\* skip_done reads the branch's snapshot; the main thread loads again.
Skips(e, t) ==
  LET m == Current(<<e, t>>)
  IN IF t = "main" THEN SkipDone(Loaded, m) ELSE m \in seen[e][SnapOf(t)]

\* port-check is handed to its own thread once dns-resolve is through.
PortDue(e, t) ==
  /\ t = "active" /\ Port # <<>> /\ After # <<>>
  /\ idx[<<e, t>>] = Len(Before) + 1
  /\ pc[<<e, "port">>] = "off"

CheckStop(e, t) ==
  LET p == <<e, t>> IN
  /\ At(p, "check") /\ ~Finished(p) /\ ~PortDue(e, t) /\ Stopped
  /\ Goto(p, IF t = "main" THEN "fsList"
             ELSE IF t = "active" /\ pc[<<e, "port">>] # "off" THEN "joinPort"
             ELSE "stopped")
  /\ UNCHANGED <<disk, pidfile, idx, buf, todo, seen, engineVars, cont, spawning, history>>

CheckSkip(e, t) ==
  LET p == <<e, t>> IN
  /\ At(p, "check") /\ ~Finished(p) /\ ~PortDue(e, t) /\ ~Stopped
  /\ IF Skips(e, t)
     THEN idx' = [idx EXCEPT ![p] = @ + 1] /\ UNCHANGED pc
     ELSE Goto(p, "release") /\ UNCHANGED idx
  /\ UNCHANGED <<disk, pidfile, buf, todo, seen, engineVars, cont, spawning, history>>

\* _release_breaker: a paused module is released at its boundary.
Release(e, t) ==
  LET p == <<e, t>>
      m == Current(p) IN
  /\ At(p, "release")
  /\ mem' = [mem EXCEPT ![e] = @ \ {m}]
  /\ Put(p, IF m \in mem[e] THEN ClearModulePause(Loaded, m) ELSE NoDoc)
  /\ Goto(p, "guardRun")
  /\ UNCHANGED <<disk, pidfile, idx, todo, seen, alert, soft, hard, verdict, resume,
                 leader, cont, spawning, history>>

\* The branch budget is spent: the marker makes the run partial.
BudgetSpent(e, t) ==
  LET p == <<e, t>> IN
  /\ At(p, "guardRun") /\ t # "main" /\ Current(p) \in MayFail
  /\ soft' = soft \cup {e}
  /\ idx' = [idx EXCEPT ![p] = Len(List(t)) + 1]
  /\ Goto(p, "check")
  /\ UNCHANGED <<disk, pidfile, buf, todo, seen, mem, alert, hard, verdict, resume,
                 leader, cont, spawning, history>>

\* set_status(running): under a stop it returns without writing, and the
\* runner is called all the same.
GuardRun(e, t) ==
  LET p == <<e, t>> IN
  /\ At(p, "guardRun")
  /\ Goto(p, IF Stopped THEN "work" ELSE "setRun")
  /\ UNCHANGED <<disk, pidfile, idx, buf, todo, seen, engineVars, cont, spawning, history>>

SetRunning(e, t) ==
  LET p == <<e, t>> IN
  /\ At(p, "setRun")
  /\ Put(p, WithRow(Loaded, Current(p), "running"))
  /\ Goto(p, "work")
  /\ UNCHANGED <<disk, pidfile, idx, todo, seen, engineVars, cont, spawning, history>>

\* Adapter.invoke starts the tool unless the run is stopped or the module paused.
Launch(e, t) ==
  LET p == <<e, t>> IN
  /\ At(p, "work") /\ Current(p) \notin NoTool \cup mem[e] /\ ~Stopped
  /\ cont' = cont \cup {p}
  /\ Goto(p, "tool")
  /\ UNCHANGED <<disk, pidfile, idx, buf, todo, seen, engineVars, spawning, history>>

\* Where the runner's outcome leads: the branches look for a stop first.
Returned(t) == IF t = "main" THEN "guardDone" ELSE "check2"

Outcomes(e, t) ==
  {Returned(t)} \cup (IF Current(<<e, t>>) \in MayFail THEN {"setFail"} ELSE {})
                \cup (IF Current(<<e, t>>) \in MayFail /\ t \in {"active", "port"}
                      THEN {"setEmpty"} ELSE {})

Ends(e, t, l) ==
  /\ Goto(<<e, t>>, l)
  /\ finished' = IF l = Returned(t) THEN finished \cup {Current(<<e, t>>)} ELSE finished
  /\ UNCHANGED <<recorded, quiet, left>>

\* The tool ends, or abort_check sees the stop and kills its container.
ToolEnds(e, t) ==
  LET p == <<e, t>> IN
  /\ At(p, "tool")
  /\ cont' = cont \ {p}
  /\ \E l \in Outcomes(e, t) : Ends(e, t, l)
  /\ UNCHANGED <<disk, pidfile, idx, buf, todo, seen, engineVars, spawning>>

\* The outcomes the tool reports trip the breaker: _pause persists and notifies.
ToolTrips(e, t) ==
  LET p == <<e, t>>
      m == Current(p) IN
  /\ At(p, "tool") /\ m \in MayTrip
  /\ mem' = [mem EXCEPT ![e] = @ \cup {m}]
  /\ alert' = alert \cup {e}
  /\ Put(p, PersistPause(Loaded, m))
  /\ cont' = cont \ {p}
  /\ \E l \in Outcomes(e, t) : Ends(e, t, l)
  /\ UNCHANGED <<disk, pidfile, idx, todo, seen, soft, hard, verdict, resume, leader, spawning>>

\* No container: an in-process stage, or invoke refused (stopped, paused).
WorkNoTool(e, t) ==
  LET p == <<e, t>> IN
  /\ At(p, "work")
  /\ Current(p) \in NoTool \cup mem[e] \/ Stopped
  /\ \E l \in Outcomes(e, t) : Ends(e, t, l)
  /\ UNCHANGED <<disk, pidfile, idx, buf, todo, seen, engineVars, cont, spawning>>

\* The branch's stop check after the runner.
CheckAgain(e, t) ==
  LET p == <<e, t>> IN
  /\ At(p, "check2")
  /\ Goto(p, IF Stopped THEN "stopFail" ELSE "guardDone")
  /\ UNCHANGED <<disk, pidfile, idx, buf, todo, seen, engineVars, cont, spawning, history>>

StopFails(e, t) ==
  LET p == <<e, t>> IN
  /\ At(p, "stopFail")
  /\ Put(p, WithRow(Loaded, Current(p), "failed"))
  /\ Goto(p, IF t = "active" /\ pc[<<e, "port">>] # "off" THEN "joinPort" ELSE "stopped")
  /\ idx' = [idx EXCEPT ![p] = 1]
  /\ UNCHANGED <<disk, pidfile, todo, seen, engineVars, cont, spawning, history>>

\* set_status(done): under a stop the row is failed instead.
GuardDone(e, t) ==
  LET p == <<e, t>> IN
  /\ At(p, "guardDone")
  /\ Goto(p, IF Stopped THEN "setLate" ELSE "setDone")
  /\ UNCHANGED <<disk, pidfile, idx, buf, todo, seen, engineVars, cont, spawning, history>>

SetDone(e, t) ==
  LET p == <<e, t>> IN
  /\ pc[p] \in {"setDone", "setLate"} /\ buf[p] = NoDoc
  /\ Put(p, WithRow(Loaded, Current(p), IF pc[p] = "setDone" THEN "done" ELSE "failed"))
  /\ Goto(p, "live")
  /\ UNCHANGED <<disk, pidfile, idx, todo, seen, engineVars, cont, spawning, history>>

\* st = load_state(...), then the debounced _ingest_live.
IngestLive(e, t) ==
  LET p == <<e, t>> IN
  /\ At(p, "live")
  /\ seen' = IF t = "main" THEN seen
             ELSE [seen EXCEPT ![e][SnapOf(t)] = {m \in Module : SkipDone(Loaded, m)}]
  /\ \/ Put(p, IF Loaded.live THEN NoDoc ELSE StampLive(Loaded))
     \/ UNCHANGED buf
  /\ idx' = [idx EXCEPT ![p] = @ + 1]
  /\ Goto(p, "check")
  /\ UNCHANGED <<disk, pidfile, todo, engineVars, cont, spawning, history>>

\* The runner raised: the row fails and the thread goes on with the next
\* module; an empty wordlist ends the active branch.
SetFailed(e, t) ==
  LET p == <<e, t>> IN
  /\ pc[p] \in {"setFail", "setEmpty"} /\ buf[p] = NoDoc
  /\ Put(p, WithRow(Loaded, Current(p), "failed"))
  /\ soft' = soft \cup {e}
  /\ hard' = IF t = "main" /\ idx[p] = 1 THEN hard \cup {e} ELSE hard
  /\ idx' = [idx EXCEPT ![p] = IF pc[p] = "setFail" THEN @ + 1 ELSE Len(List(t)) + 1]
  /\ Goto(p, "check")
  /\ UNCHANGED <<disk, pidfile, todo, seen, mem, alert, verdict, resume, leader,
                 cont, spawning, history>>

ForkPort(e) ==
  LET p == <<e, "active">> IN
  /\ At(p, "check") /\ PortDue(e, "active")
  /\ pc' = [pc EXCEPT ![<<e, "port">>] = "check"]
  /\ UNCHANGED <<disk, pidfile, idx, buf, todo, seen, engineVars, cont, spawning, history>>

\* The thread has come to the end of its list.
ThreadEnds(e, t) ==
  LET p == <<e, t>> IN
  /\ At(p, "check") /\ Finished(p) /\ ~PortDue(e, t)
  /\ Goto(p, IF t = "main" THEN "classify"
             ELSE IF t = "active" /\ pc[<<e, "port">>] # "off" THEN "joinPort"
             ELSE "ended")
  /\ UNCHANGED <<disk, pidfile, idx, buf, todo, seen, engineVars, cont, spawning, history>>

\* Mutant of JoinPort: the branch ends without waiting for port-check.
JoinPortEarly(e) ==
  LET p == <<e, "active">> IN
  /\ At(p, "joinPort")
  /\ Goto(p, IF Finished(p) THEN "ended" ELSE "stopped")
  /\ UNCHANGED <<disk, pidfile, idx, buf, todo, seen, engineVars, cont, spawning, history>>

\* fut.result() of port-check, in the finally: its stop is the branch's stop.
JoinPort(e) ==
  LET p == <<e, "active">> IN
  /\ At(p, "joinPort")
  /\ pc[<<e, "port">>] \in {"ended", "stopped"} /\ buf[<<e, "port">>] = NoDoc
  /\ Goto(p, IF pc[<<e, "port">>] = "stopped" \/ ~Finished(p) THEN "stopped" ELSE "ended")
  /\ UNCHANGED <<disk, pidfile, idx, buf, todo, seen, engineVars, cont, spawning, history>>

-----------------------------------------------------------------------------
(***************************************************************************)
(* The rest of the main thread: join, verdict, record, and the two other   *)
(* ways out, _finalize_stopped (fs) and _finalize_crash (fc).              *)
(***************************************************************************)
\* Mutant of Join: a branch that left on a stop never counts as done.
JoinEnded(e) ==
  /\ At(Main(e), "join")
  /\ \A t \in Branch : pc[<<e, t>>] = "ended" /\ buf[<<e, t>>] = NoDoc
  /\ Goto(Main(e), IF Stopped THEN "fsList" ELSE "check")
  /\ UNCHANGED <<disk, pidfile, idx, buf, todo, seen, engineVars, cont, spawning, history>>

\* Leaving the pool waits for both branches; then the stop is read again.
Join(e) ==
  /\ At(Main(e), "join")
  /\ \A t \in Branch : pc[<<e, t>>] \in {"ended", "stopped"} /\ buf[<<e, t>>] = NoDoc
  /\ Goto(Main(e), IF Stopped THEN "fsList" ELSE "check")
  /\ UNCHANGED <<disk, pidfile, idx, buf, todo, seen, engineVars, cont, spawning, history>>

\* An exception the ladder does not handle reaches run_pipeline.
Raise(e) ==
  /\ pc[Main(e)] \in {"reset", "fork", "classify"} /\ buf[Main(e)] = NoDoc /\ MayCrash
  /\ Goto(Main(e), "fcCheck")
  /\ UNCHANGED <<disk, pidfile, idx, buf, todo, seen, engineVars, cont, spawning, history>>

\* Mutant of Verdicts: partial markers are looked at before the alerts.
VerdictsSoftFirst(e) ==
  IF e \in hard THEN {"failed", "partial"}
  ELSE IF e \in soft THEN {"partial"}
  ELSE IF e \in alert \/ mem[e] # {} THEN {"anomaly"}
  ELSE {"completed"}

Verdicts(e) ==
  IF e \in alert \/ mem[e] # {} THEN {"anomaly"}
  ELSE IF e \in hard THEN {"failed", "partial"}   \* failed when no branch has a document
  ELSE IF e \in soft THEN {"partial"}
  ELSE {"completed"}

ClassifyStatus(e) ==
  /\ At(Main(e), "classify")
  /\ IF Stopped THEN Goto(Main(e), "fsList") /\ UNCHANGED verdict
     ELSE /\ Goto(Main(e), "final")
          /\ \E v \in Verdicts(e) : verdict' = [verdict EXCEPT ![e] = v]
  /\ UNCHANGED <<disk, pidfile, idx, buf, todo, seen, mem, alert, soft, hard, resume,
                 leader, cont, spawning, history>>

\* The stop check before and the one after set_run_status.
FinalCheck(e) ==
  /\ pc[Main(e)] \in {"final", "after"} /\ buf[Main(e)] = NoDoc
  /\ Goto(Main(e), IF Stopped THEN "fsList"
                   ELSE IF pc[Main(e)] = "final" THEN "setFinal" ELSE "record")
  /\ UNCHANGED <<disk, pidfile, idx, buf, todo, seen, engineVars, cont, spawning, history>>

\* Mutant of SetVerdict: the verdict is recorded but not shown.
SetVerdictUnsaved(e) ==
  /\ At(Main(e), "setFinal")
  /\ Goto(Main(e), "after")
  /\ UNCHANGED <<disk, pidfile, idx, buf, todo, seen, engineVars, cont, spawning, history>>

SetVerdict(e) ==
  /\ At(Main(e), "setFinal")
  /\ Put(Main(e), IF KeepsStop(Loaded, verdict[e], FALSE) THEN NoDoc
                  ELSE WithRun(Loaded, verdict[e]))
  /\ Goto(Main(e), "after")
  /\ UNCHANGED <<disk, pidfile, idx, todo, seen, engineVars, cont, spawning, history>>

\* History, warehouse, notification and report; run.pid stays behind.
Record(e) ==
  /\ At(Main(e), "record")
  /\ recorded' = [recorded EXCEPT ![e] = verdict[e]]
  /\ Exit(e)
  /\ UNCHANGED <<disk, pidfile, cont, spawning, finished, quiet, left>>

\* fail_running_modules lists the running rows, then rewrites one by one.
ListRunning(e) ==
  /\ pc[Main(e)] \in {"fsList", "fcList"} /\ buf[Main(e)] = NoDoc
  /\ todo' = [todo EXCEPT ![Main(e)] = RunningRows(Loaded)]
  /\ Goto(Main(e), IF pc[Main(e)] = "fsList" THEN "fsEach" ELSE "fcEach")
  /\ UNCHANGED <<disk, pidfile, idx, buf, seen, engineVars, cont, spawning, history>>

FailRow(p) ==
  \E m \in todo[p] :
    /\ todo' = [todo EXCEPT ![p] = @ \ {m}]
    /\ Put(p, WithRow(Loaded, m, "failed"))

FailRunning(e) ==
  /\ pc[Main(e)] \in {"fsEach", "fcEach"} /\ buf[Main(e)] = NoDoc
  /\ FailRow(Main(e))
  /\ UNCHANGED <<disk, pidfile, pc, idx, seen, engineVars, cont, spawning, history>>

FinalizeStopped(e) ==
  /\ At(Main(e), "fsEach") /\ todo[Main(e)] = {}
  /\ Put(Main(e), WithRun(Loaded, "stopped"))
  /\ Goto(Main(e), "fsClear")
  /\ UNCHANGED <<disk, pidfile, idx, todo, seen, engineVars, cont, spawning, history>>

\* _finalize_crash leaves a stopped run alone.
CrashCheck(e) ==
  /\ At(Main(e), "fcCheck")
  /\ Goto(Main(e), IF Stopped THEN "fcClear" ELSE "fcList")
  /\ UNCHANGED <<disk, pidfile, idx, buf, todo, seen, engineVars, cont, spawning, history>>

\* Mutant of FinalizeCrash: the rows are failed, the run status is not.
FinalizeCrashRows(e) ==
  /\ At(Main(e), "fcEach") /\ todo[Main(e)] = {}
  /\ Goto(Main(e), "fcClear")
  /\ UNCHANGED <<disk, pidfile, idx, buf, todo, seen, engineVars, cont, spawning, history>>

FinalizeCrash(e) ==
  /\ At(Main(e), "fcEach") /\ todo[Main(e)] = {}
  /\ Put(Main(e), IF KeepsStop(Loaded, "failed", FALSE) THEN NoDoc
                  ELSE WithRun(Loaded, "failed"))
  /\ Goto(Main(e), "fcClear")
  /\ UNCHANGED <<disk, pidfile, idx, todo, seen, engineVars, cont, spawning, history>>

\* clear_run_pid unlinks the file whoever wrote it.
ClearPid(e) ==
  /\ pidfile' = NoEngine
  /\ \/ At(Main(e), "fsClear") /\ Goto(Main(e), "fsRecord")
        /\ UNCHANGED <<idx, buf, todo, seen, engineVars>>
     \/ At(Main(e), "fcClear") /\ Exit(e)
  /\ UNCHANGED <<disk, cont, spawning, history>>

RecordStopped(e) ==
  /\ At(Main(e), "fsRecord")
  /\ recorded' = [recorded EXCEPT ![e] = "stopped"]
  /\ Exit(e)
  /\ UNCHANGED <<disk, pidfile, cont, spawning, finished, quiet, left>>

\* Power cut, OOM kill: nothing is finalised; containers go down with the host.
Die(e) ==
  /\ Up(e) /\ left.deaths > 0
  /\ Exit(e)
  /\ cont' = {p \in cont : p[1] # e}
  /\ left' = [left EXCEPT !.deaths = @ - 1]
  /\ UNCHANGED <<disk, pidfile, spawning, finished, recorded, quiet>>

-----------------------------------------------------------------------------
(***************************************************************************)
(* The operator.  The dashboard's handlers contain no await: one request   *)
(* is served to its end before the next.                                       *)
(***************************************************************************)
PidLive == pidfile # NoEngine /\ Up(pidfile)

Asks(kind) ==
  /\ At(Dash, "idle") /\ kind \in Kinds /\ left.requests > 0
  /\ left' = [left EXCEPT !.requests = @ - 1]

\* _spawn_detached: a new session, so the process leads its group.
Spawn(e, fresh) ==
  /\ pc[Main(e)] = "none"
  /\ pc' = [pc EXCEPT ![Main(e)] = "boot", ![Dash] = "putPid"]
  /\ resume' = IF fresh THEN resume ELSE resume \cup {e}
  /\ leader' = leader \cup {e}
  /\ spawning' = e

\* START and RESUME answer 409 when run.pid names a live process.
StartRun ==
  \E e \in Engine, fresh \in BOOLEAN :
    /\ Asks(IF fresh THEN "start" ELSE "resume")
    /\ ~PidLive
    /\ Spawn(e, fresh)
    /\ quiet' = FALSE
    /\ UNCHANGED <<disk, pidfile, idx, buf, todo, seen, mem, alert, soft, hard, verdict,
                   cont, finished, recorded>>

Refuse ==
  /\ \E kind \in {"start", "resume"} : Asks(kind)
  /\ PidLive
  /\ UNCHANGED <<disk, pidfile, pc, idx, buf, todo, seen, engineVars, cont, spawning,
                 finished, recorded, quiet>>

\* Mutant of PutPid: the child alone writes its pid.
PutPidNever ==
  /\ At(Dash, "putPid")
  /\ spawning' = NoEngine
  /\ Goto(Dash, "idle")
  /\ UNCHANGED <<disk, pidfile, idx, buf, todo, seen, engineVars, cont, history>>

\* The parent writes the child's pid after Popen.
PutPid ==
  /\ At(Dash, "putPid")
  /\ pidfile' = spawning
  /\ spawning' = NoEngine
  /\ Goto(Dash, "idle")
  /\ UNCHANGED <<disk, idx, buf, todo, seen, engineVars, cont, history>>

\* STOP and RESTART begin alike; RESTART needs an engine to spawn afterwards.
StopRun ==
  /\ \/ Asks("stop") /\ UNCHANGED spawning
     \/ Asks("restart") /\ \E e \in Engine : pc[Main(e)] = "none" /\ spawning' = e
  /\ Put(Dash, WithRun(Loaded, "stopped"))
  /\ Goto(Dash, "list")
  /\ quiet' = FALSE
  /\ UNCHANGED <<disk, pidfile, idx, todo, seen, engineVars, cont, finished, recorded>>

StopList ==
  /\ At(Dash, "list")
  /\ todo' = [todo EXCEPT ![Dash] = RunningRows(Loaded)]
  /\ Goto(Dash, "each")
  /\ UNCHANGED <<disk, pidfile, idx, buf, seen, engineVars, cont, spawning, history>>

StopFailRow ==
  /\ At(Dash, "each")
  /\ FailRow(Dash)
  /\ UNCHANGED <<disk, pidfile, pc, idx, seen, engineVars, cont, spawning, history>>

\* Mutant of StopKill: only the pid of run.pid is signalled.
StopKillRecorded ==
  /\ At(Dash, "each") /\ todo[Dash] = {}
  /\ Gone({e \in leader : Up(e) /\ e = pidfile}, "clear")
  /\ UNCHANGED <<disk, pidfile, cont, spawning, history>>

\* The recorded pid and every pid whose command line runs this target are
\* signalled as groups; a process that leads no group is not reached.
StopKill ==
  /\ At(Dash, "each") /\ todo[Dash] = {}
  /\ Gone({e \in leader : Up(e)}, "clear")
  /\ UNCHANGED <<disk, pidfile, cont, spawning, history>>

StopClear ==
  /\ At(Dash, "clear")
  /\ pidfile' = NoEngine
  /\ Goto(Dash, "docker")
  /\ UNCHANGED <<disk, idx, buf, todo, seen, engineVars, cont, spawning, history>>

\* docker ps by label, then docker kill of what it listed.
StopContainers ==
  /\ At(Dash, "docker")
  /\ cont' = {}
  /\ IF spawning = NoEngine
     THEN Goto(Dash, "idle") /\ quiet' = TRUE /\ UNCHANGED <<spawning, resume, leader>>
     ELSE Spawn(spawning, TRUE) /\ UNCHANGED quiet
  /\ UNCHANGED <<disk, pidfile, idx, buf, todo, seen, mem, alert, soft, hard, verdict,
                 finished, recorded, left>>

ResetLimiter ==
  /\ Asks("reset") /\ disk # NoDoc
  /\ Put(Dash, ClearPauses(disk))
  /\ UNCHANGED <<disk, pidfile, pc, idx, todo, seen, engineVars, cont, spawning,
                 finished, recorded, quiet>>

\* ./recon.sh run from a shell: no look at run.pid, and not always a leader.
CliRun(e) ==
  /\ pc[Main(e)] = "none" /\ spawning # e /\ left.cli > 0
  /\ Goto(Main(e), "boot")
  /\ \E leads \in BOOLEAN : leader' = IF leads THEN leader \cup {e} ELSE leader
  /\ left' = [left EXCEPT !.cli = @ - 1]
  /\ quiet' = FALSE
  /\ UNCHANGED <<disk, pidfile, idx, buf, todo, seen, mem, alert, soft, hard, verdict,
                 resume, cont, spawning, finished, recorded>>

-----------------------------------------------------------------------------
Start(e) == NothingToResume(e) \/ WriteRunPid(e) \/ NewRunState(e) \/ InitState(e)
            \/ BeginRun(e) \/ StartCheck(e) \/ LoadPauses(e) \/ ResetOne(e) \/ ResetAll(e)
            \/ Fork(e)

Step(e, t) == \/ Snapshot(e, t) \/ CheckStop(e, t) \/ CheckSkip(e, t) \/ Release(e, t)
              \/ BudgetSpent(e, t) \/ GuardRun(e, t) \/ SetRunning(e, t)
              \/ Launch(e, t) \/ ToolEnds(e, t) \/ ToolTrips(e, t) \/ WorkNoTool(e, t)
              \/ CheckAgain(e, t) \/ StopFails(e, t) \/ GuardDone(e, t) \/ SetDone(e, t)
              \/ IngestLive(e, t) \/ SetFailed(e, t) \/ ThreadEnds(e, t)

Rest(e) == \/ Join(e) \/ Raise(e) \/ ClassifyStatus(e) \/ FinalCheck(e) \/ SetVerdict(e)
           \/ Record(e) \/ ListRunning(e) \/ FailRunning(e) \/ FinalizeStopped(e)
           \/ CrashCheck(e) \/ FinalizeCrash(e) \/ ClearPid(e) \/ RecordStopped(e)

ThreadNext(e, t) ==
  \/ Save(<<e, t>>)
  \/ Step(e, t)
  \/ t = "main" /\ (Start(e) \/ Rest(e))
  \/ t = "active" /\ (ForkPort(e) \/ JoinPort(e))

\* What the dashboard does once a request has begun.
Serve == Save(Dash) \/ PutPid \/ StopList \/ StopFailRow \/ StopKill \/ StopClear
         \/ StopContainers

Request == StartRun \/ Refuse \/ StopRun \/ ResetLimiter

Next ==
  \/ \E e \in Engine, t \in Thread : ThreadNext(e, t)
  \/ Serve
  \/ Request
  \/ \E e \in Engine : CliRun(e) \/ Die(e)

\* As long as a thread or the request the dashboard serves can go on, one of them
\* does: less than fairness to each, and enough since what each has to do is finite.
\* Nobody has to make a request, and nothing has to die.
Fairness == WF_vars(Serve \/ \E e \in Engine, t \in Thread : ThreadNext(e, t))

Spec == Init /\ [][Next]_vars /\ Fairness

-----------------------------------------------------------------------------
TypeOK ==
  /\ disk \in Doc \cup {NoDoc}
  /\ pidfile \in Engine \cup {NoEngine}
  /\ pc \in [Proc -> Pc]
  /\ idx \in [Worker -> Nat]
  /\ buf \in [Proc -> Doc \cup {NoDoc}]
  /\ todo \in [Proc -> SUBSET Module]
  /\ seen \in [Engine -> [Branch -> SUBSET Module]]
  /\ mem \in [Engine -> SUBSET Module]
  /\ alert \in SUBSET Engine /\ soft \in SUBSET Engine /\ hard \in SUBSET Engine
  /\ verdict \in [Engine -> RunStatus]
  /\ resume \in SUBSET Engine /\ leader \in SUBSET Engine
  /\ cont \in SUBSET Worker
  /\ spawning \in Engine \cup {NoEngine}
  /\ finished \in SUBSET Module
  /\ recorded \in [Engine -> RunStatus \cup {"none"}]
  /\ quiet \in BOOLEAN
  /\ left \in [requests : Nat, cli : Nat, deaths : Nat]

Terminal == RunStatus \ {"running"}
Working(p) == pc[p] \in StagePc \cup {"snap", "joinPort"}

\* MERGE and the stages behind it start only when both branches and the early
\* port check have ended and have written their last row (engine.py, the two
\* pools): merge works on complete documents.
StagesAfterBranches ==
  \A e \in Engine : pc[Main(e)] \in StagePc \cup {"classify"} =>
    \A t \in Thread \ {"main"} : ~Working(<<e, t>>) /\ buf[<<e, t>>] = NoDoc

\* A breaker alert of the run is in its verdict, whatever else went wrong in
\* either branch since and whatever became of the persisted pause.
AlertNotMasked ==
  [][\A e \in alert : recorded[e] = "none" => recorded'[e] \in {"none", "stopped", "anomaly"}]_vars

\* The verdict the history records is the one state.json shows for as long as run.pid
\* names that engine, although both branches replaced the whole file in between, and
\* whichever engines, stops and restarts came before. A STOP that is being served
\* (stop_target) may have replaced the status already; it ends by clearing run.pid.
RecordedIsShown ==
  \A e \in Engine :
    recorded[e] # "none" /\ pidfile = e /\ pc[Dash] \in {"idle", "putPid"} =>
      disk # NoDoc /\ disk.run = recorded[e]

\* "completed" is recorded only when the runner of every module has returned
\* since the rows were reset: RESUME and a fresh START skip nothing that did not
\* run, whatever rows the concurrent writers lost and wherever an engine died or
\* crashed before. STOP is not in it, nor RESTART, which begins with one: with STOP it
\* does not hold, since a lost update can take the STOP back after a branch obeyed it.
\* RESET and runs from a shell are not in it either.
CompletedCoversLadder ==
  [][\A e \in Engine :
       recorded[e] = "none" /\ recorded'[e] = "completed" => finished = Module]_vars

\* Once nothing dies any more, a run that has begun ends with a terminal status, whatever
\* an engine that died before left: no thread waits for ever, a crash is finalised, no
\* "running" is left behind.
RunSettles ==
  (\E e \in Engine : pc[Main(e)] = "begin") /\ left.deaths = 0
    ~> (\A e \in Engine : ~Up(e)) /\ Loaded.run \in Terminal

\* START, RESUME and RESTART never give a target two engines: the pid the
\* parent writes bridges the time until the child writes its own.
OneEngine ==
  \A e, f \in Engine : Up(e) /\ Up(f) => e = f

\* When STOP has returned nothing of the run is left: the process first, so
\* that it cannot start another container, then the containers.
StopLeavesNothing ==
  quiet => cont = {} /\ \A e \in Engine : ~Up(e)

\* A started engine does not stay up, whatever requests come in between.
EngineEnds ==
  \A e \in Engine : Up(e) ~> ~Up(e)

\* Not kept (no configuration checks it): the SCAN board says a scan runs "while the
\* engine is still working" (service.py:741); once its verdict is recorded and the
\* engine is gone the badge is not that of a running scan.
BoardSettles ==
  \A e \in Engine :
    recorded[e] # "none" /\ pc[Main(e)] = "gone" => ScanRow(disk, Up(e), FALSE) # "running"

\* Not kept (no configuration checks it): "done modules stay done" (docs/HELP.md): a done row is left only when a
\* fresh ladder resets the rows.
DoneStaysDone ==
  [][\A m \in Module :
       disk # NoDoc /\ disk.mods[m] = "done" /\ disk'.mods[m] # "done"
         => \E e \in Engine : pc[Main(e)] = "begin" /\ buf[Main(e)] # NoDoc]_vars

\* Not kept (no configuration checks it): "so a late engine start cannot clobber the request"
\* (engine.py, stop_target):
\* once STOP has returned the status is stopped.
StopIsShown ==
  quiet => disk # NoDoc /\ disk.run = "stopped"

\* Not kept (no configuration checks it): "Operator STOP wins" (state.py), no thread of the ladder that loads a
\* stopped document prepares one that is not.
LadderKeepsStop ==
  [][\A e \in Engine, t \in Thread :
       /\ pc[<<e, t>>] \in StagePc
       /\ disk # NoDoc /\ disk.run = "stopped"
       /\ buf[<<e, t>>] = NoDoc /\ buf'[<<e, t>>] # NoDoc
       => buf'[<<e, t>>].run = "stopped"]_vars
=============================================================================
