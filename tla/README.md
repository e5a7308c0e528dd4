# moirax-ASM: formal models

TLA+ models of the run engine of moirax-ASM (`src/pipeline`, `src/dashboard`), TLC instances that check
them, and TLAPS proofs of the properties that matter most. Everything here is translated from the code;
docs, comments and tests are quoted only where the code does something else (section 6).

## 1. The system

`moirax-ASM` scans a target (a domain) with a *ladder* of modules. An engine process (`./recon.sh run`)
runs a passive and an active branch in two threads, the port check beside the virtual-host modules in a third,
then merge, the port sweep, a second virtual-host pass and a passive analysis in its main thread, and records the
run. Each module starts tool containers through an adapter that is guarded by a circuit breaker, a resource
ceiling and a proxy pool. A dashboard (one FastAPI process) and a shell command start, stop, resume and
restart runs. A fleet command runs many targets at once. All state is in files: no message queue and, apart from
the fleet's slots, no lock between processes.

| Component | Source | State it keeps | Operations | Hard behaviour | What makes it correct |
|---|---|---|---|---|---|
| run state document | `pipeline/state.py` | `state.json` (rows, run, pauses), `run.pid` | load, change, save of the whole document | no lock: lost updates between branches, dashboard and shell | the verdict recorded is the one shown; a completed ladder ran completely |
| engine ladder | `pipeline/engine.py`, `cli.py` | threads, partial markers, alerts | run, resume, stop checks, verdict, finalisers, run end | three threads, exceptions, STOP at any point, death | stages wait for branches; a terminal status is always left; the verdict tells the worst |
| operator's requests | `dashboard/app.py`, `engine.stop_target` | `run.pid`, process groups, containers | START, STOP, RESUME, RESTART, RESET LIMITER, delete, restore, save | spawn race, kill order, stale pid | one engine per target; STOP leaves nothing |
| circuit breaker | `pipeline/breaker.py` | sliding outcomes, throttle, pause, mirror in `state.json` | record, force_pause, reset_paused, load | windows by number against sliding time; two copies of the pause | pause earned and in time; mirrored; notified once; throttle paced |
| fleet | `pipeline/fleet.py` | slot files, shared token, ledger | run_fleet, acquire, release | threads and processes, kills, no waiting | runner not oversubscribed; clean means run; ledger written |
| adapter, container runner | `pipeline/adapter.py` | live containers | invoke, attempt loop, fallback, abort | retries against stop, pause and timeout | attempts bounded and in order; nothing more started after stop or pause |
| resource ceiling | `pipeline/ceiling.py` | running count | plan, acquire, release | shares fixed at start, exceptions on the way | every share returned once |
| canary pacing | `pipeline/load_balance.py`, `port_pace.py` | rate, bad windows, pause | tick, canary | shared by worker threads | pauses only on a streak of bad canaries; jobs share one rate |
| proxy rotation | `pipeline/ip_rotation.py` | cursor, health, health file | assign, record_outcome, load/write health | attempts in parallel, health across runs, one row for two entries | a proxy is skipped for real failures only |
| passive recon | `modules/passive_recon.py`, `search_forge.py` | candidates, engines' health, branch budget | sources, queries, recursion, probe | parallel sources and workers, one deadline, waits | nothing heard is lost; what is cut is said; the branch ends |
| active recon | `modules/dns_resolve.py`, `ffuf*.py`, `hostsutil.py`, `recon_depth.py` | tool outputs with `.done` markers, documents | probe, brute force, permute, resolve, expand, vhosts | parallel jobs under one rate, a canary, stop, death, resume | no parent is silently skipped; catch-all answers stay apart |
| merge, scope | `merge.py`, `scope.py`, `attribution.py` | canonical assets, quarantine | merge, append, validate | several documents of one host | catch-all names are set aside |
| port stages | `modules/port_check.py`, `port_sweep.py` | targets, pacer, scans, history | preview, targets, resolution, scan loop, endings | deadline, canary, stop, exception between chunks | every address accounted for, or the loss disclosed |
| warehouse, history | `warehouse.py`, `history.py` | sealed SQLite file, snapshots, `runs.json`, `diff.json` | live and final ingest, diff, rebuild, pruning | refused statements, lost live stamp, replay beside a run end | one run, one set of facts; identities true; differences chain |
| notifications | `notify.py` | alert rules, token pool | run_end_notifications, alert | diff of another run, first run | alerts are about the run that ends |
| target profiles | `target_profiles.py`, `cli.py` | `tools.yaml`, `wordlists.yaml` | apply, reload, restore | two files, kill, overlap, save in between | no override outlives an undisturbed run |
| registry, tombstones | `deleted.py`, `service.py`, `app.py` | `targets.yaml`, directory, tombstone | add, delete, restore, purge | three writes of a delete beside saves, runs and purges | a deleted target does not come back by itself |
| operator sessions | `authstore.py` | sessions, failure times | login, touch, revoke | idle timeout | not modelled |
| supervisor, log rotation, self-tuning, small modules, lists, reports, configuration, web client | see section 7 | files | | | not modelled, or only in part |

Interactions: the dashboard spawns engines and shares `state.json`, `run.pid` and Docker with them; engine threads
share the breaker, the ceiling, the proxy pool and `state.json`; the breaker writes `state.json` and calls the engine's
alert callback while it holds its lock; modules hand documents on through the target's directory, and earlier runs'
documents arm the canary of later ones; fleet members are whole engines of their own root.

`PROJECT.json` lists the hazards of this code line by line; the properties below are aimed at them.

## 2. Modules

| Module | What it models | Extends / uses |
|---|---|---|
| `RunState` | the document `state.json`; each function of `state.py` as a function from the document loaded to the one saved | |
| `RunControl` | engines, their threads, the dashboard's requests, the shell, `run.pid`, containers, death | `RunState` |
| `Breaker` | `CircuitBreaker` with its clock, mirror and notifications | |
| `RunnerSlots` | abstract: at most Capacity members run | |
| `Fleet` | `run_fleet`, its pool and `GlobalSlots` | INSTANCE `RunnerSlots` |
| `Ceiling`, `ProxyPool` | the arithmetic of shares; choice and health of proxies | |
| `ToolCalls` | `Adapter.invoke`: attempts, backoff, fallback, stop, with ceiling, pool and pauses | `Ceiling`, `ProxyPool` |
| `SweepTargets`, `PortPace` | target set of a sweep; its pacer with the canary | |
| `PortSweep` | port-check's preview, the sweep and its stage in the engine, over several runs | `SweepTargets`, `PortPace` |
| `RunArchive` | abstract: an archive of the runs' facts in which only the newest run may be replaced | |
| `Warehouse` | the tables of the warehouse and what one ingest does to them | |
| `RunEnd` | live ingests, the run end (snapshot, runs.json, diff, ingest, alerts, pruning), rebuild | `Warehouse`, INSTANCE `RunArchive` |
| `Targets` | shared settings files under per-target profiles; registry, directories, tombstones | |
| `SearchForge` | the pool of search engines: rest, isolation, distance between requests | |
| `PassiveRecon` | the passive branch: sources, queries, recursion workers, probe, budget | `SearchForge` |
| `Hosts`, `LoadBalance` | names, scope gate, choice of parents, split of the rate; the DNS canary | |
| `DnsResolve` | dns-resolve and the second DNS pass, with the output files of tools | `Hosts`, `LoadBalance` |
| `Merge` | merge of documents, quarantine, append | |
| `Discovery` | dns-resolve, ffuf, expansion, ffuf-3, MERGE, ffuf-4, expansion, MERGE; stop, death, resume | `DnsResolve`, `Merge` |
| `*_proofs` | theorems (section 5) | the module named, TLAPS |
| `Recon_proofs` | theorems of both branches of the reconnaissance | `PassiveRecon`, `Discovery`, TLAPS |
| `MC*` | constants of the TLC instances | the module named |

An operator whose comment starts with "Mutant of" is a plausible bug of the definition that follows it: no specification
uses it; `PROJECT.json` names the property it must break.

### RunControl and RunState

`disk` is `state.json`, `pidfile` is `run.pid`. Every writer of `state.py` loads the whole document, changes
it and replaces the file. The load computes the new document into `buf[p]`; `Save(p)` replaces the file in a
step of its own, so everybody else may act in between. `pc[<<e,t>>]` is where thread `t` of engine `e` is,
`idx` its place in its list of modules, `seen` the done rows of the snapshot a branch decides `skip_done` on
(port-check shares the active branch's, as the closure's `nonlocal st` does), `mem` the breaker's pauses in
memory, `alert`, `soft` and `hard` the evidence of `_classify_status`.

Actions follow the code line by line: `WriteRunPid` .. `ResetAll` are the start of `_run_pipeline_impl`; the
loop body of a module is `CheckStop`, `CheckSkip`, `Release`, `BudgetSpent`/`GuardRun`, `SetRunning`,
`Launch`/`WorkNoTool`, `ToolEnds`/`ToolTrips`, `CheckAgain`, `GuardDone`, `SetDone`, `IngestLive`, with
`SetFailed` for a runner that raised; `Join`, `ClassifyStatus`, `FinalCheck`, `SetVerdict`, `Record` end the
run; `fs*` and `fc*` program counters are `_finalize_stopped` and `_finalize_crash`. `StopRun` .. `StopContainers`
are `stop_target` in its order: status, rows, processes, pid, containers. The dashboard's handlers have no
await, so one request is served to its end before the next; processes and threads of engines interleave with it.

Abstractions, all deliberate: timestamps and reasons are dropped (nothing reads them back); two reads of
`state.json` with nothing in between are one; `docker ps` and `docker kill` are one step (only the kill order
against the processes matters); the unlink of `run.pid` and the exit after a crash are one; a runner makes one
tool call; what `failed` turns into ("failed" without any document, "partial" otherwise) is a free choice; a
spent branch budget ends the thread with its marker; the generic tool lists behind the branches write no rows and
are left out, as is `run_module`; what follows the verdict is `RunEnd`. `ScanRow` is what the board shows of a document
(`operator_run_view` and `_scan_still_going` in `service.py`).

### Breaker

`row[m]` is `_ModuleBreaker`; a throttle factor is kept as the number of divisions. Outcomes are a set (their order
is never looked at), numbered so that equal ones count. The baseline latency is kept as the outcomes it averages
so that the comparison is exact in integers. `record` on a paused module does nothing and is no step. Every method
holds the lock over the write of the mirror and the notification, hence one action per method. `streak`, `fails`,
`cause`, `notice` are history. The counters no decision reads (`last_ok_window`, `consecutive_latency_bad`) are left out.

### Fleet

`pc[<<f,t>>]` is the thread that has target `t` of invocation `f`; `token[f]` is the one field its threads share.
`acquire` is one step per slot tried (`O_CREAT|O_EXCL` is atomic), then the assignment of the token; `release` reads
the token, reads it again for `unlink`, and clears it, one step each. An empty token makes `unlink` name the directory
and raise. Exit codes 0 and 3 are "clean". A killed invocation leaves its files and its members' processes. The
preparation of a member's root is left out: it happens before the pool and each member has a directory of its own.

### ToolCalls, Ceiling, ProxyPool

A worker is a thread that calls one tool after the other. `Invoke` .. `WriteHealth` are `Adapter.invoke` and `_once`:
`Allow` asks the breaker for the key in force (the module's, or the fallback's own name), `Assign` takes a proxy when the tool
has a hook, `Acquire` takes a share, `CheckAbort` and `Popen` are the two looks at the state around the container's start,
`Exits` ends the wait with any exit code, `Release` gives the share back, `BreakerRecord` may pause a key that has a failure on
record (the windows are `Breaker`'s), `ReadHealth` and `WriteHealth` are the counter read and written without a lock.
`Leaks` is the one exception between taking the share and the `try` that returns it. `Boot` and `Die` start and
end engines; the health file is all that outlives them. `Ceiling` is pure: shares are `BudgetRam \div n`, shrunk until the
host's available memory and the floors fit. Left out: a `docker kill` that fails, log files, outputs, the flags of a fallback.

### PortSweep, SweepTargets, PortPace

`in` is what the earlier stages left, `hosts` the map from addresses to hosts the sweep builds from it, `todo` what the loop has
not reached, `pacer` the state of `PortPacer`, `history` the snapshots that arm the next run's canary. The actions are the parts
of `run_port_sweep`: `BuildTargets`, `Resolve`, `Pace`, then per address `LoopStop`, `Defer`, `TickPacer`, `Scan`, `Reprobe`,
`Services`, `Flush`, and `WriteFinal`/`Finish`; `Raises` is the stage's exception path in `engine.py`. Time is in units and a
scan takes any of `Durations`, whatever rate was promised. A document is kept as far as a later run reads it: its open ports.

### RunEnd, Warehouse, RunArchive

`Ingested` is one transaction: an unknown stamp gets a run id, changed payloads a new version, the run's rows are deleted and
written again, facts no run has any more are dropped, and `Reconciled` recomputes first, last and hash. A statement the
tables refuse rolls all of it back (`Accepts`): the foreign key from rows to facts and UNIQUE(fact, payload, from-run) are modelled.
`RunEnd` makes these calls in the order of `engine.py`: `IngestLive` at a module's end under the live stamp, `LoseStamp` when a
pause replaces the run object, `End`, `Snapshot`, `AppendRun`, `WriteDiff` (one `try`: `HistoryFails`), `IngestRunEnd`, `Notify`,
`Housekeep`; the process may die. The dashboard's `Rebuild*` interleaves with all of it: `RebuildAsked` is the operator's POST to
`/api/warehouse/{target}/rebuild` (`app.py:684`), which looks at nothing first and so stands for the lazy fill of an empty warehouse too; one
rebuild is under way at a time.

### Targets

`tools` and `words` stand for the value an overridden setting has in the two files. A run with a profile copies, edits, reloads,
scans and restores, one step each; `open` is the handle through which a truncating write is torn. `spoilt` names what may leave an
override behind: an overlapping run, an apply refused half way, a kill, a save in between. Deletion is the registry write, the
tombstone and, later, the purge; handlers written `async def` are atomic on the event loop between awaits (`loop`), the delete
request and the purger run in threads of their own.

### PassiveRecon, SearchForge

Each source, psv3 agent and recursion worker is a thread with the list of how its calls ended (`heard`) and the hosts it holds;
`More` says what it still has to ask. `Ask` looks at the clock once and starts a call, whose first container is followed by others
(`Retry`): the adapter's attempts, and for the tool that resolves names those of its fallback, all with the limit the call began with and none with
a look at the deadline. psv3's call may be preceded by the resolver forge's own containers (`ForgeResolvers`), which do not look either.
A search query goes through `Choose` (pick an engine), a wait, `Send` (the clock is read again, an attempt without fallback begins),
`EngineAnswers`. `Hear` is how an answer becomes candidates, `Add` the late union of a thread's own set, `Collect` the main thread's
`as_completed` loop. The probe looks at the clock twice, before its list of hosts is written (`Probe`) and before its call (`ProbeCall`). `cut` (what the budget skipped
or killed: calls of the sources and the recursion, or the probe's) and `owed` are history. Out of scope names are never answers here.
An engine's rest doubles until it reaches `CooldownMax`; the level stops there, which changes no rest.

### Discovery, DnsResolve, Hosts, LoadBalance, Merge

A zone says which names answer with an address of their own and below which names a catch-all answers. `Asked` is every call of
a tool that has an output file: a file with a `.done` marker is read, otherwise the tool answers, wholly or in part. A brute-force level is a batch
of jobs, one per parent, that take chunks while the canary lets them; `HaltedAs` is what a job that was stopped is remembered as.
`WriteDoc` is the module's document; `Expand` is `expand_nested_after_vhosts`. The scope gate is `InScope`: include and exclude patterns, an
exclude outweighs. `MergeBranches` and `AppendActive` build the asset list; a name that answers with catch-all addresses alone is quarantined.
The stages are sequential, with stop, death, resume and fresh starts between and inside them. Only dns-resolve may raise: ffuf, ffuf-3 and ffuf-4, after whose
exception the branch goes on without their document, always end here (no property depends on it). Left out: the HTTP label brute (off as
shipped, `tools.yaml`), enrichment, zone-transfer notes, the cloud-suffix rule of the gate, attribution beyond passive/active/both.

## 3. Runs

Every instance says `CHECK_DEADLOCK FALSE`: runs, requests, calls and clocks are bounded and come
to an end; where something must go on, a liveness property says so.

| Run | Instance | Properties | States |
|---|---|---|---|
| `ladder` | 2 engines; a vhost module that may fail, port-check thread, merge; the main thread may crash; 2 requests of START RESUME, 1 death | StagesAfterBranches RecordedIsShown CompletedCoversLadder RunSettles | 731 k |
| `operator` | 2 engines, 1 module that may fail, 3 requests of START STOP RESUME RESTART, 1 death | OneEngine StopLeavesNothing | 113 k |
| `outside` | 1 engine; dns-resolve, whose breaker may trip, and merge, both may fail; 3 requests of START STOP RESET, 1 run from a shell | AlertNotMasked EngineEnds | 1.2 M |
| `windows` | 1 module, windows of 2 ticks, 4 windows, 3 outcomes per sliding window, probes that take 0 or 1 tick and plain calls | PauseEarned FailuresArePaused MirrorWithinPauses ThrottlePaced EveryPauseAlerts | 5.6 M |
| `overlap` | 2 invocations of 2 targets, limits 1 and 2, 1 kill | CleanMeansRun SlotsReturned LedgerWritten ImplementsSlots FleetEnds | 440 k |
| `calls` | 2 threads of a module, 1 call each, 1 retry, fallback, 2 proxies, 2 engine processes | CeilingBalanced BarredStartsOne AttemptsInOrder SkippedEarned CallsReturn | 1.0 M |
| `sweep` | 2 sweeps in a row, 3 addresses, 4 inputs, 3 profiles, window of 4 units, canary pauses at 2 | Accounted PartialDisclosed PauseEarned | 2.8 M |
| `ledger` | 1 fact with 2 payloads, 2 runs after an older snapshot or none, 3 stamps, symmetric payloads | IdentityTrue AlertsOwn ImplementsArchive DiffsChain | 2.8 M |
| `shared` | 2 targets, 2 values the operator saves, 4 operations | GlobalsRestored OwnProfile DeletedStaysHidden | 6.4 M |
| `passive` | 2 search engines, 2 hosts, 1 agent, 2 attempts per tool, deadline 3, recursion depth 2, seeds cap 1 or 2 | BudgetDisclosed NothingDropped NoLateCall PassiveEnds | 1.6 M |
| `discovery` | 4 zones, 3 words in 2 chunks, names of 2 labels, 2 parallel parents, 1 stop or death | ParentsCovered RateShared CatchAllSetAside | 5.9 M |
| `noise` | the same without stop or death | NoiseDropped (violated: section 6) | |

`TypeOK` of every module has been checked with the constants of its run and is in no configuration: it is proved for all of them.

Why the bounds are enough. *RunControl*: one module per place where the ladder treats modules differently; the next
module of the same place repeats the same loop body. Two engines are what OneEngine speaks of; three requests allow
start, stop, start again, and start, death, resume. In `ladder` the virtual-host
module and port-check run beside each other, merge waits for both, and a second engine is started or resumed on what the first left: rows done, half done, failed, or of a
crash. It has no STOP, because CompletedCoversLadder is false with one (section 6). `outside` has STOP, RESET LIMITER and the shell run, for which an alert and the
end of every engine are what remains to be said. That the verdict stays shown across stops and restarts as well is the theorem `RecordsShow`, and TLC agrees with the constants of `operator` (113 k states) and
with a third engine (530 k). *Breaker*: two ticks to a window let outcomes fall on either side of an edge and
outlive their window; four windows are BadWindows + 2, the bound in FailuresArePaused; modules share nothing but the mirror.
*Fleet*: two threads of one invocation are needed for the shared token, two invocations for the shared files. *ToolCalls*: two threads race for the
count, the cursor and a counter; one retry and the fallback are every branch of the loop; the second engine reads the health file of the first.
*PortSweep*: three addresses let one be scanned, one be at the canary and one remain; two canary windows pause; the second sweep is the one with
sentinels. *RunEnd*: two payloads give change, return and disappearance; one earlier snapshot and two runs give a predecessor, its pruning and a
rebuild beside a run end; payloads are only compared for equality, so that runs which differ in their names alone are one (SYMMETRY), and no liveness is checked. *Targets*: an overlap needs two targets; four operations allow delete, save of a stale registry, start, restore. *PassiveRecon*:
two engines for rest and take-over, two hosts for a worker that hears of another's seed; the deadline cuts at every place it is read; two attempts let a container follow one that was killed at the deadline. `Together` bounds
how many sources get past their first step in one run. *Discovery*: two labels are the first level, one nested level and the pass after the virtual hosts;
zones with a catch-all under the domain, under a word and under a virtual host's name; two chunks let a job be stopped between them. A tool fails at most once per
module run or because of a stop, and loses all its rows, none, or one.

## 4. Fairness

`RunControl`: as long as some thread of an engine (`ThreadNext(e, t)`) or the request being served (`Serve`) can go on, one of
them does. That is weaker than fairness per thread, and enough, because threads are finite and loop nowhere. Threads are scheduled by the operating system, tools have timeouts
enforced by the adapter, and every wait is a join of such a thread. No request has to be made, no process has to die, no tool has to trip. `Fleet`: weak
fairness of each job (a member ends at the latest at its timeout; while other jobs wait for a pool thread they are not enabled)
and of collecting the results; none for kills and orphans. `ToolCalls`: weak fairness of each worker's `Step`: a container exits at the latest at its
timeout; nothing makes a worker call, the operator stop, or an engine die. `PassiveRecon`: the clock ticks until the deadline, and as long as the
main thread or some thread can go on one of them does; that is weaker than fairness per thread, and enough, because every call ends and every
thread asks finitely often. `RunEnd` (beyond its refinement), `PortSweep`, `Targets`, `Discovery` and `Breaker` state no liveness.

## 5. Proofs

TLAPS checks all of the following for every value of the constants, under the assumptions the modules name; TLC evaluates these on every run.
They say that bounds, periods and limits are numbers of the right sign, that the parts of a ladder are sequences of modules with at most one port check
(`LadderAssumption`), that hosts, fleets and targets are finite and hosts are no threads (`PassiveAssumption`, `FiniteAssumption`), that every proxy entry
has a masked form (`PoolAssumption`), that an input of a sweep is well formed (`SweepAssumption`), that labels are finitely many and the depth of nested DNS is at least one (`HostsAssumption`: its floor is 1 in `tools.yaml`; `MaxLen`,
the longest name looked at, is no less), and that a zone answers every name (`DnsAssumption`). A theorem with a further hypothesis states it
after ASSUME, and the bullet says why it is needed.

**RunControl**

* *Types* (`TypeCorrect`). TypeOK is not inductive alone: `Current(p)` is a module only while `idx` is within the
  thread's list where the program counter uses it, so the invariant adds `PositionsOK`.
* *STOP leaves nothing* (`StopLeaves`, assumes `CliRuns = 0`). Inductive: every engine that is up leads its group (`AllLead`); between
  the kill and the end of the request no engine is up (`NoneLeft`); an engine that is gone has no thread that acts (`GoneIsGone`); after
  a STOP nothing is up until the next request (`QuietIsIdle`). The order process first, containers second is what the step of
  `StopContainers` needs. With shell runs the first part fails: a process that leads no group survives.
* *One engine* (`OneEngineUp`, assumes `CliRuns = 0` and no RESET). An engine up is named by `run.pid`, or is being spawned, or the
  dashboard has just killed it. The strengthening says who may clear `run.pid`: an engine clears it only at its end on a stop or a crash, and
  a stop can only have been saved by the dashboard, which kills the engine before it answers. RESET LIMITER may bring an old
  "stopped" back, after which the engine clears its own pid while it is still finalising and a second engine can start: the
  assumption is needed, and TLC shows the violation if it is dropped.
* *Stages wait, alerts show* (`StagesWait`, `AlertsShow`). `InOrder` says who has to be through, that is, ended with nothing left to
  save, before whom: port-check before the active branch, both branches before the main thread is at a stage. Then no thread is left that could raise an
  alert between the verdict and the record, which is `AlertInv`.
* *The verdict recorded is shown* (`RecordsShow`, assumes `CliRuns = 0` and no RESET; any number of engines, with STOP, RESUME, RESTART and
  deaths). From the moment the stages start nobody else of the engine has a document to save (`InOrder` again), so the document that carries the verdict is
  the last one of its run. It remains the one in the file for as long as `run.pid` names the engine, because whoever could replace it takes `run.pid` away
  first: the next engine writes its pid before its first document (`BootEmpty`; while the parent has still to write the pid, `Named`), and a STOP, which does
  replace the status, clears `run.pid` before it returns (`Cleared`). An engine records last of all (`RecordLast`), so no record belongs to an engine still
  up. While a STOP is being served the claim is not made, and TLC shows that it would be false.
* *Completed covers the ladder* (`CompletedCovers`, assumes `CliRuns = 0`, no STOP, RESTART or RESET, and `CoversAll`: every module is in some thread's list and port-check
  has virtual-host modules to run beside, as in `engine.py`). A module is skipped on a row that says done, so the invariant is about every document at once: neither the file,
  nor a document somebody is about to save, nor a snapshot a branch skips on has a done row of a module that has not run since the rows were reset (`DoneIn`). The rows are
  reset by a save, and only at a start of its own, so `finished` is emptied there and no document loaded earlier is still to be saved. What a thread has left behind has
  run, unless the run carries a partial marker (`Behind`); port-check is started before its list is passed (`PortStarted`). Any number of engines may run, die and be
  resumed one after the other. With STOP the property is false (section 6).

**Breaker**

* *Earned, mirrored, alerted, paced* (`TypeCorrect`, `PausesAreEarned`, `MirrorIsWithin`, `PausesAlert`, `ThrottleIsPaced`). The invariant ties `consecutive_bad` to the history:
  the last `bad` windows up to `last_bad_window` were all judged bad since the last good judgement. The throttle is paid for by the last window that
  throttled for errors and the last that did for latency, neither ahead of the clock (`Paced`).
* *Failures are paused* (`FailuresPause`, assumes a ratio below one, as `RatioNum < RatioDen`). With ratio one the comparison `>` never holds. While such
  a module is not paused, of every stretch of failed windows all but the first two are counted (`AllFailing`): the successes the row still holds are no younger than the
  first failed window, so from the third on the sliding window holds failures alone and its ratio is one, whatever the number of calls.

**Fleet**

* *Slots* (`TypeCorrect`, `NotOversubscribed`, `SlotsImplemented`). A running member holds a slot of its own number range although its file may
  have been deleted and created again: the invariant (`FilesCount`) says that at most as many threads hold a slot as there are files. `SlotsImplemented`
  is the step simulation of `RunnerSlots`.
* *Endings* (`CleanRuns`, `LedgersWritten`, `SlotsGivenBack`). `Sole(f)` says that the token of an invocation has been
  nobody else's; it is stable backwards (a token that is sole after a step was before), and while it holds a thread with a member, or about to delete, finds its
  own slot in the token (`TokenOwn`). So `unlink` never raises for it (`RaisedShared`) and every lock file has a thread that will delete it (`FilesOwned`).

**ToolCalls**

* *Shares and attempts* (`SharesBalance`, `BarredStart`, `AttemptsOrdered`). The ceiling's count is the number of threads between acquire and release plus
  what leaked; a thread that has started a container after a stop or under a pause is past its point of decision for good (`LateOnce`, `BarredOnce`); the attempts
  counted agree with the loop's counter at every point (`InOrder`).
* *Skips are earned* (`SkipsEarned`). Two threads read a counter, add one and write it back, and two entries of one masked form share a row of the file. Neither the counters in memory,
  nor the file, nor the number a thread has read and is about to write is ahead of the failures that did happen (`HInv`): a failure is counted in the history when the container
  exits, before its counter is written, and what is lost by a race only makes counters smaller.
* *Types* (`TypeCorrect`). All variables; shares and proxies rest on what `Grant` and `Picked` return. `TypesKept` is a step towards it, about threads, their histories and the ceiling's count only.

**PortSweep**

* *Accounting* (`TypeCorrect`, `SweepAccounts`, `PartialIsDisclosed`). Every address of the target set is where its place in the run says (`Parted`): still to do, scanned, unreachable,
  remaining or, one at most, dropped at the canary, and no scanned one is called unreachable or remaining; the address in hand is still to do until its record is written. Each ending (deadline, stop, canary, exception, end of the list)
  moves the rest where the document shows it.
* *Pauses are earned* (`PausesEarned`). `Watched` relates the pacer's counter to the verdicts of the canary: the last `bad_windows` of them were bad, each with a
  port that a snapshot of the history had open, and the sentinels are mined from that history alone.

**PassiveRecon** (in `Recon_proofs`: `PassiveInvariant`, `PassiveTypeCorrect`, `BudgetIsDisclosed`, `NothingIsDropped`, `NoCallIsLate`). The invariant `PInv` says which threads may be alive at which place of the branch
(`Resting`), that a call the budget skipped or killed was so at the deadline and somebody will still look at the clock before the branch ends (`BudgetNoted`), and that what a thread has read is a candidate or is in its own
set (`Held`), so that what an ended thread had read is a candidate unless the budget is disclosed (`Disclosed`). BudgetDisclosed speaks of the calls of the sources and the recursion: the probe comes after the last look that could mark
the result, so its own call is outside it (section 6). That no call begins after the deadline is a property of steps, for the clock is read
again after the wait for an engine; the containers of a call begun before are not bounded by it, only counted (`PassiveTypeCorrect`).

**Discovery** (in `Recon_proofs`: `DiscoveryInvariant`, `DiscoveryTypeCorrect`, `ParentsAreCovered`, `RateIsShared`, `CatchAllsAside`). For any zones, words, chunks, depths and rates, and any number of runs,
stops, deaths and resumes. The invariant `DInv` has, beside the types and what holds at each place of the branch (`Placed`), three parts.

* *Parents are covered.* What a job reads may have been written by an earlier attempt or an earlier run, so `Honest` is about all files at once: a file with a marker holds, for its parent and its chunk, every
  name that answers (`MarkedWhole`), and no row of the store or of the document shows an address the zone does not answer (`Truthful`), which is why a merge never adds a wrong one. `JobsCovered`: of a parent in the batch
  the chunks behind its job are in the store; `NamesCovered`: of the parents left all chunks are, as long as nothing failed and no reason to be partial was noted. `Holds` is monotone: the store only grows, and a name
  kept out because its answer was a catch-all's stays out as more catch-alls become known (`ParentsGrow`). `OldCovered` and `DocCovered` carry this into the document and through the second pass, which replaces it.
  A job that was halted is "paused", never "ended": with `HaltedAsEnded` the step `BruteEnds` breaks `NamesCovered`.
* *The rate is shared.* `Shared` is the strengthening: the pool times the rate of a job is within the rate the batch began with, by integer division (`PoolShares`, which needs both floors at one and the pool no larger than the rate), and no more
  jobs run than the pool has workers, which `Take` checks against a set that is finite because names are (`FiniteName`).
* *Catch-alls stay aside.* The document lists at least the catch-alls the brute force found (`DocTypes`), and whatever brings the name, its addresses are quarantined against the union of all documents (`FlushedAside`). The property speaks
  of a MERGE that ran: a stopped one leaves the list of an earlier run, which may hold names the newer document would set aside.

**RunEnd**

* *Identities* (`TypeCorrect`, `IdentityStays`). `Sound(db)` is what every ingest finds and leaves, accepted or refused: runs are recorded once (`Columns`), the versions of a fact are numbered without a gap
  (`Numbered`), a row refers to a run and a version there are (`Referred`), and a fact's first, last and hash are those of its rows with one open version (`Identified`). The last one is what
  reconciling after the deletion is for.
* *Implementation* (`ArchiveImplemented`). Under `Sound` an accepted ingest replaces exactly what its own run reads back and leaves every other run's facts, and it may only be the newest
  run's or a new one; a refused ingest, and everything else the run end does, is a stutter of `RunArchive`.
* *Differences* (`DiffsAreChained`, `AlertsAreOwn`). Unless a history block has failed, the last difference is about the last entry of runs.json (`DiffLast`), whose stamps increase (`Fresher`); the
  one written next starts from the snapshot of that entry, which is the same snapshot if it has not been pruned.

**Targets** (`TypesOfTargets`, `Hidden`, `Restored`, `Own`). A run with overrides holds the copies it has to restore (`AllHeld`); a hidden target has its
tombstone in its directory or has lost it to a purge (`HiddenInv`); as long as nothing has spoilt it a run with overrides is alone and the files hold,
stage by stage, what it has edited and not yet put back (`Undisturbed`, `Stage`).

Only model-checked: liveness (`RunSettles`, `EngineEnds`, `FleetEnds`, `CallsReturn`, `PassiveEnds`), which is out of the prover's reach. Every invariant and every other action
property that a passing run checks is a theorem.

## 6. Findings and observations

**`noise`** (run, violated). `expand_nested_after_vhosts` asks a random name under every new parent. When all parents of the pass after ffuf are
catch-alls it returns without a document; the pass after ffuf-4 makes new random names but reads the marked output file of the old ones, recognises none,
brute-forces the parents and merges each word the catch-all answers as an asset, while `hostsutil.py:108` says "drop brute catch-all noise".

The following statements of docs or comments do not hold either. They are stated in the modules ("Not kept") and no configuration checks
them; the run named, with the constants changed as given and the statement as its only property, shows each.

| Statement | Where it is made | Run, with | What happens |
|---|---|---|---|
| `RunControl!DoneStaysDone` | docs/HELP.md:417 | `ladder` | the save of one thread takes back a row that another has set to done (`state.py:109`) |
| `RunControl!CompletedCoversLadder` with STOP (`ladder` and section 5 have it without) | | `ladder`: 1 engine, requests START STOP, no death, failure or crash | a stale save takes back the STOP after one thread has obeyed it; the others go on and the main thread records "completed" (`engine.py:329`) |
| the same, with a single branch | | `operator`: 3 engines, 4 requests of START STOP RESUME, no failure, no death | STOP loads the document before a fresh START saves the new rows and saves the old ones after it (`state.py:133`): RESUME skips rows of the run before, and "completed" is recorded of a ladder none of whose modules ran since the START |
| `RunControl!LadderKeepsStop` | state.py:104 | `ladder`: 1 engine, requests START STOP, no death, MayTrip {vhost} | `persist_pause` turns "stopped" into "anomaly" without any race (`state.py:236`) |
| `RunControl!StopIsShown` | engine.py:647 | `ladder`: 1 engine, requests START STOP, no death | STOP returns and the document says running, because a starting engine loaded before it |
| `RunControl!BoardSettles` | service.py:741 | `ladder`: 1 engine, no death, MayTrip {vhost} | the port-check thread saves a stale row "running" after an anomaly verdict: the board shows a running scan with no engine |
| `Fleet!AloneNotRefused` | tests/test_c4_fleet.py:147 | `overlap`: one invocation of four targets, limit 2, no kill | threads share one token: a slot leaks and a member is refused |
| `ToolCalls!BudgetHeld` | ceiling.py:1 | `calls` | a container that started alone keeps its large share while the next gets another |
| `PortSweep!NeverAbandoned` | port_sweep.py:377 | `sweep` | the address at which the canary pauses is in no list |
| `RunEnd!VersionsTrue` | warehouse.py:296 | `ledger` | the reconciliation leaves the validity of versions as it was |
| `RunEnd!RunEndIngested` | warehouse.py:357 | `ledger` | a fact ingested live has gone: its deletion is refused by the foreign key and every further ingest of the run fails |
| `Targets!KeptForGrace` | index.html:131 | `shared` | a purge that reads the tombstone while the delete is still writing it takes it for expired and removes the directory at once |
| `Targets!RestoredUnlessKilled` | cli.py:164 | `shared` | an error between the two edits leaves the first |
| `PassiveRecon!NoDoomedContainer` | passive_recon.py:81 | `passive` | a call killed at the deadline is tried again, and the fallback after it, with the same limit (`adapter.py:198-237`); psv3 may forge resolvers without a look at the clock |
| `PassiveRecon!ProbeDisclosed` | passive_recon.py:172 | `passive` | a probe skipped at the second look at the clock, or killed at its limit, leaves no mark: hosts stay untagged in a result that is not partial (`passive_recon.py:799`) |
| `Discovery!FreshRows` | dns_resolve.py:61 | `discovery` with MaxRuns 2 | `.done` markers are never removed: a fresh START reads the old rows |
| `Discovery!ProvenRechecked` | dns_resolve.py:1070 | the same | a name whose answer has changed keeps the old one in a whole document |

Noted while reading, smaller or outside the models:

* run control: a shell run that leads no process group outlives STOP (`engine.py:741-770`); RESET LIMITER racing the end of a run leaves "running" (`state.py:255-267`),
  and with RESET among the requests two engines may be up; a breaker pause may be entered in a window that is itself within the ratio (`breaker.py:193-228`);
* fleet: two threads may meet in `release`, `unlink` raises and the ledger is lost (`fleet.py:235-238`): the exception `LedgerWritten` makes;
* calls: the share leaks when the container command cannot be assembled (`adapter.py:247-255`); the fallback's breaker key is released at no module boundary;
* sweep: the overlap guard never skips (two stamp formats); the resolution guarantee resolves and scans hosts the gate refuses; a scan killed by STOP is recorded unreachable, an
  aborted second probe as a filtered suspect; a sweep paused by the canary is done, so RESUME never scans the rest; stale sentinels can pause every sweep;
* history: stopped runs get no report; a failed history block sends the last difference once more (the exception `AlertsOwn` makes); with the predecessor's snapshot pruned every fact
  alerts; a pause that drops the live stamp leaves a phantom run; with `require_new_ip` the index of earlier addresses is mined from removed and changed rows only, so a host
  on the address of an unchanged host alerts (`notify.py:535-557` against `notify.py:506`);
* registry: a run under way writes into a purged directory again; `keys_delete` and `set_key` race; `scope.yaml` is read, changed and written without a lock; `scheduler.py` is not called by anything;
* passive: a captcha page with status 200 rests no engine; the recursion's baseline is never extended; a failed sub-step is not marked partial; a probe that was skipped or killed
  reads the `httpx.json` of an earlier run (`passive_recon.py:807-809`); names psv3 resolved reach a file only;
* active: a missing permutation file makes the module raise and ffuf work on the older document; `append_active_doc` empties the quarantine (as `tests/test_merge_wildcard.py:55` has it) and loses the catch-all
  addresses; a batch's rate is fixed when it starts; a slow canary that answers never throttles; a stop during the brute force is reported as a canary pause; partial markers are lost in a crash; a tool that
  fails after some rows is taken as whole; ffuf's old output is read again when its job fails;
* logs: copy and truncate loses the lines written in between (`logstore.py:102`).

## 7. Not modelled

* *Operator sessions* (`authstore.py`): sequential code about passwords and cookies, apart from the pipeline.
* *Supervisor* (`agent.py`): opt-in, off by default, called on a failed module with bounded attempts; nothing waits for it.
* *Self-tuning*, *reports*, *configuration*, *word and resolver lists*, *web client*: functions of files that are finished when they are read, or presentation. Their results are constants here.
* *Small modules*: `owasp_passive.py` is the last stage, an analysis nothing reads; `fast_dns.py` sends single probes whose answers are inputs of the canary.
* Within modelled components: authorisation and audit in front of the requests; the rendering of command lines and throttled settings (`apply_limit`), logs and parsing of outputs; the time a notification spends
  under the breaker's lock; the delivery of notifications and their token pool; the copy-and-truncate of log files; the shared temporary file of `write_json` (a file is replaced in one step in every model); the
  cache of search answers and the rotation of keys; the validation of single profile fields; the preparation of a fleet member's root; queries and exports of the warehouse.

What would come next: an abstract life cycle of a run that `RunControl` refines; `apply_limit` with its integer and float floors.
