----------------------------- MODULE ToolCalls -----------------------------
(***************************************************************************)
(* The tool calls of one target: Adapter.invoke with its attempts, backoff  *)
(* and fallback (pipeline/adapter.py), made by the threads of an engine     *)
(* that share one breaker, one resource ceiling (Ceiling) and one proxy     *)
(* pool (ProxyPool), over the runs of engines that may die in between.      *)
(*                                                                         *)
(* The breaker (Breaker) and the ceiling lock every call; the pool does     *)
(* not.  Of the breaker only its keys' pauses are kept: a record may pause  *)
(* a key that has a failure on record.                                      *)
(***************************************************************************)
EXTENDS Ceiling, ProxyPool

CONSTANTS
  Worker,        \* threads that call tools
  KeyOf,         \* KeyOf[w]: the module worker w calls for, its breaker key
  FallbackKey,   \* the fallback tool's own name, its breaker key
  MaxRetry,      \* tool_retry_count
  Hooked,        \* the tools among {"primary", "fallback"} with a proxy hook
  Planned0,      \* planned_concurrency of every call
  Available,     \* what the host may have available, in the budget's units
  Calls,         \* bound on the calls of each worker
  Boots          \* bound on engine processes

Key == {KeyOf[w] : w \in Worker} \cup {FallbackKey}
Tool == {"primary", "fallback"}
ExitCode == {0, 1, 124, 130}      \* ok, error, timeout, operator stop

ASSUME CallAssumption ==
  /\ DOMAIN KeyOf = Worker /\ MaxRetry \in Nat /\ Planned0 \in Nat
  /\ Hooked \subseteq Tool /\ Available \subseteq Nat /\ Available # {}
  /\ Calls \in Nat /\ Boots \in Nat
  /\ IsFiniteSet(Worker)

VARIABLES
  up,        \* an engine runs and its proxy gate has let it through
  stop,      \* state.json says the operator has stopped the run
  paused,    \* keys the breaker has paused
  hurt,      \* keys with a failure on record
  running,   \* ResourceCeiling._running
  cursor,    \* ProxyPool._cursor
  fails,     \* consecutive_fail of each entry, in memory
  known,     \* entries with a row in the pool's health
  file,      \* logs/proxy-health.json: the counters by masked form
  pc, tool, attempt, entry, code, share, count,   \* locals of each worker
  cont,      \* workers whose container runs
  late,      \* history: containers each worker has started since STOP
  barred,    \* history: containers each worker has started under a pause, per tool
  tries,     \* history: attempts of the current call, per tool
  failures,  \* history: failed attempts through entries of a masked form
  leaked,    \* history: shares of calls that raised before the try of _once
  left       \* what is left of the bounds

pool == <<cursor, fails, known, file>>
locals == <<tool, attempt, entry, code, share, count>>
seen == <<late, barred, tries, failures, leaked>>
vars == <<up, stop, paused, hurt, running, pool, pc, locals, cont, seen, left>>

Pc == {"idle", "allow", "assign", "acquire", "check", "popen", "wait", "record",
       "read", "write"}
\* Between acquire and release of the ceiling.
Holding == {"check", "popen", "wait"}
Holders == {w \in Worker : pc[w] \in Holding}

KeyNow(w) == IF tool[w] = "primary" THEN KeyOf[w] ELSE FallbackKey
Goto(w, l) == pc' = [pc EXCEPT ![w] = l]
NoTries == [t \in Tool |-> 0]

\* The call returns and its locals are gone.
Returns(w) ==
  /\ Goto(w, "idle")
  /\ tool' = [tool EXCEPT ![w] = "primary"]
  /\ attempt' = [attempt EXCEPT ![w] = 0]
  /\ entry' = [entry EXCEPT ![w] = Direct]
  /\ code' = [code EXCEPT ![w] = 0]

NoFile == [mask \in Masks |-> NotRecorded]

Init ==
  /\ up = FALSE /\ stop = FALSE
  /\ paused = {} /\ hurt = {}
  /\ running = 0
  /\ cursor = 0
  /\ fails = [i \in Entry |-> 0] /\ known = {} /\ file = NoFile
  /\ pc = [w \in Worker |-> "idle"]
  /\ tool = [w \in Worker |-> "primary"]
  /\ attempt = [w \in Worker |-> 0]
  /\ entry = [w \in Worker |-> Direct]
  /\ code = [w \in Worker |-> 0]
  /\ share = [w \in Worker |-> 0]
  /\ count = [w \in Worker |-> 0]
  /\ cont = {}
  /\ late = [w \in Worker |-> 0]
  /\ barred = [w \in Worker |-> NoTries]
  /\ tries = [w \in Worker |-> NoTries]
  /\ failures = [mask \in Masks |-> 0] /\ leaked = 0
  /\ left = [calls |-> [w \in Worker |-> Calls], boots |-> Boots]

-----------------------------------------------------------------------------
(***************************************************************************)
(* The run's start and end around the calls.                                *)
(***************************************************************************)
\* A new engine: gate, load_health, reset_paused; RESUME has overwritten a stop.
\* The gate refuses the run when an entry is not reachable.
Boot ==
  /\ ~up /\ left.boots > 0
  /\ left' = [left EXCEPT !.boots = @ - 1]
  /\ \E reachable \in {Entry, Entry \ {0}} :
       IF reachable = Entry
       THEN /\ up' = TRUE /\ stop' = FALSE
            /\ known' = LoadedKnown(file)
            /\ fails' = LoadedFails(file)
       ELSE UNCHANGED <<up, stop, known, fails>>
  /\ UNCHANGED <<paused, hurt, running, cursor, file, pc, locals, cont, seen>>

\* The operator's STOP reaches the document before it reaches the process.
RequestStop ==
  /\ up /\ ~stop
  /\ stop' = TRUE
  /\ UNCHANGED <<up, paused, hurt, running, pool, pc, locals, cont, seen, left>>

\* _release_breaker, before the next module of the same name begins.
ReleaseKey(m) ==
  /\ up /\ m \in paused \ {FallbackKey}
  /\ \A w \in Worker : KeyOf[w] = m => pc[w] = "idle"
  /\ paused' = paused \ {m} /\ hurt' = hurt \ {m}
  /\ barred' = [w \in Worker |-> IF KeyOf[w] = m THEN [barred[w] EXCEPT !["primary"] = 0]
                                 ELSE barred[w]]
  /\ UNCHANGED <<up, stop, running, pool, pc, locals, cont, late, tries, failures, leaked,
                 left>>

\* The engine ends or dies, and its memory with it.
Die ==
  /\ up
  /\ up' = FALSE
  /\ paused' = {} /\ hurt' = {} /\ running' = 0
  /\ cursor' = 0 /\ fails' = [i \in Entry |-> 0] /\ known' = {}
  /\ pc' = [w \in Worker |-> "idle"]
  /\ tool' = [w \in Worker |-> "primary"]
  /\ attempt' = [w \in Worker |-> 0]
  /\ entry' = [w \in Worker |-> Direct]
  /\ code' = [w \in Worker |-> 0]
  /\ share' = [w \in Worker |-> 0]
  /\ count' = [w \in Worker |-> 0]
  /\ cont' = {}
  /\ late' = [w \in Worker |-> 0]
  /\ barred' = [w \in Worker |-> NoTries]
  /\ tries' = [w \in Worker |-> NoTries]
  /\ leaked' = 0
  /\ UNCHANGED <<stop, file, failures, left>>

-----------------------------------------------------------------------------
(***************************************************************************)
(* invoke and its attempts.                                                 *)
(***************************************************************************)
\* invoke: nothing is tried after a stop or while the module is paused.
Invoke(w) ==
  /\ up /\ pc[w] = "idle" /\ left.calls[w] > 0
  /\ left' = [left EXCEPT !.calls[w] = @ - 1]
  /\ tries' = [tries EXCEPT ![w] = NoTries]
  /\ Goto(w, IF stop \/ KeyOf[w] \in paused THEN "idle" ELSE "allow")
  /\ UNCHANGED <<up, stop, paused, hurt, running, pool, locals, cont, late, barred, failures,
                 leaked>>

\* Mutant of EndsLoop: a fallback that fails is followed by the fallback.
EndsLoopAgain(w) ==
  /\ tool' = [tool EXCEPT ![w] = "fallback"]
  /\ attempt' = [attempt EXCEPT ![w] = 0]
  /\ entry' = [entry EXCEPT ![w] = Direct]
  /\ code' = [code EXCEPT ![w] = 0]
  /\ Goto(w, "allow")

\* The loop is over: a primary that failed is followed by the fallback, which
\* runs under its own key even when a pause has ended the primary's attempts.
EndsLoop(w) ==
  IF tool[w] = "primary"
  THEN /\ tool' = [tool EXCEPT ![w] = "fallback"]
       /\ attempt' = [attempt EXCEPT ![w] = 0]
       /\ entry' = [entry EXCEPT ![w] = Direct]
       /\ code' = [code EXCEPT ![w] = 0]
       /\ Goto(w, "allow")
  ELSE Returns(w)

\* Mutant of Continues: one attempt too many.
ContinuesOnce(w) ==
  IF code[w] = 0 THEN Returns(w)
  ELSE IF attempt[w] <= MaxRetry
  THEN /\ attempt' = [attempt EXCEPT ![w] = @ + 1]
       /\ code' = [code EXCEPT ![w] = 0]
       /\ Goto(w, "allow")
       /\ UNCHANGED <<tool, entry>>
  ELSE EndsLoop(w)

\* After an attempt: the next one, after a backoff, unless it was the last.
Continues(w) ==
  IF code[w] = 0 THEN Returns(w)
  ELSE IF attempt[w] < MaxRetry
  THEN /\ attempt' = [attempt EXCEPT ![w] = @ + 1]
       /\ code' = [code EXCEPT ![w] = 0]
       /\ Goto(w, "allow")
       /\ UNCHANGED <<tool, entry>>
  ELSE EndsLoop(w)

\* A tool without a hook is assigned once, as DIRECT.
Rotates(w) == tool[w] \in Hooked /\ (attempt[w] = 0 \/ entry[w] # Direct)

Allow(w) ==
  /\ pc[w] = "allow"
  /\ IF KeyNow(w) \in paused
     THEN EndsLoop(w)
     ELSE /\ Goto(w, IF Rotates(w) THEN "assign" ELSE "acquire")
          /\ UNCHANGED <<tool, attempt, entry, code>>
  /\ UNCHANGED <<up, stop, paused, hurt, running, pool, share, count, cont, seen, left>>

Assign(w) ==
  /\ pc[w] = "assign"
  /\ entry' = [entry EXCEPT ![w] = Picked(fails, cursor)]
  /\ cursor' = (Picked(fails, cursor) + 1) % Entries
  /\ Goto(w, "acquire")
  /\ UNCHANGED <<up, stop, paused, hurt, running, fails, known, file, tool, attempt, code, share,
                 count, cont, seen, left>>

Acquire(w) ==
  /\ pc[w] = "acquire"
  /\ \E available \in Available :
       share' = [share EXCEPT ![w] = Granted(running, Planned0, available)]
  /\ running' = running + 1
  /\ tries' = [tries EXCEPT ![w][tool[w]] = @ + 1]
  /\ Goto(w, "check")
  /\ UNCHANGED <<up, stop, paused, hurt, pool, tool, attempt, entry, code, count, cont, late,
                 barred, failures, leaked, left>>

\* Mutant of Release: only an attempt that ended well returns its share.
ReleaseOnSuccess(w) ==
  /\ running' = IF code'[w] = 0 THEN running - 1 ELSE running
  /\ share' = [share EXCEPT ![w] = 0]

\* The finally clause of _once.
Release(w) ==
  /\ running' = IF running > 0 THEN running - 1 ELSE running
  /\ share' = [share EXCEPT ![w] = 0]

\* The runner returns c; the share goes back before anything is recorded.
Completed(w, c) ==
  /\ code' = [code EXCEPT ![w] = c]
  /\ Release(w)
  /\ Goto(w, "record")
  /\ UNCHANGED <<up, stop, paused, hurt, pool, tool, attempt, entry, count, seen, left>>

\* Mutant of CheckAbort: the second look for a stop is left out.
CheckNothing(w) ==
  /\ pc[w] = "check"
  /\ Goto(w, "popen")
  /\ UNCHANGED <<up, stop, paused, hurt, running, pool, locals, cont, seen, left>>

\* _DockerRunner.run looks for a stop once more before it starts docker.
CheckAbort(w) ==
  /\ pc[w] = "check" /\ ~stop
  /\ Goto(w, "popen")
  /\ UNCHANGED <<up, stop, paused, hurt, running, pool, locals, cont, seen, left>>

Aborted(w) ==
  /\ pc[w] = "check" /\ stop
  /\ Completed(w, 130)
  /\ UNCHANGED cont

\* The call raises: before acquire, when the tool or its image is not registered, or
\* in the runner, whose share goes back.
Raises(w) ==
  /\ pc[w] \in {"acquire", "check"}
  /\ Returns(w)
  /\ IF pc[w] = "check" THEN Release(w) ELSE UNCHANGED <<running, share>>
  /\ UNCHANGED <<up, stop, paused, hurt, pool, count, cont, seen, left>>

\* docker is not on PATH or a setting is missing: the command is assembled after
\* acquire and before the try whose finally releases, and the share is lost.
Leaks(w) ==
  /\ pc[w] = "check"
  /\ Returns(w)
  /\ share' = [share EXCEPT ![w] = 0]
  /\ leaked' = leaked + 1
  /\ UNCHANGED <<up, stop, paused, hurt, running, pool, count, cont, late, barred, tries,
                 failures, left>>

Popen(w) ==
  /\ pc[w] = "popen"
  /\ cont' = cont \cup {w}
  /\ Goto(w, "wait")
  /\ late' = IF stop THEN [late EXCEPT ![w] = @ + 1] ELSE late
  /\ barred' = IF KeyNow(w) \in paused THEN [barred EXCEPT ![w][tool[w]] = @ + 1] ELSE barred
  /\ UNCHANGED <<up, stop, paused, hurt, running, pool, locals, tries, failures, leaked, left>>

PopenFails(w) ==
  /\ pc[w] = "popen"
  /\ Completed(w, 1)
  /\ UNCHANGED cont

\* The container ends by itself, or the poll loop sees a stop or the timeout
\* and kills it.
Exits(w) ==
  /\ pc[w] = "wait"
  /\ \E c \in ExitCode : (c = 130 => stop) /\ Completed(w, c)
  /\ cont' = cont \ {w}

\* A timeout or a stop of a call that is no probe counts as a success.
Failed(c) == c \notin {0, 124, 130}

BreakerRecord(w) ==
  /\ pc[w] = "record"
  /\ LET key == KeyNow(w) IN
       /\ hurt' = IF Failed(code[w]) /\ key \notin paused THEN hurt \cup {key} ELSE hurt
       /\ \E trips \in SUBSET ({key} \cap hurt') : paused' = paused \cup trips
  /\ IF entry[w] = Direct
     THEN Continues(w)
     ELSE Goto(w, "read") /\ UNCHANGED <<tool, attempt, entry, code>>
  /\ UNCHANGED <<up, stop, running, pool, share, count, cont, seen, left>>

\* record_outcome has no lock: the counter is read, and written later.
ReadHealth(w) ==
  /\ pc[w] = "read"
  /\ count' = [count EXCEPT ![w] = fails[entry[w]]]
  /\ failures' = IF code[w] = 0 THEN failures ELSE [failures EXCEPT ![MaskOf[entry[w]]] = @ + 1]
  /\ Goto(w, "write")
  /\ UNCHANGED <<up, stop, paused, hurt, running, pool, tool, attempt, entry, code, share, cont,
                 late, barred, tries, leaked, left>>

WriteHealth(w) ==
  /\ pc[w] = "write"
  /\ fails' = [fails EXCEPT ![entry[w]] = Counted(count[w], code[w] = 0)]
  /\ known' = known \cup {entry[w]}
  /\ file' = Flushed(fails', known')
  /\ count' = [count EXCEPT ![w] = 0]
  /\ Continues(w)
  /\ UNCHANGED <<up, stop, paused, hurt, running, cursor, share, cont, seen, left>>

-----------------------------------------------------------------------------
Step(w) ==
  \/ Allow(w) \/ Assign(w) \/ Acquire(w)
  \/ CheckAbort(w) \/ Aborted(w) \/ Raises(w) \/ Leaks(w)
  \/ Popen(w) \/ PopenFails(w) \/ Exits(w)
  \/ BreakerRecord(w) \/ ReadHealth(w) \/ WriteHealth(w)

Next ==
  \/ Boot \/ RequestStop \/ Die
  \/ \E m \in Key : ReleaseKey(m)
  \/ \E w \in Worker : Invoke(w) \/ Step(w)

\* A thread in a call gets on: docker answers or times out, a backoff ends.
Fairness == \A w \in Worker : WF_vars(Step(w))

Spec == Init /\ [][Next]_vars /\ Fairness

-----------------------------------------------------------------------------
TypeOK ==
  /\ up \in BOOLEAN /\ stop \in BOOLEAN
  /\ paused \subseteq Key /\ hurt \subseteq Key
  /\ running \in Nat
  /\ cursor \in Entry /\ fails \in [Entry -> Nat] /\ known \subseteq Entry
  /\ file \in [Masks -> Nat \cup {NotRecorded}]
  /\ pc \in [Worker -> Pc]
  /\ tool \in [Worker -> Tool] /\ attempt \in [Worker -> 0 .. MaxRetry]
  /\ entry \in [Worker -> Entry \cup {Direct}] /\ code \in [Worker -> ExitCode]
  /\ share \in [Worker -> Nat] /\ count \in [Worker -> Nat]
  /\ cont \subseteq Worker
  /\ late \in [Worker -> Nat] /\ barred \in [Worker -> [Tool -> Nat]]
  /\ tries \in [Worker -> [Tool -> Nat]] /\ failures \in [Masks -> Nat]
  /\ leaked \in Nat
  /\ left \in [calls : [Worker -> Nat], boots : Nat]

\* Every share acquired is returned exactly once on every way out of an attempt,
\* success, error, timeout, stop, a runner that raises; what is lost is the share of
\* a call whose docker command could not be assembled, and nothing else.
CeilingBalanced == running = Cardinality(Holders) + leaked

\* After STOP, and after the breaker has paused its key, a thread starts at
\* most the one container it had already decided on: retries, backoff and the
\* fallback do not start another.
BarredStartsOne ==
  \A w \in Worker : late[w] <= 1 /\ \A t \in Tool : barred[w][t] <= 1

\* The fallback is tried only when the primary has used up its attempts or is
\* paused, and neither tool is tried more often than configured.
AttemptsInOrder ==
  \A w \in Worker : pc[w] # "idle" =>
    /\ \A t \in Tool : tries[w][t] <= MaxRetry + 1
    /\ tool[w] = "fallback" => tries[w]["primary"] = MaxRetry + 1 \/ KeyOf[w] \in paused

\* An entry is skipped as unhealthy only if entries of its masked form have
\* really failed that often, over all runs and whatever threads race for the
\* counter.
SkippedEarned ==
  \A i \in Entry : Unhealthy(fails, i) => failures[MaskOf[i]] >= UnhealthyAfter

\* Every call returns: no attempt waits for ever, an unhealthy pool stalls
\* nobody, a stop ends retries and backoff.
CallsReturn == \A w \in Worker : pc[w] = "allow" ~> pc[w] = "idle"

\* Not kept (no configuration checks it): "Budget is never exceeded" (ceiling.py:1), the memory of
\* the containers that run at one time is within the budget.
BudgetHeld ==
  \A w, v \in Worker : w # v => share[w] + share[v] <= BudgetRam
=============================================================================
