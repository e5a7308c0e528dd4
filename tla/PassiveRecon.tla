---------------------------- MODULE PassiveRecon ----------------------------
(* The passive branch (passive_recon.py).  Sources are asked in parallel        *)
(* threads under one deadline, the hosts they name become seeds of a recursion  *)
(* whose workers ask again, and a probe tags what is alive.  A host here is one *)
(* the scope gate lets in: a name it refuses changes nothing but a log.  Which  *)
(* source named a host, the files written per source, keys and parsing are left *)
(* out.                                                                         *)
EXTENDS SearchForge, FiniteSets, FiniteSetsExt, SequencesExt

CONSTANTS
  Host, Target,        \* hosts in scope, the scanned domain among them
  Agent,               \* the tools of psv3 that run in threads of their own
  Dorks,               \* how many search queries psv1 has
  Attempts,            \* of the adapter for one tool: the first and its retries
  Retries,             \* of the certificate log
  Apis, Searches, Scopes, \* calls of psv3b, psv7 and psv8: those with their keys
  SeedCalls,           \* of a seed after its dork: the certificate log and two tools
  DepthCap,            \* of the recursion
  SeedsCaps,           \* and the most seeds of an iteration, as configured
  Deadline,            \* of the branch, on a clock that starts at 1
  Together             \* bound: how many sources get past their first step in a run

Source == {"psv1", "psv2", "psv3", "psv3b", "psv4", "psv7", "psv8"}
Thread == Source \cup Agent \cup Host

\* A thread has one name, and the clock starts before the deadline.
ASSUME PassiveAssumption ==
  /\ IsFiniteSet(Host) /\ Host \cap (Source \cup Agent) = {}
  /\ {Deadline, Attempts} \subseteq Nat \ {0} /\ DepthCap \in Nat /\ SeedsCaps \subseteq Nat

VARIABLES
  now,       \* the clock, stopped at the deadline
  pool,      \* the forge's engines
  main,      \* the branch: where it is, seeds' cap, depth, seeds, baseline, new hosts, partial reasons
  place, heard, \* of every thread: where it is, and how its calls ended
  found,     \* and hosts it holds that are not candidates yet
  call,      \* and its call: the engine it waits for, until when, the containers started
  rows,      \* the candidates
  named,     \* history: hosts a running thread has read in an answer
  owed, cut  \* history: hosts read by threads that ended; what the budget cut short

passiveVars == <<now, pool, main, place, heard, found, call, rows, named, owed, cut>>

NoCall == [engine |-> None, due |-> 0, tries |-> 0]

Late == now >= Deadline
Ended(t) == place[t] \in {"done", "failed", "idle"}
Told(t, how) == how \in ToSet(heard[t])

(* ---- what a thread still has to ask, given how its calls ended ---- *)

\* A round of the certificate log asks two queries, and the rounds end with one in
\* which no query was refused, once there are names.
RoundOver(t) ==
  LET n == Len(heard[t])
  IN n > 0 /\ n % 2 = 0 /\ Told(t, "hosts") /\ "bad" \notin {heard[t][n - 1], heard[t][n]}
CtMore(t) ==
  \/ Len(heard[t]) < 2 * Retries /\ ~RoundOver(t)
  \/ Len(heard[t]) = 2 * Retries /\ ~Told(t, "hosts")   \* the other provider

\* The archive's own index is asked when both of its readers failed.
ArchiveMore(t) ==
  \/ Len(heard[t]) < 2
  \/ Len(heard[t]) = 2 /\ ToSet(heard[t]) \subseteq {"bad", "cut"}

\* What assetfinder named is resolved once every agent has ended.
ResolveMore(t) == heard[t] = <<>> /\ \E a \in Agent : a = "assetfinder" /\ Told(a, "hosts")

More(t) ==
  \/ t = "psv1" /\ Len(heard[t]) < Dorks /\ ~Told(t, "cut")
  \/ t = "psv2" /\ CtMore(t)
  \/ t = "psv3" /\ ResolveMore(t)
  \/ t = "psv3b" /\ Len(heard[t]) < Apis /\ ~Told(t, "cut")
  \/ t = "psv4" /\ ArchiveMore(t)
  \/ t = "psv7" /\ Len(heard[t]) < Searches /\ ~Told(t, "cut")
  \/ t = "psv8" /\ Len(heard[t]) < Scopes
  \/ t \in Agent /\ heard[t] = <<>>
  \/ t \in Host /\ Len(heard[t]) < 1 + SeedCalls

\* The next call goes through the forge.
ByForge(t) == t = "psv1" \/ (t \in Host /\ heard[t] = <<>>)

\* Containers a call may start: only the tool that resolves names has a fallback.
Tries(t) == IF t = "psv3" THEN 2 * Attempts ELSE Attempts

\* These keep what they read until their last call; a seed's is added by the branch.
AddsLast(t) == t \in {"psv2", "psv4", "psv8"} \cup Host

(* ---- one call of a thread ---- *)

\* The budget skips a call, or kills it at the deadline.
CutIf(late) == cut' = IF late THEN cut \cup {"calls"} ELSE cut

\* Mutant of Hear: the names of a later answer replace those of an earlier one.
HearLast(t, how, hosts) ==
  /\ heard' = [heard EXCEPT ![t] = Append(@, how)]
  /\ found' = [found EXCEPT ![t] = hosts]
  /\ named' = [named EXCEPT ![t] = @ \cup hosts]
  /\ place' = [place EXCEPT ![t] = "next"]

Hear(t, how, hosts) ==
  /\ heard' = [heard EXCEPT ![t] = Append(@, how)]
  /\ found' = [found EXCEPT ![t] = @ \cup hosts]
  /\ named' = [named EXCEPT ![t] = @ \cup hosts]
  /\ place' = [place EXCEPT ![t] = "next"]

Ready(t) ==
  /\ place[t] = "next"
  /\ More(t)
  /\ AddsLast(t) \/ found[t] = {}
  /\ t = "psv3" => \A a \in Agent : place[a] \in {"done", "idle"}

\* The first container of a call starts.
StartCall(t) ==
  /\ place' = [place EXCEPT ![t] = "flying"]
  /\ call' = [call EXCEPT ![t].tries = 1]

\* psv3 has no resolvers: the forge probes some first, in containers that are started
\* without a look at the clock.
ForgeResolvers(t) ==
  /\ t = "psv3"
  /\ Ready(t)
  /\ place' = [place EXCEPT ![t] = "forging"]
  /\ UNCHANGED <<now, pool, main, heard, found, call, rows, named, owed, cut>>

\* Mutant of Ask: a call is skipped as soon as little time is left.
AskFloor(t) ==
  /\ (Ready(t) /\ ~ByForge(t)) \/ place[t] = "forging"
  /\ CutIf(now + 1 >= Deadline)
  /\ \/ /\ now + 1 >= Deadline
        /\ Hear(t, "cut", {})
        /\ UNCHANGED call
     \/ /\ now + 1 < Deadline
        /\ StartCall(t)
        /\ UNCHANGED <<heard, found, named>>
  /\ UNCHANGED <<now, pool, main, rows, owed>>

\* A call that finds the budget spent is skipped, and no container is started.
Ask(t) ==
  /\ (Ready(t) /\ ~ByForge(t)) \/ place[t] = "forging"
  /\ CutIf(Late)
  /\ \/ /\ Late
        /\ Hear(t, "cut", {})
        /\ UNCHANGED call
     \/ /\ ~Late
        /\ StartCall(t)
        /\ UNCHANGED <<heard, found, named>>
  /\ UNCHANGED <<now, pool, main, rows, owed>>

\* An attempt failed, or was killed at the call's limit (the time that was left when it
\* began).  After a pause another container starts, in the end of the fallback, with the
\* same limit: the adapter does not know the deadline.
Retry(t) ==
  /\ place[t] = "flying"
  /\ call[t].tries < Tries(t)
  /\ call' = [call EXCEPT ![t].tries = @ + 1]
  /\ CutIf(Late)
  /\ UNCHANGED <<now, pool, main, place, heard, found, rows, named, owed>>

\* A failing agent's output counts, a refused query's or failing reader's does not,
\* and the resolved names are only written to a file.
Credited(t, how, hosts) == IF t = "psv3" \/ (how = "bad" /\ t \notin Agent) THEN {} ELSE hosts

\* How a call ended, where the thread's next call depends on it.
Ending(t, how, kept) ==
  IF t \notin {"psv2", "psv4", "assetfinder"} THEN "asked"
  ELSE IF kept # {} THEN "hosts" ELSE IF how = "ok" THEN "empty" ELSE "bad"

\* The hosts an answer names. (A bound of the model: one at most.)
Answers == {hosts \in SUBSET Host : Cardinality(hosts) <= 1}

\* A failing call may end before its last attempt: the breaker pauses the tool.
Replies(t) ==
  /\ place[t] = "flying"
  /\ call[t].engine = None
  /\ \E how \in {"ok", "bad"}, hosts \in Answers :
       LET kept == Credited(t, how, hosts)
       IN /\ Hear(t, Ending(t, how, kept), kept)
          /\ CutIf(Late /\ how = "bad")
  /\ call' = [call EXCEPT ![t] = NoCall]
  /\ UNCHANGED <<now, pool, main, rows, owed>>

\* The adapter raises: the thread is over, and what it held is lost.
Raise(t) ==
  /\ place[t] \in {"flying", "forging"}
  /\ place' = [place EXCEPT ![t] = "failed"]
  /\ found' = [found EXCEPT ![t] = {}]
  /\ named' = [named EXCEPT ![t] = IF AddsLast(t) THEN {} ELSE @]
  /\ call' = [call EXCEPT ![t] = NoCall]
  /\ UNCHANGED <<now, pool, main, heard, rows, owed, cut>>

(* ---- a query through the forge ---- *)

Choose(t) ==
  /\ \/ Ready(t) /\ ByForge(t)
     \/ place[t] = "again"
  /\ LET awake == WokenAll(pool, now)
         engine == Pick(awake)
         early == place[t] = "next" /\ Late       \* the loop looks at the clock first
     IN /\ pool' = IF early THEN pool ELSE awake
        /\ \/ /\ early \/ engine = None \/ Late
              /\ Hear(t, IF early \/ engine # None THEN "cut" ELSE "asked", {})
              /\ CutIf(early \/ engine # None)
              /\ UNCHANGED call
           \/ /\ ~early /\ engine # None /\ ~Late
              /\ place' = [place EXCEPT ![t] = "pacing"]
              /\ call' = [call EXCEPT ![t] = [engine |-> engine, due |-> Due(awake[engine]), tries |-> 0]]
              /\ UNCHANGED <<heard, found, named, cut>>
  /\ UNCHANGED <<now, main, rows, owed>>

\* Mutant of Send: the clock is not looked at again after the wait.
SendDoomed(t) ==
  /\ place[t] = "pacing"
  /\ now >= call[t].due \/ Late
  /\ pool' = [pool EXCEPT ![call[t].engine].last = now]
  /\ StartCall(t)
  /\ UNCHANGED <<now, main, heard, found, rows, named, owed, cut>>

\* The engine's distance is kept, then the clock decides again.
Send(t) ==
  /\ place[t] = "pacing"
  /\ now >= call[t].due \/ Late
  /\ pool' = [pool EXCEPT ![call[t].engine].last = now]
  /\ CutIf(Late)
  /\ \/ /\ Late
        /\ Hear(t, "cut", {})
        /\ call' = [call EXCEPT ![t] = NoCall]
     \/ /\ ~Late
        /\ StartCall(t)
        /\ UNCHANGED <<heard, found, named>>
  /\ UNCHANGED <<now, main, rows, owed>>

\* A failure is recorded and the query goes to the engine picked next.
EngineAnswers(t) ==
  /\ place[t] = "flying"
  /\ call[t].engine # None
  /\ \E how \in {"ok", "blocked", "bad"}, hosts \in Answers :
       /\ how # "ok" => hosts = {}
       /\ pool' = [pool EXCEPT ![call[t].engine] = Recorded(@, now, how)]
       /\ CutIf(Late /\ how # "ok")
       /\ \/ /\ how = "ok"
             /\ Hear(t, "asked", hosts)
          \/ /\ how # "ok"
             /\ place' = [place EXCEPT ![t] = "again"]
             /\ UNCHANGED <<heard, found, named>>
  /\ call' = [call EXCEPT ![t] = NoCall]
  /\ UNCHANGED <<now, main, rows, owed>>

(* ---- a thread gives its hosts to the candidates, and ends ---- *)

Add(t) ==
  /\ place[t] = "next" /\ t \notin Host
  /\ found[t] # {}
  /\ AddsLast(t) => ~More(t)
  /\ rows' = rows \cup found[t]
  /\ found' = [found EXCEPT ![t] = {}]
  /\ UNCHANGED <<now, pool, main, place, heard, call, named, owed, cut>>

\* A failed agent fails the source that waits for it.
Finish(t) ==
  /\ place[t] = "next"
  /\ t \notin Host => found[t] = {}
  /\ \/ /\ ~More(t)
        /\ t = "psv3" => \A a \in Agent : place[a] \in {"done", "idle"}
        /\ place' = [place EXCEPT ![t] = "done"]
     \/ /\ t = "psv3"
        /\ \A a \in Agent : Ended(a)
        /\ \E a \in Agent : place[a] = "failed"
        /\ place' = [place EXCEPT ![t] = "failed"]
  /\ UNCHANGED <<now, pool, main, heard, found, call, rows, named, owed, cut>>

(* ---- the branch ---- *)

Partial(why) == main.partial \cup {why}

\* What its threads held is gone with them.
ThreadsGone ==
  /\ place' = [t \in Thread |-> "idle"]
  /\ heard' = [t \in Thread |-> <<>>]
  /\ found' = [t \in Thread |-> {}]
  /\ named' = [t \in Thread |-> {}]
  /\ owed' = owed \cup UNION {named[t] : t \in Thread}
  /\ cut' = cut

\* The parallel sweep is over: what it found is the baseline of the recursion.
SweepEnds ==
  /\ main.at = "sweep"
  /\ \A t \in Source \cup Agent : Ended(t)
  /\ main' = [main EXCEPT !.base = rows, !.seeds = rows \ {Target},
                          !.at = IF Late THEN "probe" ELSE "recurse",
                          !.partial = IF Late THEN Partial("budget") ELSE @]
  /\ ThreadsGone
  /\ UNCHANGED <<now, pool, call, rows>>

Capped(seeds) == IF Cardinality(seeds) > main.cap THEN Partial("seeds_cap") ELSE main.partial

\* An iteration starts a worker for every seed up to the cap.
Iterate ==
  /\ main.at = "recurse"
  /\ \/ /\ main.seeds = {} \/ main.depth = DepthCap
        /\ main' = [main EXCEPT !.at = "probe"]
        /\ UNCHANGED place
     \/ /\ main.seeds # {} /\ main.depth < DepthCap
        /\ Late
        /\ main' = [main EXCEPT !.at = "probe", !.partial = Capped(main.seeds) \cup {"budget"}]
        /\ UNCHANGED place
     \/ /\ main.seeds # {} /\ main.depth < DepthCap
        /\ ~Late
        /\ \E seeds \in kSubset(Smaller(main.cap, Cardinality(main.seeds)), main.seeds) :
             /\ main' = [main EXCEPT !.at = "working", !.depth = @ + 1, !.seeds = seeds,
                                     !.partial = Capped(main.seeds)]
             /\ place' = [t \in Thread |-> IF t \in seeds THEN "next" ELSE "idle"]
  /\ UNCHANGED <<now, pool, heard, found, call, rows, named, owed, cut>>

\* Mutant of Collect: the result of a worker that failed is waited for.
CollectDone(seed) ==
  /\ main.at = "working"
  /\ place[seed] = "done"
  /\ IF Late
       THEN /\ main' = [main EXCEPT !.at = "draining", !.partial = Partial("budget")]
            /\ UNCHANGED <<place, rows>>
       ELSE /\ main' = [main EXCEPT !.fresh = @ \cup (found[seed] \ main.base)]
            /\ rows' = rows \cup found[seed]
            /\ place' = [place EXCEPT ![seed] = "idle"]
  /\ UNCHANGED <<now, pool, heard, found, call, named, owed, cut>>

\* The result of a worker, in the order they end.  Once the budget is spent the
\* results left are dropped.  A host is new when the sweep had not found it: one
\* that an earlier iteration found is a seed again.
Collect(seed) ==
  /\ main.at = "working"
  /\ place[seed] \in {"done", "failed"}
  /\ IF Late
       THEN /\ main' = [main EXCEPT !.at = "draining", !.partial = Partial("budget")]
            /\ UNCHANGED <<place, rows>>
       ELSE /\ main' = [main EXCEPT !.fresh = @ \cup (found[seed] \ main.base)]
            /\ rows' = rows \cup found[seed]
            /\ place' = [place EXCEPT ![seed] = "idle"]
  /\ UNCHANGED <<now, pool, heard, found, call, named, owed, cut>>

\* Leaving the pool waits for every worker.
IterationEnds ==
  /\ \/ main.at = "working" /\ \A seed \in main.seeds : place[seed] = "idle"
     \/ main.at = "draining" /\ \A seed \in main.seeds : Ended(seed)
  /\ main' = [main EXCEPT !.at = "recurse", !.seeds = main.fresh, !.fresh = {}]
  /\ ThreadsGone
  /\ UNCHANGED <<now, pool, call, rows>>

\* The probe tags hosts and removes none; without time it is skipped.
Probe ==
  /\ main.at = "probe"
  /\ main' = [main EXCEPT !.at = IF Late \/ rows = {} THEN "done" ELSE "listing",
                          !.partial = IF Late THEN Partial("budget") ELSE @]
  /\ UNCHANGED <<now, pool, place, heard, found, call, rows, named, owed, cut>>

\* Its list is written, and the clock is looked at once more: a probe skipped here leaves
\* no mark, nor does one killed at its limit.
ProbeCall ==
  /\ main.at = "listing"
  /\ main' = [main EXCEPT !.at = IF Late THEN "done" ELSE "probing"]
  /\ cut' = IF Late THEN cut \cup {"probe"} ELSE cut
  /\ UNCHANGED <<now, pool, place, heard, found, call, rows, named, owed>>

\* Its attempts are one step here.
Probed ==
  /\ main.at = "probing"
  /\ main' = [main EXCEPT !.at = "done"]
  /\ \E killed \in BOOLEAN :
       /\ killed => Late
       /\ cut' = IF killed THEN cut \cup {"probe"} ELSE cut
  /\ UNCHANGED <<now, pool, place, heard, found, call, rows, named, owed>>

Tick ==
  /\ main.at # "done"
  /\ ~Late
  /\ now' = now + 1
  /\ UNCHANGED <<pool, main, place, heard, found, call, rows, named, owed, cut>>

PassiveInit ==
  /\ now = 1
  /\ pool = [e \in Engine |-> Fresh]
  /\ \E cap \in SeedsCaps : main = [at |-> "sweep", cap |-> cap, depth |-> 0, seeds |-> {}, base |-> {}, fresh |-> {}, partial |-> {}]
  /\ \E live \in SUBSET Source :
       /\ Cardinality(live) <= Together
       /\ place = [t \in Thread |-> CASE t \in live \/ (t \in Agent /\ "psv3" \in live) -> "next"
                                  [] t \in Source \ live -> "failed"
                                  [] OTHER -> "idle"]
  /\ heard = [t \in Thread |-> <<>>]
  /\ found = [t \in Thread |-> {}]
  /\ call = [t \in Thread |-> NoCall]
  /\ rows = {}
  /\ named = [t \in Thread |-> {}]
  /\ owed = {} /\ cut = {}

Step(t) == ForgeResolvers(t) \/ Ask(t) \/ Retry(t) \/ Replies(t) \/ Choose(t) \/ Send(t) \/ EngineAnswers(t) \/ Add(t)
           \/ Finish(t)
BranchStep == SweepEnds \/ Iterate \/ (\E seed \in Host : Collect(seed)) \/ IterationEnds \/ Probe \/ ProbeCall
              \/ Probed

PassiveNext == Tick \/ BranchStep \/ \E t \in Thread : Step(t) \/ Raise(t)

\* Time passes, threads are scheduled and a container ends by its own timeout: something
\* goes on as long as something can.
Fairness == WF_passiveVars(Tick \/ BranchStep \/ \E t \in Thread : Step(t))

PassiveSpec == PassiveInit /\ [][PassiveNext]_passiveVars /\ Fairness

(* ---- properties ---- *)

\* Types: the clock stops at the deadline, candidates and seeds are hosts in scope, a
\* recursion is no deeper than its cap and its seeds no more than theirs.
PassiveTypeOK ==
  /\ now \in 1 .. Deadline
  /\ rows \subseteq Host /\ main.base \subseteq rows /\ main.fresh \subseteq rows
  /\ main.depth \in 0 .. DepthCap
  /\ main.at \in {"sweep", "recurse", "working", "draining", "probe", "listing", "probing", "done"}
  /\ main.at \in {"working", "draining"} => Cardinality(main.seeds) <= main.cap
  /\ main.partial \subseteq {"budget", "seeds_cap"}
  /\ \A e \in Engine : pool[e].status \in {"active", "cooldown", "isolated"}
  /\ \A t \in Thread :
       /\ place[t] \in {"idle", "next", "again", "pacing", "forging", "flying", "done", "failed"}
       /\ call[t].tries \in 0 .. Tries(t)
       /\ found[t] \subseteq named[t]

\* The branch's result is marked partial whenever the budget skipped a call of its sources
\* or of the recursion, or killed one at the deadline, although these only note it in the
\* log: time is looked at again before the recursion, in each of its iterations, with each
\* worker's result and before the probe.  The probe's own call is not in it (see below).
BudgetDisclosed ==
  main.at = "done" /\ "calls" \in cut => "budget" \in main.partial

\* A result that is not marked partial dropped nothing: every host named to a thread that
\* did not fail is a candidate, through the sources' late additions, the recursion's
\* workers and the cap on its seeds.
NothingDropped ==
  main.at = "done" /\ main.partial = {} => owed \subseteq rows

Calling == {t \in Thread : place[t] = "flying"}

\* Once the deadline has passed the calls in flight only become fewer: not even after a
\* wait for an engine's distance, a rerouted query, a list of resolvers or for the list of
\* the probe does a call begin. Containers still start, as attempts of calls begun before.
NoLateCall ==
  [][Late => Calling' \subseteq Calling /\ (main'.at = "probing" => main.at = "probing")]_passiveVars

\* The branch ends whatever the sources answer: engines that fail are rested or isolated,
\* hosts that are found again and again end with the depth cap, a worker that failed is
\* not waited for.
PassiveEnds == <>(main.at = "done")

\* Not kept (no configuration checks it): "the caller SKIPS, never fires a doomed
\* container" (passive_recon.py:81): no container is started after the deadline.
NoDoomedContainer ==
  [][Late => \A t \in Thread :
       call'[t].tries <= call[t].tries /\ (place'[t] = "forging" => place[t] = "forging")]_passiveVars

\* Not kept (no configuration checks it): a probe without time marks the result, as its
\* first look at the clock does ("passive_budget", passive_recon.py:172).
ProbeDisclosed ==
  main.at = "done" /\ "probe" \in cut => "budget" \in main.partial
=============================================================================
