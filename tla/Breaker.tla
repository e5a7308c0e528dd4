------------------------------ MODULE Breaker ------------------------------
(***************************************************************************)
(* The circuit breaker of one target's run (pipeline/breaker.py): for each *)
(* module a sliding window of call outcomes, a throttle that only grows    *)
(* while the process lives, and a pause that stops the module's calls.     *)
(* Every public method holds the breaker's lock, the write of the pause    *)
(* into state.json and the notification included, so each is one action.   *)
(* What other writers of state.json do to the persisted pauses in between  *)
(* is the business of RunControl; here only RESET LIMITER interferes.      *)
(***************************************************************************)
EXTENDS Integers, FiniteSets, FiniteSetsExt

CONSTANTS
  Module,       \* modules that make calls
  NoModule,     \* nobody was notified
  WindowSec,    \* circuit_breaker_window_sec
  BadWindows,   \* circuit_breaker_bad_windows
  RatioNum,     \* circuit_breaker_error_ratio = RatioNum / RatioDen
  RatioDen,
  SlowFactor,   \* canary_latency_multiplier
  Latency,      \* latencies a probe may take; a call that is no probe has none
  NoLatency,
  MaxTime,      \* bound on the clock
  MaxEvents     \* bound on the outcomes within one sliding window

ASSUME ModuleAssumption == NoModule \notin Module
ASSUME ParamsAssumption ==
  /\ WindowSec \in Nat \ {0} /\ BadWindows \in Nat \ {0}
  /\ RatioNum \in Nat /\ RatioDen \in Nat \ {0} /\ SlowFactor \in Nat
ASSUME LatencyAssumption == Latency \subseteq Nat /\ NoLatency \notin Nat
ASSUME BoundAssumption == MaxTime \in Nat /\ MaxEvents \in Nat

VARIABLES
  now,        \* the clock
  row,        \* _ModuleBreaker of each module
  persisted,  \* breaker.paused of state.json
  notice,     \* history: whom the last step notified about, or NoModule
  cause,      \* history: what paused a paused module
  streak,     \* history: windows judged bad since the last good judgement
  fails       \* history: windows with a failed call since the last success

vars == <<now, row, persisted, notice, cause, streak, fails>>

Never == -2   \* no window yet: neither a window nor the one before window 0

\* The order of the outcomes is never looked at: the list is kept as a set, and
\* nth tells outcomes apart that are alike.
Event == [ts : Nat, error : BOOLEAN, latency : Latency \cup {NoLatency}, nth : Nat]
Row ==
  [throttle : Nat,            \* the factor is throttle_divisor ^ -throttle
   paused   : BOOLEAN,
   bad      : Nat,            \* consecutive_bad
   lastBad  : Nat \cup {Never},
   sent     : BOOLEAN,        \* anomaly_sent
   events   : SUBSET Event,
   base     : SUBSET Event,   \* the outcomes baseline_latency is the average of
   lastSlow : Nat \cup {Never}]

FreshRow ==
  [throttle |-> 0, paused |-> FALSE, bad |-> 0, lastBad |-> Never, sent |-> FALSE,
   events |-> {}, base |-> {}, lastSlow |-> Never]

Window == now \div WindowSec

-----------------------------------------------------------------------------
(***************************************************************************)
(* record(): the two evaluations of a row.                                 *)
(***************************************************************************)
Errors(events) == Cardinality({ev \in events : ev.error})

OverRatio(events) == Errors(events) * RatioDen > RatioNum * Cardinality(events)

\* What is left of a row's outcomes at the present time.
Recent(events) == {ev \in events : ev.ts >= now - WindowSec}

Outcome(events, error, latency) ==
  LET alike == {ev \in events : ev.ts = now /\ ev.error = error /\ ev.latency = latency}
  IN [ts |-> now, error |-> error, latency |-> latency, nth |-> Cardinality(alike)]

\* Mutant of BadCount: a gap between two bad windows does not count.
BadCountAnyGap(r, w) == IF r.lastBad = w THEN r.bad ELSE r.bad + 1

\* Mutant of BadCount: every bad window starts the count again.
BadCountRestarts(r, w) == IF r.lastBad = w THEN r.bad ELSE 1

\* The count of consecutive bad windows once the ratio is bad in window w.
BadCount(r, w) == IF r.lastBad = w THEN r.bad
                  ELSE IF r.lastBad = w - 1 THEN r.bad + 1
                  ELSE 1

\* Mutant of EvaluateErrors: every bad judgement throttles, not every window.
EvaluateErrorsEach(r, w) ==
  IF OverRatio(r.events)
  THEN [r EXCEPT !.bad = BadCount(r, w), !.lastBad = w, !.throttle = @ + 1]
  ELSE [r EXCEPT !.bad = 0]

\* _evaluate_errors, the pause left to Pauses
EvaluateErrors(r, w) ==
  IF OverRatio(r.events)
  THEN [r EXCEPT !.bad = BadCount(r, w), !.lastBad = w,
                 !.throttle = IF r.lastBad = w THEN @ ELSE @ + 1]
  ELSE [r EXCEPT !.bad = 0]

Pauses(r) == OverRatio(r.events) /\ r.bad >= BadWindows

\* Only latencies within the window: a long tool job is not a slow answer.
Timed(events) == {ev \in events : ev.latency # NoLatency /\ ev.latency <= WindowSec}

LatencySum(events) == MapThenSumSet(LAMBDA ev : ev.latency, events)

\* The average of timed is over SlowFactor times the average of base.
Slower(timed, base) ==
  LatencySum(timed) * Cardinality(base) > SlowFactor * LatencySum(base) * Cardinality(timed)

\* _evaluate_latency throttles, it never pauses.
EvaluateLatency(r, w) ==
  LET timed == Timed(r.events)
  IN IF timed = {} THEN r
     ELSE IF r.base = {} THEN [r EXCEPT !.base = timed]
     ELSE IF Slower(timed, r.base) /\ r.lastSlow # w
          THEN [r EXCEPT !.lastSlow = w, !.throttle = @ + 1]
          ELSE r

\* The row once the outcome is recorded, whether or not the module pauses.
Evaluated(r, ev) ==
  EvaluateErrors([r EXCEPT !.events = Recent(@ \cup {ev})], Window)

-----------------------------------------------------------------------------
Init ==
  /\ now = 0
  /\ row = [m \in Module |-> FreshRow]
  /\ persisted = {}
  /\ notice = NoModule
  /\ cause = [m \in Module |-> "none"]
  /\ streak = [m \in Module |-> {}]
  /\ fails = [m \in Module |-> {}]

Tick ==
  /\ now < MaxTime
  /\ now' = now + 1
  /\ notice' = NoModule
  /\ UNCHANGED <<row, persisted, cause, streak, fails>>

Paused(r) == [r EXCEPT !.paused = TRUE, !.sent = TRUE]

\* _pause: the mirror in state.json first, then one notification per pause.
Pause(m, r, why) ==
  /\ persisted' = persisted \cup {m}
  /\ notice' = IF r.sent THEN NoModule ELSE m
  /\ cause' = [cause EXCEPT ![m] = why]

Record(m, error, latency) ==
  LET r == Evaluated(row[m], Outcome(row[m].events, error, latency)) IN
     /\ ~row[m].paused
     /\ Cardinality(Recent(row[m].events)) < MaxEvents
     /\ streak' = [streak EXCEPT ![m] = IF OverRatio(r.events) THEN @ \cup {Window} ELSE {}]
     /\ fails' = [fails EXCEPT ![m] = IF error THEN @ \cup {Window} ELSE {}]
     /\ \/ /\ Pauses(r)
           /\ Pause(m, r, "ratio")
           /\ row' = [row EXCEPT ![m] = EvaluateLatency(Paused(r), Window)]
        \/ /\ ~Pauses(r)
           /\ row' = [row EXCEPT ![m] = EvaluateLatency(r, Window)]
           /\ notice' = NoModule
           /\ UNCHANGED <<persisted, cause>>
     /\ UNCHANGED now

\* force_pause, called by the canary of dns-resolve or port-sweep
ForcePause(m) ==
  /\ ~row[m].paused
  /\ Pause(m, row[m], "canary")
  /\ row' = [row EXCEPT ![m] = Paused(@)]
  /\ UNCHANGED <<now, streak, fails>>

\* Mutant of Released: the next pause is taken for one already notified.
ReleasedSent(r) == [r EXCEPT !.paused = FALSE, !.bad = 0]

\* Throttle, events and last windows stay.
Released(r) == [r EXCEPT !.paused = FALSE, !.bad = 0, !.sent = FALSE]

Forget(ms) ==
  /\ row' = [m \in Module |-> IF m \in ms THEN Released(row[m]) ELSE row[m]]
  /\ cause' = [m \in Module |-> IF m \in ms THEN "none" ELSE cause[m]]
  /\ streak' = [m \in Module |-> IF m \in ms THEN {} ELSE streak[m]]
  /\ fails' = [m \in Module |-> IF m \in ms THEN {} ELSE fails[m]]
  /\ notice' = NoModule

\* Mutant of ResetPaused: the mirror in state.json is left.
ResetPausedInMemory(m) ==
  /\ row[m].paused
  /\ Forget({m})
  /\ UNCHANGED <<now, persisted>>

\* reset_paused(module) at a module boundary
ResetPaused(m) ==
  /\ row[m].paused
  /\ Forget({m})
  /\ persisted' = persisted \ {m}
  /\ UNCHANGED now

\* reset_paused() at the start of a run
ResetAll ==
  /\ Forget({m \in Module : row[m].paused})
  /\ persisted' = {}
  /\ UNCHANGED now

\* RESET LIMITER clears the mirror; a live engine keeps its pauses.
ResetLimiter ==
  /\ persisted' = {}
  /\ notice' = NoModule
  /\ UNCHANGED <<now, row, cause, streak, fails>>

\* A new process: __init__ knows the persisted pauses and nothing else.
Restart ==
  /\ row' = [m \in Module |-> IF m \in persisted THEN Paused(FreshRow) ELSE FreshRow]
  /\ cause' = [m \in Module |-> IF m \in persisted THEN "loaded" ELSE "none"]
  /\ streak' = [m \in Module |-> {}]
  /\ fails' = [m \in Module |-> {}]
  /\ notice' = NoModule
  /\ UNCHANGED <<now, persisted>>

Next ==
  \/ Tick
  \/ \E m \in Module, error \in BOOLEAN, latency \in Latency \cup {NoLatency} :
       Record(m, error, latency)
  \/ \E m \in Module : ForcePause(m) \/ ResetPaused(m)
  \/ ResetAll \/ ResetLimiter \/ Restart

Spec == Init /\ [][Next]_vars

-----------------------------------------------------------------------------
TypeOK ==
  /\ now \in Nat
  /\ row \in [Module -> Row]
  /\ persisted \in SUBSET Module
  /\ notice \in Module \cup {NoModule}
  /\ cause \in [Module -> {"none", "ratio", "canary", "loaded"}]
  /\ streak \in [Module -> SUBSET Nat]
  /\ fails \in [Module -> SUBSET Nat]

\* The windows w - n + 1 .. w, the last n ones up to w.
LastWindows(w, n) == {w - i : i \in 0..(n - 1)}

\* A module paused for its error ratio has had it judged bad in BadWindows
\* consecutive windows, with no good judgement and no release in between
\* (_evaluate_errors): bad minutes far apart, a slow answer or what it did
\* before the last release do not pause it.
PauseEarned ==
  \A m \in Module : cause[m] = "ratio" =>
    LastWindows(row[m].lastBad, BadWindows) \subseteq streak[m]

\* A module that only fails is stopped: calls that fail in BadWindows + 2
\* consecutive windows, with no success and no release since the first, leave
\* it paused (one window may be spent on the call's past, one on diluting it).
FailuresArePaused ==
  \A m \in Module : ~row[m].paused =>
    \A w \in fails[m] : ~ LastWindows(w, BadWindows + 2) \subseteq fails[m]

\* A module state.json shows as paused is paused in the engine: the mirror
\* never survives the pause, whatever is released, restarted or cleared.
MirrorWithinPauses ==
  \A m \in persisted : row[m].paused

\* Every pause is notified once, when it begins, and nothing else is: a second
\* pause after a release too, but not a pause a new process finds in state.json.
EveryPauseAlerts ==
  [][\A m \in Module : notice' = m
       <=> ~row[m].paused /\ row'[m].paused]_vars

\* The throttle halves a module's rates at most once per window for errors and
\* once for latency: two calls of one bad minute do not collapse the rate twice.
ThrottlePaced ==
  \A m \in Module : row[m].throttle <= 2 * (Window + 1)
=============================================================================
