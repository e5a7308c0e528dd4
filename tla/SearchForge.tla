----------------------------- MODULE SearchForge -----------------------------
(* The pool of search engines of passive-recon (search_forge.py): an engine that *)
(* blocks rests for a while, one whose requests of the last window failed too    *)
(* often is isolated (only a block answered late brings it back to a rest), and  *)
(* requests to one keep a distance.  The cache of answers and the rotation of     *)
(* keys are left out: a query is asked at most once a run.                        *)
EXTENDS Naturals, Sequences

CONSTANTS
  Engine,        \* search engines with a key
  Rank(_),       \* their priority, the lowest first
  Cooldown,      \* first rest of an engine that blocked
  CooldownMax,   \* and the longest
  Window,        \* isolate_window_sec
  Ratio,         \* isolate_error_ratio, in percent
  Interval       \* seconds between two requests to an engine

ASSUME ForgeAssumption ==
  /\ {Cooldown, CooldownMax, Window, Ratio, Interval} \subseteq Nat
  /\ \A e \in Engine : Rank(e) \in Nat

None == "none"
Fresh == [status |-> "active", until |-> 0, level |-> 0, events |-> <<>>, last |-> 0]

\* An engine whose rest is over counts as active again.
Woken(e, now) == IF e.status = "cooldown" /\ now >= e.until THEN [e EXCEPT !.status = "active", !.until = 0] ELSE e
WokenAll(pool, now) == [e \in Engine |-> Woken(pool[e], now)]

Healthy(pool) == {e \in Engine : pool[e].status = "active"}

\* The first healthy one by priority.
Pick(pool) ==
  IF Healthy(pool) = {} THEN None
  ELSE CHOOSE e \in Healthy(pool) : \A f \in Healthy(pool) : Rank(e) <= Rank(f)

Smaller(a, b) == IF a < b THEN a ELSE b

\* Until when a request to the engine waits.
Due(e) == IF e.last = 0 THEN 0 ELSE e.last + Interval

\* The requests of the window, the new one included.
Recent(e, now, ok) == Append(SelectSeq(e.events, LAMBDA v : now - v.at <= Window), [at |-> now, ok |-> ok])

Fails(events) == Len(SelectSeq(events, LAMBDA v : ~v.ok))

\* A rest is twice the last one. (The level stops where it changes nothing any more.)
Blocked(e, now) ==
  [e EXCEPT !.level = IF Cooldown * 2 ^ @ < CooldownMax THEN @ + 1 ELSE @, !.status = "cooldown",
            !.until = now + Smaller(Cooldown * 2 ^ e.level, CooldownMax)]

\* An answer is recorded: a block starts a rest, and too many failures among at
\* least two requests isolate the engine, resting or not.
Recorded(e, now, answer) ==
  LET ok == answer = "ok"
      kept == [e EXCEPT !.events = Recent(e, now, ok)]
      rested == IF answer = "blocked" THEN Blocked(kept, now) ELSE kept
  IN IF ~ok /\ Len(kept.events) >= 2 /\ Fails(kept.events) * 100 > Ratio * Len(kept.events)
       THEN [rested EXCEPT !.status = "isolated"] ELSE rested
=============================================================================
