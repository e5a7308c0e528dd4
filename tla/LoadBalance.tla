----------------------------- MODULE LoadBalance -----------------------------
(* The query rate of the DNS tools (pipeline/load_balance.py): it climbs by a   *)
(* step, a canary that fails divides it, and the second failure in a row pauses *)
(* the module for good. Time is left out: a step and a canary are due or not.   *)
EXTENDS Naturals

CONSTANTS
  QpsStart, QpsStep, QpsMax,  \* dnsx_ramp_start_qps, _step_qps, dnsx_max_qps
  QpsDivisor,                 \* throttle_divisor
  QpsBad                      \* circuit_breaker_bad_windows

ASSUME BalanceAssumption ==
  /\ {QpsStart, QpsMax, QpsDivisor} \subseteq Nat \ {0}
  /\ {QpsStep, QpsBad} \subseteq Nat

AtLeast1(n) == IF n < 1 THEN 1 ELSE n
AtMostMax(n) == IF n > QpsMax THEN QpsMax ELSE n

Balance == [qps : 1..QpsMax, bad : 0..QpsBad, paused : BOOLEAN, asked : BOOLEAN]
NewBalance == [qps |-> AtMostMax(QpsStart), bad |-> 0, paused |-> FALSE, asked |-> FALSE]

Climbed(b) == [b EXCEPT !.qps = AtMostMax(@ + QpsStep)]

\* A pause is never taken back: a later good answer only clears the count. (The
\* count goes on past QpsBad; nothing reads more of it.)
Answered(b, ok) ==
  IF ok THEN [b EXCEPT !.bad = 0, !.asked = TRUE]
  ELSE LET bad == IF b.bad = QpsBad THEN QpsBad ELSE b.bad + 1
       IN  [b EXCEPT !.qps = AtLeast1(@ \div QpsDivisor), !.bad = bad, !.asked = TRUE,
                     !.paused = @ \/ bad = QpsBad]

\* What a tick may do: the first one always asks the canary, later ones when it
\* is due. The module goes on unless the state reached is paused.
Ticks(b) ==
  UNION {LET r == IF climb THEN Climbed(b) ELSE b
         IN  {Answered(r, ok) : ok \in BOOLEAN} \cup IF r.asked THEN {r} ELSE {}
         : climb \in BOOLEAN}

\* The rate in force; a module that the breaker throttles gets a part of it.
CurrentQps(b, throttled) ==
  AtLeast1(IF throttled THEN b.qps \div QpsDivisor ELSE b.qps)
=============================================================================
