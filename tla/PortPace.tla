------------------------------ MODULE PortPace ------------------------------
(* The pacer of the port sweep (pipeline/port_pace.py, class PortPacer): a    *)
(* rate that ramps up, and a canary that connects to ports an earlier run     *)
(* found open; a missed one halves the rate, and BadWindows bad windows in a   *)
(* row pause the sweep.                                                     *)
EXTENDS Integers

CONSTANTS
  RampStart, RampStep, RampEvery,   \* portsweep_ramp_*
  CanaryEvery,                      \* canary_interval_sec
  BadWindows                        \* circuit_breaker_bad_windows

ASSUME PaceAssumption ==
  /\ {RampStart, RampStep, RampEvery, CanaryEvery, BadWindows} \subseteq Nat \ {0}

Never == 0   \* last_canary before the first canary: the clock starts later

PaceState == [pps: Nat, bad_windows: Nat, last_canary: Nat, last_ramp: Nat, paused: BOOLEAN]

NewPacer(t) == [pps |-> RampStart, bad_windows |-> 0, last_canary |-> Never,
                last_ramp |-> t, paused |-> FALSE]

Least(x, y) == IF x < y THEN x ELSE y
Most(x, y) == IF x > y THEN x ELSE y

CurrentPps(s, cap) == Most(1, Least(s.pps, cap))

\* The first half of a tick: one step up the ramp, at most once an interval.
Ramped(s, t, cap) ==
  IF t - s.last_ramp >= RampEvery
    THEN [s EXCEPT !.pps = Least(@ + RampStep, cap), !.last_ramp = t]
    ELSE s

CanaryDue(s, t) == s.last_canary = Never \/ t - s.last_canary >= CanaryEvery

\* Mutant of Canary: a good window does not end a streak of bad ones.
CanaryForgives(s, missed) ==
  IF missed
    THEN LET n == s.bad_windows + 1
         IN [s EXCEPT !.pps = Most(1, @ \div 2), !.bad_windows = n,
                      !.paused = @ \/ n >= BadWindows]
    ELSE s

\* The second half: a bad window halves the rate and may pause, a good one
\* starts the count again.
Canary(s, missed) ==
  IF missed
    THEN LET n == s.bad_windows + 1
         IN [s EXCEPT !.pps = Most(1, @ \div 2), !.bad_windows = n,
                      !.paused = @ \/ n >= BadWindows]
    ELSE [s EXCEPT !.bad_windows = 0]

\* A tick at t; with no sentinel port the canary is disarmed.
Tick(s, t, cap, armed, missed) ==
  LET r == Ramped(s, t, cap)
      c == [r EXCEPT !.last_canary = t]
  IN IF ~CanaryDue(r, t) THEN r
     ELSE IF armed THEN Canary(c, missed) ELSE c
=============================================================================
