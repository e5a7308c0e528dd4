--------------------------- MODULE Breaker_proofs ---------------------------
(***************************************************************************)
(* What the circuit breaker promises for every set of modules, every       *)
(* window, ratio and number of bad windows.                                *)
(***************************************************************************)
EXTENDS Breaker, TLAPS, FiniteSetTheorems

\* The arithmetic of windows: judging a further bad window extends the run of
\* consecutive windows the row has counted.
LEMMA LastWindowsExtend ==
  ASSUME NEW w \in Nat, NEW n \in Nat, NEW S, w \in S,
         n # 0 => LastWindows(w - 1, n) \subseteq S
  PROVE  LastWindows(w, n + 1) \subseteq S
<1> SUFFICES ASSUME NEW i \in 0..n PROVE w - i \in S
  BY DEF LastWindows
<1>1. CASE i = 0
  BY <1>1
<1>2. CASE i # 0
  <2>1. w - i = (w - 1) - (i - 1) /\ i - 1 \in 0..(n - 1) /\ n # 0
    BY <1>2
  <2>2. w - i \in LastWindows(w - 1, n)
    BY <2>1 DEF LastWindows
  <2> QED BY <2>1, <2>2
<1> QED BY <1>1, <1>2

LEMMA LastWindowsShrink ==
  ASSUME NEW w \in Int, NEW n \in Nat, NEW k \in Nat, k <= n
  PROVE  LastWindows(w, k) \subseteq LastWindows(w, n)
<1> SUFFICES ASSUME NEW i \in 0..(k - 1) PROVE i \in 0..(n - 1)
  BY DEF LastWindows
<1> QED OBVIOUS

LEMMA LastWindowsOne ==
  ASSUME NEW w \in Nat, NEW S, w \in S
  PROVE  LastWindows(w, 1) \subseteq S
<1> SUFFICES ASSUME NEW i \in 0..(1 - 1) PROVE w - i \in S
  BY DEF LastWindows
<1> QED OBVIOUS

LEMMA WindowType ==
  ASSUME now \in Nat
  PROVE  Window \in Nat
BY ParamsAssumption DEF Window

LEMMA BadCountType ==
  ASSUME NEW r \in Row, NEW w \in Nat
  PROVE  BadCount(r, w) \in Nat
BY DEF BadCount, Row, Never

-----------------------------------------------------------------------------
(***************************************************************************)
(* The two evaluations, on any row: types, and what they leave alone.      *)
(***************************************************************************)
LEMMA EvaluateErrorsRow ==
  ASSUME NEW r \in Row, NEW w \in Nat
  PROVE  LET s == EvaluateErrors(r, w) IN
         /\ s \in Row
         /\ s.paused = r.paused /\ s.sent = r.sent /\ s.events = r.events
         /\ OverRatio(r.events) => s.bad = BadCount(r, w) /\ s.lastBad = w
         /\ ~OverRatio(r.events) => s.bad = 0
<1>0. BadCount(r, w) \in Nat
  BY BadCountType
<1>1. CASE OverRatio(r.events)
  <2> DEFINE k == IF r.lastBad = w THEN r.throttle ELSE r.throttle + 1
             n == BadCount(r, w)
  <2>1. k \in Nat /\ n \in Nat
    BY <1>0 DEF Row
  <2>2. EvaluateErrors(r, w) = [r EXCEPT !.bad = n, !.lastBad = w, !.throttle = k]
    BY <1>1 DEF EvaluateErrors
  <2> HIDE DEF k, n
  <2>3. [r EXCEPT !.bad = n, !.lastBad = w, !.throttle = k] \in Row
    BY <2>1 DEF Row
  <2> QED BY <1>1, <2>2, <2>3 DEF Row, n
<1>2. CASE ~OverRatio(r.events)
  BY <1>2 DEF EvaluateErrors, Row
<1> QED BY <1>1, <1>2

LEMMA EvaluateLatencyRow ==
  ASSUME NEW r \in Row, NEW w \in Nat
  PROVE  LET s == EvaluateLatency(r, w) IN
         /\ s \in Row
         /\ s.paused = r.paused /\ s.sent = r.sent /\ s.events = r.events
         /\ s.bad = r.bad /\ s.lastBad = r.lastBad
<1> DEFINE timed == Timed(r.events)
<1>0. timed \in SUBSET Event
  BY DEF Timed, Row
<1> HIDE DEF timed
<1>1. CASE timed = {}
  BY <1>1 DEF EvaluateLatency, timed
<1>2. CASE timed # {} /\ r.base = {}
  <2>1. EvaluateLatency(r, w) = [r EXCEPT !.base = timed]
    BY <1>2 DEF EvaluateLatency, timed
  <2> QED BY <2>1, <1>0 DEF Row
<1>3. CASE timed # {} /\ r.base # {}
  <2>1. EvaluateLatency(r, w) \in {r, [r EXCEPT !.lastSlow = w, !.throttle = @ + 1]}
    BY <1>3 DEF EvaluateLatency, timed
  <2>2. CASE EvaluateLatency(r, w) = r
    BY <2>2
  <2>3. CASE EvaluateLatency(r, w) = [r EXCEPT !.lastSlow = w, !.throttle = @ + 1]
    <3> DEFINE k == r.throttle + 1
    <3>1. k \in Nat
      BY DEF Row
    <3>2. EvaluateLatency(r, w) = [r EXCEPT !.lastSlow = w, !.throttle = k]
      BY <2>3
    <3> HIDE DEF k
    <3> QED BY <3>1, <3>2 DEF Row
  <2> QED BY <2>1, <2>2, <2>3
<1> QED BY <1>1, <1>2, <1>3

LEMMA OutcomeType ==
  ASSUME now \in Nat, NEW events \in SUBSET Event, IsFiniteSet(events),
         NEW error \in BOOLEAN, NEW latency \in Latency \cup {NoLatency}
  PROVE  Outcome(events, error, latency) \in Event
<1> DEFINE alike == {ev \in events : ev.ts = now /\ ev.error = error /\ ev.latency = latency}
<1>1. Cardinality(alike) \in Nat
  BY FS_Subset, FS_CardinalityType
<1>2. Outcome(events, error, latency)
        = [ts |-> now, error |-> error, latency |-> latency, nth |-> Cardinality(alike)]
  BY DEF Outcome
<1> HIDE DEF alike
<1> QED BY <1>1, <1>2 DEF Event

LEMMA EvaluatedRow ==
  ASSUME now \in Nat, NEW r \in Row, IsFiniteSet(r.events), NEW ev \in Event
  PROVE  LET s == Evaluated(r, ev) IN
         /\ s \in Row /\ IsFiniteSet(s.events)
         /\ s.paused = r.paused /\ s.sent = r.sent
         /\ OverRatio(s.events) => s.bad = BadCount(r, Window) /\ s.lastBad = Window
         /\ ~OverRatio(s.events) => s.bad = 0
<1> DEFINE E == Recent(r.events \cup {ev})
           q == [r EXCEPT !.events = E]
<1>1. E \in SUBSET Event
  BY DEF Recent, Row
<1>2. IsFiniteSet(E)
  BY FS_AddElement, FS_Subset DEF Recent
<1>3. q \in Row /\ q.events = E /\ q.paused = r.paused /\ q.sent = r.sent
      /\ q.bad = r.bad /\ q.lastBad = r.lastBad
  <2> HIDE DEF E
  <2> QED BY <1>1 DEF Row
<1>4. BadCount(q, Window) = BadCount(r, Window)
  BY <1>3 DEF BadCount
<1>5. Evaluated(r, ev) = EvaluateErrors(q, Window)
  BY DEF Evaluated
<1> HIDE DEF E, q
<1> QED BY <1>2, <1>3, <1>4, <1>5, WindowType, EvaluateErrorsRow

-----------------------------------------------------------------------------
(***************************************************************************)
(* The inductive invariant.  The count of a row is backed by the history   *)
(* of judgements, a pause is the time during which it has been notified,   *)
(* and the mirror names only paused modules.                               *)
(***************************************************************************)
FiniteEvents == \A m \in Module : IsFiniteSet(row[m].events)

CountBacked ==
  \A m \in Module : row[m].bad # 0 =>
    row[m].lastBad \in Nat /\ LastWindows(row[m].lastBad, row[m].bad) \subseteq streak[m]

RatioPauses ==
  \A m \in Module : cause[m] = "ratio" => row[m].paused /\ row[m].bad >= BadWindows

SentWhilePaused == \A m \in Module : row[m].sent <=> row[m].paused

IInv == TypeOK /\ FiniteEvents /\ CountBacked /\ RatioPauses /\ SentWhilePaused
        /\ MirrorWithinPauses

LEMMA FreshRows ==
  /\ FreshRow \in Row /\ Paused(FreshRow) \in Row
  /\ FreshRow.events = {} /\ Paused(FreshRow).events = {}
  /\ FreshRow.bad = 0 /\ Paused(FreshRow).bad = 0
  /\ ~FreshRow.paused /\ ~FreshRow.sent
  /\ Paused(FreshRow).paused /\ Paused(FreshRow).sent
BY DEF FreshRow, Paused, Row, Never

LEMMA PausedRow ==
  ASSUME NEW r \in Row
  PROVE  LET s == Paused(r) IN
         /\ s \in Row /\ s.paused /\ s.sent
         /\ s.events = r.events /\ s.bad = r.bad /\ s.lastBad = r.lastBad
BY DEF Paused, Row

LEMMA ReleasedRow ==
  ASSUME NEW r \in Row
  PROVE  LET s == Released(r) IN
         /\ s \in Row /\ ~s.paused /\ ~s.sent /\ s.events = r.events /\ s.bad = 0
BY DEF Released, Row

LEMMA InitInv == Init => IInv
<1> SUFFICES ASSUME Init PROVE IInv
  OBVIOUS
<1>1. TypeOK
  BY FreshRows DEF Init, TypeOK
<1>2. FiniteEvents
  BY FreshRows, FS_EmptySet DEF Init, FiniteEvents
<1>3. CountBacked /\ RatioPauses /\ SentWhilePaused /\ MirrorWithinPauses
  BY FreshRows DEF Init, CountBacked, RatioPauses, SentWhilePaused, MirrorWithinPauses
<1> QED BY <1>1, <1>2, <1>3 DEF IInv

\* A release, of one module or of all that are paused.
LEMMA ForgetStep ==
  ASSUME IInv, NEW ms \in SUBSET Module, Forget(ms), now' = now,
         persisted' \in SUBSET persisted, persisted' \cap ms = {}
  PROVE  IInv'
<1> USE DEF IInv, Forget
<1>0. \A m \in Module : row[m] \in Row
  BY DEF TypeOK
<1>1. TypeOK'
  <2>1. row' \in [Module -> Row]
    BY <1>0, ReleasedRow
  <2> QED BY <2>1 DEF TypeOK
<1>2. FiniteEvents'
  BY <1>0, ReleasedRow DEF FiniteEvents
<1>3. CountBacked'
  BY <1>0, ReleasedRow DEF CountBacked
<1>4. RatioPauses' /\ SentWhilePaused'
  BY <1>0, ReleasedRow DEF RatioPauses, SentWhilePaused
<1>5. MirrorWithinPauses'
  BY DEF MirrorWithinPauses, TypeOK
<1> QED BY <1>1, <1>2, <1>3, <1>4, <1>5

\* One call's outcome: the count stays backed by what was judged bad.
LEMMA CountStaysBacked ==
  ASSUME NEW r \in Row, NEW s \in Row, NEW w \in Nat, NEW S, NEW T,
         r.bad # 0 => r.lastBad \in Nat /\ LastWindows(r.lastBad, r.bad) \subseteq S,
         S \subseteq T, w \in T,
         s.bad = BadCount(r, w), s.lastBad = w
  PROVE  LastWindows(s.lastBad, s.bad) \subseteq T
<1>1. CASE r.lastBad = w
  <2>1. s.bad = r.bad
    BY <1>1 DEF BadCount
  <2>2. CASE r.bad = 0
    BY <2>1, <2>2 DEF LastWindows
  <2>3. CASE r.bad # 0
    BY <1>1, <2>1, <2>3
  <2> QED BY <2>2, <2>3
<1>2. CASE r.lastBad # w /\ r.lastBad = w - 1
  <2>1. s.bad = r.bad + 1 /\ r.bad \in Nat
    BY <1>2 DEF BadCount, Row
  <2>2. r.bad # 0 => LastWindows(w - 1, r.bad) \subseteq T
    BY <1>2
  <2> QED BY <2>1, <2>2, LastWindowsExtend
<1>3. CASE r.lastBad # w /\ r.lastBad # w - 1
  <2>1. s.bad = 1
    BY <1>3 DEF BadCount
  <2> QED BY <2>1, LastWindowsOne
<1> QED BY <1>1, <1>2, <1>3

LEMMA RecordStep ==
  ASSUME IInv, NEW m \in Module, NEW error \in BOOLEAN,
         NEW latency \in Latency \cup {NoLatency}, Record(m, error, latency)
  PROVE  /\ IInv'
         /\ \A n \in Module : notice' = n <=> ~row[n].paused /\ row'[n].paused
<1> DEFINE ev == Outcome(row[m].events, error, latency)
           r  == Evaluated(row[m], ev)
           s  == row'[m]
<1> USE DEF IInv
<1>0. now \in Nat /\ Window \in Nat /\ \A n \in Module : row[n] \in Row
  BY WindowType DEF TypeOK
<1>1. ev \in Event
  <2>1. row[m].events \in SUBSET Event /\ IsFiniteSet(row[m].events)
    BY <1>0 DEF Row, FiniteEvents
  <2> QED BY <1>0, <2>1, OutcomeType
<1>2. /\ r \in Row /\ IsFiniteSet(r.events)
      /\ r.paused <=> row[m].paused
      /\ r.sent <=> row[m].sent
      /\ OverRatio(r.events) => r.bad = BadCount(row[m], Window) /\ r.lastBad = Window
      /\ ~OverRatio(r.events) => r.bad = 0
  BY <1>0, <1>1, EvaluatedRow DEF FiniteEvents
<1>3. /\ ~row[m].paused /\ now' = now
      /\ streak' = [streak EXCEPT ![m] = IF OverRatio(r.events) THEN @ \cup {Window} ELSE {}]
      /\ fails' = [fails EXCEPT ![m] = IF error THEN @ \cup {Window} ELSE {}]
  BY DEF Record
<1>4. \/ /\ Pauses(r) /\ Pause(m, r, "ratio")
         /\ row' = [row EXCEPT ![m] = EvaluateLatency(Paused(r), Window)]
      \/ /\ ~Pauses(r) /\ notice' = NoModule /\ persisted' = persisted /\ cause' = cause
         /\ row' = [row EXCEPT ![m] = EvaluateLatency(r, Window)]
  BY DEF Record
<1> HIDE DEF ev, r
<1>5. r.bad # 0 => r.lastBad \in Nat /\ LastWindows(r.lastBad, r.bad) \subseteq streak'[m]
  <2> SUFFICES ASSUME OverRatio(r.events)
               PROVE  r.lastBad \in Nat /\ LastWindows(r.lastBad, r.bad) \subseteq streak'[m]
    BY <1>2
  <2>1. streak'[m] = streak[m] \cup {Window}
    BY <1>3 DEF TypeOK
  <2>2. row[m].bad # 0 => /\ row[m].lastBad \in Nat
                          /\ LastWindows(row[m].lastBad, row[m].bad) \subseteq streak[m]
    BY DEF CountBacked
  <2>3. /\ streak[m] \subseteq streak'[m] /\ Window \in streak'[m]
        /\ r.bad = BadCount(row[m], Window) /\ r.lastBad = Window
    BY <1>2, <2>1
  <2>4. LastWindows(r.lastBad, r.bad) \subseteq streak'[m]
    <3> DEFINE S == streak[m]
               T == streak'[m]
               q == row[m]
               w == Window
    <3>1. /\ q \in Row /\ r \in Row /\ w \in Nat /\ S \subseteq T /\ w \in T
          /\ r.bad = BadCount(q, w) /\ r.lastBad = w
          /\ q.bad # 0 => q.lastBad \in Nat /\ LastWindows(q.lastBad, q.bad) \subseteq S
      BY <1>0, <1>2, <2>2, <2>3
    <3> HIDE DEF S, T, q, w
    <3>2. LastWindows(r.lastBad, r.bad) \subseteq T
      BY <3>1, CountStaysBacked
    <3> QED BY <3>2 DEF T
  <2> QED BY <1>0, <2>3, <2>4
<1>6. /\ s \in Row /\ IsFiniteSet(s.events)
      /\ s.bad = r.bad /\ s.lastBad = r.lastBad
      /\ s.sent <=> s.paused
      /\ s.paused <=> Pauses(r)
      /\ \A n \in Module \ {m} : row'[n] = row[n]
      /\ DOMAIN row' = Module
  <2>1. CASE Pauses(r) /\ row' = [row EXCEPT ![m] = EvaluateLatency(Paused(r), Window)]
    BY <1>0, <1>2, <2>1, PausedRow, EvaluateLatencyRow DEF TypeOK
  <2>2. CASE ~Pauses(r) /\ row' = [row EXCEPT ![m] = EvaluateLatency(r, Window)]
    BY <1>0, <1>2, <1>3, <2>2, EvaluateLatencyRow DEF TypeOK, SentWhilePaused
  <2> QED BY <1>4, <2>1, <2>2
<1>7. /\ Pauses(r) => /\ persisted' = persisted \cup {m} /\ notice' = m
                      /\ cause' = [cause EXCEPT ![m] = "ratio"] /\ r.bad >= BadWindows
      /\ ~Pauses(r) => persisted' = persisted /\ notice' = NoModule /\ cause' = cause
  BY <1>2, <1>3, <1>4 DEF Pause, Pauses, SentWhilePaused
<1> HIDE DEF s
<1>8. TypeOK'
  <2>1. row' \in [Module -> Row]
    <3>1. row' = [n \in Module |-> row'[n]]
      BY <1>4 DEF TypeOK
    <3> QED BY <1>0, <1>6, <3>1 DEF s
  <2>2. streak' \in [Module -> SUBSET Nat] /\ fails' \in [Module -> SUBSET Nat]
    BY <1>0, <1>3 DEF TypeOK
  <2> QED BY <1>3, <1>7, <2>1, <2>2 DEF TypeOK
<1>9. FiniteEvents'
  BY <1>6 DEF FiniteEvents, s
<1>10. CountBacked'
  <2>1. \A n \in Module \ {m} : streak'[n] = streak[n] /\ row'[n] = row[n]
    BY <1>3, <1>6 DEF TypeOK
  <2> QED BY <1>5, <1>6, <2>1 DEF CountBacked, s
<1>11. RatioPauses'
  <2>1. CASE Pauses(r)
    BY <1>6, <1>7, <2>1 DEF RatioPauses, TypeOK, s
  <2>2. CASE ~Pauses(r)
    BY <1>3, <1>6, <1>7, <2>2 DEF RatioPauses, TypeOK, s
  <2> QED BY <2>1, <2>2
<1>12. SentWhilePaused'
  BY <1>6 DEF SentWhilePaused, s
<1>13. MirrorWithinPauses'
  <2>1. CASE Pauses(r)
    BY <1>6, <1>7, <2>1 DEF MirrorWithinPauses, TypeOK, s
  <2>2. CASE ~Pauses(r)
    <3>1. m \notin persisted
      BY <1>3 DEF MirrorWithinPauses
    <3> QED BY <1>6, <1>7, <2>2, <3>1 DEF MirrorWithinPauses, TypeOK, s
  <2> QED BY <2>1, <2>2
<1>14. \A n \in Module : notice' = n <=> ~row[n].paused /\ row'[n].paused
  BY <1>3, <1>6, <1>7, ModuleAssumption DEF s
<1> QED BY <1>8, <1>9, <1>10, <1>11, <1>12, <1>13, <1>14

LEMMA ForcePauseStep ==
  ASSUME IInv, NEW m \in Module, ForcePause(m)
  PROVE  /\ IInv'
         /\ \A n \in Module : notice' = n <=> ~row[n].paused /\ row'[n].paused
<1> USE DEF IInv
<1>0. \A n \in Module : row[n] \in Row
  BY DEF TypeOK
<1>1. /\ row' = [row EXCEPT ![m] = Paused(row[m])]
      /\ ~row[m].paused /\ now' = now /\ streak' = streak /\ fails' = fails
      /\ persisted' = persisted \cup {m} /\ cause' = [cause EXCEPT ![m] = "canary"]
      /\ notice' = m
  BY DEF ForcePause, Pause, SentWhilePaused
<1>2. /\ row'[m] \in Row /\ row'[m].paused /\ row'[m].sent
      /\ row'[m].events = row[m].events
      /\ row'[m].bad = row[m].bad /\ row'[m].lastBad = row[m].lastBad
      /\ \A n \in Module \ {m} : row'[n] = row[n]
  BY <1>0, <1>1, PausedRow DEF TypeOK
<1>3. TypeOK'
  BY <1>0, <1>1, PausedRow DEF TypeOK
<1>4. FiniteEvents' /\ SentWhilePaused'
  BY <1>2 DEF FiniteEvents, SentWhilePaused
<1>5. CountBacked'
  BY <1>1, <1>2 DEF CountBacked
<1>6. RatioPauses'
  BY <1>1, <1>2 DEF RatioPauses, TypeOK
<1>7. MirrorWithinPauses'
  BY <1>1, <1>2 DEF MirrorWithinPauses
<1>8. \A n \in Module : notice' = n <=> ~row[n].paused /\ row'[n].paused
  BY <1>1, <1>2, ModuleAssumption
<1> QED BY <1>3, <1>4, <1>5, <1>6, <1>7, <1>8

LEMMA RestartStep ==
  ASSUME IInv, Restart
  PROVE  /\ IInv'
         /\ \A n \in Module : notice' = n <=> ~row[n].paused /\ row'[n].paused
<1> USE DEF IInv, Restart
<1>1. TypeOK'
  BY FreshRows DEF TypeOK
<1>2. FiniteEvents' /\ CountBacked'
  BY FreshRows, FS_EmptySet DEF FiniteEvents, CountBacked
<1>3. RatioPauses' /\ SentWhilePaused'
  BY FreshRows DEF RatioPauses, SentWhilePaused
<1>4. MirrorWithinPauses'
  BY FreshRows DEF MirrorWithinPauses, TypeOK
<1>5. \A n \in Module : notice' = n <=> ~row[n].paused /\ row'[n].paused
  BY FreshRows, ModuleAssumption DEF MirrorWithinPauses
<1> QED BY <1>1, <1>2, <1>3, <1>4, <1>5

-----------------------------------------------------------------------------
\* Every step keeps the invariant and notifies about exactly the new pauses.
LEMMA StepInv ==
  ASSUME IInv, [Next]_vars
  PROVE  /\ IInv'
         /\ vars' = vars \/ \A n \in Module : notice' = n <=> ~row[n].paused /\ row'[n].paused
<1> DEFINE Alerts == \A n \in Module : notice' = n <=> ~row[n].paused /\ row'[n].paused
<1> USE DEF IInv
<1>1. CASE Tick
  <2>1. /\ now' = now + 1 /\ notice' = NoModule /\ row' = row /\ persisted' = persisted
        /\ cause' = cause /\ streak' = streak /\ fails' = fails
    BY <1>1 DEF Tick
  <2>2. TypeOK'
    BY <2>1 DEF TypeOK
  <2>3. FiniteEvents' /\ CountBacked' /\ RatioPauses' /\ SentWhilePaused' /\ MirrorWithinPauses'
    BY <2>1 DEF FiniteEvents, CountBacked, RatioPauses, SentWhilePaused, MirrorWithinPauses
  <2> QED BY <2>1, <2>2, <2>3, ModuleAssumption
<1>2. CASE \E m \in Module, error \in BOOLEAN, latency \in Latency \cup {NoLatency} :
             Record(m, error, latency)
  BY <1>2, RecordStep
<1>3. CASE \E m \in Module : ForcePause(m)
  BY <1>3, ForcePauseStep
<1>4. ASSUME NEW m \in Module, ResetPaused(m) PROVE IInv' /\ Alerts
  <2>1. Forget({m}) /\ now' = now /\ persisted' = persisted \ {m}
    BY <1>4 DEF ResetPaused
  <2>2. IInv'
    BY <2>1, ForgetStep
  <2>3. \A n \in Module : row'[n].paused => row[n].paused
    BY <2>1, ReleasedRow DEF Forget, TypeOK
  <2> QED BY <2>1, <2>2, <2>3, ModuleAssumption DEF Forget
<1>5. CASE ResetAll
  <2>1. /\ Forget({m \in Module : row[m].paused}) /\ now' = now /\ persisted' = {}
    BY <1>5 DEF ResetAll
  <2>2. IInv'
    BY <2>1, ForgetStep
  <2>3. \A n \in Module : row'[n].paused => row[n].paused
    BY <2>1, ReleasedRow DEF Forget, TypeOK
  <2> QED BY <2>1, <2>2, <2>3, ModuleAssumption DEF Forget
<1>6. CASE ResetLimiter
  <2>1. /\ persisted' = {} /\ notice' = NoModule /\ row' = row /\ now' = now
        /\ cause' = cause /\ streak' = streak /\ fails' = fails
    BY <1>6 DEF ResetLimiter
  <2>2. TypeOK'
    BY <2>1 DEF TypeOK
  <2>3. FiniteEvents' /\ CountBacked' /\ RatioPauses' /\ SentWhilePaused' /\ MirrorWithinPauses'
    BY <2>1 DEF FiniteEvents, CountBacked, RatioPauses, SentWhilePaused, MirrorWithinPauses
  <2> QED BY <2>1, <2>2, <2>3, ModuleAssumption
<1>7. CASE Restart
  BY <1>7, RestartStep
<1>8. CASE vars' = vars
  <2>1. /\ persisted' = persisted /\ notice' = notice /\ row' = row /\ now' = now
        /\ cause' = cause /\ streak' = streak /\ fails' = fails
    BY <1>8 DEF vars
  <2>2. TypeOK'
    BY <2>1 DEF TypeOK
  <2>3. FiniteEvents' /\ CountBacked' /\ RatioPauses' /\ SentWhilePaused' /\ MirrorWithinPauses'
    BY <2>1 DEF FiniteEvents, CountBacked, RatioPauses, SentWhilePaused, MirrorWithinPauses
  <2> QED BY <1>8, <2>2, <2>3
<1> QED BY <1>1, <1>2, <1>3, <1>4, <1>5, <1>6, <1>7, <1>8 DEF Next

\* The inductive invariant holds in every reachable state.
THEOREM Inductive == Spec => []IInv
<1>1. Init => IInv
  BY InitInv
<1>2. IInv /\ [Next]_vars => IInv'
  BY StepInv
<1> QED BY <1>1, <1>2, PTL DEF Spec

\* Type correctness of the breaker, for any number of modules and any limits.
THEOREM TypeCorrect == Spec => []TypeOK
<1>1. IInv => TypeOK
  BY DEF IInv
<1> QED BY <1>1, Inductive, PTL

\* A pause for the error ratio is earned in BadWindows consecutive windows
\* (_evaluate_errors), whatever the ratio, the window and the order of calls,
\* releases and restarts.
THEOREM PausesAreEarned == Spec => []PauseEarned
<1>1. IInv => PauseEarned
  <2> SUFFICES ASSUME IInv, NEW m \in Module, cause[m] = "ratio"
               PROVE  LastWindows(row[m].lastBad, BadWindows) \subseteq streak[m]
    BY DEF PauseEarned
  <2>1. row[m].bad >= BadWindows /\ row[m].bad \in Nat /\ row[m].bad # 0
    BY ParamsAssumption DEF IInv, RatioPauses, TypeOK, Row
  <2>2. row[m].lastBad \in Nat
        /\ LastWindows(row[m].lastBad, row[m].bad) \subseteq streak[m]
    BY <2>1 DEF IInv, CountBacked
  <2> QED BY <2>1, <2>2, LastWindowsShrink, ParamsAssumption
<1> QED BY <1>1, Inductive, PTL

\* state.json never shows a pause the engine does not honour (persist_pause,
\* clear_module_pause, clear_breaker_pauses, _load_persisted_pauses).
THEOREM MirrorIsWithin == Spec => []MirrorWithinPauses
<1>1. IInv => MirrorWithinPauses
  BY DEF IInv
<1> QED BY <1>1, Inductive, PTL

\* Each pause is notified exactly when it begins (_pause, anomaly_sent).
THEOREM PausesAlert == Spec => EveryPauseAlerts
<1>1. IInv /\ [Next]_vars
      => [\A m \in Module : notice' = m <=> ~row[m].paused /\ row'[m].paused]_vars
  BY StepInv
<1> QED BY <1>1, Inductive, PTL DEF Spec, EveryPauseAlerts
-----------------------------------------------------------------------------
(***************************************************************************)
(* The pace of the throttle.  A row names the last window that throttled   *)
(* for errors and the last that throttled for latency, neither ahead of    *)
(* the clock; the throttle is paid for by the windows up to those two.     *)
(***************************************************************************)
UpTo(w) == IF w = Never THEN 0 ELSE w + 1

Paced(r, w) ==
  /\ UpTo(r.lastBad) <= w + 1 /\ UpTo(r.lastSlow) <= w + 1
  /\ r.throttle <= UpTo(r.lastBad) + UpTo(r.lastSlow)

AllPaced == \A m \in Module : Paced(row[m], Window)

\* Time only moves to later windows.
LEMMA WindowsAdvance ==
  ASSUME now \in Nat, NEW t \in Nat, t >= now
  PROVE  t \div WindowSec >= now \div WindowSec /\ t \div WindowSec \in Nat
<1>1. WindowSec \in Nat /\ WindowSec > 0
  BY ParamsAssumption
<1>2. t \div WindowSec >= now \div WindowSec
  BY <1>1, Z3
<1>3. t \div WindowSec \in Nat
  BY ParamsAssumption
<1> QED BY <1>2, <1>3

LEMMA PacedLater ==
  ASSUME NEW r \in Row, NEW w \in Nat, NEW v \in Nat, v >= w, Paced(r, w)
  PROVE  Paced(r, v)
BY DEF Paced, UpTo, Row, Never

\* Only the two last windows and the throttle matter.
LEMMA PacedSame ==
  ASSUME NEW r \in Row, NEW s \in Row, NEW w \in Nat, Paced(r, w),
         s.lastBad = r.lastBad, s.lastSlow = r.lastSlow, s.throttle = r.throttle
  PROVE  Paced(s, w)
BY DEF Paced

LEMMA ErrorsPaced ==
  ASSUME NEW r \in Row, NEW w \in Nat, Paced(r, w)
  PROVE  Paced(EvaluateErrors(r, w), w)
<1>1. CASE OverRatio(r.events)
  <2> DEFINE k == IF r.lastBad = w THEN r.throttle ELSE r.throttle + 1
             n == BadCount(r, w)
             s == EvaluateErrors(r, w)
  <2>1. n \in Nat
    BY BadCountType
  <2>2. s = [r EXCEPT !.bad = n, !.lastBad = w, !.throttle = k]
    BY <1>1 DEF EvaluateErrors
  <2> HIDE DEF n, s
  <2>3. s.lastBad = w /\ s.throttle = k /\ s.lastSlow = r.lastSlow
    BY <2>2 DEF Row
  <2> QED BY <2>3 DEF Paced, UpTo, Row, Never, s
<1>2. CASE ~OverRatio(r.events)
  <2> DEFINE s == EvaluateErrors(r, w)
  <2>1. s.lastBad = r.lastBad /\ s.throttle = r.throttle /\ s.lastSlow = r.lastSlow
    BY <1>2 DEF EvaluateErrors, Row
  <2> QED BY <2>1 DEF Paced
<1> QED BY <1>1, <1>2

LEMMA LatencyPaced ==
  ASSUME NEW r \in Row, NEW w \in Nat, Paced(r, w)
  PROVE  Paced(EvaluateLatency(r, w), w)
<1> DEFINE timed == Timed(r.events)
           based == [r EXCEPT !.base = timed]
           slowed == [r EXCEPT !.lastSlow = w, !.throttle = @ + 1]
<1>1. \/ EvaluateLatency(r, w) = r
      \/ EvaluateLatency(r, w) = based
      \/ EvaluateLatency(r, w) = slowed /\ r.lastSlow # w
  BY DEF EvaluateLatency
<1>2. based.lastBad = r.lastBad /\ based.lastSlow = r.lastSlow /\ based.throttle = r.throttle
  BY DEF Row
<1>3. Paced(based, w)
  <2> HIDE DEF based
  <2> QED BY <1>2 DEF Paced
<1>4. slowed.lastBad = r.lastBad /\ slowed.lastSlow = w /\ slowed.throttle = r.throttle + 1
  BY DEF Row
<1>5. ASSUME r.lastSlow # w PROVE Paced(slowed, w)
  <2> HIDE DEF slowed
  <2> QED BY <1>4, <1>5 DEF Paced, UpTo, Row, Never
<1> HIDE DEF timed, based, slowed
<1> QED BY <1>1, <1>3, <1>5

\* What a step makes of a row: nothing, another pause or release, the two
\* evaluations, or a fresh row.
LEMMA StepPaced ==
  ASSUME IInv, AllPaced, [Next]_vars
  PROVE  AllPaced'
<1>0. now \in Nat /\ Window \in Nat /\ \A m \in Module : row[m] \in Row /\ Paced(row[m], Window)
  BY WindowType DEF IInv, TypeOK, AllPaced
<1>1. \A r \in Row : Paced(r, Window) => Paced(Paused(r), Window) /\ Paced(Released(r), Window)
  <2> SUFFICES ASSUME NEW r \in Row, Paced(r, Window)
               PROVE  Paced(Paused(r), Window) /\ Paced(Released(r), Window)
    OBVIOUS
  <2>1. Paused(r) \in Row /\ Released(r) \in Row
    BY PausedRow, ReleasedRow
  <2>2. /\ Paused(r).lastBad = r.lastBad /\ Paused(r).lastSlow = r.lastSlow
        /\ Paused(r).throttle = r.throttle
        /\ Released(r).lastBad = r.lastBad /\ Released(r).lastSlow = r.lastSlow
        /\ Released(r).throttle = r.throttle
    BY DEF Paused, Released, Row
  <2> QED BY <1>0, <2>1, <2>2, PacedSame
<1>2. Paced(FreshRow, Window) /\ Paced(Paused(FreshRow), Window)
  <2>1. Paced(FreshRow, Window)
    BY <1>0 DEF Paced, UpTo, FreshRow, Never
  <2> QED BY <2>1, <1>1, FreshRows
<1>3. CASE Tick
  <2>1. now' = now + 1 /\ row' = row
    BY <1>3 DEF Tick
  <2>2. Window' \in Nat /\ Window' >= Window
    <3>1. now' \in Nat /\ now' >= now
      BY <2>1, <1>0
    <3>2. Window' = now' \div WindowSec
      BY DEF Window
    <3>3. now' \div WindowSec >= now \div WindowSec /\ now' \div WindowSec \in Nat
      BY <3>1, <1>0, WindowsAdvance
    <3> QED BY <3>2, <3>3 DEF Window
  <2> QED BY <1>0, <2>1, <2>2, PacedLater DEF AllPaced
<1>4. ASSUME NEW m \in Module, NEW error \in BOOLEAN, NEW latency \in Latency \cup {NoLatency},
             Record(m, error, latency)
      PROVE AllPaced'
  <2> DEFINE ev == Outcome(row[m].events, error, latency)
             E == Recent(row[m].events \cup {ev})
             q == [row[m] EXCEPT !.events = E]
             r == EvaluateErrors(q, Window)
  <2>1. ev \in Event /\ IsFiniteSet(row[m].events)
    BY <1>0, OutcomeType DEF IInv, FiniteEvents, Row
  <2>2. E \in SUBSET Event
    BY <2>1, <1>0 DEF Recent, Row
  <2>3. q \in Row /\ q.lastBad = row[m].lastBad /\ q.lastSlow = row[m].lastSlow
        /\ q.throttle = row[m].throttle
    <3> HIDE DEF E
    <3> QED BY <1>0, <2>2 DEF Row
  <2>4. Evaluated(row[m], ev) = r
    BY DEF Evaluated
  <2> HIDE DEF ev, E, q
  <2>5. r \in Row /\ Paced(r, Window)
    BY <1>0, <2>3, EvaluateErrorsRow, ErrorsPaced, PacedSame
  <2>6. /\ row' \in {[row EXCEPT ![m] = EvaluateLatency(Paused(r), Window)],
                     [row EXCEPT ![m] = EvaluateLatency(r, Window)]}
        /\ now' = now
    BY <1>4, <2>4 DEF Record, ev
  <2> HIDE DEF r
  <2>7. Paced(EvaluateLatency(Paused(r), Window), Window)
        /\ Paced(EvaluateLatency(r, Window), Window)
    BY <1>0, <1>1, <2>5, PausedRow, LatencyPaced
  <2> QED BY <1>0, <2>6, <2>7 DEF AllPaced, Window, IInv, TypeOK
<1>5. ASSUME NEW m \in Module, ForcePause(m) PROVE AllPaced'
  <2>1. row' = [row EXCEPT ![m] = Paused(@)] /\ now' = now
    BY <1>5 DEF ForcePause
  <2> QED BY <1>0, <1>1, <2>1 DEF AllPaced, Window, IInv, TypeOK
<1>6. ASSUME NEW ms, Forget(ms), now' = now PROVE AllPaced'
  BY <1>0, <1>1, <1>6 DEF Forget, AllPaced, Window
<1>7. ASSUME NEW m \in Module, ResetPaused(m) PROVE AllPaced'
  BY <1>6, <1>7 DEF ResetPaused
<1>8. CASE ResetAll
  BY <1>6, <1>8 DEF ResetAll
<1>9. CASE ResetLimiter
  BY <1>0, <1>9 DEF ResetLimiter, AllPaced, Window
<1>10. CASE Restart
  BY <1>0, <1>2, <1>10 DEF Restart, AllPaced, Window
<1>11. CASE vars' = vars
  BY <1>0, <1>11 DEF vars, AllPaced, Window
<1> QED BY <1>3, <1>4, <1>5, <1>7, <1>8, <1>9, <1>10, <1>11 DEF Next

\* Whatever the calls, releases and restarts, a module's rates are divided at
\* most once per window for errors and once per window for latency
\* (_evaluate_errors, _evaluate_latency).
THEOREM ThrottleIsPaced == Spec => []ThrottlePaced
<1>1. Init => AllPaced
  <2> SUFFICES ASSUME Init, NEW m \in Module PROVE Paced(row[m], Window)
    BY DEF AllPaced
  <2>1. row[m] = FreshRow /\ Window \in Nat
    BY WindowType DEF Init
  <2> QED BY <2>1 DEF Paced, UpTo, FreshRow, Never
<1>2. IInv /\ AllPaced /\ [Next]_vars => AllPaced'
  BY StepPaced
<1>3. IInv /\ AllPaced => ThrottlePaced
  <2> SUFFICES ASSUME IInv, AllPaced, NEW m \in Module
               PROVE  row[m].throttle <= 2 * (Window + 1)
    BY DEF ThrottlePaced
  <2>1. row[m] \in Row /\ Window \in Nat /\ Paced(row[m], Window)
    BY WindowType DEF IInv, TypeOK, AllPaced
  <2> QED BY <2>1 DEF Paced, UpTo, Row, Never
<1> QED BY <1>1, <1>2, <1>3, Inductive, PTL DEF Spec
-----------------------------------------------------------------------------
(***************************************************************************)
(* A module that only fails is paused.  From the second window after the   *)
(* one of the first failure on no success is recent enough to dilute the   *)
(* ratio, so that every failure is judged bad and its window counted.      *)
(***************************************************************************)
\* Nothing of a row is ahead of the clock.
Timely(r, t) == r.lastBad <= t \div WindowSec /\ \A ev \in r.events : ev.ts <= t

FailsPast(F, t) == \A x \in F : x <= t \div WindowSec

\* The successes a row still holds are not younger than any failed window.
SuccessesBefore(r, F) ==
  \A ev \in r.events : ~ev.error => \A x \in F : ev.ts \div WindowSec <= x

BadWithin(r, F) == F # {} => \E x \in F : r.lastBad <= x

\* The failed windows but the first two are counted.
FailsCounted(r, F) ==
  \A x \in F, k \in Nat \ {0} :
    (\A y \in F : y <= x) /\ LastWindows(x, k + 2) \subseteq F => r.lastBad = x /\ r.bad >= k

Short(F) == \A x \in F : ~ LastWindows(x, BadWindows + 2) \subseteq F

Failing(r, F, t) ==
  /\ Timely(r, t) /\ FailsPast(F, t) /\ SuccessesBefore(r, F) /\ BadWithin(r, F)
  /\ ~r.paused => FailsCounted(r, F) /\ Short(F)

AllFailing == \A m \in Module : Failing(row[m], fails[m], now)

LEMMA NothingFails ==
  ASSUME NEW r, NEW t, Timely(r, t)
  PROVE  Failing(r, {}, t)
BY DEF Failing, FailsPast, SuccessesBefore, BadWithin, FailsCounted, Short

\* Only the outcomes, the count, the last bad window and the pause matter.
LEMMA FailingSame ==
  ASSUME NEW r, NEW s, NEW F, NEW t, Failing(r, F, t),
         s.events = r.events, s.bad = r.bad, s.lastBad = r.lastBad, r.paused => s.paused
  PROVE  Failing(s, F, t)
BY DEF Failing, Timely, SuccessesBefore, BadWithin, FailsCounted

\* An outcome that is recent is at most one window old.
LEMMA RecentWindow ==
  ASSUME NEW a \in Nat, NEW t \in Nat, a >= t - WindowSec
  PROVE  a \div WindowSec >= (t \div WindowSec) - 1 /\ a \div WindowSec \in Nat
<1>1. WindowSec \in Nat /\ WindowSec > 0
  BY ParamsAssumption
<1>2. (a + WindowSec) \div WindowSec >= t \div WindowSec
  <2>1. a + WindowSec \in Nat /\ a + WindowSec >= t
    BY <1>1
  <2> QED BY <1>1, <2>1, Z3
<1>3. (a + WindowSec) \div WindowSec = (a \div WindowSec) + 1
  BY <1>1, Z3
<1>4. a \div WindowSec \in Nat /\ t \div WindowSec \in Nat
  BY <1>1
<1> QED BY <1>2, <1>3, <1>4

\* Outcomes that are all failures are over any ratio below one.
LEMMA AllErrorsOver ==
  ASSUME NEW E, IsFiniteSet(E), E # {}, \A ev \in E : ev.error, RatioNum < RatioDen
  PROVE  OverRatio(E)
<1>1. {ev \in E : ev.error} = E
  OBVIOUS
<1> DEFINE n == Cardinality(E)
<1>2. n \in Nat /\ n # 0
  BY FS_CardinalityType, FS_EmptySet
<1>3. Errors(E) = n
  BY <1>1 DEF Errors
<1> HIDE DEF n
<1>4. n * RatioDen > RatioNum * n
  <2>1. RatioNum \in Nat /\ RatioDen \in Nat /\ RatioDen - RatioNum \in Nat \ {0}
    BY ParamsAssumption
  <2> DEFINE d == RatioDen - RatioNum
  <2>2. n * d > 0
    <3> HIDE DEF d
    <3> QED BY <1>2, <2>1, Z3 DEF d
  <2>3. n * RatioDen = RatioNum * n + n * d
    BY <1>2, <2>1, Z3
  <2>4. n * d \in Int /\ RatioNum * n \in Int
    BY <1>2, <2>1
  <2> HIDE DEF d
  <2> QED BY <2>2, <2>3, <2>4
<1> QED BY <1>3, <1>4 DEF OverRatio, n

\* What the judgement of a row looks at and leaves.
LEMMA EvaluatedEvents ==
  ASSUME now \in Nat, NEW r \in Row, NEW ev \in Event
  PROVE  LET s == Evaluated(r, ev) IN
         /\ s.events = Recent(r.events \cup {ev})
         /\ ~OverRatio(s.events) => s.lastBad = r.lastBad
<1> DEFINE E == Recent(r.events \cup {ev})
           q == [r EXCEPT !.events = E]
           s == EvaluateErrors(q, Window)
<1>1. E \in SUBSET Event
  BY DEF Recent, Row
<1> HIDE DEF E
<1>2. q \in Row /\ q.events = E /\ q.lastBad = r.lastBad
  BY <1>1 DEF Row
<1> HIDE DEF q
<1>3. s.events = E
  BY <1>2, WindowType, EvaluateErrorsRow
<1>4. ~OverRatio(E) => s.lastBad = r.lastBad
  BY <1>2 DEF EvaluateErrors, Row
<1>5. Evaluated(r, ev) = s
  BY DEF Evaluated, q, E
<1> HIDE DEF s
<1> QED BY <1>3, <1>4, <1>5 DEF E

\* The windows before the last one.
LEMMA LastWindowsAre ==
  ASSUME NEW w \in Nat, NEW k \in Nat \ {0}
  PROVE  /\ w - 1 \in LastWindows(w, k + 2) /\ w - 2 \in LastWindows(w, k + 2)
         /\ k > 1 => LastWindows(w - 1, (k - 1) + 2) \subseteq LastWindows(w, k + 2)
         /\ \A v \in LastWindows(w - 1, (k - 1) + 2) : v < w
<1>1. w - 1 \in LastWindows(w, k + 2)
  <2>1. 1 \in 0..(k + 2 - 1)
    OBVIOUS
  <2> QED BY <2>1 DEF LastWindows
<1>2. w - 2 \in LastWindows(w, k + 2)
  <2>1. 2 \in 0..(k + 2 - 1)
    OBVIOUS
  <2> QED BY <2>1 DEF LastWindows
<1>3. ASSUME NEW i \in 0..((k - 1) + 2 - 1)
      PROVE  (w - 1) - i \in LastWindows(w, k + 2) /\ (w - 1) - i < w
  <2>1. i + 1 \in 0..(k + 2 - 1) /\ (w - 1) - i = w - (i + 1)
    OBVIOUS
  <2>2. (w - 1) - i \in LastWindows(w, k + 2)
    BY <2>1 DEF LastWindows
  <2> QED BY <2>2
<1> QED BY <1>1, <1>2, <1>3 DEF LastWindows

\* A failure in a window whose two windows before failed too is judged bad, for no
\* success is recent any more.
LEMMA FailsOver ==
  ASSUME NEW t \in Nat, NEW r \in Row, NEW F \in SUBSET Nat, NEW E, NEW ev \in Event,
         RatioNum < RatioDen, SuccessesBefore(r, F), IsFiniteSet(E),
         E \subseteq r.events \cup {ev}, ev \in E, ev.error,
         \A x \in E : x.ts >= t - WindowSec,
         (t \div WindowSec) - 2 \in F
  PROVE  OverRatio(E)
<1>1. ASSUME NEW x \in E, ~x.error PROVE FALSE
  <2>1. x \in r.events /\ x \in Event
    BY <1>1 DEF Row
  <2>2. x.ts \in Nat /\ x.ts >= t - WindowSec
    BY <2>1 DEF Event
  <2>3. x.ts \div WindowSec <= (t \div WindowSec) - 2
    BY <1>1, <2>1 DEF SuccessesBefore
  <2>4. x.ts \div WindowSec >= (t \div WindowSec) - 1 /\ x.ts \div WindowSec \in Nat
    BY <2>2, RecentWindow
  <2>5. t \div WindowSec \in Nat
    BY ParamsAssumption
  <2> QED BY <2>3, <2>4, <2>5
<1> QED BY <1>1, AllErrorsOver

\* The count after a failure in window w.
LEMMA CountGrows ==
  ASSUME NEW r \in Row, NEW s \in Row, NEW F \in SUBSET Nat, NEW w \in Nat,
         \A x \in F : x <= w, BadWithin(r, F), FailsCounted(r, F),
         NEW k \in Nat \ {0}, LastWindows(w, k + 2) \subseteq F \cup {w},
         s.bad = BadCount(r, w), s.lastBad = w
  PROVE  s.lastBad = w /\ s.bad >= k
<1>0. r.bad \in Nat /\ r.lastBad \in Nat \cup {Never}
  BY DEF Row
<1>1. CASE w \in F
  <2>1. F \cup {w} = F
    BY <1>1
  <2>2. r.lastBad = w /\ r.bad >= k
    BY <1>1, <2>1 DEF FailsCounted
  <2> QED BY <2>2 DEF BadCount
<1>2. CASE w \notin F
  <2>1. w - 1 \in F
    BY <1>2, LastWindowsAre
  <2>2. r.lastBad < w
    <3>1. PICK x \in F : r.lastBad <= x
      BY <2>1 DEF BadWithin
    <3>2. x < w
      BY <1>2
    <3> QED BY <1>0, <3>1, <3>2 DEF Never
  <2>3. s.bad = IF r.lastBad = w - 1 THEN r.bad + 1 ELSE 1
    BY <1>0, <2>2 DEF BadCount
  <2>4. CASE k = 1
    BY <1>0, <2>3, <2>4
  <2>5. CASE k # 1
    <3> DEFINE j == k - 1
    <3>1. k > 1 /\ j \in Nat \ {0}
      BY <2>5
    <3>2. LastWindows(w - 1, j + 2) \subseteq F
      <4>1. LastWindows(w - 1, (k - 1) + 2) \subseteq F \cup {w}
        BY <3>1, LastWindowsAre
      <4>2. \A v \in LastWindows(w - 1, (k - 1) + 2) : v < w
        BY LastWindowsAre
      <4>3. w \notin LastWindows(w - 1, (k - 1) + 2)
        BY <4>2
      <4> QED BY <4>1, <4>3
    <3>3. \A y \in F : y <= w - 1
      BY <1>2
    <3> HIDE DEF j
    <3>4. r.lastBad = w - 1 /\ r.bad >= j
      BY <2>1, <3>1, <3>2, <3>3 DEF FailsCounted
    <3> QED BY <1>0, <2>3, <3>1, <3>4 DEF j
  <2> QED BY <2>4, <2>5
<1> QED BY <1>1, <1>2

\* A failure is recorded of a module that is not paused.
LEMMA FailureCounts ==
  ASSUME NEW t \in Nat, NEW r \in Row, NEW s \in Row, NEW F \in SUBSET Nat, NEW ev \in Event,
         NEW w, w = t \div WindowSec, RatioNum < RatioDen, Failing(r, F, t), ~r.paused,
         IsFiniteSet(s.events), s.events \subseteq r.events \cup {ev}, ev \in s.events,
         ev.error, ev.ts = t, \A x \in s.events : x.ts >= t - WindowSec,
         OverRatio(s.events) => s.bad = BadCount(r, w) /\ s.lastBad = w,
         ~OverRatio(s.events) => s.lastBad = r.lastBad
  PROVE  /\ Timely(s, t) /\ FailsPast(F \cup {w}, t) /\ SuccessesBefore(s, F \cup {w})
         /\ BadWithin(s, F \cup {w}) /\ FailsCounted(s, F \cup {w})
         /\ ~Pauses(s) => Short(F \cup {w})
<1> DEFINE G == F \cup {w}
<1>0. w \in Nat /\ BadWindows \in Nat \ {0}
  BY ParamsAssumption
<1>1. Timely(r, t) /\ FailsPast(F, t) /\ SuccessesBefore(r, F) /\ BadWithin(r, F)
      /\ FailsCounted(r, F) /\ Short(F)
  BY DEF Failing
<1>2. Timely(s, t)
  <2>1. s.lastBad <= w
    BY <1>0, <1>1 DEF Timely
  <2> QED BY <1>1, <2>1 DEF Timely
<1>3. FailsPast(G, t)
  BY <1>0, <1>1 DEF FailsPast
<1>4. SuccessesBefore(s, G)
  <2> SUFFICES ASSUME NEW x \in s.events, ~x.error, NEW y \in G PROVE x.ts \div WindowSec <= y
    BY DEF SuccessesBefore
  <2>1. x \in r.events /\ x \in Event
    BY DEF Row
  <2>2. CASE y \in F
    BY <1>1, <2>1, <2>2 DEF SuccessesBefore
  <2>3. CASE y = w
    <3>1. x.ts \in Nat /\ x.ts <= t
      BY <1>1, <2>1 DEF Timely, Event
    <3>2. t \div WindowSec >= x.ts \div WindowSec /\ t \div WindowSec \in Nat
      <4>1. WindowSec \in Nat /\ WindowSec > 0
        BY ParamsAssumption
      <4> QED BY <3>1, <4>1, Z3
    <3>3. x.ts \div WindowSec \in Nat
      BY <3>1, ParamsAssumption
    <3> QED BY <2>3, <3>2, <3>3
  <2> QED BY <2>2, <2>3
<1>5. BadWithin(s, G)
  BY <1>2 DEF BadWithin, Timely
<1>6. \A x \in F : x <= w
  BY <1>1 DEF FailsPast
<1>7. ASSUME NEW k \in Nat \ {0}, LastWindows(w, k + 2) \subseteq G
      PROVE  OverRatio(s.events) /\ s.lastBad = w /\ s.bad >= k
  <2>1. w - 2 \in F
    BY <1>0, <1>7, LastWindowsAre
  <2>2. OverRatio(s.events)
    BY <1>1, <2>1, FailsOver
  <2> QED BY <1>0, <1>1, <1>6, <1>7, <2>2, CountGrows
<1>8. FailsCounted(s, G)
  <2> SUFFICES ASSUME NEW x \in G, NEW k \in Nat \ {0}, \A y \in G : y <= x,
                      LastWindows(x, k + 2) \subseteq G
               PROVE  s.lastBad = x /\ s.bad >= k
    BY DEF FailsCounted
  <2>1. x = w
    <3>1. x \in Nat /\ w <= x /\ x <= w
      BY <1>0, <1>6
    <3> QED BY <1>0, <3>1
  <2> QED BY <1>7, <2>1
<1>9. ASSUME ~Pauses(s), NEW x \in G, LastWindows(x, BadWindows + 2) \subseteq G PROVE FALSE
  <2>1. CASE x = w
    BY <1>0, <1>7, <1>9, <2>1 DEF Pauses
  <2>2. CASE x # w
    <3>1. x \in F /\ x < w
      BY <1>0, <1>6, <2>2
    <3>2. w \notin LastWindows(x, BadWindows + 2)
      BY <1>0, <3>1 DEF LastWindows
    <3>3. LastWindows(x, BadWindows + 2) \subseteq F
      BY <1>9, <3>2
    <3> QED BY <1>1, <3>1, <3>3 DEF Short
  <2> QED BY <2>1, <2>2
<1> QED BY <1>2, <1>3, <1>4, <1>5, <1>8, <1>9 DEF Short
LEMMA RecordFails ==
  ASSUME IInv, AllFailing, RatioNum < RatioDen, NEW m \in Module, NEW error \in BOOLEAN,
         NEW latency \in Latency \cup {NoLatency}, Record(m, error, latency)
  PROVE  AllFailing'
<1> DEFINE r == row[m]
           ev == Outcome(r.events, error, latency)
           s == Evaluated(r, ev)
           F == fails[m]
           G == IF error THEN F \cup {Window} ELSE {}
           t == now
<1>1. /\ t \in Nat /\ Window \in Nat /\ r \in Row /\ IsFiniteSet(r.events) /\ F \in SUBSET Nat
      /\ Failing(r, F, t) /\ r.events \subseteq Event
  BY WindowType DEF IInv, TypeOK, FiniteEvents, AllFailing, Row
<1>2. ev \in Event
  BY <1>1, OutcomeType
<1>3. ev.error = error /\ ev.ts = t
  BY DEF Outcome
<1>4. /\ s \in Row /\ IsFiniteSet(s.events)
      /\ OverRatio(s.events) => s.bad = BadCount(r, Window) /\ s.lastBad = Window
      /\ ~OverRatio(s.events) => s.lastBad = r.lastBad
      /\ s.events = Recent(r.events \cup {ev})
  <2> HIDE DEF ev, r
  <2> QED BY <1>1, <1>2, EvaluatedRow, EvaluatedEvents
<1>5. /\ ~r.paused /\ now' = now
      /\ fails' = [fails EXCEPT ![m] = G]
      /\ \/ Pauses(s) /\ row' = [row EXCEPT ![m] = EvaluateLatency(Paused(s), Window)]
         \/ ~Pauses(s) /\ row' = [row EXCEPT ![m] = EvaluateLatency(s, Window)]
  BY DEF Record
<1> HIDE DEF ev, s
<1>6. /\ s.events \subseteq r.events \cup {ev} /\ ev \in s.events
      /\ \A x \in s.events : x.ts >= t - WindowSec
  <2>1. ev.ts >= t - WindowSec
    BY <1>1, <1>3, ParamsAssumption
  <2> QED BY <1>4, <2>1 DEF Recent
<1>7. Timely(s, t)
  <2>1. s.lastBad <= t \div WindowSec
    <3>1. r.lastBad <= t \div WindowSec
      BY <1>1 DEF Failing, Timely
    <3> QED BY <1>1, <1>4, <3>1 DEF Window
  <2>2. \A x \in r.events : x.ts <= t
    BY <1>1 DEF Failing, Timely
  <2>3. ev.ts <= t
    BY <1>1, <1>3
  <2> QED BY <1>6, <2>1, <2>2, <2>3 DEF Timely
<1> DEFINE Kept == Timely(s, t) /\ FailsPast(G, t) /\ SuccessesBefore(s, G) /\ BadWithin(s, G)
                   /\ (~Pauses(s) => FailsCounted(s, G) /\ Short(G))
<1>8. Kept
  <2>1. CASE error
    <3>1. G = F \cup {Window} /\ Window = t \div WindowSec
      BY <2>1 DEF Window
    <3>2. ev.error
      BY <1>3, <2>1
    <3> HIDE DEF r, F, G, t
    <3> QED BY <1>1, <1>2, <1>3, <1>4, <1>5, <1>6, <3>1, <3>2, FailureCounts
  <2>2. CASE ~error
    <3>1. G = {}
      BY <2>2
    <3> QED BY <1>7, <3>1 DEF FailsPast, SuccessesBefore, BadWithin, FailsCounted, Short
  <2> QED BY <2>1, <2>2
<1>9. \E q \in Row : /\ row' = [row EXCEPT ![m] = q]
                     /\ q.events = s.events /\ q.bad = s.bad /\ q.lastBad = s.lastBad
                     /\ Pauses(s) => q.paused
  <2>1. CASE Pauses(s) /\ row' = [row EXCEPT ![m] = EvaluateLatency(Paused(s), Window)]
    <3> DEFINE p == Paused(s)
               q == EvaluateLatency(p, Window)
    <3>1. p \in Row /\ p.paused /\ p.events = s.events /\ p.bad = s.bad /\ p.lastBad = s.lastBad
      BY <1>4, PausedRow
    <3> HIDE DEF p
    <3>2. /\ q \in Row /\ q.paused = p.paused /\ q.events = p.events
          /\ q.bad = p.bad /\ q.lastBad = p.lastBad
      BY <1>1, <3>1, EvaluateLatencyRow
    <3>3. row' = [row EXCEPT ![m] = q]
      BY <2>1 DEF p
    <3> HIDE DEF q
    <3> QED BY <3>1, <3>2, <3>3
  <2>2. CASE ~Pauses(s) /\ row' = [row EXCEPT ![m] = EvaluateLatency(s, Window)]
    BY <1>1, <1>4, <2>2, EvaluateLatencyRow
  <2> QED BY <1>5, <2>1, <2>2
<1> HIDE DEF G
<1>10. PICK q \in Row : /\ row' = [row EXCEPT ![m] = q]
                        /\ q.events = s.events /\ q.bad = s.bad /\ q.lastBad = s.lastBad
                        /\ Pauses(s) => q.paused
  BY <1>9
<1>11. Failing(q, G, t)
  BY <1>8, <1>10 DEF Failing, Timely, SuccessesBefore, BadWithin, FailsCounted
<1>12. ASSUME NEW n \in Module PROVE Failing(row'[n], fails'[n], now')
  <2>1. CASE n = m
    <3>1. row'[n] = q /\ fails'[n] = G
      BY <1>5, <1>10, <2>1 DEF IInv, TypeOK
    <3> QED BY <1>5, <1>11, <3>1
  <2>2. CASE n # m
    <3>1. row'[n] = row[n] /\ fails'[n] = fails[n]
      BY <1>5, <1>10, <2>2 DEF IInv, TypeOK
    <3> QED BY <1>5, <3>1 DEF AllFailing
  <2> QED BY <2>1, <2>2
<1> QED BY <1>12 DEF AllFailing

LEMMA StepFails ==
  ASSUME IInv, AllFailing, RatioNum < RatioDen, [Next]_vars
  PROVE  AllFailing'
<1>0. now \in Nat /\ \A m \in Module : row[m] \in Row /\ fails[m] \in SUBSET Nat
  BY DEF IInv, TypeOK
<1>1. CASE Tick
  <2>1. now' = now + 1 /\ row' = row /\ fails' = fails
    BY <1>1 DEF Tick
  <2> DEFINE w == now \div WindowSec
             v == now' \div WindowSec
  <2>2. w \in Nat /\ v \in Nat /\ w <= v
    <3>1. now' \in Nat /\ now' >= now
      BY <1>0, <2>1
    <3>2. v >= w /\ v \in Nat
      BY <1>0, <3>1, WindowsAdvance
    <3>3. w \in Nat
      BY <1>0, ParamsAssumption
    <3> QED BY <3>2, <3>3
  <2>3. ASSUME NEW m \in Module PROVE Failing(row[m], fails[m], now')
    <3>1. Failing(row[m], fails[m], now)
      BY DEF AllFailing
    <3>2. row[m].lastBad \in Int /\ \A ev \in row[m].events : ev.ts \in Nat
      BY <1>0 DEF Row, Event, Never
    <3>3. Timely(row[m], now) /\ FailsPast(fails[m], now)
      BY <3>1 DEF Failing
    <3> HIDE DEF w, v
    <3>4. row[m].lastBad <= v
      BY <2>2, <3>2, <3>3 DEF Timely, w
    <3>5. \A ev \in row[m].events : ev.ts <= now'
      BY <1>0, <2>1, <3>2, <3>3 DEF Timely
    <3>6. \A x \in fails[m] : x <= v
      BY <1>0, <2>2, <3>3 DEF FailsPast, w
    <3> QED BY <3>1, <3>4, <3>5, <3>6 DEF Failing, Timely, FailsPast, v
  <2> QED BY <2>1, <2>3 DEF AllFailing
<1>2. ASSUME NEW m \in Module, NEW error \in BOOLEAN, NEW latency \in Latency \cup {NoLatency},
             Record(m, error, latency)
      PROVE  AllFailing'
  BY <1>2, RecordFails
<1>3. ASSUME NEW m \in Module, ForcePause(m) PROVE AllFailing'
  <2>1. row' = [row EXCEPT ![m] = Paused(row[m])] /\ now' = now /\ fails' = fails
    BY <1>3 DEF ForcePause
  <2>2. Failing(Paused(row[m]), fails[m], now)
    <3> DEFINE r == row[m]
               s == Paused(r)
    <3>1. s.events = r.events /\ s.bad = r.bad /\ s.lastBad = r.lastBad /\ s.paused
      BY <1>0, PausedRow
    <3>2. Failing(r, fails[m], now)
      BY DEF AllFailing
    <3> HIDE DEF r, s
    <3>3. Failing(s, fails[m], now)
      BY <3>1, <3>2, FailingSame
    <3> QED BY <3>3 DEF r, s
  <2> QED BY <2>1, <2>2 DEF AllFailing, IInv, TypeOK
<1>4. ASSUME NEW ms, Forget(ms), now' = now PROVE AllFailing'
  <2> SUFFICES ASSUME NEW m \in Module PROVE Failing(row'[m], fails'[m], now)
    BY <1>4 DEF AllFailing
  <2>1. Failing(row[m], fails[m], now)
    BY DEF AllFailing
  <2>2. CASE m \in ms
    <3>1. row'[m] = Released(row[m]) /\ fails'[m] = {}
      BY <1>4, <2>2 DEF Forget
    <3>2. Released(row[m]).events = row[m].events /\ Released(row[m]).lastBad = row[m].lastBad
      BY <1>0 DEF Released, Row
    <3>3. Timely(Released(row[m]), now)
      BY <2>1, <3>2 DEF Failing, Timely
    <3> QED BY <3>1, <3>3, NothingFails
  <2>3. CASE m \notin ms
    BY <1>4, <2>1, <2>3 DEF Forget
  <2> QED BY <2>2, <2>3
<1>5. ASSUME NEW m \in Module, ResetPaused(m) PROVE AllFailing'
  BY <1>4, <1>5 DEF ResetPaused
<1>6. CASE ResetAll
  BY <1>4, <1>6 DEF ResetAll
<1>7. CASE ResetLimiter \/ vars' = vars
  BY <1>7 DEF ResetLimiter, vars, AllFailing
<1>8. CASE Restart
  <2>1. Timely(FreshRow, now) /\ Timely(Paused(FreshRow), now)
    <3>1. now \div WindowSec \in Nat
      BY <1>0, ParamsAssumption
    <3> QED BY <3>1 DEF Timely, FreshRow, Paused, Never
  <2> QED BY <1>8, <2>1, NothingFails DEF Restart, AllFailing
<1> QED BY <1>1, <1>2, <1>3, <1>5, <1>6, <1>7, <1>8 DEF Next

\* Whatever the calls, probes, releases and restarts, and for every ratio below one:
\* calls that fail in BadWindows + 2 consecutive windows leave the module paused
\* (_evaluate_errors).
THEOREM FailuresPause ==
  ASSUME RatioNum < RatioDen
  PROVE  Spec => []FailuresArePaused
<1>1. Init => AllFailing
  <2> SUFFICES ASSUME Init, NEW m \in Module PROVE Failing(row[m], fails[m], now)
    BY DEF AllFailing
  <2>1. row[m] = FreshRow /\ fails[m] = {} /\ now = 0
    BY DEF Init
  <2>2. Timely(FreshRow, 0)
    <3>1. 0 \div WindowSec \in Nat
      BY ParamsAssumption
    <3> QED BY <3>1 DEF Timely, FreshRow, Never
  <2> QED BY <2>1, <2>2, NothingFails
<1>2. IInv /\ AllFailing /\ [Next]_vars => AllFailing'
  BY StepFails
<1>3. AllFailing => FailuresArePaused
  BY DEF AllFailing, Failing, Short, FailuresArePaused
<1> QED BY <1>1, <1>2, <1>3, Inductive, PTL DEF Spec
=============================================================================
