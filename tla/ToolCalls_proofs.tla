-------------------------- MODULE ToolCalls_proofs --------------------------
(***************************************************************************)
(* What the attempts of any number of threads do to the ceiling's count,    *)
(* and how often they start a tool, for any retry count, any modules and    *)
(* any pool; that a proxy is given up for failures that did happen; types.  *)
(***************************************************************************)
EXTENDS ToolCalls, TLAPS, WellFoundedInduction, FiniteSetTheorems

\* The types of the variables the arguments below are about.
CallTypes ==
  /\ up \in BOOLEAN /\ stop \in BOOLEAN
  /\ paused \subseteq Key
  /\ running \in Nat /\ leaked \in Nat
  /\ pc \in [Worker -> Pc]
  /\ tool \in [Worker -> Tool] /\ attempt \in [Worker -> 0 .. MaxRetry]
  /\ code \in [Worker -> ExitCode]
  /\ late \in [Worker -> Nat] /\ barred \in [Worker -> [Tool -> Nat]]
  /\ tries \in [Worker -> [Tool -> Nat]]

\* No thread outlives its engine, and with it goes what it has done.
DownIsIdle == ~up => \A w \in Worker : pc[w] = "idle" /\ late[w] = 0

TInv == CallTypes /\ DownIsIdle

-----------------------------------------------------------------------------
(***************************************************************************)
(* Types.                                                                   *)
(***************************************************************************)
LEMMA ReturnsTypes ==
  ASSUME CallTypes, NEW w \in Worker, Returns(w)
  PROVE  /\ pc' \in [Worker -> Pc] /\ tool' \in [Worker -> Tool]
         /\ attempt' \in [Worker -> 0 .. MaxRetry] /\ code' \in [Worker -> ExitCode]
BY CallAssumption DEF Returns, Goto, CallTypes, Pc, Tool, ExitCode

LEMMA EndsLoopTypes ==
  ASSUME CallTypes, NEW w \in Worker, EndsLoop(w)
  PROVE  /\ pc' \in [Worker -> Pc] /\ tool' \in [Worker -> Tool]
         /\ attempt' \in [Worker -> 0 .. MaxRetry] /\ code' \in [Worker -> ExitCode]
<1> USE CallAssumption
<1>1. CASE tool[w] = "primary"
  <2>1. /\ tool' = [tool EXCEPT ![w] = "fallback"] /\ attempt' = [attempt EXCEPT ![w] = 0]
        /\ code' = [code EXCEPT ![w] = 0] /\ Goto(w, "allow")
    BY <1>1 DEF EndsLoop
  <2> QED BY <2>1 DEF Goto, CallTypes, Pc, Tool, ExitCode
<1>2. CASE tool[w] # "primary"
  BY <1>2, ReturnsTypes DEF EndsLoop
<1> QED BY <1>1, <1>2

LEMMA ContinuesTypes ==
  ASSUME CallTypes, NEW w \in Worker, Continues(w)
  PROVE  /\ pc' \in [Worker -> Pc] /\ tool' \in [Worker -> Tool]
         /\ attempt' \in [Worker -> 0 .. MaxRetry] /\ code' \in [Worker -> ExitCode]
<1> USE CallAssumption
<1>1. CASE code[w] = 0
  BY <1>1, ReturnsTypes DEF Continues
<1>2. CASE code[w] # 0 /\ attempt[w] < MaxRetry
  <2>1. /\ attempt' = [attempt EXCEPT ![w] = @ + 1] /\ code' = [code EXCEPT ![w] = 0]
        /\ Goto(w, "allow") /\ tool' = tool
    BY <1>2 DEF Continues
  <2> QED BY <1>2, <2>1 DEF Goto, CallTypes, Pc, ExitCode
<1>3. CASE code[w] # 0 /\ ~(attempt[w] < MaxRetry)
  BY <1>3, EndsLoopTypes DEF Continues
<1> QED BY <1>1, <1>2, <1>3

LEMMA StepTypes ==
  ASSUME TInv, NEW w \in Worker, Step(w)
  PROVE  TInv'
<1> USE CallAssumption
<1>0. up
  BY DEF TInv, DownIsIdle, Step, Allow, Assign, Acquire, CheckAbort, Aborted, Raises, Leaks, Popen,
         PopenFails, Exits, BreakerRecord, ReadHealth, WriteHealth
<1> SUFFICES CallTypes' /\ up'
  BY DEF TInv, DownIsIdle
<1>1. CASE Allow(w)
  <2>1. CASE KeyNow(w) \in paused
    BY <1>0, <1>1, <2>1, EndsLoopTypes DEF Allow, TInv, CallTypes, seen
  <2>2. CASE KeyNow(w) \notin paused
    BY <1>0, <1>1, <2>2 DEF Allow, Goto, TInv, CallTypes, seen, Pc
  <2> QED BY <2>1, <2>2
<1>2. CASE Assign(w)
  BY <1>0, <1>2 DEF Assign, Goto, TInv, CallTypes, seen, Pc, Tool, ExitCode
<1>3. CASE Acquire(w)
  BY <1>0, <1>3 DEF Acquire, Goto, TInv, CallTypes, Pc, Tool, ExitCode
<1>4. CASE CheckAbort(w)
  BY <1>0, <1>4 DEF CheckAbort, Goto, TInv, CallTypes, locals, seen, Pc, Tool, ExitCode
<1>5. ASSUME NEW c \in ExitCode, Completed(w, c)
      PROVE  CallTypes' /\ up'
  BY <1>0, <1>5 DEF Completed, Release, Goto, TInv, CallTypes, seen, Pc, Tool, ExitCode
<1>6. CASE Aborted(w) \/ PopenFails(w) \/ Exits(w)
  BY <1>5, <1>6 DEF Aborted, PopenFails, Exits, ExitCode
<1>7. CASE Raises(w)
  BY <1>0, <1>7 DEF Raises, Release, Returns, Goto, TInv, CallTypes, seen, Pc, Tool, ExitCode
<1>8. CASE Leaks(w)
  BY <1>0, <1>8 DEF Leaks, Returns, Goto, TInv, CallTypes, Pc, Tool, ExitCode
<1>9. CASE Popen(w)
  BY <1>0, <1>9 DEF Popen, Goto, TInv, CallTypes, locals, Pc, Tool, ExitCode
<1>10. CASE BreakerRecord(w)
  <2>1. KeyNow(w) \in Key
    BY DEF KeyNow, Key
  <2>2. paused' \subseteq Key
    BY <1>10, <2>1 DEF BreakerRecord, TInv, CallTypes
  <2>3. CASE entry[w] = Direct
    BY <1>0, <1>10, <2>2, <2>3, ContinuesTypes DEF BreakerRecord, TInv, CallTypes, seen
  <2>4. CASE entry[w] # Direct
    BY <1>0, <1>10, <2>2, <2>4 DEF BreakerRecord, Goto, TInv, CallTypes, seen, Pc
  <2> QED BY <2>3, <2>4
<1>11. CASE ReadHealth(w)
  BY <1>0, <1>11 DEF ReadHealth, Goto, TInv, CallTypes, Pc, Tool, ExitCode
<1>12. CASE WriteHealth(w)
  BY <1>0, <1>12, ContinuesTypes DEF WriteHealth, TInv, CallTypes, seen
<1> QED BY <1>1, <1>2, <1>3, <1>4, <1>6, <1>7, <1>8, <1>9, <1>10, <1>11, <1>12 DEF Step

LEMMA NextTypes ==
  ASSUME TInv, [Next]_vars
  PROVE  TInv'
<1> USE CallAssumption
<1>1. CASE Boot
  BY <1>1 DEF Boot, TInv, CallTypes, DownIsIdle, locals, seen
<1>2. CASE RequestStop
  BY <1>2 DEF RequestStop, TInv, CallTypes, DownIsIdle, locals, seen
<1>3. CASE Die
  <2>1. NoTries \in [Tool -> Nat] /\ 0 \in 0 .. MaxRetry
    BY DEF NoTries
  <2>2. /\ late' \in [Worker -> Nat] /\ barred' \in [Worker -> [Tool -> Nat]]
        /\ tries' \in [Worker -> [Tool -> Nat]]
    BY <1>3, <2>1 DEF Die
  <2>3. /\ pc' \in [Worker -> Pc] /\ tool' \in [Worker -> Tool]
        /\ attempt' \in [Worker -> 0 .. MaxRetry] /\ code' \in [Worker -> ExitCode]
    BY <1>3, <2>1 DEF Die, Pc, Tool, ExitCode
  <2>4. up' = FALSE /\ stop' = stop /\ paused' = {} /\ running' = 0 /\ leaked' = 0
    BY <1>3 DEF Die
  <2>5. DownIsIdle'
    BY <1>3 DEF Die, DownIsIdle
  <2> QED BY <2>2, <2>3, <2>4, <2>5 DEF TInv, CallTypes
<1>4. ASSUME NEW m \in Key, ReleaseKey(m)
      PROVE  TInv'
  BY <1>4 DEF ReleaseKey, TInv, CallTypes, DownIsIdle, locals, Tool
<1>5. ASSUME NEW w \in Worker, Invoke(w)
      PROVE  TInv'
  BY <1>5 DEF Invoke, TInv, CallTypes, DownIsIdle, Goto, locals, Pc, NoTries, Tool
<1>6. ASSUME NEW w \in Worker, Step(w)
      PROVE  TInv'
  BY <1>6, StepTypes
<1>7. CASE UNCHANGED vars
  BY <1>7 DEF vars, locals, seen, TInv, CallTypes, DownIsIdle
<1> QED BY <1>1, <1>2, <1>3, <1>4, <1>5, <1>6, <1>7 DEF Next

LEMMA InitTypes ==
  ASSUME Init
  PROVE  TInv
<1>1. NoTries \in [Tool -> Nat]
  BY DEF NoTries
<1>2. 0 \in 0 .. MaxRetry /\ {} \subseteq Key
  BY CallAssumption
<1>3. /\ late \in [Worker -> Nat] /\ barred \in [Worker -> [Tool -> Nat]]
      /\ tries \in [Worker -> [Tool -> Nat]]
  BY <1>1 DEF Init
<1>4. pc \in [Worker -> Pc] /\ tool \in [Worker -> Tool] /\ attempt \in [Worker -> 0 .. MaxRetry]
  BY <1>2 DEF Init, Pc, Tool
<1>5. code \in [Worker -> ExitCode]
  BY DEF Init, ExitCode
<1>6. up = FALSE /\ stop = FALSE /\ paused = {} /\ running = 0 /\ leaked = 0
  BY DEF Init
<1>7. CallTypes
  BY <1>2, <1>3, <1>4, <1>5, <1>6 DEF CallTypes
<1>8. DownIsIdle
  BY DEF Init, DownIsIdle
<1> QED BY <1>7, <1>8 DEF TInv

\* Threads, their histories and the ceiling's count keep their types, and no thread
\* outlives its engine (adapter.py).
THEOREM TypesKept == Spec => []TInv
<1>1. Init => TInv
  BY InitTypes
<1>2. TInv /\ [Next]_vars => TInv'
  BY NextTypes
<1> QED BY <1>1, <1>2, PTL DEF Spec

-----------------------------------------------------------------------------
(***************************************************************************)
(* The ceiling's count.  CeilingBalanced is inductive: a thread that gives  *)
(* a share back is one of the holders, so the count is above zero and the   *)
(* release, which never goes below it, really takes one off.                *)
(***************************************************************************)
LEMMA HoldersFinite == IsFiniteSet(Holders) /\ Cardinality(Holders) \in Nat
<1>1. Holders \in SUBSET Worker
  BY DEF Holders
<1> QED BY <1>1, CallAssumption, FS_Subset, FS_CardinalityType

LEMMA HoldersLeave ==
  ASSUME NEW w \in Worker, CallTypes, w \in Holders, NEW l, l \notin Holding, Goto(w, l)
  PROVE  Cardinality(Holders') = Cardinality(Holders) - 1 /\ Cardinality(Holders) > 0
<1>1. Holders' = Holders \ {w}
  BY DEF Holders, Goto, CallTypes
<1>2. Cardinality(Holders \ {w}) = Cardinality(Holders) - 1
  BY HoldersFinite, FS_RemoveElement
<1>3. Cardinality(Holders) # 0
  BY HoldersFinite, FS_EmptySet
<1> QED BY <1>1, <1>2, <1>3, HoldersFinite

LEMMA HoldersEnter ==
  ASSUME NEW w \in Worker, CallTypes, w \notin Holders, NEW l, l \in Holding, Goto(w, l)
  PROVE  Cardinality(Holders') = Cardinality(Holders) + 1
<1>1. Holders' = Holders \cup {w}
  BY DEF Holders, Goto, CallTypes
<1> QED BY <1>1, HoldersFinite, FS_AddElement

LEMMA HoldersStay ==
  ASSUME NEW w \in Worker, CallTypes, NEW l, Goto(w, l), l \in Holding <=> w \in Holders
  PROVE  Holders' = Holders
BY DEF Holders, Goto, CallTypes

\* Where a thread is after the loop of its attempts has gone on or ended.
LEMMA LoopLeaves ==
  ASSUME NEW w \in Worker, EndsLoop(w) \/ Continues(w)
  PROVE  \E l \in {"allow", "idle"} : Goto(w, l)
BY DEF EndsLoop, Continues, Returns

LEMMA StepBalances ==
  ASSUME TInv, CeilingBalanced, NEW w \in Worker, Step(w)
  PROVE  CeilingBalanced'
<1> USE DEF TInv
<1>0. running \in Nat /\ leaked \in Nat /\ Cardinality(Holders) \in Nat
  BY HoldersFinite DEF CallTypes
<1>1. CASE Allow(w) \/ Assign(w) \/ BreakerRecord(w) \/ ReadHealth(w) \/ WriteHealth(w)
  <2>1. w \notin Holders /\ running' = running /\ leaked' = leaked
    BY <1>1 DEF Allow, Assign, BreakerRecord, ReadHealth, WriteHealth, Holders, Holding, seen
  <2>2. \E l \in {"allow", "idle", "assign", "acquire", "read", "write"} : Goto(w, l)
    BY <1>1, LoopLeaves DEF Allow, Assign, BreakerRecord, ReadHealth, WriteHealth
  <2>3. Holders' = Holders
    BY <2>1, <2>2, HoldersStay DEF Holding
  <2> QED BY <2>1, <2>3 DEF CeilingBalanced
<1>2. CASE Acquire(w)
  <2>1. w \notin Holders /\ running' = running + 1 /\ leaked' = leaked /\ Goto(w, "check")
    BY <1>2 DEF Acquire, Holders, Holding
  <2>2. Cardinality(Holders') = Cardinality(Holders) + 1
    BY <2>1, HoldersEnter DEF Holding
  <2> QED BY <1>0, <2>1, <2>2 DEF CeilingBalanced
<1>3. CASE CheckAbort(w) \/ Popen(w)
  <2>1. w \in Holders /\ running' = running /\ leaked' = leaked /\ \E l \in Holding : Goto(w, l)
    BY <1>3 DEF CheckAbort, Popen, Holders, Holding, locals, seen
  <2>2. Holders' = Holders
    BY <2>1, HoldersStay
  <2> QED BY <2>1, <2>2 DEF CeilingBalanced
<1>4. ASSUME w \in Holders, NEW l, l \notin Holding, Goto(w, l), Release(w), leaked' = leaked
      PROVE  CeilingBalanced'
  <2>1. Cardinality(Holders') = Cardinality(Holders) - 1 /\ Cardinality(Holders) > 0
    BY <1>4, HoldersLeave
  <2>2. running > 0
    BY <1>0, <2>1 DEF CeilingBalanced
  <2> QED BY <1>0, <1>4, <2>1, <2>2 DEF CeilingBalanced, Release
<1>5. CASE Aborted(w) \/ PopenFails(w) \/ Exits(w)
  <2>1. w \in Holders /\ Goto(w, "record") /\ Release(w) /\ leaked' = leaked
    BY <1>5 DEF Aborted, PopenFails, Exits, Completed, Holders, Holding, seen
  <2> QED BY <2>1, <1>4 DEF Holding
<1>6. CASE Raises(w) /\ pc[w] = "check"
  <2>1. w \in Holders /\ Goto(w, "idle") /\ Release(w) /\ leaked' = leaked
    BY <1>6 DEF Raises, Returns, Holders, Holding, seen
  <2> QED BY <2>1, <1>4 DEF Holding
<1>7. CASE Raises(w) /\ pc[w] = "acquire"
  <2>1. w \notin Holders /\ Goto(w, "idle") /\ running' = running /\ leaked' = leaked
    BY <1>7 DEF Raises, Returns, Holders, Holding, seen
  <2>2. Holders' = Holders
    BY <2>1, HoldersStay DEF Holding
  <2> QED BY <2>1, <2>2 DEF CeilingBalanced
<1>8. CASE Leaks(w)
  <2>1. w \in Holders /\ Goto(w, "idle") /\ running' = running /\ leaked' = leaked + 1
    BY <1>8 DEF Leaks, Returns, Holders, Holding
  <2>2. Cardinality(Holders') = Cardinality(Holders) - 1
    BY <2>1, HoldersLeave DEF Holding
  <2> QED BY <1>0, <2>1, <2>2 DEF CeilingBalanced
<1>9. Raises(w) => pc[w] \in {"acquire", "check"}
  BY DEF Raises
<1> QED BY <1>1, <1>2, <1>3, <1>5, <1>6, <1>7, <1>8, <1>9 DEF Step

\* For any number of threads, whatever fails, is stopped or raises in between, and
\* whenever the engine dies: the count of the ceiling is the number of attempts that
\* hold a share, plus the shares lost while a command was assembled (adapter.py,
\* _once; ceiling.py, acquire and release).
THEOREM SharesBalance == Spec => []CeilingBalanced
<1>1. Init => CeilingBalanced
  <2> SUFFICES ASSUME Init PROVE CeilingBalanced
    OBVIOUS
  <2>1. Holders = {} /\ running = 0 /\ leaked = 0
    BY DEF Init, Holders, Holding
  <2> QED BY <2>1, FS_EmptySet DEF CeilingBalanced
<1>2. TInv /\ CeilingBalanced /\ [Next]_vars => CeilingBalanced'
  <2> SUFFICES ASSUME TInv, CeilingBalanced, [Next]_vars PROVE CeilingBalanced'
    OBVIOUS
  <2>1. ASSUME running' = running, leaked' = leaked, Holders' = Holders
        PROVE  CeilingBalanced'
    BY <2>1 DEF CeilingBalanced
  <2>2. CASE Boot \/ RequestStop \/ (\E m \in Key : ReleaseKey(m)) \/ UNCHANGED vars
    <3>1. pc' = pc /\ running' = running /\ leaked' = leaked
      BY <2>2 DEF Boot, RequestStop, ReleaseKey, vars, seen
    <3> QED BY <2>1, <3>1 DEF Holders
  <2>3. CASE Die
    <3>1. Holders' = {} /\ running' = 0 /\ leaked' = 0
      BY <2>3 DEF Die, Holders, Holding
    <3> QED BY <3>1, FS_EmptySet DEF CeilingBalanced
  <2>4. ASSUME NEW w \in Worker, Invoke(w)
        PROVE  CeilingBalanced'
    <3>1. w \notin Holders /\ running' = running /\ leaked' = leaked
      BY <2>4 DEF Invoke, Holders, Holding
    <3>2. \E l \in {"idle", "allow"} : Goto(w, l)
      BY <2>4 DEF Invoke
    <3> QED BY <2>1, <3>1, <3>2, HoldersStay DEF Holding, TInv
  <2>5. ASSUME NEW w \in Worker, Step(w)
        PROVE  CeilingBalanced'
    BY <2>5, StepBalances
  <2> QED BY <2>2, <2>3, <2>4, <2>5 DEF Next
<1> QED BY <1>1, <1>2, TypesKept, PTL DEF Spec

-----------------------------------------------------------------------------
(***************************************************************************)
(* Containers after a stop and under a pause.  Between the decision to      *)
(* start (CheckAbort, Allow) and the start a stop or a pause may arrive;    *)
(* the invariant says that who has started one container late is no longer  *)
(* between the two, and cannot get there while the stop or pause lasts.     *)
(***************************************************************************)
KeyFor(w, t) == IF t = "primary" THEN KeyOf[w] ELSE FallbackKey

\* From the breaker's consent to the start of the container.
Decided == {"assign", "acquire", "check", "popen"}

LateOnce ==
  \A w \in Worker : /\ late[w] \in {0, 1}
                    /\ late[w] = 1 => stop /\ pc[w] # "popen"

BarredOnce ==
  \A w \in Worker : \A t \in Tool :
    /\ barred[w][t] \in {0, 1}
    /\ barred[w][t] = 1 => KeyFor(w, t) \in paused /\ ~(tool[w] = t /\ pc[w] \in Decided)

BInv == LateOnce /\ BarredOnce

\* A thread that starts nothing, and does not move towards a start that is barred.
LEMMA QuietStep ==
  ASSUME TInv, BInv, NEW w \in Worker,
         late' = late, barred' = barred, stop' = stop, paused \subseteq paused',
         pc' = [pc EXCEPT ![w] = pc'[w]], tool' = [tool EXCEPT ![w] = tool'[w]],
         pc'[w] = "popen" => pc[w] = "popen" \/ ~stop,
         pc'[w] \in Decided =>
           tool'[w] = tool[w] /\ (pc[w] \in Decided \/ KeyNow(w) \notin paused)
  PROVE  BInv'
<1> USE DEF TInv, CallTypes
<1>1. \A v \in Worker : v # w => pc'[v] = pc[v] /\ tool'[v] = tool[v]
  BY DEF Pc
<1>2. LateOnce'
  <2> SUFFICES ASSUME NEW v \in Worker
               PROVE  late[v] \in {0, 1} /\ (late[v] = 1 => stop /\ pc'[v] # "popen")
    BY DEF LateOnce
  <2>1. late[v] \in {0, 1} /\ (late[v] = 1 => stop /\ pc[v] # "popen")
    BY DEF BInv, LateOnce
  <2> QED BY <1>1, <2>1
<1>3. BarredOnce'
  <2> SUFFICES ASSUME NEW v \in Worker, NEW t \in Tool
               PROVE  /\ barred[v][t] \in {0, 1}
                      /\ barred[v][t] = 1 =>
                           KeyFor(v, t) \in paused' /\ ~(tool'[v] = t /\ pc'[v] \in Decided)
    BY DEF BarredOnce, KeyFor
  <2>1. /\ barred[v][t] \in {0, 1}
        /\ barred[v][t] = 1 => KeyFor(v, t) \in paused /\ ~(tool[v] = t /\ pc[v] \in Decided)
    BY DEF BInv, BarredOnce
  <2>2. CASE v # w
    BY <1>1, <2>1, <2>2
  <2>3. CASE v = w
    <3>1. tool[w] = t => KeyNow(w) = KeyFor(w, t)
      BY DEF KeyNow, KeyFor
    <3> QED BY <2>1, <2>3, <3>1
  <2> QED BY <2>2, <2>3
<1> QED BY <1>2, <1>3 DEF BInv

\* Where the loop goes on or ends, nothing is decided yet.
LEMMA LoopQuiet ==
  ASSUME TInv, NEW w \in Worker, EndsLoop(w) \/ Continues(w)
  PROVE  /\ pc' = [pc EXCEPT ![w] = pc'[w]] /\ tool' = [tool EXCEPT ![w] = tool'[w]]
         /\ pc'[w] \notin Decided
<1> USE DEF TInv, CallTypes
<1>1. \E l \in {"allow", "idle"} : pc' = [pc EXCEPT ![w] = l]
  BY LoopLeaves DEF Goto
<1>2. tool' = tool \/ \E t \in Tool : tool' = [tool EXCEPT ![w] = t]
  BY DEF EndsLoop, Continues, Returns, Tool
<1> QED BY <1>1, <1>2 DEF Decided

LEMMA StepBarred ==
  ASSUME TInv, BInv, NEW w \in Worker, Step(w)
  PROVE  BInv'
<1> USE DEF TInv, CallTypes, Decided
<1>1. CASE Allow(w)
  <2>1. late' = late /\ barred' = barred /\ stop' = stop /\ paused' = paused /\ pc[w] = "allow"
    BY <1>1 DEF Allow, seen
  <2>2. CASE KeyNow(w) \in paused
    BY <1>1, <2>1, <2>2, LoopQuiet, QuietStep DEF Allow
  <2>3. CASE KeyNow(w) \notin paused
    <3>1. tool' = tool /\ \E l \in {"assign", "acquire"} : pc' = [pc EXCEPT ![w] = l]
      BY <1>1, <2>3 DEF Allow, Goto
    <3> QED BY <2>1, <2>3, <3>1, QuietStep
  <2> QED BY <2>2, <2>3
<1>2. CASE Assign(w) \/ Acquire(w)
  <2>1. /\ late' = late /\ barred' = barred /\ stop' = stop /\ paused' = paused /\ tool' = tool
        /\ \E l \in {"acquire", "check"} : pc' = [pc EXCEPT ![w] = l]
        /\ pc[w] \in Decided
    BY <1>2 DEF Assign, Acquire, Goto, seen
  <2> QED BY <2>1, QuietStep
<1>3. CASE CheckAbort(w)
  <2>1. /\ late' = late /\ barred' = barred /\ stop' = stop /\ paused' = paused /\ tool' = tool
        /\ pc' = [pc EXCEPT ![w] = "popen"] /\ pc[w] \in Decided /\ ~stop
    BY <1>3 DEF CheckAbort, Goto, seen, locals
  <2> QED BY <2>1, QuietStep
<1>4. CASE Aborted(w) \/ PopenFails(w) \/ Exits(w)
  <2>1. /\ late' = late /\ barred' = barred /\ stop' = stop /\ paused' = paused /\ tool' = tool
        /\ pc' = [pc EXCEPT ![w] = "record"]
    BY <1>4 DEF Aborted, PopenFails, Exits, Completed, Goto, seen
  <2> QED BY <2>1, QuietStep
<1>5. CASE Raises(w) \/ Leaks(w)
  <2>1. /\ late' = late /\ barred' = barred /\ stop' = stop /\ paused' = paused
        /\ tool' = [tool EXCEPT ![w] = "primary"] /\ pc' = [pc EXCEPT ![w] = "idle"]
    BY <1>5 DEF Raises, Leaks, Returns, Goto, seen
  <2> QED BY <2>1, QuietStep
<1>6. CASE Popen(w)
  <2>1. /\ pc[w] = "popen" /\ pc' = [pc EXCEPT ![w] = "wait"] /\ tool' = tool
        /\ stop' = stop /\ paused' = paused
        /\ late' = IF stop THEN [late EXCEPT ![w] = @ + 1] ELSE late
        /\ barred' = IF KeyNow(w) \in paused THEN [barred EXCEPT ![w][tool[w]] = @ + 1]
                     ELSE barred
    BY <1>6 DEF Popen, Goto, locals
  <2>2. LateOnce'
    <3> SUFFICES ASSUME NEW v \in Worker
                 PROVE  late'[v] \in {0, 1} /\ (late'[v] = 1 => stop /\ pc'[v] # "popen")
      BY <2>1 DEF LateOnce
    <3>1. late[v] \in {0, 1} /\ (late[v] = 1 => stop /\ pc[v] # "popen")
      BY DEF BInv, LateOnce
    <3>2. CASE v = w
      <4>1. late[w] = 0
        BY <2>1, <3>1, <3>2
      <4> QED BY <2>1, <3>2, <4>1
    <3>3. CASE v # w
      BY <2>1, <3>1, <3>3
    <3> QED BY <3>2, <3>3
  <2>3. BarredOnce'
    <3> SUFFICES ASSUME NEW v \in Worker, NEW t \in Tool
                 PROVE  /\ barred'[v][t] \in {0, 1}
                        /\ barred'[v][t] = 1 =>
                             KeyFor(v, t) \in paused /\ ~(tool[v] = t /\ pc'[v] \in Decided)
      BY <2>1 DEF BarredOnce, KeyFor
    <3>1. /\ barred[v][t] \in {0, 1}
          /\ barred[v][t] = 1 => KeyFor(v, t) \in paused /\ ~(tool[v] = t /\ pc[v] \in Decided)
      BY DEF BInv, BarredOnce
    <3>2. CASE v = w /\ t = tool[w]
      <4>1. barred[w][t] = 0 /\ KeyNow(w) = KeyFor(w, t)
        BY <2>1, <3>1, <3>2 DEF KeyNow, KeyFor
      <4>2. barred'[w][t] = IF KeyNow(w) \in paused THEN 1 ELSE 0
        BY <2>1, <3>2, <4>1
      <4> QED BY <2>1, <3>2, <4>1, <4>2
    <3>3. CASE v = w /\ t # tool[w]
      BY <2>1, <3>1, <3>3
    <3>4. CASE v # w
      BY <2>1, <3>1, <3>4
    <3> QED BY <3>2, <3>3, <3>4
  <2> QED BY <2>2, <2>3 DEF BInv
<1>7. CASE BreakerRecord(w)
  <2>1. late' = late /\ barred' = barred /\ stop' = stop /\ paused \subseteq paused'
    BY <1>7 DEF BreakerRecord, seen
  <2>2. CASE entry[w] = Direct
    BY <1>7, <2>1, <2>2, LoopQuiet, QuietStep DEF BreakerRecord
  <2>3. CASE entry[w] # Direct
    <3>1. tool' = tool /\ pc' = [pc EXCEPT ![w] = "read"]
      BY <1>7, <2>3 DEF BreakerRecord, Goto
    <3> QED BY <2>1, <3>1, QuietStep
  <2> QED BY <2>2, <2>3
<1>8. CASE ReadHealth(w)
  <2>1. /\ late' = late /\ barred' = barred /\ stop' = stop /\ paused' = paused /\ tool' = tool
        /\ pc' = [pc EXCEPT ![w] = "write"]
    BY <1>8 DEF ReadHealth, Goto
  <2> QED BY <2>1, QuietStep
<1>9. CASE WriteHealth(w)
  <2>1. late' = late /\ barred' = barred /\ stop' = stop /\ paused' = paused
    BY <1>9 DEF WriteHealth, seen
  <2> QED BY <1>9, <2>1, LoopQuiet, QuietStep DEF WriteHealth
<1> QED BY <1>1, <1>2, <1>3, <1>4, <1>5, <1>6, <1>7, <1>8, <1>9 DEF Step

\* For any number of threads, retries and modules: STOP, and a pause of its key, find
\* a thread at most once past the point where it looks for them, however often it
\* would retry and whether or not it has a fallback (adapter.py).
THEOREM BarredStart == Spec => []BarredStartsOne
<1>1. Init => BInv
  <2> SUFFICES ASSUME Init PROVE BInv
    OBVIOUS
  <2>1. \A w \in Worker : \A t \in Tool : barred[w][t] = 0
    BY DEF Init, NoTries
  <2>2. \A w \in Worker : late[w] = 0
    BY DEF Init
  <2> QED BY <2>1, <2>2 DEF BInv, LateOnce, BarredOnce
<1>2. TInv /\ BInv /\ [Next]_vars => BInv'
  <2> SUFFICES ASSUME TInv, BInv, [Next]_vars PROVE BInv'
    OBVIOUS
  <2> USE DEF TInv, CallTypes
  <2>1. CASE Boot
    <3>1. /\ late' = late /\ barred' = barred /\ pc' = pc /\ tool' = tool /\ paused' = paused
          /\ ~up /\ (stop' = stop \/ stop' = FALSE)
      BY <2>1 DEF Boot, seen, locals
    <3>2. \A w \in Worker : late[w] = 0
      BY <3>1 DEF DownIsIdle
    <3> QED BY <3>1, <3>2 DEF BInv, LateOnce, BarredOnce, KeyFor
  <2>2. CASE RequestStop
    <3>1. /\ late' = late /\ barred' = barred /\ pc' = pc /\ tool' = tool /\ paused' = paused
          /\ stop' = TRUE
      BY <2>2 DEF RequestStop, seen, locals
    <3> QED BY <3>1 DEF BInv, LateOnce, BarredOnce, KeyFor
  <2>3. CASE Die
    <3>1. \A w \in Worker : \A t \in Tool : barred'[w][t] = 0
      BY <2>3 DEF Die, NoTries
    <3>2. \A w \in Worker : late'[w] = 0
      BY <2>3 DEF Die
    <3> QED BY <3>1, <3>2 DEF BInv, LateOnce, BarredOnce
  <2>4. ASSUME NEW m \in Key, ReleaseKey(m)
        PROVE  BInv'
    <3>1. /\ late' = late /\ pc' = pc /\ tool' = tool /\ stop' = stop
          /\ paused' = paused \ {m} /\ m # FallbackKey
      BY <2>4 DEF ReleaseKey, locals
    <3>2. LateOnce'
      BY <3>1 DEF BInv, LateOnce
    <3>3. ASSUME NEW v \in Worker, NEW t \in Tool
          PROVE  /\ barred'[v][t] \in {0, 1}
                 /\ barred'[v][t] = 1 =>
                      KeyFor(v, t) \in paused' /\ ~(tool[v] = t /\ pc[v] \in Decided)
      <4>1. /\ barred[v][t] \in {0, 1}
            /\ barred[v][t] = 1 => KeyFor(v, t) \in paused /\ ~(tool[v] = t /\ pc[v] \in Decided)
        BY DEF BInv, BarredOnce
      <4>2. CASE KeyOf[v] = m /\ t = "primary"
        <5>1. barred'[v][t] = 0
          BY <2>4, <4>2 DEF ReleaseKey, Tool
        <5> QED BY <5>1
      <4>3. CASE ~(KeyOf[v] = m /\ t = "primary")
        <5>1. barred'[v][t] = barred[v][t]
          BY <2>4, <4>3 DEF ReleaseKey, Tool
        <5>2. KeyFor(v, t) # m
          BY <3>1, <4>3 DEF KeyFor
        <5> QED BY <3>1, <4>1, <5>1, <5>2
      <4> QED BY <4>2, <4>3
    <3> QED BY <3>1, <3>2, <3>3 DEF BInv, BarredOnce, KeyFor
  <2>5. ASSUME NEW w \in Worker, Invoke(w)
        PROVE  BInv'
    <3>1. /\ late' = late /\ barred' = barred /\ stop' = stop /\ paused' = paused /\ tool' = tool
          /\ \E l \in {"idle", "allow"} : pc' = [pc EXCEPT ![w] = l]
      BY <2>5 DEF Invoke, Goto, locals
    <3> QED BY <3>1, QuietStep DEF Decided
  <2>6. ASSUME NEW w \in Worker, Step(w)
        PROVE  BInv'
    BY <2>6, StepBarred
  <2>7. CASE UNCHANGED vars
    BY <2>7 DEF vars, seen, locals, BInv, LateOnce, BarredOnce, KeyFor
  <2> QED BY <2>1, <2>2, <2>3, <2>4, <2>5, <2>6, <2>7 DEF Next
<1>3. BInv => BarredStartsOne
  BY DEF BInv, LateOnce, BarredOnce, BarredStartsOne
<1> QED BY <1>1, <1>2, <1>3, TypesKept, PTL DEF Spec

-----------------------------------------------------------------------------
(***************************************************************************)
(* The order of the attempts.  tries counts what attempt numbers: the two   *)
(* agree at every point of the loop, and the primary's count is final when  *)
(* the fallback's turn comes.                                               *)
(***************************************************************************)
Tried == {"check", "popen", "wait", "record", "read", "write"}
Number(w) == IF pc[w] \in Tried THEN attempt[w] + 1 ELSE attempt[w]

InOrder(w) ==
  pc[w] # "idle" =>
    /\ tries[w][tool[w]] = Number(w)
    /\ tool[w] = "primary" => tries[w]["fallback"] = 0
    /\ tool[w] = "fallback" => /\ tries[w]["primary"] <= MaxRetry + 1
                               /\ tries[w]["primary"] = MaxRetry + 1 \/ KeyOf[w] \in paused

\* An idle thread is ready for the primary's first attempt.
Ready(w) == pc[w] = "idle" => tool[w] = "primary" /\ attempt[w] = 0

AInv == \A w \in Worker : InOrder(w) /\ Ready(w)

\* Only w moves, and no pause is taken back.
LEMMA OthersInOrder ==
  ASSUME TInv, AInv, NEW w \in Worker, NEW v \in Worker, v # w,
         paused \subseteq paused',
         pc'[v] = pc[v], tool'[v] = tool[v], attempt'[v] = attempt[v], tries'[v] = tries[v]
  PROVE  InOrder(v)' /\ Ready(v)'
BY DEF AInv, InOrder, Number, Ready

LEMMA LoopMoves ==
  ASSUME TInv, NEW w \in Worker, EndsLoop(w) \/ Continues(w)
  PROVE  \A v \in Worker : v # w =>
           pc'[v] = pc[v] /\ tool'[v] = tool[v] /\ attempt'[v] = attempt[v]
<1> USE DEF TInv, CallTypes
<1>1. ASSUME Returns(w)
      PROVE  \A v \in Worker : v # w =>
               pc'[v] = pc[v] /\ tool'[v] = tool[v] /\ attempt'[v] = attempt[v]
  BY <1>1 DEF Returns, Goto
<1>2. ASSUME EndsLoop(w)
      PROVE  \A v \in Worker : v # w =>
               pc'[v] = pc[v] /\ tool'[v] = tool[v] /\ attempt'[v] = attempt[v]
  BY <1>1, <1>2 DEF EndsLoop, Goto
<1> QED BY <1>1, <1>2 DEF Continues, Goto

\* What is left to show of a step that ends in the loop is the thread's own part.
LEMMA OwnOrder ==
  ASSUME TInv, AInv, NEW w \in Worker, EndsLoop(w) \/ Continues(w),
         tries' = tries, paused \subseteq paused', InOrder(w)', Ready(w)'
  PROVE  AInv'
<1> SUFFICES ASSUME NEW v \in Worker PROVE InOrder(v)' /\ Ready(v)'
  BY DEF AInv
<1>1. CASE v = w
  BY <1>1
<1>2. CASE v # w
  <2>1. pc'[v] = pc[v] /\ tool'[v] = tool[v] /\ attempt'[v] = attempt[v]
    BY <1>2, LoopMoves
  <2> QED BY <1>2, <2>1, OthersInOrder
<1> QED BY <1>1, <1>2

\* The end of a tool's turn: by its last attempt, or by a pause of its key.
LEMMA TurnEnds ==
  ASSUME TInv, AInv, NEW w \in Worker, EndsLoop(w), pc[w] # "idle",
         tries' = tries, paused \subseteq paused',
         tool[w] = "primary" => tries[w]["primary"] = MaxRetry + 1 \/ KeyOf[w] \in paused
  PROVE  InOrder(w)' /\ Ready(w)'
<1> USE CallAssumption DEF TInv, CallTypes
<1>1. CASE tool[w] = "primary"
  <2>1. /\ tool'[w] = "fallback" /\ attempt'[w] = 0 /\ pc'[w] = "allow"
    BY <1>1 DEF EndsLoop, Goto, Pc
  <2>2. tries[w]["fallback"] = 0 /\ tries[w]["primary"] = Number(w)
    BY <1>1 DEF AInv, InOrder
  <2>3. Number(w) <= MaxRetry + 1
    BY DEF Number
  <2> QED BY <1>1, <2>1, <2>2, <2>3 DEF InOrder, Number, Tried, Ready
<1>2. CASE tool[w] # "primary"
  <2>1. pc'[w] = "idle"
    BY <1>2 DEF EndsLoop, Returns, Goto
  <2>2. tool'[w] = "primary" /\ attempt'[w] = 0
    BY <1>2 DEF EndsLoop, Returns
  <2> QED BY <2>1, <2>2 DEF InOrder, Ready
<1> QED BY <1>1, <1>2

LEMMA LastNumber ==
  ASSUME NEW a \in 0 .. MaxRetry, ~(a < MaxRetry)
  PROVE  a = MaxRetry
BY CallAssumption

LEMMA AttemptEnds ==
  ASSUME TInv, AInv, NEW w \in Worker, Continues(w), pc[w] \in Tried,
         tries' = tries, paused \subseteq paused'
  PROVE  InOrder(w)' /\ Ready(w)'
<1> USE CallAssumption DEF TInv, CallTypes
<1>0. tries[w][tool[w]] = attempt[w] + 1
  BY DEF AInv, InOrder, Number, Tried, Ready
<1>1. CASE code[w] = 0
  <2>1. pc'[w] = "idle"
    BY <1>1 DEF Continues, Returns, Goto
  <2>2. tool'[w] = "primary" /\ attempt'[w] = 0
    BY <1>1 DEF Continues, Returns
  <2> QED BY <2>1, <2>2 DEF InOrder, Ready
<1>2. CASE code[w] # 0 /\ attempt[w] < MaxRetry
  <2>1. tool' = tool /\ attempt'[w] = attempt[w] + 1 /\ pc'[w] = "allow"
    BY <1>2 DEF Continues, Goto
  <2>2. pc[w] # "idle"
    BY DEF Tried
  <2> QED BY <1>0, <2>1, <2>2 DEF AInv, InOrder, Number, Tried, Ready
<1>3. CASE code[w] # 0 /\ ~(attempt[w] < MaxRetry)
  <2>1. attempt[w] \in 0 .. MaxRetry
    OBVIOUS
  <2>2. attempt[w] = MaxRetry
    BY <1>3, <2>1, LastNumber
  <2>3. pc[w] # "idle"
    BY DEF Tried
  <2> QED BY <1>0, <1>3, <2>2, <2>3, TurnEnds DEF Continues
<1> QED BY <1>1, <1>2, <1>3

LEMMA StepInOrder ==
  ASSUME TInv, AInv, NEW w \in Worker, Step(w)
  PROVE  AInv'
<1> USE CallAssumption DEF TInv, CallTypes
<1>1. CASE Allow(w)
  <2>1. tries' = tries /\ paused' = paused /\ pc[w] = "allow"
    BY <1>1 DEF Allow, seen
  <2>2. CASE KeyNow(w) \in paused
    <3>1. EndsLoop(w) /\ (tool[w] = "primary" => KeyOf[w] \in paused)
      BY <1>1, <2>2 DEF Allow, KeyNow
    <3>2. InOrder(w)' /\ Ready(w)'
      BY <2>1, <3>1, TurnEnds
    <3> QED BY <2>1, <3>1, <3>2, OwnOrder
  <2>3. CASE KeyNow(w) \notin paused
    <3>1. /\ tool' = tool /\ attempt' = attempt
          /\ \E l \in {"assign", "acquire"} : pc' = [pc EXCEPT ![w] = l]
      BY <1>1, <2>3 DEF Allow, Goto
    <3> QED BY <2>1, <3>1 DEF AInv, InOrder, Number, Tried, Ready
  <2> QED BY <2>2, <2>3
<1>2. CASE Assign(w)
  <2>1. /\ tries' = tries /\ paused' = paused /\ pc[w] = "assign" /\ tool' = tool
        /\ attempt' = attempt /\ pc' = [pc EXCEPT ![w] = "acquire"]
    BY <1>2 DEF Assign, seen, Goto
  <2> QED BY <2>1 DEF AInv, InOrder, Number, Tried, Ready
<1>3. CASE Acquire(w)
  <2>1. /\ tries' = [tries EXCEPT ![w][tool[w]] = @ + 1] /\ paused' = paused /\ pc[w] = "acquire"
        /\ tool' = tool /\ attempt' = attempt /\ pc' = [pc EXCEPT ![w] = "check"]
    BY <1>3 DEF Acquire, Goto
  <2>2. \A v \in Worker : v # w => tries'[v] = tries[v] /\ pc'[v] = pc[v]
    BY <2>1
  <2>3. /\ tries'[w][tool[w]] = tries[w][tool[w]] + 1 /\ pc'[w] = "check"
        /\ \A t \in Tool : t # tool[w] => tries'[w][t] = tries[w][t]
    BY <2>1
  <2>4. InOrder(w)' /\ Ready(w)'
    BY <2>1, <2>3 DEF AInv, InOrder, Number, Tried, Tool, Ready
  <2> QED BY <2>1, <2>2, <2>4, OthersInOrder DEF AInv
<1>4. CASE CheckAbort(w) \/ Aborted(w) \/ PopenFails(w) \/ Exits(w) \/ ReadHealth(w) \/ Popen(w)
  <2>1. /\ tries' = tries /\ paused' = paused /\ pc[w] \in Tried /\ tool' = tool
        /\ attempt' = attempt /\ \E l \in Tried : pc' = [pc EXCEPT ![w] = l]
    BY <1>4 DEF CheckAbort, Aborted, PopenFails, Exits, ReadHealth, Popen, Completed, Goto, seen,
                locals, Tried
  <2> QED BY <2>1 DEF AInv, InOrder, Number, Tried, Ready
<1>5. CASE Raises(w) \/ Leaks(w)
  <2>1. /\ tries' = tries /\ paused' = paused /\ tool' = [tool EXCEPT ![w] = "primary"]
        /\ attempt' = [attempt EXCEPT ![w] = 0] /\ pc' = [pc EXCEPT ![w] = "idle"]
    BY <1>5 DEF Raises, Leaks, Returns, Goto, seen
  <2>2. InOrder(w)' /\ Ready(w)'
    BY <2>1 DEF InOrder, Ready
  <2> QED BY <2>1, <2>2, OthersInOrder DEF AInv
<1>6. CASE BreakerRecord(w)
  <2>1. tries' = tries /\ paused \subseteq paused' /\ pc[w] \in Tried
    BY <1>6 DEF BreakerRecord, seen, Tried
  <2>2. CASE entry[w] = Direct
    <3>1. Continues(w)
      BY <1>6, <2>2 DEF BreakerRecord
    <3>2. InOrder(w)' /\ Ready(w)'
      BY <2>1, <3>1, AttemptEnds
    <3> QED BY <2>1, <3>1, <3>2, OwnOrder
  <2>3. CASE entry[w] # Direct
    <3>1. tool' = tool /\ attempt' = attempt /\ pc' = [pc EXCEPT ![w] = "read"]
      BY <1>6, <2>3 DEF BreakerRecord, Goto
    <3> QED BY <2>1, <3>1 DEF AInv, InOrder, Number, Tried, Ready
  <2> QED BY <2>2, <2>3
<1>7. CASE WriteHealth(w)
  <2>1. tries' = tries /\ paused' = paused /\ pc[w] \in Tried /\ Continues(w)
    BY <1>7 DEF WriteHealth, seen, Tried
  <2>2. InOrder(w)' /\ Ready(w)'
    BY <2>1, AttemptEnds
  <2> QED BY <2>1, <2>2, OwnOrder
<1> QED BY <1>1, <1>2, <1>3, <1>4, <1>5, <1>6, <1>7 DEF Step

\* For any retry count, number of threads and modules, and however pauses, releases
\* and stops fall between them: no tool is tried more than MaxRetry + 1 times in a
\* call, and the fallback has its turn after the primary's (adapter.py, invoke).
THEOREM AttemptsOrdered == Spec => []AttemptsInOrder
<1>1. Init => AInv
  BY DEF Init, AInv, InOrder, Ready
<1>2. TInv /\ AInv /\ [Next]_vars => AInv'
  <2> SUFFICES ASSUME TInv, AInv, [Next]_vars PROVE AInv'
    OBVIOUS
  <2> USE CallAssumption DEF TInv, CallTypes
  <2>1. CASE Boot \/ RequestStop \/ UNCHANGED vars
    <3>1. /\ pc' = pc /\ tool' = tool /\ attempt' = attempt /\ tries' = tries /\ paused' = paused
      BY <2>1 DEF Boot, RequestStop, vars, seen, locals
    <3> QED BY <3>1 DEF AInv, InOrder, Number, Ready
  <2>2. CASE Die
    BY <2>2 DEF Die, AInv, InOrder, Ready
  <2>3. ASSUME NEW m \in Key, ReleaseKey(m)
        PROVE  AInv'
    <3>1. /\ pc' = pc /\ tool' = tool /\ attempt' = attempt /\ tries' = tries
          /\ paused' = paused \ {m} /\ \A v \in Worker : KeyOf[v] = m => pc[v] = "idle"
      BY <2>3 DEF ReleaseKey, locals
    <3> QED BY <3>1 DEF AInv, InOrder, Number, Ready
  <2>4. ASSUME NEW w \in Worker, Invoke(w)
        PROVE  AInv'
    <3>1. /\ tool' = tool /\ attempt' = attempt /\ paused' = paused /\ pc[w] = "idle"
          /\ tries' = [tries EXCEPT ![w] = NoTries]
          /\ \E l \in {"idle", "allow"} : pc' = [pc EXCEPT ![w] = l]
      BY <2>4 DEF Invoke, Goto, locals
    <3>2. InOrder(w)' /\ Ready(w)'
      <4>1. \A t \in Tool : tries'[w][t] = 0
        BY <3>1 DEF NoTries
      <4>2. tool[w] = "primary" /\ attempt[w] = 0
        BY <3>1 DEF AInv, Ready
      <4> QED BY <3>1, <4>1, <4>2 DEF InOrder, Number, Tried, Tool, Ready
    <3> QED BY <3>1, <3>2, OthersInOrder DEF AInv
  <2>5. ASSUME NEW w \in Worker, Step(w)
        PROVE  AInv'
    BY <2>5, StepInOrder
  <2> QED BY <2>1, <2>2, <2>3, <2>4, <2>5 DEF Next
<1>3. TInv /\ AInv => AttemptsInOrder
  <2> SUFFICES ASSUME TInv, AInv, NEW w \in Worker, pc[w] # "idle"
               PROVE  /\ \A t \in Tool : tries[w][t] <= MaxRetry + 1
                      /\ tool[w] = "fallback" =>
                           tries[w]["primary"] = MaxRetry + 1 \/ KeyOf[w] \in paused
    BY DEF AttemptsInOrder
  <2>1. InOrder(w) /\ Number(w) <= MaxRetry + 1
    BY CallAssumption DEF AInv, Number, TInv, CallTypes
  <2>2. tool[w] = "primary" \/ tool[w] = "fallback"
    BY DEF TInv, CallTypes, Tool
  <2> QED BY <2>1, <2>2, CallAssumption DEF InOrder, Tool
<1> QED BY <1>1, <1>2, <1>3, TypesKept, PTL DEF Spec

-----------------------------------------------------------------------------
(***************************************************************************)
(* The proxies' counters.  A counter is read, and written later, without a  *)
(* lock; but a failure is counted before its counter is written, so that no *)
(* counter, in memory, in a thread's hand or in the health file, is ever    *)
(* ahead of the failures of its masked form.                                *)
(***************************************************************************)
PoolTypes ==
  /\ cursor \in Entry /\ fails \in [Entry -> Nat] /\ known \subseteq Entry
  /\ file \in [Masks -> Nat \cup {NotRecorded}]
  /\ entry \in [Worker -> Entry \cup {Direct}]
  /\ count \in [Worker -> Nat] /\ failures \in [Masks -> Nat]

FailsCounted == \A i \in Entry : fails[i] <= failures[MaskOf[i]]
FileCounted == \A mask \in Masks : file[mask] <= failures[mask]
\* A thread that records an outcome has an entry, and has counted its failure.
HandCounted ==
  \A w \in Worker :
    /\ pc[w] \in {"read", "write"} => entry[w] \in Entry
    /\ pc[w] = "write" /\ code[w] # 0 => count[w] < failures[MaskOf[entry[w]]]

HInv == PoolTypes /\ FailsCounted /\ FileCounted /\ HandCounted

LEMMA MasksAre == ASSUME NEW i \in Entry PROVE MaskOf[i] \in Masks
BY DEF Masks

LEMMA EntriesAre == Entries \in Nat \ {0} /\ 0 \in Entry /\ Direct \notin Entry /\ Entry \subseteq Nat
BY PoolAssumption DEF Entry, Direct

LEMMA Modulo ==
  ASSUME NEW a \in Nat
  PROVE  a % Entries \in Entry
BY EntriesAre DEF Entry

LEMMA ModuloOf ==
  ASSUME NEW i \in Entry
  PROVE  i % Entries = i /\ (i + Entries) % Entries = i
BY EntriesAre DEF Entry

LEMMA LeastExists ==
  ASSUME NEW S \in SUBSET Nat, S # {}
  PROVE  \E x \in S : \A y \in S : x <= y
<1> DEFINE R == OpToRel(<, Nat)
<1>1. IsWellFoundedOn(R, Nat)
  BY NatLessThanWellFounded
<1>2. \A x, y \in Nat : y < x => <<y, x>> \in R
  BY DEF OpToRel
<1> HIDE DEF R
<1>3. PICK x \in S : \A y \in S : ~ (<<y, x>> \in R)
  BY <1>1, WFMin
<1>4. ASSUME NEW y \in S PROVE x <= y
  <2>1. ~(y < x)
    BY <1>2, <1>3
  <2>2. x \in Nat /\ y \in Nat
    OBVIOUS
  <2> QED BY <2>1, <2>2
<1> QED BY <1>4

LEMMA GreatestExists ==
  ASSUME NEW n \in Nat, NEW S \in SUBSET (0 .. n), S # {}
  PROVE  \E x \in S : \A y \in S : y <= x
<1> DEFINE T == {m \in Nat : \E x \in S : m = n - x}
<1>1. \A x \in S : x \in Int /\ x >= 0 /\ x <= n
  OBVIOUS
<1>2. \A x \in S : n - x \in T
  BY <1>1
<1>3. T \in SUBSET Nat /\ T # {}
  BY <1>2
<1>4. PICK t \in T : \A u \in T : t <= u
  <2> HIDE DEF T
  <2> QED BY <1>3, LeastExists
<1>5. PICK x \in S : t = n - x
  OBVIOUS
<1>6. ASSUME NEW y \in S PROVE y <= x
  <2>1. t <= n - y
    BY <1>2, <1>4
  <2> HIDE DEF T
  <2> QED BY <1>1, <1>5, <2>1
<1> QED BY <1>6

\* The round robin picks an entry, whatever the counters.
LEMMA PickedIs ==
  ASSUME NEW f, NEW c \in Entry
  PROVE  Picked(f, c) \in Entry
<1> DEFINE at(k) == (c + k) % Entries
           healthy == {i \in Entry : ~Unhealthy(f, i)}
           Good(k) == at(k) \in healthy /\ \A j \in 0 .. k - 1 : at(j) \notin healthy
<1>0. c \in Nat /\ \A k \in Entry : k \in Nat
  BY EntriesAre
<1>1. \A k \in Entry : at(k) \in Entry
  <2>1. ASSUME NEW k \in Entry PROVE c + k \in Nat
    BY <1>0
  <2> QED BY <2>1, Modulo
<1>2. CASE healthy = {}
  <2>1. Picked(f, c) = at(0)
    BY <1>2 DEF Picked
  <2> QED BY <1>1, <2>1, EntriesAre
<1>3. CASE healthy # {}
  <2>1. PICK i \in Entry : i \in healthy
    BY <1>3
  <2>2. \E k \in Entry : at(k) = i
    <3>1. CASE i >= c
      <4>1. i - c \in Entry /\ c + (i - c) = i
        BY <3>1, EntriesAre DEF Entry
      <4> QED BY <4>1, ModuloOf
    <3>2. CASE ~(i >= c)
      <4>1. i - c + Entries \in Entry /\ c + (i - c + Entries) = i + Entries
        BY <3>2, EntriesAre DEF Entry
      <4> QED BY <4>1, ModuloOf
    <3> QED BY <3>1, <3>2
  <2> DEFINE S == {k \in Entry : at(k) \in healthy}
  <2>3. S \in SUBSET Nat /\ S # {}
    BY <1>0, <2>1, <2>2
  <2>4. PICK k \in S : \A j \in S : k <= j
    <3> HIDE DEF S
    <3> QED BY <2>3, LeastExists
  <2>5. k \in Entry /\ at(k) \in healthy /\ \A j \in Entry : at(j) \in healthy => k <= j
    BY <2>4
  <2> HIDE DEF at, healthy, S
  <2>6. Good(k)
    <3>1. ASSUME NEW j \in 0 .. k - 1 PROVE at(j) \notin healthy
      <4>1. j \in Entry /\ ~(k <= j)
        BY <2>5, EntriesAre DEF Entry
      <4> QED BY <2>5, <4>1
    <3> QED BY <2>5, <3>1
  <2> DEFINE kk == CHOOSE x \in Entry : Good(x)
  <2>7. kk \in Entry
    BY <2>5, <2>6
  <2>8. Picked(f, c) = at(kk)
    BY <1>3 DEF Picked, at, healthy
  <2> HIDE DEF kk
  <2> QED BY <1>1, <2>7, <2>8
<1> QED BY <1>2, <1>3

\* The entry whose counter stands for a masked form is one that has it.
LEMMA LastIs ==
  ASSUME NEW k \in SUBSET Entry, NEW mask, \E i \in k : MaskOf[i] = mask
  PROVE  LastWith(k, mask) \in k /\ MaskOf[LastWith(k, mask)] = mask
<1> DEFINE is == {i \in k : MaskOf[i] = mask}
<1>1. is \in SUBSET Entry /\ is # {}
  OBVIOUS
<1>2. LastWith(k, mask) = CHOOSE i \in is : \A j \in is : j <= i
  BY DEF LastWith
<1>3. LastWith(k, mask) \in is
  <2>1. is \in SUBSET (0 .. Entries - 1) /\ Entries - 1 \in Nat
    BY <1>1, EntriesAre DEF Entry
  <2> HIDE DEF is
  <2> QED BY <1>1, <1>2, <2>1, GreatestExists
<1> QED BY <1>3

\* What is flushed is no more than what was counted.
LEMMA FlushedIs ==
  ASSUME NEW f \in [Entry -> Nat], NEW k \in SUBSET Entry, NEW g \in [Masks -> Nat],
         \A i \in Entry : f[i] <= g[MaskOf[i]]
  PROVE  /\ Flushed(f, k) \in [Masks -> Nat \cup {NotRecorded}]
         /\ \A mask \in Masks : Flushed(f, k)[mask] <= g[mask]
<1>1. Flushed(f, k) = [mask \in Masks |-> IF \E i \in k : MaskOf[i] = mask THEN f[LastWith(k, mask)] ELSE NotRecorded]
  BY DEF Flushed
<1>2. ASSUME NEW mask \in Masks
      PROVE  Flushed(f, k)[mask] \in Nat \cup {NotRecorded} /\ Flushed(f, k)[mask] <= g[mask]
  <2>1. g[mask] \in Nat
    OBVIOUS
  <2>2. CASE \E i \in k : MaskOf[i] = mask
    <3>1. LastWith(k, mask) \in Entry /\ MaskOf[LastWith(k, mask)] = mask
      BY <2>2, LastIs
    <3>2. Flushed(f, k)[mask] = f[LastWith(k, mask)]
      BY <1>1, <2>2
    <3> QED BY <3>1, <3>2
  <2>3. CASE ~ \E i \in k : MaskOf[i] = mask
    <3>1. Flushed(f, k)[mask] = NotRecorded
      BY <1>1, <2>3
    <3> QED BY <2>1, <3>1 DEF NotRecorded
  <2> QED BY <2>2, <2>3
<1>3. DOMAIN Flushed(f, k) = Masks
  BY <1>1
<1> QED BY <1>1, <1>2, <1>3

\* What is loaded is what the file holds, or nothing.
LEMMA LoadedIs ==
  ASSUME NEW h \in [Masks -> Nat \cup {NotRecorded}], NEW g \in [Masks -> Nat],
         \A mask \in Masks : h[mask] <= g[mask]
  PROVE  /\ LoadedFails(h) \in [Entry -> Nat] /\ LoadedKnown(h) \subseteq Entry
         /\ \A i \in Entry : LoadedFails(h)[i] <= g[MaskOf[i]]
<1>1. LoadedFails(h) = [i \in Entry |-> IF Loads(h, i) THEN h[MaskOf[i]] ELSE 0]
  BY DEF LoadedFails
<1>2. ASSUME NEW i \in Entry
      PROVE  LoadedFails(h)[i] \in Nat /\ LoadedFails(h)[i] <= g[MaskOf[i]]
  <2>1. MaskOf[i] \in Masks /\ g[MaskOf[i]] \in Nat
    BY MasksAre
  <2>2. CASE Loads(h, i)
    BY <1>1, <2>1, <2>2 DEF Loads
  <2>3. CASE ~Loads(h, i)
    BY <1>1, <2>1, <2>3
  <2> QED BY <2>2, <2>3
<1> QED BY <1>1, <1>2 DEF LoadedKnown

\* The loop's moves leave an entry an entry, and go nowhere a counter is written.
LEMMA LoopEntries ==
  ASSUME TInv, HInv, NEW w \in Worker, EndsLoop(w) \/ Continues(w)
  PROVE  /\ entry' \in [Worker -> Entry \cup {Direct}]
         /\ pc' \in [Worker -> Pc] /\ pc'[w] \notin {"read", "write"}
         /\ \A v \in Worker : v # w => pc'[v] = pc[v] /\ entry'[v] = entry[v] /\ code'[v] = code[v]
<1> USE DEF TInv, CallTypes
<1>1. \E l \in {"allow", "idle"} : pc' = [pc EXCEPT ![w] = l]
  BY LoopLeaves DEF Goto
<1>2. entry' = entry \/ entry' = [entry EXCEPT ![w] = Direct]
  BY DEF EndsLoop, Continues, Returns
<1>3. \E c \in ExitCode : code' = [code EXCEPT ![w] = c]
  BY DEF EndsLoop, Continues, Returns, ExitCode
<1>4. entry \in [Worker -> Entry \cup {Direct}]
  BY DEF HInv, PoolTypes
<1> QED BY <1>1, <1>2, <1>3, <1>4 DEF Pc

\* A step of a thread that changes no counter, and does not get to one.
LEMMA NoCounter ==
  ASSUME TInv, HInv, NEW w \in Worker,
         cursor' \in Entry, fails' = fails, known' = known, file' = file, count' = count, failures' = failures,
         entry' \in [Worker -> Entry \cup {Direct}],
         pc'[w] \in {"read", "write"} => pc'[w] = "read" /\ entry'[w] \in Entry,
         \A v \in Worker : v # w => pc'[v] = pc[v] /\ entry'[v] = entry[v] /\ code'[v] = code[v]
  PROVE  HInv'
<1>1. PoolTypes' /\ FailsCounted' /\ FileCounted'
  BY DEF HInv, PoolTypes, FailsCounted, FileCounted
<1>2. HandCounted'
  <2> SUFFICES ASSUME NEW v \in Worker
               PROVE  /\ pc'[v] \in {"read", "write"} => entry'[v] \in Entry
                      /\ pc'[v] = "write" /\ code'[v] # 0 => count'[v] < failures'[MaskOf[entry'[v]]]
    BY DEF HandCounted
  <2> QED BY DEF HInv, HandCounted
<1> QED BY <1>1, <1>2 DEF HInv

LEMMA StepCounts ==
  ASSUME TInv, HInv, NEW w \in Worker, Step(w)
  PROVE  HInv'
<1> DEFINE Others == \A v \in Worker : v # w => pc'[v] = pc[v] /\ entry'[v] = entry[v] /\ code'[v] = code[v]
<1>0. /\ PoolTypes /\ FailsCounted /\ FileCounted /\ HandCounted
      /\ pc \in [Worker -> Pc] /\ code \in [Worker -> ExitCode]
  BY DEF TInv, CallTypes, HInv
<1>1. CASE Allow(w)
  <2>1. cursor' = cursor /\ fails' = fails /\ known' = known /\ file' = file /\ count' = count /\ failures' = failures
    BY <1>1 DEF Allow, pool, seen
  <2>2. CASE KeyNow(w) \in paused
    BY <1>0, <1>1, <2>1, <2>2, LoopEntries, NoCounter DEF Allow, PoolTypes
  <2>3. CASE KeyNow(w) \notin paused
    <3>1. entry' = entry /\ code' = code /\ \E l \in {"assign", "acquire"} : pc' = [pc EXCEPT ![w] = l]
      BY <1>1, <2>3 DEF Allow, Goto
    <3>2. pc'[w] \notin {"read", "write"} /\ Others
      BY <1>0, <3>1
    <3> QED BY <1>0, <2>1, <3>1, <3>2, NoCounter DEF PoolTypes
  <2> QED BY <2>2, <2>3
<1>2. CASE Assign(w)
  <2>1. /\ fails' = fails /\ known' = known /\ file' = file /\ count' = count /\ failures' = failures
        /\ entry' = [entry EXCEPT ![w] = Picked(fails, cursor)] /\ code' = code
        /\ cursor' = (Picked(fails, cursor) + 1) % Entries /\ pc' = [pc EXCEPT ![w] = "acquire"]
    BY <1>2 DEF Assign, Goto, seen
  <2>2. Picked(fails, cursor) \in Entry
    BY <1>0, PickedIs DEF PoolTypes
  <2>3. cursor' \in Entry
    <3> DEFINE p == Picked(fails, cursor)
    <3>1. p \in Nat
      BY <2>2, EntriesAre
    <3>2. p + 1 \in Nat
      <4> HIDE DEF p
      <4> QED BY <3>1
    <3> QED BY <2>1, <3>2, Modulo
  <2>4. pc'[w] \notin {"read", "write"} /\ entry' \in [Worker -> Entry \cup {Direct}] /\ Others
    BY <1>0, <2>1, <2>2 DEF PoolTypes
  <2> QED BY <2>1, <2>3, <2>4, NoCounter
<1>3. CASE Acquire(w) \/ CheckAbort(w) \/ Popen(w)
  <2>1. /\ cursor' = cursor /\ fails' = fails /\ known' = known /\ file' = file /\ count' = count /\ failures' = failures
        /\ entry' = entry /\ code' = code /\ \E l \in {"check", "popen", "wait"} : pc' = [pc EXCEPT ![w] = l]
    BY <1>3 DEF Acquire, CheckAbort, Popen, Goto, pool, locals, seen
  <2>2. pc'[w] \notin {"read", "write"} /\ Others
    BY <1>0, <2>1
  <2> QED BY <1>0, <2>1, <2>2, NoCounter DEF PoolTypes
<1>4. CASE Aborted(w) \/ PopenFails(w) \/ Exits(w)
  <2>1. /\ cursor' = cursor /\ fails' = fails /\ known' = known /\ file' = file /\ count' = count /\ failures' = failures
        /\ entry' = entry /\ (\E c \in ExitCode : code' = [code EXCEPT ![w] = c]) /\ pc' = [pc EXCEPT ![w] = "record"]
    BY <1>4 DEF Aborted, PopenFails, Exits, Completed, Goto, pool, seen, ExitCode
  <2>2. pc'[w] \notin {"read", "write"} /\ Others
    BY <1>0, <2>1
  <2> QED BY <1>0, <2>1, <2>2, NoCounter DEF PoolTypes
<1>5. CASE Raises(w) \/ Leaks(w)
  <2>1. /\ cursor' = cursor /\ fails' = fails /\ known' = known /\ file' = file /\ count' = count /\ failures' = failures
        /\ entry' = [entry EXCEPT ![w] = Direct] /\ code' = [code EXCEPT ![w] = 0] /\ pc' = [pc EXCEPT ![w] = "idle"]
    BY <1>5 DEF Raises, Leaks, Returns, Goto, pool, seen
  <2>2. pc'[w] \notin {"read", "write"} /\ entry' \in [Worker -> Entry \cup {Direct}] /\ Others
    BY <1>0, <2>1 DEF PoolTypes
  <2> QED BY <1>0, <2>1, <2>2, NoCounter DEF PoolTypes
<1>6. CASE BreakerRecord(w)
  <2>1. cursor' = cursor /\ fails' = fails /\ known' = known /\ file' = file /\ count' = count /\ failures' = failures
    BY <1>6 DEF BreakerRecord, pool, seen
  <2>2. CASE entry[w] = Direct
    BY <1>0, <1>6, <2>1, <2>2, LoopEntries, NoCounter DEF BreakerRecord, PoolTypes
  <2>3. CASE entry[w] # Direct
    <3>1. entry' = entry /\ code' = code /\ pc' = [pc EXCEPT ![w] = "read"]
      BY <1>6, <2>3 DEF BreakerRecord, Goto
    <3>2. pc'[w] = "read" /\ entry'[w] \in Entry /\ Others
      BY <1>0, <2>3, <3>1 DEF PoolTypes
    <3> QED BY <1>0, <2>1, <3>1, <3>2, NoCounter DEF PoolTypes
  <2> QED BY <2>2, <2>3
<1>7. CASE ReadHealth(w)
  <2> DEFINE e == entry[w]
             c == fails[e]
  <2>1. /\ cursor' = cursor /\ fails' = fails /\ known' = known /\ file' = file /\ entry' = entry /\ code' = code
        /\ count' = [count EXCEPT ![w] = c] /\ pc' = [pc EXCEPT ![w] = "write"] /\ pc[w] = "read"
        /\ failures' = IF code[w] = 0 THEN failures ELSE [failures EXCEPT ![MaskOf[e]] = @ + 1]
    BY <1>7 DEF ReadHealth, Goto, pool
  <2>2. e \in Entry /\ c \in Nat /\ c <= failures[MaskOf[e]] /\ MaskOf[e] \in Masks
    BY <1>0, <2>1, MasksAre DEF HandCounted, PoolTypes, FailsCounted
  <2>3. /\ failures' \in [Masks -> Nat] /\ \A mask \in Masks : failures[mask] <= failures'[mask]
        /\ code[w] # 0 => failures'[MaskOf[e]] = failures[MaskOf[e]] + 1
    BY <1>0, <2>1, <2>2 DEF PoolTypes
  <2> HIDE DEF c
  <2>4. PoolTypes'
    BY <1>0, <2>1, <2>2, <2>3 DEF PoolTypes
  <2>5. FailsCounted'
    <3> SUFFICES ASSUME NEW i \in Entry PROVE fails[i] <= failures'[MaskOf[i]]
      BY <2>1 DEF FailsCounted
    <3>1. fails[i] <= failures[MaskOf[i]] /\ fails[i] \in Nat /\ MaskOf[i] \in Masks
      BY <1>0, MasksAre DEF FailsCounted, PoolTypes
    <3>2. failures[MaskOf[i]] \in Nat /\ failures'[MaskOf[i]] \in Nat /\ failures[MaskOf[i]] <= failures'[MaskOf[i]]
      BY <1>0, <2>3, <3>1 DEF PoolTypes
    <3> QED BY <3>1, <3>2
  <2>6. FileCounted'
    <3> SUFFICES ASSUME NEW mask \in Masks PROVE file[mask] <= failures'[mask]
      BY <2>1 DEF FileCounted
    <3>1. file[mask] <= failures[mask] /\ file[mask] \in Int
      BY <1>0 DEF FileCounted, PoolTypes, NotRecorded
    <3>2. failures[mask] \in Nat /\ failures'[mask] \in Nat /\ failures[mask] <= failures'[mask]
      BY <1>0, <2>3 DEF PoolTypes
    <3> QED BY <3>1, <3>2
  <2>7. HandCounted'
    <3> SUFFICES ASSUME NEW v \in Worker
                 PROVE  /\ pc'[v] \in {"read", "write"} => entry[v] \in Entry
                        /\ pc'[v] = "write" /\ code[v] # 0 => count'[v] < failures'[MaskOf[entry[v]]]
      BY <2>1 DEF HandCounted
    <3>1. CASE v = w
      <4>1. count'[w] = c
        BY <1>0, <2>1 DEF PoolTypes
      <4>2. code[w] # 0 => c < failures'[MaskOf[e]]
        <5>1. failures[MaskOf[e]] \in Nat
          BY <1>0, <2>2 DEF PoolTypes
        <5> QED BY <2>2, <2>3, <5>1
      <4> QED BY <2>2, <3>1, <4>1, <4>2
    <3>2. CASE v # w
      <4>1. count'[v] = count[v] /\ pc'[v] = pc[v] /\ count[v] \in Nat
        BY <1>0, <2>1, <3>2 DEF PoolTypes
      <4>2. /\ pc[v] \in {"read", "write"} => entry[v] \in Entry
            /\ pc[v] = "write" /\ code[v] # 0 => count[v] < failures[MaskOf[entry[v]]]
        BY <1>0 DEF HandCounted
      <4>3. pc[v] = "write" => LET m == MaskOf[entry[v]] IN
              failures[m] \in Nat /\ failures'[m] \in Nat /\ failures[m] <= failures'[m]
        BY <1>0, <2>3, <4>2, MasksAre DEF PoolTypes
      <4> QED BY <4>1, <4>2, <4>3
    <3> QED BY <3>1, <3>2
  <2> QED BY <2>4, <2>5, <2>6, <2>7 DEF HInv
<1>8. CASE WriteHealth(w)
  <2> DEFINE e == entry[w]
             c == Counted(count[w], code[w] = 0)
  <2>1. /\ cursor' = cursor /\ fails' = [fails EXCEPT ![e] = c] /\ known' = known \cup {e}
        /\ file' = Flushed(fails', known') /\ count' = [count EXCEPT ![w] = 0] /\ failures' = failures
        /\ pc[w] = "write" /\ Continues(w)
    BY <1>8 DEF WriteHealth, seen
  <2>2. e \in Entry /\ MaskOf[e] \in Masks /\ (code[w] # 0 => count[w] < failures[MaskOf[e]])
    BY <1>0, <2>1, MasksAre DEF HandCounted
  <2>3. c \in Nat /\ c <= failures[MaskOf[e]]
    <3>1. count[w] \in Nat /\ failures[MaskOf[e]] \in Nat
      BY <1>0, <2>2 DEF PoolTypes
    <3>2. c = IF code[w] = 0 THEN 0 ELSE count[w] + 1
      BY DEF Counted
    <3> HIDE DEF c, e
    <3> QED BY <2>2, <3>1, <3>2
  <2> HIDE DEF c, e
  <2>4. fails' \in [Entry -> Nat] /\ \A i \in Entry : fails'[i] <= failures[MaskOf[i]]
    BY <1>0, <2>1, <2>2, <2>3 DEF PoolTypes, FailsCounted
  <2>5. known' \in SUBSET Entry /\ failures \in [Masks -> Nat]
    BY <1>0, <2>1, <2>2 DEF PoolTypes
  <2>6. file' \in [Masks -> Nat \cup {NotRecorded}] /\ \A mask \in Masks : file'[mask] <= failures[mask]
    BY <2>1, <2>4, <2>5, FlushedIs
  <2>7. entry' \in [Worker -> Entry \cup {Direct}] /\ pc'[w] \notin {"read", "write"} /\ Others
    BY <2>1, LoopEntries
  <2>8. count' \in [Worker -> Nat] /\ \A v \in Worker : v # w => count'[v] = count[v]
    BY <1>0, <2>1 DEF PoolTypes
  <2>9. PoolTypes'
    BY <1>0, <2>1, <2>4, <2>5, <2>6, <2>7, <2>8 DEF PoolTypes
  <2>10. HandCounted'
    <3> SUFFICES ASSUME NEW v \in Worker
                 PROVE  /\ pc'[v] \in {"read", "write"} => entry'[v] \in Entry
                        /\ pc'[v] = "write" /\ code'[v] # 0 => count'[v] < failures'[MaskOf[entry'[v]]]
      BY DEF HandCounted
    <3>1. CASE v = w
      BY <2>7, <3>1
    <3>2. CASE v # w
      BY <1>0, <2>1, <2>7, <2>8, <3>2 DEF HandCounted
    <3> QED BY <3>1, <3>2
  <2> QED BY <2>1, <2>4, <2>6, <2>9, <2>10 DEF HInv, FailsCounted, FileCounted
<1> QED BY <1>1, <1>2, <1>3, <1>4, <1>5, <1>6, <1>7, <1>8 DEF Step

LEMMA NextCounts ==
  ASSUME TInv, HInv, [Next]_vars
  PROVE  HInv'
<1>0. PoolTypes /\ FailsCounted /\ FileCounted /\ HandCounted
  BY DEF HInv
<1>1. CASE Boot
  <2>1. /\ cursor' = cursor /\ file' = file /\ entry' = entry /\ count' = count /\ failures' = failures
        /\ pc' = pc /\ code' = code
    BY <1>1 DEF Boot, locals, seen
  <2>2. \/ fails' = fails /\ known' = known
        \/ fails' = LoadedFails(file) /\ known' = LoadedKnown(file)
    BY <1>1 DEF Boot
  <2>3. fails' \in [Entry -> Nat] /\ known' \subseteq Entry /\ \A i \in Entry : fails'[i] <= failures[MaskOf[i]]
    <3>1. file \in [Masks -> Nat \cup {NotRecorded}] /\ failures \in [Masks -> Nat]
          /\ \A mask \in Masks : file[mask] <= failures[mask]
      BY <1>0 DEF PoolTypes, FileCounted
    <3>2. /\ LoadedFails(file) \in [Entry -> Nat] /\ LoadedKnown(file) \subseteq Entry
          /\ \A i \in Entry : LoadedFails(file)[i] <= failures[MaskOf[i]]
      BY <3>1, LoadedIs
    <3> QED BY <1>0, <2>2, <3>2 DEF PoolTypes, FailsCounted
  <2> QED BY <1>0, <2>1, <2>3 DEF HInv, PoolTypes, FailsCounted, FileCounted, HandCounted
<1>2. CASE Die
  <2>1. /\ cursor' = 0 /\ fails' = [i \in Entry |-> 0] /\ known' = {} /\ file' = file /\ failures' = failures
        /\ entry' = [w \in Worker |-> Direct] /\ count' = [w \in Worker |-> 0] /\ pc' = [w \in Worker |-> "idle"]
    BY <1>2 DEF Die
  <2>2. PoolTypes'
    BY <1>0, <2>1, EntriesAre DEF PoolTypes
  <2>3. FailsCounted'
    BY <1>0, <2>1, MasksAre DEF PoolTypes, FailsCounted
  <2>4. HandCounted'
    BY <2>1 DEF HandCounted
  <2> QED BY <1>0, <2>1, <2>2, <2>3, <2>4 DEF HInv, FileCounted
<1>3. ASSUME NEW w \in Worker, Invoke(w)
      PROVE  HInv'
  <2>1. /\ cursor' = cursor /\ fails' = fails /\ known' = known /\ file' = file /\ count' = count /\ failures' = failures
        /\ entry' = entry /\ code' = code /\ \E l \in {"idle", "allow"} : pc' = [pc EXCEPT ![w] = l]
    BY <1>3 DEF Invoke, Goto, pool, locals
  <2>2. /\ pc'[w] \notin {"read", "write"}
        /\ \A v \in Worker : v # w => pc'[v] = pc[v] /\ entry'[v] = entry[v] /\ code'[v] = code[v]
    BY <2>1 DEF TInv, CallTypes
  <2> QED BY <1>0, <2>1, <2>2, NoCounter DEF PoolTypes
<1>4. ASSUME NEW w \in Worker, Step(w)
      PROVE  HInv'
  BY <1>4, StepCounts
<1>5. CASE RequestStop \/ (\E m \in Key : ReleaseKey(m)) \/ UNCHANGED vars
  <2>1. /\ cursor' = cursor /\ fails' = fails /\ known' = known /\ file' = file /\ count' = count /\ failures' = failures
        /\ entry' = entry /\ code' = code /\ pc' = pc
    BY <1>5 DEF RequestStop, ReleaseKey, vars, pool, locals, seen
  <2> QED BY <1>0, <2>1 DEF HInv, PoolTypes, FailsCounted, FileCounted, HandCounted
<1> QED BY <1>1, <1>2, <1>3, <1>4, <1>5 DEF Next

LEMMA InitCounts == ASSUME Init PROVE HInv
<1>1. /\ cursor = 0 /\ fails = [i \in Entry |-> 0] /\ known = {} /\ file = NoFile
      /\ failures = [mask \in Masks |-> 0]
      /\ entry = [w \in Worker |-> Direct] /\ count = [w \in Worker |-> 0] /\ pc = [w \in Worker |-> "idle"]
  BY DEF Init
<1>2. PoolTypes
  BY <1>1, EntriesAre DEF PoolTypes, NoFile
<1>3. FailsCounted
  BY <1>1, MasksAre DEF FailsCounted
<1>4. FileCounted
  BY <1>1 DEF FileCounted, NoFile, NotRecorded
<1>5. HandCounted
  BY <1>1 DEF HandCounted
<1> QED BY <1>2, <1>3, <1>4, <1>5 DEF HInv

\* An entry is skipped as unhealthy only if entries of its masked form have really
\* failed that often, over all runs, whatever threads race for its counter and
\* whenever an engine dies between a count and its record (ip_rotation.py,
\* record_outcome and load_health).
THEOREM SkipsEarned == Spec => []SkippedEarned
<1>1. HInv => SkippedEarned
  <2> SUFFICES ASSUME HInv, NEW i \in Entry, fails[i] >= UnhealthyAfter
               PROVE  failures[MaskOf[i]] >= UnhealthyAfter
    BY DEF SkippedEarned, Unhealthy
  <2>1. fails[i] <= failures[MaskOf[i]] /\ fails[i] \in Nat /\ failures[MaskOf[i]] \in Nat /\ UnhealthyAfter \in Nat
    BY PoolAssumption, MasksAre DEF HInv, FailsCounted, PoolTypes
  <2> QED BY <2>1
<1>2. TInv /\ HInv /\ [Next]_vars => HInv'
  BY NextCounts
<1>3. Init => HInv
  BY InitCounts
<1> QED BY <1>1, <1>2, <1>3, TypesKept, PTL DEF Spec

-----------------------------------------------------------------------------
(***************************************************************************)
(* The other types: the shares are numbers, however little the host has.    *)
(***************************************************************************)
LEMMA AtLeastOneIs == ASSUME NEW n \in Nat PROVE AtLeastOne(n) \in Nat \ {0}
BY DEF AtLeastOne

LEMMA ShareIs == ASSUME NEW n \in Nat PROVE Share(n) \in Nat
<1>1. AtLeastOne(n) \in Nat \ {0} /\ BudgetRam \in Nat
  BY AtLeastOneIs, CeilingAssumption
<1> DEFINE x == AtLeastOne(n)
<1>2. BudgetRam \div x \in Nat
  <2> HIDE DEF x
  <2> QED BY <1>1 DEF x
<1>3. AtLeastOne(BudgetRam \div x) \in Nat
  BY <1>2, AtLeastOneIs
<1> QED BY <1>3 DEF Share

LEMMA ShrunkIs == ASSUME NEW n \in Nat, NEW a PROVE Shrunk(n, a) \in Nat
<1> DEFINE M == AtLeastOne(n)
           Good(k) == k = 1 \/ Fits(k, a)
           Best(k) == Good(k) /\ \A j \in (k + 1) .. M : ~Fits(j, a)
           S == {k \in 1 .. M : Good(k)}
<1>1. M \in Nat /\ M >= 1
  BY AtLeastOneIs
<1>2. S \in SUBSET (0 .. M) /\ S # {}
  <2>1. 1 \in S
    BY <1>1
  <2>2. 1 .. M \subseteq 0 .. M
    BY <1>1
  <2> QED BY <2>1, <2>2
<1>3. PICK k \in S : \A j \in S : j <= k
  <2> HIDE DEF S, M
  <2> QED BY <1>1, <1>2, GreatestExists
<1>4. Best(k)
  <2>1. k \in 1 .. M /\ Good(k)
    OBVIOUS
  <2>2. ASSUME NEW j \in (k + 1) .. M PROVE ~Fits(j, a)
    <3>1. j \in 1 .. M /\ ~(j <= k)
      BY <1>1, <2>1
    <3>2. j \notin S
      BY <1>3, <3>1
    <3> QED BY <3>1, <3>2
  <2> QED BY <2>1, <2>2
<1>5. Shrunk(n, a) = CHOOSE x \in 1 .. M : Best(x)
  BY DEF Shrunk
<1>6. k \in 1 .. M
  OBVIOUS
<1> HIDE DEF M, Best, S
<1>7. Shrunk(n, a) \in 1 .. M
  BY <1>4, <1>5, <1>6
<1> QED BY <1>1, <1>7

LEMMA GrantedIs == ASSUME NEW r \in Nat, NEW p \in Nat, NEW a PROVE Granted(r, p, a) \in Nat
<1> DEFINE n == r + 1
           fit == Shrunk(IF p > n THEN p ELSE n, a)
<1>1. n \in Nat /\ (IF p > n THEN p ELSE n) \in Nat
  OBVIOUS
<1>2. fit \in Nat
  <2> HIDE DEF n
  <2> QED BY <1>1, ShrunkIs
<1>3. Granted(r, p, a) = Share(IF n > fit THEN fit ELSE n)
  BY DEF Granted
<1> HIDE DEF n, fit
<1>4. (IF n > fit THEN fit ELSE n) \in Nat
  BY <1>1, <1>2
<1> QED BY <1>3, <1>4, ShareIs

OtherTypes ==
  /\ hurt \subseteq Key /\ share \in [Worker -> Nat] /\ cont \subseteq Worker
  /\ left \in [calls : [Worker -> Nat], boots : Nat]

LEMMA NextOthers ==
  ASSUME TInv, OtherTypes, [Next]_vars
  PROVE  OtherTypes'
<1>1. hurt' \subseteq Key
  <2>1. hurt' = hurt \/ hurt' \subseteq hurt \/ \E w \in Worker : hurt' = hurt \cup {KeyNow(w)}
    BY DEF vars, pool, locals, seen, Next, Step, Boot, RequestStop, Die, ReleaseKey, Invoke, Allow, Assign, Acquire, CheckAbort,
           Aborted, Raises, Leaks, Popen, PopenFails, Exits, Completed, BreakerRecord, ReadHealth, WriteHealth
  <2>2. \A w \in Worker : KeyNow(w) \in Key
    BY DEF KeyNow, Key
  <2> QED BY <2>1, <2>2 DEF OtherTypes
<1>2. share' \in [Worker -> Nat]
  <2>1. \/ share' = share
        \/ share' = [w \in Worker |-> 0]
        \/ \E w \in Worker : share' = [share EXCEPT ![w] = 0]
        \/ \E w \in Worker, a \in Available : share' = [share EXCEPT ![w] = Granted(running, Planned0, a)]
    BY DEF vars, pool, locals, seen, Next, Step, Boot, RequestStop, Die, ReleaseKey, Invoke, Allow, Assign, Acquire, CheckAbort,
           Aborted, Raises, Leaks, Popen, PopenFails, Exits, Completed, Release, BreakerRecord, ReadHealth, WriteHealth
  <2>2. \A a \in Available : Granted(running, Planned0, a) \in Nat
    BY GrantedIs, CallAssumption DEF TInv, CallTypes
  <2> QED BY <2>1, <2>2 DEF OtherTypes
<1>3. cont' \subseteq Worker
  <2>1. cont' \subseteq cont \/ \E w \in Worker : cont' = cont \cup {w}
    BY DEF vars, pool, locals, seen, Next, Step, Boot, RequestStop, Die, ReleaseKey, Invoke, Allow, Assign, Acquire, CheckAbort,
           Aborted, Raises, Leaks, Popen, PopenFails, Exits, Completed, BreakerRecord, ReadHealth, WriteHealth
  <2> QED BY <2>1 DEF OtherTypes
<1>4. left' \in [calls : [Worker -> Nat], boots : Nat]
  <2>1. \/ left' = left
        \/ left.boots > 0 /\ left' = [left EXCEPT !.boots = @ - 1]
        \/ \E w \in Worker : left.calls[w] > 0 /\ left' = [left EXCEPT !.calls[w] = @ - 1]
    BY DEF vars, pool, locals, seen, Next, Step, Boot, RequestStop, Die, ReleaseKey, Invoke, Allow, Assign, Acquire, CheckAbort,
           Aborted, Raises, Leaks, Popen, PopenFails, Exits, Completed, BreakerRecord, ReadHealth, WriteHealth
  <2> QED BY <2>1 DEF OtherTypes
<1> QED BY <1>1, <1>2, <1>3, <1>4 DEF OtherTypes

\* Every variable keeps its type, the shares of the ceiling and the picks of the
\* round robin included, for any budget, any floors and any pool.
THEOREM TypeCorrect == Spec => []TypeOK
<1>1. Init => OtherTypes
  BY CallAssumption DEF Init, OtherTypes
<1>2. TInv /\ HInv /\ OtherTypes => TypeOK
  BY DEF TInv, CallTypes, HInv, PoolTypes, OtherTypes, TypeOK
<1>3. TInv /\ OtherTypes /\ [Next]_vars => OtherTypes'
  BY NextOthers
<1>4. TInv /\ HInv /\ [Next]_vars => HInv'
  BY NextCounts
<1>5. Init => HInv
  BY InitCounts
<1> QED BY <1>1, <1>2, <1>3, <1>4, <1>5, TypesKept, PTL DEF Spec
=============================================================================
