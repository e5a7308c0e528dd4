------------------------------ MODULE PortSweep ------------------------------
(* The port stages of a run (pipeline/modules/port_check.py, port_sweep.py   *)
(* and the sweep's stage in engine.py): the preview, the target set, the      *)
(* resolution guarantee, and a paced scan of one address after the other      *)
(* that a stop, the window's deadline or the canary may cut short.            *)
(* The history a run leaves arms the canary of the next one.  Time is in      *)
(* units; a scan takes any of Durations, whatever its rate promises.          *)
EXTENDS SweepTargets, PortPace, Sequences

CONSTANTS
  Inputs,      \* what the earlier stages may leave, a subset of Input
  Profiles,    \* the profiles the operator may configure
  PortsOf, CapOf,  \* the ports and the rate cap of a profile
  ScopeMode,   \* portsweep_scope
  Preview,     \* is the optional preview (naabu in PORT-CHECK) enabled?
  Budget,      \* the duration window
  FlushEvery, Durations, Divisor,
  MaxRuns      \* bound: runs of one target

ASSUME SweepAssumption ==
  /\ Inputs \subseteq Input /\ Inputs # {} /\ Profiles # {}
  /\ \A p \in Profiles \ {"broken"} : {PortsOf[p], CapOf[p]} \subseteq Nat
  /\ {Budget, FlushEvery, Divisor, MaxRuns} \cup Durations \subseteq Nat \ {0}

VARIABLES
  now, pc, runs, stop,
  row,         \* the sweep's module row in the state document
  in, profile, \* this run's inputs
  hosts,       \* ip_hosts
  noIp, unresolved,
  deadline, effective, breached,   \* the pace
  pacer, sentinels, rate,
  todo,        \* the addresses the loop has not reached
  scans,       \* the records, a function on the addresses scanned
  unreachable, remaining, partial, flushed,
  check, data, \* port-check.json and port-sweep.json in the target's directory
  history,     \* the snapshots, oldest first
  verdicts,    \* history variable: this sweep's canary windows, [at, missed]
  dropped      \* history variable: the address at which the canary paused

input == <<runs, in, profile>>
world == <<runs, in, profile, check, history>>
targets == <<hosts, noIp, unresolved>>
pace == <<deadline, effective, breached, sentinels>>
loop == <<pacer, rate, todo, verdicts, dropped>>
result == <<scans, unreachable, remaining, partial, flushed>>
vars == <<now, pc, runs, stop, row, in, profile, hosts, noIp, unresolved,
          deadline, effective, breached, pacer, sentinels, rate, todo, scans,
          unreachable, remaining, partial, flushed, check, data, history,
          verdicts, dropped>>

\* A document, kept as far as a later run reads it: its open ports.
NoDoc == [skipped |-> "absent", open |-> {}]
NoHosts == [ip \in {} |-> {}]
NoScans == [ip \in {} |-> "none"]
All == DOMAIN hosts
Scanned == DOMAIN scans
FirstOf(S) == CHOOSE x \in S : \A y \in S : x <= y

Opens(d) == d.open
\* The newest snapshot that records an open port, the sweep's document before
\* the preview's: where the sentinels are mined.
Mined(h) ==
  LET found == {k \in DOMAIN h : Opens(h[k].sweep) \cup Opens(h[k].check) # {}}
      newest == CHOOSE k \in found : \A j \in found : j <= k
  IN IF found = {} THEN {}
     ELSE IF Opens(h[newest].sweep) # {} THEN Opens(h[newest].sweep)
     ELSE Opens(h[newest].check)

\* The payload that is written, during the sweep and after it.  Its lists are
\* the loop's, whose last state the properties read.
Payload(skipped) ==
  [skipped |-> skipped, open |-> {ip \in Scanned : scans[ip] = "open"}]

\* The variables of a run that has not begun, or is over.
Cleared ==
  /\ now' = 1 /\ hosts' = NoHosts /\ noIp' = {} /\ unresolved' = {}
  /\ deadline' = 0 /\ effective' = 0 /\ breached' = FALSE
  /\ pacer' = NewPacer(1) /\ sentinels' = {} /\ rate' = 0 /\ todo' = {}
  /\ scans' = NoScans /\ unreachable' = {} /\ remaining' = {} /\ partial' = {}
  /\ flushed' = 0 /\ verdicts' = <<>> /\ dropped' = {}

------------------------------------------------------------------------------
(* The run around the sweep. *)

Begin(fresh) ==
  /\ pc = "idle" /\ runs < MaxRuns
  /\ runs' = runs + 1 /\ pc' = "preview" /\ UNCHANGED stop
  /\ row' = IF fresh THEN "pending" ELSE row
  /\ \E i \in Inputs, p \in Profiles : in' = i /\ profile' = p
  /\ UNCHANGED <<now, check, data, history, targets, pace, loop, result>>

\* A new run starts with fresh rows; a resumed one keeps them.
StartRun == Begin(TRUE)
ResumeRun == row # "pending" /\ Begin(FALSE)

\* PORT-CHECK: one quick scan of every resolved address.  With the preview off
\* every address is listed without a port.
PortCheck ==
  /\ pc = "preview" /\ pc' = "stage"
  /\ LET m == Mapped(in, Host)
     IN \E open \in SUBSET DOMAIN m :
          /\ ~Preview => open = {}
          /\ check' = [skipped |-> "no", open |-> open]
  /\ UNCHANGED <<now, stop, row, data, history, input, targets, pace, loop, result>>

\* The engine's stage: a stopped run ends here, a resumed one skips a row
\* that is done.
Stage ==
  /\ pc = "stage"
  /\ IF stop \/ row = "done"
       THEN pc' = "ending" /\ UNCHANGED row
       ELSE pc' = "inputs" /\ row' = "running"
  /\ UNCHANGED <<now, stop, data, world, targets, pace, loop, result>>

\* The window opens.  The overlap guard reads the newest sweep of the history
\* but a snapshot's directory never parses as the time it compares with, so
\* every sweep proceeds.  Then the address map and the three classes of hosts.
BuildTargets ==
  /\ pc = "inputs"
  /\ LET c == Candidates(in, ScopeMode)
         m == WithPassive(in, Mapped(in, c))
     IN hosts' = m /\ noIp' = NoIpHosts(in, c, m)
  /\ deadline' = now + Budget
  /\ pc' = IF noIp' = {} THEN "pace" ELSE "resolve"
  /\ UNCHANGED <<now, stop, row, data, unresolved, effective, breached, sentinels, world, loop, result>>

\* The guarantee: one batched resolution of the hosts without an address.
Resolve ==
  /\ pc = "resolve" /\ pc' = "pace"
  /\ \E answered \in SUBSET noIp :
       \E rows \in [answered -> (SUBSET IP) \ {{}}] :
         hosts' = WithRows(in, hosts, rows) /\ unresolved' = Unresolved(noIp, rows)
  /\ \E d \in Durations : now' = now + d
  /\ UNCHANGED <<stop, row, data, noIp, world, pace, loop, result>>

\* A profile that names no ports ends the sweep with everything remaining.
UnusableProfile ==
  /\ pc = "pace" /\ profile = "broken"
  /\ partial' = {"profile-unusable"} /\ remaining' = All
  /\ data' = Payload("profile_unusable")
  /\ pc' = "finish"
  /\ UNCHANGED <<now, stop, row, scans, unreachable, flushed, world, targets, pace, loop>>

\* What the loop goes through.
Queue == All

\* The pace that would fit the window, at least 1 and at most the cap; a cap
\* below it breaches the window.
Pace ==
  /\ pc = "pace" /\ profile # "broken"
  /\ LET need == Cardinality(All) * PortsOf[profile]
         cap == CapOf[profile]
     IN /\ breached' = (need > cap * Budget)
        /\ effective' = IF All = {} THEN 0 ELSE Most(1, Least(need \div Budget, cap))
  /\ sentinels' = Mined(history) /\ pacer' = NewPacer(now)
  /\ todo' = Queue /\ flushed' = 0 /\ pc' = "loop"
  /\ UNCHANGED <<now, stop, row, data, deadline, rate, verdicts, dropped,
                 scans, unreachable, remaining, partial, world, targets>>

------------------------------------------------------------------------------
(* The loop over the addresses. *)

Ip == FirstOf(todo)
Cap == CapOf[profile]
\* The rate is read before the tick, so a bad canary slows the next address.
ScanRate == Least(CurrentPps(pacer, Cap), effective)
Late == breached /\ (deadline - now) * ScanRate < PortsOf[profile]

\* Mutant of LoopStop: the address at hand is taken for scanned.
LoopStopShort ==
  /\ pc = "loop" /\ todo # {} /\ stop
  /\ remaining' = remaining \cup (All \ (Scanned \cup {Ip}))
  /\ partial' = partial \cup {"operator_stop"} /\ pc' = "end"
  /\ UNCHANGED <<now, stop, row, data, scans, unreachable, flushed, world, targets, pace, loop>>

\* A stop ends the loop, with everything that has no record remaining.
LoopStop ==
  /\ pc = "loop" /\ todo # {} /\ stop
  /\ remaining' = remaining \cup (All \ Scanned)
  /\ partial' = partial \cup {"operator_stop"} /\ pc' = "end"
  /\ UNCHANGED <<now, stop, row, data, scans, unreachable, flushed, world, targets, pace, loop>>

\* In a breached window an address that no longer fits is left for later.
Defer ==
  /\ pc = "loop" /\ todo # {} /\ ~stop /\ Late
  /\ remaining' = remaining \cup {Ip} /\ todo' = todo \ {Ip}
  /\ UNCHANGED <<now, pc, stop, row, data, pacer, rate, verdicts, dropped,
                 scans, unreachable, partial, flushed, world, targets, pace>>

\* Mutant of TickPacer: a paused sweep leaves no mark on the run.
TickPacerSilent ==
  /\ pc = "loop" /\ todo # {} /\ ~stop /\ ~Late
  /\ rate' = ScanRate
  /\ \E missed \in BOOLEAN :
       LET due == CanaryDue(pacer, now) /\ sentinels # {}
           p == Tick(pacer, now, Cap, sentinels # {}, missed)
       IN /\ missed => due
          /\ pacer' = p
          /\ verdicts' = IF due THEN Append(verdicts, [at |-> now, missed |-> missed]) ELSE verdicts
          /\ IF p.paused
               THEN /\ remaining' = remaining \cup (All \ (Scanned \cup {Ip}))
                    /\ dropped' = {Ip} /\ pc' = "end" /\ UNCHANGED partial
               ELSE pc' = "scan" /\ UNCHANGED <<remaining, partial, dropped>>
  /\ UNCHANGED <<now, stop, row, data, todo, scans, unreachable, flushed, world, targets, pace>>

\* One tick of the pacer.  If it pauses, every address without a record but
\* the one at hand is listed as remaining, and the loop ends.
TickPacer ==
  /\ pc = "loop" /\ todo # {} /\ ~stop /\ ~Late
  /\ rate' = ScanRate
  /\ \E missed \in BOOLEAN :
       LET due == CanaryDue(pacer, now) /\ sentinels # {}
           p == Tick(pacer, now, Cap, sentinels # {}, missed)
       IN /\ missed => due
          /\ pacer' = p
          /\ verdicts' = IF due THEN Append(verdicts, [at |-> now, missed |-> missed]) ELSE verdicts
          /\ IF p.paused
               THEN /\ remaining' = remaining \cup (All \ (Scanned \cup {Ip}))
                    /\ partial' = partial \cup {"canary_pause"}
                    /\ dropped' = {Ip} /\ pc' = "end"
               ELSE pc' = "scan" /\ UNCHANGED <<remaining, partial, dropped>>
  /\ UNCHANGED <<now, stop, row, data, todo, scans, unreachable, flushed, world, targets, pace>>

Recorded(what) == scans' = [ip \in Scanned \cup {Ip} |-> IF ip = Ip THEN what ELSE scans[ip]]

\* What scanning an address ends with: a failure without a port, which is also
\* what a scan killed by a stop returns, open ports, or none.
Endings == {"failed"} \cup IF stop THEN {} ELSE {"open", "none"}

\* The scan of one address.
Scan ==
  /\ pc = "scan"
  /\ \E d \in Durations : now' = now + d
  /\ \/ /\ "failed" \in Endings /\ unreachable' = unreachable \cup {Ip} /\ todo' = todo \ {Ip}
        /\ pc' = "loop" /\ UNCHANGED scans
     \/ /\ "open" \in Endings /\ Recorded("open") /\ pc' = "services" /\ UNCHANGED <<todo, unreachable>>
     \/ /\ "none" \in Endings /\ UNCHANGED <<todo, unreachable>>
        /\ IF profile = "full" /\ AnyAlive(in, hosts, Ip)
             THEN pc' = "reprobe" /\ UNCHANGED scans
             ELSE pc' = "flush" /\ Recorded("none")
  /\ UNCHANGED <<stop, row, data, pacer, rate, verdicts, dropped, remaining,
                 partial, flushed, world, targets, pace>>

\* A live address without an open port is scanned once more, slower; a second
\* empty answer, or a failure, marks it as a filtered suspect.
Reprobe ==
  /\ pc = "reprobe"
  /\ \E d \in Durations : now' = now + d
  /\ rate' = Most(1, rate \div Divisor)
  /\ \/ "open" \in Endings /\ Recorded("open") /\ pc' = "services"
     \/ Recorded("suspect") /\ pc' = "flush"
  /\ UNCHANGED <<stop, row, data, todo, pacer, verdicts, dropped, unreachable,
                 remaining, partial, flushed, world, targets, pace>>

\* The service scan of the open ports; it only takes time.
Services ==
  /\ pc = "services" /\ pc' = "flush"
  /\ \E d \in Durations : now' = now + d
  /\ UNCHANGED <<stop, row, data, world, targets, pace, loop, result>>

\* The document is rewritten during the sweep, at most once an interval.
Flush ==
  /\ pc = "flush" /\ pc' = "loop"
  /\ todo' = todo \ {Ip}
  /\ IF now - flushed >= FlushEvery
       THEN flushed' = now /\ data' = Payload("no")
       ELSE UNCHANGED <<flushed, data>>
  /\ UNCHANGED <<now, stop, row, pacer, rate, verdicts, dropped, scans,
                 unreachable, remaining, partial, world, targets, pace>>

LoopEnds ==
  /\ pc = "loop" /\ todo = {} /\ pc' = "end"
  /\ UNCHANGED <<now, stop, row, data, world, targets, pace, loop, result>>

\* The final document; anything that remains marks the run as partial.
WriteFinal ==
  /\ pc = "end" /\ pc' = "finish"
  /\ partial' = IF remaining = {} THEN partial
                ELSE partial \cup {IF breached THEN "window_breached" ELSE "budget_stop"}
  /\ data' = Payload("no")
  /\ UNCHANGED <<now, stop, row, scans, unreachable, remaining, flushed, world, targets, pace, loop>>

\* The row is done, unless the operator has stopped the target.
Finish ==
  /\ pc = "finish" /\ pc' = "ending"
  /\ row' = IF stop THEN row ELSE "done"
  /\ UNCHANGED <<now, stop, data, world, targets, pace, loop, result>>

\* An exception in the stage fails the row; its document stays as it is.
InStage == {"inputs", "resolve", "pace", "loop", "scan", "reprobe", "services", "flush", "end", "finish"}
Raises ==
  /\ pc \in InStage \ {"finish"} /\ pc' = "ending"
  /\ row' = IF stop THEN row ELSE "failed"
  /\ partial' = partial \cup {"exception"}
  /\ UNCHANGED <<now, stop, data, scans, unreachable, remaining, flushed, world, targets, pace, loop>>

\* The run's end takes a snapshot of both documents, whichever run wrote them,
\* and fails the row a stop left running.
EndRun ==
  /\ pc = "ending" /\ pc' = "idle"
  /\ history' = Append(history, [check |-> check, sweep |-> data])
  /\ row' = IF stop /\ row = "running" THEN "failed" ELSE row
  /\ stop' = FALSE /\ Cleared
  /\ UNCHANGED <<data, check, input>>

StopRun ==
  /\ pc # "idle" /\ ~stop /\ stop' = TRUE
  /\ UNCHANGED <<now, pc, row, data, world, targets, pace, loop, result>>

\* The process dies: the row stays running and no snapshot is taken.
Die ==
  /\ pc # "idle" /\ pc' = "idle"
  /\ stop' = FALSE /\ Cleared
  /\ UNCHANGED <<row, data, world>>

Init ==
  /\ now = 1 /\ pc = "idle" /\ runs = 0 /\ stop = FALSE /\ row = "pending"
  /\ in = (CHOOSE i \in Inputs : TRUE) /\ profile = (CHOOSE p \in Profiles : TRUE)
  /\ hosts = NoHosts /\ noIp = {} /\ unresolved = {}
  /\ deadline = 0 /\ effective = 0 /\ breached = FALSE
  /\ pacer = NewPacer(1) /\ sentinels = {} /\ rate = 0 /\ todo = {}
  /\ scans = NoScans /\ unreachable = {} /\ remaining = {} /\ partial = {}
  /\ flushed = 0 /\ check = NoDoc /\ data = NoDoc /\ history = <<>>
  /\ verdicts = <<>> /\ dropped = {}

Next ==
  \/ StartRun \/ ResumeRun \/ PortCheck \/ Stage
  \/ BuildTargets \/ Resolve \/ UnusableProfile \/ Pace
  \/ LoopStop \/ Defer \/ TickPacer \/ Scan \/ Reprobe \/ Services \/ Flush
  \/ LoopEnds \/ WriteFinal \/ Finish \/ Raises \/ EndRun \/ StopRun \/ Die

Spec == Init /\ [][Next]_vars
------------------------------------------------------------------------------
(* Properties. *)

Doc == [skipped: {"absent", "no", "profile_unusable"}, open: SUBSET IP]
Verdict == [at: Nat, missed: BOOLEAN]
Steps == {"idle", "preview", "stage", "ending"} \cup InStage

TypeOK ==
  /\ now \in Nat /\ pc \in Steps /\ runs \in 0..MaxRuns /\ stop \in BOOLEAN
  /\ row \in {"pending", "running", "done", "failed"}
  /\ in \in Inputs /\ profile \in Profiles
  /\ hosts \in IPHosts /\ noIp \subseteq Host /\ unresolved \subseteq noIp
  /\ deadline \in Nat /\ effective \in Nat /\ breached \in BOOLEAN
  /\ pacer \in PaceState /\ sentinels \subseteq IP /\ rate \in Nat
  /\ todo \subseteq All /\ Scanned \subseteq All
  /\ \A ip \in Scanned : scans[ip] \in {"open", "none", "suspect"}
  /\ unreachable \subseteq All /\ remaining \subseteq All /\ dropped \subseteq All
  /\ flushed \in Nat /\ check \in Doc /\ data \in Doc
  /\ history \in Seq([check: Doc, sweep: Doc]) /\ verdicts \in Seq(Verdict)

\* The document of a finished sweep accounts for every address of the target
\* set: it has a record, or it is unreachable or remaining, and a record
\* excludes the others.  The one exception is the address at which the canary
\* paused, which is in no list (port_sweep.py:300).
Accounted ==
  pc = "finish" =>
    /\ All \ (Scanned \cup unreachable \cup remaining) \subseteq dropped
    /\ Scanned \cap (unreachable \cup remaining) = {}

\* Not kept (no configuration checks it): the same without the exception, "the remaining-IP list is disclosed -- the
\* sweep is PARTIAL, never silently abandoned" (port_sweep.py:377).
NeverAbandoned ==
  pc = "finish" => All = Scanned \cup unreachable \cup remaining

\* A run whose sweep ends without a record or a failure for every address has
\* a mark that keeps it from being classified as completed.
PartialDisclosed ==
  pc = "ending" /\ todo # {} => stop \/ partial # {}

\* The sweep pauses only after BadWindows canaries in a row missed a port, at
\* least CanaryEvery apart, each a port some snapshot had found open.
PauseEarned ==
  pacer.paused /\ dropped # {} =>
    LET n == Len(verdicts)
    IN /\ n >= BadWindows
       /\ \A k \in n - BadWindows + 1 .. n : verdicts[k].missed
       /\ \A k \in 2..n : verdicts[k].at - verdicts[k - 1].at >= CanaryEvery
       /\ sentinels # {}
       /\ sentinels \subseteq UNION {h.sweep.open \cup h.check.open : h \in {history[j] : j \in DOMAIN history}}
=============================================================================
