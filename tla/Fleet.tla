------------------------------- MODULE Fleet -------------------------------
(***************************************************************************)
(* Fleet invocations on one runner (pipeline/fleet.py): run_fleet with its *)
(* pool of threads, one job per target, and GlobalSlots, the lock files    *)
(* that all invocations share.  The threads of one invocation share one    *)
(* GlobalSlots object and its single field token, without a lock.          *)
(***************************************************************************)
EXTENDS Integers, FiniteSets

CONSTANTS
  Fleet,      \* invocations, each a process of its own
  Target,     \* the members of every invocation
  Limit,      \* per invocation: fleet_max_concurrency, at most |Target|
  Deaths      \* bound on invocations that are killed

ASSUME FiniteAssumption == IsFiniteSet(Fleet) /\ IsFiniteSet(Target)
ASSUME LimitAssumption == Limit \in [Fleet -> Nat \ {0}]
ASSUME DeathAssumption == Deaths \in Nat

Job == Fleet \X Target
NoToken == -1          \* the empty string

VARIABLES
  pc,         \* where the thread that has the job is
  at,         \* the slot acquire tries next
  token,      \* GlobalSlots.token of each invocation
  slots,      \* the lock files that exist
  running,    \* jobs whose member process runs
  result,     \* what the job returned
  ledger,     \* how the invocation ended
  deaths

vars == <<pc, at, token, slots, running, result, ledger, deaths>>

JobPc == {"queued", "scan", "created", "member", "release", "unlink", "clear", "done"}
Result == {"none", "clean", "failed", "timeout", "refused", "raised"}
Ended == {"clean", "unclean", "raised", "killed"}

Init ==
  /\ pc = [j \in Job |-> "queued"]
  /\ at = [j \in Job |-> 0]
  /\ token = [f \in Fleet |-> NoToken]
  /\ slots = {}
  /\ running = {}
  /\ result = [j \in Job |-> "none"]
  /\ ledger = [f \in Fleet |-> "open"]
  /\ deaths = 0

Busy(f) == {t \in Target : pc[<<f, t>>] \notin {"queued", "done"}}

Goto(j, l) == pc' = [pc EXCEPT ![j] = l]
Returns(j, r) == result' = [result EXCEPT ![j] = r]

-----------------------------------------------------------------------------
(***************************************************************************)
(* One job.                                                                *)
(***************************************************************************)
\* A pool thread is free and takes the job.
Take(j) ==
  /\ pc[j] = "queued" /\ ledger[j[1]] = "open"
  /\ Cardinality(Busy(j[1])) < Limit[j[1]]
  /\ Goto(j, "scan")
  /\ UNCHANGED <<at, token, slots, running, result, ledger, deaths>>

\* Mutant of Create: the file is looked up first and opened without O_EXCL.
CreateShared(j) ==
  /\ pc[j] = "scan" /\ at[j] < Limit[j[1]]
  /\ slots' = slots \cup {at[j]}
  /\ Goto(j, "created")
  /\ UNCHANGED <<at, token, running, result, ledger, deaths>>

\* acquire: open with O_EXCL creates the file or finds it there.
Create(j) ==
  /\ pc[j] = "scan" /\ at[j] < Limit[j[1]] /\ at[j] \notin slots
  /\ slots' = slots \cup {at[j]}
  /\ Goto(j, "created")
  /\ UNCHANGED <<at, token, running, result, ledger, deaths>>

TryNext(j) ==
  /\ pc[j] = "scan" /\ at[j] < Limit[j[1]] /\ at[j] \in slots
  /\ at' = [at EXCEPT ![j] = @ + 1]
  /\ UNCHANGED <<pc, token, slots, running, result, ledger, deaths>>

\* Mutant of Refused: the job starts over and waits for a slot.
RefusedWaits(j) ==
  /\ pc[j] = "scan" /\ at[j] >= Limit[j[1]]
  /\ at' = [at EXCEPT ![j] = 0]
  /\ UNCHANGED <<pc, token, slots, running, result, ledger, deaths>>

\* No slot: the job does not wait, it returns exit code 4.
Refused(j) ==
  /\ pc[j] = "scan" /\ at[j] >= Limit[j[1]]
  /\ Goto(j, "done")
  /\ Returns(j, "refused")
  /\ UNCHANGED <<at, token, slots, running, ledger, deaths>>

\* self.token = name, then ./recon.sh run in the member's root.
StartMember(j) ==
  /\ pc[j] = "created"
  /\ token' = [token EXCEPT ![j[1]] = at[j]]
  /\ running' = running \cup {j}
  /\ Goto(j, "member")
  /\ UNCHANGED <<at, slots, result, ledger, deaths>>

\* The member exits, is killed at its timeout, or could not be spawned.
EndMember(j) ==
  /\ pc[j] = "member"
  /\ running' = running \ {j}
  /\ \E r \in {"clean", "failed", "timeout"} : Returns(j, r)
  /\ Goto(j, "release")
  /\ UNCHANGED <<at, token, slots, ledger, deaths>>

\* Mutant of Release: the token is cleared before its file is deleted.
ReleaseClearsFirst(j) ==
  /\ pc[j] = "release"
  /\ token' = [token EXCEPT ![j[1]] = NoToken]
  /\ Goto(j, IF token[j[1]] = NoToken THEN "done" ELSE "unlink")
  /\ UNCHANGED <<at, slots, running, result, ledger, deaths>>

\* release, in the finally: nothing to do without a token.
Release(j) ==
  /\ pc[j] = "release"
  /\ Goto(j, IF token[j[1]] = NoToken THEN "done" ELSE "unlink")
  /\ UNCHANGED <<at, token, slots, running, result, ledger, deaths>>

\* Mutant of Unlink: the lock file is left behind.
UnlinkNot(j) ==
  /\ pc[j] = "unlink"
  /\ Goto(j, "clear")
  /\ UNCHANGED <<at, token, slots, running, result, ledger, deaths>>

\* The token is read again; an empty one names the directory, and unlink of
\* a directory raises out of the finally.
Unlink(j) ==
  LET slot == token[j[1]] IN
  /\ pc[j] = "unlink"
  /\ IF slot # NoToken
     THEN slots' = slots \ {slot} /\ Goto(j, "clear") /\ UNCHANGED result
     ELSE Goto(j, "done") /\ Returns(j, "raised") /\ UNCHANGED slots
  /\ UNCHANGED <<at, token, running, ledger, deaths>>

Clear(j) ==
  /\ pc[j] = "clear"
  /\ token' = [token EXCEPT ![j[1]] = NoToken]
  /\ Goto(j, "done")
  /\ UNCHANGED <<at, slots, running, result, ledger, deaths>>

-----------------------------------------------------------------------------
(***************************************************************************)
(* The invocation.                                                         *)
(***************************************************************************)
\* Mutant of Verdict: only a member that failed is unclean.
VerdictFailed(f) ==
  IF \E t \in Target : result[<<f, t>>] = "raised" THEN "raised"
  ELSE IF \E t \in Target : result[<<f, t>>] = "failed" THEN "unclean" ELSE "clean"

\* The results are collected; one that raised leaves no ledger.
Verdict(f) ==
  IF \E t \in Target : result[<<f, t>>] = "raised" THEN "raised"
  ELSE IF \A t \in Target : result[<<f, t>>] = "clean" THEN "clean" ELSE "unclean"

Collect(f) ==
  /\ ledger[f] = "open"
  /\ \A t \in Target : pc[<<f, t>>] = "done"
  /\ ledger' = [ledger EXCEPT ![f] = Verdict(f)]
  /\ UNCHANGED <<pc, at, token, slots, running, result, deaths>>

\* The invocation is killed: its files stay, and so do its members' processes.
Kill(f) ==
  /\ ledger[f] = "open" /\ deaths < Deaths
  /\ deaths' = deaths + 1
  /\ ledger' = [ledger EXCEPT ![f] = "killed"]
  /\ pc' = [j \in Job |-> IF j[1] = f THEN "done" ELSE pc[j]]
  /\ UNCHANGED <<at, token, slots, running, result>>

\* A member whose invocation is gone ends all the same.
OrphanEnds(j) ==
  /\ j \in running /\ ledger[j[1]] = "killed"
  /\ running' = running \ {j}
  /\ UNCHANGED <<pc, at, token, slots, result, ledger, deaths>>

JobNext(j) ==
  \/ Take(j) \/ Create(j) \/ TryNext(j) \/ Refused(j) \/ StartMember(j)
  \/ EndMember(j) \/ Release(j) \/ Unlink(j) \/ Clear(j)

Next ==
  \/ \E j \in Job : JobNext(j) \/ OrphanEnds(j)
  \/ \E f \in Fleet : Collect(f) \/ Kill(f)

\* Threads get on, members end (at the latest at their timeout).
Fairness ==
  /\ \A j \in Job : WF_vars(JobNext(j))
  /\ \A f \in Fleet : WF_vars(Collect(f))

Spec == Init /\ [][Next]_vars /\ Fairness

-----------------------------------------------------------------------------
Slot == UNION {0..(Limit[f] - 1) : f \in Fleet}

TypeOK ==
  /\ pc \in [Job -> JobPc]
  /\ at \in [Job -> Nat]
  /\ token \in [Fleet -> Nat \cup {NoToken}]
  /\ slots \in SUBSET Nat
  /\ running \in SUBSET Job
  /\ result \in [Job -> Result]
  /\ ledger \in [Fleet -> Ended \cup {"open"}]
  /\ deaths \in Nat

\* Two invocations cannot oversubscribe the runner (fleet.py): the members of
\* all invocations together stay within the slots of the largest limit, although
\* a release may delete another thread's lock file and a kill releases nothing.
RunnerNotOversubscribed == Cardinality(running) <= Cardinality(Slot)

\* The same as an abstract counter: every start of a member takes a free place.
Slots == INSTANCE RunnerSlots WITH Member <- Job, Capacity <- Cardinality(Slot)
ImplementsSlots == Slots!Spec

\* An invocation that never held two slots at a time.
OneSlotAtMost(f) ==
  Limit[f] = 1 \/ Cardinality({t \in Target : result[<<f, t>>] \notin {"none", "refused"}}) <= 1

\* "the fleet ledger records every member's exit" (fleet.py): an invocation
\* that was not killed leaves a ledger, unless its own threads shared the token.
LedgerWritten == \A f \in Fleet : OneSlotAtMost(f) => ledger[f] # "raised"

\* The exit code is 0 only for an invocation all of whose members have run to
\* a clean end: none was refused a slot, and none is still running.
CleanMeansRun ==
  \A f \in Fleet : ledger[f] = "clean" =>
    \A t \in Target : result[<<f, t>>] = "clean" /\ <<f, t>> \notin running

\* When every invocation has ended by itself no lock file is left to take a
\* place from the next one, provided none held two slots at a time.
SlotsReturned ==
  (\A f \in Fleet : OneSlotAtMost(f) /\ ledger[f] \notin {"open", "killed"}) => slots = {}

\* Not kept (no configuration checks it): "exhausted at limit 2" (test_c4_fleet.py): acquire fails when as many slots as
\* the limit are held.  The pool has no more threads than that, so an invocation
\* that is alone on the runner has no member refused.
AloneNotRefused ==
  Cardinality(Fleet) = 1 => \A j \in Job : result[j] # "refused"

\* Every invocation ends: a job that finds no slot gives up, it does not wait.
FleetEnds == \A f \in Fleet : <>(ledger[f] # "open")
=============================================================================
