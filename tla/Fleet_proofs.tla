---------------------------- MODULE Fleet_proofs ----------------------------
(***************************************************************************)
(* The lock files bound the members of all invocations, for any number of  *)
(* invocations, targets and threads, any limits and any number of kills,   *)
(* although the threads of an invocation overwrite each other's token: a   *)
(* start adds a file of its own, a release deletes at most one.            *)
(***************************************************************************)
EXTENDS Fleet, TLAPS, FiniteSetTheorems, Functions

LEMMA JobFinite == IsFiniteSet(Job)
BY FiniteAssumption, FS_Product DEF Job

LEMMA SlotFinite == IsFiniteSet(Slot) /\ Slot \in SUBSET Nat
<1> DEFINE range == {0..(Limit[f] - 1) : f \in Fleet}
           slotsOf == [f \in Fleet |-> 0..(Limit[f] - 1)]
<1>1. \A f \in Fleet : Limit[f] \in Nat
  BY LimitAssumption
<1>2. slotsOf \in Surjection(Fleet, range)
  BY DEF Surjection
<1>3. IsFiniteSet(range)
  <2> HIDE DEF range, slotsOf
  <2> QED BY <1>2, FiniteAssumption, FS_Surjection
<1>4. \A S \in range : IsFiniteSet(S)
  BY <1>1, FS_Interval
<1>5. IsFiniteSet(UNION range)
  <2> HIDE DEF range
  <2> QED BY <1>3, <1>4, FS_UNION
<1>6. \A f \in Fleet : 0..(Limit[f] - 1) \subseteq Nat
  BY <1>1
<1> QED BY <1>5, <1>6 DEF Slot

-----------------------------------------------------------------------------
(***************************************************************************)
(* The inductive invariant.  Held counts the jobs that have made a lock    *)
(* file and not yet deleted one, and the members nobody waits for; it is   *)
(* needed because running alone says nothing of the moments around a run.  *)
(***************************************************************************)
Holding == {"created", "member", "release", "unlink"}
Held == {j \in Job : pc[j] \in Holding} \cup running

RunningHeld ==
  \A j \in running : pc[j] = "member" \/ (pc[j] = "done" /\ ledger[j[1]] = "killed")

KilledDone == \A j \in Job : ledger[j[1]] = "killed" => pc[j] = "done"

FilesCount == slots \in SUBSET Slot /\ Cardinality(Held) <= Cardinality(slots)

IInv == TypeOK /\ RunningHeld /\ KilledDone /\ FilesCount

LEMMA HeldFinite ==
  ASSUME TypeOK, slots \in SUBSET Slot
  PROVE  /\ Held \in SUBSET Job /\ IsFiniteSet(Held) /\ Cardinality(Held) \in Nat
         /\ IsFiniteSet(slots) /\ Cardinality(slots) \in Nat
         /\ Cardinality(slots) <= Cardinality(Slot) /\ Cardinality(Slot) \in Nat
         /\ Cardinality(running) <= Cardinality(Held)
         /\ IsFiniteSet(running) /\ Cardinality(running) \in Nat
<1>1. Held \in SUBSET Job /\ running \in SUBSET Held
  BY DEF Held, TypeOK
<1>2. IsFiniteSet(Held) /\ IsFiniteSet(slots) /\ IsFiniteSet(running)
  BY <1>1, JobFinite, SlotFinite, FS_Subset
<1> QED BY <1>1, <1>2, SlotFinite, FS_Subset, FS_CardinalityType

LEMMA InitInv == Init => IInv
<1> SUFFICES ASSUME Init PROVE IInv
  OBVIOUS
<1>1. TypeOK
  BY LimitAssumption DEF Init, TypeOK, JobPc, Result, NoToken
<1>2. RunningHeld /\ KilledDone
  BY DEF Init, RunningHeld, KilledDone, Job
<1>3. Held = {}
  BY DEF Init, Held, Holding
<1>4. FilesCount
  BY <1>3, FS_EmptySet DEF Init, FilesCount
<1> QED BY <1>1, <1>2, <1>4 DEF IInv

LEMMA StepType ==
  ASSUME TypeOK, Next
  PROVE  TypeOK'
<1> USE DEF TypeOK, JobPc, Result, NoToken, Goto, Returns, Job
<1>1. ASSUME NEW j \in Job, JobNext(j) PROVE TypeOK'
  <2>1. CASE Take(j)
    <3>1. /\ pc' = [pc EXCEPT ![j] = "scan"]
          /\ UNCHANGED <<at, token, slots, running, result, ledger, deaths>>
      BY <2>1 DEF Take
    <3> QED BY <3>1
  <2>2. CASE Create(j)
    <3>1. /\ pc' = [pc EXCEPT ![j] = "created"] /\ slots' = slots \cup {at[j]}
          /\ UNCHANGED <<at, token, running, result, ledger, deaths>>
      BY <2>2 DEF Create
    <3>2. at[j] \in Nat
      OBVIOUS
    <3> QED BY <3>1, <3>2
  <2>3. CASE TryNext(j)    BY <2>3 DEF TryNext
  <2>4. CASE Refused(j)    BY <2>4 DEF Refused
  <2>5. CASE StartMember(j) BY <2>5 DEF StartMember
  <2>6. CASE EndMember(j)  BY <2>6 DEF EndMember
  <2>7. CASE Release(j)    BY <2>7 DEF Release
  <2>8. CASE Unlink(j)
    <3>1. slots' \in SUBSET Nat
      BY <2>8 DEF Unlink
    <3>2. CASE token[j[1]] = NoToken
      BY <2>8, <3>1, <3>2 DEF Unlink
    <3>3. CASE token[j[1]] # NoToken
      BY <2>8, <3>1, <3>3 DEF Unlink
    <3> QED BY <3>2, <3>3
  <2>9. CASE Clear(j)      BY <2>9 DEF Clear
  <2> QED BY <1>1, <2>1, <2>2, <2>3, <2>4, <2>5, <2>6, <2>7, <2>8, <2>9 DEF JobNext
<1>2. ASSUME NEW j \in Job, OrphanEnds(j) PROVE TypeOK'
  BY <1>2 DEF OrphanEnds
<1>3. ASSUME NEW f \in Fleet, Collect(f) PROVE TypeOK'
  BY <1>3 DEF Collect, Verdict, Ended
<1>4. ASSUME NEW f \in Fleet, Kill(f) PROVE TypeOK'
  BY <1>4, DeathAssumption DEF Kill, Ended
<1> QED BY <1>1, <1>2, <1>3, <1>4 DEF Next

LEMMA StepRunning ==
  ASSUME TypeOK, RunningHeld, KilledDone, Next
  PROVE  RunningHeld' /\ KilledDone'
<1> USE DEF TypeOK, RunningHeld, KilledDone, Goto, Returns
<1>1. ASSUME NEW j \in Job, JobNext(j) PROVE RunningHeld' /\ KilledDone'
  <2>0. pc[j] # "done" /\ ledger' = ledger
    BY <1>1 DEF JobNext, Take, Create, TryNext, Refused, StartMember, EndMember, Release,
                Unlink, Clear
  <2>1. CASE Take(j)       BY <2>1 DEF Take
  <2>2. CASE Create(j)     BY <2>2 DEF Create
  <2>3. CASE TryNext(j)    BY <2>3 DEF TryNext
  <2>4. CASE Refused(j)    BY <2>4 DEF Refused
  <2>5. CASE StartMember(j) BY <2>5 DEF StartMember
  <2>6. CASE EndMember(j)  BY <2>6 DEF EndMember
  <2>7. CASE Release(j)    BY <2>7 DEF Release
  <2>8. CASE Unlink(j)     BY <2>8 DEF Unlink
  <2>9. CASE Clear(j)      BY <2>9 DEF Clear
  <2> QED BY <1>1, <2>1, <2>2, <2>3, <2>4, <2>5, <2>6, <2>7, <2>8, <2>9 DEF JobNext
<1>2. ASSUME NEW j \in Job, OrphanEnds(j) PROVE RunningHeld' /\ KilledDone'
  BY <1>2 DEF OrphanEnds
<1>3. ASSUME NEW f \in Fleet, Collect(f) PROVE RunningHeld' /\ KilledDone'
  <2>1. \A j \in Job : j[1] \in Fleet /\ (j[1] = f => pc[j] = "done" /\ ledger[f] = "open")
    BY <1>3 DEF Collect, Job
  <2>2. Verdict(f) # "killed"
    BY DEF Verdict
  <2> QED BY <1>3, <2>1, <2>2 DEF Collect
<1>4. ASSUME NEW f \in Fleet, Kill(f) PROVE RunningHeld' /\ KilledDone'
  <2>1. \A j \in Job : j[1] \in Fleet
    BY DEF Job
  <2> QED BY <1>4, <2>1 DEF Kill
<1> QED BY <1>1, <1>2, <1>3, <1>4 DEF Next
LEMMA CardRemove ==
  ASSUME NEW S, IsFiniteSet(S), NEW x
  PROVE  /\ Cardinality(S) \in Nat /\ Cardinality(S \ {x}) \in Nat
         /\ Cardinality(S \ {x}) >= Cardinality(S) - 1
         /\ x \in S => Cardinality(S \ {x}) = Cardinality(S) - 1
<1>1. IsFiniteSet(S \ {x}) /\ Cardinality(S) \in Nat
  BY FS_RemoveElement, FS_CardinalityType
<1>2. CASE x \in S
  BY <1>1, <1>2, FS_RemoveElement, FS_CardinalityType
<1>3. CASE x \notin S
  <2>1. S \ {x} = S
    BY <1>3
  <2> QED BY <1>1, <1>3, <2>1
<1> QED BY <1>2, <1>3

LEMMA CardAdd ==
  ASSUME NEW S, IsFiniteSet(S), NEW x
  PROVE  /\ Cardinality(S) \in Nat /\ Cardinality(S \cup {x}) \in Nat
         /\ Cardinality(S \cup {x}) <= Cardinality(S) + 1
         /\ x \notin S => Cardinality(S \cup {x}) = Cardinality(S) + 1
<1>1. IsFiniteSet(S \cup {x}) /\ Cardinality(S) \in Nat
  BY FS_AddElement, FS_CardinalityType
<1>2. CASE x \in S
  <2>1. S \cup {x} = S
    BY <1>2
  <2> QED BY <1>1, <1>2, <2>1
<1>3. CASE x \notin S
  BY <1>1, <1>3, FS_AddElement, FS_CardinalityType
<1> QED BY <1>2, <1>3

\* No step but Create makes Held larger; Create adds one job and one file.
LEMMA StepFiles ==
  ASSUME IInv, Next
  PROVE  FilesCount'
<1> DEFINE H == Held  H2 == Held'
<1>0. TypeOK /\ RunningHeld /\ FilesCount /\ H \in SUBSET Job /\ H2 \in SUBSET Job
  BY StepType DEF IInv, Held, TypeOK
<1>1. /\ IsFiniteSet(H) /\ IsFiniteSet(slots) /\ slots \in SUBSET Slot
      /\ Cardinality(H) \in Nat /\ Cardinality(slots) \in Nat
      /\ Cardinality(H) <= Cardinality(slots)
  BY <1>0, HeldFinite DEF FilesCount
<1>2. ASSUME H2 \subseteq H, slots' = slots PROVE FilesCount'
  <2>1. Cardinality(H2) <= Cardinality(H) /\ Cardinality(H2) \in Nat
    <3> HIDE DEF H, H2
    <3> QED BY <1>1, <1>2, FS_Subset, FS_CardinalityType
  <2> QED BY <1>1, <1>2, <2>1 DEF FilesCount
<1>3. ASSUME NEW j \in Job, JobNext(j) PROVE FilesCount'
  <2> USE DEF TypeOK, Goto, Returns
  <2>1. ASSUME Take(j) \/ TryNext(j) \/ Refused(j) \/ StartMember(j) \/ EndMember(j)
               \/ Release(j) \/ Clear(j)
        PROVE  FilesCount'
    <3>1. slots' = slots /\ H2 \subseteq H
      BY <1>0, <2>1 DEF Take, TryNext, Refused, StartMember, EndMember, Release, Clear,
                        Held, Holding
    <3> QED BY <3>1, <1>2
  <2>2. CASE Create(j)
    <3>1. at[j] \in Slot
      <4>1. j[1] \in Fleet /\ Limit[j[1]] \in Nat /\ at[j] \in 0..(Limit[j[1]] - 1)
        BY <1>0, <2>2, LimitAssumption DEF Create, Job
      <4> QED BY <4>1 DEF Slot
    <3>2. slots' = slots \cup {at[j]} /\ at[j] \notin slots
      BY <2>2 DEF Create
    <3>3. H2 \subseteq H \cup {j}
      BY <1>0, <2>2 DEF Create, Held, Holding
    <3>4. Cardinality(slots') = Cardinality(slots) + 1
      BY <1>1, <3>2, CardAdd
    <3>5. Cardinality(H2) <= Cardinality(H) + 1
      <4> HIDE DEF H, H2
      <4>1. IsFiniteSet(H \cup {j}) /\ Cardinality(H \cup {j}) <= Cardinality(H) + 1
        BY <1>1, CardAdd, FS_AddElement
      <4>2. Cardinality(H2) <= Cardinality(H \cup {j}) /\ Cardinality(H2) \in Nat
        BY <3>3, <4>1, FS_Subset, FS_CardinalityType
      <4> QED BY <1>1, <4>1, <4>2, FS_CardinalityType
    <3>6. Cardinality(H2) \in Nat
      <4> HIDE DEF H, H2
      <4> QED BY <1>0, JobFinite, FS_Subset, FS_CardinalityType
    <3> QED BY <1>1, <3>1, <3>2, <3>4, <3>5, <3>6 DEF FilesCount
  <2>3. CASE Unlink(j)
    <3>1. CASE token[j[1]] = NoToken
      <4>1. slots' = slots /\ H2 \subseteq H
        BY <1>0, <2>3, <3>1 DEF Unlink, Held, Holding
      <4> QED BY <4>1, <1>2
    <3>2. CASE token[j[1]] # NoToken
      <4> DEFINE slot == token[j[1]]
      <4>1. slots' = slots \ {slot} /\ pc' = [pc EXCEPT ![j] = "clear"] /\ running' = running
        BY <2>3, <3>2 DEF Unlink
      <4>2. pc[j] = "unlink" /\ j \notin running /\ j \in H
        BY <1>0, <2>3 DEF Unlink, Held, Holding, RunningHeld
      <4>3. H2 \subseteq H \ {j}
        BY <1>0, <4>1, <4>2 DEF Held, Holding
      <4>4. Cardinality(slots') >= Cardinality(slots) - 1 /\ Cardinality(slots') \in Nat
        <5> HIDE DEF slot
        <5> QED BY <1>1, <4>1, CardRemove
      <4>5. Cardinality(H2) <= Cardinality(H) - 1 /\ Cardinality(H2) \in Nat
        <5> HIDE DEF H, H2
        <5>1. Cardinality(H \ {j}) = Cardinality(H) - 1 /\ IsFiniteSet(H \ {j})
          BY <1>1, <4>2, CardRemove, FS_RemoveElement
        <5> QED BY <4>3, <5>1, FS_Subset, FS_CardinalityType
      <4> QED BY <1>1, <4>1, <4>4, <4>5 DEF FilesCount
    <3> QED BY <3>1, <3>2
  <2> QED BY <1>3, <2>1, <2>2, <2>3 DEF JobNext
<1>4. ASSUME NEW j \in Job, OrphanEnds(j) PROVE FilesCount'
  <2>1. slots' = slots /\ H2 \subseteq H
    BY <1>4 DEF OrphanEnds, Held
  <2> QED BY <2>1, <1>2
<1>5. ASSUME NEW f \in Fleet, Collect(f) PROVE FilesCount'
  <2>1. slots' = slots /\ H2 \subseteq H
    BY <1>5 DEF Collect, Held
  <2> QED BY <2>1, <1>2
<1>6. ASSUME NEW f \in Fleet, Kill(f) PROVE FilesCount'
  <2>1. slots' = slots /\ H2 \subseteq H
    BY <1>6 DEF Kill, Held, Holding
  <2> QED BY <2>1, <1>2
<1> QED BY <1>3, <1>4, <1>5, <1>6 DEF Next

-----------------------------------------------------------------------------
\* The invariant holds in every reachable state.
THEOREM Inductive == Spec => []IInv
<1>1. IInv /\ [Next]_vars => IInv'
  <2> SUFFICES ASSUME IInv, [Next]_vars PROVE IInv'
    OBVIOUS
  <2>1. CASE Next
    BY <2>1, StepType, StepRunning, StepFiles DEF IInv
  <2>2. CASE UNCHANGED vars
    BY <2>2 DEF IInv, TypeOK, RunningHeld, KilledDone, FilesCount, Held, vars
  <2> QED BY <2>1, <2>2
<1> QED BY InitInv, <1>1, PTL DEF Spec

\* The variables of a fleet keep their types.
THEOREM TypeCorrect == Spec => []TypeOK
<1>1. IInv => TypeOK
  BY DEF IInv
<1> QED BY Inductive, <1>1, PTL

\* "two parallel fleet invocations cannot oversubscribe one runner" (fleet.py).
THEOREM NotOversubscribed == Spec => []RunnerNotOversubscribed
<1>1. IInv => RunnerNotOversubscribed
  <2> SUFFICES ASSUME IInv PROVE RunnerNotOversubscribed
    OBVIOUS
  <2>1. TypeOK /\ slots \in SUBSET Slot /\ Cardinality(Held) <= Cardinality(slots)
    BY DEF IInv, FilesCount
  <2> QED BY <2>1, HeldFinite DEF RunnerNotOversubscribed
<1> QED BY Inductive, <1>1, PTL

-----------------------------------------------------------------------------
\* A member starts only while a place is free: its own job holds a lock file
\* and is not yet running, so fewer members run than there are files.
LEMMA StepRefines ==
  ASSUME IInv, [Next]_vars
  PROVE  [Slots!Next]_running
<1>0. TypeOK /\ RunningHeld /\ slots \in SUBSET Slot /\ Cardinality(Held) <= Cardinality(slots)
  BY DEF IInv, FilesCount
<1>1. ASSUME NEW j \in Job, StartMember(j) PROVE Slots!Begin(j)
  <2>1. j \notin running /\ j \in Held /\ running \in SUBSET (Held \ {j})
    BY <1>0, <1>1 DEF StartMember, RunningHeld, Held, Holding
  <2>2. Cardinality(running) < Cardinality(Slot)
    <3>1. IsFiniteSet(Held \ {j}) /\ Cardinality(Held \ {j}) = Cardinality(Held) - 1
      BY <1>0, <2>1, HeldFinite, CardRemove, FS_RemoveElement
    <3>2. Cardinality(running) <= Cardinality(Held \ {j})
      BY <2>1, <3>1, FS_Subset
    <3> QED BY <1>0, <3>1, <3>2, HeldFinite
  <2>3. running' = running \cup {j}
    BY <1>1 DEF StartMember
  <2>4. Slots!Cardinality(running) = Cardinality(running)
    BY DEF Slots!Cardinality, Cardinality
  <2> QED BY <2>1, <2>2, <2>3, <2>4 DEF Slots!Begin
<1>2. ASSUME NEW j \in Job, EndMember(j) PROVE [Slots!End(j)]_running
  BY <1>2 DEF EndMember, Slots!End
<1>3. ASSUME NEW j \in Job, OrphanEnds(j) PROVE Slots!End(j)
  BY <1>3 DEF OrphanEnds, Slots!End
<1>4. ASSUME NEW j \in Job, JobNext(j) PROVE [Slots!Next]_running
  <2>1. CASE StartMember(j) BY <1>1, <2>1 DEF Slots!Next
  <2>2. CASE EndMember(j) BY <1>2, <2>2 DEF Slots!Next
  <2>3. CASE ~StartMember(j) /\ ~EndMember(j)
    BY <1>4, <2>3 DEF JobNext, Take, Create, TryNext, Refused, Release, Unlink, Clear
  <2> QED BY <2>1, <2>2, <2>3
<1>5. ASSUME NEW f \in Fleet, Collect(f) \/ Kill(f) PROVE [Slots!Next]_running
  BY <1>5 DEF Collect, Kill
<1> QED BY <1>3, <1>4, <1>5 DEF Next, Slots!Next, vars

\* The invocations implement the abstract runner with |Slot| places.
THEOREM SlotsImplemented == Spec => ImplementsSlots
<1>1. Init => Slots!Init
  BY DEF Init, Slots!Init
<1> QED BY <1>1, Inductive, StepRefines, PTL DEF Spec, ImplementsSlots, Slots!Spec

(***************************************************************************)
(* How an invocation of the fleet ends, for any invocations, targets,      *)
(* limits and kills: what a ledger that says clean means, that a ledger is *)
(* written, and that the lock files are given back.                        *)
(***************************************************************************)

\* Members that hold, or have held, the invocation's token.
Touched(f) ==
  {t \in Target : pc[<<f, t>>] = "member" \/ result[<<f, t>>] \notin {"none", "refused"}}

\* The token has been nobody else's: the pool has one thread, or one member ran.
Sole(f) == Limit[f] = 1 \/ \A t, u \in Touched(f) : t = u

Begun == {"queued", "scan", "created", "member"}
Ending == {"release", "unlink", "clear"}
Tokened == {"member", "release", "unlink"}

\* A pool of one thread has one job at a time.
OneBusy ==
  \A f \in Fleet : Limit[f] = 1 =>
    \A t, u \in Target : {pc[<<f, t>>], pc[<<f, u>>]} \cap {"queued", "done"} = {} => t = u

\* The result is there once the member has ended, and not before.
ResultsTimely ==
  \A j \in Job : /\ pc[j] \in Begun => result[j] = "none"
                 /\ pc[j] \in Ending => result[j] \notin {"none", "refused"}

TokenOwn ==
  \A f \in Fleet, t \in Target :
    Sole(f) /\ pc[<<f, t>>] \in Tokened => token[f] = at[<<f, t>>]

RaisedShared ==
  \A f \in Fleet, t \in Target :
    result[<<f, t>>] = "raised" /\ ledger[f] # "killed" => ~Sole(f)

\* What the ledger says of the jobs, all of them done.
LedgerTrue ==
  \A f \in Fleet :
    /\ ledger[f] \notin {"open", "killed"} => \A t \in Target : pc[<<f, t>>] = "done"
    /\ ledger[f] = "clean" => \A t \in Target : result[<<f, t>>] = "clean"
    /\ ledger[f] = "raised" => \E t \in Target : result[<<f, t>>] = "raised"

\* Every lock file is that of a job that still has to delete it.
FilesOwned ==
  (\A f \in Fleet : Sole(f) /\ ledger[f] # "killed") =>
    \A s \in slots : \E j \in Job : at[j] = s /\ pc[j] \in Holding

EInv == OneBusy /\ ResultsTimely /\ TokenOwn /\ RaisedShared /\ LedgerTrue /\ FilesOwned

LEMMA JobPairs ==
  /\ \A f \in Fleet, t \in Target : <<f, t>> \in Job
  /\ \A j \in Job : j[1] \in Fleet /\ j[2] \in Target /\ j = <<j[1], j[2]>>
BY DEF Job

LEMMA EndsInit == Init => EInv
<1> SUFFICES ASSUME Init PROVE EInv
  OBVIOUS
<1>1. /\ \A f \in Fleet, t \in Target : pc[<<f, t>>] = "queued" /\ result[<<f, t>>] = "none"
      /\ \A j \in Job : pc[j] = "queued" /\ result[j] = "none"
      /\ \A f \in Fleet : ledger[f] = "open"
      /\ slots = {}
  BY JobPairs DEF Init
<1>2. OneBusy
  BY <1>1 DEF OneBusy
<1>3. ResultsTimely /\ TokenOwn /\ RaisedShared
  BY <1>1 DEF ResultsTimely, TokenOwn, RaisedShared, Begun, Ending, Tokened
<1>4. LedgerTrue /\ FilesOwned
  BY <1>1 DEF LedgerTrue, FilesOwned
<1> QED BY <1>2, <1>3, <1>4 DEF EInv

-----------------------------------------------------------------------------
(***************************************************************************)
(* One step of one job.  Everything but the job's own pc, at and result,   *)
(* its invocation's token and the lock files stays.                        *)
(***************************************************************************)
LEMMA JobFrame ==
  ASSUME TypeOK, NEW j \in Job, JobNext(j)
  PROVE  /\ ledger' = ledger
         /\ pc[j] # "done"
         /\ \A k \in Job : k # j => pc'[k] = pc[k] /\ at'[k] = at[k] /\ result'[k] = result[k]
         /\ \A f \in Fleet : f # j[1] => token'[f] = token[f]
         /\ pc' \in [Job -> JobPc] /\ result' \in [Job -> Result]
<1> USE DEF Goto, Returns
<1>0. TypeOK'
  <2>1. Next
    BY DEF Next
  <2> QED BY <2>1, StepType
<1>1. ledger' = ledger /\ pc[j] # "done"
  BY DEF JobNext, Take, Create, TryNext, Refused, StartMember, EndMember, Release, Unlink, Clear
<1>2. \A k \in Job : k # j => pc'[k] = pc[k] /\ at'[k] = at[k] /\ result'[k] = result[k]
  BY DEF TypeOK, JobNext, Take, Create, TryNext, Refused, StartMember, EndMember, Release,
         Unlink, Clear
<1>3. \A f \in Fleet : f # j[1] => token'[f] = token[f]
  BY DEF TypeOK, JobNext, Take, Create, TryNext, Refused, StartMember, EndMember, Release,
         Unlink, Clear
<1> QED BY <1>0, <1>1, <1>2, <1>3 DEF TypeOK

\* What the step is to the job itself.
LEMMA JobMove ==
  ASSUME TypeOK, NEW j \in Job, JobNext(j)
  PROVE  \/ /\ pc[j] = "queued" /\ pc'[j] = "scan" /\ result'[j] = result[j]
            /\ Cardinality(Busy(j[1])) < Limit[j[1]] /\ UNCHANGED <<token, slots, at>>
         \/ /\ pc[j] = "scan" /\ pc'[j] = "created" /\ result'[j] = result[j]
            /\ slots' = slots \cup {at[j]} /\ UNCHANGED <<token, at>>
         \/ /\ pc[j] = "scan" /\ pc'[j] = "scan" /\ result'[j] = result[j]
            /\ UNCHANGED <<token, slots>>
         \/ /\ pc[j] = "scan" /\ pc'[j] = "done" /\ result'[j] = "refused"
            /\ UNCHANGED <<token, slots, at>>
         \/ /\ pc[j] = "created" /\ pc'[j] = "member" /\ result'[j] = result[j]
            /\ token'[j[1]] = at[j] /\ UNCHANGED <<slots, at>>
         \/ /\ pc[j] = "member" /\ pc'[j] = "release"
            /\ result'[j] \in {"clean", "failed", "timeout"} /\ UNCHANGED <<token, slots, at>>
         \/ /\ pc[j] = "release" /\ result'[j] = result[j] /\ UNCHANGED <<token, slots, at>>
            /\ pc'[j] = IF token[j[1]] = NoToken THEN "done" ELSE "unlink"
         \/ /\ pc[j] = "unlink" /\ token[j[1]] # NoToken /\ pc'[j] = "clear"
            /\ result'[j] = result[j] /\ slots' = slots \ {token[j[1]]} /\ UNCHANGED <<token, at>>
         \/ /\ pc[j] = "unlink" /\ token[j[1]] = NoToken /\ pc'[j] = "done"
            /\ result'[j] = "raised" /\ UNCHANGED <<token, slots, at>>
         \/ /\ pc[j] = "clear" /\ pc'[j] = "done" /\ result'[j] = result[j]
            /\ UNCHANGED <<slots, at>>
<1> USE DEF TypeOK, Goto, Returns
<1>0. j[1] \in Fleet
  BY JobPairs
<1>1. CASE Take(j)        BY <1>1 DEF Take
<1>2. CASE Create(j)      BY <1>2 DEF Create
<1>3. CASE TryNext(j)     BY <1>3 DEF TryNext
<1>4. CASE Refused(j)     BY <1>4 DEF Refused
<1>5. CASE StartMember(j) BY <1>0, <1>5 DEF StartMember
<1>6. CASE EndMember(j)   BY <1>6 DEF EndMember
<1>7. CASE Release(j)     BY <1>7 DEF Release
<1>8. CASE Unlink(j)      BY <1>8 DEF Unlink
<1>9. CASE Clear(j)       BY <1>9 DEF Clear
<1> QED BY <1>1, <1>2, <1>3, <1>4, <1>5, <1>6, <1>7, <1>8, <1>9 DEF JobNext

\* Who has touched the token stays so; a token that is sole after the step was before.
LEMMA SoleBefore ==
  ASSUME TypeOK, ResultsTimely, NEW j \in Job, JobNext(j), NEW f \in Fleet
  PROVE  Touched(f) \subseteq Touched(f)' /\ (Sole(f)' => Sole(f))
<1>1. ASSUME NEW t \in Touched(f) PROVE t \in Touched(f)'
  <2>1. <<f, t>> \in Job /\ t \in Target
    BY JobPairs DEF Touched
  <2>2. CASE <<f, t>> # j
    BY <2>1, <2>2, <1>1, JobFrame DEF Touched
  <2>3. CASE <<f, t>> = j
    <3>1. pc[j] = "member" \/ result[j] \notin {"none", "refused"}
      BY <1>1, <2>3 DEF Touched
    <3>2. pc[j] \notin {"queued", "scan", "created"}
      BY <3>1 DEF ResultsTimely, Begun
    <3>3. pc'[j] = "member" \/ result'[j] \notin {"none", "refused"}
      BY <3>1, <3>2, JobMove
    <3> QED BY <2>1, <2>3, <3>3 DEF Touched
  <2> QED BY <2>2, <2>3
<1>2. Touched(f) \subseteq Touched(f)'
  BY <1>1
<1> QED BY <1>2 DEF Sole

LEMMA JobTimely ==
  ASSUME TypeOK, ResultsTimely, NEW j \in Job, JobNext(j)
  PROVE  ResultsTimely'
<1> SUFFICES ASSUME NEW k \in Job
             PROVE  /\ pc'[k] \in Begun => result'[k] = "none"
                    /\ pc'[k] \in Ending => result'[k] \notin {"none", "refused"}
  BY DEF ResultsTimely
<1>1. CASE k # j
  BY <1>1, JobFrame DEF ResultsTimely
<1>2. CASE k = j
  BY <1>2, JobMove DEF ResultsTimely, Begun, Ending
<1> QED BY <1>1, <1>2

LEMMA JobOneBusy ==
  ASSUME TypeOK, OneBusy, NEW j \in Job, JobNext(j)
  PROVE  OneBusy'
<1> SUFFICES ASSUME NEW f \in Fleet, Limit[f] = 1, NEW t \in Target, NEW u \in Target,
                    pc'[<<f, t>>] \notin {"queued", "done"},
                    pc'[<<f, u>>] \notin {"queued", "done"}, t # u
             PROVE  FALSE
  BY DEF OneBusy
<1>0. <<f, t>> \in Job /\ <<f, u>> \in Job /\ <<f, t>> # <<f, u>>
  BY JobPairs
<1>1. ASSUME NEW k \in Job, pc'[k] \notin {"queued", "done"},
             pc[k] \in {"queued", "done"}
      PROVE  k = j /\ Cardinality(Busy(j[1])) < Limit[j[1]]
  BY <1>1, JobFrame, JobMove
<1>2. CASE pc[<<f, t>>] \notin {"queued", "done"} /\ pc[<<f, u>>] \notin {"queued", "done"}
  BY <1>2 DEF OneBusy
<1>3. ASSUME Cardinality(Busy(f)) < 1, NEW v \in Target, pc[<<f, v>>] \notin {"queued", "done"}
      PROVE  FALSE
  <2>1. Busy(f) \subseteq Target /\ IsFiniteSet(Busy(f))
    BY FiniteAssumption, FS_Subset DEF Busy
  <2>2. Cardinality(Busy(f)) = 0
    BY <2>1, <1>3, FS_CardinalityType
  <2>3. Busy(f) = {}
    BY <2>1, <2>2, FS_EmptySet
  <2> QED BY <2>3, <1>3 DEF Busy
<1>4. CASE pc[<<f, t>>] \in {"queued", "done"}
  <2>1. j = <<f, t>> /\ Cardinality(Busy(f)) < 1
    BY <1>0, <1>1, <1>4
  <2>2. pc[<<f, u>>] \notin {"queued", "done"}
    BY <2>1, <1>0, JobFrame
  <2> QED BY <2>1, <2>2, <1>3
<1>5. CASE pc[<<f, u>>] \in {"queued", "done"}
  <2>1. j = <<f, u>> /\ Cardinality(Busy(f)) < 1
    BY <1>0, <1>1, <1>5
  <2>2. pc[<<f, t>>] \notin {"queued", "done"}
    BY <2>1, <1>0, JobFrame
  <2> QED BY <2>1, <2>2, <1>3
<1> QED BY <1>2, <1>4, <1>5

\* In a sole invocation nobody else is under way with the token.
LEMMA SoleAlone ==
  ASSUME OneBusy, ResultsTimely, NEW f \in Fleet, Sole(f),
         NEW t \in Target, NEW u \in Target,
         pc[<<f, t>>] \in Tokened \cup {"clear"}, pc[<<f, u>>] \in Tokened \cup {"clear"}
  PROVE  t = u
<1>1. CASE Limit[f] = 1
  BY <1>1 DEF OneBusy, Tokened
<1>2. \A v \in {t, u} : v \in Touched(f)
  BY JobPairs DEF Touched, ResultsTimely, Ending, Tokened
<1>3. CASE Limit[f] # 1
  BY <1>2, <1>3 DEF Sole
<1> QED BY <1>1, <1>3

LEMMA JobTokenOwn ==
  ASSUME TypeOK, OneBusy, ResultsTimely, TokenOwn, NEW j \in Job, JobNext(j)
  PROVE  TokenOwn'
<1> SUFFICES ASSUME NEW f \in Fleet, NEW t \in Target, Sole(f)', pc'[<<f, t>>] \in Tokened
             PROVE  token'[f] = at'[<<f, t>>]
  BY DEF TokenOwn
<1>0. <<f, t>> \in Job /\ Sole(f) /\ j[1] \in Fleet /\ j[2] \in Target /\ j = <<j[1], j[2]>>
  BY JobPairs, SoleBefore
<1>1. CASE <<f, t>> = j
  <2>1. CASE pc[j] \in Tokened
    <3>1. token[f] = at[j]
      BY <1>0, <1>1, <2>1 DEF TokenOwn
    <3>2. token' = token /\ at' = at
      BY <1>1, <2>1, JobMove DEF Tokened
    <3> QED BY <1>1, <3>1, <3>2
  <2>2. CASE pc[j] \notin Tokened
    <3>1. pc[j] = "created" /\ token'[j[1]] = at[j] /\ at' = at
      BY <1>1, <2>2, JobMove DEF Tokened
    <3> QED BY <1>1, <3>1
  <2> QED BY <2>1, <2>2
<1>2. CASE <<f, t>> # j
  <2>1. pc[<<f, t>>] \in Tokened /\ at'[<<f, t>>] = at[<<f, t>>]
    BY <1>0, <1>2, JobFrame
  <2>2. token[f] = at[<<f, t>>]
    BY <1>0, <2>1 DEF TokenOwn
  <2>3. CASE token'[f] = token[f]
    BY <2>1, <2>2, <2>3
  <2>4. CASE token'[f] # token[f]
    <3>1. f = j[1]
      BY <1>0, <2>4, JobFrame
    <3>2. pc[j] = "clear" \/ (pc[j] = "created" /\ pc'[j] = "member")
      BY <2>4, JobMove
    <3>3. CASE pc[j] = "clear"
      BY <1>0, <1>2, <2>1, <3>1, <3>3, SoleAlone
    <3>4. CASE pc'[j] = "member"
      <4>1. OneBusy' /\ ResultsTimely'
        BY JobOneBusy, JobTimely
      <4>2. pc'[<<f, t>>] \in Tokened
        OBVIOUS
      <4>3. CASE Limit[f] = 1
        BY <1>0, <1>2, <3>1, <3>4, <4>1, <4>2, <4>3 DEF OneBusy, Tokened
      <4>4. CASE Limit[f] # 1
        <5>1. t \in Touched(f)'
          BY <1>0, <4>1 DEF Touched, ResultsTimely, Ending, Tokened
        <5>2. j[2] \in Touched(f)'
          BY <1>0, <3>1, <3>4 DEF Touched
        <5> QED BY <1>0, <1>2, <3>1, <4>4, <5>1, <5>2 DEF Sole
      <4> QED BY <4>3, <4>4
    <3> QED BY <3>2, <3>3, <3>4
  <2> QED BY <2>3, <2>4
<1> QED BY <1>1, <1>2

LEMMA JobRaised ==
  ASSUME TypeOK, ResultsTimely, TokenOwn, RaisedShared, NEW j \in Job, JobNext(j)
  PROVE  RaisedShared'
<1> SUFFICES ASSUME NEW f \in Fleet, NEW t \in Target, result'[<<f, t>>] = "raised",
                    ledger'[f] # "killed", Sole(f)'
             PROVE  FALSE
  BY DEF RaisedShared
<1>0. <<f, t>> \in Job /\ Sole(f) /\ ledger[f] # "killed"
  BY JobPairs, SoleBefore, JobFrame
<1>1. CASE result[<<f, t>>] = "raised"
  BY <1>0, <1>1 DEF RaisedShared
<1>2. CASE result[<<f, t>>] # "raised"
  <2>1. <<f, t>> = j
    BY <1>0, <1>2, JobFrame
  <2>2. pc[j] = "unlink" /\ token[f] = NoToken
    BY <1>2, <2>1, JobMove
  <2>3. token[f] = at[j]
    BY <1>0, <2>1, <2>2 DEF TokenOwn, Tokened
  <2> QED BY <2>2, <2>3 DEF TypeOK, NoToken
<1> QED BY <1>1, <1>2

LEMMA JobLedger ==
  ASSUME TypeOK, LedgerTrue, NEW j \in Job, JobNext(j)
  PROVE  LedgerTrue'
<1> SUFFICES ASSUME NEW f \in Fleet
             PROVE  /\ ledger'[f] \notin {"open", "killed"}
                         => \A t \in Target : pc'[<<f, t>>] = "done"
                    /\ ledger'[f] = "clean" => \A t \in Target : result'[<<f, t>>] = "clean"
                    /\ ledger'[f] = "raised" => \E t \in Target : result'[<<f, t>>] = "raised"
  BY DEF LedgerTrue
<1>1. ledger' = ledger
  BY JobFrame
<1>2. CASE ledger[f] \in {"open", "killed"}
  BY <1>1, <1>2
<1>3. CASE ledger[f] \notin {"open", "killed"}
  <2>1. \A t \in Target : <<f, t>> \in Job /\ <<f, t>> # j
    BY <1>3, JobPairs, JobFrame DEF LedgerTrue
  <2>2. \A t \in Target : pc'[<<f, t>>] = pc[<<f, t>>] /\ result'[<<f, t>>] = result[<<f, t>>]
    BY <2>1, JobFrame
  <2> QED BY <1>1, <2>2 DEF LedgerTrue
<1> QED BY <1>2, <1>3

LEMMA JobFiles ==
  ASSUME TypeOK, OneBusy, ResultsTimely, TokenOwn, FilesOwned, NEW j \in Job, JobNext(j)
  PROVE  FilesOwned'
<1> SUFFICES ASSUME \A f \in Fleet : Sole(f)' /\ ledger'[f] # "killed", NEW s \in slots'
             PROVE  \E k \in Job : at'[k] = s /\ pc'[k] \in Holding
  BY DEF FilesOwned
<1>0. \A f \in Fleet : Sole(f) /\ ledger[f] # "killed"
  BY SoleBefore, JobFrame
<1>1. CASE s \notin slots
  <2>1. s = at[j] /\ pc'[j] = "created" /\ at' = at
    BY <1>1, JobMove
  <2> QED BY <2>1 DEF Holding
<1>2. CASE s \in slots
  <2>1. PICK k \in Job : at[k] = s /\ pc[k] \in Holding
    BY <1>0, <1>2 DEF FilesOwned
  <2>2. CASE k # j
    BY <2>1, <2>2, JobFrame
  <2>3. CASE k = j
    <3>1. j[1] \in Fleet /\ j[2] \in Target /\ j = <<j[1], j[2]>>
      BY JobPairs
    <3>2. pc[j] \in Tokened => token[j[1]] = at[j] /\ token[j[1]] # NoToken
      BY <1>0, <3>1 DEF TokenOwn, TypeOK, NoToken
    <3>3. pc[j] # "unlink"
      BY <2>1, <2>3, <3>2, JobMove DEF Tokened
    <3>4. pc'[j] \in Holding /\ at' = at
      BY <2>1, <2>3, <3>2, <3>3, JobMove DEF Tokened, Holding
    <3> QED BY <2>1, <2>3, <3>4
  <2> QED BY <2>2, <2>3
<1> QED BY <1>1, <1>2

-----------------------------------------------------------------------------
(***************************************************************************)
(* The steps of the invocation.                                            *)
(***************************************************************************)
\* Whatever leaves jobs, files and ledgers alone keeps everything.
LEMMA EndsSame ==
  ASSUME EInv, UNCHANGED <<pc, at, token, slots, result, ledger>>
  PROVE  EInv'
<1>1. OneBusy' /\ ResultsTimely' /\ LedgerTrue'
  BY DEF EInv, OneBusy, ResultsTimely, LedgerTrue
<1>2. TokenOwn' /\ RaisedShared'
  BY DEF EInv, TokenOwn, RaisedShared, Sole, Touched
<1>3. FilesOwned'
  BY DEF EInv, FilesOwned, Sole, Touched
<1> QED BY <1>1, <1>2, <1>3 DEF EInv

LEMMA CollectEnds ==
  ASSUME TypeOK, EInv, NEW f \in Fleet, Collect(f)
  PROVE  EInv'
<1>1. /\ ledger[f] = "open" /\ \A t \in Target : pc[<<f, t>>] = "done"
      /\ ledger' = [ledger EXCEPT ![f] = Verdict(f)]
      /\ pc' = pc /\ at' = at /\ token' = token /\ slots' = slots /\ result' = result
  BY DEF Collect
<1>2. /\ Verdict(f) \in {"clean", "unclean", "raised"}
      /\ Verdict(f) = "clean" => \A t \in Target : result[<<f, t>>] = "clean"
      /\ Verdict(f) = "raised" => \E t \in Target : result[<<f, t>>] = "raised"
  BY DEF Verdict
<1>3. \A g \in Fleet : ledger'[g] = "killed" <=> ledger[g] = "killed"
  BY <1>1, <1>2 DEF TypeOK
<1>4. OneBusy' /\ ResultsTimely'
  BY <1>1 DEF EInv, OneBusy, ResultsTimely
<1>5. TokenOwn' /\ RaisedShared'
  BY <1>1, <1>3 DEF EInv, TokenOwn, RaisedShared, Sole, Touched
<1>6. FilesOwned'
  BY <1>1, <1>3 DEF EInv, FilesOwned, Sole, Touched
<1>7. LedgerTrue'
  <2> SUFFICES ASSUME NEW g \in Fleet
               PROVE  /\ ledger'[g] \notin {"open", "killed"}
                           => \A t \in Target : pc'[<<g, t>>] = "done"
                      /\ ledger'[g] = "clean" => \A t \in Target : result'[<<g, t>>] = "clean"
                      /\ ledger'[g] = "raised" => \E t \in Target : result'[<<g, t>>] = "raised"
    BY DEF LedgerTrue
  <2>1. CASE g = f
    BY <1>1, <1>2, <2>1 DEF TypeOK
  <2>2. CASE g # f
    BY <1>1, <2>2 DEF TypeOK, EInv, LedgerTrue
  <2> QED BY <2>1, <2>2
<1> QED BY <1>4, <1>5, <1>6, <1>7 DEF EInv

\* A kill lets the jobs vanish: what the files owe is not asked any more.
LEMMA KillEnds ==
  ASSUME TypeOK, EInv, NEW f \in Fleet, Kill(f)
  PROVE  EInv'
<1>1. /\ ledger' = [ledger EXCEPT ![f] = "killed"]
      /\ pc' = [j \in Job |-> IF j[1] = f THEN "done" ELSE pc[j]]
      /\ at' = at /\ token' = token /\ slots' = slots /\ result' = result
  BY DEF Kill
<1>2. ledger'[f] = "killed" /\ \A g \in Fleet : g # f => ledger'[g] = ledger[g]
  BY <1>1 DEF TypeOK
<1>3. /\ \A t \in Target : pc'[<<f, t>>] = "done"
      /\ \A g \in Fleet, t \in Target : g # f => pc'[<<g, t>>] = pc[<<g, t>>]
  BY <1>1, JobPairs
<1>4. \A g \in Fleet : g # f => (Sole(g)' <=> Sole(g))
  BY <1>1, <1>3 DEF Sole, Touched
<1>5. OneBusy'
  BY <1>3 DEF EInv, OneBusy
<1>6. ResultsTimely'
  BY <1>1 DEF EInv, ResultsTimely, Begun, Ending
<1>7. TokenOwn'
  BY <1>1, <1>3, <1>4 DEF EInv, TokenOwn, Tokened
<1>8. RaisedShared'
  BY <1>1, <1>2, <1>4 DEF EInv, RaisedShared
<1>9. LedgerTrue'
  BY <1>1, <1>2, <1>3 DEF EInv, LedgerTrue
<1>10. FilesOwned'
  BY <1>2 DEF FilesOwned
<1> QED BY <1>5, <1>6, <1>7, <1>8, <1>9, <1>10 DEF EInv

LEMMA EndsStep ==
  ASSUME TypeOK, EInv, [Next]_vars
  PROVE  EInv'
<1>1. ASSUME NEW j \in Job, JobNext(j) PROVE EInv'
  BY <1>1, JobTimely, JobOneBusy, JobTokenOwn, JobRaised, JobLedger, JobFiles DEF EInv
<1>2. ASSUME NEW j \in Job, OrphanEnds(j) PROVE EInv'
  BY <1>2, EndsSame DEF OrphanEnds
<1>3. ASSUME NEW f \in Fleet, Collect(f) PROVE EInv'
  BY <1>3, CollectEnds
<1>4. ASSUME NEW f \in Fleet, Kill(f) PROVE EInv'
  BY <1>4, KillEnds
<1>5. CASE vars' = vars
  BY <1>5, EndsSame DEF vars
<1> QED BY <1>1, <1>2, <1>3, <1>4, <1>5 DEF Next

\* The inductive invariant holds in every reachable state.
THEOREM EndsInductive == Spec => []EInv
<1>1. TypeOK /\ EInv /\ [Next]_vars => EInv'
  BY EndsStep
<1> QED BY <1>1, EndsInit, TypeCorrect, PTL DEF Spec

-----------------------------------------------------------------------------
\* For an invocation whose jobs are all done, one member that ran means a sole token.
LEMMA OneIsSole ==
  ASSUME NEW f \in Fleet, OneSlotAtMost(f), \A t \in Target : pc[<<f, t>>] = "done"
  PROVE  Sole(f)
<1> DEFINE ran == {t \in Target : result[<<f, t>>] \notin {"none", "refused"}}
<1>1. CASE Limit[f] = 1
  BY <1>1 DEF Sole
<1>2. CASE Limit[f] # 1
  <2>1. Cardinality(ran) <= 1
    BY <1>2 DEF OneSlotAtMost
  <2>2. Touched(f) = ran
    BY DEF Touched
  <2>3. IsFiniteSet(ran)
    BY FiniteAssumption, FS_Subset
  <2>4. ASSUME NEW t \in ran, NEW u \in ran, t # u PROVE FALSE
    <3> HIDE DEF ran
    <3>1. Cardinality(ran \ {t}) = Cardinality(ran) - 1 /\ IsFiniteSet(ran \ {t})
      BY <2>3, FS_RemoveElement
    <3>2. Cardinality(ran \ {t}) = 0
      BY <2>1, <2>3, <3>1, FS_CardinalityType
    <3>3. ran \ {t} = {}
      BY <3>1, <3>2, FS_EmptySet
    <3> QED BY <2>4, <3>3
  <2> HIDE DEF ran
  <2> QED BY <2>2, <2>4 DEF Sole
<1> QED BY <1>1, <1>2

\* run_fleet exits with 0 only when every member has run to a clean end.
THEOREM CleanRuns == Spec => []CleanMeansRun
<1>1. IInv /\ EInv => CleanMeansRun
  <2> SUFFICES ASSUME IInv, EInv, NEW f \in Fleet, ledger[f] = "clean", NEW t \in Target
               PROVE  result[<<f, t>>] = "clean" /\ <<f, t>> \notin running
    BY DEF CleanMeansRun
  <2>1. result[<<f, t>>] = "clean" /\ pc[<<f, t>>] = "done"
    BY DEF EInv, LedgerTrue
  <2>2. <<f, t>> \notin running
    BY <2>1 DEF IInv, RunningHeld
  <2> QED BY <2>1, <2>2
<1> QED BY <1>1, Inductive, EndsInductive, PTL

\* An invocation that was not killed writes its ledger (run_fleet), unless two
\* of its threads met in the token: release never raises for a sole holder.
THEOREM LedgersWritten == Spec => []LedgerWritten
<1>1. EInv => LedgerWritten
  <2> SUFFICES ASSUME EInv, NEW f \in Fleet, OneSlotAtMost(f), ledger[f] = "raised"
               PROVE  FALSE
    BY DEF LedgerWritten
  <2>1. Sole(f)
    BY OneIsSole DEF EInv, LedgerTrue
  <2> QED BY <2>1 DEF EInv, LedgerTrue, RaisedShared
<1> QED BY <1>1, EndsInductive, PTL

\* Invocations that ended by themselves and never shared a token leave no lock
\* file (GlobalSlots.release), whatever they and the others did in between.
THEOREM SlotsGivenBack == Spec => []SlotsReturned
<1>1. EInv => SlotsReturned
  <2> SUFFICES ASSUME EInv,
                      \A f \in Fleet : OneSlotAtMost(f) /\ ledger[f] \notin {"open", "killed"}
               PROVE  slots = {}
    BY DEF SlotsReturned
  <2>1. \A f \in Fleet : \A t \in Target : pc[<<f, t>>] = "done"
    BY DEF EInv, LedgerTrue
  <2>2. \A j \in Job : pc[j] = "done"
    BY <2>1, JobPairs
  <2>3. \A f \in Fleet : Sole(f)
    BY <2>1, OneIsSole
  <2> QED BY <2>2, <2>3 DEF EInv, FilesOwned, Holding
<1> QED BY <1>1, EndsInductive, PTL
=============================================================================
