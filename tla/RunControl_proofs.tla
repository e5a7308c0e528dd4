------------------------- MODULE RunControl_proofs -------------------------
(***************************************************************************)
(* What holds of RunControl for every ladder, any number of engines, any   *)
(* number of requests and deaths.                                          *)
(***************************************************************************)
EXTENDS RunControl, TLAPS, SequenceTheorems

(***************************************************************************)
(* What the functions of state.py return: every one keeps a document one.  *)
(***************************************************************************)
LEMMA LoadType ==
  ASSUME NEW file \in Doc \cup {NoDoc}
  PROVE  LoadState(file) \in Doc /\ EmptyState \in Doc
<1>1. EmptyState \in Doc
  BY DEF EmptyState, Doc, ModuleStatus, RunStatus
<1> QED BY <1>1 DEF LoadState

LEMMA DocType ==
  ASSUME NEW doc \in Doc
  PROVE  /\ \A s \in RunStatus : WithRun(doc, s) \in Doc
         /\ \A m \in Module, s \in ModuleStatus : WithRow(doc, m, s) \in Doc
         /\ \A m \in Module : PersistPause(doc, m) \in Doc
         /\ \A m : ClearModulePause(doc, m) \in Doc
         /\ ClearPauses(doc) \in Doc
         /\ StampLive(doc) \in Doc
         /\ NewRun(doc) \in Doc
<1> USE DEF Doc
<1>1. \A s \in RunStatus : WithRun(doc, s) \in Doc
  BY DEF WithRun
<1>2. \A m \in Module, s \in ModuleStatus : WithRow(doc, m, s) \in Doc
  BY DEF WithRow
<1>3. \A m \in Module : PersistPause(doc, m) \in Doc
  BY <1>1 DEF PersistPause, RunStatus
<1>4. \A m : ClearModulePause(doc, m) \in Doc
  BY DEF ClearModulePause
<1>5. ClearPauses(doc) \in Doc
  <2>1. WithRun(doc, "completed") \in Doc
    BY <1>1 DEF RunStatus
  <2> QED BY <2>1 DEF ClearPauses
<1>6. StampLive(doc) \in Doc
  BY DEF StampLive
<1>7. NewRun(doc) \in Doc
  BY DEF NewRun, EmptyState, ModuleStatus, RunStatus
<1> QED BY <1>1, <1>2, <1>3, <1>4, <1>5, <1>6, <1>7

LEMMA RowsType ==
  ASSUME NEW doc \in Doc
  PROVE  /\ RunningRows(doc) \in SUBSET Module
         /\ {m \in Module : SkipDone(doc, m)} \in SUBSET Module
         /\ doc.paused \in SUBSET Module
BY DEF RunningRows, Doc

LEMMA Words ==
  /\ {"running", "completed", "partial", "failed", "anomaly", "stopped"} \subseteq RunStatus
  /\ {"pending", "running", "done", "failed"} \subseteq ModuleStatus
BY DEF RunStatus, ModuleStatus

-----------------------------------------------------------------------------
(***************************************************************************)
(* Types.  A thread that is inside a module's steps is inside its list:    *)
(* without that the rows it writes could not be shown to be rows.          *)
(***************************************************************************)
Inside == StagePc \ {"check"}

PositionsOK ==
  \A p \in Worker : idx[p] \in Nat \ {0} /\ (pc[p] \in Inside => idx[p] <= Len(List(p[2])))

TInv == TypeOK /\ PositionsOK

LEMMA ListType == \A t \in Thread : List(t) \in Seq(Module) /\ Len(List(t)) \in Nat
<1>1. Post \in Seq(Module) /\ Passive \in Seq(Module) /\ Port \in Seq(Module)
      /\ Before \in Seq(Module) /\ After \in Seq(Module)
  BY LadderAssumption
<1>2. Before \o After \in Seq(Module)
  BY <1>1
<1> QED BY <1>1, <1>2 DEF List

LEMMA CurrentType ==
  ASSUME TInv, NEW e \in Engine, NEW t \in Thread, pc[<<e, t>>] \in Inside
  PROVE  /\ Current(<<e, t>>) \in Module
         /\ idx[<<e, t>>] \in Nat \ {0} /\ idx[<<e, t>>] <= Len(List(t))
<1>1. <<e, t>> \in Worker /\ <<e, t>>[2] = t
  BY DEF Worker
<1>2. idx[<<e, t>>] \in 1..Len(List(t))
  BY <1>1, ListType DEF TInv, PositionsOK
<1> QED BY <1>1, <1>2, ListType DEF Current

\* A bound that is spent stays a number.
LEMMA LeftType ==
  ASSUME NEW l \in [requests : Nat, cli : Nat, deaths : Nat]
  PROVE  /\ l.requests > 0 => [l EXCEPT !.requests = @ - 1] \in [requests : Nat, cli : Nat, deaths : Nat]
         /\ l.cli > 0 => [l EXCEPT !.cli = @ - 1] \in [requests : Nat, cli : Nat, deaths : Nat]
         /\ l.deaths > 0 => [l EXCEPT !.deaths = @ - 1] \in [requests : Nat, cli : Nat, deaths : Nat]
OBVIOUS

\* Every label is a label.
LEMMA Labels ==
  /\ {"none", "boot", "init", "begin", "stop0", "reset", "resetEach", "fork", "join",
      "classify", "final", "setFinal", "after", "record", "fsList", "fsEach", "fsClear",
      "fsRecord", "fcCheck", "fcList", "fcEach", "fcClear", "gone"} \subseteq Pc
  /\ {"check", "release", "guardRun", "setRun", "work", "tool", "check2", "stopFail",
      "guardDone", "setDone", "setLate", "live", "setFail", "setEmpty"} \subseteq Pc
  /\ {"off", "snap", "joinPort", "ended", "stopped"} \subseteq Pc
  /\ {"idle", "putPid", "list", "each", "clear", "docker"} \subseteq Pc
BY DEF Pc, MainPc, StagePc, BranchPc, DashPc

LEMMA ProcType ==
  /\ Dash \in Proc /\ Worker \subseteq Proc /\ Dash \notin Worker
  /\ \A p \in Proc : p = Dash \/ p \in Worker
  /\ \A e \in Engine, t \in Thread : <<e, t>> \in Worker /\ <<e, t>> \in Proc
                                     /\ <<e, t>> # Dash
  /\ \A e \in Engine : Main(e) = <<e, "main">> /\ Main(e) \in Worker /\ Main(e) \in Proc
                       /\ Main(e) # Dash
BY ProcAssumption DEF Proc, Worker, Main, Thread

LEMMA InitTypes == Init => TInv
<1> SUFFICES ASSUME Init PROVE TInv
  OBVIOUS
<1>1. TypeOK
  BY Labels, ProcType, BoundAssumption, CrashAssumption
  DEF Init, TypeOK, Worker, RunStatus
<1>2. PositionsOK
  BY ProcType DEF Init, PositionsOK, Inside, StagePc
<1> QED BY <1>1, <1>2 DEF TInv

LEMMA StartTypes ==
  ASSUME TInv, NEW e \in Engine, Start(e)
  PROVE  TInv'
<1> USE Labels, Words, ProcType DEF TInv, TypeOK, PositionsOK, At, Goto, Put, Loaded,
        Inside, StagePc, engineVars, history
<1>0. /\ Loaded \in Doc /\ disk \in Doc \cup {NoDoc} /\ EmptyState \in Doc
      /\ Loaded.paused \in SUBSET Module
  BY LoadType, RowsType
<1>1. CASE NothingToResume(e)
  BY <1>0, <1>1, DocType DEF NothingToResume, Exit, Gone
<1>2. CASE WriteRunPid(e)
  BY <1>0, <1>2, DocType DEF WriteRunPid
<1>3. CASE NewRunState(e)
  BY <1>0, <1>3, DocType DEF NewRunState
<1>4. CASE InitState(e)
  BY <1>0, <1>4, DocType DEF InitState
<1>5. CASE BeginRun(e)
  BY <1>0, <1>5, DocType DEF BeginRun
<1>6. CASE StartCheck(e)
  <2>1. \E l \in {"fsList", "reset", "fcCheck"} : pc' = [pc EXCEPT ![Main(e)] = l]
    BY <1>6 DEF StartCheck
  <2>2. pc' \in [Proc -> Pc] /\ PositionsOK'
    BY <1>6, <2>1 DEF StartCheck
  <2> QED BY <1>6, <2>2 DEF StartCheck
<1>7. CASE LoadPauses(e)
  BY <1>0, <1>7, DocType DEF LoadPauses
<1>8. CASE ResetOne(e)
  <2>1. PICK m \in mem[e] : /\ mem' = [mem EXCEPT ![e] = @ \ {m}]
                            /\ buf' = [buf EXCEPT ![Main(e)] = ClearModulePause(Loaded, m)]
    BY <1>8 DEF ResetOne
  <2>2. mem' \in [Engine -> SUBSET Module] /\ buf' \in [Proc -> Doc \cup {NoDoc}]
    BY <1>0, <2>1, DocType
  <2> QED BY <1>8, <2>2 DEF ResetOne
<1>9. CASE ResetAll(e)
  BY <1>0, <1>9, DocType DEF ResetAll
<1>10. CASE Fork(e)
  BY <1>0, <1>10, DocType DEF Fork
<1> QED BY <1>1, <1>2, <1>3, <1>4, <1>5, <1>6, <1>7, <1>8, <1>9, <1>10 DEF Start

LEMMA StepTypes ==
  ASSUME TInv, NEW e \in Engine, NEW t \in Thread, Step(e, t)
  PROVE  TInv'
<1> USE Labels, Words, ProcType DEF TInv, TypeOK, PositionsOK, At, Goto, Put, Loaded,
        Inside, StagePc, engineVars, history
<1>0. /\ Loaded \in Doc /\ disk \in Doc \cup {NoDoc} /\ EmptyState \in Doc
      /\ Loaded.paused \in SUBSET Module
  BY LoadType, RowsType
<1>00. pc[<<e, t>>] \in Inside => Current(<<e, t>>) \in Module
  BY CurrentType
<1>000. Len(List(t)) \in Nat
  BY ListType
<1>1. CASE Snapshot(e, t)
  BY <1>0, <1>00, <1>1, DocType, RowsType DEF Snapshot
<1>2. CASE CheckStop(e, t)
  BY <1>0, <1>00, <1>2, DocType DEF CheckStop
<1>3. CASE CheckSkip(e, t)
  <2>1. /\ pc[<<e, t>>] = "check" /\ idx[<<e, t>>] <= Len(List(t)) /\ <<e, t>>[2] = t
        /\ UNCHANGED <<disk, pidfile, buf, todo, seen, engineVars, cont, spawning, history>>
    BY <1>000, <1>3 DEF CheckSkip, Finished
  <2>2. CASE idx' = [idx EXCEPT ![<<e, t>>] = @ + 1] /\ pc' = pc
    <3>1. idx' \in [Worker -> Nat]
      BY <2>2
    <3>2. ASSUME NEW p \in Worker
          PROVE  idx'[p] \in Nat \ {0} /\ (pc'[p] \in Inside => idx'[p] <= Len(List(p[2])))
      <4>1. CASE p = <<e, t>>
        BY <2>1, <2>2, <4>1
      <4>2. CASE p # <<e, t>>
        BY <2>2, <4>2
      <4> QED BY <4>1, <4>2
    <3>3. PositionsOK'
      BY <3>2
    <3> QED BY <2>1, <2>2, <3>1, <3>3
  <2>3. CASE pc' = [pc EXCEPT ![<<e, t>>] = "release"] /\ idx' = idx
    BY <2>1, <2>3
  <2> QED BY <1>3, <2>2, <2>3 DEF CheckSkip
<1>4. CASE Release(e, t)
  BY <1>0, <1>00, <1>4, DocType DEF Release
<1>5. CASE BudgetSpent(e, t)
  BY <1>0, <1>00, <1>5, DocType, <1>000 DEF BudgetSpent
<1>6. CASE GuardRun(e, t)
  BY <1>0, <1>00, <1>6, DocType DEF GuardRun
<1>7. CASE SetRunning(e, t)
  BY <1>0, <1>00, <1>7, DocType DEF SetRunning
<1>8. CASE Launch(e, t)
  BY <1>0, <1>00, <1>8, DocType DEF Launch
<1>9. CASE ToolEnds(e, t)
  <2>1. pc[<<e, t>>] \in Inside /\ Current(<<e, t>>) \in Module
    BY <1>00, <1>9 DEF ToolEnds
  <2>2. PICK l \in {"check2", "guardDone", "setFail", "setEmpty"} :
           pc' = [pc EXCEPT ![<<e, t>>] = l] /\ finished' \in SUBSET Module
    BY ZenonT(60), <2>1, <1>9 DEF ToolEnds, Ends, Outcomes, Returned
  <2>3. pc' \in [Proc -> Pc] /\ PositionsOK'
    BY <1>9, <2>1, <2>2 DEF ToolEnds
  <2> QED BY <1>9, <2>2, <2>3 DEF ToolEnds, Ends
<1>10. CASE ToolTrips(e, t)
  <2>1. pc[<<e, t>>] \in Inside /\ Current(<<e, t>>) \in Module
    BY <1>00, <1>10 DEF ToolTrips
  <2>2. PICK l \in {"check2", "guardDone", "setFail", "setEmpty"} :
           pc' = [pc EXCEPT ![<<e, t>>] = l] /\ finished' \in SUBSET Module
    BY ZenonT(60), <2>1, <1>10 DEF ToolTrips, Ends, Outcomes, Returned
  <2>3. pc' \in [Proc -> Pc] /\ PositionsOK'
    BY <1>10, <2>1, <2>2 DEF ToolTrips
  <2>4. /\ mem' \in [Engine -> SUBSET Module] /\ buf' \in [Proc -> Doc \cup {NoDoc}]
        /\ alert' \in SUBSET Engine /\ cont' \in SUBSET Worker
    BY <1>10, <1>0, <2>1, DocType DEF ToolTrips
  <2> QED BY <1>10, <2>2, <2>3, <2>4 DEF ToolTrips, Ends
<1>11. CASE WorkNoTool(e, t)
  <2>1. pc[<<e, t>>] \in Inside /\ Current(<<e, t>>) \in Module
    BY <1>00, <1>11 DEF WorkNoTool
  <2>2. PICK l \in {"check2", "guardDone", "setFail", "setEmpty"} :
           pc' = [pc EXCEPT ![<<e, t>>] = l] /\ finished' \in SUBSET Module
    BY ZenonT(60), <2>1, <1>11 DEF WorkNoTool, Ends, Outcomes, Returned
  <2>3. pc' \in [Proc -> Pc] /\ PositionsOK'
    BY <1>11, <2>1, <2>2 DEF WorkNoTool
  <2> QED BY <1>11, <2>2, <2>3 DEF WorkNoTool, Ends
<1>12. CASE CheckAgain(e, t)
  BY <1>0, <1>00, <1>12, DocType DEF CheckAgain
<1>13. CASE StopFails(e, t)
  <2>1. pc[<<e, t>>] \in Inside /\ Current(<<e, t>>) \in Module
    BY <1>00, <1>13 DEF StopFails
  <2>2. PICK l \in {"joinPort", "stopped"} : pc' = [pc EXCEPT ![<<e, t>>] = l]
    BY <1>13 DEF StopFails
  <2>3. buf' \in [Proc -> Doc \cup {NoDoc}]
    BY <1>13, <1>0, <2>1, DocType DEF StopFails
  <2> QED BY <1>13, <2>2, <2>3 DEF StopFails
<1>14. CASE GuardDone(e, t)
  BY <1>0, <1>00, <1>14, DocType DEF GuardDone
<1>15. CASE SetDone(e, t)
  <2>1. pc[<<e, t>>] \in Inside /\ Current(<<e, t>>) \in Module
    BY <1>00, <1>15 DEF SetDone
  <2>2. PICK s \in ModuleStatus : buf' = [buf EXCEPT ![<<e, t>>] = WithRow(Loaded, Current(<<e, t>>), s)]
    BY <1>15 DEF SetDone
  <2>3. buf' \in [Proc -> Doc \cup {NoDoc}]
    BY <1>0, <2>1, <2>2, DocType
  <2> QED BY <1>15, <2>1, <2>3 DEF SetDone
<1>16. CASE IngestLive(e, t)
  <2>1. PICK d \in {NoDoc, StampLive(Loaded), buf[<<e, t>>]} : buf' = [buf EXCEPT ![<<e, t>>] = d]
    BY <1>16 DEF IngestLive
  <2>12. buf' \in [Proc -> Doc \cup {NoDoc}]
    BY <1>0, <2>1, DocType
  <2>2. seen' \in [Engine -> [Branch -> SUBSET Module]]
    BY <1>16, <1>0, RowsType DEF IngestLive
  <2>3. idx' \in [Worker -> Nat] /\ pc' \in [Proc -> Pc] /\ PositionsOK'
    BY <1>16 DEF IngestLive
  <2> QED BY <1>16, <2>12, <2>2, <2>3 DEF IngestLive
<1>17. CASE SetFailed(e, t)
  <2>1. pc[<<e, t>>] \in Inside /\ Current(<<e, t>>) \in Module
    BY <1>00, <1>17 DEF SetFailed
  <2>2. buf' \in [Proc -> Doc \cup {NoDoc}]
    BY <1>17, <1>0, <2>1, DocType DEF SetFailed
  <2> DEFINE n == IF pc[<<e, t>>] = "setFail" THEN idx[<<e, t>>] + 1 ELSE Len(List(t)) + 1
  <2>30. idx[<<e, t>>] \in Nat \ {0}
    OBVIOUS
  <2>31. n \in Nat \ {0}
    BY <1>000, <2>30
  <2>3. idx' = [idx EXCEPT ![<<e, t>>] = n]
    BY <1>17 DEF SetFailed
  <2>4. idx' \in [Worker -> Nat] /\ pc' \in [Proc -> Pc] /\ PositionsOK'
    <3> HIDE DEF n
    <3> QED BY <1>17, <2>3, <2>31 DEF SetFailed
  <2> QED BY <1>17, <2>2, <2>4 DEF SetFailed
<1>18. CASE ThreadEnds(e, t)
  BY <1>0, <1>00, <1>18, DocType DEF ThreadEnds
<1> QED BY <1>1, <1>2, <1>3, <1>4, <1>5, <1>6, <1>7, <1>8, <1>9, <1>10, <1>11, <1>12, <1>13, <1>14, <1>15, <1>16, <1>17, <1>18 DEF Step

LEMMA RestTypes ==
  ASSUME TInv, NEW e \in Engine, Rest(e)
  PROVE  TInv'
<1> USE Labels, Words, ProcType DEF TInv, TypeOK, PositionsOK, At, Goto, Put, Loaded,
        Inside, StagePc, engineVars, history
<1>0. /\ Loaded \in Doc /\ disk \in Doc \cup {NoDoc} /\ EmptyState \in Doc
      /\ Loaded.paused \in SUBSET Module
  BY LoadType, RowsType
<1>1. CASE Join(e)
  BY <1>0, <1>1, DocType DEF Join
<1>2. CASE Raise(e)
  BY <1>0, <1>2, DocType DEF Raise
<1>3. CASE ClassifyStatus(e)
  <2>1. Verdicts(e) \in SUBSET RunStatus
    BY DEF Verdicts
  <2>2. PICK l \in {"fsList", "final"}, v \in RunStatus :
           /\ pc' = [pc EXCEPT ![Main(e)] = l]
           /\ verdict' = [verdict EXCEPT ![e] = v]
    <3>1. CASE Stopped
      <4>1. verdict' = [verdict EXCEPT ![e] = verdict[e]] /\ verdict[e] \in RunStatus
        BY <1>3, <3>1 DEF ClassifyStatus
      <4> QED BY <1>3, <3>1, <4>1 DEF ClassifyStatus
    <3>2. CASE ~Stopped
      BY <1>3, <2>1, <3>2 DEF ClassifyStatus
    <3> QED BY <3>1, <3>2
  <2>3. pc' \in [Proc -> Pc] /\ PositionsOK' /\ verdict' \in [Engine -> RunStatus]
    BY <1>3, <2>2 DEF ClassifyStatus
  <2> QED BY <1>3, <2>3 DEF ClassifyStatus
<1>4. CASE FinalCheck(e)
  BY <1>0, <1>4, DocType DEF FinalCheck
<1>5. CASE SetVerdict(e)
  BY <1>0, <1>5, DocType DEF SetVerdict
<1>6. CASE Record(e)
  BY <1>0, <1>6, DocType DEF Record, Exit, Gone
<1>7. CASE ListRunning(e)
  BY <1>0, <1>7, DocType, RowsType DEF ListRunning
<1>8. CASE FailRunning(e)
  <2>1. PICK m \in todo[Main(e)] : /\ todo' = [todo EXCEPT ![Main(e)] = @ \ {m}]
                               /\ buf' = [buf EXCEPT ![Main(e)] = WithRow(Loaded, m, "failed")]
    BY <1>8 DEF FailRunning, FailRow
  <2>2. m \in Module
    BY <2>1
  <2>3. buf' \in [Proc -> Doc \cup {NoDoc}] /\ todo' \in [Proc -> SUBSET Module]
    BY <1>0, <2>1, <2>2, DocType
  <2> QED BY <1>8, <2>3 DEF FailRunning
<1>9. CASE FinalizeStopped(e)
  BY <1>0, <1>9, DocType DEF FinalizeStopped
<1>10. CASE CrashCheck(e)
  BY <1>0, <1>10, DocType DEF CrashCheck
<1>11. CASE FinalizeCrash(e)
  BY <1>0, <1>11, DocType DEF FinalizeCrash
<1>12. CASE ClearPid(e)
  <2>1. CASE At(Main(e), "fsClear") /\ Goto(Main(e), "fsRecord")
             /\ UNCHANGED <<idx, buf, todo, seen, engineVars>>
    BY <1>12, <2>1 DEF ClearPid
  <2>2. CASE Exit(e)
    BY <1>12, <2>2 DEF ClearPid, Exit, Gone
  <2> QED BY <1>12, <2>1, <2>2 DEF ClearPid
<1>13. CASE RecordStopped(e)
  BY <1>0, <1>13, DocType DEF RecordStopped, Exit, Gone
<1> QED BY <1>1, <1>2, <1>3, <1>4, <1>5, <1>6, <1>7, <1>8, <1>9, <1>10, <1>11, <1>12, <1>13 DEF Rest

LEMMA DashTypes ==
  ASSUME TInv, StartRun \/ Refuse \/ StopRun \/ ResetLimiter \/ PutPid \/ StopList \/ StopFailRow \/ StopKill \/ StopClear \/ StopContainers
  PROVE  TInv'
<1> USE Labels, Words, ProcType DEF TInv, TypeOK, PositionsOK, At, Goto, Put, Loaded,
        Inside, StagePc, engineVars, history
<1>0. /\ Loaded \in Doc /\ disk \in Doc \cup {NoDoc} /\ EmptyState \in Doc
      /\ Loaded.paused \in SUBSET Module
  BY LoadType, RowsType
<1>1. CASE StartRun
  <2>0. left' \in [requests : Nat, cli : Nat, deaths : Nat]
    BY <1>1, LeftType DEF StartRun, Asks
  <2>1. PICK f \in Engine : \E fresh \in BOOLEAN : Spawn(f, fresh)
    BY <1>1 DEF StartRun
  <2>2. /\ pc' \in [Proc -> Pc] /\ PositionsOK' /\ resume' \in SUBSET Engine
        /\ leader' \in SUBSET Engine /\ spawning' \in Engine \cup {NoEngine}
    <3>1. pc' = [pc EXCEPT ![Main(f)] = "boot", ![Dash] = "putPid"] /\ idx' = idx
      BY <1>1, <2>1 DEF Spawn, StartRun
    <3>2. pc' \in [Proc -> Pc] /\ PositionsOK'
      BY <3>1
    <3> QED BY <2>1, <3>2 DEF Spawn
  <2> QED BY <1>1, <2>0, <2>2 DEF StartRun
<1>2. CASE Refuse
  <2>0. left' \in [requests : Nat, cli : Nat, deaths : Nat]
    BY <1>2, LeftType DEF Refuse, Asks
  <2> QED BY <1>2, <2>0 DEF Refuse
<1>3. CASE StopRun
  <2>0. left' \in [requests : Nat, cli : Nat, deaths : Nat]
    BY <1>3, LeftType DEF StopRun, Asks
  <2>1. spawning' \in Engine \cup {NoEngine} /\ WithRun(Loaded, "stopped") \in Doc
    BY <1>3, <1>0, DocType DEF StopRun
  <2> QED BY <1>3, <2>0, <2>1 DEF StopRun
<1>4. CASE ResetLimiter
  <2>0. left' \in [requests : Nat, cli : Nat, deaths : Nat]
    BY <1>4, LeftType DEF ResetLimiter, Asks
  <2>1. ClearPauses(disk) \in Doc
    BY <1>4, <1>0, DocType DEF ResetLimiter
  <2> QED BY <1>4, <2>0, <2>1 DEF ResetLimiter
<1>5. CASE PutPid
  BY <1>0, <1>5, DocType DEF PutPid
<1>6. CASE StopList
  BY <1>0, <1>6, DocType, RowsType DEF StopList
<1>7. CASE StopFailRow
  <2>1. PICK m \in todo[Dash] : /\ todo' = [todo EXCEPT ![Dash] = @ \ {m}]
                               /\ buf' = [buf EXCEPT ![Dash] = WithRow(Loaded, m, "failed")]
    BY <1>7 DEF StopFailRow, FailRow
  <2>2. m \in Module
    BY <2>1
  <2>3. buf' \in [Proc -> Doc \cup {NoDoc}] /\ todo' \in [Proc -> SUBSET Module]
    BY <1>0, <2>1, <2>2, DocType
  <2> QED BY <1>7, <2>3 DEF StopFailRow
<1>8. CASE StopKill
  BY <1>0, <1>8, DocType DEF StopKill, Gone
<1>9. CASE StopClear
  BY <1>0, <1>9, DocType DEF StopClear
<1>10. CASE StopContainers
  <2>1. CASE spawning = NoEngine
    BY ZenonT(60), <1>10, <2>1 DEF StopContainers
  <2>2. CASE spawning # NoEngine
    <3>1. spawning \in Engine /\ Spawn(spawning, TRUE)
      BY <1>10, <2>2 DEF StopContainers
    <3>2. /\ pc' \in [Proc -> Pc] /\ PositionsOK' /\ resume' \in SUBSET Engine
          /\ leader' \in SUBSET Engine /\ spawning' \in Engine \cup {NoEngine}
      BY <1>10, <3>1 DEF StopContainers, Spawn
    <3> QED BY <1>10, <3>2 DEF StopContainers
  <2> QED BY <2>1, <2>2
<1> QED BY <1>1, <1>2, <1>3, <1>4, <1>5, <1>6, <1>7, <1>8, <1>9, <1>10

LEMMA OtherTypes ==
  ASSUME TInv, NEW e \in Engine, ForkPort(e) \/ JoinPort(e) \/ CliRun(e) \/ Die(e)
  PROVE  TInv'
<1> USE Labels, Words, ProcType DEF TInv, TypeOK, PositionsOK, At, Goto, Put, Loaded,
        Inside, StagePc, engineVars, history
<1>0. /\ Loaded \in Doc /\ disk \in Doc \cup {NoDoc} /\ EmptyState \in Doc
      /\ Loaded.paused \in SUBSET Module
  BY LoadType, RowsType
<1>1. CASE ForkPort(e)
  BY <1>0, <1>1, DocType DEF ForkPort
<1>2. CASE JoinPort(e)
  BY <1>0, <1>2, DocType DEF JoinPort
<1>3. CASE CliRun(e)
  <2>0. left' \in [requests : Nat, cli : Nat, deaths : Nat]
    BY <1>3, LeftType DEF CliRun, Asks
  <2>1. leader' \in SUBSET Engine /\ pc' = [pc EXCEPT ![Main(e)] = "boot"]
    BY <1>3 DEF CliRun
  <2>2. pc' \in [Proc -> Pc] /\ PositionsOK'
    BY <1>3, <2>1 DEF CliRun
  <2> QED BY <1>3, <2>0, <2>1, <2>2 DEF CliRun
<1>4. CASE Die(e)
  <2>0. left' \in [requests : Nat, cli : Nat, deaths : Nat]
    BY <1>4, LeftType DEF Die, Asks
  <2>1. cont' \in SUBSET Worker
    BY <1>4 DEF Die
  <2>2. Exit(e)
    BY <1>4 DEF Die
  <2> QED BY <1>4, <2>0, <2>1, <2>2 DEF Die, Exit, Gone
<1> QED BY <1>1, <1>2, <1>3, <1>4

LEMMA SaveTypes ==
  ASSUME TInv, NEW p \in Proc, Save(p)
  PROVE  TInv'
<1> USE DEF TInv, TypeOK, PositionsOK, Put, engineVars, history
<1>1. disk' \in Doc \cup {NoDoc} /\ buf' \in [Proc -> Doc \cup {NoDoc}]
  BY DEF Save
<1> QED BY <1>1 DEF Save

LEMMA NextTypes ==
  ASSUME TInv, Next
  PROVE  TInv'
<1>1. ASSUME NEW e \in Engine, NEW t \in Thread, ThreadNext(e, t) PROVE TInv'
  BY <1>1, SaveTypes, StepTypes, StartTypes, RestTypes, OtherTypes, ProcType DEF ThreadNext
<1>2. CASE Serve
  BY <1>2, SaveTypes, DashTypes, ProcType DEF Serve
<1>3. CASE Request
  BY <1>3, DashTypes DEF Request
<1>4. ASSUME NEW e \in Engine, CliRun(e) \/ Die(e) PROVE TInv'
  BY <1>4, OtherTypes
<1> QED BY <1>1, <1>2, <1>3, <1>4 DEF Next

LEMMA TypesInductive == Spec => []TInv
<1>1. TInv /\ [Next]_vars => TInv'
  <2>1. CASE UNCHANGED vars
    BY <2>1 DEF vars, engineVars, history, TInv, TypeOK, PositionsOK
  <2> QED BY <2>1, NextTypes
<1> QED BY InitTypes, <1>1, PTL DEF Spec

\* Every variable keeps its type: no thread writes a row or a pause that is not
\* one of the ladder's modules, at any stop, restart, death or lost update.
THEOREM TypeCorrect == Spec => []TypeOK
<1>1. TInv => TypeOK
  BY DEF TInv
<1> QED BY TypesInductive, <1>1, PTL

-----------------------------------------------------------------------------
(***************************************************************************)
(* STOP. The dashboard reaches an engine through its process group, so   *)
(* the invariant says that every engine leads one, that none is left while *)
(* the pid file is cleared and the containers are killed, and that a       *)
(* process that is gone has left no thread behind that could start another *)
(* container or save a document.                                           *)
(***************************************************************************)
AllLead == \A e \in Engine : Up(e) => e \in leader

NoneLeft == pc[Dash] \in {"clear", "docker"} => \A e \in Engine : ~Up(e)

GoneIsGone ==
  \A e \in Engine : ~Up(e) =>
    \A t \in Thread : pc[<<e, t>>] \in {"none", "off", "gone"} /\ buf[<<e, t>>] = NoDoc

QuietIsIdle == quiet => pc[Dash] = "idle" /\ cont = {} /\ \A e \in Engine : ~Up(e)

SInv == left.cli = 0 /\ AllLead /\ NoneLeft /\ GoneIsGone /\ QuietIsIdle

\* What a step of an engine's thread leaves alone: the dashboard, every other
\* engine, and its own place among the live ones, unless it exits whole.
EngineFrame(e) ==
  /\ Up(e)
  /\ pc'[Dash] = pc[Dash] /\ buf'[Dash] = buf[Dash]
  /\ quiet' = quiet /\ spawning' = spawning /\ left' = left
  /\ \A f \in Engine \ {e}, t \in Thread :
       pc'[<<f, t>>] = pc[<<f, t>>] /\ buf'[<<f, t>>] = buf[<<f, t>>]
  /\ \/ Up(e)' /\ leader' = leader
     \/ /\ \A t \in Thread : pc'[<<e, t>>] = "gone" /\ buf'[<<e, t>>] = NoDoc
        /\ leader' = leader \ {e}

LEMMA InitStops == Init /\ CliRuns = 0 => SInv
<1> SUFFICES ASSUME Init, CliRuns = 0 PROVE SInv
  OBVIOUS
<1>1. \A e \in Engine, t \in Thread : pc[<<e, t>>] \in {"none", "off"} /\ buf[<<e, t>>] = NoDoc
  BY ProcType DEF Init
<1>2. \A e \in Engine : ~Up(e)
  BY ProcType DEF Init, Up
<1>3. pc[Dash] = "idle"
  BY ProcType DEF Init
<1> QED BY <1>1, <1>2, <1>3 DEF Init, SInv, AllLead, NoneLeft, GoneIsGone, QuietIsIdle

\* A process that exits takes all its threads along.
LEMMA ExitFrame ==
  ASSUME TInv, NEW e \in Engine, Up(e), Exit(e), quiet' = quiet, spawning' = spawning, left' = left
  PROVE  EngineFrame(e)
<1>1. \A f \in Engine, t \in Thread : <<f, t>> \in Proc /\ <<f, t>> # Dash /\ <<f, t>>[1] = f
  BY ProcType
<1> QED BY <1>1, ProcType DEF TInv, TypeOK, Exit, Gone, EngineFrame

LEMMA StartFrame ==
  ASSUME TInv, GoneIsGone, NEW e \in Engine, Start(e)
  PROVE  EngineFrame(e)
<1> USE ProcType DEF TInv, TypeOK, At, Goto, Put, EngineFrame, Up, Main, history, engineVars
<1>0. Thread = {"main", "passive", "active", "port"} /\ "main" \in Thread
  BY DEF Thread
<1>1. pc[<<e, "main">>] \notin {"none", "off", "gone"} \/ buf[<<e, "main">>] # NoDoc => Up(e)
  BY <1>0 DEF GoneIsGone
<1>2. CASE NothingToResume(e)
  BY <1>0, <1>1, <1>2, ExitFrame DEF NothingToResume
<1>3. CASE WriteRunPid(e)
  BY <1>0, <1>1, <1>3 DEF WriteRunPid
<1>4. CASE NewRunState(e)
  BY <1>0, <1>1, <1>4 DEF NewRunState
<1>5. CASE InitState(e)
  BY <1>0, <1>1, <1>5 DEF InitState
<1>6. CASE BeginRun(e)
  BY <1>0, <1>1, <1>6 DEF BeginRun
<1>7. CASE StartCheck(e)
  <2>1. PICK l \in {"fsList", "reset", "fcCheck"} : pc' = [pc EXCEPT ![Main(e)] = l]
    BY <1>7 DEF StartCheck
  <2> QED BY <1>0, <1>1, <1>7, <2>1 DEF StartCheck
<1>8. CASE LoadPauses(e)
  BY <1>0, <1>1, <1>8 DEF LoadPauses
<1>9. CASE ResetOne(e)
  BY <1>0, <1>1, <1>9 DEF ResetOne
<1>10. CASE ResetAll(e)
  BY <1>0, <1>1, <1>10 DEF ResetAll
<1>11. CASE Fork(e)
  BY <1>0, <1>1, <1>11 DEF Fork
<1> QED BY <1>2, <1>3, <1>4, <1>5, <1>6, <1>7, <1>8, <1>9, <1>10, <1>11 DEF Start

LEMMA StepFrame ==
  ASSUME TInv, GoneIsGone, NEW e \in Engine, NEW t \in Thread, Step(e, t)
  PROVE  EngineFrame(e)
<1> USE ProcType DEF TInv, TypeOK, At, Goto, Put, EngineFrame, Up, history, engineVars
<1>0. Thread = {"main", "passive", "active", "port"} /\ "main" \in Thread
  BY DEF Thread
<1>1. pc[<<e, t>>] \notin {"none", "off", "gone"} \/ buf[<<e, t>>] # NoDoc => Up(e)
  BY <1>0 DEF GoneIsGone
<1>2. CASE Snapshot(e, t)
  BY <1>0, <1>1, <1>2 DEF Snapshot
<1>3. CASE CheckStop(e, t)
  <2>1. PICK l \in {"fsList", "joinPort", "stopped"} : pc' = [pc EXCEPT ![<<e, t>>] = l]
    BY <1>3 DEF CheckStop
  <2> QED BY <1>0, <1>1, <1>3, <2>1 DEF CheckStop
<1>4. CASE CheckSkip(e, t)
  <2>1. PICK l \in {"check", "release"} : pc' = [pc EXCEPT ![<<e, t>>] = l]
    BY <1>4 DEF CheckSkip
  <2> QED BY <1>0, <1>1, <1>4, <2>1 DEF CheckSkip
<1>5. CASE Release(e, t)
  BY <1>0, <1>1, <1>5 DEF Release
<1>6. CASE BudgetSpent(e, t)
  BY <1>0, <1>1, <1>6 DEF BudgetSpent
<1>7. CASE GuardRun(e, t)
  <2>1. PICK l \in {"work", "setRun"} : pc' = [pc EXCEPT ![<<e, t>>] = l]
    BY <1>7 DEF GuardRun
  <2> QED BY <1>0, <1>1, <1>7, <2>1 DEF GuardRun
<1>8. CASE SetRunning(e, t)
  BY <1>0, <1>1, <1>8 DEF SetRunning
<1>9. CASE Launch(e, t)
  BY <1>0, <1>1, <1>9 DEF Launch
<1>10. CASE ToolEnds(e, t)
  <2>1. PICK l \in {"check2", "guardDone", "setFail", "setEmpty"} : pc' = [pc EXCEPT ![<<e, t>>] = l]
    BY <1>10 DEF ToolEnds, Ends, Outcomes, Returned
  <2> QED BY <1>0, <1>1, <1>10, <2>1 DEF ToolEnds, Ends
<1>11. CASE ToolTrips(e, t)
  <2>1. PICK l \in {"check2", "guardDone", "setFail", "setEmpty"} : pc' = [pc EXCEPT ![<<e, t>>] = l]
    BY <1>11 DEF ToolTrips, Ends, Outcomes, Returned
  <2> QED BY <1>0, <1>1, <1>11, <2>1 DEF ToolTrips, Ends
<1>12. CASE WorkNoTool(e, t)
  <2>1. PICK l \in {"check2", "guardDone", "setFail", "setEmpty"} : pc' = [pc EXCEPT ![<<e, t>>] = l]
    BY <1>12 DEF WorkNoTool, Ends, Outcomes, Returned
  <2> QED BY <1>0, <1>1, <1>12, <2>1 DEF WorkNoTool, Ends
<1>13. CASE CheckAgain(e, t)
  <2>1. PICK l \in {"stopFail", "guardDone"} : pc' = [pc EXCEPT ![<<e, t>>] = l]
    BY <1>13 DEF CheckAgain
  <2> QED BY <1>0, <1>1, <1>13, <2>1 DEF CheckAgain
<1>14. CASE StopFails(e, t)
  <2>1. PICK l \in {"joinPort", "stopped"} : pc' = [pc EXCEPT ![<<e, t>>] = l]
    BY <1>14 DEF StopFails
  <2> QED BY SMTT(30), <1>0, <1>1, <1>14, <2>1 DEF StopFails
<1>15. CASE GuardDone(e, t)
  <2>1. PICK l \in {"setLate", "setDone"} : pc' = [pc EXCEPT ![<<e, t>>] = l]
    BY <1>15 DEF GuardDone
  <2> QED BY <1>0, <1>1, <1>15, <2>1 DEF GuardDone
<1>16. CASE SetDone(e, t)
  BY <1>0, <1>1, <1>16 DEF SetDone
<1>17. CASE IngestLive(e, t)
  BY ZenonT(60), <1>0, <1>1, <1>17 DEF IngestLive
<1>18. CASE SetFailed(e, t)
  BY <1>0, <1>1, <1>18 DEF SetFailed
<1>19. CASE ThreadEnds(e, t)
  <2>1. PICK l \in {"classify", "joinPort", "ended"} : pc' = [pc EXCEPT ![<<e, t>>] = l]
    BY <1>19 DEF ThreadEnds
  <2> QED BY <1>0, <1>1, <1>19, <2>1 DEF ThreadEnds
<1> QED BY <1>2, <1>3, <1>4, <1>5, <1>6, <1>7, <1>8, <1>9, <1>10, <1>11, <1>12, <1>13, <1>14, <1>15, <1>16, <1>17, <1>18, <1>19 DEF Step

LEMMA RestFrame ==
  ASSUME TInv, GoneIsGone, NEW e \in Engine, Rest(e)
  PROVE  EngineFrame(e)
<1> USE ProcType DEF TInv, TypeOK, At, Goto, Put, EngineFrame, Up, Main, history, engineVars
<1>0. Thread = {"main", "passive", "active", "port"} /\ "main" \in Thread
  BY DEF Thread
<1>1. pc[<<e, "main">>] \notin {"none", "off", "gone"} \/ buf[<<e, "main">>] # NoDoc => Up(e)
  BY <1>0 DEF GoneIsGone
<1>2. CASE Join(e)
  <2>1. PICK l \in {"fsList", "check"} : pc' = [pc EXCEPT ![Main(e)] = l]
    BY <1>2 DEF Join
  <2> QED BY <1>0, <1>1, <1>2, <2>1 DEF Join
<1>3. CASE Raise(e)
  BY <1>0, <1>1, <1>3 DEF Raise
<1>4. CASE ClassifyStatus(e)
  <2>1. PICK l \in {"fsList", "final"} : pc' = [pc EXCEPT ![Main(e)] = l]
    BY <1>4 DEF ClassifyStatus
  <2> QED BY <1>0, <1>1, <1>4, <2>1 DEF ClassifyStatus
<1>5. CASE FinalCheck(e)
  <2>1. PICK l \in {"fsList", "setFinal", "record"} : pc' = [pc EXCEPT ![Main(e)] = l]
    BY <1>5 DEF FinalCheck
  <2> QED BY SMTT(30), <1>0, <1>1, <1>5, <2>1 DEF FinalCheck
<1>6. CASE SetVerdict(e)
  BY <1>0, <1>1, <1>6 DEF SetVerdict
<1>7. CASE Record(e)
  BY <1>0, <1>1, <1>7, ExitFrame DEF Record
<1>8. CASE ListRunning(e)
  <2>1. PICK l \in {"fsEach", "fcEach"} : pc' = [pc EXCEPT ![Main(e)] = l]
    BY <1>8 DEF ListRunning
  <2> QED BY SMTT(30), <1>0, <1>1, <1>8, <2>1 DEF ListRunning
<1>9. CASE FailRunning(e)
  <2>1. PICK d : buf' = [buf EXCEPT ![Main(e)] = d]
    BY <1>9 DEF FailRunning, FailRow
  <2> QED BY <1>0, <1>1, <1>9, <2>1 DEF FailRunning
<1>10. CASE FinalizeStopped(e)
  BY <1>0, <1>1, <1>10 DEF FinalizeStopped
<1>11. CASE CrashCheck(e)
  <2>1. PICK l \in {"fcClear", "fcList"} : pc' = [pc EXCEPT ![Main(e)] = l]
    BY <1>11 DEF CrashCheck
  <2> QED BY <1>0, <1>1, <1>11, <2>1 DEF CrashCheck
<1>12. CASE FinalizeCrash(e)
  BY <1>0, <1>1, <1>12 DEF FinalizeCrash
<1>13. CASE ClearPid(e)
  <2>1. CASE Exit(e)
    BY <1>0, <1>1, <1>13, <2>1, ExitFrame DEF ClearPid
  <2>2. CASE At(Main(e), "fsClear") /\ Goto(Main(e), "fsRecord")
             /\ UNCHANGED <<idx, buf, todo, seen, engineVars>>
    BY <1>0, <1>1, <1>13, <2>2 DEF ClearPid
  <2> QED BY <1>13, <2>1, <2>2 DEF ClearPid
<1>14. CASE RecordStopped(e)
  BY <1>0, <1>1, <1>14, ExitFrame DEF RecordStopped
<1> QED BY <1>2, <1>3, <1>4, <1>5, <1>6, <1>7, <1>8, <1>9, <1>10, <1>11, <1>12, <1>13, <1>14 DEF Rest

LEMMA ThreadFrame ==
  ASSUME TInv, GoneIsGone, NEW e \in Engine, NEW t \in Thread, ThreadNext(e, t)
  PROVE  EngineFrame(e)
<1> USE ProcType DEF TInv, TypeOK, At, Goto, Put, EngineFrame, Up, history, engineVars
<1>0. Thread = {"main", "passive", "active", "port"} /\ "main" \in Thread
  BY DEF Thread
<1>1. pc[<<e, t>>] \notin {"none", "off", "gone"} \/ buf[<<e, t>>] # NoDoc => Up(e)
  BY <1>0 DEF GoneIsGone
<1>2. CASE Save(<<e, t>>)
  BY <1>0, <1>1, <1>2 DEF Save
<1>3. CASE ForkPort(e) /\ t = "active"
  BY <1>0, <1>1, <1>3 DEF ForkPort
<1>4. CASE JoinPort(e) /\ t = "active"
  <2>1. PICK l \in {"ended", "stopped"} : pc' = [pc EXCEPT ![<<e, "active">>] = l]
    BY <1>4 DEF JoinPort
  <2> QED BY <1>0, <1>1, <1>4, <2>1 DEF JoinPort
<1>5. Step(e, t) \/ Start(e) \/ Rest(e) => EngineFrame(e)
  BY StepFrame, StartFrame, RestFrame
<1> QED BY <1>2, <1>3, <1>4, <1>5 DEF ThreadNext

LEMMA ThreadStops ==
  ASSUME TInv, SInv, NEW e \in Engine, EngineFrame(e)
  PROVE  SInv'
<1> USE ProcType DEF SInv, EngineFrame, Up, Main
<1>0. "main" \in Thread
  BY DEF Thread
<1>1. AllLead'
  BY <1>0 DEF AllLead
<1>2. NoneLeft'
  BY DEF NoneLeft
<1>3. GoneIsGone'
  BY <1>0 DEF GoneIsGone
<1>4. QuietIsIdle'
  BY DEF QuietIsIdle
<1> QED BY <1>1, <1>2, <1>3, <1>4

LEMMA DieStops ==
  ASSUME TInv, SInv, NEW e \in Engine, Die(e)
  PROVE  SInv'
<1> USE ProcType DEF SInv, Up, Main
<1>0. \A f \in Engine, t \in Thread : <<f, t>> \in Proc /\ <<f, t>> # Dash /\ <<f, t>>[1] = f
  BY ProcType
<1>1. /\ \A t \in Thread : pc'[<<e, t>>] = "gone" /\ buf'[<<e, t>>] = NoDoc
      /\ \A f \in Engine \ {e}, t \in Thread :
           pc'[<<f, t>>] = pc[<<f, t>>] /\ buf'[<<f, t>>] = buf[<<f, t>>]
      /\ pc'[Dash] = pc[Dash] /\ leader' = leader \ {e}
      /\ left'.cli = left.cli /\ quiet' = quiet /\ Up(e)
  BY <1>0 DEF Die, Exit, Gone, TInv, TypeOK
<1>2. "main" \in Thread
  BY DEF Thread
<1> HIDE DEF Die
<1>3. AllLead'
  BY <1>1, <1>2 DEF AllLead
<1>4. NoneLeft'
  BY <1>1, <1>2 DEF NoneLeft
<1>5. GoneIsGone'
  BY <1>1, <1>2 DEF GoneIsGone
<1>6. QuietIsIdle'
  BY <1>1, <1>2 DEF QuietIsIdle
<1> QED BY <1>1, <1>3, <1>4, <1>5, <1>6

\* A new engine is the only one when STOP is through, and leads its group.
LEMMA SpawnStops ==
  ASSUME TInv, SInv, NEW f \in Engine, NEW fresh \in BOOLEAN, Spawn(f, fresh),
         buf' = buf, quiet' = FALSE, left'.cli = left.cli
  PROVE  SInv'
<1> USE ProcType DEF SInv, Up, Main
<1>1. "main" \in Thread
  BY DEF Thread
<1>2. /\ pc' = [pc EXCEPT ![<<f, "main">>] = "boot", ![Dash] = "putPid"]
      /\ leader' = leader \cup {f}
  BY DEF Spawn
<1>3. /\ pc'[<<f, "main">>] = "boot" /\ pc'[Dash] = "putPid"
      /\ \A g \in Engine, t \in Thread : <<g, t>> # <<f, "main">> => pc'[<<g, t>>] = pc[<<g, t>>]
  BY <1>2 DEF TInv, TypeOK
<1>4. AllLead'
  BY <1>1, <1>2, <1>3 DEF AllLead
<1>5. NoneLeft' /\ QuietIsIdle'
  BY <1>3 DEF NoneLeft, QuietIsIdle
<1>6. GoneIsGone'
  BY <1>1, <1>3 DEF GoneIsGone
<1> QED BY <1>4, <1>5, <1>6

\* The kill reaches every engine, for every one leads its group.
LEMMA KillStops ==
  ASSUME TInv, SInv, StopKill
  PROVE  SInv' /\ \A e \in Engine : ~Up(e)'
<1> USE ProcType DEF SInv, Up, Main
<1>0. \A f \in Engine, t \in Thread : <<f, t>> \in Proc /\ <<f, t>> # Dash /\ <<f, t>>[1] = f
  BY ProcType
<1> DEFINE es == {e \in leader : Up(e)}
<1>1. \A e \in Engine : Up(e) <=> e \in es
  BY DEF AllLead, TInv, TypeOK
<1>2. Gone(es, "clear") /\ quiet' = quiet /\ left' = left /\ cont' = cont /\ pc[Dash] = "each"
  BY DEF StopKill, At, history
<1>3. /\ pc'[Dash] = "clear"
      /\ \A f \in Engine, t \in Thread :
           /\ pc'[<<f, t>>] = IF f \in es THEN "gone" ELSE pc[<<f, t>>]
           /\ buf'[<<f, t>>] = IF f \in es THEN NoDoc ELSE buf[<<f, t>>]
  <2> HIDE DEF es
  <2> QED BY <1>0, <1>2 DEF Gone, TInv, TypeOK
<1>4. "main" \in Thread
  BY DEF Thread
<1>5. \A e \in Engine : ~Up(e)'
  BY <1>1, <1>3, <1>4
<1>6. GoneIsGone'
  BY <1>1, <1>3, <1>4, <1>5 DEF GoneIsGone
<1>7. AllLead' /\ NoneLeft' /\ QuietIsIdle'
  BY <1>2, <1>3, <1>5 DEF AllLead, NoneLeft, QuietIsIdle
<1> QED BY <1>2, <1>5, <1>6, <1>7

LEMMA DashStops ==
  ASSUME TInv, SInv,
         StartRun \/ Refuse \/ StopRun \/ ResetLimiter \/ PutPid \/ StopList \/ StopFailRow
         \/ StopClear \/ StopContainers \/ Save(Dash)
  PROVE  SInv'
<1> USE ProcType DEF SInv, Up, Main, At, Goto, Put, history, engineVars
<1>0. \A f \in Engine, t \in Thread : <<f, t>> \in Proc /\ <<f, t>> # Dash
  BY ProcType
<1>1. ASSUME leader' = leader, left'.cli = left.cli, quiet' = quiet \/ ~quiet',
             \A f \in Engine, t \in Thread :
               pc'[<<f, t>>] = pc[<<f, t>>] /\ buf'[<<f, t>>] = buf[<<f, t>>],
             pc'[Dash] \in {"clear", "docker"} => pc[Dash] \in {"clear", "docker"},
             quiet' => pc'[Dash] = "idle" /\ cont' = cont
      PROVE  SInv'
  <2>1. "main" \in Thread
    BY DEF Thread
  <2>2. \A e \in Engine : Up(e)' <=> Up(e)
    BY <1>1, <2>1
  <2>3. AllLead' /\ NoneLeft' /\ GoneIsGone'
    BY <1>1, <2>2 DEF AllLead, NoneLeft, GoneIsGone
  <2>4. QuietIsIdle'
    BY <1>1, <2>2 DEF QuietIsIdle
  <2> QED BY <1>1, <2>3, <2>4
<1>2. CASE StartRun
  <2>1. PICK f \in Engine, fresh \in BOOLEAN : Spawn(f, fresh)
    BY <1>2 DEF StartRun
  <2>2. buf' = buf /\ quiet' = FALSE /\ left'.cli = left.cli
    BY <1>2 DEF StartRun, Asks, TInv, TypeOK
  <2> QED BY <2>1, <2>2, SpawnStops
<1>3. CASE Refuse
  BY <1>1, <1>3 DEF Refuse, Asks, TInv, TypeOK, QuietIsIdle
<1>4. CASE StopRun
  <2>1. /\ pc' = [pc EXCEPT ![Dash] = "list"] /\ leader' = leader /\ quiet' = FALSE
        /\ left'.cli = left.cli
    BY <1>4 DEF StopRun, Asks, TInv, TypeOK
  <2>2. \A f \in Engine, t \in Thread :
          pc'[<<f, t>>] = pc[<<f, t>>] /\ buf'[<<f, t>>] = buf[<<f, t>>]
    BY <1>0, <1>4 DEF StopRun, Asks, TInv, TypeOK
  <2>3. pc'[Dash] = "list"
    BY <2>1 DEF TInv, TypeOK
  <2> QED BY <1>1, <2>1, <2>2, <2>3
<1>5. CASE ResetLimiter
  <2>1. \A f \in Engine, t \in Thread : buf'[<<f, t>>] = buf[<<f, t>>]
    BY <1>0, <1>5 DEF ResetLimiter, TInv, TypeOK
  <2> QED BY <1>1, <1>5, <2>1 DEF ResetLimiter, Asks, TInv, TypeOK, QuietIsIdle
<1>6. CASE PutPid
  BY <1>0, <1>1, <1>6 DEF PutPid, TInv, TypeOK, QuietIsIdle
<1>7. CASE StopList
  BY <1>0, <1>1, <1>7 DEF StopList, TInv, TypeOK, QuietIsIdle
<1>8. CASE StopFailRow
  <2>1. PICK d : buf' = [buf EXCEPT ![Dash] = d]
    BY <1>8 DEF StopFailRow, FailRow
  <2>2. \A f \in Engine, t \in Thread : buf'[<<f, t>>] = buf[<<f, t>>]
    BY <1>0, <2>1 DEF TInv, TypeOK
  <2> QED BY <1>1, <1>8, <2>2 DEF StopFailRow, QuietIsIdle
<1>9. CASE StopClear
  BY <1>0, <1>1, <1>9 DEF StopClear, TInv, TypeOK, QuietIsIdle
<1>10. CASE StopContainers
  <2>1. pc[Dash] = "docker" /\ buf' = buf /\ left' = left /\ cont' = {}
        /\ \A e \in Engine : ~Up(e)
    BY <1>10 DEF StopContainers, NoneLeft
  <2>2. CASE spawning = NoEngine
    <3>1. pc' = [pc EXCEPT ![Dash] = "idle"] /\ leader' = leader
      BY <1>10, <2>2 DEF StopContainers
    <3>2. pc'[Dash] = "idle" /\ \A f \in Engine, t \in Thread : pc'[<<f, t>>] = pc[<<f, t>>]
      BY <1>0, <3>1 DEF TInv, TypeOK
    <3>3. \A e \in Engine : ~Up(e)'
      BY <2>1, <3>2 DEF Thread
    <3>4. AllLead' /\ NoneLeft' /\ QuietIsIdle'
      BY <2>1, <3>2, <3>3 DEF AllLead, NoneLeft, QuietIsIdle
    <3>5. GoneIsGone'
      BY <2>1, <3>2, <3>3 DEF GoneIsGone
    <3> QED BY <2>1, <3>4, <3>5
  <2>3. CASE spawning # NoEngine
    <3>1. spawning \in Engine /\ Spawn(spawning, TRUE) /\ quiet' = quiet
      BY <1>10, <2>3 DEF StopContainers, TInv, TypeOK
    <3>2. quiet' = FALSE
      BY <2>1, <3>1 DEF QuietIsIdle, TInv, TypeOK
    <3> QED BY <2>1, <3>1, <3>2, SpawnStops
  <2> QED BY <2>2, <2>3
<1>11. CASE Save(Dash)
  <2>1. \A f \in Engine, t \in Thread : buf'[<<f, t>>] = buf[<<f, t>>]
    BY <1>0, <1>11 DEF Save, TInv, TypeOK
  <2> QED BY <1>1, <1>11, <2>1 DEF Save, QuietIsIdle
<1> QED BY <1>2, <1>3, <1>4, <1>5, <1>6, <1>7, <1>8, <1>9, <1>10, <1>11

LEMMA StopsInductive == ASSUME CliRuns = 0 PROVE Spec => [](TInv /\ SInv)
<1>1. TInv /\ SInv /\ [Next]_vars => SInv'
  <2> SUFFICES ASSUME TInv, SInv, [Next]_vars PROVE SInv'
    OBVIOUS
  <2>1. ASSUME NEW e \in Engine, NEW t \in Thread, ThreadNext(e, t) PROVE SInv'
    BY <2>1, ThreadFrame, ThreadStops DEF SInv
  <2>2. CASE Serve
    BY <2>2, DashStops, KillStops DEF Serve
  <2>3. CASE Request
    BY <2>3, DashStops DEF Request
  <2>4. ASSUME NEW e \in Engine, CliRun(e) PROVE FALSE
    BY <2>4 DEF CliRun, SInv
  <2>5. ASSUME NEW e \in Engine, Die(e) PROVE SInv'
    BY <2>5, DieStops
  <2>6. CASE UNCHANGED vars
    BY <2>6 DEF vars, engineVars, history, SInv, AllLead, NoneLeft, GoneIsGone, QuietIsIdle,
                Up, Main
  <2> QED BY <2>1, <2>2, <2>3, <2>4, <2>5, <2>6 DEF Next
<1>2. Init => SInv
  BY InitStops
<1> QED BY <1>1, <1>2, TypesInductive, PTL DEF Spec

\* When STOP has returned nothing of the run is left, for any ladder, engines and
\* requests, as long as every engine was spawned by the dashboard (the run
\* shell_stop shows that it is not so for one started from a shell).
THEOREM StopLeaves == ASSUME CliRuns = 0 PROVE Spec => []StopLeavesNothing
<1>1. SInv => StopLeavesNothing
  BY DEF SInv, QuietIsIdle, StopLeavesNothing
<1> QED BY <1>1, StopsInductive, PTL

-----------------------------------------------------------------------------
(***************************************************************************)
(* One engine. run.pid is cleared by an engine that finds its run        *)
(* stopped; were it to do so at any other time, START would be let through *)
(* beside it.  So the invariant follows the stop: unless the dashboard is  *)
(* serving one, an engine past its first status finds no stop, because the *)
(* engine itself replaced the one a former run left, and no document any   *)
(* of its threads is about to save says stopped.                           *)
(***************************************************************************)
EarlyPc == {"boot", "init", "begin", "stop0"}
StopPc == {"fsList", "fsEach", "fsClear", "fsRecord"}

Early(e) ==
  pc[Main(e)] \in EarlyPc =>
    \A t \in Thread \ {"main"} :
      pc[<<e, t>>] \in {"none", "off", "gone"} /\ buf[<<e, t>>] = NoDoc

NoStop(d) == d = NoDoc \/ d.run # "stopped"

Unstopped(e) ==
  /\ pc[Main(e)] \notin StopPc
  /\ \A t \in Thread : NoStop(buf[<<e, t>>])
  /\ \/ pc[Main(e)] \in {"boot", "init"}
     \/ pc[Main(e)] = "begin" /\ (e \in resume \/ buf[Main(e)] # NoDoc)
     \/ pc[Main(e)] = "stop0" /\ buf[Main(e)] # NoDoc
     \/ ~Stopped

\* What a step of an unstopped engine leaves behind.
StaysUnstopped(e) ==
  /\ Early(e)' /\ verdict'[e] # "stopped"
  /\ \/ Unstopped(e)' /\ pidfile' \in {pidfile, e}
     \/ ~Up(e)'

LEMMA RunOf ==
  ASSUME NEW doc \in Doc
  PROVE  /\ \A s : WithRun(doc, s).run = s
         /\ \A m, s : WithRow(doc, m, s).run = doc.run
         /\ \A m : PersistPause(doc, m).run = "anomaly"
         /\ \A m : ClearModulePause(doc, m).run = doc.run
         /\ ClearPauses(doc).run = IF doc.run = "anomaly" THEN "completed" ELSE doc.run
         /\ StampLive(doc).run = doc.run
         /\ NewRun(doc).run = "running"
         /\ EmptyState.run = "running"
BY DEF Doc, WithRun, WithRow, PersistPause, ClearModulePause, ClearPauses, StampLive, NewRun,
       EmptyState

\* No document made from one that is not stopped says stopped, but
\* _finalize_stopped's.
LEMMA NoStopDocs ==
  ASSUME TInv, ~Stopped
  PROVE  /\ \A m, s : NoStop(WithRow(Loaded, m, s))
         /\ \A m : NoStop(PersistPause(Loaded, m)) /\ NoStop(ClearModulePause(Loaded, m))
         /\ NoStop(ClearPauses(Loaded)) /\ NoStop(StampLive(Loaded)) /\ NoStop(NoDoc)
         /\ \A s : s # "stopped" => NoStop(WithRun(Loaded, s))
<1>1. Loaded \in Doc /\ Loaded.run # "stopped"
  BY LoadType DEF TInv, TypeOK, Loaded, Stopped, OperatorStopped
<1> QED BY <1>1, RunOf DEF NoStop

\* A thread past the start of its engine moves and may load and change a document.
LEMMA Moves ==
  ASSUME TInv, NEW e \in Engine, NEW t \in Thread, Unstopped(e),
         t = "main" \/ pc[Main(e)] \notin EarlyPc, ~Stopped,
         NEW l \in Pc \ (EarlyPc \cup StopPc), NEW d, NoStop(d),
         pc' = [pc EXCEPT ![<<e, t>>] = l], buf' = [buf EXCEPT ![<<e, t>>] = d],
         disk' = disk
  PROVE  Unstopped(e)' /\ Early(e)'
<1>1. \A u \in Thread : <<e, u>> \in Proc
  BY ProcType
<1>2. Main(e) = <<e, "main">> /\ "main" \in Thread
  BY DEF Main, Thread
<1>3. \A u \in Thread : /\ pc'[<<e, u>>] = IF u = t THEN l ELSE pc[<<e, u>>]
                        /\ buf'[<<e, u>>] = IF u = t THEN d ELSE buf[<<e, u>>]
  BY <1>1 DEF TInv, TypeOK
<1>4. ~Stopped'
  BY DEF Stopped
<1>5. pc'[Main(e)] \notin EarlyPc \cup StopPc
  BY <1>2, <1>3 DEF Unstopped
<1>6. \A u \in Thread : NoStop(buf'[<<e, u>>])
  BY <1>3 DEF Unstopped
<1> QED BY <1>2, <1>4, <1>5, <1>6 DEF Unstopped, Early, NoStop, Main

LEMMA StepUnstopped ==
  ASSUME TInv, NEW e \in Engine, NEW t \in Thread, Early(e), Unstopped(e),
         verdict[e] # "stopped", Step(e, t)
  PROVE  StaysUnstopped(e)
<1> USE ProcType DEF At, Goto, Put, Main, engineVars, history
<1>00. pc[<<e, t>>] \in StagePc \cup {"snap"}
  BY DEF Step, Snapshot, CheckStop, CheckSkip, Release, BudgetSpent, GuardRun, SetRunning, Launch, ToolEnds, ToolTrips, WorkNoTool, CheckAgain, StopFails, GuardDone, SetDone, IngestLive, SetFailed, ThreadEnds, StagePc
<1>0. ~Stopped /\ pc[Main(e)] \notin EarlyPc /\ verdict[e] # "stopped"
  BY <1>00 DEF Early, Unstopped, EarlyPc, StagePc
<1>1. \A d \in {NoDoc, ClearModulePause(Loaded, Current(<<e, t>>)), StampLive(Loaded),
               PersistPause(Loaded, Current(<<e, t>>)),
               WithRow(Loaded, Current(<<e, t>>), "running"),
               WithRow(Loaded, Current(<<e, t>>), "done"),
               WithRow(Loaded, Current(<<e, t>>), "failed")} : NoStop(d)
  BY <1>0, NoStopDocs
<1>2. CASE Snapshot(e, t)
  <2>1. \E l \in {"check"}, d \in {NoDoc} :
          pc' = [pc EXCEPT ![<<e, t>>] = l] /\ buf' = [buf EXCEPT ![<<e, t>>] = d]
    BY <1>0, <1>2 DEF Snapshot, TInv, TypeOK
  <2> QED BY <1>0, <1>1, <1>2, <2>1, Moves, Labels DEF Snapshot, EarlyPc, StopPc, StaysUnstopped
<1>3. CASE CheckStop(e, t)
  BY <1>0, <1>3 DEF CheckStop
<1>4. CASE CheckSkip(e, t)
  <2>1. \E l \in {"check", "release"}, d \in {NoDoc} :
          pc' = [pc EXCEPT ![<<e, t>>] = l] /\ buf' = [buf EXCEPT ![<<e, t>>] = d]
    BY <1>0, <1>4 DEF CheckSkip, TInv, TypeOK
  <2>2. disk' = disk /\ pidfile' = pidfile /\ verdict' = verdict
    BY <1>4 DEF CheckSkip
  <2> QED BY <1>0, <1>1, <2>1, <2>2, Moves, Labels DEF EarlyPc, StopPc, StaysUnstopped
<1>5. CASE Release(e, t)
  <2>1. \E l \in {"guardRun"}, d \in {NoDoc, ClearModulePause(Loaded, Current(<<e, t>>))} :
          pc' = [pc EXCEPT ![<<e, t>>] = l] /\ buf' = [buf EXCEPT ![<<e, t>>] = d]
    BY <1>0, <1>5 DEF Release, TInv, TypeOK
  <2> QED BY <1>0, <1>1, <1>5, <2>1, Moves, Labels DEF Release, EarlyPc, StopPc, StaysUnstopped
<1>6. CASE BudgetSpent(e, t)
  <2>1. \E l \in {"check"}, d \in {NoDoc} :
          pc' = [pc EXCEPT ![<<e, t>>] = l] /\ buf' = [buf EXCEPT ![<<e, t>>] = d]
    BY <1>0, <1>6 DEF BudgetSpent, TInv, TypeOK
  <2> QED BY <1>0, <1>1, <1>6, <2>1, Moves, Labels DEF BudgetSpent, EarlyPc, StopPc, StaysUnstopped
<1>7. CASE GuardRun(e, t)
  <2>1. \E l \in {"work", "setRun"}, d \in {NoDoc} :
          pc' = [pc EXCEPT ![<<e, t>>] = l] /\ buf' = [buf EXCEPT ![<<e, t>>] = d]
    BY <1>0, <1>7 DEF GuardRun, TInv, TypeOK
  <2> QED BY <1>0, <1>1, <1>7, <2>1, Moves, Labels DEF GuardRun, EarlyPc, StopPc, StaysUnstopped
<1>8. CASE SetRunning(e, t)
  <2>1. \E l \in {"work"}, d \in {WithRow(Loaded, Current(<<e, t>>), "running")} :
          pc' = [pc EXCEPT ![<<e, t>>] = l] /\ buf' = [buf EXCEPT ![<<e, t>>] = d]
    BY <1>0, <1>8 DEF SetRunning, TInv, TypeOK
  <2> QED BY <1>0, <1>1, <1>8, <2>1, Moves, Labels DEF SetRunning, EarlyPc, StopPc, StaysUnstopped
<1>9. CASE Launch(e, t)
  <2>1. \E l \in {"tool"}, d \in {NoDoc} :
          pc' = [pc EXCEPT ![<<e, t>>] = l] /\ buf' = [buf EXCEPT ![<<e, t>>] = d]
    BY <1>0, <1>9 DEF Launch, TInv, TypeOK
  <2> QED BY <1>0, <1>1, <1>9, <2>1, Moves, Labels DEF Launch, EarlyPc, StopPc, StaysUnstopped
<1>10. CASE ToolEnds(e, t)
  <2>1. \E l \in {"check2", "guardDone", "setFail", "setEmpty"}, d \in {NoDoc} :
          pc' = [pc EXCEPT ![<<e, t>>] = l] /\ buf' = [buf EXCEPT ![<<e, t>>] = d]
    BY <1>0, <1>10 DEF ToolEnds, TInv, TypeOK, Ends, Outcomes, Returned
  <2>2. disk' = disk /\ pidfile' = pidfile /\ verdict' = verdict
    BY <1>10 DEF ToolEnds
  <2> QED BY <1>0, <1>1, <2>1, <2>2, Moves, Labels DEF EarlyPc, StopPc, StaysUnstopped
<1>11. CASE ToolTrips(e, t)
  <2>1. \E l \in {"check2", "guardDone", "setFail", "setEmpty"}, d \in {PersistPause(Loaded, Current(<<e, t>>))} :
          pc' = [pc EXCEPT ![<<e, t>>] = l] /\ buf' = [buf EXCEPT ![<<e, t>>] = d]
    BY <1>0, <1>11 DEF ToolTrips, TInv, TypeOK, Ends, Outcomes, Returned
  <2> QED BY <1>0, <1>1, <1>11, <2>1, Moves, Labels DEF ToolTrips, EarlyPc, StopPc, StaysUnstopped
<1>12. CASE WorkNoTool(e, t)
  <2>1. \E l \in {"check2", "guardDone", "setFail", "setEmpty"}, d \in {NoDoc} :
          pc' = [pc EXCEPT ![<<e, t>>] = l] /\ buf' = [buf EXCEPT ![<<e, t>>] = d]
    BY <1>0, <1>12 DEF WorkNoTool, TInv, TypeOK, Ends, Outcomes, Returned
  <2>2. disk' = disk /\ pidfile' = pidfile /\ verdict' = verdict
    BY <1>12 DEF WorkNoTool
  <2> QED BY <1>0, <1>1, <2>1, <2>2, Moves, Labels DEF EarlyPc, StopPc, StaysUnstopped
<1>13. CASE CheckAgain(e, t)
  <2>1. \E l \in {"stopFail", "guardDone"}, d \in {NoDoc} :
          pc' = [pc EXCEPT ![<<e, t>>] = l] /\ buf' = [buf EXCEPT ![<<e, t>>] = d]
    BY <1>0, <1>13 DEF CheckAgain, TInv, TypeOK
  <2> QED BY <1>0, <1>1, <1>13, <2>1, Moves, Labels DEF CheckAgain, EarlyPc, StopPc, StaysUnstopped
<1>14. CASE StopFails(e, t)
  <2>1. \E l \in {"joinPort", "stopped"}, d \in {WithRow(Loaded, Current(<<e, t>>), "failed")} :
          pc' = [pc EXCEPT ![<<e, t>>] = l] /\ buf' = [buf EXCEPT ![<<e, t>>] = d]
    BY <1>0, <1>14 DEF StopFails, TInv, TypeOK
  <2> QED BY <1>0, <1>1, <1>14, <2>1, Moves, Labels DEF StopFails, EarlyPc, StopPc, StaysUnstopped
<1>15. CASE GuardDone(e, t)
  <2>1. \E l \in {"setLate", "setDone"}, d \in {NoDoc} :
          pc' = [pc EXCEPT ![<<e, t>>] = l] /\ buf' = [buf EXCEPT ![<<e, t>>] = d]
    BY <1>0, <1>15 DEF GuardDone, TInv, TypeOK
  <2> QED BY <1>0, <1>1, <1>15, <2>1, Moves, Labels DEF GuardDone, EarlyPc, StopPc, StaysUnstopped
<1>16. CASE SetDone(e, t)
  <2>1. \E l \in {"live"}, d \in {WithRow(Loaded, Current(<<e, t>>), "done"), WithRow(Loaded, Current(<<e, t>>), "failed")} :
          pc' = [pc EXCEPT ![<<e, t>>] = l] /\ buf' = [buf EXCEPT ![<<e, t>>] = d]
    BY <1>0, <1>16 DEF SetDone, TInv, TypeOK
  <2> QED BY <1>0, <1>1, <1>16, <2>1, Moves, Labels DEF SetDone, EarlyPc, StopPc, StaysUnstopped
<1>17. CASE IngestLive(e, t)
  <2>1. \E l \in {"check"}, d \in {NoDoc, StampLive(Loaded)} :
          pc' = [pc EXCEPT ![<<e, t>>] = l] /\ buf' = [buf EXCEPT ![<<e, t>>] = d]
    BY <1>0, <1>17 DEF IngestLive, TInv, TypeOK
  <2> QED BY <1>0, <1>1, <1>17, <2>1, Moves, Labels DEF IngestLive, EarlyPc, StopPc, StaysUnstopped
<1>18. CASE SetFailed(e, t)
  <2>1. \E l \in {"check"}, d \in {WithRow(Loaded, Current(<<e, t>>), "failed")} :
          pc' = [pc EXCEPT ![<<e, t>>] = l] /\ buf' = [buf EXCEPT ![<<e, t>>] = d]
    BY <1>0, <1>18 DEF SetFailed, TInv, TypeOK
  <2> QED BY <1>0, <1>1, <1>18, <2>1, Moves, Labels DEF SetFailed, EarlyPc, StopPc, StaysUnstopped
<1>19. CASE ThreadEnds(e, t)
  <2>1. \E l \in {"classify", "joinPort", "ended"}, d \in {NoDoc} :
          pc' = [pc EXCEPT ![<<e, t>>] = l] /\ buf' = [buf EXCEPT ![<<e, t>>] = d]
    BY <1>0, <1>19 DEF ThreadEnds, TInv, TypeOK
  <2> QED BY <1>0, <1>1, <1>19, <2>1, Moves, Labels DEF ThreadEnds, EarlyPc, StopPc, StaysUnstopped
<1> QED BY <1>2, <1>3, <1>4, <1>5, <1>6, <1>7, <1>8, <1>9, <1>10, <1>11, <1>12, <1>13, <1>14, <1>15, <1>16, <1>17, <1>18, <1>19 DEF Step

\* The main thread before its stop check, when it is the only one.
LEMMA EarlyMoves ==
  ASSUME TInv, NEW e \in Engine, Early(e), pc[Main(e)] \in EarlyPc,
         NEW l \in EarlyPc, NEW d, NoStop(d),
         pc' = [pc EXCEPT ![Main(e)] = l], buf' = [buf EXCEPT ![Main(e)] = d],
         \/ l = "init"
         \/ l = "begin" /\ (e \in resume' \/ d # NoDoc)
         \/ l = "stop0" /\ d # NoDoc
  PROVE  Unstopped(e)' /\ Early(e)'
<1>1. \A u \in Thread : <<e, u>> \in Proc
  BY ProcType
<1>2. Main(e) = <<e, "main">> /\ "main" \in Thread
  BY DEF Main, Thread
<1>3. \A u \in Thread : /\ pc'[<<e, u>>] = IF u = "main" THEN l ELSE pc[<<e, u>>]
                        /\ buf'[<<e, u>>] = IF u = "main" THEN d ELSE buf[<<e, u>>]
  BY <1>1, <1>2 DEF TInv, TypeOK
<1>4. Early(e)'
  BY <1>2, <1>3 DEF Early
<1>5. \A u \in Thread : NoStop(buf'[<<e, u>>])
  BY <1>2, <1>3 DEF Early, NoStop
<1> QED BY <1>2, <1>3, <1>4, <1>5 DEF Unstopped, EarlyPc, StopPc, Main, NoStop

\* Whoever exits is not up, and leaves nothing behind.
LEMMA ExitUnstopped ==
  ASSUME TInv, NEW e \in Engine, Exit(e)
  PROVE  StaysUnstopped(e)
<1>1. Main(e) \in Proc /\ Main(e) # Dash /\ Main(e)[1] = e
  BY ProcType
<1>2. pc'[Main(e)] = "gone" /\ verdict'[e] = "running"
  BY <1>1 DEF Exit, Gone, TInv, TypeOK
<1> QED BY <1>2 DEF StaysUnstopped, Early, EarlyPc, Up, Main

LEMMA StartUnstopped ==
  ASSUME TInv, NEW e \in Engine, Early(e), Unstopped(e), verdict[e] # "stopped", Start(e)
  PROVE  StaysUnstopped(e)
<1> USE ProcType DEF At, Goto, Put, engineVars, history
<1>1. /\ Loaded \in Doc /\ disk \in Doc \cup {NoDoc} /\ EmptyState \in Doc /\ NoDoc \notin Doc
      /\ "main" \in Thread /\ "running" \in RunStatus
  BY LoadType, NoDocAssumption, Words DEF TInv, TypeOK, Loaded, Thread
<1>0. /\ \A d \in {NoDoc, EmptyState, NewRun(Loaded), WithRun(Loaded, "running")} : NoStop(d)
      /\ WithRun(Loaded, "running") # NoDoc /\ NewRun(Loaded) # NoDoc
  <2>1. NewRun(Loaded) \in Doc /\ WithRun(Loaded, "running") \in Doc
    BY <1>1, DocType
  <2>2. NewRun(Loaded).run = "running" /\ EmptyState.run = "running"
        /\ WithRun(Loaded, "running").run = "running"
    BY <1>1, RunOf
  <2> QED BY <1>1, <2>1, <2>2 DEF NoStop
<1>2. CASE NothingToResume(e)
  BY <1>2, ExitUnstopped DEF NothingToResume
<1>3. CASE WriteRunPid(e)
  <2>1. \E d \in {NoDoc} : /\ pc' = [pc EXCEPT ![Main(e)] = "init"]
                               /\ buf' = [buf EXCEPT ![Main(e)] = d]
    BY <1>0, <1>1, <1>3 DEF WriteRunPid, TInv, TypeOK, Unstopped
  <2> QED BY <1>0, <1>3, <2>1, EarlyMoves DEF WriteRunPid, EarlyPc, StaysUnstopped
<1>4. CASE NewRunState(e)
  <2>1. \E d \in {NewRun(Loaded)} : /\ pc' = [pc EXCEPT ![Main(e)] = "begin"]
                               /\ buf' = [buf EXCEPT ![Main(e)] = d] /\ d # NoDoc
    BY <1>0, <1>1, <1>4 DEF NewRunState, TInv, TypeOK, Unstopped
  <2> QED BY <1>0, <1>4, <2>1, EarlyMoves DEF NewRunState, EarlyPc, StaysUnstopped
<1>5. CASE InitState(e)
  <2>1. \E d \in {NoDoc, EmptyState} : /\ pc' = [pc EXCEPT ![Main(e)] = "begin"]
                               /\ buf' = [buf EXCEPT ![Main(e)] = d] /\ e \in resume'
    BY <1>0, <1>1, <1>5 DEF InitState, TInv, TypeOK, Unstopped
  <2> QED BY <1>0, <1>5, <2>1, EarlyMoves DEF InitState, EarlyPc, StaysUnstopped
<1>6. CASE BeginRun(e)
  <2>1. ~KeepsStop(Loaded, "running", e \in resume)
    BY <1>6 DEF BeginRun, KeepsStop, Unstopped, Stopped, OperatorStopped, Loaded
  <2>2. /\ pc' = [pc EXCEPT ![Main(e)] = "stop0"]
        /\ buf' = [buf EXCEPT ![Main(e)] = WithRun(Loaded, "running")]
    BY <1>6, <2>1 DEF BeginRun
  <2> QED BY <1>0, <1>6, <2>2, EarlyMoves DEF BeginRun, EarlyPc, StaysUnstopped
<1>7. CASE StartCheck(e)
  <2>1. ~Stopped /\ Main(e) = <<e, "main">>
    BY <1>7 DEF StartCheck, Unstopped
  <2>2. \E l \in {"reset", "fcCheck"}, d \in {NoDoc} :
          pc' = [pc EXCEPT ![Main(e)] = l] /\ buf' = [buf EXCEPT ![Main(e)] = d]
    BY <2>1, <1>7 DEF StartCheck, TInv, TypeOK
  <2>3. \A d \in {NoDoc} : NoStop(d)
    BY <2>1, NoStopDocs
  <2>4. disk' = disk /\ pidfile' = pidfile /\ verdict' = verdict
    BY <1>7 DEF StartCheck
  <2> QED BY <1>1, <2>1, <2>2, <2>3, <2>4, Moves, Labels DEF EarlyPc, StopPc, StaysUnstopped
<1>8. CASE LoadPauses(e)
  <2>1. ~Stopped /\ Main(e) = <<e, "main">>
    BY <1>8 DEF LoadPauses, Unstopped
  <2>2. \E l \in {"resetEach"}, d \in {NoDoc} :
          pc' = [pc EXCEPT ![Main(e)] = l] /\ buf' = [buf EXCEPT ![Main(e)] = d]
    BY <2>1, <1>8 DEF LoadPauses, TInv, TypeOK
  <2>3. \A d \in {NoDoc} : NoStop(d)
    BY <2>1, NoStopDocs
  <2>4. disk' = disk /\ pidfile' = pidfile /\ verdict' = verdict
    BY <1>8 DEF LoadPauses
  <2> QED BY <1>1, <2>1, <2>2, <2>3, <2>4, Moves, Labels DEF EarlyPc, StopPc, StaysUnstopped
<1>9. CASE ResetOne(e)
  <2>1. ~Stopped /\ Main(e) = <<e, "main">>
    BY <1>9 DEF ResetOne, Unstopped
  <2>2. PICK m : buf' = [buf EXCEPT ![Main(e)] = ClearModulePause(Loaded, m)]
    BY <1>9 DEF ResetOne
  <2>3. pc' = [pc EXCEPT ![Main(e)] = "resetEach"]
    BY <1>9 DEF ResetOne, TInv, TypeOK
  <2>4. disk' = disk /\ pidfile' = pidfile /\ verdict' = verdict
    BY <1>9 DEF ResetOne
  <2> QED BY <1>1, <2>1, <2>2, <2>3, <2>4, Moves, NoStopDocs, Labels
          DEF EarlyPc, StopPc, StaysUnstopped
<1>10. CASE ResetAll(e)
  <2>1. ~Stopped /\ Main(e) = <<e, "main">>
    BY <1>10 DEF ResetAll, Unstopped
  <2>2. \E l \in {"fork"}, d \in {ClearPauses(Loaded)} :
          pc' = [pc EXCEPT ![Main(e)] = l] /\ buf' = [buf EXCEPT ![Main(e)] = d]
    BY <2>1, <1>10 DEF ResetAll, TInv, TypeOK
  <2>3. \A d \in {ClearPauses(Loaded)} : NoStop(d)
    BY <2>1, NoStopDocs
  <2>4. disk' = disk /\ pidfile' = pidfile /\ verdict' = verdict
    BY <1>10 DEF ResetAll
  <2> QED BY <1>1, <2>1, <2>2, <2>3, <2>4, Moves, Labels DEF EarlyPc, StopPc, StaysUnstopped
<1>11. CASE Fork(e)
  <2>1. ~Stopped /\ Main(e) = <<e, "main">>
    BY <1>11 DEF Fork, Unstopped
  <2>2. /\ disk' = disk /\ pidfile' = pidfile /\ verdict' = verdict /\ buf' = buf
        /\ pc'[Main(e)] = "join"
    BY <1>11 DEF Fork, TInv, TypeOK
  <2> QED BY <2>1, <2>2 DEF Unstopped, Early, EarlyPc, StopPc, StaysUnstopped, Stopped, Main, NoStop
<1> QED BY <1>2, <1>3, <1>4, <1>5, <1>6, <1>7, <1>8, <1>9, <1>10, <1>11 DEF Start

LEMMA RestUnstopped ==
  ASSUME TInv, NEW e \in Engine, Early(e), Unstopped(e), verdict[e] # "stopped", Rest(e)
  PROVE  StaysUnstopped(e)
<1> USE ProcType DEF At, Goto, Put, engineVars, history
<1>1. "main" \in Thread
  BY DEF Thread
<1>2. pc[Main(e)] \in {"join", "reset", "fork", "classify", "final", "after", "setFinal", "record",
                       "fsList", "fcList", "fsEach", "fcEach", "fcCheck", "fsClear", "fcClear",
                       "fsRecord"}
  BY DEF Rest, Join, Raise, ClassifyStatus, FinalCheck, SetVerdict, Record, ListRunning,
         FailRunning, FinalizeStopped, CrashCheck, FinalizeCrash, ClearPid, RecordStopped
<1>3. ~Stopped /\ pc[Main(e)] \notin StopPc
  BY <1>2 DEF Unstopped
<1>4. CASE Join(e)
  <2>1. ~Stopped /\ Main(e) = <<e, "main">>
    BY <1>3
  <2>2. \E l \in {"check"}, d \in {NoDoc} :
          pc' = [pc EXCEPT ![Main(e)] = l] /\ buf' = [buf EXCEPT ![Main(e)] = d]
    BY <2>1, <1>4 DEF Join, TInv, TypeOK
  <2>3. \A d \in {NoDoc} : NoStop(d)
    BY <2>1, NoStopDocs
  <2>4. disk' = disk /\ pidfile' = pidfile /\ verdict' = verdict
    BY <1>4 DEF Join
  <2> QED BY <1>1, <2>1, <2>2, <2>3, <2>4, Moves, Labels DEF EarlyPc, StopPc, StaysUnstopped
<1>5. CASE Raise(e)
  <2>1. ~Stopped /\ Main(e) = <<e, "main">>
    BY <1>3
  <2>2. \E l \in {"fcCheck"}, d \in {NoDoc} :
          pc' = [pc EXCEPT ![Main(e)] = l] /\ buf' = [buf EXCEPT ![Main(e)] = d]
    BY <2>1, <1>5 DEF Raise, TInv, TypeOK
  <2>3. \A d \in {NoDoc} : NoStop(d)
    BY <2>1, NoStopDocs
  <2>4. disk' = disk /\ pidfile' = pidfile /\ verdict' = verdict
    BY <1>5 DEF Raise
  <2> QED BY <1>1, <2>1, <2>2, <2>3, <2>4, Moves, Labels DEF EarlyPc, StopPc, StaysUnstopped
<1>6. CASE ClassifyStatus(e)
  <2>1. /\ pc' = [pc EXCEPT ![Main(e)] = "final"] /\ buf' = [buf EXCEPT ![Main(e)] = NoDoc]
        /\ disk' = disk /\ pidfile' = pidfile /\ Main(e) = <<e, "main">>
    BY <1>3, <1>6 DEF ClassifyStatus, TInv, TypeOK
  <2>2. verdict'[e] # "stopped"
    BY <1>3, <1>6 DEF ClassifyStatus, Verdicts, TInv, TypeOK
  <2> QED BY <1>1, <1>3, <2>1, <2>2, Moves, NoStopDocs, Labels DEF EarlyPc, StopPc, StaysUnstopped
<1>7. CASE FinalCheck(e)
  <2>1. ~Stopped /\ Main(e) = <<e, "main">>
    BY <1>3
  <2>2. \E l \in {"setFinal", "record"}, d \in {NoDoc} :
          pc' = [pc EXCEPT ![Main(e)] = l] /\ buf' = [buf EXCEPT ![Main(e)] = d]
    BY <2>1, <1>7 DEF FinalCheck, TInv, TypeOK
  <2>3. \A d \in {NoDoc} : NoStop(d)
    BY <2>1, NoStopDocs
  <2>4. disk' = disk /\ pidfile' = pidfile /\ verdict' = verdict
    BY <1>7 DEF FinalCheck
  <2> QED BY <1>1, <2>1, <2>2, <2>3, <2>4, Moves, Labels DEF EarlyPc, StopPc, StaysUnstopped
<1>8. CASE SetVerdict(e)
  <2>1. ~Stopped /\ Main(e) = <<e, "main">>
    BY <1>3
  <2>2. \E l \in {"after"}, d \in {NoDoc, WithRun(Loaded, verdict[e])} :
          pc' = [pc EXCEPT ![Main(e)] = l] /\ buf' = [buf EXCEPT ![Main(e)] = d]
    BY <2>1, <1>8 DEF SetVerdict, TInv, TypeOK
  <2>3. \A d \in {NoDoc, WithRun(Loaded, verdict[e])} : NoStop(d)
    BY <2>1, NoStopDocs
  <2>4. disk' = disk /\ pidfile' = pidfile /\ verdict' = verdict
    BY <1>8 DEF SetVerdict
  <2> QED BY <1>1, <2>1, <2>2, <2>3, <2>4, Moves, Labels DEF EarlyPc, StopPc, StaysUnstopped
<1>9. CASE Record(e)
  BY <1>9, ExitUnstopped DEF Record
<1>10. CASE ListRunning(e)
  <2>1. ~Stopped /\ Main(e) = <<e, "main">>
    BY <1>3
  <2>2. \E l \in {"fcEach"}, d \in {NoDoc} :
          pc' = [pc EXCEPT ![Main(e)] = l] /\ buf' = [buf EXCEPT ![Main(e)] = d]
    BY <1>3, <2>1, <1>10 DEF ListRunning, StopPc, TInv, TypeOK
  <2>3. \A d \in {NoDoc} : NoStop(d)
    BY <2>1, NoStopDocs
  <2>4. disk' = disk /\ pidfile' = pidfile /\ verdict' = verdict
    BY <1>10 DEF ListRunning
  <2> QED BY <1>1, <2>1, <2>2, <2>3, <2>4, Moves, Labels DEF EarlyPc, StopPc, StaysUnstopped
<1>11. CASE FailRunning(e)
  <2>1. PICK m : buf' = [buf EXCEPT ![Main(e)] = WithRow(Loaded, m, "failed")]
    BY <1>11 DEF FailRunning, FailRow
  <2>2. pc' = [pc EXCEPT ![Main(e)] = "fcEach"] /\ Main(e) = <<e, "main">>
    BY <1>3, <1>11 DEF FailRunning, StopPc, TInv, TypeOK
  <2>3. disk' = disk /\ pidfile' = pidfile /\ verdict' = verdict
    BY <1>11 DEF FailRunning
  <2> QED BY <1>1, <1>3, <2>1, <2>2, <2>3, Moves, NoStopDocs, Labels
          DEF EarlyPc, StopPc, StaysUnstopped
<1>12. CASE FinalizeStopped(e)
  BY <1>3, <1>12 DEF FinalizeStopped, StopPc
<1>13. CASE CrashCheck(e)
  <2>1. ~Stopped /\ Main(e) = <<e, "main">>
    BY <1>3
  <2>2. \E l \in {"fcList"}, d \in {NoDoc} :
          pc' = [pc EXCEPT ![Main(e)] = l] /\ buf' = [buf EXCEPT ![Main(e)] = d]
    BY <2>1, <1>13 DEF CrashCheck, TInv, TypeOK
  <2>3. \A d \in {NoDoc} : NoStop(d)
    BY <2>1, NoStopDocs
  <2>4. disk' = disk /\ pidfile' = pidfile /\ verdict' = verdict
    BY <1>13 DEF CrashCheck
  <2> QED BY <1>1, <2>1, <2>2, <2>3, <2>4, Moves, Labels DEF EarlyPc, StopPc, StaysUnstopped
<1>14. CASE FinalizeCrash(e)
  <2>1. ~Stopped /\ Main(e) = <<e, "main">>
    BY <1>3
  <2>2. \E l \in {"fcClear"}, d \in {NoDoc, WithRun(Loaded, "failed")} :
          pc' = [pc EXCEPT ![Main(e)] = l] /\ buf' = [buf EXCEPT ![Main(e)] = d]
    BY <2>1, <1>14 DEF FinalizeCrash, TInv, TypeOK
  <2>3. \A d \in {NoDoc, WithRun(Loaded, "failed")} : NoStop(d)
    BY <2>1, NoStopDocs
  <2>4. disk' = disk /\ pidfile' = pidfile /\ verdict' = verdict
    BY <1>14 DEF FinalizeCrash
  <2> QED BY <1>1, <2>1, <2>2, <2>3, <2>4, Moves, Labels DEF EarlyPc, StopPc, StaysUnstopped
<1>15. CASE ClearPid(e)
  BY <1>3, <1>15, ExitUnstopped DEF ClearPid, StopPc
<1>16. CASE RecordStopped(e)
  BY <1>3, <1>16 DEF RecordStopped, StopPc
<1> QED BY <1>4, <1>5, <1>6, <1>7, <1>8, <1>9, <1>10, <1>11, <1>12, <1>13, <1>14, <1>15, <1>16 DEF Rest

LEMMA ThreadUnstopped ==
  ASSUME TInv, NEW e \in Engine, NEW t \in Thread, Early(e), Unstopped(e), GoneIsGone,
         verdict[e] # "stopped", Up(e), ThreadNext(e, t)
  PROVE  StaysUnstopped(e)
<1> USE ProcType DEF At, Goto, Put, Main, engineVars, history
<1>1. CASE Step(e, t) \/ Start(e) \/ Rest(e)
  BY <1>1, StepUnstopped, StartUnstopped, RestUnstopped
<1>2. ASSUME t = "active", pc[<<e, t>>] \in {"check", "joinPort"}
      PROVE  ~Stopped /\ pc[Main(e)] \notin EarlyPc
  BY <1>2 DEF Early, Unstopped, EarlyPc
<1>3. CASE ForkPort(e) /\ t = "active"
  <2>1. ~Stopped /\ pc[Main(e)] \notin EarlyPc
    BY <1>2, <1>3 DEF ForkPort
  <2>2. /\ disk' = disk /\ pidfile' = pidfile /\ verdict' = verdict /\ buf' = buf
        /\ pc'[Main(e)] = pc[Main(e)]
    BY <1>3 DEF ForkPort, TInv, TypeOK
  <2> QED BY <2>1, <2>2 DEF Unstopped, Early, EarlyPc, StopPc, StaysUnstopped, Stopped, NoStop
<1>4. CASE JoinPort(e) /\ t = "active"
  <2>1. ~Stopped /\ pc[Main(e)] \notin EarlyPc
    BY <1>2, <1>4 DEF JoinPort
  <2>2. /\ disk' = disk /\ pidfile' = pidfile /\ verdict' = verdict /\ buf' = buf
        /\ pc'[Main(e)] = pc[Main(e)]
    BY <1>4 DEF JoinPort, TInv, TypeOK
  <2> QED BY <2>1, <2>2 DEF Unstopped, Early, EarlyPc, StopPc, StaysUnstopped, Stopped, NoStop
<1>5. CASE Save(<<e, t>>)
  <2>1. buf[<<e, t>>] \in Doc /\ disk' = buf[<<e, t>>] /\ disk' # NoDoc
    BY <1>5, NoDocAssumption DEF Save, TInv, TypeOK
  <2>2. ~Stopped'
    BY <2>1 DEF Unstopped, NoStop, Stopped, OperatorStopped, LoadState
  <2>3. \A u \in Thread : buf'[<<e, u>>] \in {NoDoc, buf[<<e, u>>]}
    BY <1>5 DEF Save, TInv, TypeOK
  <2>4. pc' = pc /\ pidfile' = pidfile /\ verdict' = verdict
    BY <1>5 DEF Save
  <2>5. \A u \in Thread : NoStop(buf'[<<e, u>>])
    BY <2>3 DEF Unstopped, NoStop
  <2>6. Early(e)'
    BY <2>3, <2>4 DEF Early
  <2> QED BY <2>2, <2>4, <2>5, <2>6 DEF Unstopped, StaysUnstopped, NoStop
<1> QED BY <1>1, <1>3, <1>4, <1>5 DEF ThreadNext

-----------------------------------------------------------------------------
PidNames == pc[Dash] = "idle" => \A e \in Engine : Up(e) => pidfile = e

Bridged == pc[Dash] = "putPid" => \A e \in Engine : Up(e) => e = spawning

EnginesUnstopped ==
  pc[Dash] \notin {"list", "each"} =>
    buf[Dash] = NoDoc /\ \A e \in Engine : Up(e) => Unstopped(e) /\ Early(e)

NoVerdictStopped == \A e \in Engine : verdict[e] # "stopped"

OInv == OneEngine /\ PidNames /\ Bridged /\ EnginesUnstopped /\ NoVerdictStopped

LEMMA InitOne == Init => OInv
<1> SUFFICES ASSUME Init PROVE OInv
  OBVIOUS
<1>1. \A e \in Engine : ~Up(e)
  BY ProcType DEF Init, Up
<1> QED BY <1>1, ProcType DEF Init, OInv, OneEngine, PidNames, Bridged, EnginesUnstopped,
                              NoVerdictStopped

\* The verdict of an engine is never that the operator stopped it.
LEMMA ThreadVerdict ==
  ASSUME TInv, NEW e \in Engine, NEW t \in Thread, ThreadNext(e, t), NoVerdictStopped
  PROVE  NoVerdictStopped'
<1>1. verdict' = verdict \/ ClassifyStatus(e) \/ Exit(e)
  <2> USE DEF engineVars, history
  <2>1. ASSUME Start(e) PROVE verdict' = verdict \/ Exit(e)
    BY <2>1 DEF Start,
          NothingToResume, WriteRunPid, NewRunState, InitState, BeginRun,
              StartCheck, LoadPauses, ResetOne, ResetAll, Fork
  <2>2. ASSUME Step(e, t) PROVE verdict' = verdict
    BY <2>2 DEF Step,
          Snapshot, CheckStop, CheckSkip, Release, BudgetSpent, GuardRun,
              SetRunning, Launch, ToolEnds, ToolTrips, WorkNoTool, CheckAgain,
              StopFails, GuardDone, SetDone, IngestLive, SetFailed, ThreadEnds
  <2>3. ASSUME Rest(e) PROVE verdict' = verdict \/ ClassifyStatus(e) \/ Exit(e)
    BY <2>3 DEF Rest,
          Join, Raise, FinalCheck, SetVerdict, Record, ListRunning, FailRunning,
              FinalizeStopped, CrashCheck, FinalizeCrash, ClearPid,
              RecordStopped
  <2>4. Save(<<e, t>>) \/ ForkPort(e) \/ JoinPort(e) => verdict' = verdict
    BY DEF Save, ForkPort, JoinPort
  <2> QED BY <2>1, <2>2, <2>3, <2>4 DEF ThreadNext
<1>2. CASE ClassifyStatus(e)
  <2>1. PICK v : v # "stopped" /\ verdict' = [verdict EXCEPT ![e] = v]
    <3>1. verdict[e] # "stopped" /\ verdict = [verdict EXCEPT ![e] = verdict[e]]
      BY DEF NoVerdictStopped, TInv, TypeOK
    <3>2. \A v \in Verdicts(e) : v # "stopped"
      BY DEF Verdicts
    <3> QED BY <1>2, <3>1, <3>2 DEF ClassifyStatus
  <2> QED BY <2>1 DEF NoVerdictStopped, TInv, TypeOK
<1>3. CASE Exit(e)
  BY <1>3 DEF Exit, Gone, NoVerdictStopped
<1> QED BY <1>1, <1>2, <1>3 DEF NoVerdictStopped

LEMMA ThreadOne ==
  ASSUME TInv, SInv, OInv, NEW e \in Engine, NEW t \in Thread, ThreadNext(e, t)
  PROVE  OInv'
<1>1. EngineFrame(e)
  BY ThreadFrame DEF SInv
<1>2. NoVerdictStopped'
  BY ThreadVerdict DEF OInv
<1>3. "main" \in Thread /\ \A f \in Engine : Main(f) = <<f, "main">>
  BY DEF Thread, Main
<1>4. Up(e) /\ \A f \in Engine : Up(f)' => f = e
  BY <1>1, <1>3 DEF EngineFrame, OInv, OneEngine, Up
<1>5. pc[Dash] \notin {"list", "each"} => StaysUnstopped(e)
  BY <1>4, ThreadUnstopped DEF OInv, EnginesUnstopped, NoVerdictStopped, SInv
<1>6. OneEngine' /\ Bridged'
  BY <1>1, <1>4 DEF OneEngine, Bridged, EngineFrame, OInv
<1>7. PidNames'
  BY <1>1, <1>4, <1>5 DEF PidNames, EngineFrame, OInv, StaysUnstopped
<1>8. EnginesUnstopped'
  BY <1>1, <1>4, <1>5 DEF EnginesUnstopped, EngineFrame, OInv, StaysUnstopped
<1> QED BY <1>2, <1>6, <1>7, <1>8 DEF OInv

\* When nobody is up the invariant asks little.
LEMMA NobodyUp ==
  ASSUME \A e \in Engine : ~Up(e), NoVerdictStopped,
         pc[Dash] \notin {"list", "each"} => buf[Dash] = NoDoc
  PROVE  OInv
BY DEF OInv, OneEngine, PidNames, Bridged, EnginesUnstopped

LEMMA SpawnOne ==
  ASSUME TInv, SInv, OInv, \A e \in Engine : ~Up(e), NEW f \in Engine, NEW fresh \in BOOLEAN,
         Spawn(f, fresh), buf' = buf, verdict' = verdict, buf[Dash] = NoDoc
  PROVE  OInv'
<1> USE ProcType DEF Up, Main
<1>1. pc' = [pc EXCEPT ![<<f, "main">>] = "boot", ![Dash] = "putPid"] /\ spawning' = f
  BY DEF Spawn
<1>2. /\ pc'[<<f, "main">>] = "boot" /\ pc'[Dash] = "putPid"
      /\ \A g \in Engine, t \in Thread : <<g, t>> # <<f, "main">> => pc'[<<g, t>>] = pc[<<g, t>>]
  BY <1>1 DEF TInv, TypeOK
<1>3. "main" \in Thread
  BY DEF Thread
<1>4. \A g \in Engine : Up(g)' => g = f
  BY <1>2, <1>3
<1>5. Unstopped(f)' /\ Early(f)'
  BY <1>2, <1>3 DEF Unstopped, Early, NoStop, StopPc, SInv, GoneIsGone
<1> QED BY <1>1, <1>2, <1>4, <1>5 DEF OInv, OneEngine, PidNames, Bridged, EnginesUnstopped,
                                      NoVerdictStopped

LEMMA DashOne ==
  ASSUME TInv, SInv, OInv, "reset" \notin Kinds, Serve \/ Request
  PROVE  OInv'
<1> USE ProcType DEF At, Goto, Put, history, engineVars
<1>0. /\ "main" \in Thread /\ \A f \in Engine : Main(f) = <<f, "main">>
      /\ \A f \in Engine, t \in Thread : <<f, t>> \in Proc /\ <<f, t>> # Dash
  BY ProcType DEF Thread, Main
<1> DEFINE Untouched ==
      /\ verdict' = verdict
      /\ \A f \in Engine, t \in Thread :
           pc'[<<f, t>>] = pc[<<f, t>>] /\ buf'[<<f, t>>] = buf[<<f, t>>]
<1>1. ASSUME Untouched, pc'[Dash] \in {"list", "each"} PROVE OInv'
  <2>1. \A f \in Engine : Up(f)' <=> Up(f)
    BY <1>0, <1>1 DEF Up
  <2> QED BY <1>1, <2>1 DEF OInv, OneEngine, PidNames, Bridged, EnginesUnstopped,
                            NoVerdictStopped
<1>13. ASSUME Untouched, \A f \in Engine : ~Up(f), buf'[Dash] = NoDoc PROVE OInv'
  <2>1. \A f \in Engine : ~Up(f)'
    BY <1>0, <1>13 DEF Up
  <2> QED BY <1>13, <2>1 DEF OInv, OneEngine, PidNames, Bridged, EnginesUnstopped,
                             NoVerdictStopped
<1>2. CASE StartRun
  <2>1. PICK f \in Engine, fresh \in BOOLEAN : Spawn(f, fresh)
    BY <1>2 DEF StartRun
  <2>2. pc[Dash] = "idle" /\ buf[Dash] = NoDoc /\ ~PidLive /\ buf' = buf /\ verdict' = verdict
    BY <1>2 DEF StartRun, Asks
  <2>3. \A e \in Engine : ~Up(e)
    BY <2>2, ProcAssumption DEF OInv, PidNames, PidLive
  <2> QED BY <2>1, <2>2, <2>3, SpawnOne
<1>3. CASE Refuse
  <2>1. UNCHANGED <<disk, pidfile, pc, buf, resume, verdict, spawning>>
    BY <1>3 DEF Refuse
  <2> QED BY <2>1 DEF OInv, OneEngine, PidNames, Bridged, EnginesUnstopped, NoVerdictStopped,
                      Unstopped, Early, Stopped, Up, Main, NoStop
<1>4. CASE StopRun
  <2>1. pc' = [pc EXCEPT ![Dash] = "list"] /\ verdict' = verdict
        /\ \E d : buf' = [buf EXCEPT ![Dash] = d]
    BY <1>4 DEF StopRun
  <2>3. pc'[Dash] = "list" /\ Untouched
    BY <1>0, <2>1 DEF TInv, TypeOK
  <2> QED BY <1>1, <2>3
<1>5. CASE ResetLimiter
  BY <1>5 DEF ResetLimiter, Asks
<1>6. CASE PutPid
  <2>1. /\ pidfile' = spawning /\ pc[Dash] = "putPid" /\ pc'[Dash] = "idle"
        /\ \A f \in Engine, t \in Thread : pc'[<<f, t>>] = pc[<<f, t>>]
        /\ UNCHANGED <<disk, buf, resume, verdict>>
    BY <1>0, <1>6 DEF PutPid, TInv, TypeOK
  <2>2. \A f \in Engine : /\ Up(f)' <=> Up(f)
                          /\ Unstopped(f) => Unstopped(f)'
                          /\ Early(f) => Early(f)'
    BY <1>0, <2>1 DEF Up, Unstopped, Early, Stopped, NoStop, Main
  <2>3. \A e \in Engine : Up(e) => e = spawning
    BY <2>1 DEF OInv, Bridged
  <2> QED BY <2>1, <2>2, <2>3 DEF OInv, OneEngine, PidNames, Bridged, EnginesUnstopped,
                                  NoVerdictStopped
<1>7. CASE StopList
  <2>1. pc' = [pc EXCEPT ![Dash] = "each"] /\ verdict' = verdict /\ buf' = buf
    BY <1>7 DEF StopList
  <2>3. pc'[Dash] = "each" /\ Untouched
    BY <1>0, <2>1 DEF TInv, TypeOK
  <2> QED BY <1>1, <2>3
<1>8. CASE StopFailRow
  <2>1. PICK d : buf' = [buf EXCEPT ![Dash] = d]
    BY <1>8 DEF StopFailRow, FailRow
  <2>2. pc' = pc /\ pc[Dash] = "each" /\ verdict' = verdict
    BY <1>8 DEF StopFailRow
  <2>3. pc'[Dash] = "each" /\ Untouched
    BY <1>0, <2>1, <2>2 DEF TInv, TypeOK
  <2> QED BY <1>1, <2>3
<1>9. CASE StopKill
  <2>1. \A e \in Engine : ~Up(e)'
    BY <1>9, KillStops
  <2>2. buf[Dash] = NoDoc /\ buf'[Dash] = buf[Dash]
    BY <1>9 DEF StopKill, Gone
  <2>3. NoVerdictStopped'
    BY <1>9 DEF StopKill, Gone, OInv, NoVerdictStopped
  <2> QED BY <2>1, <2>2, <2>3 DEF OInv, OneEngine, PidNames, Bridged, EnginesUnstopped
<1>10. CASE StopClear
  <2>1. /\ pc' = [pc EXCEPT ![Dash] = "docker"] /\ verdict' = verdict /\ buf' = buf
        /\ buf[Dash] = NoDoc /\ \A e \in Engine : ~Up(e)
    BY <1>10 DEF StopClear, SInv, NoneLeft
  <2>2. Untouched
    BY <1>0, <2>1 DEF TInv, TypeOK
  <2> QED BY <1>13, <2>1, <2>2
<1>11. CASE StopContainers
  <2>1. /\ buf' = buf /\ buf[Dash] = NoDoc /\ verdict' = verdict
        /\ \A e \in Engine : ~Up(e)
    BY <1>11 DEF StopContainers, SInv, NoneLeft
  <2>2. CASE spawning = NoEngine
    <3>1. pc' = [pc EXCEPT ![Dash] = "idle"]
      BY <1>11, <2>2 DEF StopContainers
    <3>2. Untouched
      BY <1>0, <2>1, <3>1 DEF TInv, TypeOK
    <3> QED BY <1>13, <2>1, <3>2
  <2>3. CASE spawning # NoEngine
    <3>1. spawning \in Engine /\ Spawn(spawning, TRUE)
      BY <1>11, <2>3 DEF StopContainers, TInv, TypeOK
    <3> QED BY <2>1, <3>1, SpawnOne
  <2> QED BY <2>2, <2>3
<1>12. CASE Save(Dash)
  <2>1. pc[Dash] \in {"list", "each"}
    BY <1>12 DEF Save, OInv, EnginesUnstopped
  <2>2. pc' = pc /\ verdict' = verdict /\ buf' = [buf EXCEPT ![Dash] = NoDoc]
    BY <1>12 DEF Save
  <2>3. Untouched
    BY <1>0, <2>2 DEF TInv, TypeOK
  <2> QED BY <1>1, <2>1, <2>2, <2>3
<1> QED BY <1>2, <1>3, <1>4, <1>5, <1>6, <1>7, <1>8, <1>9, <1>10, <1>11, <1>12
        DEF Serve, Request

LEMMA DieOne ==
  ASSUME TInv, SInv, OInv, NEW e \in Engine, Die(e)
  PROVE  OInv'
<1> USE ProcType DEF Main
<1>0. \A f \in Engine, t \in Thread : <<f, t>> \in Proc /\ <<f, t>> # Dash /\ <<f, t>>[1] = f
  BY ProcType
<1>1. Up(e) /\ Exit(e)
  BY DEF Die
<1>2. /\ \A f \in Engine : pc'[<<f, "main">>] = IF f = e THEN "gone" ELSE pc[<<f, "main">>]
      /\ pc'[Dash] = pc[Dash] /\ buf'[Dash] = buf[Dash]
  BY <1>0, <1>1 DEF Exit, Gone, Thread
<1>3. \A f \in Engine : ~Up(f)'
  BY <1>1, <1>2 DEF OInv, OneEngine, Up
<1>4. NoVerdictStopped'
  BY <1>1 DEF Exit, Gone, OInv, NoVerdictStopped
<1> QED BY <1>2, <1>3, <1>4 DEF OInv, OneEngine, PidNames, Bridged, EnginesUnstopped

LEMMA OneInductive ==
  ASSUME CliRuns = 0, "reset" \notin Kinds
  PROVE  Spec => []OInv
<1>1. TInv /\ SInv /\ OInv /\ [Next]_vars => OInv'
  <2> SUFFICES ASSUME TInv, SInv, OInv, [Next]_vars PROVE OInv'
    OBVIOUS
  <2>1. ASSUME NEW e \in Engine, NEW t \in Thread, ThreadNext(e, t) PROVE OInv'
    BY <2>1, ThreadOne
  <2>2. CASE Serve \/ Request
    BY <2>2, DashOne
  <2>3. ASSUME NEW e \in Engine, CliRun(e) PROVE FALSE
    BY <2>3 DEF CliRun, SInv
  <2>4. ASSUME NEW e \in Engine, Die(e) PROVE OInv'
    BY <2>4, DieOne
  <2>5. CASE UNCHANGED vars
    BY <2>5 DEF vars, engineVars, history, OInv, OneEngine, PidNames, Bridged,
                EnginesUnstopped, NoVerdictStopped, Unstopped, Early, Stopped, Up, Main, NoStop
  <2> QED BY <2>1, <2>2, <2>3, <2>4, <2>5 DEF Next
<1> QED BY <1>1, InitOne, StopsInductive, PTL DEF Spec

\* START, RESUME, STOP and RESTART never give a target two engines, for any ladder
\* and any number of them, deaths at any step included; a run from a shell and a
\* limiter reset whose stale document brings a stop back are left out, for
\* with either of them it does not hold.
THEOREM OneEngineUp ==
  ASSUME CliRuns = 0, "reset" \notin Kinds
  PROVE  Spec => []OneEngine
<1>1. OInv => OneEngine
  BY DEF OInv
<1> QED BY <1>1, OneInductive, PTL

(***************************************************************************)
(* The stages behind the branches start when the branches are through, for *)
(* any ladder, any number of engines and requests, whoever dies or crashes. *)
(***************************************************************************)

\* The main thread between its verdict and its record, and from the stages on.
Final == {"final", "setFinal", "after", "record"}
Stage == StagePc \cup {"classify"} \cup Final
Out == {"ended", "stopped"}

\* A thread that has ended with nothing left to save.
Through(e, t) == pc[<<e, t>>] \in Out /\ buf[<<e, t>>] = NoDoc

\* The port check was never started, or is through.
PortThrough(e) == pc[<<e, "port">>] \in Out \cup {"off"} /\ buf[<<e, "port">>] = NoDoc

\* Who has to be through before whom: port-check before the active branch, both
\* branches before the stages.
InOrder(e) ==
  /\ pc[<<e, "port">>] = "off" => buf[<<e, "port">>] = NoDoc
  /\ pc[<<e, "active">>] \in Out => PortThrough(e)
  /\ pc[<<e, "main">>] \in Stage => \A b \in Branch : Through(e, b)

OrderInv == \A e \in Engine : InOrder(e)

LEMMA Names == /\ Thread = {"main", "passive", "active", "port"} /\ Branch = {"passive", "active"}
               /\ \A e \in Engine : Main(e) = <<e, "main">>
BY DEF Thread, Branch, Main

\* What concerns an engine is where its threads are and what they have to save;
\* a save leaves them less.
LEMMA SameOrder ==
  ASSUME OrderInv, NEW f \in Engine,
         \A u \in Thread : pc'[<<f, u>>] = pc[<<f, u>>] /\ buf'[<<f, u>>] \in {NoDoc, buf[<<f, u>>]}
  PROVE  InOrder(f)'
<1>1. /\ pc'[<<f, "main">>] = pc[<<f, "main">>]
      /\ pc'[<<f, "port">>] = pc[<<f, "port">>] /\ buf'[<<f, "port">>] \in {NoDoc, buf[<<f, "port">>]}
      /\ pc'[<<f, "active">>] = pc[<<f, "active">>]
      /\ \A b \in Branch : pc'[<<f, b>>] = pc[<<f, b>>] /\ buf'[<<f, b>>] \in {NoDoc, buf[<<f, b>>]}
  BY Names
<1>2. InOrder(f)
  BY DEF OrderInv
<1> QED BY <1>1, <1>2 DEF InOrder, Through, PortThrough

\* One thread moves from its place to l; nobody else's document changes.
LEMMA OneMoves ==
  ASSUME TInv, NEW e \in Engine, NEW t \in Thread, OrderInv, NEW l,
         pc' = [pc EXCEPT ![<<e, t>>] = l],
         \A q \in Proc \ {<<e, t>>} : buf'[q] = buf[q],
         pc[<<e, t>>] \notin Out \cup {"off"}, l # "off",
         t = "main" /\ l \in Stage => pc[<<e, "main">>] \in Stage \/ \A b \in Branch : Through(e, b),
         t = "active" /\ l \in Out => PortThrough(e)
  PROVE  OrderInv'
<1>1. \A f \in Engine, u \in Thread :
        /\ pc'[<<f, u>>] = IF f = e /\ u = t THEN l ELSE pc[<<f, u>>]
        /\ ~(f = e /\ u = t) => buf'[<<f, u>>] = buf[<<f, u>>]
  BY ProcType DEF TInv, TypeOK
<1>2. \A f \in Engine \ {e} : InOrder(f)'
  <2> SUFFICES ASSUME NEW f \in Engine, f # e PROVE InOrder(f)'
    OBVIOUS
  <2>1. \A u \in Thread : pc'[<<f, u>>] = pc[<<f, u>>] /\ buf'[<<f, u>>] = buf[<<f, u>>]
    BY <1>1
  <2> QED BY <2>1, SameOrder
<1>3. InOrder(e)
  BY DEF OrderInv
<1>4. InOrder(e)'
  <2>1. CASE t = "main"
    BY <1>1, <1>3, <2>1, Names DEF InOrder, Through, PortThrough
  <2>2. CASE t = "passive"
    BY <1>1, <1>3, <2>2, Names DEF InOrder, Through, PortThrough
  <2>3. CASE t = "active"
    BY <1>1, <1>3, <2>3, Names DEF InOrder, Through, PortThrough
  <2>4. CASE t = "port"
    BY <1>1, <1>3, <2>4, Names DEF InOrder, Through, PortThrough
  <2> QED BY <2>1, <2>2, <2>3, <2>4, Names
<1> QED BY <1>2, <1>4 DEF OrderInv

\* Where a step of a ladder thread leads.
LEMMA StepMoves ==
  ASSUME TInv, NEW e \in Engine, NEW t \in Thread, Step(e, t)
  PROVE  /\ pc[<<e, t>>] \in StagePc \cup {"snap"} /\ (t = "main" => pc[<<e, t>>] \in StagePc)
         /\ \A q \in Proc \ {<<e, t>>} : buf'[q] = buf[q]
         /\ \E l : /\ pc' = [pc EXCEPT ![<<e, t>>] = l] /\ l \notin Final \cup {"off", "boot"}
                   /\ t = "active" /\ l \in Out => pc[<<e, "port">>] = "off"
<1> DEFINE p == <<e, t>>
           To(ls) == \E l \in ls : pc' = [pc EXCEPT ![p] = l]
           Same == \A q \in Proc \ {<<e, t>>} : buf'[q] = buf[q]
           Shape == /\ pc[p] \in StagePc \cup {"snap"} /\ (t = "main" => pc[p] \in StagePc)
                    /\ Same
                    /\ \E l : /\ pc' = [pc EXCEPT ![p] = l] /\ l \notin Final \cup {"off", "boot"}
                              /\ t = "active" /\ l \in Out => pc[<<e, "port">>] = "off"
<1>0. pc \in [Proc -> Pc] /\ DOMAIN buf = Proc
  BY DEF TInv, TypeOK
<1>a. ASSUME pc[p] \in StagePc \cup {"snap"}, t = "main" => pc[p] \in StagePc, Same,
             To(StagePc \cup {"fsList", "classify", "joinPort"})
      PROVE  Shape
  BY <1>a DEF StagePc, Out, Final
<1>b. ASSUME pc[p] \in StagePc \cup {"snap"}, t = "main" => pc[p] \in StagePc, Same,
             To(Out), t = "active" => pc[<<e, "port">>] = "off"
      PROVE  Shape
  BY <1>b DEF Out, Final
<1>c. ASSUME NEW d, Put(p, d) PROVE Same
  BY <1>0, <1>c DEF Put
<1>d. UNCHANGED buf => Same
  OBVIOUS
<1>f. UNCHANGED pc => pc' = [pc EXCEPT ![p] = pc[p]]
  BY <1>0
<1>1. CASE Snapshot(e, t)
  BY <1>1, <1>a, <1>d, Names DEF Snapshot, At, Goto, StagePc
<1>2. CASE CheckStop(e, t)
  <2>1. /\ pc[p] = "check" /\ UNCHANGED buf
        /\ To({"fsList", "joinPort"})
           \/ (To({"stopped"}) /\ (t = "active" => pc[<<e, "port">>] = "off"))
    BY <1>2 DEF CheckStop, At, Goto
  <2> QED BY <2>1, <1>a, <1>b, <1>d DEF StagePc, Out
<1>3. CASE CheckSkip(e, t)
  <2>1. pc[p] = "check" /\ UNCHANGED buf /\ To({"check", "release"})
    BY <1>3, <1>f DEF CheckSkip, At, Goto
  <2> QED BY <2>1, <1>a, <1>d DEF StagePc
<1>4. CASE Release(e, t)
  <2>1. pc[p] = "release" /\ (\E d : Put(p, d)) /\ To({"guardRun"})
    BY <1>4 DEF Release, At, Goto
  <2> QED BY <2>1, <1>a, <1>c DEF StagePc
<1>5. CASE BudgetSpent(e, t)
  BY <1>5, <1>a, <1>d DEF BudgetSpent, At, Goto, StagePc
<1>6. CASE GuardRun(e, t)
  <2>1. pc[p] = "guardRun" /\ UNCHANGED buf /\ To({"work", "setRun"})
    BY <1>6 DEF GuardRun, At, Goto
  <2> QED BY <2>1, <1>a, <1>d DEF StagePc
<1>7. CASE SetRunning(e, t)
  <2>1. pc[p] = "setRun" /\ (\E d : Put(p, d)) /\ To({"work"})
    BY <1>7 DEF SetRunning, At, Goto
  <2> QED BY <2>1, <1>a, <1>c DEF StagePc
<1>8. CASE Launch(e, t)
  BY <1>8, <1>a, <1>d DEF Launch, At, Goto, StagePc
<1>9. CASE ToolEnds(e, t) \/ WorkNoTool(e, t)
  <2>1. /\ pc[p] \in {"tool", "work"} /\ UNCHANGED buf
        /\ To({"check2", "guardDone", "setFail", "setEmpty"})
    BY <1>9 DEF ToolEnds, WorkNoTool, Ends, Outcomes, Returned, At, Goto
  <2> QED BY <2>1, <1>a, <1>d DEF StagePc
<1>10. CASE ToolTrips(e, t)
  <2>1. /\ pc[p] = "tool" /\ (\E d : Put(p, d))
        /\ To({"check2", "guardDone", "setFail", "setEmpty"})
    BY <1>10 DEF ToolTrips, Ends, Outcomes, Returned, At, Goto
  <2> QED BY <2>1, <1>a, <1>c DEF StagePc
<1>11. CASE CheckAgain(e, t)
  <2>1. pc[p] = "check2" /\ UNCHANGED buf /\ To({"stopFail", "guardDone"})
    BY <1>11 DEF CheckAgain, At, Goto
  <2> QED BY <2>1, <1>a, <1>d DEF StagePc
<1>12. CASE StopFails(e, t)
  <2>1. /\ pc[p] = "stopFail" /\ (\E d : Put(p, d))
        /\ To({"joinPort"}) \/ (To({"stopped"}) /\ (t = "active" => pc[<<e, "port">>] = "off"))
    BY <1>12 DEF StopFails, At, Goto
  <2> QED BY <2>1, <1>a, <1>b, <1>c DEF StagePc, Out
<1>13. CASE GuardDone(e, t)
  <2>1. pc[p] = "guardDone" /\ UNCHANGED buf /\ To({"setLate", "setDone"})
    BY <1>13 DEF GuardDone, At, Goto
  <2> QED BY <2>1, <1>a, <1>d DEF StagePc
<1>14. CASE SetDone(e, t)
  <2>1. pc[p] \in {"setDone", "setLate"} /\ (\E d : Put(p, d)) /\ To({"live"})
    BY <1>14 DEF SetDone, Goto
  <2> QED BY <2>1, <1>a, <1>c DEF StagePc
<1>15. CASE IngestLive(e, t)
  <2>1. pc[p] = "live" /\ ((\E d : Put(p, d)) \/ UNCHANGED buf) /\ To({"check"})
    BY <1>15 DEF IngestLive, At, Goto
  <2> QED BY <2>1, <1>a, <1>c, <1>d DEF StagePc
<1>16. CASE SetFailed(e, t)
  <2>1. pc[p] \in {"setFail", "setEmpty"} /\ (\E d : Put(p, d)) /\ To({"check"})
    BY <1>16 DEF SetFailed, Goto
  <2> QED BY <2>1, <1>a, <1>c DEF StagePc
<1>17. CASE ThreadEnds(e, t)
  <2>1. /\ pc[p] = "check" /\ UNCHANGED buf
        /\ To({"classify", "joinPort"})
           \/ (To({"ended"}) /\ (t = "active" => pc[<<e, "port">>] = "off"))
    BY <1>17 DEF ThreadEnds, At, Goto
  <2> QED BY <2>1, <1>a, <1>b, <1>d DEF StagePc, Out
<1> QED BY <1>1, <1>2, <1>3, <1>4, <1>5, <1>6, <1>7, <1>8, <1>9, <1>10, <1>11, <1>12, <1>13,
           <1>14, <1>15, <1>16, <1>17 DEF Step

LEMMA StepOrder ==
  ASSUME TInv, OrderInv, NEW e \in Engine, NEW t \in Thread, Step(e, t)
  PROVE  OrderInv'
<1>1. pc[<<e, t>>] \in StagePc \cup {"snap"} /\ (t = "main" => pc[<<e, t>>] \in StagePc)
  BY StepMoves
<1>2. \A q \in Proc \ {<<e, t>>} : buf'[q] = buf[q]
  BY StepMoves
<1>3. PICK l : /\ pc' = [pc EXCEPT ![<<e, t>>] = l] /\ l \notin Final \cup {"off"}
               /\ t = "active" /\ l \in Out => pc[<<e, "port">>] = "off"
  BY StepMoves
<1>4. pc[<<e, t>>] \notin Out \cup {"off"}
  BY <1>1 DEF StagePc, Out
<1>5. t = "main" => pc[<<e, "main">>] \in Stage
  BY <1>1 DEF Stage
<1>6. t = "active" /\ l \in Out => PortThrough(e)
  BY <1>3 DEF OrderInv, InOrder, PortThrough
<1> QED BY <1>2, <1>3, <1>4, <1>5, <1>6, OneMoves

\* Processes that end take every claim about them along.
LEMMA GoneOrder ==
  ASSUME TInv, OrderInv, NEW es, NEW l, Gone(es, l)
  PROVE  OrderInv'
<1>1. \A f \in Engine, u \in Thread :
        /\ pc'[<<f, u>>] = IF f \in es THEN "gone" ELSE pc[<<f, u>>]
        /\ buf'[<<f, u>>] = IF f \in es THEN NoDoc ELSE buf[<<f, u>>]
  BY ProcType DEF TInv, TypeOK, Gone
<1>2. "gone" \notin Stage \cup Out \cup {"off"}
  BY DEF Stage, StagePc, Out, Final
<1>3. ASSUME NEW f \in Engine PROVE InOrder(f)'
  <2>1. CASE f \in es
    BY <1>1, <1>2, <2>1, Names DEF InOrder
  <2>2. CASE f \notin es
    BY <1>1, <2>2, Names DEF OrderInv, InOrder, Through, PortThrough
  <2> QED BY <2>1, <2>2
<1> QED BY <1>3 DEF OrderInv

\* A document is saved: there is one less to wait for.
LEMMA SaveOrder ==
  ASSUME TInv, OrderInv, NEW p \in Proc, Save(p)
  PROVE  OrderInv'
<1>1. \A f \in Engine, u \in Thread :
        /\ pc'[<<f, u>>] = pc[<<f, u>>]
        /\ buf'[<<f, u>>] \in {NoDoc, buf[<<f, u>>]}
  BY ProcType DEF TInv, TypeOK, Save, Put
<1>2. ASSUME NEW f \in Engine PROVE InOrder(f)'
  <2>1. \A u \in Thread : pc'[<<f, u>>] = pc[<<f, u>>] /\ buf'[<<f, u>>] \in {NoDoc, buf[<<f, u>>]}
    BY <1>1
  <2> QED BY <2>1, SameOrder
<1> QED BY <1>2 DEF OrderInv

\* The dashboard moves; the threads stay where they are.
LEMMA DashOrder ==
  ASSUME TInv, OrderInv, NEW l, pc' = [pc EXCEPT ![Dash] = l],
         \A q \in Worker : buf'[q] = buf[q]
  PROVE  OrderInv'
<1>1. \A f \in Engine, u \in Thread :
        pc'[<<f, u>>] = pc[<<f, u>>] /\ buf'[<<f, u>>] = buf[<<f, u>>]
  BY ProcType DEF TInv, TypeOK
<1>2. ASSUME NEW f \in Engine PROVE InOrder(f)'
  <2>1. \A u \in Thread : pc'[<<f, u>>] = pc[<<f, u>>] /\ buf'[<<f, u>>] \in {NoDoc, buf[<<f, u>>]}
    BY <1>1
  <2> QED BY <2>1, SameOrder
<1> QED BY <1>2 DEF OrderInv

\* An engine starts: its main thread is at the boot.
LEMMA SpawnOrder ==
  ASSUME TInv, OrderInv, NEW e \in Engine, pc[Main(e)] = "none", NEW l,
         pc' = [pc EXCEPT ![Main(e)] = "boot", ![Dash] = l], buf' = buf
  PROVE  OrderInv'
<1>1. pc \in [Proc -> Pc] /\ Dash \in Proc /\ <<e, "main">> \in Proc /\ <<e, "main">> # Dash
  BY ProcType, Names DEF TInv, TypeOK
<1>2. pc'[<<e, "main">>] = "boot"
  BY <1>1, Names
<1>3. \A q \in Worker \ {<<e, "main">>} : pc'[q] = pc[q]
  BY <1>1, ProcType, Names
<1>4. ASSUME NEW f \in Engine, f # e PROVE InOrder(f)'
  <2>1. \A u \in Thread : <<f, u>> \in Worker \ {<<e, "main">>}
    BY <1>4, ProcType
  <2> QED BY <1>3, <2>1, SameOrder
<1>5. InOrder(e)'
  <2>1. <<e, "port">> \in Worker \ {<<e, "main">>} /\ <<e, "active">> \in Worker \ {<<e, "main">>}
    BY ProcType, Names
  <2>2. InOrder(e) /\ "boot" \notin Stage
    BY DEF OrderInv, Stage, StagePc, Final
  <2> QED BY <1>2, <1>3, <2>1, <2>2 DEF InOrder, PortThrough
<1> QED BY <1>4, <1>5 DEF OrderInv

\* The main thread moves to l, which is no stage unless it was at one.
LEMMA MainMoves ==
  ASSUME TInv, OrderInv, NEW e \in Engine, pc[Main(e)] \notin Out \cup {"off"},
         NEW l, l # "off", l \in Stage => pc[Main(e)] \in Stage, Goto(Main(e), l),
         (\E d : Put(Main(e), d)) \/ UNCHANGED buf
  PROVE  OrderInv'
<1>1. \A q \in Proc \ {<<e, "main">>} : buf'[q] = buf[q]
  BY Names DEF Put, TInv, TypeOK
<1>2. pc' = [pc EXCEPT ![<<e, "main">>] = l] /\ pc[<<e, "main">>] \notin Out \cup {"off"}
      /\ "main" \in Thread /\ (l \in Stage => pc[<<e, "main">>] \in Stage)
  BY Names DEF Goto
<1> QED BY <1>1, <1>2, OneMoves

\* The main thread stays and changes a document.
LEMMA MainWrites ==
  ASSUME TInv, OrderInv, NEW e \in Engine, UNCHANGED pc, NEW d, Put(Main(e), d)
  PROVE  OrderInv'
<1>1. \A f \in Engine, u \in Thread :
        /\ pc'[<<f, u>>] = pc[<<f, u>>]
        /\ u # "main" => buf'[<<f, u>>] = buf[<<f, u>>]
  BY ProcType, Names DEF TInv, TypeOK, Put
<1>2. \A f \in Engine : InOrder(f)'
  BY <1>1, Names DEF OrderInv, InOrder, Through, PortThrough
<1> QED BY <1>2 DEF OrderInv

LEMMA StartOrder ==
  ASSUME TInv, OrderInv, NEW e \in Engine, Start(e)
  PROVE  OrderInv'
<1> USE DEF At, Out, Stage, StagePc, Final
<1>1. CASE NothingToResume(e)
  BY <1>1, GoneOrder DEF NothingToResume, Exit
<1>2. CASE WriteRunPid(e)
  BY <1>2, MainMoves DEF WriteRunPid
<1>3. CASE NewRunState(e)
  BY <1>3, MainMoves DEF NewRunState
<1>4. CASE InitState(e)
  BY <1>4, MainMoves DEF InitState
<1>5. CASE BeginRun(e)
  BY <1>5, MainMoves DEF BeginRun
<1>6. CASE StartCheck(e)
  <2>1. PICK l \in {"fsList", "reset", "fcCheck"} : Goto(Main(e), l)
    BY <1>6 DEF StartCheck
  <2> QED BY <1>6, <2>1, MainMoves DEF StartCheck
<1>7. CASE LoadPauses(e)
  BY <1>7, MainMoves DEF LoadPauses
<1>8. CASE ResetOne(e)
  BY <1>8, MainWrites DEF ResetOne
<1>9. CASE ResetAll(e)
  BY <1>9, MainMoves DEF ResetAll
<1>10. CASE Fork(e)
  <2>1. pc' = [pc EXCEPT ![<<e, "main">>] = "join", ![<<e, "passive">>] = "snap",
                        ![<<e, "active">>] = "snap"] /\ buf' = buf
    BY <1>10, Names DEF Fork
  <2>2. pc \in [Proc -> Pc] /\ \A u \in Thread : <<e, u>> \in Proc
    BY ProcType DEF TInv, TypeOK
  <2>3. pc'[<<e, "main">>] = "join" /\ pc'[<<e, "active">>] = "snap"
        /\ pc'[<<e, "port">>] = pc[<<e, "port">>]
    BY <2>1, <2>2, Names
  <2>4. ASSUME NEW f \in Engine, f # e PROVE InOrder(f)'
    <3>1. \A u \in Thread : pc'[<<f, u>>] = pc[<<f, u>>]
      BY <2>1, <2>2, <2>4, ProcType
    <3> QED BY <2>1, <3>1, SameOrder
  <2>5. InOrder(e)'
    BY <2>1, <2>3 DEF OrderInv, InOrder
  <2> QED BY <2>4, <2>5 DEF OrderInv
<1> QED BY <1>1, <1>2, <1>3, <1>4, <1>5, <1>6, <1>7, <1>8, <1>9, <1>10 DEF Start

LEMMA RestOrder ==
  ASSUME TInv, OrderInv, NEW e \in Engine, Rest(e)
  PROVE  OrderInv'
<1> USE DEF At, Out, Stage, StagePc, Final
<1>1. CASE Join(e)
  <2>1. pc[<<e, "main">>] = "join" /\ \A b \in Branch : Through(e, b)
    BY <1>1, Names DEF Join, Through
  <2>2. PICK l \in {"fsList", "check"} : pc' = [pc EXCEPT ![<<e, "main">>] = l]
    BY <1>1, Names DEF Join, Goto
  <2>3. \A q \in Proc \ {<<e, "main">>} : buf'[q] = buf[q]
    BY <1>1 DEF Join
  <2> QED BY <2>1, <2>2, <2>3, Names, OneMoves
<1>2. CASE Raise(e)
  BY <1>2, MainMoves DEF Raise
<1>3. CASE ClassifyStatus(e)
  <2>1. PICK l \in {"fsList", "final"} : Goto(Main(e), l)
    BY <1>3 DEF ClassifyStatus
  <2> QED BY <1>3, <2>1, MainMoves DEF ClassifyStatus
<1>4. CASE FinalCheck(e)
  <2>1. PICK l \in {"fsList", "setFinal", "record"} : Goto(Main(e), l)
    BY <1>4 DEF FinalCheck
  <2> QED BY <1>4, <2>1, MainMoves DEF FinalCheck
<1>5. CASE SetVerdict(e)
  BY <1>5, MainMoves DEF SetVerdict
<1>6. CASE Record(e) \/ RecordStopped(e)
  BY <1>6, GoneOrder DEF Record, RecordStopped, Exit
<1>7. CASE ListRunning(e)
  <2>1. PICK l \in {"fsEach", "fcEach"} : Goto(Main(e), l)
    BY <1>7 DEF ListRunning
  <2> QED BY <1>7, <2>1, MainMoves DEF ListRunning
<1>8. CASE FailRunning(e)
  BY <1>8, MainWrites DEF FailRunning, FailRow
<1>9. CASE FinalizeStopped(e)
  BY <1>9, MainMoves DEF FinalizeStopped
<1>10. CASE CrashCheck(e)
  <2>1. PICK l \in {"fcClear", "fcList"} : Goto(Main(e), l)
    BY <1>10 DEF CrashCheck
  <2> QED BY <1>10, <2>1, MainMoves DEF CrashCheck
<1>11. CASE FinalizeCrash(e)
  BY <1>11, MainMoves DEF FinalizeCrash
<1>12. CASE ClearPid(e)
  <2>1. CASE Exit(e)
    BY <2>1, GoneOrder DEF Exit
  <2>2. CASE ~Exit(e)
    BY <1>12, <2>2, MainMoves DEF ClearPid
  <2> QED BY <2>1, <2>2
<1> QED BY <1>1, <1>2, <1>3, <1>4, <1>5, <1>6, <1>7, <1>8, <1>9, <1>10, <1>11, <1>12 DEF Rest

LEMMA ThreadOrder ==
  ASSUME TInv, OrderInv, NEW e \in Engine, NEW t \in Thread, ThreadNext(e, t)
  PROVE  OrderInv'
<1>1. CASE Save(<<e, t>>)
  BY <1>1, SaveOrder, ProcType
<1>2. CASE Step(e, t)
  BY <1>2, StepOrder
<1>3. CASE Start(e) \/ Rest(e)
  BY <1>3, StartOrder, RestOrder
<1>4. CASE ForkPort(e)
  <2>1. \A f \in Engine, u \in Thread :
          /\ pc'[<<f, u>>] = IF f = e /\ u = "port" THEN "check" ELSE pc[<<f, u>>]
          /\ buf'[<<f, u>>] = buf[<<f, u>>]
    BY <1>4, ProcType, Names DEF ForkPort, TInv, TypeOK
  <2>2. pc[<<e, "active">>] \notin Out
    BY <1>4 DEF ForkPort, At, Out
  <2>3. ASSUME NEW f \in Engine \ {e} PROVE InOrder(f)'
    <3>1. \A u \in Thread : pc'[<<f, u>>] = pc[<<f, u>>] /\ buf'[<<f, u>>] \in {NoDoc, buf[<<f, u>>]}
      BY <2>1
    <3> QED BY <3>1, SameOrder
  <2>4. InOrder(e)'
    BY <2>1, <2>2, Names DEF OrderInv, InOrder, Through, PortThrough
  <2> QED BY <2>3, <2>4 DEF OrderInv
<1>5. CASE JoinPort(e)
  <2>1. pc[<<e, "active">>] = "joinPort" /\ PortThrough(e) /\ UNCHANGED buf
    BY <1>5 DEF JoinPort, At, PortThrough, Out
  <2>2. PICK l \in Out : pc' = [pc EXCEPT ![<<e, "active">>] = l]
    BY <1>5 DEF JoinPort, Goto, Out
  <2>3. "joinPort" \notin Out \cup {"off"} /\ l # "off" /\ "active" \in Thread /\ "active" # "main"
    BY Names DEF Out
  <2> QED BY <2>1, <2>2, <2>3, OneMoves
<1> QED BY <1>1, <1>2, <1>3, <1>4, <1>5 DEF ThreadNext

LEMMA OtherOrder ==
  ASSUME TInv, OrderInv, Serve \/ Request \/ \E e \in Engine : CliRun(e) \/ Die(e)
  PROVE  OrderInv'
<1> USE DEF At, Goto
<1>0. Dash \in Proc /\ pc \in [Proc -> Pc] /\ \A d : Put(Dash, d) => \A q \in Worker : buf'[q] = buf[q]
  BY ProcType DEF TInv, TypeOK, Put
<1>1. CASE Save(Dash)
  BY <1>0, <1>1, SaveOrder
<1>2. CASE PutPid \/ StopList \/ StopClear
  <2>1. PICK l : pc' = [pc EXCEPT ![Dash] = l]
    BY <1>2 DEF PutPid, StopList, StopClear
  <2> QED BY <1>2, <2>1, DashOrder DEF PutPid, StopList, StopClear
<1>3. CASE StopFailRow
  BY <1>0, <1>3, DashOrder DEF StopFailRow, FailRow
<1>4. CASE StopKill
  BY <1>4, GoneOrder DEF StopKill
<1>5. CASE StopContainers
  <2>1. CASE spawning = NoEngine
    BY <1>5, <2>1, DashOrder DEF StopContainers
  <2>2. CASE spawning # NoEngine
    <3>1. spawning \in Engine
      BY <2>2 DEF TInv, TypeOK
    <3> QED BY <1>5, <2>2, <3>1, SpawnOrder DEF StopContainers, Spawn
  <2> QED BY <2>1, <2>2
<1>6. CASE StartRun
  BY <1>6, SpawnOrder DEF StartRun, Spawn
<1>7. CASE Refuse
  BY <1>0, <1>7, DashOrder DEF Refuse
<1>8. CASE StopRun
  BY <1>0, <1>8, DashOrder DEF StopRun
<1>9. CASE ResetLimiter
  BY <1>0, <1>9, DashOrder DEF ResetLimiter
<1>10. ASSUME NEW e \in Engine, CliRun(e) PROVE OrderInv'
  <2>1. pc[Main(e)] = "none" /\ pc' = [pc EXCEPT ![Main(e)] = "boot"] /\ UNCHANGED buf
    BY <1>10 DEF CliRun
  <2>2. pc' = [pc EXCEPT ![Main(e)] = "boot", ![Dash] = pc[Dash]]
    BY <1>0, <2>1, ProcType
  <2> QED BY <2>1, <2>2, SpawnOrder
<1>11. ASSUME NEW e \in Engine, Die(e) PROVE OrderInv'
  BY <1>11, GoneOrder DEF Die, Exit
<1> QED BY <1>1, <1>2, <1>3, <1>4, <1>5, <1>6, <1>7, <1>8, <1>9, <1>10, <1>11 DEF Serve, Request

LEMMA InitOrder == Init => OrderInv
<1> SUFFICES ASSUME Init PROVE OrderInv
  OBVIOUS
<1>1. \A f \in Engine : /\ pc[<<f, "main">>] = "none" /\ pc[<<f, "active">>] = "off"
                        /\ buf[<<f, "port">>] = NoDoc
  BY ProcType, Names DEF Init
<1> QED BY <1>1 DEF OrderInv, InOrder, Out, Stage, StagePc, Final

LEMMA NextOrder == TInv /\ OrderInv /\ [Next]_vars => OrderInv'
<1> SUFFICES ASSUME TInv, OrderInv, [Next]_vars PROVE OrderInv'
  OBVIOUS
<1>1. ASSUME NEW e \in Engine, NEW t \in Thread, ThreadNext(e, t) PROVE OrderInv'
  BY <1>1, ThreadOrder
<1>2. CASE UNCHANGED vars
  BY <1>2 DEF vars, OrderInv, InOrder, Through, PortThrough
<1> QED BY <1>1, <1>2, OtherOrder DEF Next

\* For any ladder, any requests, crashes and deaths: merge and the stages after it
\* start when both branches and the port check have ended and saved their last row.
THEOREM StagesWait == Spec => []StagesAfterBranches
<1>1. TInv /\ OrderInv => StagesAfterBranches
  <2> SUFFICES ASSUME TInv, OrderInv, NEW e \in Engine, pc[Main(e)] \in Stage,
                      NEW t \in Thread \ {"main"}
               PROVE  ~Working(<<e, t>>) /\ buf[<<e, t>>] = NoDoc
    BY DEF StagesAfterBranches, Stage
  <2>1. \A b \in Branch : Through(e, b)
    BY Names DEF OrderInv, InOrder
  <2>2. PortThrough(e)
    BY <2>1, Names DEF OrderInv, InOrder, Through
  <2>3. pc[<<e, t>>] \in Out \cup {"off"} /\ buf[<<e, t>>] = NoDoc
    BY <2>1, <2>2, Names DEF Through, PortThrough
  <2> QED BY <2>3 DEF Working, Out, StagePc
<1> QED BY <1>1, InitOrder, NextOrder, TypesInductive, PTL DEF Spec

------------------------------------------------------------------------------
(* Alerts.  The verdict of an engine whose breaker has alerted is an anomaly:   *)
(* no thread is left that could alert between the verdict and the record.       *)

AlertInv == \A e \in Engine : pc[Main(e)] \in Final /\ e \in alert => verdict[e] = "anomaly"

\* Nobody comes to the end of its run, nobody's verdict changes there, no alert.
Calm ==
  /\ \A f \in Engine : pc'[Main(f)] \in Final => pc[Main(f)] \in Final /\ verdict'[f] = verdict[f]
  /\ alert' \subseteq alert

LEMMA CalmAlerts == ASSUME AlertInv, Calm PROVE AlertInv'
BY DEF AlertInv, Calm, Main

LEMMA GoneCalm == ASSUME TInv, NEW es, NEW l, Gone(es, l) PROVE Calm
<1>1. \A f \in Engine : /\ pc'[<<f, "main">>] = IF f \in es THEN "gone" ELSE pc[<<f, "main">>]
                        /\ verdict'[f] = IF f \in es THEN "running" ELSE verdict[f]
                        /\ Main(f) = <<f, "main">>
  BY ProcType, Names DEF Gone, TInv, TypeOK
<1>2. alert' \subseteq alert
  BY DEF Gone
<1> QED BY <1>1, <1>2 DEF Calm, Final

\* A process moves to l; if it is a main thread, not to its end.
LEMMA MovesCalm ==
  ASSUME TInv, NEW p \in Proc, NEW l, pc' = [pc EXCEPT ![p] = l],
         l \in Final => pc[p] \in Final, UNCHANGED <<alert, verdict>>
  PROVE  Calm
<1>1. \A f \in Engine : pc'[Main(f)] \in {l, pc[Main(f)]} /\ (pc'[Main(f)] # pc[Main(f)] => p = Main(f))
  BY ProcType DEF TInv, TypeOK
<1> QED BY <1>1 DEF Calm

LEMMA StayCalm == ASSUME UNCHANGED <<pc, alert, verdict>> PROVE Calm
BY DEF Calm, Main

LEMMA StartCalm == ASSUME TInv, NEW e \in Engine, Start(e) PROVE Calm
<1> USE DEF At, Goto, engineVars, Final
<1>0. Main(e) \in Proc
  BY ProcType
<1>1. CASE NothingToResume(e)
  BY <1>1, GoneCalm DEF NothingToResume, Exit
<1>2. CASE WriteRunPid(e)
  BY <1>0, <1>2, MovesCalm DEF WriteRunPid
<1>3. CASE NewRunState(e)
  BY <1>0, <1>3, MovesCalm DEF NewRunState
<1>4. CASE InitState(e)
  BY <1>0, <1>4, MovesCalm DEF InitState
<1>5. CASE BeginRun(e)
  BY <1>0, <1>5, MovesCalm DEF BeginRun
<1>6. CASE StartCheck(e)
  <2>1. PICK l \in {"fsList", "reset", "fcCheck"} : Goto(Main(e), l)
    BY <1>6 DEF StartCheck
  <2> QED BY <1>0, <1>6, <2>1, MovesCalm DEF StartCheck
<1>7. CASE LoadPauses(e)
  BY <1>0, <1>7, MovesCalm DEF LoadPauses
<1>8. CASE ResetOne(e)
  BY <1>8, StayCalm DEF ResetOne
<1>9. CASE ResetAll(e)
  BY <1>0, <1>9, MovesCalm DEF ResetAll
<1>10. CASE Fork(e)
  <2>1. UNCHANGED <<alert, verdict>>
    BY <1>10 DEF Fork
  <2>2. /\ pc' = [pc EXCEPT ![<<e, "main">>] = "join", ![<<e, "passive">>] = "snap",
                           ![<<e, "active">>] = "snap"]
        /\ pc \in [Proc -> Pc] /\ \A f \in Engine, u \in Thread : <<f, u>> \in Proc
    BY <1>10, ProcType, Names DEF Fork, TInv, TypeOK
  <2>3. pc'[<<e, "main">>] = "join"
    BY <2>2, Names
  <2>4. \A f \in Engine \ {e} : pc'[<<f, "main">>] = pc[<<f, "main">>]
    BY <2>2, Names
  <2> QED BY <2>1, <2>3, <2>4, Names DEF Calm
<1> QED BY <1>1, <1>2, <1>3, <1>4, <1>5, <1>6, <1>7, <1>8, <1>9, <1>10 DEF Start

LEMMA RestAlerts ==
  ASSUME TInv, AlertInv, NEW e \in Engine, Rest(e)
  PROVE  AlertInv'
<1> USE DEF At, Goto, engineVars
<1>0. Main(e) \in Proc
  BY ProcType
<1>1. CASE Join(e)
  <2>1. PICK l \in {"fsList", "check"} : Goto(Main(e), l)
    BY <1>1 DEF Join
  <2>2. Calm
    BY <1>0, <1>1, <2>1, MovesCalm DEF Join, Final
  <2> QED BY <2>2, CalmAlerts
<1>2. CASE Raise(e)
  BY <1>0, <1>2, MovesCalm, CalmAlerts DEF Raise, Final
<1>3. CASE ClassifyStatus(e)
  <2>1. CASE Stopped
    BY <1>0, <1>3, <2>1, MovesCalm, CalmAlerts DEF ClassifyStatus, Final
  <2>2. CASE ~Stopped
    <3>1. PICK v \in Verdicts(e) : verdict' = [verdict EXCEPT ![e] = v]
      BY <1>3, <2>2 DEF ClassifyStatus
    <3>2. e \in alert => v = "anomaly"
      BY <3>1 DEF Verdicts
    <3>3. verdict'[e] = v /\ \A f \in Engine \ {e} : verdict'[f] = verdict[f]
      BY <3>1 DEF TInv, TypeOK
    <3>4. \A f \in Engine \ {e} : pc'[Main(f)] = pc[Main(f)]
      BY <1>3, <2>2, ProcType, Names DEF ClassifyStatus, TInv, TypeOK
    <3>5. alert' = alert
      BY <1>3 DEF ClassifyStatus
    <3>6. ASSUME NEW f \in Engine, pc'[Main(f)] \in Final, f \in alert PROVE verdict'[f] = "anomaly"
      BY <3>2, <3>3, <3>4, <3>6 DEF AlertInv
    <3> QED BY <3>5, <3>6 DEF AlertInv, Main
  <2> QED BY <2>1, <2>2
<1>4. CASE FinalCheck(e)
  <2>1. PICK l \in {"fsList", "setFinal", "record"} : Goto(Main(e), l)
    BY <1>4 DEF FinalCheck
  <2>2. Calm
    BY <1>0, <1>4, <2>1, MovesCalm DEF FinalCheck, Final
  <2> QED BY <2>2, CalmAlerts
<1>5. CASE SetVerdict(e)
  BY <1>0, <1>5, MovesCalm, CalmAlerts DEF SetVerdict, Final
<1>6. CASE Record(e) \/ RecordStopped(e)
  BY <1>6, GoneCalm, CalmAlerts DEF Record, RecordStopped, Exit
<1>7. CASE ListRunning(e)
  <2>1. PICK l \in {"fsEach", "fcEach"} : Goto(Main(e), l)
    BY <1>7 DEF ListRunning
  <2>2. Calm
    BY <1>0, <1>7, <2>1, MovesCalm DEF ListRunning, Final
  <2> QED BY <2>2, CalmAlerts
<1>8. CASE FailRunning(e)
  BY <1>8, StayCalm, CalmAlerts DEF FailRunning
<1>9. CASE FinalizeStopped(e)
  BY <1>0, <1>9, MovesCalm, CalmAlerts DEF FinalizeStopped, Final
<1>10. CASE CrashCheck(e)
  <2>1. PICK l \in {"fcClear", "fcList"} : Goto(Main(e), l)
    BY <1>10 DEF CrashCheck
  <2>2. Calm
    BY <1>0, <1>10, <2>1, MovesCalm DEF CrashCheck, Final
  <2> QED BY <2>2, CalmAlerts
<1>11. CASE FinalizeCrash(e)
  BY <1>0, <1>11, MovesCalm, CalmAlerts DEF FinalizeCrash, Final
<1>12. CASE ClearPid(e)
  <2>1. CASE Exit(e)
    BY <2>1, GoneCalm, CalmAlerts DEF Exit
  <2>2. CASE ~Exit(e)
    BY <1>0, <1>12, <2>2, MovesCalm, CalmAlerts DEF ClearPid, Final
  <2> QED BY <2>1, <2>2
<1> QED BY <1>1, <1>2, <1>3, <1>4, <1>5, <1>6, <1>7, <1>8, <1>9, <1>10, <1>11, <1>12 DEF Rest

LEMMA StepAlerts ==
  ASSUME TInv, OrderInv, AlertInv, NEW e \in Engine, NEW t \in Thread, Step(e, t)
  PROVE  AlertInv'
<1>1. verdict' = verdict /\ (alert' = alert \/ (alert' = alert \cup {e} /\ pc[<<e, t>>] = "tool"))
  BY DEF Step, Snapshot, CheckStop, CheckSkip, Release, BudgetSpent, GuardRun, SetRunning, Launch,
         ToolEnds, ToolTrips, WorkNoTool, CheckAgain, StopFails, GuardDone, SetDone, IngestLive,
         SetFailed, ThreadEnds, At, engineVars
<1>2. PICK l : pc' = [pc EXCEPT ![<<e, t>>] = l] /\ l \notin Final
  BY StepMoves
<1>3. <<e, t>> \in Proc
  BY ProcType
<1>4. CASE alert' = alert
  BY <1>1, <1>2, <1>3, <1>4, MovesCalm, CalmAlerts
<1>5. CASE alert' = alert \cup {e} /\ pc[<<e, t>>] = "tool"
  <2>1. pc[<<e, "main">>] \notin Final
    <3> SUFFICES ASSUME pc[<<e, "main">>] \in Final PROVE FALSE
      OBVIOUS
    <3>1. t # "main"
      BY <1>5 DEF Final
    <3>2. \A b \in Branch : Through(e, b)
      BY DEF OrderInv, InOrder, Stage
    <3>3. PortThrough(e)
      BY <3>2, Names DEF OrderInv, InOrder, Through
    <3> QED BY <1>5, <3>1, <3>2, <3>3, Names DEF Through, PortThrough, Out
  <2>2. \A f \in Engine : pc'[Main(f)] \in Final => pc[Main(f)] \in Final
    BY <1>2, <1>3, ProcType DEF TInv, TypeOK
  <2> QED BY <1>1, <1>5, <2>1, <2>2, Names DEF AlertInv
<1> QED BY <1>1, <1>4, <1>5

LEMMA OtherCalm ==
  ASSUME TInv, Serve \/ Request \/ \E e \in Engine : CliRun(e) \/ Die(e)
  PROVE  Calm
<1> USE DEF At, Goto, engineVars
<1>0. Dash \in Proc /\ pc \in [Proc -> Pc] /\ \A f \in Engine : Main(f) # Dash /\ Main(f) \in Proc
  BY ProcType DEF TInv, TypeOK
<1>a. \A l : pc' = [pc EXCEPT ![Dash] = l] => \A f \in Engine : pc'[Main(f)] = pc[Main(f)]
  BY <1>0
<1>b. ASSUME NEW e \in Engine, NEW l, UNCHANGED <<alert, verdict>>,
             pc' = [pc EXCEPT ![Main(e)] = "boot", ![Dash] = l]
      PROVE  Calm
  <2>1. \A f \in Engine : pc'[Main(f)] \in {"boot", pc[Main(f)]}
    BY <1>0, <1>b
  <2> QED BY <1>b, <2>1 DEF Calm, Final
<1>1. CASE Save(Dash)
  BY <1>1, StayCalm DEF Save
<1>2. CASE PutPid \/ StopList \/ StopClear
  BY <1>a, <1>2 DEF PutPid, StopList, StopClear, Calm
<1>3. CASE StopFailRow \/ Refuse \/ ResetLimiter
  BY <1>3, StayCalm DEF StopFailRow, Refuse, ResetLimiter
<1>4. CASE StopKill
  BY <1>4, GoneCalm DEF StopKill
<1>5. CASE StopContainers
  <2>1. CASE spawning = NoEngine
    BY <1>5, <1>a, <2>1 DEF StopContainers, Calm
  <2>2. CASE spawning # NoEngine
    <3>1. spawning \in Engine
      BY <2>2 DEF TInv, TypeOK
    <3> QED BY <1>5, <1>b, <2>2, <3>1 DEF StopContainers, Spawn
  <2> QED BY <2>1, <2>2
<1>6. CASE StartRun
  BY <1>6, <1>b DEF StartRun, Spawn
<1>7. CASE StopRun
  BY <1>a, <1>7 DEF StopRun, Calm
<1>8. ASSUME NEW e \in Engine, CliRun(e) PROVE Calm
  BY <1>0, <1>8, MovesCalm DEF CliRun, Final
<1>9. ASSUME NEW e \in Engine, Die(e) PROVE Calm
  BY <1>9, GoneCalm DEF Die, Exit
<1> QED BY <1>1, <1>2, <1>3, <1>4, <1>5, <1>6, <1>7, <1>8, <1>9 DEF Serve, Request

LEMMA NextAlerts == TInv /\ OrderInv /\ AlertInv /\ [Next]_vars => AlertInv'
<1> SUFFICES ASSUME TInv, OrderInv, AlertInv, [Next]_vars PROVE AlertInv'
  OBVIOUS
<1>1. ASSUME NEW e \in Engine, NEW t \in Thread, ThreadNext(e, t) PROVE AlertInv'
  <2>1. CASE Save(<<e, t>>)
    BY <2>1, StayCalm, CalmAlerts DEF Save, engineVars
  <2>2. CASE Step(e, t)
    BY <2>2, StepAlerts
  <2>3. CASE Start(e)
    BY <2>3, StartCalm, CalmAlerts
  <2>4. CASE Rest(e)
    BY <2>4, RestAlerts
  <2>5. CASE ForkPort(e)
    <3>1. <<e, "port">> \in Proc
      BY ProcType, Names
    <3> QED BY <2>5, <3>1, MovesCalm, CalmAlerts DEF ForkPort, engineVars, Final
  <2>6. CASE JoinPort(e)
    <3>1. <<e, "active">> \in Proc
      BY ProcType, Names
    <3>2. PICK l \in Out : pc' = [pc EXCEPT ![<<e, "active">>] = l]
      BY <2>6 DEF JoinPort, Goto, Out
    <3> QED BY <2>6, <3>1, <3>2, MovesCalm, CalmAlerts DEF JoinPort, engineVars, Final, Out
  <2> QED BY <1>1, <2>1, <2>2, <2>3, <2>4, <2>5, <2>6 DEF ThreadNext
<1>2. CASE UNCHANGED vars
  BY <1>2, StayCalm, CalmAlerts DEF vars
<1> QED BY <1>1, <1>2, OtherCalm, CalmAlerts DEF Next

LEMMA InitAlerts == Init => AlertInv
BY DEF Init, AlertInv

\* An engine's verdict gets into the history by two actions.
LEMMA ThreadRecords ==
  ASSUME NEW f \in Engine, NEW t \in Thread, ThreadNext(f, t)
  PROVE  recorded' = recorded \/ Record(f) \/ RecordStopped(f)
<1>1. ASSUME Step(f, t) PROVE recorded' = recorded
  BY <1>1 DEF Step, Snapshot, CheckStop, CheckSkip, Release, BudgetSpent, GuardRun, SetRunning, Launch,
         ToolEnds, ToolTrips, WorkNoTool, CheckAgain, StopFails, GuardDone, SetDone, IngestLive,
         SetFailed, ThreadEnds, Ends, history
<1>2. ASSUME Start(f) PROVE recorded' = recorded
  BY <1>2 DEF Start, NothingToResume, WriteRunPid, NewRunState, InitState, BeginRun, StartCheck,
         LoadPauses, ResetOne, ResetAll, Fork, history
<1>3. ASSUME Rest(f), ~Record(f), ~RecordStopped(f) PROVE recorded' = recorded
  BY <1>3 DEF Rest, Join, Raise, ClassifyStatus, FinalCheck, SetVerdict, ListRunning, FailRunning,
         FinalizeStopped, CrashCheck, FinalizeCrash, ClearPid, history
<1> QED BY <1>1, <1>2, <1>3 DEF ThreadNext, Save, ForkPort, JoinPort, history

LEMMA WhoRecords ==
  ASSUME [Next]_vars
  PROVE  recorded' = recorded \/ \E f \in Engine : Record(f) \/ RecordStopped(f)
<1>1. CASE Serve \/ Request \/ (\E f \in Engine : CliRun(f) \/ Die(f)) \/ UNCHANGED vars
  BY <1>1 DEF Serve, Request, Save, PutPid, StopList, StopFailRow, StopKill, StopClear,
         StopContainers, StartRun, Refuse, StopRun, ResetLimiter, CliRun, Die, vars, history
<1> QED BY <1>1, ThreadRecords DEF Next

\* What a step records of an engine whose breaker has alerted.
LEMMA RecordAlerts ==
  ASSUME TInv, AlertInv, [Next]_vars, NEW e \in alert, recorded[e] = "none"
  PROVE  recorded'[e] \in {"none", "stopped", "anomaly"}
<1>0. e \in Engine /\ recorded \in [Engine -> RunStatus \cup {"none"}]
  BY DEF TInv, TypeOK
<1>1. CASE recorded' = recorded
  BY <1>1
<1>2. ASSUME NEW f \in Engine, Record(f) PROVE recorded'[e] \in {"none", "stopped", "anomaly"}
  <2>1. pc[Main(f)] \in Final /\ recorded' = [recorded EXCEPT ![f] = verdict[f]]
    BY <1>2 DEF Record, At, Final
  <2> QED BY <1>0, <2>1 DEF AlertInv
<1>3. ASSUME NEW f \in Engine, RecordStopped(f) PROVE recorded'[e] \in {"none", "stopped", "anomaly"}
  BY <1>0, <1>3 DEF RecordStopped
<1> QED BY <1>1, <1>2, <1>3, WhoRecords

\* For any ladder, any requests, crashes and deaths: an engine whose breaker has
\* alerted records an anomaly, or the operator's stop.
THEOREM AlertsShow == Spec => AlertNotMasked
<1>1. TInv /\ AlertInv /\ [Next]_vars
        => [\A e \in alert : recorded[e] = "none" => recorded'[e] \in {"none", "stopped", "anomaly"}]_vars
  BY RecordAlerts
<1> QED BY <1>1, InitOrder, NextOrder, InitAlerts, NextAlerts, TypesInductive, PTL
     DEF Spec, AlertNotMasked
-----------------------------------------------------------------------------
(***************************************************************************)
(* The record.  When the main thread has prepared the document with its    *)
(* verdict, nobody else of its engine has anything left to save, so the    *)
(* document it saves is the run's last one.  It stays the last one for as  *)
(* long as run.pid names the engine: another engine writes its own pid     *)
(* before its first document, and a STOP, which replaces the status, takes *)
(* run.pid away before it returns.                                         *)
(***************************************************************************)
QuietDash == pc[Dash] \in {"idle", "putPid"}

\* The document with the verdict of e is on its way, or in the file.
Written(e) ==
  IF buf[Main(e)] # NoDoc THEN buf[Main(e)].run = verdict[e]
  ELSE disk # NoDoc /\ disk.run = verdict[e]

Shown(e) ==
  /\ pc[Main(e)] = "after" => Written(e)
  /\ pc[Main(e)] = "record" => Written(e) /\ buf[Main(e)] = NoDoc
  /\ recorded[e] # "none" /\ pidfile = e => disk # NoDoc /\ disk.run = recorded[e]

\* What holds whatever the dashboard does: an engine records last of all, and has
\* nothing to save before it has written its pid.
RecordLast == \A e \in Engine : recorded[e] # "none" => pc[Main(e)] = "gone"
BootEmpty == \A e \in Engine : pc[Main(e)] = "boot" => buf[Main(e)] = NoDoc

\* The pid the parent is about to write: the engine has not begun, or has written it
\* itself, or has ended without a record.
Named ==
  pc[Dash] = "putPid" =>
    \/ pc[Main(spawning)] = "boot" \/ pidfile = spawning
    \/ pc[Main(spawning)] = "gone" /\ recorded[spawning] = "none"

\* A STOP that comes to its end has taken run.pid away.
Cleared == pc[Dash] = "docker" => pidfile = NoEngine

ShownInv ==
  RecordLast /\ BootEmpty /\ Named /\ Cleared /\ (QuietDash => \A e \in Engine : Shown(e))

\* An engine whose main thread is not about to record has only its record to keep.
LEMMA NotThere ==
  ASSUME NEW e \in Engine, recorded'[e] = "none", pc'[Main(e)] \notin {"after", "record"}
  PROVE  Shown(e)'
BY DEF Shown, Main

\* Nor does anything change that leaves the main thread and the file alone, and does
\* not give the engine its pid back.
LEMMA MainLeft ==
  ASSUME NEW e \in Engine, Shown(e), pc'[Main(e)] = pc[Main(e)], buf'[Main(e)] = buf[Main(e)],
         disk' = disk, verdict'[e] = verdict[e], recorded'[e] = recorded[e],
         pidfile' = e => pidfile = e \/ recorded[e] = "none"
  PROVE  Shown(e)'
BY DEF Shown, Written, Main

\* A thread's step that is no save and none of the main thread's last.
LEMMA StepShown ==
  ASSUME TInv, NEW e \in Engine, NEW t \in Thread, Shown(e), recorded[e] = "none", Step(e, t)
  PROVE  Shown(e)'
<1>1. disk' = disk /\ verdict' = verdict /\ recorded' = recorded
  BY DEF Step, Snapshot, CheckStop, CheckSkip, Release, BudgetSpent, GuardRun, SetRunning, Launch,
         ToolEnds, ToolTrips, WorkNoTool, CheckAgain, StopFails, GuardDone, SetDone, IngestLive,
         SetFailed, ThreadEnds, Ends, engineVars, history
<1>2. \A q \in Proc \ {<<e, t>>} : buf'[q] = buf[q]
  BY StepMoves
<1>3. PICK l : pc' = [pc EXCEPT ![<<e, t>>] = l] /\ l \notin Final
  BY StepMoves
<1>4. CASE t = "main"
  <2>1. pc'[Main(e)] = l
    BY <1>3, <1>4, ProcType, Names DEF TInv, TypeOK
  <2> QED BY <1>1, <1>3, <2>1, NotThere DEF Final
<1>5. CASE t # "main"
  <2>1. Main(e) \in Proc \ {<<e, t>>}
    BY <1>5, ProcType, Names
  <2>2. pc'[Main(e)] = pc[Main(e)] /\ buf'[Main(e)] = buf[Main(e)]
    BY <1>2, <1>3, <2>1 DEF TInv, TypeOK
  <2> QED BY <1>1, <2>2, MainLeft
<1> QED BY <1>4, <1>5

LEMMA StartShown ==
  ASSUME TInv, NEW e \in Engine, recorded[e] = "none", Start(e)
  PROVE  Shown(e)'
<1>1. recorded' = recorded
  BY DEF Start, NothingToResume, WriteRunPid, NewRunState, InitState, BeginRun, StartCheck,
         LoadPauses, ResetOne, ResetAll, Fork, history
<1>2. pc[Main(e)] \notin Final
  BY DEF Start, NothingToResume, WriteRunPid, NewRunState, InitState, BeginRun, StartCheck,
         LoadPauses, ResetOne, ResetAll, Fork, At, Final
<1>3. pc'[Main(e)] \notin Final
  BY <1>2, StartCalm DEF Calm
<1> QED BY <1>1, <1>3, NotThere DEF Final

\* The verdict of an engine that finds no stop is saved, shown, and then recorded.
LEMMA RestShown ==
  ASSUME TInv, NEW e \in Engine, Shown(e), Unstopped(e), recorded[e] = "none", Rest(e)
  PROVE  Shown(e)'
<1> USE DEF At, Goto
<1>0. Main(e) \in Proc /\ Main(e) # Dash /\ Main(e)[1] = e /\ pc \in [Proc -> Pc] /\ DOMAIN buf = Proc
  BY ProcType DEF TInv, TypeOK
<1>a. ASSUME NEW l, l \notin {"after", "record"}, pc' = [pc EXCEPT ![Main(e)] = l], recorded' = recorded
      PROVE  Shown(e)'
  BY <1>0, <1>a, NotThere
<1>b. ASSUME Exit(e), recorded' = recorded PROVE Shown(e)'
  BY <1>0, <1>b, NotThere DEF Exit, Gone
<1>1. CASE Join(e) \/ Raise(e) \/ ClassifyStatus(e) \/ ListRunning(e) \/ FinalizeStopped(e)
           \/ CrashCheck(e) \/ FinalizeCrash(e)
  <2>1. recorded' = recorded
    BY <1>1 DEF Join, Raise, ClassifyStatus, ListRunning, FinalizeStopped, CrashCheck, FinalizeCrash,
                history
  <2>2. PICK l : l \notin {"after", "record"} /\ pc' = [pc EXCEPT ![Main(e)] = l]
    BY <1>1 DEF Join, Raise, ClassifyStatus, ListRunning, FinalizeStopped, CrashCheck, FinalizeCrash
  <2> QED BY <2>1, <2>2, <1>a
<1>2. CASE ClearPid(e)
  <2>1. recorded' = recorded
    BY <1>2 DEF ClearPid, history
  <2>2. CASE Exit(e)
    BY <2>1, <2>2, <1>b
  <2>3. CASE ~Exit(e)
    BY <1>2, <2>1, <2>3, <1>a DEF ClearPid
  <2> QED BY <2>2, <2>3
<1>3. CASE FailRunning(e)
  <2>1. pc'[Main(e)] \notin {"after", "record"} /\ recorded' = recorded
    BY <1>3 DEF FailRunning, history
  <2> QED BY <2>1, NotThere
<1>4. CASE FinalCheck(e)
  <2>1. /\ buf[Main(e)] = NoDoc /\ UNCHANGED <<disk, buf, verdict, recorded>>
        /\ pc[Main(e)] \in {"final", "after"}
    BY <1>4 DEF FinalCheck, engineVars, history
  <2>2. PICK l \in {"fsList", "setFinal", "record"} :
          pc' = [pc EXCEPT ![Main(e)] = l] /\ (l = "record" => pc[Main(e)] = "after")
    BY <1>4 DEF FinalCheck
  <2>3. pc'[Main(e)] = l
    BY <1>0, <2>2
  <2>4. l = "record" => Written(e)
    BY <2>1, <2>2 DEF Shown
  <2> QED BY <2>1, <2>3, <2>4 DEF Shown, Written, Main
<1>5. CASE SetVerdict(e)
  <2>1. pc[Main(e)] = "setFinal" /\ pc' = [pc EXCEPT ![Main(e)] = "after"]
        /\ UNCHANGED <<disk, verdict, recorded>>
    BY <1>5 DEF SetVerdict, engineVars, history
  <2>2. ~Stopped
    BY <2>1 DEF Unstopped
  <2>3. Loaded \in Doc /\ Loaded.run # "stopped"
    BY <2>2, LoadType DEF TInv, TypeOK, Loaded, Stopped, OperatorStopped
  <2>4. buf' = [buf EXCEPT ![Main(e)] = WithRun(Loaded, verdict[e])]
    BY <1>5, <2>3 DEF SetVerdict, Put, KeepsStop
  <2>5. buf'[Main(e)] = WithRun(Loaded, verdict[e])
    BY <1>0, <2>4
  <2>6. WithRun(Loaded, verdict[e]).run = verdict[e]
    BY <2>3, RunOf
  <2>7. verdict[e] \in RunStatus
    BY DEF TInv, TypeOK
  <2>8. WithRun(Loaded, verdict[e]) # NoDoc
    BY <2>3, <2>7, DocType, NoDocAssumption
  <2>9. Written(e)'
    BY <2>1, <2>5, <2>6, <2>8 DEF Written, Main
  <2>10. pc'[Main(e)] = "after"
    BY <1>0, <2>1
  <2> QED BY <2>1, <2>9, <2>10 DEF Shown, Main
<1>6. CASE Record(e)
  <2>1. /\ pc[Main(e)] = "record" /\ Exit(e) /\ disk' = disk
        /\ recorded' = [recorded EXCEPT ![e] = verdict[e]]
    BY <1>6 DEF Record
  <2>2. disk # NoDoc /\ disk.run = verdict[e]
    BY <2>1 DEF Shown, Written
  <2>3. pc'[Main(e)] = "gone"
    BY <1>0, <2>1 DEF Exit, Gone
  <2>4. recorded'[e] = verdict[e]
    BY <2>1 DEF TInv, TypeOK
  <2> QED BY <2>1, <2>2, <2>3, <2>4 DEF Shown, Main
<1>7. CASE RecordStopped(e)
  BY <1>7 DEF RecordStopped, Unstopped, StopPc
<1> QED BY <1>1, <1>2, <1>3, <1>4, <1>5, <1>6, <1>7 DEF Rest

\* A document is saved: the main thread's own once the verdict is set, for then
\* nobody else of the engine has one.
LEMMA SaveShown ==
  ASSUME TInv, OrderInv, NEW e \in Engine, NEW t \in Thread, Shown(e), recorded[e] = "none",
         Save(<<e, t>>)
  PROVE  Shown(e)'
<1>1. /\ buf[<<e, t>>] # NoDoc /\ disk' = buf[<<e, t>>] /\ buf' = [buf EXCEPT ![<<e, t>>] = NoDoc]
      /\ UNCHANGED <<pc, verdict, recorded>>
  BY DEF Save, Put, engineVars, history
<1>2. CASE pc[Main(e)] \in {"after", "record"}
  <2>1. \A b \in Branch : Through(e, b)
    BY <1>2, Names DEF OrderInv, InOrder, Stage, Final
  <2>2. PortThrough(e)
    BY <2>1, Names DEF OrderInv, InOrder, Through
  <2>3. t = "main"
    BY <1>1, <2>1, <2>2, Names DEF Through, PortThrough
  <2>4. buf'[Main(e)] = NoDoc
    BY <1>1, <2>3, ProcType, Names DEF TInv, TypeOK
  <2>5. pc[Main(e)] = "after" /\ buf[Main(e)].run = verdict[e]
    BY <1>1, <1>2, <2>3, Names DEF Shown, Written
  <2>6. disk' # NoDoc /\ disk'.run = verdict'[e]
    BY <1>1, <2>3, <2>5, Names
  <2> QED BY <1>1, <2>4, <2>5, <2>6 DEF Shown, Written, Main
<1>3. CASE pc[Main(e)] \notin {"after", "record"}
  BY <1>1, <1>3, NotThere DEF Main
<1> QED BY <1>2, <1>3

\* What a step of an engine leaves of run.pid.
LEMMA PidMoves ==
  ASSUME NEW e \in Engine, NEW t \in Thread, ThreadNext(e, t)
  PROVE  pidfile' \in {pidfile, e, NoEngine}
<1>1. Step(e, t) => pidfile' = pidfile
  BY DEF Step, Snapshot, CheckStop, CheckSkip, Release, BudgetSpent, GuardRun, SetRunning, Launch,
         ToolEnds, ToolTrips, WorkNoTool, CheckAgain, StopFails, GuardDone, SetDone, IngestLive,
         SetFailed, ThreadEnds
<1>2. Start(e) => pidfile' \in {pidfile, e}
  BY DEF Start, NothingToResume, WriteRunPid, NewRunState, InitState, BeginRun, StartCheck,
         LoadPauses, ResetOne, ResetAll, Fork
<1>3. Rest(e) => pidfile' \in {pidfile, NoEngine}
  BY DEF Rest, Join, Raise, ClassifyStatus, FinalCheck, SetVerdict, Record, ListRunning, FailRunning,
         FinalizeStopped, CrashCheck, FinalizeCrash, ClearPid, RecordStopped
<1> QED BY <1>1, <1>2, <1>3 DEF ThreadNext, Save, ForkPort, JoinPort

\* A thread that is not the main one, or is past its label, leads nobody to the boot.
LEMMA ThreadBoots ==
  ASSUME TInv, BootEmpty, NEW e \in Engine, NEW t \in Thread, ThreadNext(e, t),
         pc'[Main(e)] = "boot"
  PROVE  buf'[Main(e)] = NoDoc
<1> USE DEF At, Goto
<1>0. /\ pc \in [Proc -> Pc] /\ DOMAIN buf = Proc /\ Main(e) = <<e, "main">>
      /\ \A u \in Thread : <<e, u>> \in Proc /\ <<e, u>> # Dash /\ <<e, u>>[1] = e
  BY ProcType DEF TInv, TypeOK
<1>a. ASSUME pc[Main(e)] = "boot", buf'[Main(e)] \in {buf[Main(e)], NoDoc} PROVE buf'[Main(e)] = NoDoc
  BY <1>a DEF BootEmpty
<1>1. CASE Step(e, t)
  <2>1. PICK l : pc' = [pc EXCEPT ![<<e, t>>] = l] /\ l \notin Final \cup {"off", "boot"}
    BY <1>1, StepMoves
  <2>2. t # "main" /\ pc[Main(e)] = "boot"
    BY <1>0, <2>1
  <2>3. \A q \in Proc \ {<<e, t>>} : buf'[q] = buf[q]
    BY <1>1, StepMoves
  <2>4. buf'[Main(e)] = buf[Main(e)]
    BY <1>0, <2>2, <2>3, Names
  <2> QED BY <1>a, <2>2, <2>4
<1>2. CASE Save(<<e, t>>)
  <2>1. pc' = pc /\ buf' = [buf EXCEPT ![<<e, t>>] = NoDoc]
    BY <1>2 DEF Save, Put
  <2> QED BY <1>0, <1>a, <2>1, Names
<1>3. CASE ForkPort(e) \/ JoinPort(e)
  <2>1. PICK p \in {<<e, "port">>, <<e, "active">>} : \E l : pc' = [pc EXCEPT ![p] = l]
    BY <1>3 DEF ForkPort, JoinPort
  <2>2. buf' = buf /\ pc'[Main(e)] = pc[Main(e)]
    BY <1>0, <1>3, <2>1 DEF ForkPort, JoinPort
  <2> QED BY <1>a, <2>2
<1>b. ASSUME Exit(e) PROVE FALSE
  BY <1>0, <1>b, Names DEF Exit, Gone
<1>c. ASSUME NEW l, l # "boot", pc' = [pc EXCEPT ![Main(e)] = l] PROVE FALSE
  BY <1>0, <1>c, Names
<1>4. CASE Start(e)
  <2>1. CASE ResetOne(e)
    BY <2>1 DEF ResetOne
  <2>2. CASE StartCheck(e)
    BY <1>c, <2>2 DEF StartCheck
  <2>3. CASE Fork(e)
    <3>1. pc' = [pc EXCEPT ![Main(e)] = "join", ![<<e, "passive">>] = "snap",
                           ![<<e, "active">>] = "snap"]
      BY <2>3 DEF Fork
    <3> QED BY <1>0, <3>1, Names
  <2> QED BY <1>4, <1>b, <1>c, <2>1, <2>2, <2>3
          DEF Start, NothingToResume, WriteRunPid, NewRunState, InitState, BeginRun, LoadPauses,
              ResetAll
<1>5. CASE Rest(e)
  <2>1. CASE FailRunning(e)
    BY <2>1 DEF FailRunning
  <2>2. CASE ~FailRunning(e)
    BY <1>5, <1>b, <1>c, <2>2
    DEF Rest, Join, Raise, ClassifyStatus, FinalCheck, SetVerdict, Record, ListRunning,
        FinalizeStopped, CrashCheck, FinalizeCrash, ClearPid, RecordStopped
  <2> QED BY <2>1, <2>2
<1> QED BY <1>1, <1>2, <1>3, <1>4, <1>5 DEF ThreadNext

\* At the boot an engine writes its pid, or finds nothing to resume.
LEMMA BootStep ==
  ASSUME TInv, BootEmpty, NEW e \in Engine, NEW t \in Thread, Early(e), pc[Main(e)] = "boot",
         ThreadNext(e, t)
  PROVE  /\ disk' = disk /\ recorded' = recorded
         /\ pidfile' = e \/ (pidfile' = pidfile /\ pc'[Main(e)] = "gone")
<1>1. /\ Main(e) = <<e, "main">> /\ <<e, "main">> \in Proc /\ <<e, "main">> # Dash
      /\ <<e, "main">>[1] = e /\ buf[<<e, "main">>] = NoDoc
  BY ProcType DEF BootEmpty
<1>2. \A u \in Thread \ {"main"} : pc[<<e, u>>] \in {"none", "off", "gone"} /\ buf[<<e, u>>] = NoDoc
  BY DEF Early, EarlyPc
<1>3. ~Step(e, t)
  BY <1>1, <1>2, StepMoves DEF StagePc
<1>4. ~Save(<<e, t>>) /\ (t = "active" => ~ForkPort(e) /\ ~JoinPort(e))
  BY <1>1, <1>2 DEF Save, ForkPort, JoinPort, At
<1>5. ~Rest(e)
  BY DEF Rest, Join, Raise, ClassifyStatus, FinalCheck, SetVerdict, Record, ListRunning, FailRunning,
         FinalizeStopped, CrashCheck, FinalizeCrash, ClearPid, RecordStopped, At
<1>6. NothingToResume(e) \/ WriteRunPid(e)
  BY <1>3, <1>4, <1>5 DEF ThreadNext, Start, NewRunState, InitState, BeginRun, StartCheck,
         LoadPauses, ResetOne, ResetAll, Fork, At
<1>7. CASE NothingToResume(e)
  BY <1>1, <1>7 DEF NothingToResume, Exit, Gone, history
<1>8. CASE WriteRunPid(e)
  BY <1>8 DEF WriteRunPid, history
<1> QED BY <1>6, <1>7, <1>8

\* A step of the engine that is up keeps its own claim.
LEMMA OwnShown ==
  ASSUME TInv, OrderInv, NEW e \in Engine, NEW t \in Thread, Shown(e), Unstopped(e),
         recorded[e] = "none", ThreadNext(e, t)
  PROVE  Shown(e)'
<1>1. ASSUME ForkPort(e) \/ JoinPort(e) PROVE Shown(e)'
  <2>1. UNCHANGED <<disk, buf, verdict, recorded>>
    BY <1>1 DEF ForkPort, JoinPort, engineVars, history
  <2>2. pc'[Main(e)] = pc[Main(e)]
    <3>1. pc \in [Proc -> Pc] /\ Main(e) # <<e, "port">> /\ Main(e) # <<e, "active">>
      BY Names DEF TInv, TypeOK
    <3>2. PICK p \in {<<e, "port">>, <<e, "active">>} : \E l : pc' = [pc EXCEPT ![p] = l]
      BY <1>1 DEF ForkPort, JoinPort, Goto
    <3> QED BY <3>1, <3>2, ProcType
  <2> QED BY <2>1, <2>2, MainLeft DEF Main
<1> QED BY <1>1, StepShown, StartShown, RestShown, SaveShown DEF ThreadNext

LEMMA ThreadShown ==
  ASSUME TInv, SInv, OInv, OrderInv, ShownInv, NEW e \in Engine, NEW t \in Thread, ThreadNext(e, t)
  PROVE  ShownInv'
<1>1. EngineFrame(e) /\ Up(e)
  BY ThreadFrame DEF SInv, EngineFrame
<1>2. /\ pc'[Dash] = pc[Dash] /\ spawning' = spawning
      /\ \A f \in Engine \ {e} : pc'[Main(f)] = pc[Main(f)] /\ buf'[Main(f)] = buf[Main(f)]
  BY <1>1, Names DEF EngineFrame
<1>3. recorded[e] = "none"
  BY <1>1 DEF ShownInv, RecordLast, Up
<1>4. recorded' = recorded \/ Record(e) \/ RecordStopped(e)
  BY ThreadRecords
<1>5. \A f \in Engine \ {e} : recorded'[f] = recorded[f] /\ ~Up(f)
  BY <1>1, <1>4 DEF Record, RecordStopped, TInv, TypeOK, OInv, OneEngine
<1>6. ASSUME Record(e) \/ RecordStopped(e)
      PROVE  pc'[Main(e)] = "gone" /\ pidfile' = pidfile
  <2>1. Exit(e) /\ pidfile' = pidfile
    BY <1>6 DEF Record, RecordStopped
  <2>2. Main(e) \in Proc /\ Main(e) # Dash /\ Main(e)[1] = e
    BY ProcType
  <2> QED BY <2>1, <2>2 DEF Exit, Gone
<1>7. RecordLast'
  BY <1>2, <1>3, <1>4, <1>5, <1>6 DEF ShownInv, RecordLast, Main
<1>8. BootEmpty'
  BY <1>2, ThreadBoots DEF ShownInv, BootEmpty, Main
<1>9. Cleared'
  BY <1>1, <1>2 DEF Cleared, SInv, NoneLeft
<1>10. QuietDash => Unstopped(e) /\ Early(e) /\ StaysUnstopped(e)
  BY <1>1, ThreadUnstopped DEF QuietDash, OInv, EnginesUnstopped, NoVerdictStopped, SInv
<1>11. pc[Dash] = "putPid" => e = spawning /\ (pc[Main(e)] = "boot" \/ pidfile = e)
  BY <1>1 DEF OInv, Bridged, ShownInv, Named, Up
<1>12. Named'
  <2> SUFFICES ASSUME pc[Dash] = "putPid"
               PROVE  pidfile' = e \/ (pc'[Main(e)] = "gone" /\ recorded'[e] = "none")
    BY <1>2, <1>11 DEF Named, Main
  <2>1. QuietDash
    BY DEF QuietDash
  <2>2. CASE pc[Main(e)] = "boot"
    BY <1>3, <1>10, <2>1, <2>2, BootStep DEF ShownInv
  <2>3. CASE pidfile = e
    <3>1. CASE Record(e) \/ RecordStopped(e)
      BY <1>6, <2>3, <3>1
    <3>2. CASE recorded' = recorded
      <4>1. pidfile' = e \/ ~Up(e)'
        BY <1>10, <2>1, <2>3 DEF StaysUnstopped
      <4>2. ~Up(e)' => pc'[Main(e)] = "gone"
        BY <1>1, Names DEF EngineFrame
      <4> QED BY <1>3, <3>2, <4>1, <4>2
    <3> QED BY <1>4, <3>1, <3>2
  <2> QED BY <1>11, <2>2, <2>3
<1>13. ASSUME QuietDash, NEW f \in Engine PROVE Shown(f)'
  <2>1. Shown(f)
    BY <1>13 DEF ShownInv
  <2>2. CASE f = e
    BY <1>3, <1>10, <1>13, <2>1, <2>2, OwnShown
  <2>3. CASE f # e
    <3>1. pc'[Main(f)] = pc[Main(f)] /\ pc[Main(f)] \in {"none", "gone"} /\ recorded'[f] = recorded[f]
      BY <1>2, <1>5, <2>3 DEF Up
    <3>2. ASSUME pidfile' = f, recorded[f] # "none" PROVE pidfile = f /\ disk' = disk
      <4>1. pidfile = f
        BY <2>3, <3>2, PidMoves, ProcAssumption
      <4>2. pc[Dash] = "putPid" /\ pc[Main(e)] = "boot"
        BY <1>1, <1>11, <1>13, <2>3, <4>1 DEF QuietDash, OInv, PidNames
      <4> QED BY <1>10, <1>13, <4>1, <4>2, BootStep DEF ShownInv
    <3> QED BY <2>1, <3>1, <3>2 DEF Shown, Main
  <2> QED BY <2>2, <2>3
<1> QED BY <1>2, <1>7, <1>8, <1>9, <1>12, <1>13 DEF ShownInv, QuietDash

\* The dashboard leaves the main threads where they are, ends them, or starts one.
LEMMA DashBoots ==
  ASSUME RecordLast, BootEmpty, recorded' = recorded,
         \A f \in Engine :
           \/ pc'[Main(f)] = pc[Main(f)] /\ buf'[Main(f)] = buf[Main(f)]
           \/ pc'[Main(f)] = "gone"
           \/ pc[Main(f)] = "none" /\ buf'[Main(f)] = NoDoc
  PROVE  RecordLast' /\ BootEmpty'
BY DEF RecordLast, BootEmpty, Main

\* An engine is started when nobody is up: by START, RESUME, or at the end of RESTART.
LEMMA SpawnShown ==
  ASSUME TInv, SInv, ShownInv, \A e \in Engine : ~Up(e), NEW f \in Engine, NEW fresh \in BOOLEAN,
         Spawn(f, fresh), UNCHANGED <<disk, pidfile, buf, verdict, recorded>>,
         QuietDash \/ pidfile = NoEngine
  PROVE  ShownInv'
<1>1. /\ pc[Main(f)] = "none" /\ spawning' = f
      /\ pc' = [pc EXCEPT ![Main(f)] = "boot", ![Dash] = "putPid"]
  BY DEF Spawn
<1>2. /\ pc'[Dash] = "putPid" /\ pc'[Main(f)] = "boot"
      /\ \A g \in Engine \ {f} : pc'[Main(g)] = pc[Main(g)]
  BY <1>1, ProcType DEF TInv, TypeOK
<1>3. RecordLast' /\ BootEmpty'
  BY <1>1, <1>2, DashBoots, Names DEF ShownInv, SInv, GoneIsGone
<1>4. Named' /\ Cleared'
  BY <1>1, <1>2 DEF Named, Cleared, Main
<1>5. ASSUME NEW g \in Engine PROVE Shown(g)'
  <2>1. pc'[Main(g)] \in {"boot", "none", "gone"} /\ (g = f => recorded[g] = "none")
    BY <1>1, <1>2 DEF Up, ShownInv, RecordLast
  <2>2. CASE QuietDash
    BY <2>1, <2>2 DEF ShownInv, Shown, Main
  <2>3. CASE pidfile = NoEngine
    BY <2>1, <2>3, ProcAssumption DEF Shown, Main
  <2> QED BY <2>2, <2>3
<1> QED BY <1>3, <1>4, <1>5 DEF ShownInv

\* What the dashboard does, and an engine that dies.
LEMMA OtherShown ==
  ASSUME TInv, SInv, OInv, ShownInv, "reset" \notin Kinds,
         Serve \/ Request \/ \E e \in Engine : CliRun(e) \/ Die(e)
  PROVE  ShownInv'
<1> USE DEF At, Goto
<1>0. /\ Dash \in Proc /\ pc \in [Proc -> Pc] /\ DOMAIN buf = Proc
      /\ \A f \in Engine : Main(f) # Dash /\ Main(f) \in Proc /\ Main(f)[1] = f
  BY ProcType DEF TInv, TypeOK
<1>1. /\ QuietDash => buf[Dash] = NoDoc /\ \A f \in Engine : Shown(f)
      /\ pc[Dash] \in {"clear", "docker"} => \A f \in Engine : ~Up(f)
  BY DEF ShownInv, QuietDash, OInv, EnginesUnstopped, SInv, NoneLeft
<1> DEFINE Apart ==
      \A f \in Engine : pc'[Main(f)] = pc[Main(f)] /\ buf'[Main(f)] = buf[Main(f)]
<1>a. ASSUME Apart, recorded' = recorded PROVE RecordLast' /\ BootEmpty'
  BY <1>a, DashBoots DEF ShownInv
<1>b. ASSUME Apart, recorded' = recorded, pc'[Dash] \in {"list", "each"} PROVE ShownInv'
  BY <1>a, <1>b DEF ShownInv, QuietDash, Named, Cleared
<1>2. CASE StartRun
  <2>1. PICK f \in Engine, fresh \in BOOLEAN : Spawn(f, fresh)
    BY <1>2 DEF StartRun
  <2>2. /\ QuietDash /\ ~PidLive /\ UNCHANGED <<disk, pidfile, buf, verdict, recorded>>
        /\ pc[Dash] = "idle"
    BY <1>2 DEF StartRun, Asks, QuietDash
  <2>3. \A e \in Engine : ~Up(e)
    BY <2>2, ProcAssumption DEF OInv, PidNames, PidLive
  <2> QED BY <2>1, <2>2, <2>3, SpawnShown
<1>3. CASE Refuse
  <2>1. UNCHANGED <<disk, pidfile, pc, buf, verdict, spawning, recorded>>
    BY <1>3 DEF Refuse, engineVars
  <2> QED BY <2>1 DEF ShownInv, RecordLast, BootEmpty, Named, Cleared, QuietDash, Shown, Written, Main
<1>4. CASE StopRun
  <2>1. /\ pc' = [pc EXCEPT ![Dash] = "list"] /\ recorded' = recorded
        /\ \E d : buf' = [buf EXCEPT ![Dash] = d]
    BY <1>4 DEF StopRun, Put
  <2>2. Apart /\ pc'[Dash] = "list"
    BY <1>0, <2>1
  <2> QED BY <1>b, <2>1, <2>2
<1>5. CASE PutPid
  <2>1. /\ UNCHANGED <<disk, buf, verdict, recorded>> /\ pidfile' = spawning
        /\ pc[Dash] = "putPid" /\ pc'[Dash] = "idle"
        /\ \A f \in Engine : pc'[Main(f)] = pc[Main(f)]
    BY <1>0, <1>5 DEF PutPid, engineVars, history
  <2>2. RecordLast' /\ BootEmpty'
    BY <1>a, <2>1
  <2>3. ASSUME NEW f \in Engine PROVE Shown(f)'
    <3>1. pidfile' = f => pidfile = f \/ recorded[f] = "none"
      BY <2>1 DEF ShownInv, Named, RecordLast
    <3> QED BY <1>1, <2>1, <3>1, MainLeft DEF QuietDash, Main
  <2> QED BY <2>1, <2>2, <2>3 DEF ShownInv, Named, Cleared
<1>6. CASE StopList
  <2>1. pc' = [pc EXCEPT ![Dash] = "each"] /\ buf' = buf /\ recorded' = recorded
    BY <1>6 DEF StopList, history
  <2>2. Apart /\ pc'[Dash] = "each"
    BY <1>0, <2>1
  <2> QED BY <1>b, <2>1, <2>2
<1>7. CASE StopFailRow
  <2>1. /\ pc' = pc /\ pc[Dash] = "each" /\ recorded' = recorded
        /\ \E d : buf' = [buf EXCEPT ![Dash] = d]
    BY <1>7 DEF StopFailRow, FailRow, Put, history
  <2>2. Apart
    BY <1>0, <2>1
  <2> QED BY <1>b, <2>1, <2>2
<1>8. CASE StopKill
  <2>1. /\ recorded' = recorded /\ pc'[Dash] = "clear"
        /\ \A f \in Engine : \/ pc'[Main(f)] = "gone"
                             \/ pc'[Main(f)] = pc[Main(f)] /\ buf'[Main(f)] = buf[Main(f)]
    BY <1>0, <1>8 DEF StopKill, Gone, history
  <2>2. RecordLast' /\ BootEmpty'
    BY <2>1, DashBoots DEF ShownInv
  <2> QED BY <2>1, <2>2 DEF ShownInv, QuietDash, Named, Cleared
<1>9. CASE StopClear
  <2>1. /\ pc' = [pc EXCEPT ![Dash] = "docker"] /\ pidfile' = NoEngine
        /\ buf' = buf /\ recorded' = recorded
    BY <1>9 DEF StopClear, history
  <2>2. Apart /\ pc'[Dash] = "docker"
    BY <1>0, <2>1
  <2> QED BY <1>a, <2>1, <2>2 DEF ShownInv, QuietDash, Named, Cleared
<1>10. CASE StopContainers
  <2>1. /\ UNCHANGED <<disk, pidfile, buf, verdict, recorded>>
        /\ pidfile = NoEngine /\ \A f \in Engine : ~Up(f)
    BY <1>1, <1>10 DEF StopContainers, ShownInv, Cleared
  <2>2. CASE spawning = NoEngine
    <3>1. pc' = [pc EXCEPT ![Dash] = "idle"]
      BY <1>10, <2>2 DEF StopContainers
    <3>2. Apart /\ pc'[Dash] = "idle"
      BY <1>0, <2>1, <3>1
    <3>3. \A f \in Engine : Shown(f)'
      BY <2>1, <3>2, ProcAssumption DEF Shown, Up, Main
    <3> QED BY <1>a, <2>1, <3>2, <3>3 DEF ShownInv, Named, Cleared
  <2>3. CASE spawning # NoEngine
    <3>1. spawning \in Engine /\ Spawn(spawning, TRUE)
      BY <1>10, <2>3 DEF StopContainers, TInv, TypeOK
    <3> QED BY <2>1, <3>1, SpawnShown
  <2> QED BY <2>2, <2>3
<1>11. CASE Save(Dash)
  <2>1. pc[Dash] \in {"list", "each"}
    BY <1>11 DEF Save, OInv, EnginesUnstopped
  <2>2. pc' = pc /\ buf' = [buf EXCEPT ![Dash] = NoDoc] /\ recorded' = recorded
    BY <1>11 DEF Save, Put
  <2>3. Apart
    BY <1>0, <2>2
  <2> QED BY <1>b, <2>1, <2>2, <2>3
<1>12. ~ResetLimiter
  BY DEF ResetLimiter, Asks
<1>13. ASSUME NEW e \in Engine, CliRun(e) PROVE FALSE
  BY <1>13 DEF CliRun, SInv
<1>14. ASSUME NEW e \in Engine, Die(e) PROVE ShownInv'
  <2>1. Up(e) /\ Exit(e) /\ UNCHANGED <<disk, pidfile, spawning, recorded>>
    BY <1>14 DEF Die
  <2>2. recorded[e] = "none"
    BY <2>1 DEF ShownInv, RecordLast, Up
  <2>3. /\ pc'[Main(e)] = "gone" /\ pc'[Dash] = pc[Dash]
        /\ \A f \in Engine \ {e} : /\ pc'[Main(f)] = pc[Main(f)] /\ buf'[Main(f)] = buf[Main(f)]
                                   /\ verdict'[f] = verdict[f]
    BY <1>0, <2>1 DEF Exit, Gone
  <2>4. RecordLast' /\ BootEmpty'
    BY <2>1, <2>3, DashBoots DEF ShownInv
  <2>5. Named' /\ Cleared'
    BY <2>1, <2>2, <2>3 DEF ShownInv, Named, Cleared, OInv, Bridged, Main
  <2>6. ASSUME QuietDash, NEW f \in Engine PROVE Shown(f)'
    BY <1>1, <2>1, <2>2, <2>3, <2>6, MainLeft, NotThere
  <2> QED BY <2>3, <2>4, <2>5, <2>6 DEF ShownInv, QuietDash
<1> QED BY <1>2, <1>3, <1>4, <1>5, <1>6, <1>7, <1>8, <1>9, <1>10, <1>11, <1>12, <1>13, <1>14
        DEF Serve, Request

\* For any ladder and any number of engines, STOP, RESUME and RESTART included, whatever
\* the tools, the breaker and the runners do and whoever dies: the verdict a run has
\* recorded is what state.json shows for as long as run.pid names its engine.
THEOREM RecordsShow ==
  ASSUME CliRuns = 0, "reset" \notin Kinds
  PROVE  Spec => []RecordedIsShown
<1>1. Init => ShownInv
  BY ProcType DEF Init, ShownInv, RecordLast, BootEmpty, Named, Cleared, Shown
<1>2. TInv /\ SInv /\ OInv /\ OrderInv /\ ShownInv /\ [Next]_vars => ShownInv'
  <2> SUFFICES ASSUME TInv, SInv, OInv, OrderInv, ShownInv, [Next]_vars PROVE ShownInv'
    OBVIOUS
  <2>1. ASSUME NEW e \in Engine, NEW t \in Thread, ThreadNext(e, t) PROVE ShownInv'
    BY <2>1, ThreadShown
  <2>2. CASE UNCHANGED vars
    BY <2>2 DEF vars, engineVars, history, ShownInv, RecordLast, BootEmpty, Named, Cleared, QuietDash,
                Shown, Written, Main
  <2> QED BY <2>1, <2>2, OtherShown DEF Next
<1>3. ShownInv => RecordedIsShown
  BY DEF ShownInv, QuietDash, Shown, RecordedIsShown
<1>4. Spec => [](TInv /\ SInv)
  BY StopsInductive
<1>5. Spec => []OInv
  BY OneInductive
<1> QED BY <1>1, <1>2, <1>3, <1>4, <1>5, InitOrder, NextOrder, PTL DEF Spec

-----------------------------------------------------------------------------
(***************************************************************************)
(* The ladder.  Rows that say done are rows of modules whose runner has    *)
(* returned in this ladder: in the file, in every document that somebody   *)
(* is about to save and in the snapshots the branches skip on, whoever has *)
(* overwritten whose row and wherever an engine has died.  A thread has    *)
(* left behind only such modules, unless a partial marker says otherwise.  *)
(***************************************************************************)
\* The operator starts and resumes runs, no more. With a STOP it does not hold: one
\* branch leaves on the stop, a save of the other's takes the stop away again, and the
\* run completes; or the STOP has loaded its document before a fresh START resets the
\* rows, and saves the old ones after it. A limiter reset can do the latter, too.
OnlyStarts == Kinds \cap {"stop", "restart", "reset"} = {}

DoneIn(d, F) == d = NoDoc \/ \A m \in Module : d.mods[m] = "done" => m \in F

\* Before its first stop check, and after its end, an engine has done nothing.
UnbegunPc == {"none", "gone"} \cup EarlyPc

Unbegun(e) ==
  /\ pc[Main(e)] \in UnbegunPc =>
       /\ \A t \in Thread : idx[<<e, t>>] = 1
       /\ \A b \in Branch : seen[e][b] = {}
  /\ pc[Main(e)] = "begin" => DoneIn(buf[Main(e)], {})

Behind(e, t) == \A i \in 1 .. Len(List(t)) : i < idx[<<e, t>>] => List(t)[i] \in finished

\* From the runner's return to the next module.
RanPc == {"check2", "guardDone", "setDone", "setLate", "live"}
Ran(e, t) == pc[<<e, t>>] \in RanPc => Current(<<e, t>>) \in finished

\* Nobody stops, and who is through has come to the end of its list.
OverPc == {"joinPort", "ended", "classify"} \cup Final
Over(e, t) ==
  /\ pc[<<e, t>>] \notin {"stopFail", "stopped"} /\ (t # "main" => pc[<<e, t>>] # "begin")
  /\ pc[<<e, t>>] \in OverPc => idx[<<e, t>>] > Len(List(t))

\* Port-check has its thread once the active branch is past dns-resolve.
PastBefore(i, l) == i > Len(Before) + 1 \/ (i = Len(Before) + 1 /\ l \in Inside)
PortStarted(e) ==
  Port # <<>> /\ After # <<>> /\ PastBefore(idx[<<e, "active">>], pc[<<e, "active">>])
    => e \in soft \/ pc[<<e, "port">>] # "off"

Truthful(e) == pc[Main(e)] \in Final /\ verdict[e] = "completed" => finished = Module

Climbed(e) ==
  /\ \A t \in Thread : DoneIn(buf[<<e, t>>], finished) /\ Ran(e, t) /\ Over(e, t)
  /\ \A b \in Branch : seen[e][b] \subseteq finished
  /\ e \in soft \/ \A t \in Thread : Behind(e, t)
  /\ Unbegun(e) /\ PortStarted(e) /\ Truthful(e)

LInv == QuietDash /\ DoneIn(disk, finished) /\ \A e \in Engine : Climbed(e)

\* Every module is in the list of a thread, and port-check runs beside something.
CoversAll ==
  /\ \A m \in Module : \E t \in Thread : \E i \in 1 .. Len(List(t)) : m = List(t)[i]
  /\ Port # <<>> => After # <<>>

LEMMA DoneMore ==
  ASSUME NEW d, NEW F, NEW G, F \subseteq G, DoneIn(d, F)
  PROVE  DoneIn(d, G)
BY DEF DoneIn

\* What the writers of state.py make done.
LEMMA DoneDocs ==
  ASSUME TInv, NEW F, DoneIn(disk, F)
  PROVE  /\ DoneIn(NoDoc, F) /\ DoneIn(EmptyState, {}) /\ DoneIn(NewRun(Loaded), {})
         /\ \A m : m \in F => DoneIn(WithRow(Loaded, m, "done"), F)
         /\ \A m, s : s # "done" => DoneIn(WithRow(Loaded, m, s), F)
         /\ \A m : DoneIn(PersistPause(Loaded, m), F) /\ DoneIn(ClearModulePause(Loaded, m), F)
         /\ DoneIn(ClearPauses(Loaded), F) /\ DoneIn(StampLive(Loaded), F)
         /\ \A s : DoneIn(WithRun(Loaded, s), F)
         /\ {m \in Module : SkipDone(Loaded, m)} \subseteq F
<1>1. Loaded \in Doc
  BY LoadType DEF TInv, TypeOK, Loaded
<1>2. \A m \in Module : Loaded.mods[m] = "done" => m \in F
  <2>1. CASE disk = NoDoc
    BY <2>1 DEF Loaded, LoadState, EmptyState
  <2>2. CASE disk # NoDoc
    BY <2>2 DEF Loaded, LoadState, DoneIn
  <2> QED BY <2>1, <2>2
<1>3. \A m \in Module : EmptyState.mods[m] = "pending" /\ NewRun(Loaded).mods[m] = "pending"
  BY DEF EmptyState, NewRun
<1>4. ASSUME NEW m, NEW s PROVE \A n \in Module : WithRow(Loaded, m, s).mods[n] \in {Loaded.mods[n], s}
                                  /\ (n # m => WithRow(Loaded, m, s).mods[n] = Loaded.mods[n])
  BY <1>1 DEF WithRow, Doc
<1>5. /\ \A s : WithRun(Loaded, s).mods = Loaded.mods
      /\ \A m : PersistPause(Loaded, m).mods = Loaded.mods
      /\ \A m : ClearModulePause(Loaded, m).mods = Loaded.mods
      /\ ClearPauses(Loaded).mods = Loaded.mods /\ StampLive(Loaded).mods = Loaded.mods
  BY <1>1 DEF WithRun, PersistPause, ClearModulePause, ClearPauses, StampLive, Doc
<1>6. \A m : m \in F => DoneIn(WithRow(Loaded, m, "done"), F)
  BY <1>2, <1>4 DEF DoneIn
<1>7. \A m, s : s # "done" => DoneIn(WithRow(Loaded, m, s), F)
  BY <1>2, <1>4 DEF DoneIn
<1> QED BY <1>2, <1>3, <1>5, <1>6, <1>7 DEF DoneIn, SkipDone

\* An engine that is not up, or is about to boot, has done nothing.
LEMMA Asleep ==
  ASSUME NEW f \in Engine,
         \A t \in Thread : /\ pc'[<<f, t>>] \in {"none", "off", "gone", "boot"} /\ buf'[<<f, t>>] = NoDoc
                           /\ idx'[<<f, t>>] = 1,
         \A b \in Branch : seen'[f][b] = {}
  PROVE  Climbed(f)'
<1>1. Main(f) = <<f, "main">> /\ "main" \in Thread /\ "active" \in Thread
  BY Names
<1>2. \A t \in Thread : Len(List(t)) \in Nat
  BY ListType
<1>3. \A t \in Thread : DoneIn(buf'[<<f, t>>], finished') /\ Ran(f, t)' /\ Over(f, t)'
  BY DEF DoneIn, Ran, RanPc, Over, OverPc, Final
<1>4. \A t \in Thread : Behind(f, t)'
  BY <1>2 DEF Behind
<1>5. Unbegun(f)' /\ Truthful(f)'
  BY <1>1 DEF Unbegun, Truthful, Final, Main
<1>6. PortStarted(f)'
  <2>1. Len(Before) \in Nat
    BY LadderAssumption
  <2> QED BY <1>1, <2>1 DEF PortStarted, PastBefore, Inside, StagePc
<1> QED BY <1>3, <1>4, <1>5, <1>6 DEF Climbed

\* One thread of an engine moves.
LEMMA Advance ==
  ASSUME TInv, TInv', NEW e \in Engine, NEW t \in Thread, Climbed(e),
         NEW l, NEW i \in Nat, NEW d,
         pc' = [pc EXCEPT ![<<e, t>>] = l], idx' = [idx EXCEPT ![<<e, t>>] = i],
         buf' = [buf EXCEPT ![<<e, t>>] = d],
         finished \subseteq finished', soft \subseteq soft', DoneIn(d, finished'),
         \A b \in Branch : seen'[e][b] \subseteq finished',
         \/ pc[Main(e)] \notin UnbegunPc /\ l \notin UnbegunPc
         \/ t = "main" /\ i = idx[<<e, t>>] /\ (l \in UnbegunPc => pc[Main(e)] \in UnbegunPc)
            /\ \A b \in Branch : seen'[e][b] = seen[e][b],
         l = "begin" => DoneIn(d, {}),
         l \in RanPc => List(t)[i] \in finished',
         l \notin {"stopFail", "stopped", "off"},
         l \in OverPc => i > Len(List(t)),
         e \in soft' \/ i <= idx[<<e, t>>]
           \/ (i = idx[<<e, t>>] + 1 /\ List(t)[idx[<<e, t>>]] \in finished'),
         t = "active" /\ Port # <<>> /\ After # <<>> /\ PastBefore(i, l)
           => e \in soft' \/ pc[<<e, "port">>] # "off",
         t # "main" => verdict'[e] = verdict[e],
         t = "main" /\ l \in Final /\ verdict'[e] = "completed" => finished' = Module
  PROVE  Climbed(e)'
<1>0. /\ \A u \in Thread : <<e, u>> \in Proc /\ <<e, u>> \in Worker
      /\ Main(e) = <<e, "main">> /\ "main" \in Thread /\ "active" \in Thread /\ "port" \in Thread
  BY ProcType, Names
<1>1. \A u \in Thread : /\ pc'[<<e, u>>] = IF u = t THEN l ELSE pc[<<e, u>>]
                        /\ idx'[<<e, u>>] = IF u = t THEN i ELSE idx[<<e, u>>]
                        /\ buf'[<<e, u>>] = IF u = t THEN d ELSE buf[<<e, u>>]
  BY <1>0 DEF TInv, TypeOK
<1>2. ASSUME NEW u \in Thread PROVE DoneIn(buf'[<<e, u>>], finished') /\ Ran(e, u)' /\ Over(e, u)'
  <2>1. DoneIn(buf'[<<e, u>>], finished')
    BY <1>1, DoneMore DEF Climbed
  <2>2. Ran(e, u)'
    BY <1>1 DEF Climbed, Ran, Current
  <2>3. Over(e, u)'
    <3>1. Over(e, u)
      BY DEF Climbed
    <3>2. u = t /\ t # "main" => l # "begin"
      BY DEF UnbegunPc, EarlyPc
    <3> QED BY <1>1, <3>1, <3>2 DEF Over
  <2> QED BY <2>1, <2>2, <2>3
<1>3. e \in soft' \/ \A u \in Thread : Behind(e, u)'
  <2> SUFFICES ASSUME e \notin soft', NEW u \in Thread, NEW j \in 1 .. Len(List(u)), j < idx'[<<e, u>>]
               PROVE  List(u)[j] \in finished'
    BY DEF Behind
  <2>1. idx[<<e, u>>] \in Nat
    BY <1>0 DEF TInv, TypeOK
  <2>2. CASE j < idx[<<e, u>>]
    BY <2>2 DEF Climbed, Behind
  <2>3. CASE ~(j < idx[<<e, u>>])
    <3>1. u = t /\ j < i
      BY <1>1, <2>3
    <3>2. i = idx[<<e, t>>] + 1 /\ List(t)[idx[<<e, t>>]] \in finished'
      BY <2>1, <2>3, <3>1
    <3>3. j = idx[<<e, t>>]
      BY <2>1, <2>3, <3>1, <3>2
    <3> QED BY <3>1, <3>2, <3>3
  <2> QED BY <2>2, <2>3
<1>4. Unbegun(e)'
  <2>1. pc'[Main(e)] = IF t = "main" THEN l ELSE pc[Main(e)]
    BY <1>0, <1>1
  <2>2. ASSUME pc'[Main(e)] \in UnbegunPc
        PROVE  /\ \A u \in Thread : idx'[<<e, u>>] = 1
               /\ \A b \in Branch : seen'[e][b] = {}
    <3>1. t = "main" /\ i = idx[<<e, t>>] /\ pc[Main(e)] \in UnbegunPc
          /\ \A b \in Branch : seen'[e][b] = seen[e][b]
      BY <2>1, <2>2
    <3> QED BY <1>1, <3>1 DEF Climbed, Unbegun
  <2>3. ASSUME pc'[Main(e)] = "begin" PROVE DoneIn(buf'[Main(e)], {})
    <3>1. t = "main"
      BY <2>1, <2>3 DEF UnbegunPc, EarlyPc
    <3> QED BY <1>0, <1>1, <2>1, <2>3, <3>1
  <2> QED BY <2>2, <2>3 DEF Unbegun, Main
<1>5. PortStarted(e)'
  <2>1. PortStarted(e)
    BY DEF Climbed
  <2> QED BY <1>0, <1>1, <2>1 DEF PortStarted
<1>6. Truthful(e)'
  <2>1. CASE t = "main"
    BY <1>0, <1>1, <2>1 DEF Truthful, Main
  <2>2. CASE t # "main"
    <3>1. pc'[Main(e)] = pc[Main(e)] /\ verdict'[e] = verdict[e]
      BY <1>0, <1>1, <2>2
    <3>2. finished' \subseteq Module
      BY DEF TInv, TypeOK
    <3> QED BY <3>1, <3>2 DEF Climbed, Truthful, Main
  <2> QED BY <2>1, <2>2
<1> QED BY <1>2, <1>3, <1>4, <1>5, <1>6 DEF Climbed
\* A thread moves on within a module.
LEMMA Within ==
  ASSUME TInv, TInv', NEW e \in Engine, NEW t \in Thread, Climbed(e),
         pc[Main(e)] \notin UnbegunPc, pc[<<e, t>>] \in Inside,
         NEW l \in Inside \ {"stopFail"}, NEW d, DoneIn(d, finished'),
         pc' = [pc EXCEPT ![<<e, t>>] = l], buf' = [buf EXCEPT ![<<e, t>>] = d],
         UNCHANGED <<idx, seen, soft, verdict>>, finished \subseteq finished',
         l \in RanPc => pc[<<e, t>>] \in RanPc \/ Current(<<e, t>>) \in finished'
  PROVE  Climbed(e)'
<1>0. <<e, t>> \in Worker /\ idx \in [Worker -> Nat] /\ "active" \in Thread
  BY ProcType, Names DEF TInv, TypeOK
<1>1. idx[<<e, t>>] \in Nat /\ idx' = [idx EXCEPT ![<<e, t>>] = idx[<<e, t>>]]
  BY <1>0
<1>2. l \notin UnbegunPc \cup OverPc \cup {"begin", "stopFail", "stopped", "off"} \cup Final
  BY DEF Inside, StagePc, UnbegunPc, EarlyPc, OverPc, Final
<1>3. \A b \in Branch : seen'[e][b] \subseteq finished'
  BY DEF Climbed
<1>4. l \in RanPc => List(t)[idx[<<e, t>>]] \in finished'
  BY DEF Climbed, Ran, Current
<1>5. t = "active" /\ Port # <<>> /\ After # <<>> /\ PastBefore(idx[<<e, t>>], l)
        => e \in soft' \/ pc[<<e, "port">>] # "off"
  BY DEF Climbed, PortStarted, PastBefore
<1>6. soft \subseteq soft' /\ verdict'[e] = verdict[e] /\ idx[<<e, t>>] <= idx[<<e, t>>]
  BY <1>1
<1> QED BY <1>0, <1>1, <1>2, <1>3, <1>4, <1>5, <1>6, Advance

\* A thread goes on with the next module.
LEMMA Onward ==
  ASSUME TInv, TInv', NEW e \in Engine, NEW t \in Thread, Climbed(e),
         pc[Main(e)] \notin UnbegunPc,
         pc[<<e, t>>] \in Inside \/ (pc[<<e, t>>] = "check" /\ ~PortDue(e, t)),
         NEW d, DoneIn(d, finished),
         pc' = [pc EXCEPT ![<<e, t>>] = "check"], buf' = [buf EXCEPT ![<<e, t>>] = d],
         idx' = [idx EXCEPT ![<<e, t>>] = idx[<<e, t>>] + 1],
         UNCHANGED <<finished, verdict>>, soft \subseteq soft',
         \A b \in Branch : seen'[e][b] \subseteq finished,
         e \in soft' \/ Current(<<e, t>>) \in finished
  PROVE  Climbed(e)'
<1>0. <<e, t>> \in Worker /\ idx \in [Worker -> Nat] /\ "active" \in Thread /\ Len(Before) \in Nat
  <2>1. Len(Before) \in Nat
    BY LadderAssumption
  <2> QED BY <2>1, ProcType, Names DEF TInv, TypeOK
<1>1. idx[<<e, t>>] \in Nat /\ idx[<<e, t>>] + 1 \in Nat /\ Len(Before) \in Nat
  BY <1>0
<1>2. "check" \notin UnbegunPc \cup OverPc \cup RanPc \cup {"begin", "stopFail", "stopped", "off"} \cup Final
  BY DEF UnbegunPc, EarlyPc, OverPc, RanPc, Final
<1>3. e \in soft' \/ List(t)[idx[<<e, t>>]] \in finished'
  BY DEF Current
<1>4. t = "active" /\ Port # <<>> /\ After # <<>> /\ PastBefore(idx[<<e, t>>] + 1, "check")
        => e \in soft' \/ pc[<<e, "port">>] # "off"
  <2> SUFFICES ASSUME t = "active", Port # <<>>, After # <<>>, PastBefore(idx[<<e, t>>] + 1, "check")
               PROVE  e \in soft' \/ pc[<<e, "port">>] # "off"
    OBVIOUS
  <2>1. idx[<<e, t>>] > Len(Before) + 1 \/ idx[<<e, t>>] = Len(Before) + 1
    BY <1>1 DEF PastBefore, Inside
  <2>2. CASE PastBefore(idx[<<e, t>>], pc[<<e, t>>])
    BY <2>2 DEF Climbed, PortStarted
  <2>3. CASE ~PastBefore(idx[<<e, t>>], pc[<<e, t>>])
    BY <2>1, <2>3 DEF PastBefore, PortDue
  <2> QED BY <2>2, <2>3
<1>5. verdict'[e] = verdict[e] /\ finished' = finished
  OBVIOUS
<1> QED BY <1>1, <1>2, <1>3, <1>4, <1>5, Advance

\* A thread of an engine that finds no stop.
LEMMA StepClimbs ==
  ASSUME TInv, TInv', NEW e \in Engine, NEW t \in Thread, Climbed(e), DoneIn(disk, finished),
         Unstopped(e), Early(e), GoneIsGone, Step(e, t)
  PROVE  Climbed(e)'
<1> USE DEF At, Goto, Put, engineVars, history
<1>00. pc[<<e, t>>] \in StagePc \cup {"snap"}
  BY DEF Step, Snapshot, CheckStop, CheckSkip, Release, BudgetSpent, GuardRun, SetRunning, Launch, ToolEnds, ToolTrips, WorkNoTool, CheckAgain, StopFails, GuardDone, SetDone, IngestLive, SetFailed, ThreadEnds, StagePc
<1>01. pc[Main(e)] \notin UnbegunPc
  <2>1. CASE t = "main"
    BY <1>00, <2>1, Names DEF UnbegunPc, EarlyPc, StagePc
  <2>2. CASE t # "main"
    BY <1>00, <2>2, Names DEF Early, GoneIsGone, Up, UnbegunPc, EarlyPc, StagePc
  <2> QED BY <2>1, <2>2
<1>02. ~Stopped
  BY <1>01 DEF Unstopped, UnbegunPc, EarlyPc
<1>03. /\ <<e, t>> \in Proc /\ <<e, t>> \in Worker /\ buf = [buf EXCEPT ![<<e, t>>] = buf[<<e, t>>]]
       /\ pc = [pc EXCEPT ![<<e, t>>] = pc[<<e, t>>]] /\ idx[<<e, t>>] \in Nat
       /\ idx = [idx EXCEPT ![<<e, t>>] = idx[<<e, t>>]] /\ <<e, t>>[2] = t
       /\ Len(List(t)) \in Nat /\ "active" \in Thread
  BY ProcType, ListType, Names DEF TInv, TypeOK
<1>0. /\ DoneIn(NoDoc, finished)
      /\ \A m : m \in finished => DoneIn(WithRow(Loaded, m, "done"), finished)
      /\ \A m, s : s # "done" => DoneIn(WithRow(Loaded, m, s), finished)
      /\ \A m : DoneIn(PersistPause(Loaded, m), finished) /\ DoneIn(ClearModulePause(Loaded, m), finished)
      /\ DoneIn(StampLive(Loaded), finished)
      /\ {m \in Module : SkipDone(Loaded, m)} \subseteq finished
  BY DoneDocs
<1>e. ASSUME NEW l, Ends(e, t, l), l \in Outcomes(e, t), pc[<<e, t>>] \in {"work", "tool"},
             NEW d, DoneIn(d, finished), buf' = [buf EXCEPT ![<<e, t>>] = d],
             UNCHANGED <<idx, seen, soft, verdict>>
      PROVE  Climbed(e)'
  <2>1. l \in {"check2", "guardDone", "setFail", "setEmpty"}
    BY <1>e DEF Outcomes, Returned
  <2>2. l \in RanPc => l = Returned(t)
    BY <1>e DEF Outcomes, Returned, RanPc
  <2>3. pc' = [pc EXCEPT ![<<e, t>>] = l] /\ finished \subseteq finished'
        /\ (l \in RanPc => Current(<<e, t>>) \in finished')
    BY <1>e, <2>2 DEF Ends
  <2>4. l \in Inside \ {"stopFail"} /\ pc[<<e, t>>] \in Inside
    BY <1>e, <2>1 DEF Inside, StagePc
  <2>5. DoneIn(d, finished')
    BY <1>e, <2>3, DoneMore
  <2> QED BY <1>e, <1>01, <2>3, <2>4, <2>5, Within
<1>2. CASE Snapshot(e, t)
  <2>1. /\ pc[<<e, t>>] = "snap" /\ pc' = [pc EXCEPT ![<<e, t>>] = "check"] /\ buf[<<e, t>>] = NoDoc
        /\ seen' = [seen EXCEPT ![e][t] = {m \in Module : SkipDone(Loaded, m)}] /\ t \in Branch
        /\ UNCHANGED <<idx, buf, finished, soft, verdict>>
    BY <1>2 DEF Snapshot
  <2>2. \A b \in Branch : seen'[e][b] \subseteq finished'
    <3>1. \A b \in Branch : seen'[e][b] \in {seen[e][b], {m \in Module : SkipDone(Loaded, m)}}
      BY <2>1 DEF TInv, TypeOK
    <3> QED BY <1>0, <2>1, <3>1 DEF Climbed
  <2>3. "check" \notin UnbegunPc \cup OverPc \cup RanPc \cup {"begin", "stopFail", "stopped", "off"} \cup Final
    BY DEF UnbegunPc, EarlyPc, OverPc, RanPc, Final
  <2>4. t = "active" /\ Port # <<>> /\ After # <<>> /\ PastBefore(idx[<<e, t>>], "check")
        => e \in soft' \/ pc[<<e, "port">>] # "off"
    BY <2>1 DEF Climbed, PortStarted, PastBefore, Inside
  <2>5. /\ pc' = [pc EXCEPT ![<<e, t>>] = "check"]
        /\ finished \subseteq finished' /\ soft \subseteq soft' /\ verdict'[e] = verdict[e]
        /\ DoneIn(NoDoc, finished') /\ buf' = [buf EXCEPT ![<<e, t>>] = NoDoc]
        /\ idx' = [idx EXCEPT ![<<e, t>>] = idx[<<e, t>>]] /\ idx[<<e, t>>] <= idx[<<e, t>>]
    BY <1>0, <1>03, <2>1
  <2> QED BY <1>01, <1>03, <2>2, <2>3, <2>4, <2>5, Advance
<1>3. CASE CheckStop(e, t)
  BY <1>02, <1>3 DEF CheckStop
<1>4. CASE CheckSkip(e, t)
  <2>1. /\ pc[<<e, t>>] = "check" /\ ~Finished(<<e, t>>) /\ ~PortDue(e, t)
        /\ buf' = [buf EXCEPT ![<<e, t>>] = NoDoc]
        /\ UNCHANGED <<seen, finished, soft, verdict>>
    BY <1>03, <1>4 DEF CheckSkip
  <2>2. CASE Skips(e, t)
    <3>1. idx' = [idx EXCEPT ![<<e, t>>] = idx[<<e, t>>] + 1] /\ pc' = [pc EXCEPT ![<<e, t>>] = "check"]
      BY <1>03, <1>4, <2>1, <2>2 DEF CheckSkip
    <3>2. Current(<<e, t>>) \in Module
      <4>1. idx[<<e, t>>] \in 1..Len(List(t))
        BY <1>03, <2>1 DEF Finished, TInv, PositionsOK
      <4> QED BY <1>03, <4>1, ListType DEF Current
    <3>3. Current(<<e, t>>) \in finished
      <4>1. CASE t = "main"
        BY <1>0, <2>2, <3>2, <4>1 DEF Skips
      <4>2. CASE t # "main"
        <5>1. SnapOf(t) \in Branch
          BY <4>2, Names DEF SnapOf
        <5> QED BY <2>2, <4>2, <5>1 DEF Skips, Climbed
      <4> QED BY <4>1, <4>2
    <3>4. \A b \in Branch : seen'[e][b] \subseteq finished
      BY <2>1 DEF Climbed
    <3>5. soft \subseteq soft'
      BY <2>1
    <3> QED BY <1>0, <1>01, <2>1, <3>1, <3>3, <3>4, <3>5, Onward
  <2>3. CASE ~Skips(e, t)
    <3>1. pc' = [pc EXCEPT ![<<e, t>>] = "release"] /\ idx' = [idx EXCEPT ![<<e, t>>] = idx[<<e, t>>]]
      BY <1>03, <1>4, <2>3 DEF CheckSkip
    <3>2. \A b \in Branch : seen'[e][b] \subseteq finished'
      BY <2>1 DEF Climbed
    <3>3. "release" \notin UnbegunPc \cup OverPc \cup RanPc \cup {"begin", "stopFail", "stopped", "off"} \cup Final
      BY DEF UnbegunPc, EarlyPc, OverPc, RanPc, Final
    <3>4. t = "active" /\ Port # <<>> /\ After # <<>> /\ PastBefore(idx[<<e, t>>], "release")
          => e \in soft' \/ pc[<<e, "port">>] # "off"
      BY <2>1 DEF Climbed, PortStarted, PastBefore, PortDue
    <3>5. /\ finished \subseteq finished' /\ soft \subseteq soft' /\ verdict'[e] = verdict[e]
          /\ DoneIn(NoDoc, finished') /\ idx[<<e, t>>] <= idx[<<e, t>>]
      BY <1>0, <1>03, <2>1
    <3> QED BY <1>01, <1>03, <2>1, <3>1, <3>2, <3>3, <3>4, <3>5, Advance
  <2> QED BY <2>2, <2>3
<1>in. ASSUME NEW l \in Inside \ {"stopFail"}, NEW d, DoneIn(d, finished), pc[<<e, t>>] \in Inside,
              pc' = [pc EXCEPT ![<<e, t>>] = l], buf' = [buf EXCEPT ![<<e, t>>] = d],
              UNCHANGED <<idx, seen, soft, verdict, finished>>,
              l \in RanPc => pc[<<e, t>>] \in RanPc
       PROVE  Climbed(e)'
  <2>1. finished \subseteq finished' /\ DoneIn(d, finished')
    BY <1>in
  <2> QED BY <1>in, <1>01, <2>1, Within
<1>5. CASE Release(e, t)
  <2>1. PICK d \in {NoDoc, ClearModulePause(Loaded, Current(<<e, t>>))} : buf' = [buf EXCEPT ![<<e, t>>] = d]
    BY <1>5 DEF Release
  <2> QED BY <1>0, <1>in, <1>5, <2>1 DEF Release, Inside, StagePc, RanPc
<1>6. CASE BudgetSpent(e, t)
  <2>1. /\ pc[<<e, t>>] = "guardRun" /\ pc' = [pc EXCEPT ![<<e, t>>] = "check"] /\ buf[<<e, t>>] = NoDoc
        /\ soft' = soft \cup {e} /\ idx' = [idx EXCEPT ![<<e, t>>] = Len(List(t)) + 1]
        /\ UNCHANGED <<buf, seen, finished, verdict>>
    BY <1>6 DEF BudgetSpent
  <2>2. \A b \in Branch : seen'[e][b] \subseteq finished'
    BY <2>1 DEF Climbed
  <2>3. "check" \notin UnbegunPc \cup OverPc \cup RanPc \cup {"begin", "stopFail", "stopped", "off"} \cup Final
    BY DEF UnbegunPc, EarlyPc, OverPc, RanPc, Final
  <2>4. /\ finished \subseteq finished' /\ soft \subseteq soft' /\ e \in soft' /\ verdict'[e] = verdict[e]
        /\ DoneIn(NoDoc, finished') /\ buf' = [buf EXCEPT ![<<e, t>>] = NoDoc] /\ Len(List(t)) + 1 \in Nat
    BY <1>0, <1>03, <2>1
  <2> QED BY <1>01, <2>1, <2>2, <2>3, <2>4, Advance
<1>7. CASE GuardRun(e, t)
  <2>1. PICK l \in {"work", "setRun"} : pc' = [pc EXCEPT ![<<e, t>>] = l]
    BY <1>7 DEF GuardRun
  <2>2. buf' = [buf EXCEPT ![<<e, t>>] = NoDoc] /\ pc[<<e, t>>] = "guardRun"
        /\ UNCHANGED <<idx, seen, soft, verdict, finished>>
    BY <1>03, <1>7 DEF GuardRun
  <2> QED BY <1>0, <1>in, <2>1, <2>2 DEF Inside, StagePc, RanPc
<1>8. CASE SetRunning(e, t)
  BY <1>0, <1>in, <1>8 DEF SetRunning, Inside, StagePc, RanPc
<1>9. CASE Launch(e, t)
  <2>2. buf' = [buf EXCEPT ![<<e, t>>] = NoDoc] /\ pc[<<e, t>>] = "work"
        /\ pc' = [pc EXCEPT ![<<e, t>>] = "tool"]
        /\ UNCHANGED <<idx, seen, soft, verdict, finished>>
    BY <1>03, <1>9 DEF Launch
  <2> QED BY <1>0, <1>in, <2>2 DEF Inside, StagePc, RanPc
<1>10. CASE ToolEnds(e, t)
  <2>1. PICK l \in Outcomes(e, t) : Ends(e, t, l)
    BY <1>10 DEF ToolEnds
  <2>2. /\ pc[<<e, t>>] = "tool" /\ buf' = [buf EXCEPT ![<<e, t>>] = NoDoc]
        /\ UNCHANGED <<idx, seen, soft, verdict>>
    BY <1>03, <1>10 DEF ToolEnds
  <2> QED BY <1>0, <1>e, <2>1, <2>2
<1>11. CASE ToolTrips(e, t)
  <2>1. PICK l \in Outcomes(e, t) : Ends(e, t, l)
    BY <1>11 DEF ToolTrips
  <2>2. /\ pc[<<e, t>>] = "tool"
        /\ buf' = [buf EXCEPT ![<<e, t>>] = PersistPause(Loaded, Current(<<e, t>>))]
        /\ UNCHANGED <<idx, seen, soft, verdict>>
    BY <1>11 DEF ToolTrips
  <2> QED BY <1>0, <1>e, <2>1, <2>2
<1>12. CASE WorkNoTool(e, t)
  <2>1. PICK l \in Outcomes(e, t) : Ends(e, t, l)
    BY <1>12 DEF WorkNoTool
  <2>2. /\ pc[<<e, t>>] = "work" /\ buf' = [buf EXCEPT ![<<e, t>>] = NoDoc]
        /\ UNCHANGED <<idx, seen, soft, verdict>>
    BY <1>03, <1>12 DEF WorkNoTool
  <2> QED BY <1>0, <1>e, <2>1, <2>2
<1>13. CASE CheckAgain(e, t)
  <2>1. /\ pc' = [pc EXCEPT ![<<e, t>>] = "guardDone"] /\ pc[<<e, t>>] = "check2"
        /\ buf' = [buf EXCEPT ![<<e, t>>] = NoDoc] /\ UNCHANGED <<idx, seen, soft, verdict, finished>>
    BY <1>02, <1>03, <1>13 DEF CheckAgain
  <2> QED BY <1>0, <1>in, <2>1 DEF Inside, StagePc, RanPc
<1>14. CASE StopFails(e, t)
  BY <1>14 DEF StopFails, Climbed, Over
<1>15. CASE GuardDone(e, t)
  <2>1. /\ pc' = [pc EXCEPT ![<<e, t>>] = "setDone"] /\ pc[<<e, t>>] = "guardDone"
        /\ buf' = [buf EXCEPT ![<<e, t>>] = NoDoc] /\ UNCHANGED <<idx, seen, soft, verdict, finished>>
    BY <1>02, <1>03, <1>15 DEF GuardDone
  <2> QED BY <1>0, <1>in, <2>1 DEF Inside, StagePc, RanPc
<1>16. CASE SetDone(e, t)
  <2>1. pc[<<e, t>>] \in RanPc /\ Current(<<e, t>>) \in finished
    BY <1>16 DEF SetDone, Climbed, Ran, RanPc
  <2>2. PICK s \in {"done", "failed"} : buf' = [buf EXCEPT ![<<e, t>>] = WithRow(Loaded, Current(<<e, t>>), s)]
    BY <1>16 DEF SetDone
  <2>3. DoneIn(WithRow(Loaded, Current(<<e, t>>), s), finished)
    BY <1>0, <2>1, <2>2
  <2>4. pc' = [pc EXCEPT ![<<e, t>>] = "live"] /\ pc[<<e, t>>] \in Inside
        /\ UNCHANGED <<idx, seen, soft, verdict, finished>>
    BY <1>16 DEF SetDone, Inside, StagePc
  <2>5. "live" \in Inside \ {"stopFail"}
    BY DEF Inside, StagePc
  <2> QED BY <1>in, <2>1, <2>2, <2>3, <2>4, <2>5
<1>17. CASE IngestLive(e, t)
  <2>1. pc[<<e, t>>] = "live" /\ Current(<<e, t>>) \in finished /\ buf[<<e, t>>] = NoDoc
    BY <1>17 DEF IngestLive, Climbed, Ran, RanPc
  <2>2. PICK d \in {NoDoc, StampLive(Loaded)} : buf' = [buf EXCEPT ![<<e, t>>] = d]
    BY <1>03, <1>17, <2>1 DEF IngestLive
  <2>3. \A b \in Branch : seen'[e][b] \in {seen[e][b], {m \in Module : SkipDone(Loaded, m)}}
    BY <1>17 DEF IngestLive, TInv, TypeOK
  <2>4. \A b \in Branch : seen'[e][b] \subseteq finished
    BY <1>0, <2>3 DEF Climbed
  <2>5. /\ pc' = [pc EXCEPT ![<<e, t>>] = "check"] /\ soft \subseteq soft'
        /\ idx' = [idx EXCEPT ![<<e, t>>] = idx[<<e, t>>] + 1] /\ UNCHANGED <<finished, verdict>>
    BY <1>17 DEF IngestLive
  <2>6. DoneIn(d, finished) /\ pc[<<e, t>>] \in Inside
    BY <1>0, <2>1, <2>2 DEF Inside, StagePc
  <2> QED BY <1>01, <2>1, <2>2, <2>4, <2>5, <2>6, Onward
<1>18. CASE SetFailed(e, t)
  <2>1. /\ pc[<<e, t>>] \in {"setFail", "setEmpty"} /\ pc' = [pc EXCEPT ![<<e, t>>] = "check"]
        /\ buf' = [buf EXCEPT ![<<e, t>>] = WithRow(Loaded, Current(<<e, t>>), "failed")]
        /\ soft' = soft \cup {e} /\ UNCHANGED <<seen, finished, verdict>>
    BY <1>18 DEF SetFailed
  <2>2. \A b \in Branch : seen'[e][b] \subseteq finished
    BY <2>1 DEF Climbed
  <2>3. soft \subseteq soft' /\ e \in soft' /\ pc[<<e, t>>] \in Inside
        /\ DoneIn(WithRow(Loaded, Current(<<e, t>>), "failed"), finished)
    BY <1>0, <2>1 DEF Inside, StagePc
  <2>4. CASE pc[<<e, t>>] = "setFail"
    <3>1. idx' = [idx EXCEPT ![<<e, t>>] = idx[<<e, t>>] + 1]
      BY <1>18, <2>4 DEF SetFailed
    <3> QED BY <1>01, <2>1, <2>2, <2>3, <3>1, Onward
  <2>5. CASE pc[<<e, t>>] = "setEmpty"
    <3>1. idx' = [idx EXCEPT ![<<e, t>>] = Len(List(t)) + 1]
      BY <1>18, <2>5 DEF SetFailed
    <3>2. "check" \notin UnbegunPc \cup OverPc \cup RanPc \cup {"begin", "stopFail", "stopped", "off"} \cup Final
      BY DEF UnbegunPc, EarlyPc, OverPc, RanPc, Final
    <3>3. /\ finished \subseteq finished' /\ verdict'[e] = verdict[e] /\ Len(List(t)) + 1 \in Nat
          /\ DoneIn(WithRow(Loaded, Current(<<e, t>>), "failed"), finished')
          /\ \A b \in Branch : seen'[e][b] \subseteq finished'
      BY <1>03, <2>1, <2>2, <2>3
    <3> QED BY <1>01, <2>1, <2>3, <3>1, <3>2, <3>3, Advance
  <2> QED BY <2>1, <2>4, <2>5
<1>19. CASE ThreadEnds(e, t)
  <2>1. PICK l \in {"classify", "joinPort", "ended"} : pc' = [pc EXCEPT ![<<e, t>>] = l]
    BY <1>19 DEF ThreadEnds
  <2>2. /\ pc[<<e, t>>] = "check" /\ idx[<<e, t>>] > Len(List(t)) /\ buf[<<e, t>>] = NoDoc
        /\ UNCHANGED <<idx, buf, seen, finished, soft, verdict>>
    BY <1>03, <1>19 DEF ThreadEnds, Finished
  <2>3. \A b \in Branch : seen'[e][b] \subseteq finished'
    BY <2>2 DEF Climbed
  <2>4. l \notin UnbegunPc \cup RanPc \cup {"begin", "stopFail", "stopped", "off"} \cup Final \cup Inside
    BY <2>1 DEF UnbegunPc, EarlyPc, RanPc, Final, Inside, StagePc
  <2>5. t = "active" /\ Port # <<>> /\ After # <<>> /\ PastBefore(idx[<<e, t>>], l)
        => e \in soft' \/ pc[<<e, "port">>] # "off"
    BY <2>2, <2>4 DEF Climbed, PortStarted, PastBefore
  <2>6. /\ finished \subseteq finished' /\ soft \subseteq soft' /\ verdict'[e] = verdict[e]
        /\ DoneIn(NoDoc, finished') /\ buf' = [buf EXCEPT ![<<e, t>>] = NoDoc]
        /\ idx' = [idx EXCEPT ![<<e, t>>] = idx[<<e, t>>]] /\ idx[<<e, t>>] <= idx[<<e, t>>]
    BY <1>0, <1>03, <2>2
  <2>7. /\ l \notin UnbegunPc /\ l # "begin" /\ l \notin RanPc /\ l \notin Final
        /\ l \notin {"stopFail", "stopped", "off"}
    BY <2>4
  <2>8. l \in OverPc => idx[<<e, t>>] > Len(List(t))
    BY <2>2
  <2>9. idx[<<e, t>>] \in Nat
    BY <1>03
  <2> QED BY <1>01, <2>1, <2>3, <2>5, <2>6, <2>7, <2>8, <2>9, Advance
<1> QED BY <1>2, <1>3, <1>4, <1>5, <1>6, <1>7, <1>8, <1>9, <1>10, <1>11, <1>12, <1>13, <1>14, <1>15, <1>16, <1>17, <1>18, <1>19 DEF Step

\* Whoever exits leaves nothing behind, and the other engines alone.
LEMMA ExitClimbs ==
  ASSUME TInv, NEW e \in Engine, Exit(e)
  PROVE  /\ Climbed(e)'
         /\ \A f \in Engine \ {e} : /\ \A t \in Thread : idx'[<<f, t>>] = idx[<<f, t>>]
                                    /\ \A b \in Branch : seen'[f][b] = seen[f][b]
<1>1. \A f \in Engine, t \in Thread :
        /\ <<f, t>> \in Proc /\ <<f, t>> \in Worker /\ <<f, t>> # Dash /\ <<f, t>>[1] = f
  BY ProcType
<1>2. \A t \in Thread : pc'[<<e, t>>] = "gone" /\ buf'[<<e, t>>] = NoDoc /\ idx'[<<e, t>>] = 1
  BY <1>1 DEF Exit, Gone
<1>3. \A b \in Branch : seen'[e][b] = {}
  BY DEF Exit, Gone
<1>4. Climbed(e)'
  BY <1>2, <1>3, Asleep
<1>5. \A f \in Engine \ {e}, t \in Thread : idx'[<<f, t>>] = idx[<<f, t>>]
  BY <1>1 DEF Exit, Gone
<1>6. \A f \in Engine \ {e}, b \in Branch : seen'[f][b] = seen[f][b]
  BY DEF Exit, Gone
<1> QED BY <1>4, <1>5, <1>6

\* An engine that is not up and that nobody touches.
LEMMA StillAsleep ==
  ASSUME NEW f \in Engine, ~Up(f), GoneIsGone, Climbed(f),
         \A t \in Thread : /\ pc'[<<f, t>>] = pc[<<f, t>>] /\ buf'[<<f, t>>] = buf[<<f, t>>]
                           /\ idx'[<<f, t>>] = idx[<<f, t>>],
         \A b \in Branch : seen'[f][b] = seen[f][b]
  PROVE  Climbed(f)'
<1>1. \A t \in Thread : pc[<<f, t>>] \in {"none", "off", "gone"} /\ buf[<<f, t>>] = NoDoc
  BY DEF GoneIsGone
<1>2. (\A t \in Thread : idx[<<f, t>>] = 1) /\ \A b \in Branch : seen[f][b] = {}
  BY DEF Climbed, Unbegun, Up, UnbegunPc
<1> QED BY <1>1, <1>2, Asleep

\* The main thread goes from one of its steps to another.
LEMMA MainGoes ==
  ASSUME TInv, TInv', NEW e \in Engine, Climbed(e), NEW l, NEW d, DoneIn(d, finished),
         pc' = [pc EXCEPT ![Main(e)] = l], buf' = [buf EXCEPT ![Main(e)] = d],
         UNCHANGED <<idx, seen, soft, finished>>,
         l = "begin" => DoneIn(d, {}),
         l \in UnbegunPc => pc[Main(e)] \in UnbegunPc,
         l \in OverPc => pc[Main(e)] \in OverPc,
         l \notin RanPc \cup {"stopFail", "stopped", "off"},
         l \in Final /\ verdict'[e] = "completed" => finished = Module
  PROVE  Climbed(e)'
<1>0. <<e, "main">> \in Worker /\ idx \in [Worker -> Nat] /\ "main" \in Thread /\ Main(e) = <<e, "main">>
  BY ProcType, Names DEF TInv, TypeOK
<1>1. /\ idx[<<e, "main">>] \in Nat /\ idx' = [idx EXCEPT ![<<e, "main">>] = idx[<<e, "main">>]]
      /\ idx[<<e, "main">>] <= idx[<<e, "main">>]
  BY <1>0
<1>2. \A b \in Branch : seen'[e][b] \subseteq finished'
  BY DEF Climbed
<1>3. l \in OverPc => idx[<<e, "main">>] > Len(List("main"))
  BY <1>0 DEF Climbed, Over
<1>4. /\ pc' = [pc EXCEPT ![<<e, "main">>] = l] /\ buf' = [buf EXCEPT ![<<e, "main">>] = d]
      /\ finished \subseteq finished' /\ soft \subseteq soft' /\ DoneIn(d, finished')
      /\ \A b \in Branch : seen'[e][b] = seen[e][b]
      /\ l \in RanPc => List("main")[idx[<<e, "main">>]] \in finished'
      /\ l \notin {"stopFail", "stopped", "off"}
      /\ l \in Final /\ verdict'[e] = "completed" => finished' = Module
  BY <1>0
<1> QED BY <1>0, <1>1, <1>2, <1>3, <1>4, Advance

\* Past its first stop check the main thread finds no stop either.
LEMMA StartClimbs ==
  ASSUME TInv, TInv', NEW e \in Engine, Climbed(e), DoneIn(disk, finished), Unstopped(e), Start(e)
  PROVE  Climbed(e)'
<1> USE DEF At, Goto, Put, engineVars, history
<1>0. /\ DoneIn(NoDoc, finished) /\ DoneIn(EmptyState, {}) /\ DoneIn(NewRun(Loaded), {})
      /\ \A m : DoneIn(ClearModulePause(Loaded, m), finished)
      /\ DoneIn(ClearPauses(Loaded), finished) /\ DoneIn(WithRun(Loaded, "running"), finished)
  BY DoneDocs
<1>00. DoneIn(EmptyState, finished) /\ DoneIn(NewRun(Loaded), finished) /\ DoneIn(NoDoc, {})
  BY <1>0, DoneMore DEF DoneIn
<1>01. /\ Main(e) \in Proc /\ buf = [buf EXCEPT ![Main(e)] = buf[Main(e)]]
       /\ pc = [pc EXCEPT ![Main(e)] = pc[Main(e)]]
  BY ProcType DEF TInv, TypeOK
<1>a. ASSUME NEW l \in {"init", "begin", "stop0", "reset", "resetEach", "fork", "fcCheck"},
             NEW d, DoneIn(d, finished), l = "begin" => DoneIn(d, {}),
             pc' = [pc EXCEPT ![Main(e)] = l], buf' = [buf EXCEPT ![Main(e)] = d],
             UNCHANGED <<idx, seen, soft, finished>>,
             l \in UnbegunPc => pc[Main(e)] \in UnbegunPc
      PROVE  Climbed(e)'
  <2>1. l \notin OverPc \cup RanPc \cup {"stopFail", "stopped", "off"} \cup Final
    BY <1>a DEF OverPc, RanPc, Final
  <2> QED BY <1>a, <2>1, MainGoes
<1>1. CASE NothingToResume(e)
  BY <1>1, ExitClimbs DEF NothingToResume
<1>2. CASE WriteRunPid(e)
  BY <1>0, <1>01, <1>2, <1>a DEF WriteRunPid, UnbegunPc, EarlyPc
<1>3. CASE NewRunState(e)
  BY <1>0, <1>00, <1>3, <1>a DEF NewRunState, UnbegunPc, EarlyPc
<1>4. CASE InitState(e)
  <2>1. PICK d \in {NoDoc, EmptyState} : buf' = [buf EXCEPT ![Main(e)] = d]
    BY <1>4 DEF InitState
  <2>2. DoneIn(d, finished) /\ DoneIn(d, {})
    BY <1>0, <1>00, <2>1
  <2> QED BY <1>4, <1>a, <2>1, <2>2 DEF InitState, UnbegunPc, EarlyPc
<1>5. CASE BeginRun(e)
  <2>1. PICK d \in {NoDoc, WithRun(Loaded, "running")} : buf' = [buf EXCEPT ![Main(e)] = d]
    BY <1>5 DEF BeginRun
  <2> QED BY <1>0, <1>5, <1>a, <2>1 DEF BeginRun, UnbegunPc, EarlyPc
<1>6. CASE StartCheck(e)
  <2>1. ~Stopped
    BY <1>6 DEF StartCheck, Unstopped
  <2>2. PICK l \in {"reset", "fcCheck"} : pc' = [pc EXCEPT ![Main(e)] = l]
    BY <1>6, <2>1 DEF StartCheck
  <2>3. buf' = [buf EXCEPT ![Main(e)] = NoDoc] /\ UNCHANGED <<idx, seen, soft, finished>>
    BY <1>01, <1>6 DEF StartCheck
  <2> QED BY <1>0, <1>a, <2>2, <2>3 DEF UnbegunPc, EarlyPc
<1>7. CASE LoadPauses(e)
  <2>1. /\ pc' = [pc EXCEPT ![Main(e)] = "resetEach"] /\ buf' = [buf EXCEPT ![Main(e)] = NoDoc]
        /\ UNCHANGED <<idx, seen, soft, finished>>
    BY <1>01, <1>7 DEF LoadPauses
  <2> QED BY <1>0, <1>a, <2>1 DEF UnbegunPc, EarlyPc
<1>8. CASE ResetOne(e)
  <2>1. PICK m : buf' = [buf EXCEPT ![Main(e)] = ClearModulePause(Loaded, m)]
    BY <1>8 DEF ResetOne
  <2>2. pc' = [pc EXCEPT ![Main(e)] = "resetEach"] /\ UNCHANGED <<idx, seen, soft, finished>>
    BY <1>01, <1>8 DEF ResetOne
  <2> QED BY <1>0, <1>a, <2>1, <2>2 DEF UnbegunPc, EarlyPc
<1>9. CASE ResetAll(e)
  BY <1>0, <1>a, <1>9 DEF ResetAll, UnbegunPc, EarlyPc
<1>10. CASE Fork(e)
  <2>0. /\ \A u \in Thread : <<e, u>> \in Proc
        /\ Main(e) = <<e, "main">> /\ "main" \in Thread /\ "active" \in Thread /\ "passive" \in Thread
    BY ProcType, Names
  <2>1. /\ pc'[<<e, "main">>] = "join" /\ pc'[<<e, "passive">>] = "snap" /\ pc'[<<e, "active">>] = "snap"
        /\ \A u \in Thread \ {"main", "passive", "active"} : pc'[<<e, u>>] = pc[<<e, u>>]
        /\ UNCHANGED <<idx, buf, seen, soft, finished>>
    BY <1>10, <2>0 DEF Fork, TInv, TypeOK
  <2>2. \A u \in Thread : pc'[<<e, u>>] \in {"join", "snap", pc[<<e, u>>]}
    BY <2>1
  <2>3. ASSUME NEW u \in Thread PROVE DoneIn(buf'[<<e, u>>], finished') /\ Ran(e, u)' /\ Over(e, u)'
    BY <2>1, <2>2 DEF Climbed, Ran, Current, RanPc, Over, OverPc, Final
  <2>4. e \in soft' \/ \A u \in Thread : Behind(e, u)'
    BY <2>1 DEF Climbed, Behind
  <2>5. Unbegun(e)' /\ Truthful(e)'
    BY <2>0, <2>1 DEF Unbegun, UnbegunPc, EarlyPc, Truthful, Final, Main
  <2>6. PortStarted(e)'
    BY <2>1, Names DEF Climbed, PortStarted, PastBefore, Inside, StagePc
  <2>7. \A b \in Branch : seen'[e][b] \subseteq finished'
    BY <2>1 DEF Climbed
  <2> QED BY <2>3, <2>4, <2>5, <2>6, <2>7 DEF Climbed
<1> QED BY <1>1, <1>2, <1>3, <1>4, <1>5, <1>6, <1>7, <1>8, <1>9, <1>10 DEF Start

\* Whoever is through without a partial marker has run every module.
LEMMA AllRan ==
  ASSUME TInv, OrderInv, CoversAll, NEW e \in Engine, Climbed(e), pc[Main(e)] = "classify", e \notin soft
  PROVE  finished = Module
<1>0. /\ Main(e) = <<e, "main">> /\ {"main", "passive", "active", "port"} = Thread
      /\ Branch = {"passive", "active"} /\ pc[<<e, "main">>] = "classify"
  BY Names
<1>1. \A b \in Branch : pc[<<e, b>>] \in Out
  BY <1>0 DEF OrderInv, InOrder, Stage, Through
<1>2. \A t \in Thread : pc[<<e, t>>] # "stopped" /\ (pc[<<e, t>>] \in OverPc => idx[<<e, t>>] > Len(List(t)))
  BY DEF Climbed, Over
<1>3. \A t \in {"main", "passive", "active"} : idx[<<e, t>>] > Len(List(t))
  BY <1>0, <1>1, <1>2 DEF Out, OverPc
<1>4. Port # <<>> => idx[<<e, "port">>] > Len(List("port"))
  <2> SUFFICES ASSUME Port # <<>> PROVE idx[<<e, "port">>] > Len(List("port"))
    OBVIOUS
  <2>1. After # <<>> /\ After \in Seq(Module) /\ Before \in Seq(Module)
    BY LadderAssumption DEF CoversAll
  <2>2. Len(After) \in Nat /\ Len(After) > 0 /\ Len(Before) \in Nat
    BY <2>1
  <2>3. Len(List("active")) = Len(Before) + Len(After)
    BY <2>1 DEF List
  <2>4. idx[<<e, "active">>] > Len(Before) + Len(After)
    BY <1>3, <2>3
  <2>5. idx[<<e, "active">>] \in Nat
    BY <1>0, ProcType DEF TInv, TypeOK
  <2>6. pc[<<e, "port">>] # "off"
    BY <2>1, <2>2, <2>4, <2>5 DEF Climbed, PortStarted, PastBefore
  <2>7. pc[<<e, "port">>] \in Out
    BY <1>0, <1>1, <2>6 DEF OrderInv, InOrder, PortThrough
  <2> QED BY <1>0, <1>2, <2>7 DEF Out, OverPc
<1>5. ASSUME NEW m \in Module PROVE m \in finished
  <2>1. PICK t \in Thread : \E i \in 1 .. Len(List(t)) : m = List(t)[i]
    BY DEF CoversAll
  <2>2. PICK i \in 1 .. Len(List(t)) : m = List(t)[i]
    BY <2>1
  <2>3. idx[<<e, t>>] > Len(List(t))
    <3>1. t = "port" => Port # <<>>
      BY <2>2 DEF List
    <3> QED BY <1>0, <1>3, <1>4, <3>1
  <2>4. idx[<<e, t>>] \in Nat /\ Len(List(t)) \in Nat
    BY ProcType, ListType DEF TInv, TypeOK
  <2>5. i < idx[<<e, t>>]
    BY <2>2, <2>3, <2>4
  <2> QED BY <2>2, <2>5 DEF Climbed, Behind
<1> QED BY <1>5 DEF TInv, TypeOK
\* The main thread from the join to the record.
LEMMA RestClimbs ==
  ASSUME TInv, TInv', OrderInv, CoversAll, NEW e \in Engine, Climbed(e), DoneIn(disk, finished),
         Unstopped(e), Rest(e)
  PROVE  Climbed(e)'
<1> USE DEF At, Goto, Put, engineVars, history
<1>0. /\ DoneIn(NoDoc, finished) /\ \A s : DoneIn(WithRun(Loaded, s), finished)
      /\ \A m : DoneIn(WithRow(Loaded, m, "failed"), finished)
  BY DoneDocs
<1>01. /\ Main(e) \in Proc /\ buf = [buf EXCEPT ![Main(e)] = buf[Main(e)]]
       /\ pc = [pc EXCEPT ![Main(e)] = pc[Main(e)]]
  BY ProcType DEF TInv, TypeOK
<1>02. /\ pc[Main(e)] \in {"join", "reset", "fork", "classify", "final", "after", "setFinal", "record",
                           "fcList", "fcEach", "fcCheck", "fcClear"}
       /\ pc[Main(e)] \notin StopPc /\ ~Stopped
  BY DEF Rest, Join, Raise, ClassifyStatus, FinalCheck, SetVerdict, Record, ListRunning,
         FailRunning, FinalizeStopped, CrashCheck, FinalizeCrash, ClearPid, RecordStopped,
         Unstopped, StopPc
<1>a. ASSUME NEW l \in {"check", "fcCheck", "fcList", "fcEach", "fcClear"}, NEW d, DoneIn(d, finished),
             pc' = [pc EXCEPT ![Main(e)] = l], buf' = [buf EXCEPT ![Main(e)] = d],
             UNCHANGED <<idx, seen, soft, finished>>
      PROVE  Climbed(e)'
  <2>1. l \notin OverPc \cup RanPc \cup {"begin", "stopFail", "stopped", "off"} \cup Final \cup UnbegunPc
    BY <1>a DEF OverPc, RanPc, Final, UnbegunPc, EarlyPc
  <2> QED BY <1>a, <2>1, MainGoes
<1>b. ASSUME NEW l \in Final, NEW d, DoneIn(d, finished), pc[Main(e)] \in OverPc,
             pc' = [pc EXCEPT ![Main(e)] = l], buf' = [buf EXCEPT ![Main(e)] = d],
             UNCHANGED <<idx, seen, soft, finished>>,
             verdict'[e] = "completed" => finished = Module
      PROVE  Climbed(e)'
  <2>1. l \notin RanPc \cup {"begin", "stopFail", "stopped", "off"} \cup UnbegunPc
    BY <1>b DEF RanPc, Final, UnbegunPc, EarlyPc
  <2> QED BY <1>b, <2>1, MainGoes
<1>1. CASE Join(e)
  <2>1. /\ pc' = [pc EXCEPT ![Main(e)] = "check"] /\ buf' = [buf EXCEPT ![Main(e)] = NoDoc]
        /\ UNCHANGED <<idx, seen, soft, finished>>
    BY <1>01, <1>02, <1>1 DEF Join
  <2> QED BY <1>0, <1>a, <2>1
<1>2. CASE Raise(e)
  <2>1. /\ pc' = [pc EXCEPT ![Main(e)] = "fcCheck"] /\ buf' = [buf EXCEPT ![Main(e)] = NoDoc]
        /\ UNCHANGED <<idx, seen, soft, finished>>
    BY <1>01, <1>2 DEF Raise
  <2> QED BY <1>0, <1>a, <2>1
<1>3. CASE ClassifyStatus(e)
  <2>1. /\ pc[Main(e)] = "classify" /\ pc' = [pc EXCEPT ![Main(e)] = "final"]
        /\ buf' = [buf EXCEPT ![Main(e)] = NoDoc] /\ UNCHANGED <<idx, seen, soft, finished>>
    BY <1>01, <1>02, <1>3 DEF ClassifyStatus
  <2>2. PICK v \in Verdicts(e) : verdict' = [verdict EXCEPT ![e] = v]
    BY <1>02, <1>3 DEF ClassifyStatus
  <2>3. verdict'[e] = v
    BY <2>2 DEF TInv, TypeOK
  <2>4. v = "completed" => e \notin soft
    BY <2>2 DEF Verdicts
  <2>5. verdict'[e] = "completed" => finished = Module
    BY <2>1, <2>3, <2>4, AllRan
  <2>6. pc[Main(e)] \in OverPc /\ "final" \in Final
    BY <2>1 DEF OverPc, Final
  <2> QED BY <1>0, <1>b, <2>1, <2>5, <2>6
<1>4. CASE FinalCheck(e)
  <2>1. /\ pc[Main(e)] \in {"final", "after"} /\ buf' = [buf EXCEPT ![Main(e)] = NoDoc]
        /\ UNCHANGED <<idx, seen, soft, finished, verdict>>
    BY <1>01, <1>4 DEF FinalCheck
  <2>2. PICK l \in {"setFinal", "record"} : pc' = [pc EXCEPT ![Main(e)] = l]
    BY <1>02, <1>4 DEF FinalCheck
  <2>3. pc[Main(e)] \in OverPc /\ l \in Final
    BY <2>1, <2>2 DEF OverPc, Final
  <2>4. verdict'[e] = "completed" => finished = Module
    BY <2>1 DEF Climbed, Truthful, Final
  <2> QED BY <1>0, <1>b, <2>1, <2>2, <2>3, <2>4
<1>5. CASE SetVerdict(e)
  <2>1. /\ pc[Main(e)] = "setFinal" /\ pc' = [pc EXCEPT ![Main(e)] = "after"]
        /\ UNCHANGED <<idx, seen, soft, finished, verdict>>
    BY <1>5 DEF SetVerdict
  <2>2. PICK d \in {NoDoc, WithRun(Loaded, verdict[e])} : buf' = [buf EXCEPT ![Main(e)] = d]
    BY <1>5 DEF SetVerdict
  <2>3. pc[Main(e)] \in OverPc /\ "after" \in Final /\ DoneIn(d, finished)
    BY <1>0, <2>1, <2>2 DEF OverPc, Final
  <2>4. verdict'[e] = "completed" => finished = Module
    BY <2>1 DEF Climbed, Truthful, Final
  <2> QED BY <1>b, <2>1, <2>2, <2>3, <2>4
<1>6. CASE Record(e)
  BY <1>6, ExitClimbs DEF Record
<1>7. CASE ListRunning(e)
  <2>1. /\ pc' = [pc EXCEPT ![Main(e)] = "fcEach"] /\ buf' = [buf EXCEPT ![Main(e)] = NoDoc]
        /\ UNCHANGED <<idx, seen, soft, finished>>
    BY <1>01, <1>02, <1>7 DEF ListRunning, StopPc
  <2> QED BY <1>0, <1>a, <2>1
<1>8. CASE FailRunning(e)
  <2>1. PICK m : buf' = [buf EXCEPT ![Main(e)] = WithRow(Loaded, m, "failed")]
    BY <1>8 DEF FailRunning, FailRow
  <2>2. pc' = [pc EXCEPT ![Main(e)] = "fcEach"] /\ UNCHANGED <<idx, seen, soft, finished>>
    BY <1>01, <1>02, <1>8 DEF FailRunning, StopPc
  <2> QED BY <1>0, <1>a, <2>1, <2>2
<1>9. CASE CrashCheck(e)
  <2>1. /\ pc' = [pc EXCEPT ![Main(e)] = "fcList"] /\ buf' = [buf EXCEPT ![Main(e)] = NoDoc]
        /\ UNCHANGED <<idx, seen, soft, finished>>
    BY <1>01, <1>02, <1>9 DEF CrashCheck
  <2> QED BY <1>0, <1>a, <2>1
<1>10. CASE FinalizeCrash(e)
  <2>1. PICK d \in {NoDoc, WithRun(Loaded, "failed")} : buf' = [buf EXCEPT ![Main(e)] = d]
    BY <1>10 DEF FinalizeCrash
  <2> QED BY <1>0, <1>10, <1>a, <2>1 DEF FinalizeCrash
<1>11. CASE ClearPid(e)
  BY <1>02, <1>11, ExitClimbs DEF ClearPid, StopPc
<1>12. CASE FinalizeStopped(e) \/ RecordStopped(e)
  BY <1>02, <1>12 DEF FinalizeStopped, RecordStopped, StopPc
<1> QED BY <1>1, <1>2, <1>3, <1>4, <1>5, <1>6, <1>7, <1>8, <1>9, <1>10, <1>11, <1>12 DEF Rest

\* A document is saved.  The one that resets the rows is the first of its engine:
\* nothing has run in the new ladder, and no other thread has anything to save.
LEMMA SaveClimbs ==
  ASSUME TInv, NEW e \in Engine, NEW t \in Thread, Climbed(e), Early(e), Save(<<e, t>>)
  PROVE  DoneIn(disk, finished)' /\ Climbed(e)'
<1>0. /\ buf[<<e, t>>] # NoDoc /\ disk' = buf[<<e, t>>] /\ UNCHANGED <<pc, idx, seen, soft, verdict>>
      /\ finished' = IF pc[<<e, t>>] = "begin" THEN {} ELSE finished
      /\ \A u \in Thread : buf'[<<e, u>>] = IF u = t THEN NoDoc ELSE buf[<<e, u>>]
      /\ Main(e) = <<e, "main">> /\ "main" \in Thread /\ "active" \in Thread
  BY ProcType, Names DEF Save, Put, engineVars, TInv, TypeOK
<1>1. CASE pc[<<e, t>>] = "begin"
  <2>1. t = "main" /\ finished' = {}
    BY <1>0, <1>1 DEF Climbed, Over
  <2>2. /\ DoneIn(buf[<<e, "main">>], {}) /\ \A u \in Thread : idx[<<e, u>>] = 1
        /\ \A b \in Branch : seen[e][b] = {}
    BY <1>0, <1>1, <2>1 DEF Climbed, Unbegun, UnbegunPc, EarlyPc
  <2>3. \A u \in Thread : pc[<<e, u>>] \in {"begin", "none", "off", "gone"} /\ buf'[<<e, u>>] = NoDoc
    BY <1>0, <1>1, <2>1 DEF Early, EarlyPc
  <2>4. ASSUME NEW u \in Thread PROVE DoneIn(buf'[<<e, u>>], finished') /\ Ran(e, u)' /\ Over(e, u)'
    <3>1. Over(e, u)
      BY DEF Climbed
    <3> QED BY <1>0, <2>3, <3>1 DEF DoneIn, Ran, RanPc, Over, OverPc, Final
  <2>5. \A u \in Thread : Behind(e, u)'
    BY <1>0, <2>2, ListType DEF Behind
  <2>6. Unbegun(e)' /\ Truthful(e)'
    BY <1>0, <1>1, <2>1, <2>2, <2>3 DEF Unbegun, UnbegunPc, EarlyPc, Truthful, Final, DoneIn, Main
  <2>7. PortStarted(e)'
    <3>1. Len(Before) \in Nat
      BY LadderAssumption
    <3>2. pc'[<<e, "active">>] \notin Inside
      BY <1>0, <2>3 DEF Inside, StagePc
    <3> QED BY <1>0, <2>2, <3>1, <3>2 DEF PortStarted, PastBefore
  <2>8. \A b \in Branch : seen'[e][b] \subseteq finished'
    BY <1>0, <2>2
  <2>9. DoneIn(disk', finished')
    BY <1>0, <2>1, <2>2
  <2> QED BY <2>4, <2>5, <2>6, <2>7, <2>8, <2>9 DEF Climbed
<1>2. CASE pc[<<e, t>>] # "begin"
  <2>1. finished' = finished
    BY <1>0, <1>2
  <2>2. DoneIn(disk', finished')
    BY <1>0, <2>1 DEF Climbed
  <2>3. ASSUME NEW u \in Thread PROVE DoneIn(buf'[<<e, u>>], finished') /\ Ran(e, u)' /\ Over(e, u)'
    BY <1>0, <2>1 DEF DoneIn, Climbed, Ran, Current, Over
  <2>4. e \in soft' \/ \A u \in Thread : Behind(e, u)'
    BY <1>0, <2>1 DEF Climbed, Behind
  <2>5. Unbegun(e)' /\ Truthful(e)'
    BY <1>0, <2>1 DEF Climbed, Unbegun, Truthful, DoneIn, Main
  <2>6. PortStarted(e)' /\ \A b \in Branch : seen'[e][b] \subseteq finished'
    BY <1>0, <2>1 DEF Climbed, PortStarted
  <2> QED BY <2>2, <2>3, <2>4, <2>5, <2>6 DEF Climbed
<1> QED BY <1>1, <1>2

\* Port-check gets its thread, and is waited for.
LEMMA PortClimbs ==
  ASSUME TInv, TInv', OrderInv, NEW e \in Engine, Climbed(e), Early(e), GoneIsGone, DoneIn(disk, finished),
         ForkPort(e) \/ JoinPort(e)
  PROVE  Climbed(e)'
<1> USE DEF At, Goto, engineVars, history
<1>1. /\ pc[<<e, "active">>] \in {"check", "joinPort"} /\ "active" \in Thread /\ "port" \in Thread
      /\ Main(e) = <<e, "main">>
  BY Names DEF ForkPort, JoinPort
<1>2. pc[Main(e)] \notin UnbegunPc
  <2>1. Up(e)
    BY <1>1 DEF GoneIsGone
  <2>2. pc[Main(e)] \notin EarlyPc
    BY <1>1 DEF Early
  <2> QED BY <2>1, <2>2 DEF Up, UnbegunPc
<1>3. /\ UNCHANGED <<idx, buf, seen, soft, finished, verdict>>
      /\ idx \in [Worker -> Nat] /\ <<e, "port">> \in Worker /\ <<e, "active">> \in Worker
      /\ buf \in [Proc -> Doc \cup {NoDoc}] /\ <<e, "port">> \in Proc /\ <<e, "active">> \in Proc
  BY <1>1, ProcType DEF ForkPort, JoinPort, TInv, TypeOK
<1>4. ASSUME NEW t \in {"active", "port"}
      PROVE  /\ idx[<<e, t>>] \in Nat /\ idx' = [idx EXCEPT ![<<e, t>>] = idx[<<e, t>>]]
             /\ idx[<<e, t>>] <= idx[<<e, t>>]
             /\ buf' = [buf EXCEPT ![<<e, t>>] = buf[<<e, t>>]] /\ DoneIn(buf[<<e, t>>], finished')
             /\ finished \subseteq finished' /\ soft \subseteq soft' /\ verdict'[e] = verdict[e]
             /\ \A b \in Branch : seen'[e][b] \subseteq finished'
  <2>1. idx[<<e, t>>] \in Nat
    BY <1>3
  <2> QED BY <1>1, <1>3, <2>1 DEF Climbed
<1>5. \A l \in {"check", "ended"} :
        l \notin UnbegunPc \cup RanPc \cup {"begin", "stopFail", "stopped", "off"} \cup Final \cup Inside
  BY DEF UnbegunPc, EarlyPc, RanPc, Final, Inside, StagePc
<1>6. CASE ForkPort(e)
  <2>1. pc' = [pc EXCEPT ![<<e, "port">>] = "check"] /\ "check" \notin OverPc
    BY <1>6 DEF ForkPort, OverPc, Final
  <2>2. "check" \notin UnbegunPc \cup RanPc \cup {"begin", "stopFail", "stopped", "off"} \cup Final \cup Inside
    BY <1>5
  <2>3. /\ idx[<<e, "port">>] \in Nat
        /\ idx' = [idx EXCEPT ![<<e, "port">>] = idx[<<e, "port">>]]
        /\ idx[<<e, "port">>] <= idx[<<e, "port">>]
        /\ buf' = [buf EXCEPT ![<<e, "port">>] = buf[<<e, "port">>]] /\ DoneIn(buf[<<e, "port">>], finished')
        /\ finished \subseteq finished' /\ soft \subseteq soft' /\ verdict'[e] = verdict[e]
        /\ \A b \in Branch : seen'[e][b] \subseteq finished'
    BY <1>4
  <2> QED BY <1>1, <1>2, <2>1, <2>2, <2>3, Advance
<1>7. CASE JoinPort(e)
  <2>1. pc[<<e, "port">>] # "stopped" /\ idx[<<e, "active">>] > Len(List("active"))
    BY <1>1, <1>7 DEF JoinPort, Climbed, Over, OverPc
  <2>2. Finished(<<e, "active">>)
    BY <2>1 DEF Finished
  <2>3. pc' = [pc EXCEPT ![<<e, "active">>] = "ended"]
    BY <1>7, <2>1, <2>2 DEF JoinPort
  <2>4. Port # <<>> /\ After # <<>> /\ PastBefore(idx[<<e, "active">>], "ended")
          => e \in soft' \/ pc[<<e, "port">>] # "off"
    BY <1>3, <1>5 DEF Climbed, PortStarted, PastBefore
  <2>5. "ended" \notin UnbegunPc \cup RanPc \cup {"begin", "stopFail", "stopped", "off"} \cup Final \cup Inside
    BY <1>5
  <2>6. /\ idx[<<e, "active">>] \in Nat
        /\ idx' = [idx EXCEPT ![<<e, "active">>] = idx[<<e, "active">>]]
        /\ idx[<<e, "active">>] <= idx[<<e, "active">>]
        /\ buf' = [buf EXCEPT ![<<e, "active">>] = buf[<<e, "active">>]] /\ DoneIn(buf[<<e, "active">>], finished')
        /\ finished \subseteq finished' /\ soft \subseteq soft' /\ verdict'[e] = verdict[e]
        /\ \A b \in Branch : seen'[e][b] \subseteq finished'
    BY <1>4
  <2> QED BY <1>1, <1>2, <2>1, <2>3, <2>4, <2>5, <2>6, Advance
<1> QED BY <1>6, <1>7
\* A thread moves: the other engines, none of which is up, have done nothing.
LEMMA ThreadClimbs ==
  ASSUME TInv, TInv', SInv, OInv, OrderInv, CoversAll, LInv,
         NEW e \in Engine, NEW t \in Thread, ThreadNext(e, t)
  PROVE  LInv'
<1>1. EngineFrame(e)
  BY ThreadFrame DEF SInv
<1>2. /\ Up(e) /\ QuietDash' /\ QuietDash /\ GoneIsGone
      /\ Climbed(e) /\ DoneIn(disk, finished)
  BY <1>1 DEF EngineFrame, LInv, QuietDash, SInv
<1>3. Unstopped(e) /\ Early(e)
  BY <1>2 DEF OInv, EnginesUnstopped, QuietDash
<1>4. ASSUME Save(<<e, t>>)
      PROVE  Climbed(e)' /\ DoneIn(disk, finished)'
  BY <1>2, <1>3, <1>4, SaveClimbs
<1>5. ASSUME ~Save(<<e, t>>)
      PROVE  Climbed(e)' /\ DoneIn(disk, finished)'
  <2>1. Step(e, t) \/ Start(e) \/ Rest(e) \/ ForkPort(e) \/ JoinPort(e)
    BY <1>5 DEF ThreadNext
  <2>2. Climbed(e)'
    BY <1>2, <1>3, <2>1, StepClimbs, StartClimbs, RestClimbs, PortClimbs
  <2>3. disk' = disk /\ finished \subseteq finished'
    <3> USE DEF history
    <3>1. ASSUME Step(e, t) PROVE disk' = disk /\ finished \subseteq finished'
      BY <3>1 DEF Step, Snapshot, CheckStop, CheckSkip, Release, BudgetSpent, GuardRun, SetRunning, Launch,
         ToolEnds, ToolTrips, WorkNoTool, CheckAgain, StopFails, GuardDone, SetDone, IngestLive,
         SetFailed, ThreadEnds, Ends
    <3>2. ASSUME Start(e) PROVE disk' = disk /\ finished \subseteq finished'
      BY <3>2 DEF Start, NothingToResume, WriteRunPid, NewRunState, InitState, BeginRun, StartCheck,
         LoadPauses, ResetOne, ResetAll, Fork
    <3>3. ASSUME Rest(e) PROVE disk' = disk /\ finished \subseteq finished'
      BY <3>3 DEF Rest, Join, Raise, ClassifyStatus, FinalCheck, SetVerdict, Record, ListRunning,
         FailRunning, FinalizeStopped, CrashCheck, FinalizeCrash, ClearPid, RecordStopped
    <3>4. ASSUME ForkPort(e) \/ JoinPort(e) PROVE disk' = disk /\ finished \subseteq finished'
      BY <3>4 DEF ForkPort, JoinPort
    <3> QED BY <2>1, <3>1, <3>2, <3>3, <3>4
  <2>4. DoneIn(disk', finished')
    BY <1>2, <2>3, DoneMore
  <2> QED BY <2>2, <2>4
<1>6. ASSUME NEW f \in Engine, f # e PROVE Climbed(f)'
  <2>1. /\ \A u \in Thread : idx'[<<f, u>>] = idx[<<f, u>>]
        /\ \A b \in Branch : seen'[f][b] = seen[f][b]
    <3>1. CASE Exit(e)
      BY <1>6, <3>1, ExitClimbs
    <3>2. CASE ~Exit(e)
      <4> USE DEF history
      <4>1. (\E i : idx' = [idx EXCEPT ![<<e, t>>] = i]) \/ idx' = idx
        <5>1. ASSUME Step(e, t) PROVE (\E i : idx' = [idx EXCEPT ![<<e, t>>] = i]) \/ idx' = idx
          BY <5>1 DEF Step, Snapshot, CheckStop, CheckSkip, Release, BudgetSpent, GuardRun, SetRunning, Launch,
             ToolEnds, ToolTrips, WorkNoTool, CheckAgain, StopFails, GuardDone, SetDone, IngestLive,
             SetFailed, ThreadEnds, Ends
        <5>2. ASSUME Start(e) PROVE idx' = idx
          BY <3>2, <5>2 DEF Start, NothingToResume, WriteRunPid, NewRunState, InitState, BeginRun,
             StartCheck, LoadPauses, ResetOne, ResetAll, Fork
        <5>3. ASSUME Rest(e) PROVE idx' = idx
          BY <3>2, <5>3 DEF Rest, Join, Raise, ClassifyStatus, FinalCheck, SetVerdict, Record, ListRunning,
             FailRunning, FinalizeStopped, CrashCheck, FinalizeCrash, ClearPid, RecordStopped
        <5>4. ASSUME ForkPort(e) \/ JoinPort(e) \/ Save(<<e, t>>) PROVE idx' = idx
          BY <5>4 DEF ForkPort, JoinPort, Save
        <5> QED BY <5>1, <5>2, <5>3, <5>4 DEF ThreadNext
      <4>2. (\E b, s : seen' = [seen EXCEPT ![e][b] = s]) \/ seen' = seen
        <5>1. ASSUME Step(e, t) PROVE (\E b, s : seen' = [seen EXCEPT ![e][b] = s]) \/ seen' = seen
          BY <5>1 DEF Step, Snapshot, CheckStop, CheckSkip, Release, BudgetSpent, GuardRun, SetRunning, Launch,
             ToolEnds, ToolTrips, WorkNoTool, CheckAgain, StopFails, GuardDone, SetDone, IngestLive,
             SetFailed, ThreadEnds, Ends
        <5>2. ASSUME Start(e) PROVE seen' = seen
          BY <3>2, <5>2 DEF Start, NothingToResume, WriteRunPid, NewRunState, InitState, BeginRun,
             StartCheck, LoadPauses, ResetOne, ResetAll, Fork
        <5>3. ASSUME Rest(e) PROVE seen' = seen
          BY <3>2, <5>3 DEF Rest, Join, Raise, ClassifyStatus, FinalCheck, SetVerdict, Record, ListRunning,
             FailRunning, FinalizeStopped, CrashCheck, FinalizeCrash, ClearPid, RecordStopped
        <5>4. ASSUME ForkPort(e) \/ JoinPort(e) \/ Save(<<e, t>>) PROVE seen' = seen
          BY <5>4 DEF ForkPort, JoinPort, Save
        <5> QED BY <5>1, <5>2, <5>3, <5>4 DEF ThreadNext
      <4>3. \A u \in Thread : <<f, u>> \in Worker /\ <<f, u>> # <<e, t>>
        BY <1>6, ProcType
      <4>4. \A u \in Thread : idx'[<<f, u>>] = idx[<<f, u>>]
        BY <4>1, <4>3 DEF TInv, TypeOK
      <4>5. seen'[f] = seen[f]
        BY <1>6, <4>2 DEF TInv, TypeOK
      <4> QED BY <4>4, <4>5
    <3> QED BY <3>1, <3>2
  <2>2. ~Up(f) /\ Climbed(f)
    BY <1>2, <1>6 DEF OInv, OneEngine, LInv
  <2>3. \A u \in Thread : pc'[<<f, u>>] = pc[<<f, u>>] /\ buf'[<<f, u>>] = buf[<<f, u>>]
    BY <1>1, <1>6 DEF EngineFrame
  <2> QED BY <1>2, <2>1, <2>2, <2>3, StillAsleep
<1> QED BY <1>2, <1>4, <1>5, <1>6 DEF LInv

\* The dashboard starts engines, and engines die.
LEMMA OtherClimbs ==
  ASSUME TInv, SInv, OInv, LInv, OnlyStarts,
         Serve \/ Request \/ \E e \in Engine : CliRun(e) \/ Die(e)
  PROVE  LInv'
<1> USE DEF At, Goto
<1>0. /\ Dash \in Proc /\ pc \in [Proc -> Pc]
      /\ \A f \in Engine, u \in Thread : <<f, u>> \in Proc /\ <<f, u>> # Dash /\ <<f, u>>[1] = f
      /\ \A f \in Engine : Main(f) = <<f, "main">> /\ "main" \in Thread
  BY ProcType, Names DEF TInv, TypeOK
<1>1. buf[Dash] = NoDoc /\ pc[Dash] \in {"idle", "putPid"} /\ GoneIsGone
  BY DEF LInv, QuietDash, OInv, EnginesUnstopped, SInv
<1>a. ASSUME UNCHANGED <<idx, buf, seen, finished, soft, verdict>>, NEW f \in Engine,
             \A u \in Thread : pc'[<<f, u>>] = pc[<<f, u>>]
      PROVE  Climbed(f)'
  <2>1. Climbed(f)
    BY DEF LInv
  <2>2. \A u \in Thread : DoneIn(buf'[<<f, u>>], finished') /\ Ran(f, u)' /\ Over(f, u)'
    BY <1>a, <2>1 DEF DoneIn, Climbed, Ran, Current, Over
  <2>3. f \in soft' \/ \A u \in Thread : Behind(f, u)'
    BY <1>a, <2>1 DEF Climbed, Behind
  <2>4. Unbegun(f)' /\ Truthful(f)'
    BY <1>0, <1>a, <2>1 DEF Climbed, Unbegun, Truthful, DoneIn, Main
  <2>5. PortStarted(f)' /\ \A b \in Branch : seen'[f][b] \subseteq finished'
    BY <1>a, <2>1, Names DEF Climbed, PortStarted
  <2> QED BY <2>2, <2>3, <2>4, <2>5 DEF Climbed
<1>2. CASE StartRun
  <2>1. PICK g \in Engine, fresh \in BOOLEAN : Spawn(g, fresh)
    BY <1>2 DEF StartRun
  <2>2. UNCHANGED <<disk, idx, buf, seen, finished, soft, verdict>>
    BY <1>2 DEF StartRun
  <2>3. pc[Main(g)] = "none" /\ pc' = [pc EXCEPT ![Main(g)] = "boot", ![Dash] = "putPid"]
    BY <2>1 DEF Spawn
  <2>4. /\ pc'[Dash] = "putPid" /\ pc'[<<g, "main">>] = "boot"
        /\ \A f \in Engine, u \in Thread : <<f, u>> # <<g, "main">> => pc'[<<f, u>>] = pc[<<f, u>>]
    BY <1>0, <2>3
  <2>5. Climbed(g)'
    <3>1. ~Up(g) /\ pc[Main(g)] \in UnbegunPc
      BY <2>3 DEF Up, UnbegunPc
    <3>2. \A u \in Thread : pc[<<g, u>>] \in {"none", "off", "gone"} /\ buf[<<g, u>>] = NoDoc
      BY <1>1, <3>1 DEF GoneIsGone
    <3>3. (\A u \in Thread : idx[<<g, u>>] = 1) /\ \A b \in Branch : seen[g][b] = {}
      BY <3>1 DEF LInv, Climbed, Unbegun
    <3>4. \A u \in Thread : pc'[<<g, u>>] \in {"none", "off", "gone", "boot"} /\ buf'[<<g, u>>] = NoDoc
                            /\ idx'[<<g, u>>] = 1
      BY <2>2, <2>4, <3>2, <3>3
    <3> QED BY <2>2, <3>3, <3>4, Asleep
  <2>6. ASSUME NEW f \in Engine, f # g PROVE Climbed(f)'
    BY <2>2, <2>4, <2>6, <1>a
  <2> QED BY <2>2, <2>4, <2>5, <2>6 DEF LInv, QuietDash, DoneIn
<1>3. CASE PutPid \/ Refuse
  <2>1. /\ UNCHANGED <<disk, idx, buf, seen, finished, soft, verdict>> /\ pc'[Dash] \in {"idle", "putPid"}
        /\ \A f \in Engine, u \in Thread : pc'[<<f, u>>] = pc[<<f, u>>]
    BY <1>0, <1>1, <1>3 DEF PutPid, Refuse, engineVars, history
  <2> QED BY <2>1, <1>a DEF LInv, QuietDash, DoneIn
<1>4. ~(StopRun \/ ResetLimiter \/ Save(Dash) \/ StopList \/ StopFailRow \/ StopKill
        \/ StopClear \/ StopContainers)
  BY <1>1 DEF StopRun, ResetLimiter, Asks, OnlyStarts, Save, StopList, StopFailRow, StopKill, StopClear,
              StopContainers
<1>5. ASSUME NEW e \in Engine, CliRun(e) PROVE FALSE
  BY <1>5 DEF CliRun, SInv
<1>6. ASSUME NEW e \in Engine, Die(e) PROVE LInv'
  <2>1. Up(e) /\ Exit(e) /\ disk' = disk /\ finished' = finished
    BY <1>6 DEF Die
  <2>2. ASSUME NEW f \in Engine, f # e PROVE Climbed(f)'
    <3>1. /\ \A u \in Thread : idx'[<<f, u>>] = idx[<<f, u>>]
          /\ \A b \in Branch : seen'[f][b] = seen[f][b]
      BY <2>1, <2>2, ExitClimbs
    <3>2. \A u \in Thread : pc'[<<f, u>>] = pc[<<f, u>>] /\ buf'[<<f, u>>] = buf[<<f, u>>]
      BY <1>0, <2>1, <2>2 DEF Exit, Gone
    <3>3. ~Up(f) /\ Climbed(f)
      BY <2>1, <2>2 DEF OInv, OneEngine, LInv
    <3> QED BY <1>1, <3>1, <3>2, <3>3, StillAsleep
  <2>3. pc'[Dash] = pc[Dash]
    BY <1>0, <2>1 DEF Exit, Gone
  <2> QED BY <1>1, <2>1, <2>2, <2>3, ExitClimbs DEF LInv, QuietDash, DoneIn
<1> QED BY <1>2, <1>3, <1>4, <1>5, <1>6 DEF Serve, Request

LEMMA InitClimbs == Init => LInv
<1> SUFFICES ASSUME Init PROVE LInv
  OBVIOUS
<1>1. \A e \in Engine, t \in Thread : /\ pc[<<e, t>>] \in {"none", "off"} /\ buf[<<e, t>>] = NoDoc
                                      /\ idx[<<e, t>>] = 1
  BY ProcType DEF Init
<1>2. \A e \in Engine, b \in Branch : seen[e][b] = {}
  BY DEF Init
<1>3. /\ \A e \in Engine : Main(e) = <<e, "main">> /\ "main" \in Thread /\ "active" \in Thread
      /\ Len(Before) \in Nat
  BY Names, LadderAssumption
<1>4. ASSUME NEW e \in Engine PROVE Climbed(e)
  <2>1. \A t \in Thread : DoneIn(buf[<<e, t>>], finished) /\ Ran(e, t) /\ Over(e, t) /\ Behind(e, t)
    BY <1>1, ListType DEF DoneIn, Ran, RanPc, Over, OverPc, Final, Behind
  <2>2. Unbegun(e) /\ Truthful(e)
    BY <1>1, <1>2, <1>3 DEF Unbegun, Truthful, Final
  <2>3. PortStarted(e)
    BY <1>1, <1>3 DEF PortStarted, PastBefore, Inside, StagePc
  <2> QED BY <1>2, <2>1, <2>2, <2>3 DEF Climbed
<1> QED BY <1>4, ProcType DEF Init, LInv, QuietDash, DoneIn

\* For any ladder whose modules are all in somebody's list, any number of engines
\* started and resumed one after the other, and deaths at any step of any of them:
\* a run is recorded completed only when every module's runner has returned since
\* the rows were last reset.  A module is skipped on a row that says done, so the
\* argument is that no document anybody holds has such a row for a module that has
\* not run.  A STOP, a restart or a limiter reset is left out, and so is a shell's run:
\* they save documents that were loaded before the rows were reset.
THEOREM CompletedCovers ==
  ASSUME CliRuns = 0, OnlyStarts, CoversAll
  PROVE  Spec => CompletedCoversLadder
<1>1. TInv /\ TInv' /\ SInv /\ OInv /\ OrderInv /\ LInv /\ [Next]_vars => LInv'
  <2> SUFFICES ASSUME TInv, TInv', SInv, OInv, OrderInv, LInv, [Next]_vars PROVE LInv'
    OBVIOUS
  <2>1. ASSUME NEW e \in Engine, NEW t \in Thread, ThreadNext(e, t) PROVE LInv'
    BY <2>1, ThreadClimbs
  <2>2. CASE UNCHANGED vars
    BY <2>2 DEF vars, engineVars, history, LInv, QuietDash, DoneIn, Climbed, Ran, Current, Over,
                Behind, Unbegun, PortStarted, Truthful, Main
  <2> QED BY <2>1, <2>2, OtherClimbs DEF Next
<1>2. TInv /\ LInv /\ [Next]_vars
        => [\A e \in Engine :
              recorded[e] = "none" /\ recorded'[e] = "completed" => finished = Module]_vars
  <2> SUFFICES ASSUME TInv, LInv, [Next]_vars, NEW e \in Engine,
                      recorded[e] = "none", recorded'[e] = "completed"
               PROVE  finished = Module
    OBVIOUS
  <2>1. PICK f \in Engine : Record(f) \/ RecordStopped(f)
    BY WhoRecords
  <2>2. CASE Record(f)
    <3>1. pc[Main(f)] \in Final /\ recorded' = [recorded EXCEPT ![f] = verdict[f]]
      BY <2>2 DEF Record, At, Final
    <3>2. verdict[f] = "completed"
      BY <3>1 DEF TInv, TypeOK
    <3> QED BY <3>1, <3>2 DEF LInv, Climbed, Truthful
  <2>3. CASE RecordStopped(f)
    BY <2>3 DEF RecordStopped, TInv, TypeOK
  <2> QED BY <2>1, <2>2, <2>3
<1>3. "reset" \notin Kinds
  BY DEF OnlyStarts
<1>4. Spec => [](TInv /\ SInv)
  BY StopsInductive
<1>5. Spec => []OInv
  BY <1>3, OneInductive
<1> QED BY <1>1, <1>2, <1>4, <1>5, InitClimbs, InitOrder, NextOrder, PTL
     DEF Spec, CompletedCoversLadder
=============================================================================
