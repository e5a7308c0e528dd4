--------------------------- MODULE Targets_proofs ---------------------------
(* What the steps of runs, saves and deletes preserve, for any targets and      *)
(* settings and without a bound on their number.                               *)
EXTENDS Targets, TLAPS

USE TargetsAssumption

\* The type of a run, as TypeOK states it.
Value == Global \cup Target \cup {None}
RunType == [pc : {"none", "copy", "editTools", "editWords", "reload", "scan",
                  "restoreTools", "restoring", "restoreWords", "end"},
            over : BOOLEAN, tools : Value, words : Value, uses : Value, owed : Value]

\* A run without overrides edits and restores nothing; one with overrides holds
\* the copies it has to put back.
Held(r) ==
  /\ ~r.over => r.pc \in {"none", "reload", "scan", "end"}
  /\ r.over => r.pc # "none"
  /\ r.over /\ r.pc # "copy" => r.tools # None
  /\ r.over /\ r.pc \notin {"copy", "editTools", "editWords"} => r.words # None

AllHeld == \A t \in Target : Held(run[t])

------------------------------------------------------------------------------
(* Types. *)

LEMMA NoRunType == NoRun \in RunType /\ Held(NoRun)
BY DEF NoRun, RunType, Value, None, Held

LEMMA InitTypes == Init => TypeOK /\ AllHeld
<1> SUFFICES ASSUME Init PROVE TypeOK /\ AllHeld
  OBVIOUS
<1>1. run \in [Target -> RunType]
  BY NoRunType DEF Init
<1>2. TypeOK
  BY <1>1 DEF Init, TypeOK, IdleLoop, IdleThread, Profile, None, Torn, RunType, Value
<1> QED BY <1>2, NoRunType DEF Init, AllHeld

\* Only the run of t changes, to r.
LEMMA OneRun ==
  ASSUME TypeOK, AllHeld, NEW t \in Target, NEW r \in RunType, Held(r),
         run' = [run EXCEPT ![t] = r]
  PROVE  run' \in [Target -> RunType] /\ AllHeld'
BY DEF TypeOK, RunType, Value, AllHeld

LEMMA RunTypes ==
  ASSUME TypeOK, AllHeld, NEW t \in Target, RunNext(t)
  PROVE  TypeOK' /\ AllHeld'
<1>0. run \in [Target -> RunType] /\ run[t] \in RunType /\ Held(run[t])
  BY DEF TypeOK, RunType, Value, AllHeld
<1>1. CASE StartRun(t)
  <2>1. PICK r : /\ run' = [run EXCEPT ![t] = r]
                 /\ r = [[NoRun EXCEPT !.over = (registry[t] = "over")]
                           EXCEPT !.pc = IF registry[t] = "over" THEN "copy" ELSE "reload"]
    BY <1>1 DEF StartRun
  <2>2. r \in RunType /\ Held(r)
    <3>1. CASE registry[t] = "over"
      BY <2>1, <3>1 DEF NoRun, RunType, Value, None, Held
    <3>2. CASE registry[t] # "over"
      BY <2>1, <3>2 DEF NoRun, RunType, Value, None, Held
    <3> QED BY <3>1, <3>2
  <2>3. run' \in [Target -> RunType] /\ AllHeld'
    BY <2>1, <2>2, OneRun
  <2>4. tree' \in [Target -> BOOLEAN]
    BY <1>1 DEF StartRun, TypeOK
  <2>5. spoilt' \subseteq {"overlap", "refused", "killed", "edited"}
    BY <1>1 DEF StartRun, TypeOK
  <2>6. ops' \in 0..MaxOps
    BY <1>1 DEF StartRun, TypeOK
  <2>7. UNCHANGED <<tools, words, open, saved, registry, mark, hidden, purged, loop, thread, purger>>
    BY <1>1 DEF StartRun
  <2> QED BY <2>3, <2>4, <2>5, <2>6, <2>7 DEF TypeOK, RunType, Value
<1>2. CASE CopyTools(t)
  <2> DEFINE r == IF tools = Torn THEN NoRun
                  ELSE [run[t] EXCEPT !.tools = tools, !.pc = "editTools"]
  <2>1. r \in RunType /\ Held(r)
    BY <1>0, <1>2, NoRunType DEF CopyTools, TypeOK, RunType, Value, Held, Torn, None
  <2>2. run' = [run EXCEPT ![t] = r]
    BY <1>0, <1>2 DEF CopyTools
  <2> HIDE DEF r
  <2>3. run' \in [Target -> RunType] /\ AllHeld'
    BY <2>1, <2>2, OneRun
  <2> QED BY <1>2, <2>3 DEF CopyTools, TypeOK, files, registered, RunType, Value
<1>3. CASE EditTools(t)
  <2> DEFINE r == [run[t] EXCEPT !.pc = "editWords"]
  <2>1. r \in RunType /\ Held(r)
    BY <1>0, <1>3 DEF EditTools, RunType, Held
  <2>2. run' = [run EXCEPT ![t] = r]
    BY <1>0, <1>3 DEF EditTools
  <2> HIDE DEF r
  <2>3. run' \in [Target -> RunType] /\ AllHeld'
    BY <2>1, <2>2, OneRun
  <2> QED BY <1>3, <2>3 DEF EditTools, TypeOK, registered, RunType, Value
<1>4. CASE RefuseWords(t) \/ EndRun(t) \/ Kill(t)
  <2>1. run' = [run EXCEPT ![t] = NoRun]
    BY <1>4 DEF RefuseWords, EndRun, Kill
  <2>2. run' \in [Target -> RunType] /\ AllHeld'
    BY <2>1, NoRunType, OneRun
  <2>3. CASE RefuseWords(t)
    BY <2>2, <2>3 DEF RefuseWords, TypeOK, files, registered, RunType, Value
  <2>4. CASE EndRun(t)
    BY <2>2, <2>4 DEF EndRun, TypeOK, files, registered, RunType, Value
  <2>5. CASE Kill(t)
    BY <2>2, <2>5 DEF Kill, TypeOK, files, registered, RunType, Value
  <2> QED BY <1>4, <2>3, <2>4, <2>5
<1>5. CASE EditWords(t)
  <2> DEFINE r == [run[t] EXCEPT !.words = words, !.pc = "reload"]
  <2>1. words \in Value /\ words # None
    BY DEF TypeOK, Value, None
  <2>2. r \in RunType /\ Held(r)
    BY <1>0, <1>5, <2>1 DEF EditWords, RunType, Held
  <2>3. run' = [run EXCEPT ![t] = r]
    BY <1>0, <1>5 DEF EditWords
  <2> HIDE DEF r
  <2>4. run' \in [Target -> RunType] /\ AllHeld'
    BY <2>2, <2>3, OneRun
  <2> QED BY <1>5, <2>4 DEF EditWords, TypeOK, registered, RunType, Value
<1>6. CASE Reload(t)
  <2> DEFINE next == IF run[t].over THEN "restoreTools" ELSE "end"
             owed == IF run[t].over THEN t ELSE saved.tools
             r == IF tools = Torn THEN [run[t] EXCEPT !.pc = next]
                  ELSE [run[t] EXCEPT !.uses = tools, !.pc = "scan", !.owed = owed]
  <2>1. owed \in Value
    BY DEF TypeOK, Value
  <2>2. CASE tools = Torn
    <3>1. r = [run[t] EXCEPT !.pc = next]
      BY <2>2
    <3>2. r \in RunType /\ Held(r)
      BY <1>0, <1>6, <3>1 DEF Reload, RunType, Held
    <3>3. run' = [run EXCEPT ![t] = r]
      BY <1>0, <1>6, <2>2 DEF Reload
    <3> HIDE DEF r
    <3>4. run' \in [Target -> RunType] /\ AllHeld'
      BY <3>2, <3>3, OneRun
    <3> QED BY <1>6, <3>4 DEF Reload, TypeOK, files, registered, RunType, Value
  <2>3. CASE tools # Torn
    <3>1. tools \in Value
      BY <2>3 DEF TypeOK, Value
    <3>2. r = [run[t] EXCEPT !.uses = tools, !.pc = "scan", !.owed = owed]
      BY <2>3
    <3>3. r \in RunType
      <4> HIDE DEF owed
      <4> QED BY <1>0, <2>1, <3>1, <3>2 DEF RunType
    <3>4. Held(r)
      BY <1>0, <1>6, <3>2 DEF Reload, RunType, Held
    <3>5. run' = [run EXCEPT ![t] = r]
      BY <1>0, <1>6, <2>3 DEF Reload
    <3> HIDE DEF r
    <3>6. run' \in [Target -> RunType] /\ AllHeld'
      BY <3>3, <3>4, <3>5, OneRun
    <3> QED BY <1>6, <3>6 DEF Reload, TypeOK, files, registered, RunType, Value
  <2> QED BY <2>2, <2>3
<1>7. CASE WriteTree(t)
  BY <1>7 DEF WriteTree, TypeOK, files, AllHeld
<1>8. CASE EndScan(t)
  <2> DEFINE r == [run[t] EXCEPT !.pc = IF run[t].over THEN "restoreTools" ELSE "end"]
  <2>1. r \in RunType /\ Held(r)
    BY <1>0, <1>8 DEF EndScan, RunType, Held
  <2>2. run' = [run EXCEPT ![t] = r]
    BY <1>0, <1>8 DEF EndScan
  <2> HIDE DEF r
  <2>3. run' \in [Target -> RunType] /\ AllHeld'
    BY <2>1, <2>2, OneRun
  <2> QED BY <1>8, <2>3 DEF EndScan, TypeOK, files, registered, RunType, Value
<1>9. CASE RestoreTools(t)
  <2> DEFINE r == [run[t] EXCEPT !.pc = "restoring"]
  <2>1. r \in RunType /\ Held(r)
    BY <1>0, <1>9 DEF RestoreTools, RunType, Held
  <2>2. run' = [run EXCEPT ![t] = r]
    BY <1>0, <1>9 DEF RestoreTools
  <2> HIDE DEF r
  <2>3. run' \in [Target -> RunType] /\ AllHeld'
    BY <2>1, <2>2, OneRun
  <2> QED BY <1>9, <2>3 DEF RestoreTools, TypeOK, registered, RunType, Value
<1>10. CASE Restoring(t)
  <2> DEFINE r == [run[t] EXCEPT !.pc = "restoreWords"]
  <2>1. r \in RunType /\ Held(r)
    BY <1>0, <1>10 DEF Restoring, RunType, Held
  <2>2. run' = [run EXCEPT ![t] = r]
    BY <1>0, <1>10 DEF Restoring
  <2> HIDE DEF r
  <2>3. run' \in [Target -> RunType] /\ AllHeld'
    BY <2>1, <2>2, OneRun
  <2>4. tools' \in Global \cup Target \cup {Torn}
    BY <1>0, <1>10 DEF Restoring, TypeOK, RunType, Value, Held
  <2>5. open' \subseteq Target /\ UNCHANGED <<words, saved, spoilt, registered, ops>>
    BY <1>10 DEF Restoring, TypeOK
  <2> QED BY <2>3, <2>4, <2>5 DEF TypeOK, registered, RunType, Value
<1>11. CASE RestoreWords(t)
  <2> DEFINE r == [run[t] EXCEPT !.pc = "end"]
  <2>1. r \in RunType /\ Held(r)
    BY <1>0, <1>11 DEF RestoreWords, RunType, Held
  <2>2. run' = [run EXCEPT ![t] = r]
    BY <1>0, <1>11 DEF RestoreWords
  <2> HIDE DEF r
  <2>3. run' \in [Target -> RunType] /\ AllHeld'
    BY <2>1, <2>2, OneRun
  <2>4. words' \in Global \cup Target
    BY <1>0, <1>11 DEF RestoreWords, TypeOK, RunType, Value, Held
  <2>5. UNCHANGED <<tools, open, saved, spoilt, registered, ops>>
    BY <1>11 DEF RestoreWords
  <2> QED BY <2>3, <2>4, <2>5 DEF TypeOK, registered, RunType, Value
<1> QED BY <1>1, <1>2, <1>3, <1>4, <1>5, <1>6, <1>7, <1>8, <1>9, <1>10, <1>11 DEF RunNext

LEMMA NextTypes == TypeOK /\ AllHeld /\ [Next]_vars => TypeOK' /\ AllHeld'
<1> SUFFICES ASSUME TypeOK, AllHeld, [Next]_vars PROVE TypeOK' /\ AllHeld'
  OBVIOUS
<1> DEFINE LoopType == [pc : {"idle", "clear", "find", "write"}, t : Target \cup {None},
                        reg : [Target -> Profile]]
           ThreadType == [pc : {"idle", "write", "mark", "marked"}, t : Target \cup {None},
                          reg : [Target -> Profile]]
<1>0. /\ run' = run => AllHeld'
      /\ IdleLoop \in LoopType /\ IdleThread \in ThreadType
      /\ loop \in LoopType /\ thread \in ThreadType /\ registry \in [Target -> Profile]
  BY DEF AllHeld, IdleLoop, IdleThread, Profile, TypeOK
<1>1. ASSUME NEW t \in Target, RunNext(t) PROVE TypeOK' /\ AllHeld'
  BY <1>1, RunTypes
<1>2. ASSUME NEW t \in Target, Add(t) PROVE TypeOK' /\ AllHeld'
  <2>1. loop' \in LoopType
    BY <1>0, <1>2 DEF Add
  <2>2. tree' \in [Target -> BOOLEAN] /\ ops' \in 0..MaxOps
    BY <1>2 DEF Add, TypeOK
  <2> QED BY <1>0, <1>2, <2>1, <2>2 DEF Add, TypeOK, files
<1>3. ASSUME NEW t \in Target, Delete(t) PROVE TypeOK' /\ AllHeld'
  <2>1. thread' \in ThreadType
    BY <1>0, <1>3 DEF Delete, Profile
  <2>2. ops' \in 0..MaxOps
    BY <1>3 DEF Delete, TypeOK
  <2> QED BY <1>0, <1>3, <2>1, <2>2 DEF Delete, TypeOK, files
<1>4. ASSUME NEW t \in Target, Expire(t) PROVE TypeOK' /\ AllHeld'
  BY <1>0, <1>4 DEF Expire, TypeOK, files
<1>5. ASSUME NEW t \in Target, ReadMark(t) PROVE TypeOK' /\ AllHeld'
  BY <1>0, <1>5 DEF ReadMark, TypeOK, files
<1>6. ASSUME NEW t \in Target, NEW p \in Profile, SaveProfile(t, p) PROVE TypeOK' /\ AllHeld'
  <2>1. loop' \in LoopType
    BY <1>0, <1>6 DEF SaveProfile
  <2>2. ops' \in 0..MaxOps
    BY <1>6 DEF SaveProfile, TypeOK
  <2> QED BY <1>0, <1>6, <2>1, <2>2 DEF SaveProfile, TypeOK, files
<1>7. ASSUME NEW v \in Global, SaveTools(v) PROVE TypeOK' /\ AllHeld'
  BY <1>0, <1>7 DEF SaveTools, Spoils, TypeOK, registered
<1>8. ASSUME NEW v \in Global, SaveWords(v) PROVE TypeOK' /\ AllHeld'
  BY <1>0, <1>8 DEF SaveWords, Spoils, TypeOK, registered
<1>9. CASE Clear
  BY <1>0, <1>9 DEF Clear, TypeOK, files
<1>10. CASE Find
  <2>1. loop' \in LoopType
    BY <1>0, <1>10 DEF Find, Profile
  <2> QED BY <1>0, <1>10, <2>1 DEF Find, TypeOK, files
<1>11. CASE WriteRegistry
  BY <1>0, <1>11 DEF WriteRegistry, TypeOK, files
<1>12. CASE DeleteWrite
  <2>1. thread' \in ThreadType
    BY <1>0, <1>12 DEF DeleteWrite
  <2> QED BY <1>0, <1>12, <2>1 DEF DeleteWrite, TypeOK, files
<1>13. CASE Mark
  <2>1. thread' \in ThreadType
    BY <1>0, <1>13 DEF Mark
  <2> QED BY <1>0, <1>13, <2>1 DEF Mark, TypeOK, files
<1>14. CASE Marked
  <2>1. mark' \in [Target -> {"none", "torn", "kept", "due"}] /\ thread' \in ThreadType
    BY <1>0, <1>14 DEF Marked, TypeOK
  <2>2. hidden' \in [Target -> BOOLEAN]
    BY <1>14 DEF Marked, TypeOK
  <2>3. purged' \in [Target -> BOOLEAN]
    BY <1>14 DEF Marked, TypeOK
  <2> QED BY <1>0, <1>14, <2>1, <2>2, <2>3 DEF Marked, TypeOK, files
<1>15. CASE Purge
  BY <1>0, <1>15 DEF Purge, TypeOK, files
<1>16. CASE UNCHANGED vars
  BY <1>0, <1>16 DEF vars, TypeOK, files, registered
<1> QED BY <1>1, <1>2, <1>3, <1>4, <1>5, <1>6, <1>7, <1>8, <1>9, <1>10, <1>11, <1>12,
           <1>13, <1>14, <1>15, <1>16 DEF Next

\* Every variable keeps its type, whatever runs and requests overlap.
THEOREM TypesOfTargets == Spec => [](TypeOK /\ AllHeld)
BY InitTypes, NextTypes, PTL DEF Spec

------------------------------------------------------------------------------
(* A deleted target stays hidden. *)

\* A tombstone lies in a directory, and what is hidden has one or has lost it to
\* a purge.
HiddenInv ==
  /\ \A t \in Target : mark[t] # "none" => tree[t]
  /\ \A t \in Target : hidden[t] => purged[t] \/ mark[t] # "none"

LEMMA HiddenStep == TypeOK /\ HiddenInv /\ [Next]_vars => HiddenInv'
<1> SUFFICES ASSUME TypeOK, HiddenInv, [Next]_vars PROVE HiddenInv'
  OBVIOUS
<1>0. /\ tree \in [Target -> BOOLEAN] /\ hidden \in [Target -> BOOLEAN]
      /\ purged \in [Target -> BOOLEAN] /\ mark \in [Target -> {"none", "torn", "kept", "due"}]
  BY DEF TypeOK
<1> USE DEF HiddenInv, files, registered
<1>1. ASSUME NEW t \in Target, RunNext(t) PROVE HiddenInv'
  <2>1. CASE StartRun(t)
    BY <1>0, <2>1 DEF StartRun
  <2>2. CASE WriteTree(t)
    BY <1>0, <2>2 DEF WriteTree
  <2>3. CASE UNCHANGED registered
    BY <2>3
  <2> QED BY <1>1, <2>1, <2>2, <2>3 DEF RunNext, CopyTools, EditTools, RefuseWords, EditWords, Reload,
             EndScan, RestoreTools, Restoring, RestoreWords, EndRun, Kill
<1>2. ASSUME NEW t \in Target, Add(t) PROVE HiddenInv'
  BY <1>0, <1>2 DEF Add
<1>3. ASSUME NEW t \in Target, Delete(t) \/ ReadMark(t) PROVE HiddenInv'
  BY <1>3 DEF Delete, ReadMark
<1>4. ASSUME NEW t \in Target, Expire(t) PROVE HiddenInv'
  BY <1>0, <1>4 DEF Expire
<1>5. ASSUME NEW t \in Target, NEW p \in Profile, SaveProfile(t, p) PROVE HiddenInv'
  BY <1>5 DEF SaveProfile
<1>6. ASSUME NEW v \in Global, SaveTools(v) \/ SaveWords(v) PROVE HiddenInv'
  BY <1>6 DEF SaveTools, SaveWords
<1>7. CASE Clear
  BY <1>0, <1>7 DEF Clear
<1>8. CASE Find \/ WriteRegistry \/ DeleteWrite
  BY <1>8 DEF Find, WriteRegistry, DeleteWrite
<1>9. CASE Mark
  BY <1>0, <1>9 DEF Mark
<1>10. CASE Marked
  BY <1>0, <1>10 DEF Marked
<1>11. CASE Purge
  BY <1>0, <1>11 DEF Purge
<1>12. CASE UNCHANGED vars
  BY <1>12 DEF vars
<1> QED BY <1>1, <1>2, <1>3, <1>4, <1>5, <1>6, <1>7, <1>8, <1>9, <1>10, <1>11, <1>12 DEF Next

\* Whatever saves, runs and purges overlap a delete, a deleted target is listed
\* again only when its directory has been purged or when it was added.
THEOREM Hidden == Spec => []DeletedStaysHidden
<1>1. Init => HiddenInv
  BY DEF Init, HiddenInv
<1>2. HiddenInv => DeletedStaysHidden
  BY DEF HiddenInv, DeletedStaysHidden, Listed
<1> QED BY <1>1, <1>2, TypesOfTargets, HiddenStep, PTL DEF Spec

------------------------------------------------------------------------------
(* The settings come back. *)

\* What the files and the copies of t hold at each point of its run.
Stage(t) ==
  /\ run[t].pc \in {"copy", "editTools", "restoreWords", "end"} => tools = saved.tools
  /\ run[t].pc \in {"editWords", "reload"} => tools = t
  /\ run[t].pc \in {"copy", "editTools", "editWords", "end"} => words = saved.words
  /\ run[t].pc # "copy" => run[t].tools = saved.tools
  /\ run[t].pc \notin {"copy", "editTools", "editWords"} => run[t].words = saved.words
  /\ run[t].pc = "restoring" => t \in open

\* As long as nothing has disturbed a run: one with overrides is alone, and
\* without one the files hold what was saved.
Undisturbed ==
  /\ \A t, u \in Target : t # u /\ run[t].over => ~Active(u)
  /\ (\A t \in Target : ~run[t].over) => tools = saved.tools /\ words = saved.words
  /\ \A t \in Target : run[t].over => Stage(t)
  /\ \A t \in Target : run[t].pc = "scan" => run[t].uses = run[t].owed

FilesInv == spoilt = {} => Undisturbed

\* A step of the run of t when no other run has overrides.
LEMMA AloneStep ==
  ASSUME TypeOK, AllHeld, Undisturbed, NEW t \in Target, NEW r \in RunType,
         run' = [run EXCEPT ![t] = r],
         \A u \in Target \ {t} : ~run[u].over,
         r.over => \A u \in Target \ {t} : ~Active(u),
         ~r.over => tools' = saved'.tools /\ words' = saved'.words,
         r.over => Stage(t)',
         r.pc = "scan" => r.uses = r.owed
  PROVE  Undisturbed'
<1>0. run \in [Target -> RunType]
  BY DEF TypeOK, RunType, Value
<1>1. run'[t] = r /\ \A u \in Target \ {t} : run'[u] = run[u]
  BY <1>0
<1> QED BY <1>1 DEF Undisturbed, Active

\* Of a run under way with nothing disturbed: no other has overrides, and with
\* overrides no other is up.
LEMMA Alone ==
  ASSUME TypeOK, AllHeld, Undisturbed, NEW t \in Target, Active(t)
  PROVE  /\ \A u \in Target \ {t} : ~run[u].over
         /\ run[t].over => \A u \in Target \ {t} : ~Active(u)
         /\ run[t].over => Stage(t)
         /\ ~run[t].over => tools = saved.tools /\ words = saved.words
         /\ saved.tools \in Global
BY DEF Undisturbed, AllHeld, Held, Active, TypeOK

LEMMA RunFiles ==
  ASSUME TypeOK, AllHeld, FilesInv, NEW t \in Target, RunNext(t)
  PROVE  FilesInv'
<1> SUFFICES ASSUME spoilt' = {} PROVE Undisturbed'
  BY DEF FilesInv
<1>a. spoilt = {}
  BY DEF RunNext, StartRun, CopyTools, EditTools, RefuseWords, EditWords, Reload, WriteTree, EndScan,
         RestoreTools, Restoring, RestoreWords, EndRun, Kill, files
<1>b. Undisturbed
  BY <1>a DEF FilesInv
<1>0. run \in [Target -> RunType] /\ run[t] \in RunType /\ Held(run[t])
  BY DEF TypeOK, RunType, Value, AllHeld
<1>1. CASE StartRun(t)
  <2>1. PICK r : /\ run' = [run EXCEPT ![t] = r]
                 /\ r = [[NoRun EXCEPT !.over = (registry[t] = "over")]
                           EXCEPT !.pc = IF registry[t] = "over" THEN "copy" ELSE "reload"]
    BY <1>1 DEF StartRun
  <2>2. r \in RunType /\ r.over = (registry[t] = "over") /\ r.pc \in {"copy", "reload"}
    BY <2>1 DEF NoRun, RunType, Value, None
  <2>3. /\ r.over => r.pc = "copy"
        /\ run'[t] = r
    BY <1>0, <2>1, <2>2 DEF NoRun
  <2>4. \A u \in Target \ {t} : ~run[u].over
    BY <1>1, <1>a DEF StartRun, Active, AllHeld, Held
  <2>5. r.over => \A u \in Target \ {t} : ~Active(u)
    BY <1>1, <1>a, <2>2 DEF StartRun
  <2>6. tools' = saved'.tools /\ words' = saved'.words
    <3>1. ~run[t].over
      BY <1>0, <1>1 DEF StartRun, Active, Held
    <3> QED BY <1>1, <1>b, <2>4, <3>1 DEF StartRun, Undisturbed
  <2>7. r.over => Stage(t)'
    BY <2>3, <2>6 DEF Stage
  <2> QED BY <1>b, <2>1, <2>2, <2>4, <2>5, <2>6, <2>7, AloneStep
<1>2. CASE CopyTools(t)
  <2>1. Active(t) /\ run[t].over
    BY <1>0, <1>2 DEF CopyTools, Active, Held
  <2>2. tools = saved.tools /\ words = saved.words /\ saved.tools \in Global
    BY <1>2, <1>b, <2>1, Alone DEF CopyTools, Stage
  <2> DEFINE r == [run[t] EXCEPT !.tools = tools, !.pc = "editTools"]
  <2>3. run' = [run EXCEPT ![t] = r]
    BY <1>0, <1>2, <2>2 DEF CopyTools, Torn
  <2>4. r \in RunType /\ r.over /\ r.pc = "editTools" /\ r.tools = tools
    BY <1>0, <2>1, <2>2 DEF RunType, Value
  <2> HIDE DEF r
  <2>5. run'[t] = r /\ UNCHANGED <<tools, words, saved>>
    BY <1>0, <1>2, <2>3 DEF CopyTools, files
  <2>6. Stage(t)'
    BY <2>2, <2>4, <2>5 DEF Stage
  <2> QED BY <1>b, <2>1, <2>3, <2>4, <2>6, Alone, AloneStep
<1>3. CASE EditTools(t)
  <2>1. Active(t) /\ run[t].over
    BY <1>0, <1>3 DEF EditTools, Active, Held
  <2>2. words = saved.words /\ run[t].tools = saved.tools
    BY <1>3, <1>b, <2>1, Alone DEF EditTools, Stage
  <2> DEFINE r == [run[t] EXCEPT !.pc = "editWords"]
  <2>3. run' = [run EXCEPT ![t] = r]
    BY <1>0, <1>3 DEF EditTools
  <2>4. r \in RunType /\ r.over /\ r.pc = "editWords" /\ r.tools = run[t].tools
    BY <1>0, <2>1 DEF RunType
  <2> HIDE DEF r
  <2>5. run'[t] = r /\ tools' = t /\ UNCHANGED <<words, saved>>
    BY <1>0, <1>3, <2>3 DEF EditTools
  <2>6. Stage(t)'
    BY <2>2, <2>4, <2>5 DEF Stage
  <2> QED BY <1>b, <2>1, <2>3, <2>4, <2>6, Alone, AloneStep
<1>4. CASE RefuseWords(t)
  BY <1>4 DEF RefuseWords
<1>5. CASE EditWords(t)
  <2>1. Active(t) /\ run[t].over
    BY <1>0, <1>5 DEF EditWords, Active, Held
  <2>2. tools = t /\ words = saved.words /\ run[t].tools = saved.tools
    BY <1>5, <1>b, <2>1, Alone DEF EditWords, Stage
  <2> DEFINE r == [run[t] EXCEPT !.words = words, !.pc = "reload"]
  <2>3. run' = [run EXCEPT ![t] = r]
    BY <1>0, <1>5 DEF EditWords
  <2>4. r \in RunType /\ r.over /\ r.pc = "reload" /\ r.tools = run[t].tools /\ r.words = words
    BY <1>0, <2>1 DEF RunType, TypeOK, Value
  <2> HIDE DEF r
  <2>5. run'[t] = r /\ UNCHANGED <<tools, saved>>
    BY <1>0, <1>5, <2>3 DEF EditWords
  <2>6. Stage(t)'
    BY <2>2, <2>4, <2>5 DEF Stage
  <2> QED BY <1>b, <2>1, <2>3, <2>4, <2>6, Alone, AloneStep
<1>6. CASE Reload(t)
  <2>1. Active(t) /\ UNCHANGED <<tools, words, saved>>
    BY <1>6 DEF Reload, Active, files
  <2>2. run[t].over => /\ tools = t /\ run[t].tools = saved.tools /\ run[t].words = saved.words
    BY <1>6, <1>b, <2>1, Alone DEF Reload, Stage
  <2>3. ~run[t].over => tools = saved.tools /\ words = saved.words
    BY <1>b, <2>1, Alone
  <2>4. tools # Torn /\ tools \in Value
    BY <1>b, <2>1, <2>2, <2>3, Alone DEF Torn, Value
  <2> DEFINE owed == IF run[t].over THEN t ELSE saved.tools
             r == [run[t] EXCEPT !.uses = tools, !.pc = "scan", !.owed = owed]
  <2>5. run' = [run EXCEPT ![t] = r]
    BY <1>0, <1>6, <2>4 DEF Reload
  <2>6. owed = tools
    BY <2>2, <2>3
  <2> HIDE DEF owed
  <2>7. /\ r \in RunType /\ r.pc = "scan" /\ r.uses = r.owed
        /\ r.over = run[t].over /\ r.tools = run[t].tools /\ r.words = run[t].words
    BY <1>0, <2>4, <2>6 DEF RunType
  <2> HIDE DEF r
  <2>8. run'[t] = r
    BY <1>0, <2>5
  <2>9. r.over => Stage(t)'
    BY <2>1, <2>2, <2>7, <2>8 DEF Stage
  <2> QED BY <1>b, <2>1, <2>3, <2>5, <2>7, <2>9, Alone, AloneStep
<1>7. CASE WriteTree(t)
  BY <1>7, <1>b DEF WriteTree, files, Undisturbed, Active, Stage
<1>8. CASE EndScan(t)
  <2>1. Active(t) /\ UNCHANGED <<tools, words, saved>>
    BY <1>8 DEF EndScan, Active, files
  <2>2. run[t].over => run[t].tools = saved.tools /\ run[t].words = saved.words
    BY <1>8, <1>b, <2>1, Alone DEF EndScan, Stage
  <2> DEFINE r == [run[t] EXCEPT !.pc = IF run[t].over THEN "restoreTools" ELSE "end"]
  <2>3. run' = [run EXCEPT ![t] = r]
    BY <1>0, <1>8 DEF EndScan
  <2>4. /\ r \in RunType /\ r.pc \in {"restoreTools", "end"} /\ (r.over => r.pc = "restoreTools")
        /\ r.over = run[t].over /\ r.tools = run[t].tools /\ r.words = run[t].words
    BY <1>0 DEF RunType
  <2> HIDE DEF r
  <2>5. run'[t] = r
    BY <1>0, <2>3
  <2>6. r.over => Stage(t)'
    BY <2>1, <2>2, <2>4, <2>5 DEF Stage
  <2> QED BY <1>b, <2>1, <2>3, <2>4, <2>6, Alone, AloneStep
<1>9. CASE RestoreTools(t)
  <2>1. Active(t) /\ run[t].over
    BY <1>0, <1>9 DEF RestoreTools, Active, Held
  <2>2. run[t].tools = saved.tools /\ run[t].words = saved.words
    BY <1>9, <1>b, <2>1, Alone DEF RestoreTools, Stage
  <2> DEFINE r == [run[t] EXCEPT !.pc = "restoring"]
  <2>3. run' = [run EXCEPT ![t] = r]
    BY <1>0, <1>9 DEF RestoreTools
  <2>4. /\ r \in RunType /\ r.over /\ r.pc = "restoring"
        /\ r.tools = run[t].tools /\ r.words = run[t].words
    BY <1>0, <2>1 DEF RunType
  <2> HIDE DEF r
  <2>5. run'[t] = r /\ t \in open' /\ UNCHANGED saved
    BY <1>0, <1>9, <2>3 DEF RestoreTools
  <2>6. Stage(t)'
    BY <2>2, <2>4, <2>5 DEF Stage
  <2> QED BY <1>b, <2>1, <2>3, <2>4, <2>6, Alone, AloneStep
<1>10. CASE Restoring(t)
  <2>1. Active(t) /\ run[t].over
    BY <1>0, <1>10 DEF Restoring, Active, Held
  <2>2. run[t].tools = saved.tools /\ run[t].words = saved.words /\ t \in open
    BY <1>10, <1>b, <2>1, Alone DEF Restoring, Stage
  <2> DEFINE r == [run[t] EXCEPT !.pc = "restoreWords"]
  <2>3. run' = [run EXCEPT ![t] = r]
    BY <1>0, <1>10 DEF Restoring
  <2>4. /\ r \in RunType /\ r.over /\ r.pc = "restoreWords"
        /\ r.tools = run[t].tools /\ r.words = run[t].words
    BY <1>0, <2>1 DEF RunType
  <2> HIDE DEF r
  <2>5. run'[t] = r /\ tools' = saved.tools /\ UNCHANGED saved
    BY <1>0, <1>10, <2>2, <2>3 DEF Restoring
  <2>6. Stage(t)'
    BY <2>2, <2>4, <2>5 DEF Stage
  <2> QED BY <1>b, <2>1, <2>3, <2>4, <2>6, Alone, AloneStep
<1>11. CASE RestoreWords(t)
  <2>1. Active(t) /\ run[t].over
    BY <1>0, <1>11 DEF RestoreWords, Active, Held
  <2>2. run[t].tools = saved.tools /\ run[t].words = saved.words /\ tools = saved.tools
    BY <1>11, <1>b, <2>1, Alone DEF RestoreWords, Stage
  <2> DEFINE r == [run[t] EXCEPT !.pc = "end"]
  <2>3. run' = [run EXCEPT ![t] = r]
    BY <1>0, <1>11 DEF RestoreWords
  <2>4. /\ r \in RunType /\ r.over /\ r.pc = "end"
        /\ r.tools = run[t].tools /\ r.words = run[t].words
    BY <1>0, <2>1 DEF RunType
  <2> HIDE DEF r
  <2>5. run'[t] = r /\ words' = saved.words /\ UNCHANGED <<tools, saved>>
    BY <1>0, <1>11, <2>2, <2>3 DEF RestoreWords
  <2>6. Stage(t)'
    BY <2>2, <2>4, <2>5 DEF Stage
  <2> QED BY <1>b, <2>1, <2>3, <2>4, <2>6, Alone, AloneStep
<1>12. CASE EndRun(t) \/ Kill(t)
  <2>1. Active(t) /\ run' = [run EXCEPT ![t] = NoRun] /\ UNCHANGED <<tools, words, saved>>
    BY <1>12 DEF EndRun, Kill, Active, files
  <2>2. run[t].over => run[t].pc \in {"end", "copy", "editTools"}
    <3>1. CASE EndRun(t)
      BY <3>1 DEF EndRun
    <3>2. CASE Kill(t)
      BY <1>0, <2>1, <3>2 DEF Kill, Edited, Active
    <3> QED BY <1>12, <3>1, <3>2
  <2>3. tools = saved.tools /\ words = saved.words
    BY <1>b, <2>1, <2>2, Alone DEF Stage
  <2>4. NoRun \in RunType /\ ~NoRun.over /\ NoRun.pc # "scan"
    BY NoRunType DEF NoRun
  <2> QED BY <1>b, <2>1, <2>3, <2>4, Alone, AloneStep
<1> QED BY <1>1, <1>2, <1>3, <1>4, <1>5, <1>6, <1>7, <1>8, <1>9, <1>10, <1>11, <1>12 DEF RunNext

LEMMA FilesStep == TypeOK /\ AllHeld /\ FilesInv /\ [Next]_vars => FilesInv'
<1> SUFFICES ASSUME TypeOK, AllHeld, FilesInv, [Next]_vars PROVE FilesInv'
  OBVIOUS
<1>1. ASSUME NEW t \in Target, RunNext(t) PROVE FilesInv'
  BY <1>1, RunFiles
<1>2. ASSUME NEW v \in Global, SaveTools(v) \/ SaveWords(v) PROVE FilesInv'
  <2> SUFFICES ASSUME spoilt' = {} PROVE Undisturbed'
    BY DEF FilesInv
  <2>1. spoilt = {} /\ ~\E t \in Target : Active(t) /\ run[t].over
    BY <1>2 DEF SaveTools, SaveWords, Spoils
  <2>2. Undisturbed /\ (\A t \in Target : ~run[t].over) /\ UNCHANGED run
    BY <1>2, <2>1 DEF FilesInv, Active, AllHeld, Held, SaveTools, SaveWords
  <2>3. tools = saved.tools /\ words = saved.words /\ tools # Torn
    BY <2>2 DEF Undisturbed, TypeOK, Torn
  <2>4. tools' = saved'.tools /\ words' = saved'.words
    BY <1>2, <2>3 DEF SaveTools, SaveWords, TypeOK
  <2> QED BY <2>2, <2>4 DEF Undisturbed, Active
<1>3. CASE UNCHANGED <<files, run>>
  BY <1>3 DEF files, FilesInv, Undisturbed, Active, Stage
<1> QED BY <1>1, <1>2, <1>3 DEF Next, vars, Add, Delete, Expire, ReadMark, SaveProfile, Clear, Find,
           WriteRegistry, DeleteWrite, Mark, Marked, Purge

LEMMA InitFiles == Init => FilesInv
BY DEF Init, FilesInv, Undisturbed, NoRun

\* Whatever the number of runs, saves and requests: with no run up, the two files
\* hold what the operator saved, unless one of the four named disturbances happened.
THEOREM Restored == Spec => []GlobalsRestored
<1>1. TypeOK /\ AllHeld /\ FilesInv => GlobalsRestored
  BY DEF FilesInv, Undisturbed, GlobalsRestored, AllHeld, Held, Active
<1> QED BY <1>1, InitFiles, FilesStep, TypesOfTargets, PTL DEF Spec

\* Without such a disturbance a run scans with its own target's values, or the
\* operator's.
THEOREM Own == Spec => []OwnProfile
<1>1. FilesInv => OwnProfile
  BY DEF FilesInv, Undisturbed, OwnProfile
<1> QED BY <1>1, InitFiles, FilesStep, TypesOfTargets, PTL DEF Spec
=============================================================================
