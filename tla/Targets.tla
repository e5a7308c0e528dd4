------------------------------ MODULE Targets ------------------------------
(* What the targets share: tools.yaml and wordlists.yaml, which the run of a    *)
(* target with a profile of its own edits and puts back (target_profiles.py,    *)
(* _run_with_target_profile in cli.py) while the operator saves global settings *)
(* (service.py); the registry targets.yaml; and the tombstones of deleted       *)
(* targets, which any run's housekeeping or the SCAN board purges (deleted.py). *)
(* Handlers written "async def" run on the event loop, one at a time; the others *)
(* and the board run in threads, the runs in processes of their own.            *)
EXTENDS Naturals, FiniteSets

CONSTANTS
  Target,    \* targets; the value a target's profile gives a setting is named by it
  Global,    \* values the operator may save for the setting, Start among them
  Start,
  MaxOps     \* bound: runs, saved settings and requests to the registry together

ASSUME TargetsAssumption ==
  /\ Start \in Global /\ Global \cap Target = {} /\ {"torn", "none"} \cap (Global \cup Target) = {}
  /\ MaxOps \in Nat

VARIABLES
  tools, words,   \* the two files, each as the value of the setting overridden
  open,           \* the runs whose open handle is the current tools.yaml
  saved,          \* history variable: what the operator saved last
  spoilt,         \* history variable: what has happened that may leave an override
  run,            \* the run of each target
  registry,       \* targets.yaml: "absent", "plain" (no overrides) or "over"
  tree,           \* does the target's directory exist?
  mark,           \* its tombstone
  hidden,         \* history variable: deleted, and not added since
  purged,         \* history variable: purged since it was deleted
  loop,           \* the handler on the event loop
  thread,         \* the delete request in its thread
  purger,         \* the target whose expired tombstone has been read
  ops

files == <<tools, words, open, saved, spoilt>>
registered == <<registry, tree, mark, hidden, purged, loop, thread, purger>>
vars == <<files, registered, run, ops>>

Torn == "torn"       \* tools.yaml truncated, its text not yet written
None == "none"
Profile == {"absent", "plain", "over"}
NoRun == [pc |-> "none", over |-> FALSE, tools |-> None, words |-> None,
          uses |-> None, owed |-> None]
IdleLoop == [pc |-> "idle", t |-> None, reg |-> [t \in Target |-> "absent"]]
IdleThread == IdleLoop

Active(t) == run[t].pc # "none"
Edited(t) == run[t].over /\ run[t].pc \notin {"none", "copy", "editTools"}

------------------------------------------------------------------------------
(* The run of a target. *)

\* Mutant of Listed: the tombstone hides the directory, not the registry's entry.
ListedOrRegistered(t) == registry[t] # "absent" \/ (tree[t] /\ mark[t] = "none")

\* Registered, or a directory; a directory with a tombstone hides both.
Listed(t) == (registry[t] # "absent" \/ tree[t]) /\ ~(tree[t] /\ mark[t] # "none")

\* START: the plan is read from the registry, the directory made if need be.
StartRun(t) ==
  /\ ~Active(t) /\ Listed(t) /\ ops < MaxOps /\ ops' = ops + 1
  /\ LET over == registry[t] = "over" IN
       /\ run' = [run EXCEPT ![t] =
                    [NoRun EXCEPT !.over = over, !.pc = IF over THEN "copy" ELSE "reload"]]
       /\ spoilt' = IF \E u \in Target \ {t} : Active(u) /\ (over \/ run[u].over)
                      THEN spoilt \cup {"overlap"} ELSE spoilt
  /\ tree' = [tree EXCEPT ![t] = TRUE]
  /\ UNCHANGED <<tools, words, open, saved, registry, mark, hidden, purged, loop, thread, purger>>

\* The copy kept for the restore; a file without the setting ends the run.
CopyTools(t) ==
  /\ run[t].pc = "copy"
  /\ run' = IF tools = Torn THEN [run EXCEPT ![t] = NoRun]
            ELSE [run EXCEPT ![t].tools = tools, ![t].pc = "editTools"]
  /\ UNCHANGED <<files, registered, ops>>

EditTools(t) ==
  /\ run[t].pc = "editTools"
  /\ tools' = t /\ open' = {}
  /\ run' = [run EXCEPT ![t].pc = "editWords"]
  /\ UNCHANGED <<words, saved, spoilt, registered, ops>>

\* A wordlist that is not registered: the profile is refused, and what was
\* edited so far is not put back.
RefuseWords(t) ==
  /\ run[t].pc = "editWords"
  /\ run' = [run EXCEPT ![t] = NoRun] /\ spoilt' = spoilt \cup {"refused"}
  /\ UNCHANGED <<tools, words, open, saved, registered, ops>>

EditWords(t) ==
  /\ run[t].pc = "editWords"
  /\ words' = t /\ run' = [run EXCEPT ![t].words = words, ![t].pc = "reload"]
  /\ UNCHANGED <<tools, open, saved, spoilt, registered, ops>>

\* Mutant of Reload: the run keeps the parameters it was started with.
ReloadNot(t) ==
  /\ run[t].pc = "reload"
  /\ run' = [run EXCEPT ![t].uses = saved.tools, ![t].pc = "scan",
                       ![t].owed = IF run[t].over THEN t ELSE saved.tools]
  /\ UNCHANGED <<files, registered, ops>>

\* Params are read again; the run lives on them.  A torn file raises.
Reload(t) ==
  /\ run[t].pc = "reload"
  /\ run' = IF tools = Torn
              THEN [run EXCEPT ![t].pc = IF run[t].over THEN "restoreTools" ELSE "end"]
              ELSE [run EXCEPT ![t].uses = tools, ![t].pc = "scan",
                               ![t].owed = IF run[t].over THEN t ELSE saved.tools]
  /\ UNCHANGED <<files, registered, ops>>

\* The run writes in the target's directory, and makes it again if it is gone.
WriteTree(t) ==
  /\ run[t].pc = "scan" /\ ~tree[t] /\ tree' = [tree EXCEPT ![t] = TRUE]
  /\ UNCHANGED <<files, registry, mark, hidden, purged, loop, thread, purger, run, ops>>

\* The runner returns or raises.
EndScan(t) ==
  /\ run[t].pc = "scan"
  /\ run' = [run EXCEPT ![t].pc = IF run[t].over THEN "restoreTools" ELSE "end"]
  /\ UNCHANGED <<files, registered, ops>>

\* The copies are written back in place, truncated first.
RestoreTools(t) ==
  /\ run[t].pc = "restoreTools"
  /\ tools' = Torn /\ open' = open \cup {t} /\ run' = [run EXCEPT ![t].pc = "restoring"]
  /\ UNCHANGED <<words, saved, spoilt, registered, ops>>

Restoring(t) ==
  /\ run[t].pc = "restoring"
  /\ tools' = IF t \in open THEN run[t].tools ELSE tools
  /\ open' = open \ {t}
  /\ run' = [run EXCEPT ![t].pc = "restoreWords"]
  /\ UNCHANGED <<words, saved, spoilt, registered, ops>>

\* Mutant of RestoreWords: only the first file is put back.
RestoreWordsNot(t) ==
  /\ run[t].pc = "restoreWords"
  /\ run' = [run EXCEPT ![t].pc = "end"]
  /\ UNCHANGED <<files, registered, ops>>

RestoreWords(t) ==
  /\ run[t].pc = "restoreWords"
  /\ words' = run[t].words /\ run' = [run EXCEPT ![t].pc = "end"]
  /\ UNCHANGED <<tools, open, saved, spoilt, registered, ops>>

EndRun(t) ==
  /\ run[t].pc = "end" /\ run' = [run EXCEPT ![t] = NoRun]
  /\ UNCHANGED <<files, registered, ops>>

\* STOP kills the process, or the host does: nothing is put back.
Kill(t) ==
  /\ Active(t)
  /\ run' = [run EXCEPT ![t] = NoRun] /\ open' = open \ {t}
  /\ spoilt' = IF Edited(t) THEN spoilt \cup {"killed"} ELSE spoilt
  /\ UNCHANGED <<tools, words, saved, registered, ops>>

------------------------------------------------------------------------------
(* The operator's settings. *)

Spoils == IF \E t \in Target : Active(t) /\ run[t].over THEN spoilt \cup {"edited"} ELSE spoilt

\* SETTINGS: the line of the setting is replaced, in a new file; a torn text
\* has no such line and is written back as it is.
SaveTools(v) ==
  /\ ops < MaxOps /\ ops' = ops + 1
  /\ tools' = IF tools = Torn THEN Torn ELSE v
  /\ open' = {} /\ saved' = [saved EXCEPT !.tools = v]
  /\ spoilt' = Spoils
  /\ UNCHANGED <<words, registered, run>>

\* WORDLISTS.
SaveWords(v) ==
  /\ ops < MaxOps /\ ops' = ops + 1
  /\ words' = v /\ saved' = [saved EXCEPT !.words = v]
  /\ spoilt' = Spoils
  /\ UNCHANGED <<tools, open, registered, run>>

------------------------------------------------------------------------------
(* The registry. *)

\* ADD TARGET makes the directory ...
Add(t) ==
  /\ loop.pc = "idle" /\ ops < MaxOps /\ ops' = ops + 1
  /\ tree' = [tree EXCEPT ![t] = TRUE] /\ loop' = [loop EXCEPT !.pc = "clear", !.t = t]
  /\ UNCHANGED <<files, run, registry, mark, hidden, purged, thread, purger>>

\* ... removes the tombstone ...
Clear ==
  /\ loop.pc = "clear" /\ loop' = [loop EXCEPT !.pc = "find"]
  /\ mark' = [mark EXCEPT ![loop.t] = "none"]
  /\ hidden' = [hidden EXCEPT ![loop.t] = FALSE] /\ purged' = [purged EXCEPT ![loop.t] = FALSE]
  /\ UNCHANGED <<files, run, registry, tree, thread, purger, ops>>

\* ... and registers a target that is not: the whole registry is read and
\* written back.
Find ==
  /\ loop.pc = "find"
  /\ loop' = IF registry[loop.t] # "absent" THEN IdleLoop
             ELSE [loop EXCEPT !.pc = "write", !.reg = [registry EXCEPT ![loop.t] = "plain"]]
  /\ UNCHANGED <<files, run, registry, tree, mark, hidden, purged, thread, purger, ops>>

\* SETUP of a target: a mapping of the sections a target may have, with overrides of the
\* global settings among them or not. (Anything else is refused.) An empty one removes
\* the entry.
SaveProfile(t, p) ==
  /\ loop.pc = "idle" /\ ops < MaxOps /\ ops' = ops + 1
  /\ loop' = [pc |-> "write", t |-> t, reg |-> [registry EXCEPT ![t] = p]]
  /\ UNCHANGED <<files, run, registry, tree, mark, hidden, purged, thread, purger>>

WriteRegistry ==
  /\ loop.pc = "write" /\ registry' = loop.reg /\ loop' = IdleLoop
  /\ UNCHANGED <<files, run, tree, mark, hidden, purged, thread, purger, ops>>

\* DELETE: the registry without the target, then the tombstone.
Delete(t) ==
  /\ thread.pc = "idle" /\ ops < MaxOps /\ ops' = ops + 1
  /\ thread' = [pc |-> "write", t |-> t, reg |-> [registry EXCEPT ![t] = "absent"]]
  /\ UNCHANGED <<files, run, registry, tree, mark, hidden, purged, loop, purger>>

DeleteWrite ==
  /\ thread.pc = "write" /\ registry' = thread.reg /\ thread' = [thread EXCEPT !.pc = "mark"]
  /\ UNCHANGED <<files, run, tree, mark, hidden, purged, loop, purger, ops>>

\* The file is opened before its text is written: for a moment it is empty.
Mark ==
  /\ thread.pc = "mark" /\ thread' = [thread EXCEPT !.pc = "marked"]
  /\ tree' = [tree EXCEPT ![thread.t] = TRUE] /\ mark' = [mark EXCEPT ![thread.t] = "torn"]
  /\ UNCHANGED <<files, run, registry, hidden, purged, loop, purger, ops>>

\* The text goes into the file that was opened, if it is still there.
Marked ==
  /\ thread.pc = "marked" /\ thread' = IdleThread
  /\ mark' = [mark EXCEPT ![thread.t] = IF @ = "torn" THEN "kept" ELSE @]
  /\ hidden' = [hidden EXCEPT ![thread.t] = mark[thread.t] = "torn" \/ purged[thread.t]]
  /\ purged' = [purged EXCEPT ![thread.t] = @ /\ mark[thread.t] # "torn"]
  /\ UNCHANGED <<files, run, registry, tree, loop, purger, ops>>

\* The days of grace pass.
Expire(t) ==
  /\ mark[t] = "kept" /\ mark' = [mark EXCEPT ![t] = "due"]
  /\ UNCHANGED <<files, run, registry, tree, hidden, purged, loop, thread, purger, ops>>

\* A marker that cannot be read has no date, and counts as due.
DueNow(t) == mark[t] \in {"due", "torn"}

\* The purge reads a tombstone ...
ReadMark(t) ==
  /\ purger = None /\ DueNow(t) /\ purger' = t
  /\ UNCHANGED <<files, run, registry, tree, mark, hidden, purged, loop, thread, ops>>

\* ... and removes the directory, its tombstone included.
Purge ==
  /\ purger # None /\ purger' = None
  /\ tree' = [tree EXCEPT ![purger] = FALSE] /\ mark' = [mark EXCEPT ![purger] = "none"]
  /\ purged' = [purged EXCEPT ![purger] = TRUE]
  /\ UNCHANGED <<files, run, registry, hidden, loop, thread, ops>>

------------------------------------------------------------------------------

Init ==
  /\ tools = Start /\ words = Start /\ open = {} /\ saved = [tools |-> Start, words |-> Start]
  /\ spoilt = {} /\ run = [t \in Target |-> NoRun]
  /\ registry \in [Target -> Profile] /\ tree = [t \in Target |-> registry[t] # "absent"]
  /\ mark = [t \in Target |-> "none"] /\ hidden = [t \in Target |-> FALSE]
  /\ purged = [t \in Target |-> FALSE]
  /\ loop = IdleLoop /\ thread = IdleThread /\ purger = None
  /\ ops = 0

RunNext(t) ==
  \/ StartRun(t) \/ CopyTools(t) \/ EditTools(t) \/ RefuseWords(t) \/ EditWords(t) \/ Reload(t)
  \/ WriteTree(t) \/ EndScan(t) \/ RestoreTools(t) \/ Restoring(t) \/ RestoreWords(t)
  \/ EndRun(t) \/ Kill(t)

Next ==
  \/ \E t \in Target : RunNext(t) \/ Add(t) \/ Delete(t) \/ Expire(t) \/ ReadMark(t)
  \/ \E t \in Target, p \in Profile : SaveProfile(t, p)
  \/ \E v \in Global : SaveTools(v) \/ SaveWords(v)
  \/ Clear \/ Find \/ WriteRegistry \/ DeleteWrite \/ Mark \/ Marked \/ Purge

Spec == Init /\ [][Next]_vars

------------------------------------------------------------------------------
(* Properties. *)

\* Every variable has its type.
TypeOK ==
  /\ tools \in Global \cup Target \cup {Torn} /\ words \in Global \cup Target
  /\ open \subseteq Target /\ saved \in [tools : Global, words : Global]
  /\ spoilt \subseteq {"overlap", "refused", "killed", "edited"}
  /\ run \in [Target -> [pc : {"none", "copy", "editTools", "editWords", "reload", "scan",
                               "restoreTools", "restoring", "restoreWords", "end"},
                         over : BOOLEAN, tools : Global \cup Target \cup {None},
                         words : Global \cup Target \cup {None},
                         uses : Global \cup Target \cup {None},
                         owed : Global \cup Target \cup {None}]]
  /\ registry \in [Target -> Profile] /\ tree \in [Target -> BOOLEAN]
  /\ mark \in [Target -> {"none", "torn", "kept", "due"}]
  /\ hidden \in [Target -> BOOLEAN] /\ purged \in [Target -> BOOLEAN]
  /\ loop \in [pc : {"idle", "clear", "find", "write"}, t : Target \cup {None},
               reg : [Target -> Profile]]
  /\ thread \in [pc : {"idle", "write", "mark", "marked"}, t : Target \cup {None},
                 reg : [Target -> Profile]]
  /\ purger \in Target \cup {None}
  /\ ops \in 0..MaxOps

\* When no run is up, both files hold what the operator saved last, unless a
\* run was killed, refused half way or overlapped by another, or settings were
\* saved under it: nothing else, and no order of the steps, leaves an override
\* behind (_run_with_target_profile).
GlobalsRestored ==
  (\A t \in Target : ~Active(t)) /\ spoilt = {}
    => tools = saved.tools /\ words = saved.words

\* A run that nothing disturbed scans with its own profile's value, or with the
\* operator's if it has none (the reload after the edit).
OwnProfile ==
  \A t \in Target : run[t].pc = "scan" /\ spoilt = {} => run[t].uses = run[t].owed

\* A deleted target is not listed again until it is added, whatever saves of the
\* registry or writes of its run overlap the delete, as long as its directory
\* has not been purged: a save that brings its entry back is hidden by the
\* tombstone (known_target_names).
DeletedStaysHidden == \A t \in Target : hidden[t] /\ Listed(t) => purged[t]

\* Not kept (no configuration checks it): nothing of a target is removed before its days of
\* grace are over (index.html:131).
KeptForGrace == [][\A t \in Target : tree[t] /\ ~tree'[t] => mark[t] = "due"]_vars

\* Not kept (no configuration checks it): the run's own copies are put back (cli.py:164), no override survives a run that is not killed.
RestoredUnlessKilled ==
  (\A t \in Target : ~Active(t)) /\ spoilt \subseteq {"refused"}
    => tools = saved.tools /\ words = saved.words
=============================================================================
