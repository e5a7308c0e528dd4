----------------------------- MODULE DnsResolve -----------------------------
(* The DNS module of the active branch (pipeline/modules/dns_resolve.py): probe *)
(* the domain for a catch-all, brute-force the words under it and under what    *)
(* they find, permute what is known, resolve everything again, write the        *)
(* document; and the second pass under names the virtual hosts brought          *)
(* (expand_nested_after_vhosts). Every list sent to a tool has an output file;  *)
(* a file whose .done marker exists is read instead of asking again.            *)
EXTENDS Hosts, LoadBalance

CONSTANTS
  IP,             \* addresses
  Zones,          \* zones the domain may serve: [real, wild, vhosts], see Answer
  Chunks,         \* the brute-force words, a sequence of sets of labels
  Perms(_),       \* the permutations alterx makes of a set of names
  Findable,       \* names the passive branch may know
  ParallelParents,\* dnsx_parallel_parents
  MaxPerms,       \* max_permutations_aggregate
  HitFloor        \* the hits of the first level that mean a catch-all

\* A zone answers every name; words are labels; the passive branch knows names.
ASSUME DnsAssumption ==
  /\ \A z \in Zones : z.real \in [Name -> SUBSET IP] /\ z.wild \in [Name -> SUBSET IP]
  /\ Chunks \in Seq(SUBSET Label)
  /\ Findable \subseteq Name
  /\ ParallelParents \in Nat

VARIABLES
  zone,      \* what the domain's name servers answer
  files,     \* output file -> its rows, its marker, the run that wrote it
  run,       \* number of the run in progress (0: none was started)
  pc,        \* what the active branch does next
  known,     \* names known before DNS: passive, earlier assets, earlier vhosts
  resolved,  \* name -> its row, the module's result so far
  wild,      \* catch-all addresses found so far
  suspects,  \* names that answer with one of them
  level,     \* level of the brute force
  jobs,      \* parent -> [chunk, state] of the batch in progress
  batch,     \* the rate in force when it began, that of each job, how many run together
  nested,    \* parents brute-forced below the first level
  partial,   \* why the module says its result is not whole
  lb,        \* the load balancer's state
  doc,       \* data.json of the module
  stop,      \* the operator asked the run to stop
  failed,    \* history: a tool of this module run failed
  sources    \* history: the runs whose rows this module run has read

dnsVars == <<zone, files, run, pc, known, resolved, wild, suspects, level, jobs, batch, nested,
             partial, lb, doc, stop, failed, sources>>

\* Probes are numbered by level; that of the second pass has number 0.
Path == {<<"brute", p, i>> : p \in Name, i \in DOMAIN Chunks}
          \cup {<<"probe", t>> : t \in 0..ReconDepth}
          \cup {<<"perm">>, <<"resolve">>}
NoBatch == [live |-> 1, qps |-> 1, pool |-> 1]
NoFile == [rows |-> {}, done |-> FALSE, run |-> 0]
File == [rows : SUBSET Name, done : BOOLEAN, run : Nat]

Status == {"unresolved", "resolved"}
Row == [ips : SUBSET IP, source : {"known", "brute", "perm"}, status : Status]
NoDoc == [rows |-> <<>>, wild |-> {}, suspects |-> {}, nested |-> {}, caught |-> {},
          whole |-> FALSE, run |-> 0]

PausedPartial == "load_balance_canary_pause"

-----------------------------------------------------------------------------
(* What the tools answer.                                                      *)

\* The addresses of a name: its own, else the catch-all's of its parent.
Answer(n) == IF zone.real[n] # {} THEN zone.real[n]
             ELSE IF n = Apex THEN {} ELSE zone.wild[Front(n)]
Answering(names) == {n \in names : Answer(n) # {}}

\* What is left of an answer when the tool fails: all of it, nothing, or all but a row.
Lossy(rows) == {rows, {}} \cup {rows \ {n} : n \in rows}

\* Asking for rows into a file: a marked file is read; otherwise the tool answers
\* and the file is marked, or it fails (massdns is then asked when nothing came)
\* and the file is not. Nothing is asked once a stop is requested. (A bound of the
\* model: tools fail once in a module's run, or because of the stop.)
Asked(path, rows) ==
  LET file == files[path]
      wrote(r, ok) == [file |-> [rows |-> r, done |-> ok, run |-> run], failed |-> ~ok]
  IN  IF file.done THEN {[file |-> file, failed |-> FALSE]}
      ELSE IF stop THEN {wrote({}, FALSE)}
      ELSE {wrote(rows, TRUE)}
             \cup IF failed THEN {} ELSE {wrote(r, FALSE) : r \in Lossy(rows)}

Keeps(path, o) ==
  /\ files' = [files EXCEPT ![path] = o.file]
  /\ failed' = (failed \/ o.failed)
  /\ sources' = sources \cup {o.file.run}

\* A probe asks for a fresh random name under each parent; rows of an earlier
\* probe are of other random names, and say nothing.
ProbeRows(parents) == {p \in parents : zone.wild[p] # {}}
CatchAlls(path, o) == IF files[path].done THEN {} ELSE o.file.rows
CatchAllIps(parents) == UNION {zone.wild[p] : p \in parents}

\* _merge_resolved: a row gains addresses, and the way it was first guessed stays.
Merged(store, hosts, source) ==
  [h \in DOMAIN store \cup hosts |->
     IF h \notin hosts THEN store[h]
     ELSE LET ips == Answer(h) \cup IF h \in DOMAIN store THEN store[h].ips ELSE {}
              was == IF h \in DOMAIN store THEN store[h].source ELSE source
          IN  [ips |-> ips, source |-> IF was = "known" THEN source ELSE was,
               status |-> IF ips = {} THEN "unresolved" ELSE "resolved"]]

\* The module's own variables end with it.
LocalsEnd ==
  /\ resolved' = <<>> /\ wild' = {} /\ suspects' = {} /\ nested' = {} /\ partial' = {}
  /\ level' = 1 /\ jobs' = <<>> /\ batch' = NoBatch /\ lb' = NewBalance
  /\ failed' = FALSE /\ sources' = {}

Kept(rows, source) ==
  {h \in rows \cap InScope : Keep(h, Answer(h), wild, source, {})}

-----------------------------------------------------------------------------
(* run_dns_resolve.                                                            *)

\* The module starts afresh: the files of an earlier attempt are still there.
Begin(names) ==
  /\ pc = "dns"
  /\ \E b \in Ticks(NewBalance) : lb' = b
  /\ known' = names
  /\ resolved' = <<>>
  /\ wild' = {}
  /\ suspects' = {}
  /\ nested' = {}
  /\ level' = 1
  /\ partial' = {}
  /\ failed' = FALSE
  /\ sources' = {}
  /\ pc' = "apex"
  /\ UNCHANGED <<zone, files, run, jobs, batch, doc, stop>>

ProbeApex ==
  /\ pc = "apex"
  /\ \E b \in Ticks(lb) :
       /\ lb' = b
       /\ IF b.paused
          THEN /\ partial' = partial \cup {PausedPartial}
               /\ UNCHANGED <<files, failed, sources, wild>>
          ELSE LET path == <<"probe", 1>>
               IN  /\ \E o \in Asked(path, ProbeRows({Apex})) :
                        /\ Keeps(path, o)
                        /\ wild' = CatchAllIps(CatchAlls(path, o))
                   /\ UNCHANGED partial
  /\ pc' = "level"
  /\ UNCHANGED <<zone, run, known, resolved, suspects, level, jobs, batch, nested, doc, stop>>

\* Queues a job per parent; together they get the rate of this moment.
Batch(parents) ==
  /\ jobs' = [p \in parents |-> [chunk |-> 1, state |-> "waiting"]]
  /\ \E throttled \in BOOLEAN :
       LET qps == CurrentQps(lb', throttled)
           pool == WorkerCount(ParallelParents, Cardinality(parents), qps)
       IN  batch' = [live |-> qps, qps |-> JobQps(qps, pool), pool |-> pool]
  /\ pc' = "brute"

\* Parents that answer a random name are dropped, and those that answered only
\* with a catch-all found up to them.
KeptParents(parents, caught) ==
  {p \in parents \ caught :
     ~WildcardOnly(resolved[p].ips,
                   wild \cup CatchAllIps({q \in caught : Place(q) < Place(p)}))}

NextLevel ==
  /\ pc = "level"
  /\ LET parents == RecursionParents(resolved, level, wild)
     IN  IF level > ReconDepth \/ PausedPartial \in partial \/ parents = {}
         THEN /\ pc' = "perm"
              /\ UNCHANGED <<files, failed, sources, wild, lb, partial, nested, jobs, batch>>
         ELSE IF level = 1
         THEN /\ lb' = lb
              /\ Batch(parents)
              /\ UNCHANGED <<files, failed, sources, wild, partial, nested>>
         ELSE \E b \in Ticks(lb) :
              /\ lb' = b
              /\ IF b.paused
                 THEN /\ partial' = partial \cup {PausedPartial}
                      /\ pc' = "perm"
                      /\ UNCHANGED <<files, failed, sources, wild, nested, jobs, batch>>
                 ELSE LET path == <<"probe", level>>
                      IN  \E o \in Asked(path, ProbeRows(parents)) :
                          LET caught == CatchAlls(path, o)
                              kept == KeptParents(parents, caught)
                          IN  /\ Keeps(path, o)
                              /\ wild' = wild \cup CatchAllIps(caught)
                              /\ nested' = nested \cup kept
                              /\ partial' = partial \cup IF Cardinality(kept) >= MaxHosts
                                                         THEN {"max_hosts_per_level"} ELSE {}
                              /\ IF kept = {} THEN pc' = "perm" /\ UNCHANGED <<jobs, batch>>
                                 ELSE Batch(kept)
  /\ UNCHANGED <<zone, run, known, resolved, suspects, level, doc, stop>>

-----------------------------------------------------------------------------
(* The jobs of a batch, run by a pool of workers.                              *)

Running == {p \in DOMAIN jobs : jobs[p].state = "running"}
BatchPaused == \E p \in DOMAIN jobs : jobs[p].state = "paused"
BatchOver == Running = {} /\ (BatchPaused \/ \A p \in DOMAIN jobs : jobs[p].state = "ended")

\* A worker takes the next job; none is taken once one was paused. (The pool may
\* still hand one out before it hears of the pause: it ends without asking.)
Take(p) ==
  /\ pc \in {"brute", "expanding"}
  /\ jobs[p].state = "waiting"
  /\ ~BatchPaused
  /\ Cardinality(Running) < batch.pool
  /\ \A q \in DOMAIN jobs : Place(q) < Place(p) => jobs[q].state # "waiting"
  /\ jobs' = [jobs EXCEPT ![p].state = "running"]
  /\ UNCHANGED <<zone, files, run, pc, known, resolved, wild, suspects, level, batch, nested,
                 partial, lb, doc, stop, failed, sources>>

\* Mutant of HaltedAs: like one that asked everything.
HaltedAsEnded == "ended"

\* How a job ends that finds the run stopped or the canary paused.
HaltedAs == "paused"
JobEnds(p, how) ==
  /\ jobs' = [jobs EXCEPT ![p].state = how]
  /\ UNCHANGED <<files, resolved, failed, sources>>

Chunk(p) ==
  /\ pc \in {"brute", "expanding"}
  /\ jobs[p].state = "running"
  /\ LET i == jobs[p].chunk
         path == <<"brute", p, i>>
     IN  IF i > Len(Chunks) THEN JobEnds(p, "ended") /\ UNCHANGED lb
         ELSE IF stop THEN JobEnds(p, HaltedAs) /\ UNCHANGED lb
         ELSE \E b \in Ticks(lb) :
              /\ lb' = b
              /\ IF b.paused THEN JobEnds(p, HaltedAs)
                 ELSE \E o \in Asked(path, Answering({Child(p, l) : l \in Chunks[i]})) :
                      /\ Keeps(path, o)
                      /\ resolved' = Merged(resolved, Kept(o.file.rows, "brute"), "brute")
                      /\ jobs' = [jobs EXCEPT ![p].chunk = i + 1]
  /\ UNCHANGED <<zone, run, pc, known, wild, suspects, level, batch, nested, partial, doc, stop>>

\* The first level answering nearly every word means a catch-all: no level more.
Hits == {h \in DOMAIN resolved : Len(h) = 1 /\ resolved[h].source = "brute"}

BruteEnds ==
  /\ pc = "brute"
  /\ BatchOver
  /\ IF BatchPaused
     THEN partial' = partial \cup {PausedPartial} /\ pc' = "perm" /\ UNCHANGED level
     ELSE IF level = 1 /\ Cardinality(Hits) >= HitFloor
     THEN partial' = partial \cup {"wildcard_hit_rate"} /\ pc' = "perm" /\ UNCHANGED level
     ELSE level' = level + 1 /\ pc' = "level" /\ UNCHANGED partial
  /\ jobs' = <<>>
  /\ UNCHANGED <<zone, files, run, known, resolved, wild, suspects, batch, nested, lb, doc, stop,
                 failed, sources>>

-----------------------------------------------------------------------------
(* Permutations, the last resolution, the document.                            *)

\* alterx permutes the names known by now, less those flagged by the virtual host
\* pass and those that answer with a catch-all. Its output is read unguarded: when
\* it was not written, the module raises and everything found so far is dropped.
PermSeeds(flagged) ==
  {h \in known \cup DOMAIN resolved \cup {Apex} :
     h \notin flagged /\ (h \in DOMAIN resolved => resolved[h].ips \cap wild = {})}

\* Its output is cut. (The code cuts it in the order alterx wrote it, per seed and
\* in all; here in sorted order, in all.)
CappedPerms(flagged) == First(Perms(PermSeeds(flagged)) \cap InScope, MaxPerms)

Permute(flagged) ==
  /\ pc = "perm"
  /\ IF PermSeeds(flagged) = {} THEN pc' = "resolve" /\ UNCHANGED <<lb, partial>>
     ELSE \E b \in Ticks(lb) :
          /\ lb' = b
          /\ IF b.paused THEN partial' = partial \cup {PausedPartial} /\ pc' = "resolve"
             ELSE /\ pc' \in {"raised"} \cup IF stop THEN {} ELSE {"permute"}
                  /\ UNCHANGED partial
  /\ UNCHANGED <<zone, files, run, known, resolved, wild, suspects, level, jobs, batch, nested,
                 doc, stop, failed, sources>>

Permuted(flagged) ==
  /\ pc = "permute"
  /\ IF CappedPerms(flagged) = {}
     THEN UNCHANGED <<files, failed, sources, lb, partial, resolved>>
     ELSE \E b \in Ticks(lb) :
          /\ lb' = b
          /\ IF b.paused
             THEN /\ partial' = partial \cup {PausedPartial}
                  /\ UNCHANGED <<files, failed, sources, resolved>>
             ELSE \E o \in Asked(<<"perm">>, Answering(CappedPerms(flagged))) :
                  /\ Keeps(<<"perm">>, o)
                  /\ resolved' = Merged(resolved, Kept(o.file.rows, "perm"), "perm")
                  /\ UNCHANGED partial
  /\ pc' = "resolve"
  /\ UNCHANGED <<zone, run, known, wild, suspects, level, jobs, batch, nested, doc, stop>>

\* Everything known is resolved once more; a name without an answer is unresolved.
WithUnresolved(store, hosts) ==
  [h \in DOMAIN store \cup hosts |->
     IF h \in DOMAIN store THEN store[h]
     ELSE [ips |-> {}, source |-> "known", status |-> "unresolved"]]

MergedKnown(store, hosts) ==
  Merged(Merged(store, hosts \ DOMAIN store, "known"), hosts \cap DOMAIN store, "known")

ResolveAll ==
  /\ pc = "resolve"
  /\ LET hosts == known \cup DOMAIN resolved \cup {Apex}
         path == <<"resolve">>
     IN  \E b \in Ticks(lb) :
         /\ lb' = b
         /\ IF b.paused
            THEN /\ partial' = partial \cup {PausedPartial}
                 /\ resolved' = WithUnresolved(resolved, hosts)
                 /\ UNCHANGED <<files, failed, sources, suspects>>
            ELSE \E o \in Asked(path, Answering(hosts)) :
                 /\ Keeps(path, o)
                 /\ resolved' = WithUnresolved(MergedKnown(resolved, o.file.rows \cap hosts), hosts)
                 /\ suspects' = {h \in hosts : resolved'[h].ips \cap wild # {}}
                 /\ UNCHANGED partial
  /\ pc' = "write"
  /\ UNCHANGED <<zone, run, known, wild, level, jobs, batch, nested, doc, stop>>

\* Guesses that answer only with a catch-all found since are dropped; "whole" is
\* what the module could say of its own document: nothing failed, nothing is partial.
\* (whole, caught and run are histories: the document has no such field.)
WriteDoc ==
  /\ pc = "write"
  /\ LET kept == {h \in DOMAIN resolved :
                    Keep(h, resolved[h].ips, wild, resolved[h].source, known \cup {Apex})}
     IN  doc' = [rows |-> Restrict(resolved, kept), wild |-> wild,
                 suspects |-> suspects \cup (DOMAIN resolved \ kept), nested |-> nested,
                 caught |-> wild, whole |-> partial = {} /\ ~failed, run |-> run]
  /\ pc' = "written"
  /\ UNCHANGED <<zone, files, run, known, resolved, wild, suspects, level, jobs, batch, nested,
                 partial, lb, stop, failed, sources>>

-----------------------------------------------------------------------------
(* expand_nested_after_vhosts: the words under the names the virtual hosts      *)
(* brought. Nothing is written when there is no such name, or all are dropped.  *)

Expand(names) ==
  LET parents == VhostDrivenParents(doc.rows, names, doc.nested, doc.suspects)
      path == <<"probe", 0>>
      brute(kept) == /\ jobs' = [p \in kept |-> [chunk |-> 1, state |-> "waiting"]]
                     /\ batch' = [live |-> QpsMax, qps |-> QpsMax, pool |-> 1]  \* at most, one at a time
                     /\ pc' = "expanding"
  IN  /\ pc = "expand"
      /\ resolved' = doc.rows
      /\ nested' = doc.nested
      /\ partial' = {}
      /\ IF ReconDepth <= 1 \/ doc.run = 0 \/ parents = {}
         THEN /\ pc' = "unexpanded"
              /\ UNCHANGED <<files, failed, sources, wild, suspects, lb, jobs, batch>>
         ELSE \E b \in Ticks(NewBalance) :
              /\ lb' = b
              /\ IF b.paused
                 THEN brute(parents) /\ wild' = doc.wild /\ suspects' = doc.suspects
                      /\ UNCHANGED <<files, failed, sources>>
                 ELSE \E o \in Asked(path, ProbeRows(parents)) :
                      LET caught == CatchAlls(path, o)
                      IN  /\ Keeps(path, o)
                          /\ wild' = doc.wild \cup CatchAllIps(caught)
                          /\ suspects' = doc.suspects \cup caught
                          /\ IF parents \subseteq caught
                             THEN pc' = "unexpanded" /\ UNCHANGED <<jobs, batch>>
                             ELSE brute(parents \ caught)
      /\ UNCHANGED <<zone, run, known, level, doc, stop>>

Expanded ==
  /\ pc = "expanding"
  /\ BatchOver
  /\ LET taken == {p \in DOMAIN jobs : jobs[p].state # "waiting"}
     IN  doc' = [doc EXCEPT !.rows = resolved, !.wild = wild, !.suspects = suspects,
                            !.nested = nested \cup taken,
                            !.whole = @ /\ ~failed /\ ~BatchPaused]
  /\ partial' = IF BatchPaused THEN {PausedPartial} ELSE {}
  /\ jobs' = <<>>
  /\ pc' = "expanded"
  /\ UNCHANGED <<zone, files, run, known, resolved, wild, suspects, level, batch, nested, lb, stop,
                 failed, sources>>
=============================================================================
