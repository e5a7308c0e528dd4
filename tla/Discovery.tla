------------------------------ MODULE Discovery ------------------------------
(* The active branch from the domain to the asset list: DNS, the virtual hosts  *)
(* of what it found (pipeline/modules/ffuf.py), DNS again under new names, the  *)
(* virtual hosts of dead names (ffuf3.py), MERGE with the passive branch, and   *)
(* after the port sweep the virtual hosts of every listener (ffuf4.py), DNS and *)
(* MERGE once more (pipeline/engine.py). The run may be stopped, die and be     *)
(* resumed, and be started again; the files of its tools stay.                  *)
EXTENDS DnsResolve, Merge

CONSTANTS
  MaxRuns,      \* runs started (a bound of the model)
  MaxBreaks,    \* deaths and stops (a bound of the model)
  MaxRequests   \* max_total_requests, in jobs of one word list

VARIABLES
  stage,      \* the module the branch is at
  passive,    \* names the passive branch has written
  done,       \* modules the state document shows done
  ffuf,       \* the virtual host document: hosts, vhosts
  ffuf3,      \* the dead names' virtual hosts
  asked,      \* bases whose virtual hosts the pass in progress has asked for
  hits,       \* the rows it has found
  docs,       \* modules of the active branch whose document MERGE will be given
  list,       \* assets.json
  breaks      \* deaths and stops so far

discoveryVars == <<stage, passive, done, ffuf, ffuf3, asked, hits, docs, list, breaks>>
vars == <<dnsVars, discoveryVars>>

NoFfuf == [hosts |-> {}, vhosts |-> {}]
FfufNames == ffuf.hosts \cup HostsIn(ffuf.vhosts)
Flagged == {v.host : v \in {x \in ffuf.vhosts : x.suspect}}
AssetHosts == {a.host : a \in list.assets}
Found(h, ips, suspect) == [host |-> h, ips |-> ips, suspect |-> suspect]

-----------------------------------------------------------------------------
(* The engine's run: a fresh start, a stop, a death, a resume.                  *)

\* A fresh start forgets the modules' statuses, not their files.
StartRun ==
  /\ stage = "idle"
  /\ run < MaxRuns
  /\ run' = run + 1
  /\ \E names \in SUBSET Findable : passive' = names
  /\ done' = {}
  /\ docs' = {}
  /\ stage' = "dns-resolve"
  /\ pc' = "dns"
  /\ UNCHANGED <<zone, files, known, resolved, wild, suspects, level, jobs, batch, nested, partial,
                 lb, doc, stop, failed, sources, ffuf, ffuf3, asked, hits, list, breaks>>

\* The process dies, or ends because of the stop: what is on disk stays.
RequestStop ==
  /\ stage \notin {"idle", "down"}
  /\ ~stop
  /\ breaks < MaxBreaks
  /\ breaks' = breaks + 1
  /\ stop' = TRUE
  /\ UNCHANGED <<zone, files, run, pc, known, resolved, wild, suspects, level, jobs, batch, nested,
                 partial, lb, doc, failed, sources, stage, passive, done, ffuf, ffuf3, asked, hits,
                 docs, list>>

Die ==
  /\ stage \notin {"idle", "down"}
  /\ breaks < MaxBreaks
  /\ breaks' = breaks + 1
  /\ stage' = "down"
  /\ pc' = "idle"
  /\ LocalsEnd
  /\ UNCHANGED <<zone, files, run, known, doc, stop, passive, done, ffuf, ffuf3, asked, hits, docs, list>>

Order == <<"dns-resolve", "ffuf", "ffuf-3", "merge", "ffuf-4">>
Branch == {"dns-resolve", "ffuf", "ffuf-3"}
At(m) == stage' = m /\ pc' = IF m = "dns-resolve" THEN "dns" ELSE "idle"

\* A resume skips the modules shown done, whose documents are read from disk; the
\* passive branch may have found more meanwhile.
Resume ==
  /\ stage = "down"
  /\ stop' = FALSE
  /\ docs' = done \cap Branch
  /\ \E names \in SUBSET Findable : passive' = passive \cup names
  /\ LET left == {i \in DOMAIN Order : Order[i] \notin done}
     IN  IF left = {} THEN At("idle") ELSE At(Order[CHOOSE i \in left : \A k \in left : i <= k])
  /\ UNCHANGED <<zone, files, run, known, resolved, wild, suspects, level, jobs, batch, nested,
                 partial, lb, doc, failed, sources, done, ffuf, ffuf3, asked, hits, list, breaks>>

\* The engine goes on to the first module after m that is not done, or ends the
\* run when it was asked to stop.
Goes(m) ==
  IF stop THEN stage' = "down" /\ pc' = "idle"
  ELSE LET left == {i \in DOMAIN Order : /\ Order[i] \notin done
                                         /\ \E k \in DOMAIN Order : Order[k] = m /\ k < i}
       IN  IF left = {} THEN At("idle") ELSE At(Order[CHOOSE i \in left : \A k \in left : i <= k])

\* A module of the branch is not done when the run was stopped under it.
Over(m) ==
  /\ done' = IF stop /\ m \in Branch THEN done ELSE done \cup {m}
  /\ Goes(m)

-----------------------------------------------------------------------------
(* dns-resolve, as a stage.                                                     *)

DnsBegin ==
  /\ stage = "dns-resolve"
  /\ Begin(passive \cup FfufNames \cup AssetHosts)
  /\ UNCHANGED discoveryVars

DnsStep ==
  /\ stage = "dns-resolve"
  /\ \/ ProbeApex
     \/ NextLevel
     \/ \E p \in DOMAIN jobs : Take(p) \/ Chunk(p)
     \/ BruteEnds
     \/ Permute(Flagged)
     \/ Permuted(Flagged)
     \/ ResolveAll
     \/ WriteDoc
  /\ UNCHANGED discoveryVars

\* A module that raised is failed, and the branch goes on without its document.
DnsOver ==
  /\ stage = "dns-resolve"
  /\ \/ pc = "written" /\ Over("dns-resolve") /\ docs' = docs \cup {"dns-resolve"}
     \/ pc = "raised" /\ Goes("dns-resolve") /\ UNCHANGED <<done, docs>>
  /\ LocalsEnd
  /\ UNCHANGED <<zone, files, run, known, doc, stop, passive, ffuf, ffuf3, asked, hits, list, breaks>>

-----------------------------------------------------------------------------
(* ffuf: a word list of Host headers against every base. With the shipped       *)
(* settings the bases come from the DNS document, not from an HTTP brute force. *)

DnsHosts == {h \in DOMAIN doc.rows : doc.rows[h].status = "resolved" \/ doc.rows[h].ips # {}}
BaseHosts == IF DnsHosts = {} THEN {Apex} ELSE DnsHosts
Words == UNION {Chunks[i] : i \in DOMAIN Chunks}
Served(bases) == {Child(b, l) : b \in bases, l \in Words} \cap zone.vhosts \cap InScope

FfufStart ==
  /\ stage = "ffuf"
  /\ pc = "idle"
  /\ asked' = {}
  /\ hits' = {}
  /\ pc' = "vhosts"
  /\ UNCHANGED <<zone, files, run, known, resolved, wild, suspects, level, jobs, batch, nested,
                 partial, lb, doc, stop, failed, sources, stage, passive, done, ffuf, ffuf3, docs,
                 list, breaks>>

\* A base DNS gave an address counts as alive; any other is probed over HTTP, and
\* one that gives no answer is dead.
MayBeDead(base) == base \notin DnsHosts

\* A hit is a base of its own while it is not too deep. A job that fails may show
\* part of its rows.
Waiting == VhostBases(BaseHosts \cup HostsIn(hits)) \ asked

FfufJob(base) ==
  /\ stage = "ffuf"
  /\ pc = "vhosts"
  /\ base \in Waiting
  /\ Cardinality(asked) < MaxRequests
  /\ asked' = asked \cup {base}
  /\ \E names \in Lossy(Served({base})), dead \in BOOLEAN :
       /\ dead => MayBeDead(base)
       /\ hits' = hits \cup {Found(h, {}, dead) : h \in names}
  /\ UNCHANGED <<zone, files, run, pc, known, resolved, wild, suspects, level, jobs, batch, nested,
                 partial, lb, doc, stop, failed, sources, stage, passive, done, ffuf, ffuf3, docs,
                 list, breaks>>

FfufEnds ==
  /\ stage = "ffuf"
  /\ pc = "vhosts"
  /\ Waiting = {} \/ Cardinality(asked) = MaxRequests
  /\ ffuf' = [hosts |-> BaseHosts \cup HostsIn(hits), vhosts |-> hits]
  /\ asked' = {}
  /\ hits' = {}
  /\ pc' = "expand"
  /\ UNCHANGED <<zone, files, run, known, resolved, wild, suspects, level, jobs, batch, nested,
                 partial, lb, doc, stop, failed, sources, stage, passive, done, ffuf3, docs, list,
                 breaks>>

\* The second DNS pass, after either virtual host pass.
ExpandStep ==
  /\ stage \in {"ffuf", "ffuf-4"}
  /\ Expand(FfufNames) \/ (\E p \in DOMAIN jobs : Take(p) \/ Chunk(p)) \/ Expanded
  /\ UNCHANGED discoveryVars

\* Its document takes the place of the first one.
FfufOver ==
  /\ stage = "ffuf"
  /\ pc \in {"expanded", "unexpanded"}
  /\ docs' = docs \cup (IF pc = "expanded" THEN {"dns-resolve"} ELSE {})
                  \cup (IF stop THEN {} ELSE {"ffuf"})
  /\ Over("ffuf")
  /\ LocalsEnd
  /\ UNCHANGED <<zone, files, run, known, doc, stop, passive, ffuf, ffuf3, asked, hits, list, breaks>>

-----------------------------------------------------------------------------
(* ffuf-3: the virtual hosts of names DNS calls dead, asked of a living base.   *)

DeadNames ==
  {h \in DOMAIN doc.rows : /\ doc.rows[h].status = "unresolved"
                           /\ h \in ffuf.hosts \/ doc.rows[h].source # "perm"}

\* The living names the dead ones are asked of.
AliveBases == {h \in DOMAIN doc.rows : doc.rows[h].ips # {}}

Ffuf3 ==
  /\ stage = "ffuf-3"
  /\ LET dead == First(DeadNames, MaxRequests)
     IN  IF AliveBases = {} THEN ffuf3' = {}
         ELSE \E names \in Lossy(Served(dead)) : ffuf3' = {Found(h, {}, TRUE) : h \in names}
  /\ docs' = docs \cup {"ffuf-3"}
  /\ Over("ffuf-3")
  /\ UNCHANGED <<zone, files, run, known, resolved, wild, suspects, level, jobs, batch, nested,
                 partial, lb, doc, stop, failed, sources, passive, ffuf, asked, hits, list, breaks>>

-----------------------------------------------------------------------------
(* MERGE, and the virtual hosts of the listeners the port sweep found.          *)

DnsDoc == [rows |-> {Found(h, doc.rows[h].ips, FALSE) : h \in DOMAIN doc.rows}, wild |-> doc.wild]
ActiveDocs ==
  (IF "dns-resolve" \in docs THEN {DnsDoc} ELSE {})
    \cup (IF "ffuf" \in docs
          THEN {[rows |-> {Found(h, {}, FALSE) : h \in ffuf.hosts} \cup ffuf.vhosts, wild |-> {}]}
          ELSE {})
    \cup (IF "ffuf-3" \in docs THEN {[rows |-> ffuf3, wild |-> {}]} ELSE {})
PassiveDocs == {[rows |-> {Found(h, {}, FALSE) : h \in passive}, wild |-> {}]}

MergeStage ==
  /\ stage = "merge"
  /\ IF stop THEN UNCHANGED list /\ Goes("merge") /\ UNCHANGED done
     ELSE list' = MergeBranches(PassiveDocs, ActiveDocs) /\ Over("merge")
  /\ UNCHANGED <<zone, files, run, known, resolved, wild, suspects, level, jobs, batch, nested,
                 partial, lb, doc, stop, failed, sources, passive, ffuf, ffuf3, asked, hits, docs,
                 breaks>>

\* The names of each listening address, below which Host headers are asked of it.
HostsOf(ip) == {a.host : a \in {x \in list.assets : ip \in x.ips}}
Listening == {ip \in zone.listen : HostsOf(ip) # {}}

\* The document of a listener's hits: a name not of its address is a suspect.
Ffuf4Doc(answers) ==
  [rows |-> {Found(x[2], {x[1]}, x[2] \notin HostsOf(x[1])) : x \in answers}, wild |-> {}]

Ffuf4 ==
  /\ stage = "ffuf-4"
  /\ pc = "idle"
  /\ IF Listening = {} THEN UNCHANGED list
     ELSE \E answers \in Lossy({x \in Listening \X zone.vhosts :
                                  x[2] \in Served(VhostBases(HostsOf(x[1])))}) :
            list' = AppendActive(list, Ffuf4Doc(answers))
  /\ pc' = "expand"
  /\ UNCHANGED <<zone, files, run, known, resolved, wild, suspects, level, jobs, batch, nested,
                 partial, lb, doc, stop, failed, sources, stage, passive, done, ffuf, ffuf3, asked,
                 hits, docs, breaks>>

Ffuf4Over ==
  /\ stage = "ffuf-4"
  /\ \/ pc = "unexpanded" /\ UNCHANGED list
     \/ pc = "expanded" /\ list' = AppendActive(list, DnsDoc)
  /\ Over("ffuf-4")
  /\ LocalsEnd
  /\ UNCHANGED <<zone, files, run, known, doc, stop, passive, ffuf, ffuf3, asked, hits, docs, breaks>>

-----------------------------------------------------------------------------
Init ==
  /\ zone \in Zones
  /\ files = [p \in Path |-> NoFile]
  /\ run = 0
  /\ pc = "idle"
  /\ known = {} /\ resolved = <<>> /\ wild = {} /\ suspects = {} /\ level = 1
  /\ jobs = <<>> /\ batch = NoBatch /\ nested = {} /\ partial = {}
  /\ lb = NewBalance
  /\ doc = NoDoc
  /\ stop = FALSE /\ failed = FALSE /\ sources = {}
  /\ stage = "idle"
  /\ passive = {} /\ done = {} /\ docs = {}
  /\ ffuf = NoFfuf /\ ffuf3 = {} /\ asked = {} /\ hits = {}
  /\ list = NoAssets
  /\ breaks = 0

Next ==
  \/ StartRun \/ RequestStop \/ Die \/ Resume
  \/ DnsBegin \/ DnsStep \/ DnsOver
  \/ FfufStart \/ (\E base \in Name : FfufJob(base)) \/ FfufEnds \/ ExpandStep \/ FfufOver
  \/ Ffuf3 \/ MergeStage \/ Ffuf4 \/ Ffuf4Over

Spec == Init /\ [][Next]_vars

-----------------------------------------------------------------------------
Stages == {"idle", "down"} \cup {Order[i] : i \in DOMAIN Order}

\* Every variable keeps its type.
TypeOK ==
  /\ files \in [Path -> File]
  /\ resolved \in [DOMAIN resolved -> Row] /\ DOMAIN resolved \subseteq Name
  /\ doc.rows \in [DOMAIN doc.rows -> Row] /\ DOMAIN doc.rows \subseteq Name
  /\ wild \subseteq IP /\ doc.wild \subseteq IP
  /\ lb \in Balance
  /\ stage \in Stages
  /\ docs \subseteq Branch

\* A DNS document that says nothing of being partial, of a module whose tools did
\* not fail, holds every word that answers with a real address under every parent it
\* names: no job of a parallel batch was lost to a pause, a stop or a resume
\* (_brute_parent_batch, dns_resolve.py:530-595).
ParentsCovered ==
  doc.whole =>
    \A p \in doc.nested \cup {Apex}, l \in Words :
      LET n == Child(p, l)
      IN  n \in InScope /\ Answer(n) # {} /\ ~WildcardOnly(Answer(n), doc.wild) =>
            n \in DOMAIN doc.rows /\ doc.rows[n].ips = Answer(n)

\* The addresses DNS found to be a catch-all's reach MERGE, whichever document brings
\* them: no asset of the list it writes answers with those alone
\* (_quarantine_reason, merge.py:303-320). A stopped MERGE writes none, and the list
\* of an earlier run need not fit the newer document.
CatchAllSetAside ==
  [][MergeStage /\ ~stop /\ "dns-resolve" \in docs' =>
       \A a \in list'.assets : ~WildcardOnly(a.ips, doc.caught)]_vars

\* The jobs of a batch share the rate that was in force when it began, down to a rate
\* the canary or the breaker brought near zero: together they never ask for more
\* (dnsx_job_qps, "Split live QPS across nested dnsx jobs", recon_depth.py:56).
RateShared ==
  /\ Cardinality(Running) * batch.qps <= batch.live
  /\ batch.live <= QpsMax

\* A guess whose only answer is a catch-all's never ends up an asset: after a run
\* nobody broke, a name that has no address of its own is an asset only when it was
\* named independently ("drop brute catch-all noise", hostsutil.py:108).
NoiseDropped ==
  (stage = "idle" /\ breaks = 0) =>
    \A a \in list.assets : zone.real[a.host] # {} \/ a.host \in known \cup FfufNames \cup {Apex}

\* Not kept once a run follows another (no configuration checks it): names already
\* proven are asked for again by every run ("Always re-check FQDNs already proven on
\* this target", dns_resolve.py:1070): a document that is whole shows what they answer.
ProvenRechecked ==
  doc.whole => \A h \in known \cap DOMAIN doc.rows : doc.rows[h].ips = Answer(h)

\* Not kept once a run follows another (no configuration checks it): "every output
\* contains ONLY this run's rows" (dns_resolve.py:61).
FreshRows == pc # "idle" => sources \subseteq {run}
=============================================================================
