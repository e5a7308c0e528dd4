-------------------------------- MODULE Hosts --------------------------------
(* Names below the scanned domain and the choices made about them: which names  *)
(* are brute-forced next, which answers are kept, how a query rate is split     *)
(* (pipeline/recon_depth.py, pipeline/hostsutil.py). A name is the sequence of  *)
(* its labels from the domain downwards; the domain itself is the empty one.    *)
EXTENDS Naturals, Sequences, FiniteSets, SequencesExt

CONSTANTS
  Label,       \* the labels a name is made of
  MaxLen,      \* the longest name considered (a bound of the model)
  Place(_),    \* the place of a name in sorted order
  ReconDepth,  \* recon_depth, the depth of nested DNS
  FfufDepth,   \* ffuf_depth, the depth of nested virtual hosts
  MaxHosts,    \* max_hosts_per_level
  Includes,    \* the scope document: patterns of names that may be asked,
  Excludes     \* and of names that may not

\* The depth is never below ffuf_depth_min, which is 1 as shipped (tools.yaml), and
\* the names below the deepest parents are among those considered.
ASSUME HostsAssumption ==
  /\ IsFiniteSet(Label) /\ MaxLen \in Nat
  /\ ReconDepth \in 1..MaxLen

Name == UNION {[1..n -> Label] : n \in 0..MaxLen}
Apex == <<>>
Child(parent, label) == Append(parent, label)

\* A pattern names one host, or with its wild card the host and all below it.
Matches(host, pattern) ==
  host = pattern.base \/ (pattern.wild /\ IsPrefix(pattern.base, host))

\* The names the scope gate lets through: an exclude outweighs every include.
\* (Suffixes of cloud providers, which must be included by name, are left out.)
InScope ==
  {n \in Name : /\ ~\E x \in Excludes : Matches(n, x)
               /\ \E i \in Includes : Matches(n, i)}

\* The first cap members of S in sorted order.
First(S, cap) == {n \in S : Cardinality({m \in S : Place(m) < Place(n)}) < cap}

\* Every address is a catch-all's.
WildcardOnly(ips, wild) == ips # {} /\ ips \subseteq wild

\* The domain, and a name somebody else named, are kept whatever they answer; a
\* guess is kept for an address that is not a catch-all's.
Keep(host, ips, wild, source, independent) ==
  \/ host = Apex
  \/ source = "known"
  \/ host \in independent
  \/ ips # {} /\ ~WildcardOnly(ips, wild)

\* The names to brute-force under at a level: the domain, then the names one
\* label above that answered nothing of a catch-all.
RecursionParents(resolved, level, wild) ==
  IF level = 1 THEN {Apex}
  ELSE First({h \in DOMAIN resolved : /\ Len(h) = level - 1
                                      /\ resolved[h].ips # {}
                                      /\ resolved[h].ips \cap wild = {}}, MaxHosts)

\* The names whose virtual hosts are asked for.
VhostBases(names) == {Apex} \cup {n \in names : Len(n) \in 1..(FfufDepth - 1)}

\* The names to brute-force under once the virtual hosts are known. (The code
\* cuts them in the order it met them.)
VhostDrivenParents(resolved, extra, already, suspects) ==
  First({h \in extra \cup DOMAIN resolved :
           /\ h \notin already \cup suspects \cup {Apex}
           /\ Len(h) \in 1..(ReconDepth - 1)
           /\ h \in DOMAIN resolved =>
                resolved[h].status # "unresolved" \/ resolved[h].ips # {}}, MaxHosts)

Smallest(a, b) == IF a < b THEN a ELSE b
Largest(a, b) == IF a > b THEN a ELSE b

\* Mutant of WorkerCount: the rate does not bound the pool.
WorkerCountOfJobs(want, parents, qps) == Largest(1, Smallest(want, Largest(1, parents)))

\* How many jobs run together, and the rate of each.
WorkerCount(want, parents, qps) ==
  Largest(1, Smallest(want, Smallest(Largest(1, parents), Largest(1, qps))))
JobQps(qps, workers) == Largest(1, qps \div Largest(1, workers))

=============================================================================
