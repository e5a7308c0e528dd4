-------------------------------- MODULE Merge --------------------------------
(* One list of assets from the documents of both branches (pipeline/merge.py).  *)
(* A document is its rows [host, ips, suspect] and the catch-all addresses it   *)
(* lists; the names the scope gate refuses are left out of every document here. *)
EXTENDS FiniteSets, FiniteSetsExt

NoAssets == [assets |-> {}, quarantine |-> {}]

HostsIn(rows) == {r.host : r \in rows}
IpsOf(rows, h) == UNION {r.ips : r \in {x \in rows : x.host = h}}
SuspectIn(rows, h) == \E r \in rows : r.host = h /\ r.suspect

\* A name is an asset of the branch that found it, or of both.
Attribution(h, passive, active) ==
  IF h \notin HostsIn(active) THEN "passive"
  ELSE IF h \notin HostsIn(passive) THEN "active" ELSE "both"

\* A name that answers only with catch-all addresses is set aside.
Quarantined(ips, wild) == ips # {} /\ wild # {} /\ ips \subseteq wild
\* Mutant of CatchAll: no document is asked for its catch-all addresses.
CatchAllKnown(docs) == {}

\* The catch-all addresses the documents list.
CatchAll(docs) == UNION {d.wild : d \in docs}

\* _flush_merged: what each name has, as functions over the names.
Flushed(ips, attribution, suspect, wild) ==
  LET aside == {h \in DOMAIN ips : Quarantined(ips[h], wild)}
  IN  [assets |-> {[host |-> h, ips |-> ips[h], attribution |-> attribution[h],
                    suspect |-> suspect[h]] : h \in DOMAIN ips \ aside},
       quarantine |-> {[host |-> h, ips |-> ips[h]] : h \in aside}]

MergeBranches(passiveDocs, activeDocs) ==
  LET passive == UNION {d.rows : d \in passiveDocs}
      active == UNION {d.rows : d \in activeDocs}
      all == passive \cup active
      ips == [h \in HostsIn(all) |-> IpsOf(all, h)]
      attribution == [h \in HostsIn(all) |-> Attribution(h, passive, active)]
      suspect == [h \in HostsIn(all) |-> SuspectIn(all, h)]
  IN  Flushed(ips, attribution, suspect, CatchAll(passiveDocs \cup activeDocs))

\* One document more, into a list that carries no catch-all address and whose
\* quarantine is not read back.
AppendActive(list, doc) ==
  LET all == {[host |-> a.host, ips |-> a.ips, suspect |-> a.suspect] : a \in list.assets}
               \cup doc.rows
      ips == [h \in HostsIn(all) |-> IpsOf(all, h)]
      attribution == [h \in HostsIn(all) |->
        IF ~\E a \in list.assets : a.host = h THEN "active"
        ELSE LET was == (CHOOSE a \in list.assets : a.host = h).attribution
             IN  IF h \in HostsIn(doc.rows) /\ was # "active" THEN "both" ELSE was]
      suspect == [h \in HostsIn(all) |-> SuspectIn(all, h)]
  IN  Flushed(ips, attribution, suspect, CatchAll({doc}))
=============================================================================
