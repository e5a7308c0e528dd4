---------------------------- MODULE SweepTargets ----------------------------
(* Which addresses the port stages scan (pipeline/modules/port_sweep.py and  *)
(* port_check.py).  `ip_hosts' is a function from the addresses to scan to   *)
(* the hosts that resolve to them.  An input `in' is what the earlier stages  *)
(* left in the target's directory, and the gate's verdicts on it:            *)
(*   ips       the addresses of every merged host (assets.json);             *)
(*   scope     the hosts the gate lets through;  eligible  the addresses;     *)
(*   alive     the hosts that answered over HTTP;                            *)
(*   psv8      the passive addresses that have no host.                      *)
EXTENDS FiniteSets, Integers

CONSTANTS
  Host,   \* the merged hosts
  IP      \* the addresses, numbered in the order the sweep sorts them

ASSUME IPAssumption == IP \subseteq Nat /\ IsFiniteSet(IP)

Input == [ips: [Host -> SUBSET IP], scope: SUBSET Host, alive: SUBSET Host,
          eligible: SUBSET IP, psv8: SUBSET IP]

\* Every function from a set of addresses to the hosts known to be there.
IPHosts == UNION {[T -> SUBSET Host] : T \in SUBSET IP}

\* The verdict of the gate on an address: excluded and private ranges are
\* refused, an address that is merely not included is not.
Eligible(in, ip) == ip \in in.eligible

\* A host's addresses join the map when the gate lets the host through; an
\* address it refuses is written to the out-of-scope ledger instead.
Mapped(in, candidates) ==
  LET hostsAt(ip) == {h \in candidates \cap in.scope : ip \in in.ips[h] /\ Eligible(in, ip)}
  IN [ip \in {q \in IP : hostsAt(q) # {}} |-> hostsAt(ip)]

\* The sweep takes every merged host, or the ones that answered.
Candidates(in, scopeMode) == IF scopeMode = "alive_only" THEN in.alive ELSE Host

\* The passive addresses are added without a host, unless a host has them.
WithPassive(in, m) ==
  [ip \in DOMAIN m \cup {x \in in.psv8 : Eligible(in, x)} |->
     IF ip \in DOMAIN m THEN m[ip] ELSE {}]

MappedHosts(m) == UNION {m[ip] : ip \in DOMAIN m}

\* The hosts no address is mapped for: those with none at all go through the
\* resolution guarantee, the others were refused.
NoIpHosts(in, candidates, m) ==
  {h \in candidates \ MappedHosts(m) : in.ips[h] = {}}

\* The rows of the one batched resolution: `rows' gives the hosts that
\* answered their addresses.
WithRows(in, m, rows) ==
  LET new == {ip \in UNION {rows[h] : h \in DOMAIN rows} : Eligible(in, ip)}
  IN [ip \in DOMAIN m \cup new |->
        (IF ip \in DOMAIN m THEN m[ip] ELSE {})
          \cup {h \in DOMAIN rows : ip \in rows[h] /\ Eligible(in, ip)}]

\* A host the batch has no row for is disclosed as unresolved.
Unresolved(noIp, rows) == noIp \ DOMAIN rows

AnyAlive(in, m, ip) == m[ip] \cap in.alive # {}
=============================================================================
