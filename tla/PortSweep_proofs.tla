--------------------------- MODULE PortSweep_proofs ---------------------------
(* Proofs about the port stages: the types, that a finished sweep accounts for *)
(* every address and discloses what it left, and that the canary pauses only    *)
(* after the windows it takes.                                                 *)
EXTENDS PortSweep, TLAPS, WellFoundedInduction, SequenceTheorems, FiniteSetTheorems

(***************************************************************************)
(* The least and the greatest of a set of numbers.                          *)
(***************************************************************************)
LEMMA LeastExists ==
  ASSUME NEW S \in SUBSET Nat, S # {}
  PROVE  \E x \in S : \A y \in S : x <= y
<1> DEFINE R == OpToRel(<, Nat)
<1>1. IsWellFoundedOn(R, Nat)
  BY NatLessThanWellFounded
<1>2. \A x, y \in Nat : y < x => <<y, x>> \in R
  BY DEF OpToRel
<1> HIDE DEF R
<1>3. PICK x \in S : \A y \in S : ~ (<<y, x>> \in R)
  BY <1>1, WFMin
<1>4. ASSUME NEW y \in S PROVE x <= y
  <2>1. ~(y < x)
    BY <1>2, <1>3
  <2>2. x \in Nat /\ y \in Nat
    OBVIOUS
  <2> QED BY <2>1, <2>2
<1> QED BY <1>4

LEMMA GreatestExists ==
  ASSUME NEW n \in Nat, NEW S \in SUBSET (1..n), S # {}
  PROVE  \E x \in S : \A y \in S : y <= x
<1> DEFINE T == {m \in Nat : \E x \in S : m = n - x}
<1>1. \A x \in S : x \in Int /\ x >= 1 /\ x <= n
  OBVIOUS
<1>2. \A x \in S : n - x \in T
  BY <1>1
<1>3. T \in SUBSET Nat /\ T # {}
  BY <1>2
<1>4. PICK t \in T : \A u \in T : t <= u
  <2> HIDE DEF T
  <2> QED BY <1>3, LeastExists
<1>5. PICK x \in S : t = n - x
  OBVIOUS
<1>6. ASSUME NEW y \in S PROVE y <= x
  <2>1. t <= n - y
    BY <1>2, <1>4
  <2>2. n \in Int /\ x \in Int /\ y \in Int
    BY <1>1
  <2> HIDE DEF T
  <2> QED BY <1>5, <2>1, <2>2
<1> QED BY <1>6

\* The address the loop is at is one it has not recorded.
LEMMA FirstIsIn ==
  ASSUME NEW S \in SUBSET IP, S # {}
  PROVE  FirstOf(S) \in S
<1>1. \E x \in S : \A y \in S : x <= y
  BY IPAssumption, LeastExists
<1> QED BY <1>1 DEF FirstOf

(***************************************************************************)
(* The address map.                                                         *)
(***************************************************************************)
LEMMA HostsType ==
  ASSUME NEW f \in IPHosts
  PROVE  /\ f \in [DOMAIN f -> SUBSET Host] /\ DOMAIN f \in SUBSET IP
BY DEF IPHosts

LEMMA HostsFrom ==
  ASSUME NEW T \in SUBSET IP, NEW f \in [T -> SUBSET Host]
  PROVE  f \in IPHosts
BY DEF IPHosts

LEMMA MappedType ==
  ASSUME NEW i \in Input, NEW c \in SUBSET Host
  PROVE  Mapped(i, c) \in IPHosts
<1> DEFINE hostsAt(ip) == {h \in c \cap i.scope : ip \in i.ips[h] /\ Eligible(i, ip)}
           T == {q \in IP : hostsAt(q) # {}}
<1>1. Mapped(i, c) = [ip \in T |-> hostsAt(ip)]
  BY DEF Mapped
<1>2. Mapped(i, c) \in [T -> SUBSET Host] /\ T \in SUBSET IP
  BY <1>1
<1> HIDE DEF T
<1> QED BY <1>2, HostsFrom

LEMMA WithPassiveType ==
  ASSUME NEW i \in Input, NEW m \in IPHosts
  PROVE  WithPassive(i, m) \in IPHosts
<1> DEFINE T == DOMAIN m \cup {x \in i.psv8 : Eligible(i, x)}
<1>1. T \in SUBSET IP
  BY HostsType DEF Input
<1>2. \A ip \in DOMAIN m : m[ip] \in SUBSET Host
  BY HostsType
<1>3. WithPassive(i, m) = [ip \in T |-> IF ip \in DOMAIN m THEN m[ip] ELSE {}]
  BY DEF WithPassive
<1>4. WithPassive(i, m) \in [T -> SUBSET Host]
  BY <1>2, <1>3
<1> QED BY <1>1, <1>4, HostsFrom

LEMMA WithRowsType ==
  ASSUME NEW i \in Input, NEW m \in IPHosts, NEW A \in SUBSET Host,
         NEW rows \in [A -> SUBSET IP]
  PROVE  WithRows(i, m, rows) \in IPHosts
<1> DEFINE new == {ip \in UNION {rows[h] : h \in DOMAIN rows} : Eligible(i, ip)}
           T == DOMAIN m \cup new
<1>1. T \in SUBSET IP
  BY HostsType
<1>2. \A ip \in DOMAIN m : m[ip] \in SUBSET Host
  BY HostsType
<1>3. WithRows(i, m, rows) = [ip \in T |->
        (IF ip \in DOMAIN m THEN m[ip] ELSE {}) \cup {h \in DOMAIN rows : ip \in rows[h] /\ Eligible(i, ip)}]
  BY DEF WithRows
<1> HIDE DEF new
<1>4. \A ip \in T : (IF ip \in DOMAIN m THEN m[ip] ELSE {})
                      \cup {h \in DOMAIN rows : ip \in rows[h] /\ Eligible(i, ip)} \in SUBSET Host
  BY <1>2
<1>5. WithRows(i, m, rows) \in [T -> SUBSET Host]
  BY <1>3, <1>4
<1> QED BY <1>1, <1>5, HostsFrom

LEMMA NoHostsType == NoHosts \in IPHosts /\ DOMAIN NoHosts = {}
<1>1. NoHosts \in [{} -> SUBSET Host] /\ DOMAIN NoHosts = {}
  BY DEF NoHosts
<1> QED BY <1>1, HostsFrom

(***************************************************************************)
(* The pacer.                                                               *)
(***************************************************************************)
LEMMA PaceConstants ==
  /\ RampStart \in Nat /\ RampStep \in Nat /\ RampEvery \in Nat
  /\ CanaryEvery \in Nat \ {0} /\ BadWindows \in Nat \ {0}
BY PaceAssumption

LEMMA RampedType ==
  ASSUME NEW s \in PaceState, NEW t \in Nat, NEW cap \in Nat
  PROVE  /\ Ramped(s, t, cap) \in PaceState
         /\ Ramped(s, t, cap).bad_windows = s.bad_windows
         /\ Ramped(s, t, cap).last_canary = s.last_canary
         /\ Ramped(s, t, cap).paused = s.paused
<1>1. Least(s.pps + RampStep, cap) \in Nat
  BY PaceConstants DEF PaceState, Least
<1> QED BY <1>1 DEF Ramped, PaceState

LEMMA CanaryType ==
  ASSUME NEW c \in PaceState, NEW missed \in BOOLEAN
  PROVE  /\ Canary(c, missed) \in PaceState
         /\ Canary(c, missed).last_canary = c.last_canary
         /\ Canary(c, missed).bad_windows = (IF missed THEN c.bad_windows + 1 ELSE 0)
         /\ Canary(c, missed).paused = (c.paused \/ (missed /\ c.bad_windows + 1 >= BadWindows))
<1> DEFINE a == Most(1, c.pps \div 2)
           n == c.bad_windows + 1
           q == c.paused \/ n >= BadWindows
<1>1. a \in Nat
  <2>1. c.pps \div 2 \in Int
    BY DEF PaceState
  <2> QED BY <2>1 DEF Most
<1>2. n \in Nat
  BY DEF PaceState
<1>3. CASE missed
  <2>1. Canary(c, missed) = [c EXCEPT !.pps = a, !.bad_windows = n, !.paused = q]
    BY <1>3 DEF Canary
  <2>2. q \in BOOLEAN
    BY Zenon
  <2>3. q = (c.paused \/ (missed /\ c.bad_windows + 1 >= BadWindows))
    BY <1>3, Zenon
  <2>4. n = (IF missed THEN c.bad_windows + 1 ELSE 0)
    BY <1>3
  <2> HIDE DEF a, n, q
  <2> DEFINE d == Canary(c, missed)
  <2>6. d = [c EXCEPT !.pps = a, !.bad_windows = n, !.paused = q]
    BY <2>1
  <2> HIDE DEF d
  <2>7. \A z \in BOOLEAN : d = [c EXCEPT !.pps = a, !.bad_windows = n, !.paused = z]
          => d \in PaceState /\ d.last_canary = c.last_canary /\ d.bad_windows = n /\ d.paused = z
    BY <1>1, <1>2 DEF PaceState
  <2>5. d \in PaceState /\ d.last_canary = c.last_canary /\ d.bad_windows = n /\ d.paused = q
    BY <2>7, <2>6, <2>2, Zenon
  <2> QED BY <2>3, <2>4, <2>5 DEF d
<1>4. CASE ~missed
  BY <1>4 DEF Canary, PaceState
<1> QED BY <1>3, <1>4

LEMMA TickType ==
  ASSUME NEW s \in PaceState, NEW t \in Nat, NEW cap \in Nat,
         NEW armed \in BOOLEAN, NEW missed \in BOOLEAN
  PROVE  Tick(s, t, cap, armed, missed) \in PaceState
<1> DEFINE c == [Ramped(s, t, cap) EXCEPT !.last_canary = t]
<1>1. c \in PaceState
  BY RampedType DEF PaceState
<1>2. Canary(c, missed) \in PaceState
  BY <1>1, CanaryType
<1> QED BY <1>1, <1>2, RampedType DEF Tick

LEMMA NewPacerType == ASSUME NEW t \in Nat PROVE NewPacer(t) \in PaceState
BY PaceConstants DEF NewPacer, PaceState, Never

(***************************************************************************)
(* The types.                                                               *)
(***************************************************************************)
LEMMA SweepConstants ==
  /\ Inputs \subseteq Input /\ Inputs # {} /\ Profiles # {}
  /\ Budget \in Nat \ {0} /\ MaxRuns \in Nat /\ Divisor \in Nat \ {0}
  /\ \A d \in Durations : d \in Nat
  /\ \A p \in Profiles : p # "broken" => PortsOf[p] \in Nat /\ CapOf[p] \in Nat
BY SweepAssumption

LEMMA NoScansType == DOMAIN NoScans = {}
BY DEF NoScans

LEMMA DocType == ASSUME NEW S \in SUBSET IP PROVE [skipped |-> "no", open |-> S] \in Doc
BY DEF Doc

LEMMA InitTypes == Init => TypeOK
<1> SUFFICES ASSUME Init PROVE TypeOK
  OBVIOUS
<1> USE DEF Init
<1>1. in \in Inputs /\ profile \in Profiles
  BY SweepConstants
<1>2. NoDoc \in Doc
  BY DEF NoDoc, Doc
<1>3. NewPacer(1) \in PaceState
  BY NewPacerType
<1>4. runs \in 0..MaxRuns /\ pc \in Steps
  BY SweepConstants DEF Steps
<1>5. verdicts \in Seq(Verdict) /\ history \in Seq([check: Doc, sweep: Doc])
  BY EmptySeq
<1>6. hosts \in IPHosts /\ DOMAIN scans = {}
  BY NoHostsType, NoScansType
<1> QED BY <1>1, <1>2, <1>3, <1>4, <1>5, <1>6 DEF TypeOK, All, Scanned

\* Cleared leaves a state that is typed, whatever the rest of the step does.
ClearTypes ==
  /\ now \in Nat /\ hosts \in IPHosts /\ noIp \subseteq Host /\ unresolved \subseteq noIp
  /\ deadline \in Nat /\ effective \in Nat /\ breached \in BOOLEAN
  /\ pacer \in PaceState /\ sentinels \subseteq IP /\ rate \in Nat
  /\ todo \subseteq All /\ Scanned \subseteq All
  /\ \A ip \in Scanned : scans[ip] \in {"open", "none", "suspect"}
  /\ unreachable \subseteq All /\ remaining \subseteq All /\ dropped \subseteq All
  /\ flushed \in Nat /\ verdicts \in Seq(Verdict)

RunTypes ==
  /\ pc \in Steps /\ runs \in 0..MaxRuns /\ stop \in BOOLEAN
  /\ row \in {"pending", "running", "done", "failed"}
  /\ in \in Inputs /\ profile \in Profiles
  /\ check \in Doc /\ data \in Doc /\ history \in Seq([check: Doc, sweep: Doc])

LEMMA TypesParts == TypeOK <=> ClearTypes /\ RunTypes
BY DEF TypeOK, ClearTypes, RunTypes

LEMMA ClearedTypes == ASSUME Cleared PROVE ClearTypes'
<1>1. hosts' = NoHosts /\ All' = {} /\ Scanned' = {}
  BY NoHostsType, NoScansType DEF Cleared, All, Scanned
<1>2. pacer' \in PaceState
  BY NewPacerType DEF Cleared
<1>3. verdicts' \in Seq(Verdict)
  BY EmptySeq DEF Cleared
<1>4. hosts' \in IPHosts
  BY <1>1, NoHostsType
<1> QED BY <1>1, <1>2, <1>3, <1>4 DEF Cleared, ClearTypes

LEMMA FrameTypes ==
  ASSUME ClearTypes, UNCHANGED <<now, targets, pace, loop, result>>
  PROVE  ClearTypes'
BY DEF ClearTypes, targets, pace, loop, result, All, Scanned

LEMMA MinedType ==
  ASSUME NEW h \in Seq([check: Doc, sweep: Doc])
  PROVE  Mined(h) \subseteq UNION {d.sweep.open \cup d.check.open : d \in {h[j] : j \in DOMAIN h}}
<1> DEFINE found == {k \in DOMAIN h : Opens(h[k].sweep) \cup Opens(h[k].check) # {}}
           newest == CHOOSE k \in found : \A j \in found : j <= k
<1>1. CASE found = {}
  BY <1>1 DEF Mined
<1>2. CASE found # {}
  <2>1. found \in SUBSET (1..Len(h)) /\ Len(h) \in Nat
    BY LenProperties
  <2>2. newest \in found
    <3>1. \E k \in found : \A j \in found : j <= k
      <4> HIDE DEF found
      <4> QED BY <1>2, <2>1, GreatestExists
    <3> HIDE DEF found
    <3> QED BY <3>1
  <2>3. newest \in DOMAIN h
    <3> HIDE DEF newest
    <3> QED BY <2>2
  <2>4. Mined(h) \subseteq h[newest].sweep.open \cup h[newest].check.open
    BY <1>2 DEF Mined, Opens
  <2> HIDE DEF newest, found
  <2> QED BY <2>3, <2>4
<1> QED BY <1>1, <1>2

LEMMA MinedIPs ==
  ASSUME NEW h \in Seq([check: Doc, sweep: Doc])
  PROVE  Mined(h) \subseteq IP
<1>1. ASSUME NEW j \in DOMAIN h
      PROVE  h[j].sweep.open \subseteq IP /\ h[j].check.open \subseteq IP
  <2>1. h[j] \in [check: Doc, sweep: Doc]
    BY LenProperties
  <2> QED BY <2>1 DEF Doc
<1> QED BY <1>1, MinedType

LEMMA MapInIP == ASSUME TypeOK PROVE All \subseteq IP /\ Scanned \subseteq IP
BY HostsType DEF TypeOK, All, Scanned

LEMMA PayloadType ==
  ASSUME TypeOK, NEW what \in {"no", "profile_unusable"}
  PROVE  Payload(what) \in Doc
BY MapInIP DEF Payload, Doc

LEMMA HereIn == ASSUME TypeOK, todo # {} PROVE Ip \in todo /\ Ip \in All
BY MapInIP, FirstIsIn DEF TypeOK, Ip

LEMMA RunStep ==
  ASSUME TypeOK, Next
  PROVE  RunTypes'
<1> USE DEF TypeOK, RunTypes, input, world, Steps, InStage
<1>1. CASE StartRun \/ ResumeRun
  <2>1. PICK fresh \in BOOLEAN : Begin(fresh)
    BY <1>1 DEF StartRun, ResumeRun
  <2>2. runs + 1 \in 0..MaxRuns
    BY <2>1, SweepConstants DEF Begin
  <2>3. in' \in Inputs /\ profile' \in Profiles
    BY <2>1 DEF Begin
  <2> QED BY <2>1, <2>2, <2>3 DEF Begin
<1>2. CASE PortCheck
  <2>1. Mapped(in, Host) \in IPHosts
    BY SweepConstants, MappedType
  <2>2. check' \in Doc
    BY <1>2, <2>1, HostsType DEF PortCheck, Doc
  <2> QED BY <1>2, <2>2 DEF PortCheck
<1>3. CASE Stage
  BY <1>3 DEF Stage
<1>4. CASE BuildTargets \/ Resolve \/ Pace
  BY <1>4 DEF BuildTargets, Resolve, Pace
<1>5. CASE UnusableProfile \/ WriteFinal
  <2>1. data' \in Doc
    BY <1>5, PayloadType DEF UnusableProfile, WriteFinal
  <2> QED BY <1>5, <2>1 DEF UnusableProfile, WriteFinal
<1>6. CASE Flush
  <2>1. data' \in Doc
    BY <1>6, PayloadType DEF Flush
  <2> QED BY <1>6, <2>1 DEF Flush
<1>7. CASE LoopStop \/ Defer \/ TickPacer \/ LoopEnds
  BY <1>7 DEF LoopStop, Defer, TickPacer, LoopEnds
<1>8. CASE Scan \/ Reprobe \/ Services
  BY <1>8 DEF Scan, Reprobe, Services
<1>9. CASE Finish \/ Raises \/ StopRun \/ Die
  BY <1>9 DEF Finish, Raises, StopRun, Die
<1>10. CASE EndRun
  <2>1. history' \in Seq([check: Doc, sweep: Doc])
    BY <1>10 DEF EndRun
  <2> QED BY <1>10, <2>1 DEF EndRun
<1> QED BY <1>1, <1>2, <1>3, <1>4, <1>5, <1>6, <1>7, <1>8, <1>9, <1>10 DEF Next

LEMMA RecordedTypes ==
  ASSUME TypeOK, Ip \in All, NEW what \in {"open", "none", "suspect"}, Recorded(what)
  PROVE  Scanned' = Scanned \cup {Ip} /\ \A ip \in Scanned' : scans'[ip] \in {"open", "none", "suspect"}
BY DEF TypeOK, Recorded, Scanned

(***************************************************************************)
(* Where the addresses are, at every point of a run.  Before the loop no     *)
(* list holds one; in the loop those it still owes an answer and those of     *)
(* the three lists share all of them, and a record excludes the other two.    *)
(***************************************************************************)
Early == {"idle", "preview", "stage", "inputs", "resolve", "pace"}
Looping == {"loop", "scan", "reprobe", "services", "flush"}

\* An address is still in todo when its record is written.
Owing == IF pc \in {"services", "flush"} THEN todo \ {Ip} ELSE todo

Covered ==
  /\ All \ (Scanned \cup unreachable \cup remaining) \subseteq dropped
  /\ Scanned \cap (unreachable \cup remaining) = {}

Blank == Scanned = {} /\ unreachable = {} /\ remaining = {} /\ todo = {} /\ dropped = {}
Shared ==
  /\ Scanned \cup unreachable \cup remaining = All \ Owing
  /\ Scanned \cap (unreachable \cup remaining) = {}

Parted ==
  /\ pc \in Early => Blank /\ (pc # "pace" => unresolved = {})
  /\ pc \in Looping => Shared /\ (pc # "loop" => todo # {}) /\ profile # "broken"
  /\ pc \in {"end", "finish"} => Covered
  /\ pc \in {"end", "finish", "ending"} /\ todo # {} => stop \/ partial # {}

LEMMA SweepStep ==
  ASSUME TypeOK, Parted, Next
  PROVE  ClearTypes'
<1> USE DEF TypeOK, ClearTypes
<1>0. ClearTypes
  BY TypesParts
<1>1. CASE StartRun \/ ResumeRun \/ PortCheck \/ Stage \/ LoopEnds \/ Finish \/ StopRun
  <2>1. UNCHANGED <<now, targets, pace, loop, result>>
    BY <1>1 DEF StartRun, ResumeRun, Begin, PortCheck, Stage, LoopEnds, Finish, StopRun
  <2> QED BY <1>0, <2>1, FrameTypes
<1>2. CASE BuildTargets
  <2> DEFINE c == Candidates(in, ScopeMode)
  <2>1. c \in SUBSET Host /\ in \in Input
    BY SweepConstants DEF Candidates, Input
  <2>2. hosts' \in IPHosts
    BY <1>2, <2>1, MappedType, WithPassiveType DEF BuildTargets
  <2>3. noIp' \subseteq Host
    BY <1>2, <2>1 DEF BuildTargets, NoIpHosts
  <2>4. Blank /\ unresolved = {} /\ UNCHANGED <<now, unresolved, effective, breached, sentinels, loop, result>>
    BY <1>2 DEF BuildTargets, Parted, Early
  <2>5. deadline' \in Nat
    BY <1>2, SweepConstants DEF BuildTargets
  <2> QED BY <2>2, <2>3, <2>4, <2>5 DEF Blank, loop, result, Scanned, All
<1>3. CASE Resolve
  <2>1. PICK answered \in SUBSET noIp : \E rows \in [answered -> (SUBSET IP) \ {{}}] :
          hosts' = WithRows(in, hosts, rows) /\ unresolved' = Unresolved(noIp, rows)
    BY <1>3 DEF Resolve
  <2>2. PICK rows \in [answered -> (SUBSET IP) \ {{}}] :
          hosts' = WithRows(in, hosts, rows) /\ unresolved' = Unresolved(noIp, rows)
    BY <2>1
  <2>3. answered \in SUBSET Host /\ in \in Input /\ rows \in [answered -> SUBSET IP]
    BY SweepConstants
  <2>4. hosts' \in IPHosts
    BY <2>2, <2>3, WithRowsType
  <2>5. unresolved' \subseteq noIp' /\ noIp' = noIp
    BY <1>3, <2>2 DEF Resolve, Unresolved
  <2>6. now' \in Nat
    BY <1>3, SweepConstants DEF Resolve
  <2>7. Blank /\ UNCHANGED <<pace, loop, result>>
    BY <1>3 DEF Resolve, Parted, Early
  <2> QED BY <2>4, <2>5, <2>6, <2>7 DEF Blank, pace, loop, result, Scanned, All
<1>4. CASE Pace
  <2>1. Cardinality(All) \in Nat
    BY MapInIP, IPAssumption, FS_Subset, FS_CardinalityType
  <2>2. PortsOf[profile] \in Nat /\ CapOf[profile] \in Nat
    BY <1>4, SweepConstants DEF Pace
  <2> DEFINE need == Cardinality(All) * PortsOf[profile]
  <2>3. need \in Nat
    BY <2>1, <2>2
  <2>4. effective' \in Nat
    <3>1. effective' = IF All = {} THEN 0 ELSE Most(1, Least(need \div Budget, CapOf[profile]))
      BY <1>4 DEF Pace
    <3> HIDE DEF need
    <3>2. need \div Budget \in Int
      BY <2>3, SweepConstants
    <3> QED BY <2>2, <3>1, <3>2 DEF Most, Least
  <2>5. breached' \in BOOLEAN
    BY <1>4 DEF Pace
  <2>6. sentinels' \subseteq IP /\ pacer' \in PaceState
    BY <1>4, MinedIPs, NewPacerType DEF Pace
  <2>7. todo' = All /\ flushed' = 0 /\ All' = All /\ Scanned' = Scanned
    BY <1>4 DEF Pace, Queue, All, Scanned, targets
  <2>8. UNCHANGED <<now, deadline, rate, verdicts, dropped, scans, unreachable, remaining, partial, hosts, noIp, unresolved>>
    BY <1>4 DEF Pace, targets
  <2> QED BY <2>4, <2>5, <2>6, <2>7, <2>8
<1>5. CASE LoopStop
  BY <1>5 DEF LoopStop, targets, pace, loop, All, Scanned
<1>6. CASE Defer
  <2>1. Ip \in All
    BY <1>6, HereIn DEF Defer
  <2> QED BY <1>6, <2>1 DEF Defer, targets, pace, All, Scanned
<1>7. CASE TickPacer
  <2>1. Cap \in Nat
    BY <1>7, SweepConstants DEF TickPacer, Parted, Looping, Cap
  <2>2. ScanRate \in Nat
    <3>1. CurrentPps(pacer, Cap) \in Nat
      BY <2>1 DEF CurrentPps, PaceState, Most, Least
    <3> QED BY <3>1 DEF ScanRate, Least
  <2>3. PICK missed \in BOOLEAN :
          /\ pacer' = Tick(pacer, now, Cap, sentinels # {}, missed)
          /\ verdicts' = IF CanaryDue(pacer, now) /\ sentinels # {}
                           THEN Append(verdicts, [at |-> now, missed |-> missed]) ELSE verdicts
    BY <1>7 DEF TickPacer
  <2>4. pacer' \in PaceState
    BY <2>1, <2>3, TickType
  <2>5. [at |-> now, missed |-> missed] \in Verdict
    BY DEF Verdict
  <2>6. verdicts' \in Seq(Verdict)
    BY <2>3, <2>5
  <2>7. Ip \in All
    BY <1>7, HereIn DEF TickPacer
  <2>8. remaining' \subseteq All /\ dropped' \subseteq All
    BY <1>7, <2>7 DEF TickPacer
  <2>9. rate' \in Nat /\ UNCHANGED <<now, todo, scans, unreachable, flushed, targets, pace>>
    BY <1>7, <2>2 DEF TickPacer
  <2> QED BY <2>4, <2>6, <2>8, <2>9 DEF targets, pace, All, Scanned
<1>8. CASE Scan
  <2>1. todo # {} /\ Ip \in All
    BY <1>8, HereIn DEF Scan, Parted, Looping
  <2>2. now' \in Nat
    BY <1>8, SweepConstants DEF Scan
  <2>3. UNCHANGED <<targets, pacer, rate, verdicts, dropped, remaining, flushed, pace>>
    BY <1>8 DEF Scan
  <2>4. /\ todo' \subseteq todo /\ unreachable' \subseteq unreachable \cup {Ip}
        /\ scans' = scans \/ \E what \in {"open", "none", "suspect"} : Recorded(what)
    BY <1>8 DEF Scan
  <2>5. Scanned' \subseteq All /\ \A ip \in Scanned' : scans'[ip] \in {"open", "none", "suspect"}
    BY <2>1, <2>4, RecordedTypes DEF Scanned
  <2> QED BY <2>1, <2>2, <2>3, <2>4, <2>5 DEF targets, pace, All
<1>9. CASE Reprobe
  <2>1. todo # {} /\ Ip \in All
    BY <1>9, HereIn DEF Reprobe, Parted, Looping
  <2>2. now' \in Nat
    BY <1>9, SweepConstants DEF Reprobe
  <2>3. UNCHANGED <<targets, pacer, todo, unreachable, verdicts, dropped, remaining, flushed, pace>>
    BY <1>9 DEF Reprobe
  <2>4. \E what \in {"open", "none", "suspect"} : Recorded(what)
    BY <1>9 DEF Reprobe
  <2>5. Scanned' \subseteq All /\ \A ip \in Scanned' : scans'[ip] \in {"open", "none", "suspect"}
    BY <2>1, <2>4, RecordedTypes DEF Scanned
  <2>6. rate' \in Nat
    <3>1. rate \div Divisor \in Int
      BY SweepConstants
    <3> QED BY <1>9, <3>1 DEF Reprobe, Most
  <2> QED BY <2>1, <2>2, <2>3, <2>5, <2>6 DEF targets, pace, All
<1>10. CASE Services \/ Flush
  <2>1. now' \in Nat /\ flushed' \in Nat /\ todo' \subseteq todo
    BY <1>10, SweepConstants DEF Services, Flush, loop, result
  <2>2. UNCHANGED <<targets, pacer, rate, verdicts, dropped, scans, unreachable, remaining, pace>>
    BY <1>10 DEF Services, Flush, loop, result
  <2> QED BY <2>1, <2>2 DEF targets, pace, All, Scanned
<1>11. CASE UnusableProfile \/ WriteFinal \/ Raises
  <2>1. remaining' \subseteq All
    BY <1>11 DEF UnusableProfile, WriteFinal, Raises
  <2>2. UNCHANGED <<now, targets, loop, scans, unreachable, flushed, pace>>
    BY <1>11 DEF UnusableProfile, WriteFinal, Raises
  <2> QED BY <2>1, <2>2 DEF targets, pace, loop, All, Scanned
<1>12. CASE EndRun \/ Die
  BY <1>12, ClearedTypes DEF EndRun, Die
<1> QED BY <1>1, <1>2, <1>3, <1>4, <1>5, <1>6, <1>7, <1>8, <1>9, <1>10, <1>11, <1>12 DEF Next

\* Every address is accounted for at every step.
LEMMA PartedStep ==
  ASSUME TypeOK, Parted, Next
  PROVE  Parted'
<1> USE DEF TypeOK, Parted, Early, Looping
<1>1. CASE StartRun \/ ResumeRun \/ PortCheck \/ Stage
  <2>1. pc \in Early /\ UNCHANGED <<targets, loop, result>>
    BY <1>1 DEF StartRun, ResumeRun, Begin, PortCheck, Stage
  <2>2. pc' \in {"preview", "stage", "inputs", "ending"}
    BY <1>1 DEF StartRun, ResumeRun, Begin, PortCheck, Stage
  <2>3. pc # "pace"
    BY <1>1 DEF StartRun, ResumeRun, Begin, PortCheck, Stage
  <2> QED BY <2>1, <2>2, <2>3 DEF Blank, targets, loop, result, Scanned
<1>2. CASE BuildTargets \/ Resolve
  <2>1. pc \in {"inputs", "resolve"} /\ pc' \in {"resolve", "pace"} /\ UNCHANGED <<loop, result>>
    BY <1>2 DEF BuildTargets, Resolve
  <2>2. pc' = "resolve" => unresolved' = unresolved
    BY <1>2 DEF BuildTargets, Resolve
  <2> QED BY <2>1, <2>2 DEF Blank, loop, result, Scanned
<1>3. CASE UnusableProfile
  <2>1. pc' = "finish" /\ partial' # {} /\ remaining' = All' /\ Scanned' = {} /\ All' = All
    BY <1>3 DEF UnusableProfile, Blank, targets, All, Scanned
  <2> QED BY <2>1 DEF Covered
<1>4. CASE Pace
  <2>1. Blank /\ pc' = "loop" /\ todo' = All /\ profile' = profile /\ profile # "broken"
    BY <1>4 DEF Pace, Queue, world
  <2>2. All' = All /\ Scanned' = {} /\ unreachable' = {} /\ remaining' = {}
    BY <1>4, <2>1 DEF Pace, targets, All, Scanned, Blank
  <2> QED BY <2>1, <2>2 DEF Shared, Owing
<1>5. CASE LoopStop
  <2>1. pc' = "end" /\ stop' /\ All' = All /\ Scanned' = Scanned /\ unreachable' = unreachable
        /\ remaining' = remaining \cup (All \ Scanned)
    BY <1>5 DEF LoopStop, targets, All, Scanned
  <2>2. Scanned \cap (unreachable \cup remaining) = {}
    BY <1>5 DEF LoopStop, Shared
  <2> QED BY <2>1, <2>2 DEF Covered
<1>6. CASE Defer
  <2>1. Ip \in todo /\ Ip \in All /\ Ip \notin Scanned
    BY <1>6, HereIn DEF Defer, Shared, Owing
  <2>2. pc = "loop" /\ pc' = "loop" /\ todo' = todo \ {Ip} /\ remaining' = remaining \cup {Ip}
        /\ All' = All /\ Scanned' = Scanned /\ unreachable' = unreachable /\ profile' = profile
    BY <1>6 DEF Defer, targets, world, All, Scanned
  <2> QED BY <2>1, <2>2 DEF Shared, Owing
<1>7. CASE TickPacer
  <2>1. Ip \in todo /\ Ip \in All /\ Ip \notin Scanned
    BY <1>7, HereIn DEF TickPacer, Shared, Owing
  <2>2. /\ pc = "loop" /\ All' = All /\ Scanned' = Scanned /\ unreachable' = unreachable
        /\ profile' = profile /\ todo' = todo /\ todo # {}
    BY <1>7 DEF TickPacer, targets, world, All, Scanned
  <2>3. \/ /\ pc' = "end" /\ remaining' = remaining \cup (All \ (Scanned \cup {Ip}))
           /\ dropped' = {Ip} /\ partial' # {}
        \/ pc' = "scan" /\ UNCHANGED <<remaining, partial, dropped>>
    BY <1>7 DEF TickPacer
  <2>4. CASE pc' = "end"
    BY <2>1, <2>2, <2>3, <2>4 DEF Shared, Covered
  <2>5. CASE pc' = "scan"
    BY <2>1, <2>2, <2>3, <2>5 DEF Shared, Owing
  <2> QED BY <2>3, <2>4, <2>5
<1>8. CASE Scan
  <2>1. todo # {} /\ Ip \in todo /\ Ip \in All /\ Ip \notin Scanned
    BY <1>8, HereIn DEF Scan, Shared, Owing
  <2>2. All' = All /\ remaining' = remaining /\ profile' = profile /\ pc = "scan"
    BY <1>8 DEF Scan, targets, world, All
  <2>3. CASE pc' = "loop"
    <3>1. unreachable' = unreachable \cup {Ip} /\ todo' = todo \ {Ip} /\ Scanned' = Scanned
      BY <1>8, <2>3 DEF Scan, Scanned
    <3> QED BY <2>1, <2>2, <2>3, <3>1 DEF Shared, Owing
  <2>4. CASE pc' = "reprobe"
    <3>1. unreachable' = unreachable /\ todo' = todo /\ Scanned' = Scanned
      BY <1>8, <2>4 DEF Scan, Scanned
    <3> QED BY <2>1, <2>2, <2>4, <3>1 DEF Shared, Owing
  <2>5. CASE pc' \in {"services", "flush"}
    <3>1. unreachable' = unreachable /\ todo' = todo /\ (Recorded("open") \/ Recorded("none"))
      BY <1>8, <2>5 DEF Scan
    <3>2. Scanned' = Scanned \cup {Ip} /\ unreachable' = unreachable /\ todo' = todo
      BY <1>8, <2>1, <2>5, <3>1, RecordedTypes DEF Scan
    <3>3. Ip' = Ip
      BY <3>2 DEF Ip
    <3> QED BY <2>1, <2>2, <2>5, <3>2, <3>3 DEF Shared, Owing
  <2> QED BY <1>8, <2>3, <2>4, <2>5 DEF Scan
<1>9. CASE Reprobe
  <2>1. todo # {} /\ Ip \in todo /\ Ip \in All /\ Ip \notin Scanned
    BY <1>9, HereIn DEF Reprobe, Shared, Owing
  <2>2. All' = All /\ remaining' = remaining /\ profile' = profile /\ pc = "reprobe"
        /\ unreachable' = unreachable /\ todo' = todo /\ pc' \in {"services", "flush"}
    BY <1>9 DEF Reprobe, targets, world, All
  <2>3. Recorded("open") \/ Recorded("suspect")
    BY <1>9 DEF Reprobe
  <2>4. Scanned' = Scanned \cup {Ip}
    BY <2>1, <2>3, RecordedTypes
  <2>5. Ip' = Ip
    BY <2>2 DEF Ip
  <2> QED BY <2>1, <2>2, <2>4, <2>5 DEF Shared, Owing
<1>10. CASE Services
  <2>1. pc = "services" /\ pc' = "flush" /\ UNCHANGED <<world, targets, loop, result>>
    BY <1>10 DEF Services
  <2>2. All' = All /\ Scanned' = Scanned /\ todo' = todo /\ profile' = profile
        /\ unreachable' = unreachable /\ remaining' = remaining
    BY <2>1 DEF world, targets, loop, result, All, Scanned
  <2>3. Owing' = Owing
    BY <2>1, <2>2 DEF Owing, Ip
  <2> QED BY <2>1, <2>2, <2>3 DEF Shared
<1>11. CASE Flush
  <2>1. pc = "flush" /\ pc' = "loop" /\ todo' = todo \ {Ip}
    BY <1>11 DEF Flush
  <2>2. All' = All /\ Scanned' = Scanned /\ profile' = profile
        /\ unreachable' = unreachable /\ remaining' = remaining
    BY <1>11 DEF Flush, world, targets, All, Scanned
  <2>3. Owing' = Owing
    BY <2>1 DEF Owing
  <2> QED BY <2>1, <2>2, <2>3 DEF Shared
<1>12. CASE LoopEnds
  <2>1. pc = "loop" /\ pc' = "end" /\ todo = {} /\ UNCHANGED <<targets, loop, result>>
    BY <1>12 DEF LoopEnds
  <2>2. Owing = {}
    BY <2>1 DEF Owing
  <2> QED BY <2>1, <2>2 DEF Shared, Covered, targets, loop, result, All, Scanned
<1>13. CASE WriteFinal
  <2>1. /\ pc = "end" /\ pc' = "finish" /\ stop' = stop /\ todo' = todo /\ partial \subseteq partial'
        /\ All' = All /\ Scanned' = Scanned /\ unreachable' = unreachable
        /\ remaining' = remaining /\ dropped' = dropped
    BY <1>13 DEF WriteFinal, targets, loop, All, Scanned
  <2> QED BY <2>1 DEF Covered
<1>14. CASE Finish
  BY <1>14 DEF Finish, loop, result
<1>15. CASE Raises
  BY <1>15 DEF Raises
<1>16. CASE StopRun
  <2>1. pc' = pc /\ stop' /\ UNCHANGED <<world, targets, loop, result>>
    BY <1>16 DEF StopRun
  <2>2. /\ All' = All /\ Scanned' = Scanned /\ todo' = todo /\ profile' = profile
        /\ unreachable' = unreachable /\ remaining' = remaining /\ dropped' = dropped
        /\ unresolved' = unresolved
    BY <2>1 DEF world, targets, loop, result, All, Scanned
  <2>3. Owing' = Owing
    BY <2>1, <2>2 DEF Owing, Ip
  <2> QED BY <2>1, <2>2, <2>3 DEF Blank, Shared, Covered
<1>17. CASE EndRun \/ Die
  <2>1. pc' = "idle" /\ Cleared
    BY <1>17 DEF EndRun, Die
  <2>2. Blank' /\ unresolved' = {}
    BY <2>1, NoScansType DEF Cleared, Blank, Scanned
  <2> QED BY <2>1, <2>2
<1> QED BY <1>1, <1>2, <1>3, <1>4, <1>5, <1>6, <1>7, <1>8, <1>9, <1>10, <1>11, <1>12, <1>13,
           <1>14, <1>15, <1>16, <1>17 DEF Next
\* Nothing happens: every list is where it was.
LEMMA PartedStays ==
  ASSUME Parted, UNCHANGED vars
  PROVE  Parted'
<1>1. /\ All' = All /\ Scanned' = Scanned /\ Ip' = Ip /\ pc' = pc /\ todo' = todo /\ stop' = stop
      /\ unreachable' = unreachable /\ remaining' = remaining /\ dropped' = dropped
      /\ unresolved' = unresolved /\ partial' = partial /\ profile' = profile
  BY DEF vars, All, Scanned, Ip
<1>2. Owing' = Owing
  BY <1>1 DEF Owing
<1> QED BY <1>1, <1>2 DEF Parted, Blank, Shared, Covered

LEMMA TypesStay == ASSUME TypeOK, UNCHANGED vars PROVE TypeOK'
BY DEF TypeOK, vars, All, Scanned

LEMMA InitParted == Init => Parted
<1>1. Init => Blank /\ pc = "idle" /\ unresolved = {}
  BY NoScansType DEF Init, Blank, Scanned
<1> QED BY <1>1 DEF Parted, Early, Looping

\* The types hold, and every address is in the list its place in the run
\* says: the inductive invariant of the port stages.
THEOREM TypeCorrect == Spec => [](TypeOK /\ Parted)
<1>1. Init => TypeOK /\ Parted
  BY InitTypes, InitParted
<1>2. TypeOK /\ Parted /\ [Next]_vars => (TypeOK /\ Parted)'
  <2> SUFFICES ASSUME TypeOK, Parted, [Next]_vars PROVE TypeOK' /\ Parted'
    OBVIOUS
  <2>1. CASE Next
    <3>1. TypeOK'
      <4>1. RunTypes' /\ ClearTypes'
        BY <2>1, RunStep, SweepStep
      <4> QED BY <4>1 DEF TypeOK, RunTypes, ClearTypes
    <3> QED BY <2>1, <3>1, PartedStep
  <2>2. CASE UNCHANGED vars
    BY <2>2, TypesStay, PartedStays
  <2> QED BY <2>1, <2>2
<1> QED BY <1>1, <1>2, PTL DEF Spec

\* The document of a finished sweep accounts for every address of its target
\* set, but for the one at which the canary paused, for any addresses, hosts,
\* profiles and durations, however the loop was ended.
THEOREM SweepAccounts == Spec => []Accounted
<1>1. Parted => Accounted
  BY DEF Parted, Covered, Accounted
<1> QED BY <1>1, TypeCorrect, PTL

\* A run that ends with addresses the loop never reached carries the mark that
\* keeps it from being classified as completed.
THEOREM PartialIsDisclosed == Spec => []PartialDisclosed
<1>1. Parted => PartialDisclosed
  BY DEF Parted, PartialDisclosed
<1> QED BY <1>1, TypeCorrect, PTL

(***************************************************************************)
(* The canary.  Its windows are as many as the pacer counted bad ones, and    *)
(* the last of them are the bad ones; each came CanaryEvery after the one       *)
(* before, and its ports are the ones the history has.                         *)
(***************************************************************************)
MinedFrom == UNION {d.sweep.open \cup d.check.open : d \in {history[j] : j \in DOMAIN history}}

\* No canary has run.
Unwatched == verdicts = <<>> /\ sentinels = {} /\ pacer.last_canary = Never /\ pacer.bad_windows = 0

StreakOf(windows, p, ports) ==
  LET n == Len(windows)
  IN /\ p.bad_windows <= n
     /\ \A k \in n - p.bad_windows + 1 .. n : windows[k].missed
     /\ \A k \in 2..n : windows[k].at - windows[k - 1].at >= CanaryEvery
     /\ n > 0 => ports # {} /\ windows[n].at = p.last_canary /\ p.last_canary # Never

Streak == StreakOf(verdicts, pacer, sentinels)

Watched ==
  /\ pc \in Early => Unwatched
  /\ pc \in Early \cup Looping => ~pacer.paused
  /\ Streak /\ (pacer.paused => pacer.bad_windows >= BadWindows)
  /\ sentinels \subseteq MinedFrom /\ now # Never

LEMMA UnwatchedStreak == ASSUME Unwatched PROVE Streak
BY DEF Unwatched, Streak, StreakOf

\* A window is added to the streak, or it ends it.
LEMMA StreakGrows ==
  ASSUME NEW seen \in Seq(Verdict), NEW ports, ports # {}, NEW p \in PaceState, NEW p2 \in PaceState,
         NEW t \in Nat, t # Never, NEW missed \in BOOLEAN,
         StreakOf(seen, p, ports), CanaryDue(p, t), p2.last_canary = t,
         p2.bad_windows = (IF missed THEN p.bad_windows + 1 ELSE 0)
  PROVE  StreakOf(Append(seen, [at |-> t, missed |-> missed]), p2, ports)
<1> DEFINE n == Len(seen)
           w == Append(seen, [at |-> t, missed |-> missed])
<1>1. /\ n \in Nat /\ p.bad_windows \in Nat /\ p2.bad_windows \in Nat
      /\ p.last_canary \in Nat /\ CanaryEvery \in Nat
  BY PaceConstants DEF PaceState
<1>2. [at |-> t, missed |-> missed] \in Verdict
  BY DEF Verdict
<1>3. /\ Len(w) = n + 1 /\ w[n + 1].at = t /\ w[n + 1].missed = missed
      /\ \A k \in 1..n : w[k] = seen[k]
  BY <1>2
<1>a. Len(w) = n + 1
  BY <1>3
<1>b. p.bad_windows <= n
  BY DEF StreakOf
<1>4. /\ \A k \in n - p.bad_windows + 1 .. n : seen[k].missed
      /\ \A k \in 2..n : seen[k].at - seen[k - 1].at >= CanaryEvery
      /\ n > 0 => seen[n].at = p.last_canary /\ t - p.last_canary >= CanaryEvery
  BY DEF StreakOf, CanaryDue
<1> HIDE DEF w, n
<1>5. p2.bad_windows <= n + 1
  BY <1>1, <1>b
<1>6. ASSUME NEW k \in n + 1 - p2.bad_windows + 1 .. n + 1 PROVE w[k].missed
  <2>1. missed /\ p2.bad_windows = p.bad_windows + 1
    BY <1>1
  <2>2. CASE k = n + 1
    BY <1>3, <2>1, <2>2
  <2>3. CASE k # n + 1
    <3>1. k \in n - p.bad_windows + 1 .. n /\ k \in 1..n
      BY <1>1, <1>b, <2>1, <2>3
    <3>2. w[k] = seen[k]
      BY <1>3, <3>1
    <3> QED BY <1>4, <3>1, <3>2, Zenon
  <2> QED BY <2>2, <2>3
<1>7. ASSUME NEW k \in 2..(n + 1) PROVE w[k].at - w[k - 1].at >= CanaryEvery
  <2>1. CASE k = n + 1
    <3>1. k - 1 = n /\ n > 0 /\ n \in 1..n
      BY <1>1, <2>1
    <3>2. w[k].at = t
      BY <1>3, <2>1
    <3>3. w[k - 1] = seen[n]
      BY <1>3, <3>1
    <3> QED BY <1>4, <3>1, <3>2, <3>3
  <2>2. CASE k # n + 1
    <3>1. k \in 2..n /\ k \in 1..n /\ k - 1 \in 1..n
      BY <1>1, <2>2
    <3> QED BY <1>3, <1>4, <3>1
  <2> QED BY <2>1, <2>2
<1>8. StreakOf(w, p2, ports)
  <2>1. p2.bad_windows <= Len(w)
    BY <1>3, <1>5
  <2>2. \A k \in Len(w) - p2.bad_windows + 1 .. Len(w) : w[k].missed
    <3>1. TAKE k \in Len(w) - p2.bad_windows + 1 .. Len(w)
    <3>2. k \in n + 1 - p2.bad_windows + 1 .. n + 1
      BY <1>1, <1>a, SMTT(30)
    <3> QED BY <1>6, <3>2, Zenon
  <2>3. \A k \in 2..Len(w) : w[k].at - w[k - 1].at >= CanaryEvery
    BY <1>3, <1>7
  <2>4. w[Len(w)].at = p2.last_canary /\ p2.last_canary # Never
    BY <1>3
  <2> QED BY <2>1, <2>2, <2>3, <2>4, Zenon DEF StreakOf
<1> QED BY <1>8 DEF w

\* A tick watches, or leaves the windows as they are.
LEMMA TickWatched ==
  ASSUME TypeOK, Parted, Watched, TickPacer
  PROVE  Watched'
<1>1. Cap \in Nat /\ pc = "loop"
  BY SweepConstants DEF TickPacer, TypeOK, Parted, Looping, Cap
<1>2. PICK missed \in BOOLEAN :
        /\ missed => CanaryDue(pacer, now) /\ sentinels # {}
        /\ pacer' = Tick(pacer, now, Cap, sentinels # {}, missed)
        /\ verdicts' = IF CanaryDue(pacer, now) /\ sentinels # {}
                         THEN Append(verdicts, [at |-> now, missed |-> missed]) ELSE verdicts
        /\ IF pacer'.paused THEN pc' = "end" ELSE pc' = "scan"
  BY <1>1 DEF TickPacer
<1> DEFINE r == Ramped(pacer, now, Cap)
           c == [r EXCEPT !.last_canary = now]
<1>3. now \in Nat /\ pacer \in PaceState /\ pacer.bad_windows \in Nat
  BY DEF TypeOK, PaceState
<1>4. /\ r \in PaceState /\ r.bad_windows = pacer.bad_windows
      /\ r.last_canary = pacer.last_canary /\ r.paused = pacer.paused
  BY <1>1, <1>3, RampedType
<1> HIDE DEF r
<1>5. /\ c \in PaceState /\ c.bad_windows = pacer.bad_windows
      /\ c.last_canary = now /\ c.paused = pacer.paused
  BY <1>3, <1>4 DEF PaceState
<1>6. CanaryDue(r, now) <=> CanaryDue(pacer, now)
  BY <1>4 DEF CanaryDue
<1>7. pacer' = IF ~CanaryDue(pacer, now) THEN r
               ELSE IF sentinels # {} THEN Canary(c, missed) ELSE c
  BY <1>2, <1>6 DEF Tick, r
<1>8. UNCHANGED <<now, sentinels, history>>
  BY DEF TickPacer, world, pace
<1>9. ~pacer.paused
  BY <1>1 DEF Watched, Looping
<1> HIDE DEF c
<1>10. Streak' /\ (pacer'.paused => pacer'.bad_windows >= BadWindows)
  <2>1. CASE ~CanaryDue(pacer, now)
    <3>1. verdicts' = verdicts /\ pacer' = r
      BY <1>2, <1>7, <2>1
    <3> QED BY <1>4, <1>8, <1>9, <3>1 DEF Watched, Streak, StreakOf
  <2>2. CASE CanaryDue(pacer, now) /\ sentinels = {}
    <3>1. verdicts' = verdicts /\ pacer' = c
      BY <1>2, <1>7, <2>2
    <3>2. Len(verdicts) = 0
      BY <2>2 DEF Watched, Streak, StreakOf, TypeOK
    <3>3. pacer'.bad_windows = pacer.bad_windows /\ ~pacer'.paused
      BY <1>5, <1>9, <3>1
    <3> QED BY <1>8, <3>1, <3>2, <3>3 DEF Watched, Streak, StreakOf
  <2>3. CASE CanaryDue(pacer, now) /\ sentinels # {}
    <3>1. /\ pacer'.last_canary = now
          /\ pacer'.bad_windows = (IF missed THEN pacer.bad_windows + 1 ELSE 0)
          /\ pacer'.paused = (pacer.paused \/ (missed /\ pacer.bad_windows + 1 >= BadWindows))
      BY <1>5, <1>7, <2>3, CanaryType
    <3>2. Streak'
      <4>1. verdicts \in Seq(Verdict) /\ now # Never /\ Streak /\ pacer' \in PaceState
        BY <1>5, <1>7, <2>3, CanaryType DEF TypeOK, Watched
      <4>2. StreakOf(Append(verdicts, [at |-> now, missed |-> missed]), pacer', sentinels)
        BY <1>3, <2>3, <3>1, <4>1, StreakGrows DEF Streak
      <4> QED BY <1>2, <1>8, <2>3, <4>2 DEF Streak
    <3> QED BY <1>9, <3>1, <3>2
  <2> QED BY <2>1, <2>2, <2>3
<1>11. pc' \notin Early /\ (pc' \in Looping => ~pacer'.paused)
  BY <1>2 DEF Early, Looping
<1> QED BY <1>8, <1>10, <1>11 DEF Watched, MinedFrom

LEMMA WatchedStep ==
  ASSUME TypeOK, Parted, Watched, Next
  PROVE  Watched'
<1> USE DEF Watched, Early, Looping
<1>1. CASE TickPacer
  BY <1>1, TickWatched
<1>2. CASE Pace
  <2>1. pc = "pace" /\ pc' = "loop" /\ UNCHANGED <<now, verdicts, history>>
    BY <1>2 DEF Pace, world
  <2>2. /\ pacer'.bad_windows = 0 /\ pacer'.paused = FALSE
        /\ verdicts' = <<>> /\ Len(verdicts') = 0
    BY <1>2, <2>1 DEF Pace, NewPacer, Unwatched
  <2>3. Streak'
    BY <2>2 DEF Streak, StreakOf
  <2>4. sentinels' \subseteq MinedFrom'
    <3>1. history \in Seq([check: Doc, sweep: Doc])
      BY DEF TypeOK
    <3>2. Mined(history) \subseteq MinedFrom
      BY <3>1, MinedType DEF MinedFrom
    <3>3. sentinels' = Mined(history) /\ MinedFrom' = MinedFrom
      BY <1>2, <2>1 DEF Pace, MinedFrom
    <3> QED BY <3>2, <3>3
  <2> QED BY <2>1, <2>2, <2>3, <2>4
<1>3. CASE EndRun \/ Die
  <2>1. pc' = "idle" /\ Cleared
    BY <1>3 DEF EndRun, Die
  <2>2. Unwatched' /\ ~pacer'.paused /\ sentinels' = {} /\ now' = 1
    BY <2>1 DEF Cleared, Unwatched, NewPacer
  <2>3. Unwatched' => Streak'
    BY DEF Unwatched, Streak, StreakOf
  <2> QED BY <2>1, <2>2, <2>3 DEF Never
<1>4. CASE \/ StartRun \/ ResumeRun \/ PortCheck \/ Stage \/ BuildTargets \/ Resolve \/ UnusableProfile
           \/ LoopStop \/ Defer \/ Scan \/ Reprobe \/ Services \/ Flush
           \/ LoopEnds \/ WriteFinal \/ Finish \/ Raises \/ StopRun
  <2>1. UNCHANGED <<pacer, verdicts, sentinels, history>>
    BY <1>4 DEF StartRun, ResumeRun, Begin, PortCheck, Stage, BuildTargets, Resolve, UnusableProfile,
         LoopStop, Defer, Scan, Reprobe, Services, Flush, LoopEnds, WriteFinal, Finish, Raises, StopRun,
         world, pace, loop
  <2>2. pc' \in Early => pc \in Early
    BY <1>4 DEF StartRun, ResumeRun, Begin, PortCheck, Stage, BuildTargets, Resolve, UnusableProfile,
         LoopStop, Defer, Scan, Reprobe, Services, Flush, LoopEnds, WriteFinal, Finish, Raises, StopRun
  <2>3. pc' \in Looping => pc \in Looping
    BY <1>4 DEF StartRun, ResumeRun, Begin, PortCheck, Stage, BuildTargets, Resolve, UnusableProfile,
         LoopStop, Defer, Scan, Reprobe, Services, Flush, LoopEnds, WriteFinal, Finish, Raises, StopRun
  <2>4. now' = now \/ \E d \in Durations : now' = now + d
    BY <1>4 DEF StartRun, ResumeRun, Begin, PortCheck, Stage, BuildTargets, Resolve, UnusableProfile,
         LoopStop, Defer, Scan, Reprobe, Services, Flush, LoopEnds, WriteFinal, Finish, Raises, StopRun
  <2>5. now' # Never
    BY <2>4, SweepConstants DEF TypeOK, Never
  <2> QED BY <2>1, <2>2, <2>3, <2>5 DEF Unwatched, Streak, StreakOf, MinedFrom
<1> QED BY <1>1, <1>2, <1>3, <1>4 DEF Next

\* The sweep pauses only after BadWindows canaries in a row missed a port that
\* a snapshot had found open, CanaryEvery apart, for any ports, pace and
\* durations and however many runs came before.
THEOREM PausesEarned == Spec => []PauseEarned
<1>1. Init => Watched
  <2> SUFFICES ASSUME Init PROVE Watched
    OBVIOUS
  <2>1. Unwatched /\ ~pacer.paused /\ sentinels = {} /\ now = 1
    BY DEF Init, Unwatched, NewPacer
  <2> QED BY <2>1, UnwatchedStreak DEF Watched, Never
<1>2. TypeOK /\ Parted /\ Watched /\ [Next]_vars => Watched'
  <2>1. Watched /\ UNCHANGED vars => Watched'
    BY DEF Watched, Unwatched, Streak, StreakOf, MinedFrom, vars
  <2> QED BY <2>1, WatchedStep
<1>3. TypeOK /\ Watched => PauseEarned
  <2> SUFFICES ASSUME TypeOK, Watched, pacer.paused PROVE PauseEarned
    BY DEF PauseEarned
  <2> DEFINE n == Len(verdicts)
  <2>1. n \in Nat /\ pacer.bad_windows \in Nat /\ pacer.bad_windows <= n /\ pacer.bad_windows >= BadWindows
    BY DEF TypeOK, PaceState, Watched, Streak, StreakOf
  <2>2. n >= BadWindows /\ n > 0
    BY <2>1, PaceConstants
  <2>3. \A k \in n - BadWindows + 1 .. n : verdicts[k].missed
    BY <2>1, PaceConstants DEF Watched, Streak, StreakOf
  <2> QED BY <2>2, <2>3 DEF PauseEarned, Watched, Streak, StreakOf, MinedFrom
<1> QED BY <1>1, <1>2, <1>3, TypeCorrect, PTL DEF Spec
=============================================================================
