---------------------------- MODULE RunEnd_proofs ----------------------------
(* What holds of the end of a run, for any facts, payloads, stamps, rules and   *)
(* retention, whichever step fails or dies and however a rebuild interleaves:   *)
(* the warehouse's tables are consistent and implement the archive, the diffs   *)
(* are a chain, and the alerts are the run's own.                               *)
EXTENDS RunEnd, TLAPS, WellFoundedInduction, SequenceTheorems, FiniteSetTheorems, Functions

(***************************************************************************)
(* The least and the greatest of a set of numbers.                          *)
(***************************************************************************)
LEMMA LeastExists ==
  ASSUME NEW S \in SUBSET Nat, S # {}
  PROVE  \E x \in S : \A y \in S : x <= y
<1> DEFINE R == OpToRel(<, Nat)
<1>1. IsWellFoundedOn(R, Nat)
  BY NatLessThanWellFounded
<1>2. \A x, y \in Nat : y < x => <<y, x>> \in R
  BY DEF OpToRel
<1> HIDE DEF R
<1>3. PICK x \in S : \A y \in S : ~ (<<y, x>> \in R)
  BY <1>1, WFMin
<1>4. ASSUME NEW y \in S PROVE x <= y
  <2>1. ~(y < x)
    BY <1>2, <1>3
  <2>2. x \in Nat /\ y \in Nat
    OBVIOUS
  <2> QED BY <2>1, <2>2
<1> QED BY <1>4

LEMMA GreatestExists ==
  ASSUME NEW n \in Nat, NEW S \in SUBSET (1..n), S # {}
  PROVE  \E x \in S : \A y \in S : y <= x
<1> DEFINE T == {m \in Nat : \E x \in S : m = n - x}
<1>1. \A x \in S : x \in Int /\ x >= 1 /\ x <= n
  OBVIOUS
<1>2. \A x \in S : n - x \in T
  BY <1>1
<1>3. T \in SUBSET Nat /\ T # {}
  BY <1>2
<1>4. PICK t \in T : \A u \in T : t <= u
  <2> HIDE DEF T
  <2> QED BY <1>3, LeastExists
<1>5. PICK x \in S : t = n - x
  OBVIOUS
<1>6. ASSUME NEW y \in S PROVE y <= x
  <2>1. t <= n - y
    BY <1>2, <1>4
  <2>2. n \in Int /\ x \in Int /\ y \in Int
    BY <1>1
  <2> HIDE DEF T
  <2> QED BY <1>5, <2>1, <2>2
<1> QED BY <1>6

LEMMA GreatestIn ==
  ASSUME NEW n \in Nat, NEW S \in SUBSET (1..n), S # {}
  PROVE  Greatest(S) \in S /\ \A y \in S : y <= Greatest(S)
<1>1. \E x \in S : \A y \in S : y <= x
  BY GreatestExists
<1> QED BY <1>1 DEF Greatest

LEMMA SmallestIn ==
  ASSUME NEW S \in SUBSET Nat, S # {}
  PROVE  Smallest(S) \in S /\ \A y \in S : Smallest(S) <= y
<1>1. \E x \in S : \A y \in S : x <= y
  BY LeastExists
<1> QED BY <1>1 DEF Smallest

(***************************************************************************)
(* The tables of a database: what every ingest finds and leaves.            *)
(***************************************************************************)
VersionRow == [key: Key, seq: Nat, hash: Hash, from: Nat, to: Nat]

Tables == {"runs", "facts", "versions", "rows"}

\* A stamp is recorded once.
Columns(d) ==
  /\ d = [t \in Tables |-> d[t]]
  /\ d.runs \in Seq(1..MaxStamp) /\ \A i, j \in DOMAIN d.runs : d.runs[i] = d.runs[j] => i = j
  /\ d.versions \subseteq VersionRow /\ DOMAIN d.facts \subseteq Key

\* The versions of a fact are numbered without a gap.
Numbered(d) ==
  \A k \in Key :
    /\ \E n \in Nat : {v.seq : v \in VersionsOf(d, k)} = 1..n
    /\ \A v, w \in VersionsOf(d, k) : v.seq = w.seq => v = w

\* A row is of a run that is recorded, and refers to a version there is.
Referred(d) ==
  \A p \in DOMAIN d.rows :
    \E i \in DOMAIN d.runs, k \in Key :
      p = <<i, k>> /\ \E v \in VersionsOf(d, k) : v.seq = d.rows[p]

\* A fact's span and hash are those of its rows, and one of its versions is open.
Identified(d) ==
  \A k \in Key :
    /\ k \notin DOMAIN d.facts => VersionsOf(d, k) = {}
    /\ k \in DOMAIN d.facts =>
         /\ RowsOf(d, k) # {}
         /\ d.facts[k] = [first |-> Smallest(RowsOf(d, k)), last |-> Greatest(RowsOf(d, k)),
                          hash |-> Version(d, k, d.rows[<<Greatest(RowsOf(d, k)), k>>]).hash]
         /\ \E v \in VersionsOf(d, k) : v.to = Open /\ \A w \in VersionsOf(d, k) : w.to = Open => w = v

Sound(d) == Columns(d) /\ Numbered(d) /\ Referred(d) /\ Identified(d)

LEMMA IdRange == ASSUME NEW d, Columns(d) PROVE DOMAIN d.runs = 1..Len(d.runs) /\ Len(d.runs) \in Nat
BY DEF Columns

LEMMA IsRow ==
  ASSUME NEW d, Referred(d), NEW k \in Key
  PROVE  \A i : i \in RowsOf(d, k) <=> <<i, k>> \in DOMAIN d.rows
<1>1. ASSUME NEW p \in DOMAIN d.rows, p[2] = k PROVE p = <<p[1], k>>
  <2>1. PICK i \in DOMAIN d.runs, x \in Key : p = <<i, x>>
    BY DEF Referred
  <2> QED BY <1>1, <2>1
<1>2. ASSUME NEW i, i \in RowsOf(d, k) PROVE <<i, k>> \in DOMAIN d.rows
  <2>1. PICK p \in DOMAIN d.rows : p[2] = k /\ i = p[1]
    BY <1>2 DEF RowsOf
  <2> QED BY <1>1, <2>1
<1>3. ASSUME NEW i, <<i, k>> \in DOMAIN d.rows PROVE i \in RowsOf(d, k)
  <2> DEFINE p == <<i, k>>
  <2>1. p \in {q \in DOMAIN d.rows : q[2] = k} /\ p[1] = i
    BY <1>3
  <2> HIDE DEF p
  <2> QED BY <2>1 DEF RowsOf
<1> QED BY <1>2, <1>3

LEMMA RowsIn ==
  ASSUME NEW d, Columns(d), Referred(d), NEW k \in Key
  PROVE  RowsOf(d, k) \in SUBSET (1..Len(d.runs))
<1>1. ASSUME NEW i \in RowsOf(d, k) PROVE i \in DOMAIN d.runs
  <2>1. <<i, k>> \in DOMAIN d.rows
    BY IsRow
  <2>2. PICK j \in DOMAIN d.runs, x \in Key : <<i, k>> = <<j, x>>
    BY <2>1 DEF Referred
  <2> QED BY <2>2
<1> QED BY <1>1, IdRange

LEMMA LastRow ==
  ASSUME NEW d, Columns(d), Referred(d), NEW k \in Key, RowsOf(d, k) # {}
  PROVE  /\ Greatest(RowsOf(d, k)) \in RowsOf(d, k) /\ Smallest(RowsOf(d, k)) \in RowsOf(d, k)
         /\ \A i \in RowsOf(d, k) : Smallest(RowsOf(d, k)) <= i /\ i <= Greatest(RowsOf(d, k))
<1>1. RowsOf(d, k) \in SUBSET (1..Len(d.runs)) /\ Len(d.runs) \in Nat
  BY RowsIn, IdRange
<1>2. RowsOf(d, k) \in SUBSET Nat
  BY <1>1
<1> QED BY <1>1, <1>2, GreatestIn, SmallestIn

\* The version a number names.
LEMMA VersionIs ==
  ASSUME NEW d, Numbered(d), NEW k \in Key, NEW v \in VersionsOf(d, k)
  PROVE  Version(d, k, v.seq) = v
BY DEF Numbered, Version

LEMMA RunIdIs ==
  ASSUME NEW d, Columns(d), NEW i \in DOMAIN d.runs
  PROVE  RunId(d, d.runs[i]) = i
BY DEF Columns, RunId

\* The next number of a version is one that is free.
LEMMA NextFree ==
  ASSUME NEW d, Numbered(d), NEW k \in Key
  PROVE  /\ NextSeq(d, k) \in Nat
         /\ {v.seq : v \in VersionsOf(d, k)} = 1..(NextSeq(d, k) - 1)
         /\ \A v \in VersionsOf(d, k) : v.seq # NextSeq(d, k)
<1>1. PICK n \in Nat : {v.seq : v \in VersionsOf(d, k)} = 1..n
  BY DEF Numbered
<1> DEFINE V == VersionsOf(d, k)
           f == [i \in 1..n |-> CHOOSE v \in V : v.seq = i]
<1>2. \A i \in 1..n : \E v \in V : v.seq = i
  BY <1>1
<1>3. \A i \in 1..n : f[i] \in V /\ f[i].seq = i
  BY <1>2
<1>4. \A v \in V : v.seq \in 1..n /\ f[v.seq] = v
  <2>1. ASSUME NEW v \in V PROVE v.seq \in 1..n /\ f[v.seq] = v
    <3>1. v.seq \in 1..n
      BY <1>1
    <3>2. f[v.seq] \in V /\ f[v.seq].seq = v.seq
      BY <1>3, <3>1
    <3> QED BY <3>1, <3>2 DEF Numbered
  <2> QED BY <2>1
<1>5. f \in Bijection(1..n, V)
  <2>1. f \in [1..n -> V]
    BY <1>3
  <2>2. \A i, j \in 1..n : f[i] = f[j] => i = j
    BY <1>3
  <2>3. \A v \in V : \E i \in 1..n : f[i] = v
    BY <1>4
  <2> HIDE DEF f, V
  <2> QED BY <2>1, <2>2, <2>3 DEF Bijection, Injection, Surjection, IsInjective
<1>6. Cardinality(V) = n
  BY <1>5, FS_CountingElements DEF ExistsBijection
<1>7. NextSeq(d, k) = n + 1
  BY <1>6 DEF NextSeq
<1> HIDE DEF f
<1> QED BY <1>1, <1>4, <1>7
(***************************************************************************)
(* An ingest that is accepted.                                              *)
(***************************************************************************)
After(d, s, m, e) ==
  /\ e = [t \in Tables |-> e[t]]
  /\ e.runs = IF Known(d, s) THEN d.runs ELSE Append(d.runs, s)
  /\ e.versions = WithVersions(d, IdFor(d, s), m)
  /\ e.rows = WithRows(d, IdFor(d, s), m)
  /\ e.facts = [k \in DOMAIN d.facts \cup Present(m) |->
                  [first |-> Smallest(RowsOf(e, k)), last |-> Greatest(RowsOf(e, k)),
                   hash |-> Version(e, k, e.rows[<<Greatest(RowsOf(e, k)), k>>]).hash]]

LEMMA IngestIs ==
  ASSUME NEW d, Columns(d), NEW s, NEW m, Accepts(d, s, m)
  PROVE  After(d, s, m, Ingested(d, s, m))
<1> DEFINE id == IdFor(d, s)
           new == [d EXCEPT !.runs = IF Known(d, s) THEN d.runs ELSE Append(d.runs, s),
                            !.versions = WithVersions(d, id, m),
                            !.rows = WithRows(d, id, m)]
           e == Ingested(d, s, m)
           Row(x, k) == [first |-> Smallest(RowsOf(x, k)), last |-> Greatest(RowsOf(x, k)),
                         hash |-> Version(x, k, x.rows[<<Greatest(RowsOf(x, k)), k>>]).hash]
           F == [k \in DOMAIN d.facts \cup Present(m) |-> Row(new, k)]
<1>1. /\ new = [t \in Tables |-> new[t]] /\ new.facts = d.facts
      /\ new.runs = (IF Known(d, s) THEN d.runs ELSE Append(d.runs, s))
      /\ new.versions = WithVersions(d, id, m) /\ new.rows = WithRows(d, id, m)
  <2> DEFINE f == IF Known(d, s) THEN d.runs ELSE Append(d.runs, s)
             g == WithVersions(d, id, m)
             h == WithRows(d, id, m)
  <2>1. new = [d EXCEPT !.runs = f, !.versions = g, !.rows = h]
    OBVIOUS
  <2>2. d = [t \in Tables |-> d[t]]
    BY DEF Columns
  <2> HIDE DEF f, g, h, new
  <2>3. new = [t \in Tables |-> new[t]] /\ new.facts = d.facts /\ new.runs = f /\ new.versions = g /\ new.rows = h
    BY <2>1, <2>2 DEF Tables
  <2> QED BY <2>3 DEF f, g, h
<1>2. e = [new EXCEPT !.facts = F]
  <2>1. e = Reconciled(new, m, id)
    BY DEF Ingested
  <2>2. DOMAIN new.facts = DOMAIN d.facts
    BY <1>1
  <2> QED BY <2>1, <2>2 DEF Reconciled
<1> HIDE DEF F, new, e
<1>3. /\ e = [t \in Tables |-> e[t]]
      /\ e.runs = new.runs /\ e.versions = new.versions /\ e.rows = new.rows /\ e.facts = F
  BY <1>1, <1>2 DEF Tables
<1>4. \A k : Row(new, k) = Row(e, k)
  BY <1>3 DEF RowsOf, Version, VersionsOf
<1>5. e.facts = [k \in DOMAIN d.facts \cup Present(m) |-> Row(e, k)]
  BY <1>3, <1>4 DEF F
<1> QED BY <1>1, <1>3, <1>5 DEF After, e

\* The run has the next number, or the one it had.
LEMMA IdIs ==
  ASSUME NEW d, Columns(d), NEW s \in 1..MaxStamp, NEW m, NEW e, After(d, s, m, e)
  PROVE  /\ IdFor(d, s) \in DOMAIN e.runs /\ e.runs[IdFor(d, s)] = s
         /\ IdFor(d, s) # Open
         /\ \A i \in DOMAIN d.runs : i \in DOMAIN e.runs /\ e.runs[i] = d.runs[i]
         /\ DOMAIN e.runs = DOMAIN d.runs \cup {IdFor(d, s)}
         /\ e.runs \in Seq(1..MaxStamp) /\ \A i, j \in DOMAIN e.runs : e.runs[i] = e.runs[j] => i = j
<1>0. d.runs \in Seq(1..MaxStamp) /\ DOMAIN d.runs = 1..Len(d.runs) /\ Len(d.runs) \in Nat
  BY IdRange DEF Columns
<1>1. CASE Known(d, s)
  <2>1. PICK i \in DOMAIN d.runs : d.runs[i] = s
    BY <1>1 DEF Known, StampsOf
  <2>2. IdFor(d, s) = i
    BY <1>1, <2>1, RunIdIs DEF IdFor
  <2>3. e.runs = d.runs
    BY <1>1 DEF After
  <2>4. i # Open
    BY <1>0, <2>1 DEF Open
  <2> QED BY <1>0, <2>1, <2>2, <2>3, <2>4 DEF Columns
<1>2. CASE ~Known(d, s)
  <2>1. IdFor(d, s) = Len(d.runs) + 1 /\ e.runs = Append(d.runs, s)
    BY <1>2 DEF IdFor, After
  <2>2. /\ e.runs \in Seq(1..MaxStamp) /\ DOMAIN e.runs = 1..(Len(d.runs) + 1)
        /\ e.runs[Len(d.runs) + 1] = s /\ \A i \in DOMAIN d.runs : e.runs[i] = d.runs[i]
    BY <1>0, <2>1
  <2>3. \A i \in DOMAIN d.runs : d.runs[i] # s
    BY <1>2 DEF Known, StampsOf
  <2>4. \A i, j \in DOMAIN e.runs : e.runs[i] = e.runs[j] => i = j
    <3>1. ASSUME NEW i \in DOMAIN e.runs, NEW j \in DOMAIN e.runs, e.runs[i] = e.runs[j] PROVE i = j
      <4>1. \A x \in DOMAIN e.runs : x \in DOMAIN d.runs \/ x = Len(d.runs) + 1
        BY <1>0, <2>2
      <4> QED BY <2>2, <2>3, <3>1, <4>1 DEF Columns
    <3> QED BY <3>1
  <2>5. DOMAIN e.runs = DOMAIN d.runs \cup {IdFor(d, s)} /\ IdFor(d, s) # Open
    BY <1>0, <2>1, <2>2 DEF Open
  <2> QED BY <2>1, <2>2, <2>4, <2>5
<1> QED BY <1>1, <1>2

\* What an ingest does to a version.
Closed(v, id) == IF v.to = Open THEN [v EXCEPT !.to = id] ELSE v
NewVersion(d, k, id, m) == [key |-> k, seq |-> NextSeq(d, k), hash |-> m[k], from |-> id, to |-> Open]

LEMMA ClosedIs ==
  ASSUME NEW v \in VersionRow, NEW id \in Nat
  PROVE  /\ Closed(v, id) \in VersionRow /\ Closed(v, id).key = v.key /\ Closed(v, id).seq = v.seq
         /\ Closed(v, id).hash = v.hash /\ (id # Open => Closed(v, id).to # Open)
BY DEF Closed, VersionRow

LEMMA NewIs ==
  ASSUME NEW d, Numbered(d), NEW k \in Key, NEW id \in Nat, NEW m \in Maps, k \in Present(m)
  PROVE  /\ NewVersion(d, k, id, m) \in VersionRow /\ NewVersion(d, k, id, m).key = k
         /\ NewVersion(d, k, id, m).seq = NextSeq(d, k) /\ NewVersion(d, k, id, m).hash = m[k]
         /\ NewVersion(d, k, id, m).to = Open
<1>1. m[k] \in Hash /\ NextSeq(d, k) \in Nat
  BY NextFree DEF Maps, Present
<1> QED BY <1>1 DEF NewVersion, VersionRow, Open

LEMMA VersionsAfter ==
  ASSUME NEW d, Columns(d), Numbered(d), NEW id \in Nat, NEW m \in Maps, NEW k \in Key,
         NEW V, V = {v \in WithVersions(d, id, m) : v.key = k}
  PROVE  /\ k \notin Changed(d, m) => V = VersionsOf(d, k)
         /\ k \in Changed(d, m) =>
              V = {Closed(v, id) : v \in VersionsOf(d, k)} \cup {NewVersion(d, k, id, m)}
         /\ WithVersions(d, id, m) \subseteq VersionRow
<1> DEFINE Kept(v) == IF v.key \in Changed(d, m) /\ v.to = Open THEN [v EXCEPT !.to = id] ELSE v
<1>1. WithVersions(d, id, m) = {Kept(v) : v \in d.versions} \cup {NewVersion(d, x, id, m) : x \in Changed(d, m)}
  BY DEF WithVersions, NewVersion
<1>2. \A v \in d.versions : v \in VersionRow
  BY DEF Columns
<1>3. \A v \in d.versions : /\ v.key \in Changed(d, m) => Kept(v) = Closed(v, id)
                            /\ v.key \notin Changed(d, m) => Kept(v) = v
  BY DEF Closed
<1>4. \A v \in d.versions : Kept(v).key = v.key /\ Kept(v) \in VersionRow
  BY <1>2, <1>3, ClosedIs
<1>5. \A x \in Changed(d, m) : x \in Key /\ NewVersion(d, x, id, m).key = x /\ NewVersion(d, x, id, m) \in VersionRow
  BY NewIs DEF Changed, Present
<1> HIDE DEF Kept
<1>6. CASE k \notin Changed(d, m)
  <2>1. \A v \in V : v \in VersionsOf(d, k)
    <3>1. ASSUME NEW v \in V PROVE v \in VersionsOf(d, k)
      <4>1. v.key = k /\ v \in WithVersions(d, id, m)
        OBVIOUS
      <4>2. PICK w \in d.versions : v = Kept(w)
        BY <1>1, <1>5, <1>6, <4>1
      <4> QED BY <1>3, <1>4, <1>6, <4>1, <4>2 DEF VersionsOf
    <3> QED BY <3>1
  <2>2. \A v \in VersionsOf(d, k) : v \in V
    BY <1>1, <1>3, <1>6 DEF VersionsOf
  <2> QED BY <1>1, <1>4, <1>5, <1>6, <2>1, <2>2
<1>7. CASE k \in Changed(d, m)
  <2>1. \A v \in V : v \in {Closed(w, id) : w \in VersionsOf(d, k)} \cup {NewVersion(d, k, id, m)}
    <3>1. ASSUME NEW v \in V, v # NewVersion(d, k, id, m)
          PROVE  v \in {Closed(w, id) : w \in VersionsOf(d, k)}
      <4>1. v.key = k /\ v \in WithVersions(d, id, m)
        OBVIOUS
      <4>2. PICK w \in d.versions : v = Kept(w)
        BY <1>1, <1>5, <3>1, <4>1
      <4>3. w \in VersionsOf(d, k) /\ v = Closed(w, id)
        BY <1>3, <1>4, <1>7, <4>1, <4>2 DEF VersionsOf
      <4> QED BY <4>3
    <3> QED BY <3>1
  <2>2. \A v \in VersionsOf(d, k) : Closed(v, id) \in V
    BY <1>1, <1>3, <1>4, <1>7 DEF VersionsOf
  <2>3. NewVersion(d, k, id, m) \in V
    BY <1>1, <1>5, <1>7
  <2> QED BY <1>1, <1>4, <1>5, <1>7, <2>1, <2>2, <2>3
<1> QED BY <1>6, <1>7
\* The rows of a fact: the run's own, if it found the fact, and the others'.
LEMMA RowsAfter ==
  ASSUME NEW d, Columns(d), Referred(d), NEW s, NEW m, NEW e, After(d, s, m, e), NEW k \in Key
  PROVE  /\ <<IdFor(d, s), k>> \in DOMAIN e.rows <=> k \in Present(m)
         /\ \A i : i # IdFor(d, s) => (<<i, k>> \in DOMAIN e.rows <=> <<i, k>> \in DOMAIN d.rows)
         /\ \A i : i # IdFor(d, s) /\ <<i, k>> \in DOMAIN e.rows => e.rows[<<i, k>>] = d.rows[<<i, k>>]
         /\ k \in Present(m) =>
              e.rows[<<IdFor(d, s), k>>] = IF k \in Changed(d, m) THEN NextSeq(d, k) ELSE Newest(d, k, m[k])
<1> DEFINE id == IdFor(d, s)
           P == {q \in DOMAIN d.rows : q[1] # id} \cup ({id} \X Present(m))
           Val(p) == IF p[1] # id THEN d.rows[p]
                     ELSE IF p[2] \in Changed(d, m) THEN NextSeq(d, p[2]) ELSE Newest(d, p[2], m[p[2]])
<1>1. e.rows = [p \in P |-> Val(p)]
  BY DEF After, WithRows
<1>2. \A i : <<i, k>> \in P <=> IF i = id THEN k \in Present(m) ELSE <<i, k>> \in DOMAIN d.rows
  <2>1. ASSUME NEW i PROVE <<i, k>> \in P <=> IF i = id THEN k \in Present(m) ELSE <<i, k>> \in DOMAIN d.rows
    <3>1. <<i, k>>[1] = i /\ <<i, k>>[2] = k
      OBVIOUS
    <3>2. <<i, k>> \in {id} \X Present(m) <=> i = id /\ k \in Present(m)
      OBVIOUS
    <3>3. <<i, k>> \in {q \in DOMAIN d.rows : q[1] # id} <=> <<i, k>> \in DOMAIN d.rows /\ i # id
      BY <3>1
    <3> HIDE DEF id
    <3> QED BY <3>2, <3>3
  <2> QED BY <2>1
<1>3. \A i : /\ i # id => Val(<<i, k>>) = d.rows[<<i, k>>]
             /\ Val(<<id, k>>) = IF k \in Changed(d, m) THEN NextSeq(d, k) ELSE Newest(d, k, m[k])
  OBVIOUS
<1> HIDE DEF P, Val
<1>4. \A i : <<i, k>> \in DOMAIN e.rows <=> <<i, k>> \in P
  BY <1>1
<1>5. \A i : <<i, k>> \in P => e.rows[<<i, k>>] = Val(<<i, k>>)
  BY <1>1
<1>6. \A i : i # id /\ <<i, k>> \in DOMAIN e.rows => e.rows[<<i, k>>] = d.rows[<<i, k>>]
  BY <1>3, <1>4, <1>5
<1>7. k \in Present(m) => e.rows[<<id, k>>] = IF k \in Changed(d, m) THEN NextSeq(d, k) ELSE Newest(d, k, m[k])
  BY <1>2, <1>3, <1>5
<1>8. /\ <<id, k>> \in DOMAIN e.rows <=> k \in Present(m)
      /\ \A i : i # id => (<<i, k>> \in DOMAIN e.rows <=> <<i, k>> \in DOMAIN d.rows)
  BY <1>2, <1>4
<1> QED BY <1>6, <1>7, <1>8

\* No version is taken away.
LEMMA VersionsKept ==
  ASSUME NEW d, Columns(d), Numbered(d), NEW s \in 1..MaxStamp, NEW m \in Maps, NEW e, After(d, s, m, e),
         NEW k \in Key
  PROVE  \A v \in VersionsOf(d, k) : \E w \in VersionsOf(e, k) : w.seq = v.seq /\ w.hash = v.hash
<1> DEFINE id == IdFor(d, s)
<1>1. id \in Nat
  BY IdIs
<1>2. VersionsOf(e, k) = {v \in WithVersions(d, id, m) : v.key = k}
  BY DEF After, VersionsOf
<1>3. \A v \in VersionsOf(d, k) : v \in VersionRow
  BY DEF VersionsOf, Columns
<1> HIDE DEF id
<1>4. CASE k \notin Changed(d, m)
  BY <1>1, <1>2, <1>4, VersionsAfter
<1>5. CASE k \in Changed(d, m)
  <2>1. ASSUME NEW v \in VersionsOf(d, k)
        PROVE  Closed(v, id) \in VersionsOf(e, k) /\ Closed(v, id).seq = v.seq /\ Closed(v, id).hash = v.hash
    BY <1>1, <1>2, <1>3, <1>5, VersionsAfter, ClosedIs
  <2> QED BY <2>1
<1> QED BY <1>4, <1>5

\* A row that stays means what it meant.
LEMMA RowKept ==
  ASSUME NEW d, Columns(d), Numbered(d), Referred(d), NEW s \in 1..MaxStamp, NEW m \in Maps,
         NEW e, After(d, s, m, e), Numbered(e), NEW k \in Key,
         NEW i, i # IdFor(d, s), <<i, k>> \in DOMAIN d.rows
  PROVE  /\ <<i, k>> \in DOMAIN e.rows /\ \E w \in VersionsOf(e, k) : w.seq = e.rows[<<i, k>>]
         /\ Version(e, k, e.rows[<<i, k>>]).hash = Version(d, k, d.rows[<<i, k>>]).hash
<1>1. PICK v \in VersionsOf(d, k) : v.seq = d.rows[<<i, k>>]
  <2>1. PICK j \in DOMAIN d.runs, x \in Key : <<i, k>> = <<j, x>> /\ \E v \in VersionsOf(d, x) : v.seq = d.rows[<<i, k>>]
    BY DEF Referred
  <2> QED BY <2>1
<1>2. PICK w \in VersionsOf(e, k) : w.seq = v.seq /\ w.hash = v.hash
  BY VersionsKept
<1>3. Version(d, k, v.seq) = v /\ Version(e, k, w.seq) = w
  BY VersionIs
<1>4. <<i, k>> \in DOMAIN e.rows /\ e.rows[<<i, k>>] = d.rows[<<i, k>>]
  <2> DEFINE id == IdFor(d, s)
  <2>1. /\ \A j : j # id => (<<j, k>> \in DOMAIN e.rows <=> <<j, k>> \in DOMAIN d.rows)
        /\ \A j : j # id /\ <<j, k>> \in DOMAIN e.rows => e.rows[<<j, k>>] = d.rows[<<j, k>>]
    BY RowsAfter, Zenon
  <2>2. i # id
    OBVIOUS
  <2> HIDE DEF id
  <2> QED BY <2>1, <2>2
<1> QED BY <1>1, <1>2, <1>3, <1>4

LEMMA NumberedAfter ==
  ASSUME NEW d, Columns(d), Numbered(d), NEW s \in 1..MaxStamp, NEW m \in Maps, NEW e, After(d, s, m, e)
  PROVE  Numbered(e)
<1> DEFINE id == IdFor(d, s)
<1>1. id \in Nat /\ id # Open
  BY IdIs
<1>2. SUFFICES ASSUME NEW k \in Key
               PROVE  /\ \E n \in Nat : {v.seq : v \in VersionsOf(e, k)} = 1..n
                      /\ \A v, w \in VersionsOf(e, k) : v.seq = w.seq => v = w
  BY DEF Numbered
<1>3. VersionsOf(e, k) = {v \in WithVersions(d, id, m) : v.key = k}
  BY DEF After, VersionsOf
<1>4. \A v \in VersionsOf(d, k) : v \in VersionRow
  BY DEF VersionsOf, Columns
<1> HIDE DEF id
<1>5. CASE k \notin Changed(d, m)
  <2>1. VersionsOf(e, k) = VersionsOf(d, k)
    BY <1>1, <1>3, <1>5, VersionsAfter
  <2> QED BY <2>1 DEF Numbered
<1>6. CASE k \in Changed(d, m)
  <2> DEFINE V == VersionsOf(d, k)
             x == NewVersion(d, k, id, m)
  <2>1. VersionsOf(e, k) = {Closed(v, id) : v \in V} \cup {x}
    BY <1>1, <1>3, <1>6, VersionsAfter
  <2>2. x.seq = NextSeq(d, k)
    BY <1>1, <1>6, NewIs DEF Changed, Present
  <2>3. \A v \in V : Closed(v, id).seq = v.seq
    BY <1>1, <1>4, ClosedIs
  <2>4. /\ NextSeq(d, k) \in Nat
        /\ {v.seq : v \in V} = 1..(NextSeq(d, k) - 1)
        /\ \A v \in V : v.seq # NextSeq(d, k)
    BY NextFree
  <2> DEFINE n == NextSeq(d, k)
  <2> HIDE DEF V, x, n
  <2>5. {v.seq : v \in VersionsOf(e, k)} = {v.seq : v \in V} \cup {n}
    BY <2>1, <2>2, <2>3 DEF n
  <2>6. n \in Nat /\ n > 0
    <3>1. n = Cardinality(V) + 1
      BY DEF n, NextSeq, V
    <3>2. IsFiniteSet(V)
      <4>1. PICK j \in Nat : {v.seq : v \in V} = 1..j
        BY DEF Numbered, V
      <4>2. \A v, w \in V : v.seq = w.seq => v = w
        BY DEF Numbered, V
      <4> DEFINE f == [v \in V |-> v.seq]
      <4>3. f \in Injection(V, 1..j)
        <5>1. f \in [V -> 1..j]
          BY <4>1
        <5>2. \A v, w \in V : f[v] = f[w] => v = w
          BY <4>2
        <5> HIDE DEF f
        <5> QED BY <5>1, <5>2 DEF Injection, IsInjective
      <4>4. IsFiniteSet(1..j)
        BY FS_Interval
      <4> HIDE DEF f
      <4> QED BY <4>3, <4>4, FS_Injection
    <3>3. Cardinality(V) \in Nat
      BY <3>2, FS_CardinalityType
    <3> QED BY <3>1, <3>3
  <2>7. 1..n = 1..(n - 1) \cup {n}
    BY <2>6
  <2>8. {v.seq : v \in VersionsOf(e, k)} = 1..n
    BY <2>4, <2>5, <2>7 DEF n
  <2>9. \A v, w \in VersionsOf(e, k) : v.seq = w.seq => v = w
    <3>1. \A v, w \in V : v.seq = w.seq => v = w
      BY DEF Numbered, V
    <3>2. \A v \in V : v.seq # x.seq
      BY <2>2, <2>4
    <3> QED BY <2>1, <2>3, <3>1, <3>2
  <2> QED BY <2>6, <2>8, <2>9
<1> QED BY <1>5, <1>6
\* What the run found of a fact is what its row refers to.
LEMMA CurrentRow ==
  ASSUME NEW d, Sound(d), NEW s \in 1..MaxStamp, NEW m \in Maps, NEW e, After(d, s, m, e), Numbered(e),
         NEW k \in Present(m)
  PROVE  /\ \E w \in VersionsOf(e, k) : w.seq = e.rows[<<IdFor(d, s), k>>]
         /\ Version(e, k, e.rows[<<IdFor(d, s), k>>]).hash = m[k]
<1> DEFINE id == IdFor(d, s)
<1>0. id \in Nat /\ k \in Key /\ Columns(d) /\ Numbered(d) /\ Referred(d) /\ Identified(d)
  BY IdIs DEF Sound, Present
<1>1. VersionsOf(e, k) = {v \in WithVersions(d, id, m) : v.key = k}
  BY DEF After, VersionsOf
<1>2. e.rows[<<id, k>>] = IF k \in Changed(d, m) THEN NextSeq(d, k) ELSE Newest(d, k, m[k])
  <2> HIDE DEF id
  <2>1. k \in Key /\ Columns(d) /\ Referred(d)
    BY <1>0
  <2> QED BY <2>1, RowsAfter DEF id
<1> HIDE DEF id
<1>3. \E w \in VersionsOf(e, k) : w.seq = e.rows[<<id, k>>] /\ w.hash = m[k]
  <2>1. CASE k \in Changed(d, m)
    <3>0. VersionsOf(e, k) = {Closed(v, id) : v \in VersionsOf(d, k)} \cup {NewVersion(d, k, id, m)}
      BY <1>0, <1>1, <2>1, VersionsAfter
    <3>1. NewVersion(d, k, id, m) \in VersionsOf(e, k)
      BY <3>0
    <3>2. NewVersion(d, k, id, m).seq = NextSeq(d, k) /\ NewVersion(d, k, id, m).hash = m[k]
      BY <1>0, NewIs
    <3> QED BY <1>2, <2>1, <3>1, <3>2
  <2>2. CASE k \notin Changed(d, m)
    <3> DEFINE G == Greatest(RowsOf(d, k))
               V == VersionsOf(d, k)
               S == {v.seq : v \in {w \in V : w.hash = m[k]}}
    <3>1. k \in DOMAIN d.facts /\ d.facts[k].hash = m[k]
      BY <2>2 DEF Changed
    <3>2. RowsOf(d, k) # {} /\ d.facts[k].hash = Version(d, k, d.rows[<<G, k>>]).hash
      <4>1. /\ RowsOf(d, k) # {}
            /\ d.facts[k] = [first |-> Smallest(RowsOf(d, k)), last |-> G,
                             hash |-> Version(d, k, d.rows[<<G, k>>]).hash]
        BY <1>0, <3>1, Zenon DEF Identified
      <4> HIDE DEF G
      <4> QED BY <4>1
    <3>3. <<G, k>> \in DOMAIN d.rows
      BY <1>0, <3>2, LastRow, IsRow
    <3> HIDE DEF G
    <3>4. PICK v \in V : v.seq = d.rows[<<G, k>>]
      <4>1. PICK j \in DOMAIN d.runs, x \in Key :
              <<G, k>> = <<j, x>> /\ \E v \in VersionsOf(d, x) : v.seq = d.rows[<<G, k>>]
        BY <1>0, <3>3 DEF Referred
      <4> QED BY <4>1
    <3>5. v.hash = m[k]
      BY <1>0, <3>1, <3>2, <3>4, VersionIs
    <3>6. PICK n \in Nat : {w.seq : w \in V} = 1..n
      BY <1>0 DEF Numbered
    <3>7. S \in SUBSET (1..n) /\ S # {}
      <4>1. S \in SUBSET {w.seq : w \in V}
        OBVIOUS
      <4>2. v.seq \in S
        BY <3>5
      <4> QED BY <3>6, <4>1, <4>2
    <3>8. Newest(d, k, m[k]) \in S
      <4>1. Newest(d, k, m[k]) = Greatest(S)
        BY DEF Newest
      <4> HIDE DEF S
      <4> QED BY <3>7, <4>1, GreatestIn
    <3>9. PICK u \in V : u.hash = m[k] /\ u.seq = Newest(d, k, m[k])
      BY <3>8
    <3> QED BY <1>0, <1>2, <2>2, <3>9, VersionsKept
  <2> QED BY <2>1, <2>2
<1> QED BY <1>0, <1>3, VersionIs DEF id

LEMMA ReferredAfter ==
  ASSUME NEW d, Sound(d), NEW s \in 1..MaxStamp, NEW m \in Maps, NEW e, After(d, s, m, e), Numbered(e)
  PROVE  Referred(e)
<1> DEFINE id == IdFor(d, s)
<1>0. Columns(d) /\ Numbered(d) /\ Referred(d)
  BY DEF Sound
<1>1. SUFFICES ASSUME NEW p \in DOMAIN e.rows
               PROVE  \E i \in DOMAIN e.runs, k \in Key :
                        p = <<i, k>> /\ \E v \in VersionsOf(e, k) : v.seq = e.rows[p]
  BY DEF Referred
<1>2. p \in {q \in DOMAIN d.rows : q[1] # id} \cup ({id} \X Present(m))
  BY DEF After, WithRows
<1>3. CASE p \in DOMAIN d.rows /\ p[1] # id
  <2>1. PICK i \in DOMAIN d.runs, k \in Key : p = <<i, k>>
    BY <1>0, <1>3 DEF Referred
  <2>2. i # id /\ <<i, k>> \in DOMAIN d.rows
    BY <1>3, <2>1
  <2>3. \E w \in VersionsOf(e, k) : w.seq = e.rows[<<i, k>>]
    BY <1>0, <2>2, RowKept
  <2>4. i \in DOMAIN e.runs
    BY <1>0, IdIs
  <2> QED BY <2>1, <2>3, <2>4
<1>4. CASE p \in {id} \X Present(m)
  <2>1. PICK k \in Present(m) : p = <<id, k>>
    BY <1>4
  <2>2. \E w \in VersionsOf(e, k) : w.seq = e.rows[<<id, k>>]
    BY CurrentRow
  <2>3. id \in DOMAIN e.runs /\ k \in Key
    BY <1>0, IdIs DEF Present
  <2> QED BY <2>1, <2>2, <2>3
<1> QED BY <1>2, <1>3, <1>4

LEMMA IdentifiedAfter ==
  ASSUME NEW d, Sound(d), NEW s \in 1..MaxStamp, NEW m \in Maps, NoneGone(d, s, m),
         NEW e, After(d, s, m, e), Referred(e)
  PROVE  Identified(e)
<1> DEFINE id == IdFor(d, s)
<1>0. Columns(d) /\ Numbered(d) /\ Referred(d) /\ Identified(d) /\ id \in Nat /\ id # Open
  BY IdIs DEF Sound
<1>1. SUFFICES ASSUME NEW k \in Key
               PROVE  /\ k \notin DOMAIN e.facts => VersionsOf(e, k) = {}
                      /\ k \in DOMAIN e.facts =>
                           /\ RowsOf(e, k) # {}
                           /\ e.facts[k] = [first |-> Smallest(RowsOf(e, k)), last |-> Greatest(RowsOf(e, k)),
                                hash |-> Version(e, k, e.rows[<<Greatest(RowsOf(e, k)), k>>]).hash]
                           /\ \E v \in VersionsOf(e, k) :
                                v.to = Open /\ \A w \in VersionsOf(e, k) : w.to = Open => w = v
  BY DEF Identified
<1>2. VersionsOf(e, k) = {v \in WithVersions(d, id, m) : v.key = k}
  BY DEF After, VersionsOf
<1>3. /\ k \in DOMAIN e.facts <=> k \in DOMAIN d.facts \/ k \in Present(m)
      /\ k \in Changed(d, m) => k \in Present(m)
      /\ k \in Present(m) /\ k \notin Changed(d, m) => k \in DOMAIN d.facts
  BY DEF After, Changed
<1>4. k \in DOMAIN e.facts =>
        e.facts[k] = [first |-> Smallest(RowsOf(e, k)), last |-> Greatest(RowsOf(e, k)),
                      hash |-> Version(e, k, e.rows[<<Greatest(RowsOf(e, k)), k>>]).hash]
  BY DEF After
<1>5. k \in DOMAIN e.facts => RowsOf(e, k) # {}
  <2>1. /\ <<IdFor(d, s), k>> \in DOMAIN e.rows <=> k \in Present(m)
        /\ \A i : i # IdFor(d, s) => (<<i, k>> \in DOMAIN e.rows <=> <<i, k>> \in DOMAIN d.rows)
    BY <1>0, RowsAfter, Zenon
  <2>2. ASSUME k \in DOMAIN d.facts, k \notin Present(m) PROVE RowsOf(e, k) # {}
    <3>1. PICK i \in RowsOf(d, k) : i # id
      BY <2>2 DEF NoneGone
    <3>2. <<i, k>> \in DOMAIN d.rows
      BY <1>0, <3>1, IsRow
    <3>3. <<i, k>> \in DOMAIN e.rows
      BY <2>1, <3>1, <3>2
    <3> QED BY <3>3, IsRow
  <2>3. ASSUME k \in Present(m) PROVE RowsOf(e, k) # {}
    BY <2>1, <2>3, IsRow
  <2> QED BY <1>3, <2>2, <2>3
<1> HIDE DEF id
<1>6. CASE k \notin Changed(d, m)
  <2>1. VersionsOf(e, k) = VersionsOf(d, k)
    BY <1>0, <1>2, <1>6, VersionsAfter
  <2> QED BY <1>0, <1>3, <1>4, <1>5, <1>6, <2>1 DEF Identified
<1>7. CASE k \in Changed(d, m)
  <2> DEFINE x == NewVersion(d, k, id, m)
  <2>1. VersionsOf(e, k) = {Closed(v, id) : v \in VersionsOf(d, k)} \cup {x}
    BY <1>0, <1>2, <1>7, VersionsAfter
  <2>2. x.to = Open
    BY <1>0, <1>3, <1>7, NewIs
  <2>3. \A v \in VersionsOf(d, k) : Closed(v, id).to # Open
    <3>1. \A v \in VersionsOf(d, k) : v \in VersionRow
      BY <1>0 DEF VersionsOf, Columns
    <3> QED BY <1>0, <3>1, ClosedIs
  <2> HIDE DEF x
  <2>4. x \in VersionsOf(e, k) /\ \A w \in VersionsOf(e, k) : w.to = Open => w = x
    BY <2>1, <2>3
  <2> QED BY <1>3, <1>4, <1>5, <1>7, <2>2, <2>4
<1> QED BY <1>6, <1>7

\* The tables stay consistent.
LEMMA SoundAfter ==
  ASSUME NEW d, Sound(d), NEW s \in 1..MaxStamp, NEW m \in Maps
  PROVE  Sound(Ingested(d, s, m))
<1>1. CASE ~Accepts(d, s, m)
  BY <1>1 DEF Ingested
<1>2. CASE Accepts(d, s, m)
  <2> DEFINE e == Ingested(d, s, m)
  <2>1. After(d, s, m, e)
    BY <1>2, IngestIs DEF Sound
  <2> HIDE DEF e
  <2>2. Numbered(e) /\ NoneGone(d, s, m) /\ Columns(d) /\ Numbered(d)
    BY <1>2, <2>1, NumberedAfter DEF Sound, Accepts
  <2>3. Referred(e)
    BY <2>1, <2>2, ReferredAfter
  <2>4. Identified(e)
    BY <2>1, <2>2, <2>3, IdentifiedAfter
  <2>5. Columns(e)
    <3>1. e = [t \in Tables |-> e[t]]
      BY <2>1 DEF After
    <3>2. e.runs \in Seq(1..MaxStamp) /\ \A i, j \in DOMAIN e.runs : e.runs[i] = e.runs[j] => i = j
      BY <2>1, <2>2, IdIs
    <3>3. e.versions \subseteq VersionRow
      <4> DEFINE id == IdFor(d, s)
      <4>1. id \in Nat
        BY <2>1, <2>2, IdIs
      <4>2. e.versions = WithVersions(d, id, m)
        BY <2>1 DEF After
      <4> HIDE DEF id
      <4>3. CASE Key = {}
        BY <2>2, <4>2, <4>3 DEF WithVersions, Changed, Present, Columns, VersionRow
      <4>4. ASSUME NEW k \in Key PROVE e.versions \subseteq VersionRow
        <5> DEFINE V == {v \in WithVersions(d, id, m) : v.key = k}
        <5>1. WithVersions(d, id, m) \subseteq VersionRow
          <6>1. V = {v \in WithVersions(d, id, m) : v.key = k}
            OBVIOUS
          <6> HIDE DEF V
          <6> QED BY <2>2, <4>1, <6>1, VersionsAfter
        <5> QED BY <4>2, <5>1
      <4> QED BY <4>3, <4>4
    <3>4. DOMAIN e.facts \subseteq Key
      <4>1. DOMAIN e.facts = DOMAIN d.facts \cup Present(m)
        BY <2>1 DEF After
      <4> QED BY <2>2, <4>1 DEF Columns, Present
    <3> QED BY <3>1, <3>2, <3>3, <3>4 DEF Columns
  <2> QED BY <2>2, <2>3, <2>4, <2>5 DEF Sound, e
<1> QED BY <1>1, <1>2

LEMMA EmptySound == Sound(EmptyDb)
<1>1. Columns(EmptyDb)
  BY DEF Columns, EmptyDb, Tables
<1>2. \A k \in Key : VersionsOf(EmptyDb, k) = {}
  BY DEF VersionsOf, EmptyDb
<1>3. Numbered(EmptyDb)
  <2>1. 1..0 = {}
    OBVIOUS
  <2>2. \A k \in Key : {v.seq : v \in VersionsOf(EmptyDb, k)} = 1..0
    BY <1>2, <2>1
  <2> QED BY <1>2, <2>2 DEF Numbered
<1>4. Referred(EmptyDb) /\ Identified(EmptyDb)
  BY <1>2 DEF Referred, Identified, EmptyDb
<1> QED BY <1>1, <1>3, <1>4 DEF Sound
(***************************************************************************)
(* What is read back from the tables.                                       *)
(***************************************************************************)
\* The archive a database stands for.
ArchiveOf(d) == [t \in StampsOf(d) |-> MapsForRun(d, t)]

LEMMA StampsAfter ==
  ASSUME NEW d, Columns(d), NEW s \in 1..MaxStamp, NEW m, NEW e, After(d, s, m, e)
  PROVE  /\ StampsOf(e) = StampsOf(d) \cup {s}
         /\ RunId(e, s) = IdFor(d, s)
         /\ \A t \in StampsOf(d) : t # s => RunId(e, t) = RunId(d, t) /\ RunId(d, t) # IdFor(d, s)
<1> DEFINE id == IdFor(d, s)
<1>1. /\ id \in DOMAIN e.runs /\ e.runs[id] = s
      /\ \A i \in DOMAIN d.runs : i \in DOMAIN e.runs /\ e.runs[i] = d.runs[i]
      /\ DOMAIN e.runs = DOMAIN d.runs \cup {id}
      /\ \A i, j \in DOMAIN e.runs : e.runs[i] = e.runs[j] => i = j
  BY IdIs
<1> HIDE DEF id
<1>2. \A i \in DOMAIN e.runs : RunId(e, e.runs[i]) = i
  BY <1>1 DEF RunId
<1>3. \A i \in DOMAIN d.runs : RunId(d, d.runs[i]) = i
  BY RunIdIs
<1>4. StampsOf(e) = StampsOf(d) \cup {s}
  BY <1>1 DEF StampsOf
<1>5. ASSUME NEW t \in StampsOf(d), t # s PROVE RunId(e, t) = RunId(d, t) /\ RunId(d, t) # id
  <2>1. PICK i \in DOMAIN d.runs : d.runs[i] = t
    BY DEF StampsOf
  <2> QED BY <1>1, <1>2, <1>3, <1>5, <2>1
<1> QED BY <1>1, <1>2, <1>4, <1>5 DEF id

\* The run reads its facts, and every other run reads what it read before.
LEMMA MapsAfter ==
  ASSUME NEW d, Sound(d), NEW s \in 1..MaxStamp, NEW m \in Maps, Accepts(d, s, m),
         NEW e, e = Ingested(d, s, m)
  PROVE  /\ StampsOf(e) = StampsOf(d) \cup {s} /\ MapsForRun(e, s) = m
         /\ \A t \in StampsOf(d) : t # s => MapsForRun(e, t) = MapsForRun(d, t)
<1> DEFINE id == IdFor(d, s)
<1>1. After(d, s, m, e) /\ Sound(e) /\ Columns(d) /\ Numbered(d) /\ Referred(d) /\ Numbered(e)
  BY IngestIs, SoundAfter DEF Sound
<1>2. StampsOf(e) = StampsOf(d) \cup {s} /\ RunId(e, s) = id
  BY <1>1, StampsAfter
<1>3. \A k \in Key :
        /\ <<IdFor(d, s), k>> \in DOMAIN e.rows <=> k \in Present(m)
        /\ \A i : i # IdFor(d, s) => (<<i, k>> \in DOMAIN e.rows <=> <<i, k>> \in DOMAIN d.rows)
  <2> TAKE k \in Key
  <2> QED BY <1>1, RowsAfter, Zenon
<1>4. MapsForRun(e, s) = m
  <2>1. ASSUME NEW k \in Key
        PROVE  (IF s \in StampsOf(e) /\ <<RunId(e, s), k>> \in DOMAIN e.rows
                 THEN Version(e, k, e.rows[<<RunId(e, s), k>>]).hash ELSE None) = m[k]
    <3>1. CASE k \in Present(m)
      <4>1. Version(e, k, e.rows[<<id, k>>]).hash = m[k] /\ <<id, k>> \in DOMAIN e.rows
        BY <1>1, <1>3, <3>1, CurrentRow
      <4> HIDE DEF id
      <4> QED BY <1>2, <4>1
    <3>2. CASE k \notin Present(m)
      <4>1. ~ (<<id, k>> \in DOMAIN e.rows) /\ m[k] = None
        BY <1>3, <3>2 DEF Present
      <4> HIDE DEF id
      <4> QED BY <1>2, <4>1
    <3> QED BY <3>1, <3>2
  <2>2. m = [k \in Key |-> m[k]]
    BY DEF Maps
  <2> QED BY <2>1, <2>2 DEF MapsForRun
<1>5. ASSUME NEW t \in StampsOf(d), t # s PROVE MapsForRun(e, t) = MapsForRun(d, t)
  <2>1. RunId(e, t) = RunId(d, t) /\ RunId(d, t) # IdFor(d, s) /\ t \in StampsOf(e)
    BY <1>1, <1>2, <1>5, StampsAfter
  <2> DEFINE i == RunId(d, t)
             Read(x, k) == IF t \in StampsOf(x) /\ <<i, k>> \in DOMAIN x.rows
                             THEN Version(x, k, x.rows[<<i, k>>]).hash ELSE None
  <2>2. ASSUME NEW k \in Key PROVE Read(e, k) = Read(d, k)
    <3>1. i # IdFor(d, s)
      BY <2>1
    <3> HIDE DEF i
    <3>2. <<i, k>> \in DOMAIN e.rows <=> <<i, k>> \in DOMAIN d.rows
      BY <1>3, <3>1
    <3>3. <<i, k>> \in DOMAIN d.rows =>
            Version(e, k, e.rows[<<i, k>>]).hash = Version(d, k, d.rows[<<i, k>>]).hash
      BY <1>1, <3>1, RowKept
    <3> QED BY <2>1, <3>2, <3>3
  <2>3. MapsForRun(e, t) = [k \in Key |-> Read(e, k)] /\ MapsForRun(d, t) = [k \in Key |-> Read(d, k)]
    BY <2>1 DEF MapsForRun
  <2> HIDE DEF Read
  <2> QED BY <2>2, <2>3
<1> QED BY <1>2, <1>4, <1>5

\* An ingest records the run in the archive, or changes nothing.
LEMMA IngestRecords ==
  ASSUME NEW d, Sound(d), NEW s \in 1..MaxStamp, NEW m \in Maps,
         NEW e, e = Ingested(d, s, m), NEW a, a = ArchiveOf(d), NEW b, b = ArchiveOf(e)
  PROVE  \/ b = a
         \/ /\ s \in DOMAIN a => \A t \in DOMAIN a : t <= s
            /\ b = [t \in DOMAIN a \cup {s} |-> IF t = s THEN m ELSE a[t]]
<1>1. CASE ~Accepts(d, s, m)
  BY <1>1 DEF Ingested
<1>2. CASE Accepts(d, s, m)
  <2>1. /\ StampsOf(e) = StampsOf(d) \cup {s} /\ MapsForRun(e, s) = m
        /\ \A t \in StampsOf(d) : t # s => MapsForRun(e, t) = MapsForRun(d, t)
    BY <1>2, MapsAfter
  <2>2. s \in StampsOf(d) => \A t \in StampsOf(d) : t <= s
    BY <1>2 DEF Accepts, InOrder, Known
  <2>3. /\ DOMAIN a = StampsOf(d) /\ \A t \in StampsOf(d) : a[t] = MapsForRun(d, t)
        /\ b = [t \in StampsOf(e) |-> MapsForRun(e, t)]
    BY DEF ArchiveOf
  <2>4. \A t \in StampsOf(e) : MapsForRun(e, t) = IF t = s THEN m ELSE a[t]
    BY <2>1, <2>3
  <2> QED BY <2>1, <2>2, <2>3, <2>4
<1> QED BY <1>1, <1>2

LEMMA EmptyArchive == ArchiveOf(EmptyDb) = [t \in {} |-> {}] /\ StampsOf(EmptyDb) = {}
<1>1. StampsOf(EmptyDb) = {}
  BY DEF StampsOf, EmptyDb
<1> QED BY <1>1 DEF ArchiveOf

\* Consistent tables tell the identity of every fact.
LEMMA SoundIsIdentity == ASSUME NEW d, Sound(d) PROVE Identity(d)
<1>0. Columns(d) /\ Numbered(d) /\ Referred(d) /\ Identified(d)
  BY DEF Sound
<1>1. ASSUME NEW k \in DOMAIN d.facts
      PROVE  /\ Cardinality({v \in VersionsOf(d, k) : v.to = Open}) = 1
             /\ d.facts[k].first \in RowsOf(d, k) /\ d.facts[k].last \in RowsOf(d, k)
             /\ \A i \in RowsOf(d, k) : d.facts[k].first <= i /\ i <= d.facts[k].last
             /\ MapsForRun(d, d.runs[d.facts[k].last])[k] = d.facts[k].hash
  <2>0. k \in Key
    BY <1>0 DEF Columns
  <2> DEFINE R == RowsOf(d, k)
             h == Version(d, k, d.rows[<<Greatest(R), k>>]).hash
  <2>1. /\ R # {} /\ d.facts[k] = [first |-> Smallest(R), last |-> Greatest(R), hash |-> h]
        /\ \E v \in VersionsOf(d, k) : v.to = Open /\ \A w \in VersionsOf(d, k) : w.to = Open => w = v
    BY <1>0, <2>0, Zenon DEF Identified
  <2>2. Cardinality({v \in VersionsOf(d, k) : v.to = Open}) = 1
    <3>1. PICK v \in VersionsOf(d, k) : v.to = Open /\ \A w \in VersionsOf(d, k) : w.to = Open => w = v
      BY <2>1
    <3>2. {w \in VersionsOf(d, k) : w.to = Open} = {v}
      BY <3>1
    <3> QED BY <3>2, FS_Singleton
  <2>3. /\ Greatest(R) \in R /\ Smallest(R) \in R
        /\ \A i \in R : Smallest(R) <= i /\ i <= Greatest(R)
    BY <1>0, <2>0, <2>1, LastRow
  <2> DEFINE g == Greatest(R)
             l == Smallest(R)
  <2>4. <<g, k>> \in DOMAIN d.rows /\ g \in DOMAIN d.runs
    <3>1. <<g, k>> \in DOMAIN d.rows
      BY <1>0, <2>0, <2>3, IsRow
    <3> HIDE DEF g
    <3>2. PICK j \in DOMAIN d.runs, x \in Key : <<g, k>> = <<j, x>>
      BY <1>0, <3>1 DEF Referred
    <3> QED BY <3>1, <3>2
  <2>5. MapsForRun(d, d.runs[g])[k] = h
    <3> DEFINE t == d.runs[g]
    <3>1. RunId(d, t) = g /\ t \in StampsOf(d)
      BY <1>0, <2>4, RunIdIs DEF StampsOf
    <3>2. h = Version(d, k, d.rows[<<g, k>>]).hash
      OBVIOUS
    <3> HIDE DEF t, h, g
    <3>3. MapsForRun(d, t)[k] = Version(d, k, d.rows[<<g, k>>]).hash
      BY <2>0, <2>4, <3>1 DEF MapsForRun
    <3> QED BY <3>2, <3>3 DEF t
  <2>6. d.facts[k] = [first |-> l, last |-> g, hash |-> h]
    BY <2>1
  <2>7. g \in R /\ l \in R /\ \A i \in R : l <= i /\ i <= g
    BY <2>3
  <2> HIDE DEF h, g, l
  <2>8. d.facts[k].first = l /\ d.facts[k].last = g /\ d.facts[k].hash = h
    BY <2>6
  <2> HIDE DEF R
  <2> QED BY <2>2, <2>5, <2>7, <2>8 DEF R
<1> QED BY <1>1 DEF Identity
(***************************************************************************)
(* The run's end: the types of its state.                                   *)
(***************************************************************************)
\* The warehouse is consistent, a run that ends has a stamp, and a rebuild
\* replays snapshots there were.
TInv ==
  /\ TypeOK /\ Sound(db) /\ rebuild.left \subseteq 1..clock
  /\ pc \notin {"idle", "scan"} => stamp # None0

LEMMA Bounds == MaxStamp \in Nat \ {0} /\ MaxRuns \in Nat \ {0} /\ KeepRuns \in Nat \ {0}
BY RunEndAssumption

LEMMA ClockIs == ASSUME TInv PROVE clock \in Nat /\ clock <= MaxStamp /\ clock \in 0..MaxStamp
BY Bounds DEF TInv, TypeOK, Stamps

LEMMA EmptyIsMap == EmptyMaps \in Maps
BY DEF EmptyMaps, Maps

LEMMA ExtractIs == ASSUME TInv, NEW s PROVE Extract(s) \in Maps
BY EmptyIsMap DEF TInv, TypeOK, Extract

LEMMA SeqIs ==
  ASSUME NEW S, NEW q \in Seq(S)
  PROVE  DOMAIN q = 1..Len(q) /\ Len(q) \in Nat /\ \A i \in DOMAIN q : q[i] \in S
BY LenProperties, ElementOfSeq

LEMMA AppendIs ==
  ASSUME NEW S, NEW q \in Seq(S), NEW x \in S
  PROVE  /\ Append(q, x) \in Seq(S) /\ Len(Append(q, x)) = Len(q) + 1
         /\ DOMAIN Append(q, x) = 1..(Len(q) + 1)
         /\ \A i \in 1..Len(q) : Append(q, x)[i] = q[i]
         /\ Append(q, x)[Len(q) + 1] = x
OBVIOUS

LEMMA PreviousIs ==
  ASSUME TInv, NEW s
  PROVE  /\ Previous(s) \in 0..clock
         /\ Previous(s) = None0 \/ \E i \in DOMAIN runsJson : Previous(s) = runsJson[i]
<1>1. /\ DOMAIN runsJson = 1..Len(runsJson) /\ Len(runsJson) \in Nat
      /\ \A i \in DOMAIN runsJson : runsJson[i] \in 1..clock
  <2>1. runsJson \in Seq(1..clock)
    BY DEF TInv, TypeOK
  <2> QED BY <2>1, SeqIs
<1> DEFINE B == {i \in DOMAIN runsJson : runsJson[i] # s}
<1>2. Previous(s) = IF B = {} THEN None0 ELSE runsJson[Greatest(B)]
  BY DEF Previous
<1>3. B \in SUBSET (1..Len(runsJson)) /\ \A i \in B : i \in DOMAIN runsJson
  BY <1>1
<1> HIDE DEF B
<1>4. B # {} => Greatest(B) \in B
  BY <1>1, <1>3, GreatestIn
<1>5. B # {} => Greatest(B) \in DOMAIN runsJson
  BY <1>3, <1>4
<1>6. CASE B = {}
  BY <1>2, <1>6, ClockIs DEF None0
<1>7. CASE B # {}
  <2>1. Previous(s) = runsJson[Greatest(B)]
    BY <1>2, <1>7
  <2> QED BY <1>1, <1>5, <1>7, <2>1, ClockIs
<1> QED BY <1>6, <1>7

LEMMA NextSnapshot ==
  ASSUME TInv, rebuild.left # {}
  PROVE  Smallest(rebuild.left) \in rebuild.left /\ Smallest(rebuild.left) \in 1..clock
<1>1. rebuild.left \in SUBSET (1..clock)
  BY DEF TInv
<1>2. rebuild.left \in SUBSET Nat
  BY <1>1, ClockIs
<1> QED BY <1>1, <1>2, SmallestIn

\* The clock is not set back.
LEMMA ClockMoves == ASSUME TInv, [Next]_vars PROVE clock' = clock \/ (clock' = clock + 1 /\ clock < MaxStamp)
BY DEF vars, Next, StartRun, Discover, IngestLive, LoseStamp, End, Snapshot, AppendRun, WriteDiff, HistoryFails,
       IngestRunEnd, Notify, Housekeep, Die, RebuildAsked, RebuildStart, RebuildStep, RebuildEnd, engine

LEMMA Wider ==
  ASSUME TInv, [Next]_vars
  PROVE  clock' \in 0..MaxStamp /\ 0..clock \subseteq 0..clock' /\ 1..clock \subseteq 1..clock'
BY ClockMoves, ClockIs, Bounds

\* The database changes by an ingest, of a stamp that was handed out, or is thrown away.
LEMMA DbMoves ==
  ASSUME TInv, [Next]_vars
  PROVE  \/ db' = db
         \/ db' = EmptyDb
         \/ \E s \in 1..clock', m \in Maps : db' = Ingested(db, s, m)
<1>0. clock \in Nat /\ clock' \in Nat /\ 1..clock \subseteq 1..clock' /\ clock <= clock'
  BY ClockIs, Wider, ClockMoves, Bounds
<1>1. CASE IngestLive
  <2>1. liveStamp' \in 1..clock'
    BY <1>0, <1>1 DEF IngestLive, TInv, TypeOK, None0
  <2>2. tree \in Maps
    BY DEF TInv, TypeOK
  <2> QED BY <1>1, <2>1, <2>2 DEF IngestLive
<1>2. CASE IngestRunEnd
  <2>1. stamp \in 1..clock
    BY <1>0, <1>2 DEF IngestRunEnd, TInv, TypeOK, None0
  <2>2. stamp \in 1..clock'
    BY <1>0, <2>1
  <2> QED BY <1>2, <2>2, ExtractIs DEF IngestRunEnd
<1>3. CASE RebuildStep
  <2>1. Smallest(rebuild.left) \in 1..clock'
    BY <1>0, <1>3, NextSnapshot DEF RebuildStep
  <2> QED BY <1>3, <2>1, ExtractIs DEF RebuildStep
<1>4. CASE RebuildStart
  BY <1>4 DEF RebuildStart
<1>5. ASSUME [Next]_vars, ~IngestLive, ~IngestRunEnd, ~RebuildStep, ~RebuildStart PROVE db' = db
  BY <1>5 DEF vars, Next, StartRun, Discover, LoseStamp, End, Snapshot, AppendRun, WriteDiff, HistoryFails,
       Notify, Housekeep, Die, RebuildAsked, RebuildEnd
<1> QED BY <1>1, <1>2, <1>3, <1>4, <1>5

LEMMA DbStays ==
  ASSUME TInv, [Next]_vars
  PROVE  Sound(db)' /\ StampsOf(db)' \subseteq 1..clock' /\ DOMAIN db'.facts \subseteq Key
<1>0. 1..clock' \subseteq 1..MaxStamp /\ 1..clock \subseteq 1..clock'
  BY Wider, Bounds
<1>1. Sound(db) /\ StampsOf(db) \subseteq 1..clock
  BY DEF TInv, TypeOK
<1>2. Sound(db') /\ StampsOf(db') \subseteq 1..clock'
  <2>1. CASE db' = db
    BY <1>0, <1>1, <2>1
  <2>2. CASE db' = EmptyDb
    BY <2>2, EmptySound, EmptyArchive
  <2>3. CASE \E s \in 1..clock', m \in Maps : db' = Ingested(db, s, m)
    <3>1. PICK s \in 1..clock', m \in Maps : db' = Ingested(db, s, m)
      BY <2>3
    <3>2. s \in 1..MaxStamp
      BY <1>0
    <3>3. Sound(db')
      BY <1>1, <3>1, <3>2, SoundAfter
    <3>4. StampsOf(db') \subseteq StampsOf(db) \cup {s}
      <4>1. CASE Accepts(db, s, m)
        BY <1>1, <3>1, <3>2, <4>1, MapsAfter
      <4>2. CASE ~Accepts(db, s, m)
        BY <3>1, <4>2 DEF Ingested
      <4> QED BY <4>1, <4>2
    <3> QED BY <1>0, <1>1, <3>3, <3>4
  <2> QED BY <2>1, <2>2, <2>3, DbMoves
<1>3. DOMAIN db'.facts \subseteq Key
  BY <1>2 DEF Sound, Columns
<1>4. StampsOf(db)' = StampsOf(db')
  BY DEF StampsOf
<1>5. Sound(db)' <=> Sound(db')
  OBVIOUS
<1> QED BY <1>2, <1>3, <1>4, <1>5
\* The state, but for the tables.
RunParts ==
  /\ pc \in {"idle", "scan", "snapshot", "append", "diff", "ingest", "notify", "housekeep"}
  /\ runs \in 0..MaxRuns /\ clock \in Stamps
  /\ liveStamp \in 0..clock /\ stamp \in 0..clock
  /\ stopped \in BOOLEAN /\ gap \in BOOLEAN /\ wrote \in BOOLEAN
  /\ pc \notin {"idle", "scan"} => stamp # None0
FileParts ==
  /\ tree \in Maps
  /\ DOMAIN hist \subseteq 1..clock /\ \A s \in DOMAIN hist : hist[s] \in Maps
  /\ runsJson \in Seq(1..clock)
  /\ diff \in [from: Stamps, to: Stamps, older: Maps, newer: Maps]
  /\ rebuild \in [phase: {"no", "asked", "replay"}, left: SUBSET Stamps] /\ rebuild.left \subseteq 1..clock
DbParts == Sound(db) /\ StampsOf(db) \subseteq 1..clock /\ DOMAIN db.facts \subseteq Key

LEMMA Parts == TInv <=> RunParts /\ FileParts /\ DbParts
BY DEF TInv, TypeOK, RunParts, FileParts, DbParts

LEMMA RunTyped == ASSUME TInv, [Next]_vars PROVE RunParts'
<1> DEFINE Steps == {"idle", "scan", "snapshot", "append", "diff", "ingest", "notify", "housekeep"}
<1>0. RunParts /\ MaxRuns \in Nat /\ clock \in Nat /\ clock <= MaxStamp
  BY Parts, Bounds, ClockIs
<1>1. clock' \in Stamps /\ 0..clock \subseteq 0..clock'
  BY Wider DEF Stamps
<1>2. pc' \in Steps /\ stopped' \in BOOLEAN /\ wrote' \in BOOLEAN
  BY <1>0 DEF RunParts, vars, Next, StartRun, Discover, IngestLive, LoseStamp, End, Snapshot, AppendRun, WriteDiff, HistoryFails,
       IngestRunEnd, Notify, Housekeep, Die, Over, RebuildAsked, RebuildStart, RebuildStep, RebuildEnd, engine, files
<1>3. gap' \in BOOLEAN
  <2>1. gap' = gap \/ gap' = FALSE \/ gap' = (gap \/ pc = "diff")
    BY DEF vars, Next, StartRun, Discover, IngestLive, LoseStamp, End, Snapshot, AppendRun, WriteDiff, HistoryFails,
       IngestRunEnd, Notify, Housekeep, Die, RebuildAsked, RebuildStart, RebuildStep, RebuildEnd, files
  <2> QED BY <1>0, <2>1 DEF RunParts
<1>4. runs' \in 0..MaxRuns
  <2>1. runs' = runs \/ (runs < MaxRuns /\ runs' = runs + 1)
    BY DEF vars, Next, StartRun, Discover, IngestLive, LoseStamp, End, Snapshot, AppendRun, WriteDiff, HistoryFails,
       IngestRunEnd, Notify, Housekeep, Die, RebuildAsked, RebuildStart, RebuildStep, RebuildEnd, engine
  <2> QED BY <1>0, <2>1 DEF RunParts
<1>5. liveStamp' \in 0..clock'
  <2>1. liveStamp' = liveStamp \/ liveStamp' = 0 \/ (clock' = clock + 1 /\ liveStamp' = clock')
    BY DEF None0, vars, Next, StartRun, Discover, IngestLive, LoseStamp, End, Snapshot, AppendRun, WriteDiff, HistoryFails,
       IngestRunEnd, Notify, Housekeep, Die, Over, RebuildAsked, RebuildStart, RebuildStep, RebuildEnd, engine
  <2> QED BY <1>0, <1>1, <2>1 DEF RunParts
<1>6. stamp' \in 0..clock' /\ (pc' \notin {"idle", "scan"} => stamp' # None0)
  <2>1. \/ stamp' = stamp /\ (pc' = pc \/ pc' = "scan" \/ pc \notin {"idle", "scan"})
        \/ stamp' = None0 /\ pc' = "idle"
        \/ stamp' = liveStamp /\ liveStamp # None0
        \/ clock' = clock + 1 /\ stamp' = clock'
    BY DEF vars, Next, StartRun, Discover, IngestLive, LoseStamp, End, Snapshot, AppendRun, WriteDiff, HistoryFails,
       IngestRunEnd, Notify, Housekeep, Die, Over, RebuildAsked, RebuildStart, RebuildStep, RebuildEnd, engine
  <2> QED BY <1>0, <1>1, <2>1 DEF RunParts, None0
<1> QED BY <1>1, <1>2, <1>3, <1>4, <1>5, <1>6 DEF RunParts

LEMMA FilesTyped == ASSUME TInv, [Next]_vars PROVE FileParts'
<1>0. RunParts /\ FileParts /\ clock \in Nat /\ clock <= MaxStamp
  BY Parts, Bounds, ClockIs
<1>1. 0..clock \subseteq 0..clock' /\ 1..clock \subseteq 1..clock' /\ 0..clock \subseteq Stamps
  BY Wider, ClockIs, Bounds DEF Stamps
<1>2. tree' \in Maps
  <2>1. tree' = tree \/ tree' \in Maps
    BY DEF vars, Next, StartRun, Discover, IngestLive, LoseStamp, End, Snapshot, AppendRun, WriteDiff, HistoryFails,
       IngestRunEnd, Notify, Housekeep, Die, RebuildAsked, RebuildStart, RebuildStep, RebuildEnd
  <2> QED BY <1>0, <2>1 DEF FileParts
<1>3. DOMAIN hist' \subseteq 1..clock' /\ \A s \in DOMAIN hist' : hist'[s] \in Maps
  <2>1. CASE hist' = hist
    BY <1>0, <1>1, <2>1 DEF FileParts
  <2>2. CASE Snapshot
    <3>1. stamp \in 1..clock /\ clock' = clock
      BY <1>0, <2>2 DEF RunParts, Snapshot, None0
    <3>2. hist' = [s \in DOMAIN hist \cup {stamp} |-> IF s = stamp THEN tree ELSE hist[s]]
      BY <2>2 DEF Snapshot
    <3> QED BY <1>0, <3>1, <3>2 DEF FileParts
  <2>3. CASE Housekeep
    <3>1. PICK n \in 0..KeepRuns : hist' = [s \in Pruned(n) |-> hist[s]]
      BY <2>3 DEF Housekeep
    <3>2. Pruned(n) \subseteq DOMAIN hist
      BY DEF Pruned
    <3> QED BY <1>0, <1>1, <3>1, <3>2 DEF FileParts
  <2>4. ~Snapshot /\ ~Housekeep => hist' = hist
    BY DEF vars, Next, StartRun, Discover, IngestLive, LoseStamp, End, AppendRun, WriteDiff, HistoryFails,
       IngestRunEnd, Notify, Die, RebuildAsked, RebuildStart, RebuildStep, RebuildEnd, files
  <2> QED BY <2>1, <2>2, <2>3, <2>4
<1>4. runsJson' \in Seq(1..clock')
  <2>1. runsJson' = runsJson \/ (runsJson' = Append(runsJson, stamp) /\ pc = "append")
    BY DEF vars, Next, StartRun, Discover, IngestLive, LoseStamp, End, Snapshot, AppendRun, WriteDiff, HistoryFails,
       IngestRunEnd, Notify, Housekeep, Die, RebuildAsked, RebuildStart, RebuildStep, RebuildEnd, files
  <2>2. runsJson \in Seq(1..clock')
    BY <1>0, <1>1, SeqMonotonic DEF FileParts
  <2>3. pc = "append" => stamp \in 1..clock'
    BY <1>0, <1>1 DEF RunParts, None0
  <2> DEFINE S == 1..clock'
  <2>4. pc = "append" => Append(runsJson, stamp) \in Seq(S)
    <3>1. runsJson \in Seq(S) /\ (pc = "append" => stamp \in S)
      BY <2>2, <2>3
    <3> HIDE DEF S
    <3> QED BY <3>1, AppendIs
  <2> HIDE DEF S
  <2>5. runsJson \in Seq(S)
    BY <2>2 DEF S
  <2>6. runsJson' \in Seq(S)
    BY <2>1, <2>4, <2>5
  <2> QED BY <2>6 DEF S
<1>5. diff' \in [from: Stamps, to: Stamps, older: Maps, newer: Maps]
  <2>1. \/ diff' = diff
        \/ diff' = [from |-> Previous(stamp), to |-> stamp, older |-> Extract(Previous(stamp)), newer |-> Extract(stamp)]
    BY DEF vars, Next, StartRun, Discover, IngestLive, LoseStamp, End, Snapshot, AppendRun, WriteDiff, HistoryFails,
       IngestRunEnd, Notify, Housekeep, Die, RebuildAsked, RebuildStart, RebuildStep, RebuildEnd, files
  <2>2. Previous(stamp) \in Stamps /\ stamp \in Stamps
    BY <1>0, <1>1, PreviousIs DEF RunParts
  <2>3. Extract(Previous(stamp)) \in Maps /\ Extract(stamp) \in Maps
    BY ExtractIs
  <2> QED BY <1>0, <2>1, <2>2, <2>3 DEF FileParts
<1>6. rebuild' \in [phase: {"no", "asked", "replay"}, left: SUBSET Stamps] /\ rebuild'.left \subseteq 1..clock'
  <2>1. \/ rebuild' = rebuild
        \/ \E p \in {"no", "asked", "replay"}, L \in {{}, DOMAIN hist} : rebuild' = [phase |-> p, left |-> L]
        \/ \E x : rebuild' = [rebuild EXCEPT !.left = @ \ {x}]
    BY DEF Idle, vars, Next, StartRun, Discover, IngestLive, LoseStamp, End, Snapshot, AppendRun, WriteDiff, HistoryFails,
       IngestRunEnd, Notify, Housekeep, Die, RebuildAsked, RebuildStart, RebuildStep, RebuildEnd
  <2>2. /\ rebuild \in [phase: {"no", "asked", "replay"}, left: SUBSET Stamps]
        /\ rebuild.left \subseteq 1..clock /\ DOMAIN hist \subseteq 1..clock /\ 1..clock \subseteq Stamps
    BY <1>0, <1>1 DEF FileParts
  <2>3. CASE \E p \in {"no", "asked", "replay"}, L \in {{}, DOMAIN hist} : rebuild' = [phase |-> p, left |-> L]
    <3>1. PICK p \in {"no", "asked", "replay"}, L \in {{}, DOMAIN hist} : rebuild' = [phase |-> p, left |-> L]
      BY <2>3
    <3>2. L \subseteq 1..clock /\ L \subseteq 1..clock' /\ L \subseteq Stamps
      BY <1>1, <2>2
    <3> QED BY <3>1, <3>2
  <2>4. CASE \E x : rebuild' = [rebuild EXCEPT !.left = @ \ {x}]
    BY <1>1, <2>2, <2>4
  <2>5. CASE rebuild' = rebuild
    BY <1>1, <2>2, <2>5
  <2> QED BY <2>1, <2>3, <2>4, <2>5
<1> QED BY <1>2, <1>3, <1>4, <1>5, <1>6 DEF FileParts

LEMMA TypedAtFirst == Init => TInv
<1> SUFFICES ASSUME Init PROVE TInv
  OBVIOUS
<1>1. 1 \in Stamps /\ 0 \in Stamps /\ MaxRuns \in Nat
  BY Bounds DEF Stamps
<1>2. RunParts
  <2>1. (clock = 0 \/ clock = 1) /\ liveStamp = 0 /\ stamp = 0 /\ runs = 0 /\ pc = "idle"
    BY DEF Init, None0
  <2>2. stopped \in BOOLEAN /\ gap \in BOOLEAN /\ wrote \in BOOLEAN
    BY DEF Init
  <2>3. 0 \in 0..clock /\ 0 \in 0..MaxRuns /\ clock \in Stamps
    BY <1>1, <2>1
  <2> QED BY <2>1, <2>2, <2>3 DEF RunParts
<1>3. DbParts
  <2>1. Sound(EmptyDb) /\ StampsOf(EmptyDb) = {}
    BY EmptySound, EmptyArchive
  <2> QED BY <2>1 DEF Init, DbParts, Sound, Columns
<1>4. FileParts
  <2>1. rebuild \in [phase: {"no", "asked", "replay"}, left: SUBSET Stamps] /\ rebuild.left \subseteq 1..clock
    BY DEF Init, Idle
  <2>2. CASE clock = 0 /\ tree = EmptyMaps /\ hist = EmptyHist /\ runsJson = <<>> /\ diff = NoDiff
    BY <1>1, <2>1, <2>2, EmptyIsMap DEF FileParts, EmptyHist, NoDiff, None0
  <2>3. CASE /\ clock = 1 /\ tree \in Maps /\ hist = [s \in {1} |-> tree] /\ runsJson = <<1>>
             /\ diff = [from |-> None0, to |-> 1, older |-> EmptyMaps, newer |-> tree]
    <3>1. 1 \in 1..1 /\ {1} \subseteq 1..1
      OBVIOUS
    <3>2. runsJson \in Seq(1..1)
      BY <2>3, <3>1
    <3> QED BY <1>1, <2>1, <2>3, <3>1, <3>2, EmptyIsMap DEF FileParts, None0
  <2> QED BY <2>2, <2>3 DEF Init
<1> QED BY <1>2, <1>3, <1>4, Parts

LEMMA StaysTyped == TInv /\ [Next]_vars => TInv'
<1> SUFFICES ASSUME TInv, [Next]_vars PROVE TInv'
  OBVIOUS
<1>1. RunParts' /\ FileParts'
  BY RunTyped, FilesTyped
<1>2. Sound(db)' /\ StampsOf(db)' \subseteq 1..clock' /\ DOMAIN db'.facts \subseteq Key
  BY DbStays
<1>3. Stamps' = Stamps /\ Maps' = Maps
  BY DEF Stamps, Maps
<1> QED BY <1>1, <1>2 DEF RunParts, FileParts, TInv, TypeOK

LEMMA Typed == Spec => []TInv
BY TypedAtFirst, StaysTyped, PTL DEF Spec

\* The state of a run's end, its files, the tables and the rebuild are of their
\* types, whatever fails and dies: the stamps of every document were handed out.
THEOREM TypeCorrect == Spec => []TypeOK
<1>1. TInv => TypeOK
  BY DEF TInv
<1> QED BY <1>1, Typed, PTL

\* However ingests are refused, repeated or interleaved with a rebuild: a fact's
\* span is that of its rows, its last hash is its last run's, and one of its
\* versions is open (_rebuild_fact_identity in warehouse.py).
THEOREM IdentityStays == Spec => []IdentityTrue
<1>1. TInv => IdentityTrue
  BY SoundIsIdentity DEF TInv, IdentityTrue
<1> QED BY <1>1, Typed, PTL
(***************************************************************************)
(* The tables implement the archive.                                        *)
(***************************************************************************)
LEMMA StepArchives == TInv /\ [Next]_vars => [Archive!Next]_([s \in StampsOf(db) |-> MapsForRun(db, s)])
<1> SUFFICES ASSUME TInv, [Next]_vars
             PROVE  [Archive!Next]_([s \in StampsOf(db) |-> MapsForRun(db, s)])
  OBVIOUS
<1> DEFINE a == [s \in StampsOf(db) |-> MapsForRun(db, s)]
           b == [s \in StampsOf(db') |-> MapsForRun(db', s)]
<1>0. a' = b
  OBVIOUS
<1>1. a = ArchiveOf(db) /\ b = ArchiveOf(db')
  BY DEF ArchiveOf
<1>2. CASE db' = db
  BY <1>0, <1>2
<1>3. CASE db' = EmptyDb
  <2>1. b = [s \in {} |-> {}]
    BY <1>1, <1>3, EmptyArchive
  <2>2. Archive!Discard
    BY <1>0, <2>1 DEF Archive!Discard
  <2> QED BY <2>2 DEF Archive!Next
<1>4. CASE \E s \in 1..clock', m \in Maps : db' = Ingested(db, s, m)
  <2>1. PICK s \in 1..clock', m \in Maps : db' = Ingested(db, s, m)
    BY <1>4
  <2>2. s \in 1..MaxStamp
    BY Wider, Bounds
  <2>3. \/ b = a
        \/ /\ s \in DOMAIN a => \A t \in DOMAIN a : t <= s
           /\ b = [t \in DOMAIN a \cup {s} |-> IF t = s THEN m ELSE a[t]]
    <3>1. Sound(db)
      BY DEF TInv
    <3> HIDE DEF a, b
    <3> QED BY <1>1, <2>1, <2>2, <3>1, IngestRecords
  <2>4. b = a \/ Archive!Record(s, m)
    BY <1>0, <2>3 DEF Archive!Record
  <2>5. Archive!Record(s, m) => Archive!Next
    BY <2>2 DEF Archive!Next
  <2> QED BY <1>0, <2>4, <2>5
<1> QED BY <1>2, <1>3, <1>4, DbMoves

\* The warehouse implements the archive: a run's facts are replaced only while no
\* later run is recorded, and stay as they are until the whole is rebuilt,
\* whatever ingests the constraints refuse.
THEOREM ArchiveImplemented == Spec => ImplementsArchive
<1>1. Init => Archive!Init
  <2> SUFFICES ASSUME Init PROVE Archive!Init
    OBVIOUS
  <2>1. db = EmptyDb
    BY DEF Init
  <2> QED BY <2>1, EmptyArchive DEF Archive!Init, ArchiveOf
<1> QED BY <1>1, Typed, StepArchives, PTL DEF Spec, ImplementsArchive, Archive!Spec

(***************************************************************************)
(* The diffs.                                                               *)
(***************************************************************************)
Count == Len(runsJson)
\* The entries of runs.json a diff was due for.
Settled == IF pc = "diff" THEN Count - 1 ELSE Count
\* The stamp is newer than every one of runs.json.
Fresher(s) == \A i \in DOMAIN runsJson : runsJson[i] < s

LiveFresh == liveStamp # None0 => pc = "scan" /\ Fresher(liveStamp)
StampFresh == pc \in {"snapshot", "append"} => Fresher(stamp)
LastEntry ==
  pc = "diff" => Count > 0 /\ runsJson[Count] = stamp /\ \A i \in 1..(Count - 1) : runsJson[i] < stamp
DiffRecorded == diff.to = None0 \/ \E i \in DOMAIN runsJson : diff.to = runsJson[i]
\* Unless a diff was left out, the last one is about the last entry.
DiffLast ==
  ~gap => \/ Settled = 0 /\ diff = NoDiff
          \/ Settled > 0 /\ diff.to = runsJson[Settled]
DiffOfSnapshot == diff.to \in DOMAIN hist => diff.newer = hist[diff.to]
\* What this run wrote is about this run.
DiffOwn ==
  wrote => /\ pc \in {"ingest", "notify", "housekeep"}
           /\ pc # "housekeep" =>
                /\ diff.to = stamp
                /\ diff.older = Extract(Previous(stamp)) /\ diff.newer = Extract(stamp)

Chained ==
  /\ LiveFresh /\ StampFresh /\ LastEntry
  /\ DiffRecorded /\ DiffLast /\ DiffOfSnapshot /\ DiffOwn

LEMMA EntriesAre ==
  ASSUME TInv
  PROVE  /\ DOMAIN runsJson = 1..Count /\ Count \in Nat
         /\ \A i \in DOMAIN runsJson : runsJson[i] \in 1..clock
<1>1. runsJson \in Seq(1..clock)
  BY DEF TInv, TypeOK
<1> QED BY <1>1, SeqIs DEF Count

\* The entry runs.json gets.
LEMMA Appended ==
  ASSUME TInv, AppendRun
  PROVE  /\ Count' = Count + 1 /\ DOMAIN runsJson' = 1..(Count + 1)
         /\ \A i \in 1..Count : runsJson'[i] = runsJson[i]
         /\ runsJson'[Count + 1] = stamp
<1>1. runsJson \in Seq(1..clock) /\ stamp \in 1..clock
  BY ClockIs DEF TInv, TypeOK, AppendRun, None0
<1>2. runsJson' = Append(runsJson, stamp)
  BY DEF AppendRun
<1> DEFINE S == 1..clock
<1>3. runsJson \in Seq(S) /\ stamp \in S
  BY <1>1
<1> HIDE DEF S
<1>4. /\ Len(Append(runsJson, stamp)) = Len(runsJson) + 1
      /\ DOMAIN Append(runsJson, stamp) = 1..(Len(runsJson) + 1)
      /\ \A i \in 1..Len(runsJson) : Append(runsJson, stamp)[i] = runsJson[i]
      /\ Append(runsJson, stamp)[Len(runsJson) + 1] = stamp
  BY <1>3, AppendIs
<1> QED BY <1>2, <1>4 DEF Count

LEMMA StartChained == Init => Chained
<1> SUFFICES ASSUME Init PROVE Chained
  OBVIOUS
<1>1. pc = "idle" /\ liveStamp = None0 /\ wrote = FALSE /\ Settled = Count
  BY DEF Init, Settled
<1>2. LiveFresh /\ StampFresh /\ LastEntry /\ DiffOwn
  BY <1>1 DEF LiveFresh, StampFresh, LastEntry, DiffOwn
<1>3. CASE hist = EmptyHist /\ runsJson = <<>> /\ diff = NoDiff
  <2>1. Count = 0 /\ diff.to = None0 /\ DOMAIN hist = {}
    BY <1>3 DEF Count, NoDiff, EmptyHist
  <2> QED BY <1>1, <1>2, <1>3, <2>1 DEF Chained, DiffRecorded, DiffLast, DiffOfSnapshot
<1>4. CASE /\ hist = [s \in {1} |-> tree] /\ runsJson = <<1>>
           /\ diff = [from |-> None0, to |-> 1, older |-> EmptyMaps, newer |-> tree]
  <2>1. Count = 1 /\ runsJson[1] = 1 /\ 1 \in DOMAIN runsJson /\ diff.to = 1 /\ diff.newer = tree /\ hist[1] = tree
    BY <1>4 DEF Count
  <2> QED BY <1>1, <1>2, <2>1 DEF Chained, DiffRecorded, DiffLast, DiffOfSnapshot
<1> QED BY <1>3, <1>4 DEF Init

\* What a run wrote is about it until it ends.
LEMMA OwnStays ==
  ASSUME TInv, Chained, [Next]_vars
  PROVE  DiffOwn'
<1>0. DiffOwn
  BY DEF Chained
<1>1. CASE WriteDiff
  <2>1. /\ diff'.to = stamp /\ diff'.older = Extract(Previous(stamp)) /\ diff'.newer = Extract(stamp)
        /\ pc' = "ingest"
    BY <1>1 DEF WriteDiff
  <2>2. hist' = hist /\ stamp' = stamp /\ runsJson' = runsJson
    BY <1>1 DEF WriteDiff
  <2>3. Extract(Previous(stamp))' = Extract(Previous(stamp)) /\ Extract(stamp)' = Extract(stamp)
    BY <2>2 DEF Extract, Previous
  <2> QED BY <2>1, <2>2, <2>3 DEF DiffOwn
<1>2. CASE pc \in {"ingest", "notify"} /\ pc' \in {"ingest", "notify"} /\ ~WriteDiff
  <2>1. hist' = hist /\ stamp' = stamp /\ runsJson' = runsJson /\ diff' = diff /\ wrote' = wrote
    BY <1>2 DEF vars, Next, StartRun, Discover, IngestLive, LoseStamp, End, Snapshot, AppendRun, HistoryFails,
       IngestRunEnd, Notify, Housekeep, Die, Over, RebuildAsked, RebuildStart, RebuildStep, RebuildEnd, engine, files
  <2>2. Extract(Previous(stamp))' = Extract(Previous(stamp)) /\ Extract(stamp)' = Extract(stamp)
    BY <2>1 DEF Extract, Previous
  <2> QED BY <1>0, <1>2, <2>1, <2>2 DEF DiffOwn
<1>3. CASE ~WriteDiff /\ ~(pc \in {"ingest", "notify"} /\ pc' \in {"ingest", "notify"})
  <2>1. wrote' = FALSE \/ (wrote' = wrote /\ (pc \notin {"ingest", "notify", "housekeep"} \/ pc' = "housekeep"))
    BY <1>3 DEF vars, Next, StartRun, Discover, IngestLive, LoseStamp, End, Snapshot, AppendRun, HistoryFails,
       IngestRunEnd, Notify, Housekeep, Die, Over, RebuildAsked, RebuildStart, RebuildStep, RebuildEnd, engine, files
  <2> QED BY <1>0, <2>1 DEF DiffOwn
<1> QED BY <1>1, <1>2, <1>3

\* A stamp is newer than the ones before it.
LEMMA FreshStays ==
  ASSUME TInv, Chained, [Next]_vars
  PROVE  LiveFresh' /\ StampFresh' /\ LastEntry'
<1>0. /\ LiveFresh /\ StampFresh /\ LastEntry /\ clock \in Nat
      /\ DOMAIN runsJson = 1..Count /\ Count \in Nat
      /\ \A i \in DOMAIN runsJson : runsJson[i] \in 1..clock
  BY EntriesAre, ClockIs DEF Chained
<1>1. CASE AppendRun
  <2>1. liveStamp = None0 /\ liveStamp' = liveStamp /\ pc' = "diff" /\ pc = "append" /\ stamp' = stamp
    BY <1>0, <1>1 DEF LiveFresh, AppendRun
  <2>2. \A i \in 1..Count : runsJson'[i] < stamp
    BY <1>0, <1>1, <2>1, Appended DEF StampFresh, Fresher
  <2>3. Count' > 0 /\ runsJson'[Count'] = stamp' /\ Count' - 1 = Count
    BY <1>0, <1>1, <2>1, Appended
  <2> QED BY <2>1, <2>2, <2>3 DEF LiveFresh, StampFresh, LastEntry
<1>2. CASE runsJson' = runsJson /\ ~AppendRun
  <2>0. Count' = Count
    BY <1>2 DEF Count
  <2>1. \/ liveStamp' = None0
        \/ liveStamp' = liveStamp /\ (pc' = pc \/ liveStamp = None0)
        \/ liveStamp' = clock + 1 /\ pc' = "scan"
    BY <1>0, <1>2 DEF LiveFresh, vars, Next, StartRun, Discover, IngestLive, LoseStamp, End, Snapshot, WriteDiff, HistoryFails,
       IngestRunEnd, Notify, Housekeep, Die, Over, RebuildAsked, RebuildStart, RebuildStep, RebuildEnd, engine, files
  <2>2. Fresher(clock + 1)
    BY <1>0 DEF Fresher
  <2>3. LiveFresh'
    BY <1>0, <1>2, <2>1, <2>2 DEF LiveFresh, Fresher
  <2>4. pc' \in {"snapshot", "append"} =>
          \/ stamp' = stamp /\ pc \in {"snapshot", "append"}
          \/ stamp' = liveStamp /\ liveStamp # None0
          \/ stamp' = clock + 1
    BY <1>2 DEF vars, Next, StartRun, Discover, IngestLive, LoseStamp, End, Snapshot, WriteDiff, HistoryFails,
       IngestRunEnd, Notify, Housekeep, Die, Over, RebuildAsked, RebuildStart, RebuildStep, RebuildEnd, engine, files
  <2>5. StampFresh'
    BY <1>0, <1>2, <2>2, <2>4 DEF LiveFresh, StampFresh, Fresher
  <2>6. pc' = "diff" => pc = "diff" /\ stamp' = stamp
    BY <1>2 DEF vars, Next, StartRun, Discover, IngestLive, LoseStamp, End, Snapshot, WriteDiff, HistoryFails,
       IngestRunEnd, Notify, Housekeep, Die, Over, RebuildAsked, RebuildStart, RebuildStep, RebuildEnd, engine, files
  <2>7. LastEntry'
    BY <1>0, <1>2, <2>0, <2>6 DEF LastEntry
  <2> QED BY <2>3, <2>5, <2>7
<1>3. AppendRun \/ runsJson' = runsJson
  BY DEF vars, Next, StartRun, Discover, IngestLive, LoseStamp, End, Snapshot, WriteDiff, HistoryFails,
       IngestRunEnd, Notify, Housekeep, Die, RebuildAsked, RebuildStart, RebuildStep, RebuildEnd, engine, files
<1> QED BY <1>1, <1>2, <1>3

\* The last diff is about a run that is recorded, and holds its snapshot.
LEMMA LastStays ==
  ASSUME TInv, Chained, [Next]_vars
  PROVE  DiffRecorded' /\ DiffLast' /\ DiffOfSnapshot'
<1>0. /\ DiffRecorded /\ DiffLast /\ DiffOfSnapshot /\ LastEntry /\ StampFresh
      /\ DOMAIN runsJson = 1..Count /\ Count \in Nat
      /\ \A i \in DOMAIN runsJson : runsJson[i] \in 1..clock
  BY EntriesAre DEF Chained
<1>1. CASE AppendRun
  <2>1. diff' = diff /\ gap' = gap /\ hist' = hist /\ pc = "append" /\ pc' = "diff"
    BY <1>1 DEF AppendRun
  <2>2. Settled' = Settled /\ Settled = Count
    BY <1>0, <1>1, <2>1, Appended DEF Settled
  <2>3. DiffRecorded'
    <3>1. \A i \in DOMAIN runsJson : i \in DOMAIN runsJson' /\ runsJson'[i] = runsJson[i]
      BY <1>0, <1>1, Appended
    <3> QED BY <1>0, <2>1, <3>1 DEF DiffRecorded
  <2>4. DiffLast'
    <3>1. Settled > 0 => runsJson'[Settled] = runsJson[Settled]
      BY <1>0, <1>1, <2>2, Appended
    <3> QED BY <1>0, <2>1, <2>2, <3>1 DEF DiffLast
  <2> QED BY <1>0, <2>1, <2>3, <2>4 DEF DiffOfSnapshot
<1>2. CASE WriteDiff
  <2>1. /\ diff'.to = stamp /\ diff'.newer = Extract(stamp) /\ hist' = hist /\ runsJson' = runsJson
        /\ pc = "diff" /\ pc' = "ingest"
    BY <1>2 DEF WriteDiff
  <2>2. Count > 0 /\ runsJson[Count] = stamp /\ Settled' = Count
    BY <1>0, <2>1 DEF LastEntry, Settled, Count
  <2>3. DiffRecorded'
    BY <1>0, <2>1, <2>2 DEF DiffRecorded
  <2>4. DiffLast'
    BY <2>1, <2>2 DEF DiffLast
  <2>5. DiffOfSnapshot'
    BY <2>1 DEF DiffOfSnapshot, Extract
  <2> QED BY <2>3, <2>4, <2>5
<1>3. CASE diff' = diff /\ runsJson' = runsJson /\ ~WriteDiff /\ ~AppendRun
  <2>1. DiffRecorded'
    BY <1>0, <1>3 DEF DiffRecorded
  <2>2. DiffLast'
    <3>1. \/ gap' = gap /\ (pc = "diff" <=> pc' = "diff")
          \/ gap' = (gap \/ pc = "diff") /\ pc' # "diff"
      BY <1>3 DEF vars, Next, StartRun, Discover, IngestLive, LoseStamp, End, Snapshot, HistoryFails,
       IngestRunEnd, Notify, Housekeep, Die, Over, RebuildAsked, RebuildStart, RebuildStep, RebuildEnd, engine, files
    <3>2. ~gap' => ~gap /\ (pc = "diff" <=> pc' = "diff")
      BY <3>1
    <3>3. ~gap' => Settled' = Settled
      BY <1>3, <3>2 DEF Settled, Count
    <3> QED BY <1>0, <1>3, <3>2, <3>3 DEF DiffLast
  <2>3. DiffOfSnapshot'
    <3>1. CASE hist' = hist
      BY <1>0, <1>3, <3>1 DEF DiffOfSnapshot
    <3>2. CASE Snapshot
      <4>1. hist' = [s \in DOMAIN hist \cup {stamp} |-> IF s = stamp THEN tree ELSE hist[s]] /\ stamp # None0 /\ pc = "snapshot"
        BY <3>2 DEF Snapshot, TInv
      <4>2. diff.to # stamp
        <5>1. \A i \in DOMAIN runsJson : runsJson[i] # stamp
          <6>1. \A i \in DOMAIN runsJson : runsJson[i] < stamp
            BY <1>0, <4>1 DEF StampFresh, Fresher
          <6>2. \A i \in DOMAIN runsJson : runsJson[i] \in Int
            BY <1>0
          <6> QED BY <6>1, <6>2
        <5> QED BY <1>0, <4>1, <5>1 DEF DiffRecorded
      <4> QED BY <1>0, <1>3, <4>1, <4>2 DEF DiffOfSnapshot
    <3>3. CASE Housekeep
      <4>1. PICK n \in 0..KeepRuns : hist' = [s \in Pruned(n) |-> hist[s]]
        BY <3>3 DEF Housekeep
      <4>2. Pruned(n) \subseteq DOMAIN hist
        BY DEF Pruned
      <4> QED BY <1>0, <1>3, <4>1, <4>2 DEF DiffOfSnapshot
    <3>4. Snapshot \/ Housekeep \/ hist' = hist
      BY <1>3 DEF vars, Next, StartRun, Discover, IngestLive, LoseStamp, End, HistoryFails,
       IngestRunEnd, Notify, Die, RebuildAsked, RebuildStart, RebuildStep, RebuildEnd, engine, files
    <3> QED BY <3>1, <3>2, <3>3, <3>4
  <2> QED BY <2>1, <2>2, <2>3
<1>4. AppendRun \/ WriteDiff \/ (diff' = diff /\ runsJson' = runsJson)
  BY DEF vars, Next, StartRun, Discover, IngestLive, LoseStamp, End, Snapshot, HistoryFails,
       IngestRunEnd, Notify, Housekeep, Die, RebuildAsked, RebuildStart, RebuildStep, RebuildEnd, engine, files
<1> QED BY <1>1, <1>2, <1>3, <1>4

LEMMA AlwaysChained == Spec => [](TInv /\ Chained)
<1>1. TInv /\ Chained /\ [Next]_vars => Chained'
  BY OwnStays, FreshStays, LastStays DEF Chained
<1> QED BY <1>1, TypedAtFirst, StaysTyped, StartChained, PTL DEF Spec

\* The alerts at a run's end are about that run, and each is for a fact in which
\* it differs from the run before: diff.json is never an older run's when this
\* run wrote one (run_end_notifications reads it back).
THEOREM AlertsAreOwn == Spec => []AlertsOwn
<1>1. Chained => AlertsOwn
  BY DEF Chained, DiffOwn, AlertsOwn, Alerts, Rows
<1> QED BY <1>1, AlwaysChained, PTL

\* However runs are stopped, die or lose their stamp, and whatever is pruned: a
\* diff starts where the last one ended, so that no change between two runs goes
\* unreported (write_diff in history.py).
THEOREM DiffsAreChained == Spec => DiffsChain
<1>1. TInv /\ Chained /\ [Next]_vars =>
        [diff' # diff /\ diff # NoDiff /\ ~gap /\ Previous(stamp) \in DOMAIN hist
           => diff'.older = diff.newer]_vars
  <2> SUFFICES ASSUME TInv, Chained, [Next]_vars, diff' # diff, diff # NoDiff, ~gap,
                      Previous(stamp) \in DOMAIN hist
               PROVE  diff'.older = diff.newer
    OBVIOUS
  <2>1. WriteDiff
    BY DEF vars, Next, StartRun, Discover, IngestLive, LoseStamp, End, Snapshot, AppendRun, HistoryFails,
       IngestRunEnd, Notify, Housekeep, Die, RebuildAsked, RebuildStart, RebuildStep, RebuildEnd, engine, files
  <2>2. pc = "diff" /\ diff'.older = hist[Previous(stamp)]
    BY <2>1 DEF WriteDiff, Extract
  <2>3. /\ DOMAIN runsJson = 1..Count /\ Count \in Nat /\ Count > 0 /\ runsJson[Count] = stamp
        /\ \A i \in 1..(Count - 1) : runsJson[i] < stamp
        /\ \A i \in DOMAIN runsJson : runsJson[i] \in Int
    BY <2>2, EntriesAre DEF Chained, LastEntry
  <2>4. Count - 1 > 0 /\ diff.to = runsJson[Count - 1]
    BY <2>2 DEF Chained, DiffLast, Settled
  <2> DEFINE B == {i \in DOMAIN runsJson : runsJson[i] # stamp}
  <2>5. B = 1..(Count - 1)
    <3>1. \A i \in 1..Count : i \in 1..(Count - 1) \/ i = Count
      BY <2>3
    <3>2. \A i \in 1..(Count - 1) : i \in DOMAIN runsJson /\ runsJson[i] # stamp
      <4>1. \A i \in 1..(Count - 1) : i \in DOMAIN runsJson
        BY <2>3
      <4>2. stamp \in Int
        BY <2>3
      <4> QED BY <2>3, <4>1, <4>2
    <3> QED BY <2>3, <3>1, <3>2
  <2>6. Greatest(B) = Count - 1
    <3>1. B \in SUBSET (1..(Count - 1)) /\ B # {} /\ Count - 1 \in Nat /\ Count - 1 \in B
      BY <2>3, <2>4, <2>5
    <3> HIDE DEF B
    <3>2. Greatest(B) \in B /\ \A y \in B : y <= Greatest(B)
      BY <3>1, GreatestIn
    <3>3. Greatest(B) \in 1..(Count - 1) /\ Count - 1 <= Greatest(B)
      BY <3>1, <3>2
    <3> QED BY <2>3, <3>3
  <2>7. Previous(stamp) = runsJson[Count - 1]
    <3>1. B # {}
      BY <2>3, <2>4, <2>5
    <3>2. Previous(stamp) = IF B = {} THEN None0 ELSE runsJson[Greatest(B)]
      BY DEF Previous
    <3> HIDE DEF B
    <3> QED BY <2>6, <3>1, <3>2
  <2> QED BY <2>2, <2>4, <2>7 DEF Chained, DiffOfSnapshot
<1> QED BY <1>1, AlwaysChained, PTL DEF Spec, DiffsChain
=============================================================================
