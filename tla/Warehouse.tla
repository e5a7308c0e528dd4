------------------------------ MODULE Warehouse ------------------------------
(* The tables of a target's warehouse (pipeline/warehouse.py) and what one     *)
(* transaction does to them.  A fact is known by its class and natural key,    *)
(* here a Key; its payload is a Hash.  A database is                           *)
(*   runs      the stamps, by run_id;                                         *)
(*   facts     by key: the first and last run that has it, and its last hash;  *)
(*   versions  the rows of fact_versions: seq orders the versions of a key,    *)
(*             to = Open where valid_to_run is NULL;                           *)
(*   rows      run_facts: the version of every fact of every run.             *)
EXTENDS Integers, Sequences, FiniteSets

CONSTANTS Key, Hash

None == "none"
Open == 0
Maps == [Key -> Hash \cup {None}]
EmptyMaps == [k \in Key |-> None]
Present(m) == {k \in Key : m[k] # None}

EmptyDb == [runs |-> <<>>, facts |-> [k \in {} |-> None], versions |-> {},
            rows |-> [p \in {} |-> 0]]

Greatest(S) == CHOOSE x \in S : \A y \in S : y <= x
Smallest(S) == CHOOSE x \in S : \A y \in S : x <= y

StampsOf(db) == {db.runs[i] : i \in DOMAIN db.runs}
RunId(db, s) == CHOOSE i \in DOMAIN db.runs : db.runs[i] = s
VersionsOf(db, k) == {v \in db.versions : v.key = k}
Version(db, k, n) == CHOOSE v \in VersionsOf(db, k) : v.seq = n
RowsOf(db, k) == {p[1] : p \in {q \in DOMAIN db.rows : q[2] = k}}

\* The facts a run found, read back through its rows.
MapsForRun(db, s) ==
  [k \in Key |-> IF s \in StampsOf(db) /\ <<RunId(db, s), k>> \in DOMAIN db.rows
                   THEN Version(db, k, db.rows[<<RunId(db, s), k>>]).hash
                   ELSE None]

------------------------------------------------------------------------------
(* One ingest of the facts m of the run with stamp s. *)

Known(db, s) == s \in StampsOf(db)
IdFor(db, s) == IF Known(db, s) THEN RunId(db, s) ELSE Len(db.runs) + 1

\* A fact gets a new version when its last hash is another one.
Changed(db, m) == {k \in Present(m) : k \notin DOMAIN db.facts \/ db.facts[k].hash # m[k]}
NextSeq(db, k) == Cardinality(VersionsOf(db, k)) + 1
\* An unchanged fact refers to the newest version with its hash.
Newest(db, k, h) == Greatest({v.seq : v \in {w \in VersionsOf(db, k) : w.hash = h}})

WithVersions(db, id, m) ==
  {IF v.key \in Changed(db, m) /\ v.to = Open THEN [v EXCEPT !.to = id] ELSE v : v \in db.versions}
  \cup {[key |-> k, seq |-> NextSeq(db, k), hash |-> m[k], from |-> id, to |-> Open] : k \in Changed(db, m)}

\* The run's own rows are deleted and written anew.
WithRows(db, id, m) ==
  [p \in {q \in DOMAIN db.rows : q[1] # id} \cup ({id} \X Present(m)) |->
     IF p[1] # id THEN db.rows[p]
     ELSE IF p[2] \in Changed(db, m) THEN NextSeq(db, p[2])
     ELSE Newest(db, p[2], m[p[2]])]

\* Mutant of Reconciled: the identity of a fact the run no longer has is kept.
ReconciledPresent(db, m, id) ==
  [db EXCEPT !.facts =
     [k \in DOMAIN db.facts \cup Present(m) |->
        IF k \in Present(m)
          THEN [first |-> Smallest(RowsOf(db, k)), last |-> id, hash |-> m[k]]
          ELSE db.facts[k]]]

\* The reconciliation: the span and the last hash of every fact, from its rows.
Reconciled(db, m, id) ==
  [db EXCEPT !.facts =
     [k \in DOMAIN db.facts \cup Present(m) |->
        LET ids == RowsOf(db, k)
        IN [first |-> Smallest(ids), last |-> Greatest(ids),
            hash |-> Version(db, k, db.rows[<<Greatest(ids), k>>]).hash]]]

\* Mutant of InOrder: an old run may be ingested again.
AnyOrder(db, s) == TRUE

\* A run that is recorded is refused once a later one is.
InOrder(db, s) == Known(db, s) => \A t \in StampsOf(db) : t <= s

\* A second version of a fact with the hash and the first run of an older one
\* breaks the table's UNIQUE constraint.
Unique(db, s, m) ==
  \A k \in Changed(db, m), v \in db.versions :
    ~(v.key = k /\ v.hash = m[k] /\ v.from = IdFor(db, s))

\* A fact without a row left would be deleted, but its versions still refer to
\* it: the foreign key refuses the deletion and rolls the ingest back.
NoneGone(db, s, m) ==
  \A k \in DOMAIN db.facts : k \in Present(m) \/ RowsOf(db, k) \ {IdFor(db, s)} # {}

Accepts(db, s, m) == InOrder(db, s) /\ Unique(db, s, m) /\ NoneGone(db, s, m)

\* The transaction: all of it, or, when a statement is refused, nothing.
Ingested(db, s, m) ==
  LET id == IdFor(db, s)
      new == [db EXCEPT !.runs = IF Known(db, s) THEN @ ELSE Append(@, s),
                        !.versions = WithVersions(db, id, m),
                        !.rows = WithRows(db, id, m)]
  IN IF Accepts(db, s, m) THEN Reconciled(new, m, id) ELSE db

------------------------------------------------------------------------------
(* What is true of the tables. *)

\* A fact has one open version, and its row speaks of its last run.
Identity(db) ==
  \A k \in DOMAIN db.facts :
    /\ Cardinality({v \in VersionsOf(db, k) : v.to = Open}) = 1
    /\ LET f == db.facts[k]
       IN /\ f.first \in RowsOf(db, k) /\ f.last \in RowsOf(db, k)
          /\ \A i \in RowsOf(db, k) : f.first <= i /\ i <= f.last
          /\ MapsForRun(db, db.runs[f.last])[k] = f.hash

\* The version a run refers to is one that was valid in that run.
VersionsCover(db) ==
  \A p \in DOMAIN db.rows :
    LET v == Version(db, p[2], db.rows[p])
    IN v.from <= p[1] /\ (v.to = Open \/ p[1] <= v.to)
=============================================================================
