----------------------------- MODULE RunArchive -----------------------------
(* What the warehouse promises: an archive of the facts every recorded run    *)
(* found.  The facts of a run may be replaced as long as no later run is       *)
(* recorded; after that they stay as they are, until the archive as a whole    *)
(* is thrown away to be rebuilt from the snapshots.                          *)
EXTENDS Integers

CONSTANTS
  Stamp,   \* the stamps of the runs, in order of time
  Facts    \* what a run may have found

VARIABLE archive \* the facts of the recorded runs, by their stamps

Init == archive = [s \in {} |-> {}]

Record(s, f) ==
  /\ s \in DOMAIN archive => \A t \in DOMAIN archive : t <= s
  /\ archive' = [t \in DOMAIN archive \cup {s} |-> IF t = s THEN f ELSE archive[t]]

Discard == archive' = [s \in {} |-> {}]

Next == (\E s \in Stamp, f \in Facts : Record(s, f)) \/ Discard

Spec == Init /\ [][Next]_archive
=============================================================================
