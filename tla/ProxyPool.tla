----------------------------- MODULE ProxyPool -----------------------------
(***************************************************************************)
(* The proxy pool of one run (pipeline/ip_rotation.py): health-aware        *)
(* round-robin over the entries 0 .. Entries - 1, and the health file that  *)
(* carries the counters from run to run under the masked form of an entry.  *)
(***************************************************************************)
EXTENDS Integers, FiniteSets

CONSTANTS
  Entries,          \* how many entries the pool has
  UnhealthyAfter,   \* failures in a row that make an entry unhealthy
  MaskOf            \* MaskOf[i]: the masked form of entry i

Entry == 0 .. Entries - 1
Direct == -1        \* the tool has no proxy hook

ASSUME PoolAssumption ==
  Entries \in Nat \ {0} /\ UnhealthyAfter \in Nat \ {0} /\ DOMAIN MaskOf = Entry

Unhealthy(fails, i) == fails[i] >= UnhealthyAfter

\* The entry _pick returns: the first one from the cursor that is healthy, or
\* the cursor's own when all are healthy or none is.
Picked(fails, cursor) ==
  LET at(k) == (cursor + k) % Entries
      healthy == {i \in Entry : ~Unhealthy(fails, i)}
  IN IF healthy = {} THEN at(0)
     ELSE LET k == CHOOSE k \in Entry :
                     at(k) \in healthy /\ \A j \in 0 .. k - 1 : at(j) \notin healthy
          IN at(k)

\* Mutant of Counted: a success does not end the series.
CountedAll(count, ok) == count + 1

\* record_outcome, from the counter it read before.
Counted(count, ok) == IF ok THEN 0 ELSE count + 1

Masks == {MaskOf[i] : i \in Entry}
NotRecorded == -1

LastWith(known, mask) ==
  LET is == {i \in known : MaskOf[i] = mask}
  IN CHOOSE i \in is : \A j \in is : j <= i

\* _flush_health: of several entries with one masked form the last is kept.
Flushed(fails, known) ==
  [mask \in Masks |-> IF \E i \in known : MaskOf[i] = mask
                      THEN fails[LastWith(known, mask)] ELSE NotRecorded]

\* load_health: a masked form is read as the last entry that has it.
Loads(file, i) == i = LastWith(Entry, MaskOf[i]) /\ file[MaskOf[i]] # NotRecorded
LoadedKnown(file) == {i \in Entry : Loads(file, i)}
LoadedFails(file) == [i \in Entry |-> IF Loads(file, i) THEN file[MaskOf[i]] ELSE 0]
=============================================================================
