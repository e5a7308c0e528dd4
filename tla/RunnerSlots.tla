---------------------------- MODULE RunnerSlots ----------------------------
(***************************************************************************)
(* What the fleet's global slots promise (pipeline/fleet.py): however many *)
(* fleet invocations overlap, at most Capacity members run on this runner. *)
(***************************************************************************)
EXTENDS Naturals, FiniteSets

CONSTANTS Member, Capacity

VARIABLE running    \* members whose run occupies the runner

Init == running = {}

Begin(m) ==
  /\ m \notin running
  /\ Cardinality(running) < Capacity
  /\ running' = running \cup {m}

End(m) ==
  /\ m \in running
  /\ running' = running \ {m}

Next == \E m \in Member : Begin(m) \/ End(m)

Spec == Init /\ [][Next]_running

NotOversubscribed == Cardinality(running) <= Capacity
=============================================================================
