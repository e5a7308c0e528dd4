------------------------------ MODULE MCRunEnd ------------------------------
(* Instances of RunEnd for TLC: one fact with two payloads. *)
EXTENDS RunEnd, TLC

CONSTANTS k, h1, h2

\* The rules as shipped alert every kind of change; here a fact that is gone does not.
MCRules == [x \in Key |-> [enabled |-> TRUE, sides |-> {"added", "changed"}]]

\* Nothing tells one payload from the other.
Renamed == Permutations(Hash)
=============================================================================
