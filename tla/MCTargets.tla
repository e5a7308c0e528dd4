------------------------------ MODULE MCTargets ------------------------------
(* Instances of Targets for TLC: two targets, two values of one setting. *)
EXTENDS Targets

CONSTANTS a, b, g1, g2
=============================================================================
