------------------------------ MODULE MCFleet ------------------------------
(* Instances of Fleet for TLC.                                             *)
EXTENDS Fleet

CONSTANTS f1, f2, a, b, c, d

OneEach == [f \in Fleet |-> 1]
TwoEach == [f \in Fleet |-> 2]
OneAndTwo == [f \in Fleet |-> IF f = f1 THEN 1 ELSE 2]
=============================================================================
