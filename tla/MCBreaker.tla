----------------------------- MODULE MCBreaker -----------------------------
(* Instances of Breaker for TLC.  A window is two ticks, so that an outcome *)
(* can fall on either side of a window's edge and outlive its window.       *)
EXTENDS Breaker

CONSTANTS m1, m2

NoLatencies == {}
FastOrSlow == {0, 1, 3}
=============================================================================
