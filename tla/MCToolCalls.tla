---------------------------- MODULE MCToolCalls ----------------------------
(* Instances of ToolCalls for TLC: two threads, of one module or of two,    *)
(* and a pool of two entries.                                              *)
EXTENDS ToolCalls, TLC

CONSTANTS a, b, ma, mb, fb

TwoModules == (a :> ma) @@ (b :> mb)
OneModule == (a :> ma) @@ (b :> ma)
SharedMask == (0 :> 0) @@ (1 :> 0)
ApartMasks == (0 :> 0) @@ (1 :> 1)
=============================================================================
