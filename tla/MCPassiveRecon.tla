--------------------------- MODULE MCPassiveRecon ---------------------------
(* A scanned domain with two hosts below it, an engine that answers first and    *)
(* one that takes over.                                                          *)
EXTENDS PassiveRecon

MCRank(e) == IF e = "ddg" THEN 1 ELSE 2
=============================================================================
