---------------------------- MODULE MCRunControl ----------------------------
(* Instances of RunControl for TLC: the ladder cut down to one module per  *)
(* place that matters (passive, before and after dns-resolve, port-check,   *)
(* merge).                                                                 *)
EXTENDS RunControl

CONSTANTS recon, dns, vhost, ports, merge

OnePassive == <<recon>>
OneBefore == <<dns>>
OneAfter == <<vhost>>
OnePort == <<ports>>
NoneAtAll == <<>>
OnlyMerge == <<merge>>
=============================================================================
