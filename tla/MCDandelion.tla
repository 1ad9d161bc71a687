---------------------------- MODULE MCDandelion ----------------------------
(***************************************************************************)
(* Two nodes; x is submitted at n1, y comes from another peer and bad does *)
(* not pass the gates, so that stems echo and find the stempool full.      *)
(***************************************************************************)
EXTENDS Dandelion

CONSTANTS n1, n2, x, y, bad
MCSubmissions == {<<n1, x>>}
MCForeign == {[to |-> n1, item |-> y, ttl |-> 1], [to |-> n2, item |-> bad, ttl |-> 1]}
=============================================================================
