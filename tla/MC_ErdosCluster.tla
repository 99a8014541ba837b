--------------------------- MODULE MC_ErdosCluster ---------------------------
(* Model-checking instance of ErdosCluster: operators are model values.     *)
EXTENDS ErdosCluster, TLC

CONSTANTS o0, o1, o2

\* Two nodes: node 0 hosts o0 and o2 (the local barrier waits for two
\* operators), node 1 hosts o1 (the global barrier waits for a peer).
MCOps2 == {o0, o1, o2}
MCOpNode2 == (o0 :> 0) @@ (o1 :> 1) @@ (o2 :> 0)

=============================================================================
