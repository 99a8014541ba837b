--------------------------- MODULE MC_ZenohCluster ---------------------------
(* Model-checking instance of ZenohCluster: operators are model values.     *)
EXTENDS ZenohCluster, TLC

CONSTANTS o0, o1, o2

\* Two nodes: node 0 hosts o0 and o2, node 1 hosts o1.
MCOps2 == {o0, o1, o2}
MCOpNode2 == (o0 :> 0) @@ (o1 :> 1) @@ (o2 :> 0)

=============================================================================
