---------------------------- MODULE MC_DataLane ----------------------------
EXTENDS DataLane, TLC

CONSTANTS s0, s1

\* Two nodes: node 0 writes s0 from a driver setup hook and s1 from an
\* operator, both read on node 1, so both share the pipe 0 -> 1.
MCStreams2 == {s0, s1}
MCProducer2 == (s0 :> 0) @@ (s1 :> 0)
MCConsumers2 == (s0 :> {1}) @@ (s1 :> {1})

\* Three nodes: node 0 fans s0 out to nodes 1 and 2 from a driver hook.
MCStreams3 == {s0}
MCProducer3 == s0 :> 0
MCConsumers3 == s0 :> {1, 2}
=============================================================================
