---------------------------- MODULE NodeLifecycle ----------------------------
(***************************************************************************)
(* What the ERDOS node bootstrap promises, stated without transports,      *)
(* queues or barrier sets: nodes start; once every node has started, a     *)
(* node registers its streams (builds its channel manager); its operators  *)
(* then initialize; a node announces once all of its own operators are     *)
(* initialized, and a node is released (run_async returns, operators are   *)
(* told to run) only once every node has announced.  A started node may    *)
(* exit at any time.                                                       *)
(***************************************************************************)
EXTENDS Naturals

CONSTANTS N, Ops, OpNode

Node == 0 .. N-1
LocalOps(n) == {o \in Ops : OpNode[o] = n}

VARIABLES
  status,       \* "off" | "booting" | "released" | "exited"
  registered,   \* nodes whose channel manager holds their streams
  initialized,  \* operators that finished their setup
  announced     \* nodes that told their peers all their operators are ready

vars == <<status, registered, initialized, announced>>

TypeOK ==
  /\ status \in [Node -> {"off", "booting", "released", "exited"}]
  /\ registered \subseteq Node
  /\ initialized \subseteq Ops
  /\ announced \subseteq Node

Init ==
  /\ status = [n \in Node |-> "off"]
  /\ registered = {}
  /\ initialized = {}
  /\ announced = {}

Start(n) ==
  /\ status[n] = "off"
  /\ status' = [status EXCEPT ![n] = "booting"]
  /\ UNCHANGED <<registered, initialized, announced>>

Register(n) ==
  /\ status[n] = "booting"
  /\ \A m \in Node : status[m] # "off"
  /\ n \notin registered
  /\ registered' = registered \cup {n}
  /\ UNCHANGED <<status, initialized, announced>>

OpInitialized(o) ==
  /\ status[OpNode[o]] = "booting"
  /\ OpNode[o] \in registered
  /\ o \notin initialized
  /\ initialized' = initialized \cup {o}
  /\ UNCHANGED <<status, registered, announced>>

Announce(n) ==
  /\ status[n] = "booting"
  /\ n \in registered
  /\ LocalOps(n) \subseteq initialized
  /\ n \notin announced
  /\ announced' = announced \cup {n}
  /\ UNCHANGED <<status, registered, initialized>>

Release(n) ==
  /\ status[n] = "booting"
  /\ announced = Node
  /\ status' = [status EXCEPT ![n] = "released"]
  /\ UNCHANGED <<registered, initialized, announced>>

Exit(n) ==
  /\ status[n] \in {"booting", "released"}
  /\ status' = [status EXCEPT ![n] = "exited"]
  /\ UNCHANGED <<registered, initialized, announced>>

Next ==
  \/ \E n \in Node : Start(n) \/ Register(n) \/ Announce(n) \/ Release(n) \/ Exit(n)
  \/ \E o \in Ops : OpInitialized(o)

Spec == Init /\ [][Next]_vars
=============================================================================
