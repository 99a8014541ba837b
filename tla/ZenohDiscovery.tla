--------------------------- MODULE ZenohDiscovery ---------------------------
(***************************************************************************)
(* The peer-discovery pre-phase of Node::async_run on the Zenoh transports *)
(* (node.rs, the zenoh_transport features).  Each node opens a session,   *)
(* spawns query_handler, which declares the queryable /<id>/info and      *)
(* answers every query with its id, waits on zrx for the declaration, and  *)
(* then runs wait_zenoh_nodes_discovered: a cursor n walks over the node   *)
(* ids, skips its own, and queries /<n>/info until a reply arrives.  Only  *)
(* then are the control and data streams opened, to get_nodes_ids.         *)
(* The module refines the start-up part of NodeLifecycle: a node builds   *)
(* its streams only once every node has started.                          *)
(***************************************************************************)
EXTENDS Naturals, Sequences, SequencesExt

CONSTANTS
  N,            \* total_nodes = config.data_addresses.len()
  MaxCrashes    \* node threads that may panic (the unwraps of async_run)

ASSUME N \in Nat \ {0} /\ MaxCrashes \in Nat

Node == 0 .. N-1

VARIABLES
  zpc,       \* where async_run of the node is
  declared,  \* query_handler has declared its queryable
  zsig,      \* the capacity-1 ztx/zrx channel
  cur,       \* the cursor n of wait_zenoh_nodes_discovered
  nodes,     \* the vector nodes of wait_zenoh_nodes_discovered
  streams,   \* peers the node has built control and data workers for
  crashes

vars == <<zpc, declared, zsig, cur, nodes, streams, crashes>>

ZPhases == {"off", "open", "discovering", "discovered", "connected", "crashed"}

\* get_nodes_ids(total_nodes, node_id): the for loop over 0..total_nodes.
RECURSIVE NodesFrom(_, _, _)
NodesFrom(k, total, self) ==
  IF k >= total THEN << >>
  ELSE (IF k # self THEN <<k>> ELSE << >>) \o NodesFrom(k + 1, total, self)

GetNodesIds(total, self) == NodesFrom(0, total, self)

\* The queryables that answer a query on /<cur[n]>/info: the one declared
\* by node cur[n], as long as its session is alive.  Its reply carries the
\* replier's id, formatted and parsed back by the querier.
Replies(n) == {m \in Node : m = cur[n] /\ declared[m] /\ zpc[m] # "crashed"}

TypeOK ==
  /\ zpc \in [Node -> ZPhases]
  /\ declared \in [Node -> BOOLEAN]
  /\ zsig \in [Node -> 0 .. 1]
  /\ cur \in [Node -> 0 .. N]
  /\ nodes \in [Node -> Seq(Node)]
  /\ streams \in [Node -> SUBSET Node]
  /\ crashes \in 0 .. MaxCrashes

Init ==
  /\ zpc = [n \in Node |-> "off"]
  /\ declared = [n \in Node |-> FALSE]
  /\ zsig = [n \in Node |-> 0]
  /\ cur = [n \in Node |-> 0]
  /\ nodes = [n \in Node |-> << >>]
  /\ streams = [n \in Node |-> {}]
  /\ crashes = 0

\* run_async starts the node thread; async_run opens the Zenoh session,
\* creates the ztx/zrx channel and spawns query_handler.
Open(n) ==
  /\ zpc[n] = "off"
  /\ zpc' = [zpc EXCEPT ![n] = "open"]
  /\ UNCHANGED <<declared, zsig, cur, nodes, streams, crashes>>

\* query_handler: declare_queryable on /<id>/info, then tx.send(()).
Declare(n) ==
  /\ zpc[n] \in {"open", "discovering", "discovered", "connected"}
  /\ ~declared[n]
  /\ declared' = [declared EXCEPT ![n] = TRUE]
  /\ zsig' = [zsig EXCEPT ![n] = 1]
  /\ UNCHANGED <<zpc, cur, nodes, streams, crashes>>

\* zrx.recv().await returns; wait_zenoh_nodes_discovered starts with an
\* empty vector and n = 0.
HandlerReady(n) ==
  /\ zpc[n] = "open"
  /\ zsig[n] = 1
  /\ zsig' = [zsig EXCEPT ![n] = 0]
  /\ zpc' = [zpc EXCEPT ![n] = "discovering"]
  /\ cur' = [cur EXCEPT ![n] = 0]
  /\ nodes' = [nodes EXCEPT ![n] = << >>]
  /\ UNCHANGED <<declared, streams, crashes>>

\* The loop condition nodes.len() < total_nodes - 1.
Searching(n) == zpc[n] = "discovering" /\ Len(nodes[n]) < N - 1

\* Mutant: the else branch forgets n += 1 when n is the node's own id.
QuerySelfNoAdvance(n) ==
  /\ Searching(n)
  /\ cur[n] = n
  /\ UNCHANGED vars

\* One iteration with n == node_id: n += 1.
QuerySelf(n) ==
  /\ Searching(n)
  /\ cur[n] = n
  /\ cur' = [cur EXCEPT ![n] = @ + 1]
  /\ UNCHANGED <<zpc, declared, zsig, nodes, streams, crashes>>

\* Mutant: the test n != node_id is missing, the node queries itself.
QueryReplyNoSelfSkip(n) ==
  /\ Searching(n)
  /\ \E m \in Replies(n) :
       /\ nodes' = [nodes EXCEPT ![n] = Append(@, m)]
       /\ cur' = [cur EXCEPT ![n] = @ + 1]
  /\ UNCHANGED <<zpc, declared, zsig, streams, crashes>>

\* Mutant: n += 1 sits after the if-let, so an unanswered query advances too.
QueryReplyAdvanceAlways(n) ==
  /\ Searching(n)
  /\ cur[n] # n
  /\ \/ \E m \in Replies(n) : nodes' = [nodes EXCEPT ![n] = Append(@, m)]
     \/ Replies(n) = {} /\ UNCHANGED nodes
  /\ cur' = [cur EXCEPT ![n] = @ + 1]
  /\ UNCHANGED <<zpc, declared, zsig, streams, crashes>>

\* One iteration with n != node_id whose query gets a reply: the parsed id
\* is pushed and n += 1.  A query with no reply (the queryable is not
\* declared yet, its declaration has not reached the querier, or its node
\* is gone) changes nothing: spin_loop and the same n again.
QueryReply(n) ==
  /\ Searching(n)
  /\ cur[n] # n
  /\ \E m \in Replies(n) :
       /\ nodes' = [nodes EXCEPT ![n] = Append(@, m)]
       /\ cur' = [cur EXCEPT ![n] = @ + 1]
  /\ UNCHANGED <<zpc, declared, zsig, streams, crashes>>

\* The loop exits, Ok(nodes) is unwrapped, and async_run goes on to open
\* the control and data streams to get_nodes_ids(num_nodes, self.id).
DiscoveryDone(n) ==
  /\ zpc[n] = "discovering"
  /\ Len(nodes[n]) >= N - 1
  /\ zpc' = [zpc EXCEPT ![n] = "discovered"]
  /\ UNCHANGED <<declared, zsig, cur, nodes, streams, crashes>>

\* Mutant: the streams are opened without waiting for the discovery loop,
\* as on the TCP build where the pre-phase is compiled out.
OpenStreamsBeforeDiscovery(n) ==
  /\ zpc[n] \in {"open", "discovering", "discovered"}
  /\ zpc' = [zpc EXCEPT ![n] = "connected"]
  /\ streams' = [streams EXCEPT ![n] = ToSet(GetNodesIds(N, n))]
  /\ UNCHANGED <<declared, zsig, cur, nodes, crashes>>

\* get_control_streams then get_data_streams, both over
\* get_nodes_ids(num_nodes, self.id): one ControlReceiver, ControlSender,
\* DataReceiver and DataSender per peer on the shared session.
OpenStreams(n) ==
  /\ zpc[n] = "discovered"
  /\ zpc' = [zpc EXCEPT ![n] = "connected"]
  /\ streams' = [streams EXCEPT ![n] = ToSet(GetNodesIds(N, n))]
  /\ UNCHANGED <<declared, zsig, cur, nodes, crashes>>

\* The node thread panics (an unwrap of async_run); its runtime, session
\* and queryable are dropped.
Crash(n) ==
  /\ zpc[n] \notin {"off", "crashed"}
  /\ crashes < MaxCrashes
  /\ zpc' = [zpc EXCEPT ![n] = "crashed"]
  /\ crashes' = crashes + 1
  /\ UNCHANGED <<declared, zsig, cur, nodes, streams>>

Next ==
  \E n \in Node :
    \/ Open(n) \/ Declare(n) \/ HandlerReady(n)
    \/ QuerySelf(n) \/ QueryReply(n) \/ DiscoveryDone(n) \/ OpenStreams(n)
    \/ Crash(n)

\* Tokio runs the query handler and the discovery loop; a declared
\* queryable that stays alive eventually answers (Zenoh propagates the
\* declaration).  Starting a node and crashing are not fair.
Fairness ==
  \A n \in Node :
    /\ WF_vars(Declare(n)) /\ WF_vars(HandlerReady(n))
    /\ WF_vars(QuerySelf(n)) /\ WF_vars(QueryReply(n))
    /\ WF_vars(DiscoveryDone(n)) /\ WF_vars(OpenStreams(n))

Spec == Init /\ [][Next]_vars /\ Fairness

-----------------------------------------------------------------------------
(* Properties.                                                             *)

\* spec 4.1: a discovery transport blocks connect until exactly the N-1
\* peers are visible.  When wait_zenoh_nodes_discovered returns, the ids it
\* collected are the list get_nodes_ids gives the stream set-up, in the
\* same order; that list is every id but the node's own (the reference);
\* and every one of those peers had declared its queryable.
DiscoveryBarrier ==
  \A n \in Node :
    zpc[n] \in {"discovered", "connected"} =>
      /\ nodes[n] = GetNodesIds(N, n)
      /\ ToSet(nodes[n]) = Node \ {n}
      /\ \A m \in ToSet(nodes[n]) : declared[m]

\* Once every node has been started and none panics, every node's
\* discovery loop ends and it opens its streams: nobody spins forever on
\* a peer or on itself.
DiscoveryCompletes ==
  (\A n \in Node : zpc[n] # "off") ~> (\A n \in Node : zpc[n] = "connected")

-----------------------------------------------------------------------------
(* Refinement of the start-up part of the abstract lifecycle.              *)

ZStatus ==
  [n \in Node |-> CASE zpc[n] = "off"     -> "off"
                    [] zpc[n] = "crashed" -> "exited"
                    [] OTHER              -> "booting"]

\* The nodes that have built their streams (and may have panicked since).
StreamsBuilt ==
  {n \in Node : zpc[n] = "connected" \/ (zpc[n] = "crashed" /\ streams[n] # {})}

ZLifecycle == INSTANCE NodeLifecycle
                WITH Ops <- {}, OpNode <- [o \in {} |-> 0], status <- ZStatus,
                     registered <- StreamsBuilt, initialized <- {}, announced <- {}

\* The Zenoh pre-phase gives the orchestrator what create_tcp_streams gives
\* it on TCP: a node opens its control and data streams only once every
\* node has started, and a start or a panic is never undone.
ZenohLifecycleRefinement == ZLifecycle!Spec
=============================================================================
