---------------------------- MODULE ErdosCluster ----------------------------
(***************************************************************************)
(* N ERDOS node instances (src/src/node/node.rs) bootstrapping together.   *)
(*                                                                         *)
(* Per node: the caller thread of Node::run_async and its NodeHandle, the  *)
(* node thread running async_run, the run_operators startup sequence       *)
(* (phases A..I of the spec), the supervisor tokio::select! that races the *)
(* transport workers, run_operators and the shutdown channel, and the      *)
(* local operator tasks.  The transport workers, the control-message       *)
(* handler and the operator executors are not under src/: they are        *)
(* modelled from spec.md (sections 4.2, 4.4) by what they promise.         *)
(***************************************************************************)
EXTENDS Naturals, FiniteSets

CONSTANTS
  N,              \* number of nodes, config.data_addresses.len()
  Ops,            \* operators of the scheduled graph
  OpNode,         \* operator -> node it is scheduled on (op.node_id)
  FailingOps,     \* operators whose executor may panic (setup or run)
  MaxLinkFailures,\* bound on injected pipe failures
  WriteDot        \* config.graph_filename is set (to_dot may fail)

Node == 0 .. N-1

ASSUME /\ N \in Nat \ {0}
       /\ OpNode \in [Ops -> Node]
       /\ FailingOps \subseteq Ops
       /\ MaxLinkFailures \in Nat
       /\ WriteDot \in BOOLEAN

\* The four ControlMessage::*Initialized variants of the Phase-B barrier.
Kinds == {"ControlSender", "ControlReceiver", "DataSender", "DataReceiver"}

VARIABLES
  caller,       \* state of the thread that called run_async / holds the NodeHandle
  thread,       \* node OS thread: "none" | "running" | "exited"
  latch,        \* Node.initialized: the (Mutex<bool>, Condvar) latch
  shutdownBuf,  \* values in the capacity-1 shutdown channel
  pc,           \* where run_operators (and async_run before it) is
  emitted,      \* <<k, p, n>>: p's worker of kind k serving n reported ready
  initPending,  \* init messages queued in n's control handler, <<k, p>>
  commInit,     \* the four HashSets of wait_for_communication_layer_initialized
  opInitPending,\* OperatorInitialized(op) queued in rx_from_operators
  initOps,      \* initialized_operators of wait_for_local_operators_initialized
  allPending,   \* AllOperatorsInitializedOnNode(m) queued in n's handler
  initNodes,    \* initialized_nodes of wait_for_all_operators_initialized
  op,           \* operator executor state
  runCmd,       \* RunOperator(op) sent on the operator's command channel
  linkDown,     \* peer pairs {a, b} whose pipes are closed
  linkFailures  \* number of injected pipe failures so far

handleVars == <<caller, shutdownBuf>>
commVars == <<emitted, initPending, commInit>>
localVars == <<opInitPending, initOps, allPending, initNodes>>
opVars == <<op, runCmd>>
netVars == <<linkDown, linkFailures>>
vars == <<handleVars, thread, latch, pc, commVars, localVars, opVars, netVars>>

CallerStates == {"idle", "waiting", "handle", "joining", "returned"}
Phases == {"connect", "comm", "local", "global", "running", "opsDone", "opsFailed"}
OpStates == {"none", "setup", "waitRun", "running", "done", "setupFailed",
             "waitFailed", "runFailed"}

LocalOps(n) == {o \in Ops : OpNode[o] = n}
\* Mutant: get_nodes_ids iterates over 0..=total_nodes.
PeersInclusive(n) == (0 .. N) \ {n}
Peers(n) == Node \ {n}
Pair(a, b) == {a, b}
Finished(o) == op[o] \in {"done", "setupFailed", "waitFailed", "runFailed"}
\* The operator has sent OperatorInitialized(o).
Initialized(o) == op[o] \in {"waitRun", "running", "done", "waitFailed", "runFailed"}

TypeOK ==
  /\ caller \in [Node -> CallerStates]
  /\ thread \in [Node -> {"none", "running", "exited"}]
  /\ latch \in [Node -> BOOLEAN]
  /\ shutdownBuf \in [Node -> 0 .. 1]
  /\ pc \in [Node -> Phases]
  /\ emitted \subseteq Kinds \X Node \X Node
  /\ initPending \in [Node -> SUBSET (Kinds \X Node)]
  /\ commInit \in [Node -> [Kinds -> SUBSET Node]]
  /\ opInitPending \in [Node -> SUBSET Ops]
  /\ initOps \in [Node -> SUBSET Ops]
  /\ allPending \in [Node -> SUBSET Node]
  /\ initNodes \in [Node -> SUBSET Node]
  /\ op \in [Ops -> OpStates]
  /\ runCmd \in [Ops -> BOOLEAN]
  /\ linkDown \subseteq {Pair(a, b) : a, b \in Node}
  /\ linkFailures \in 0 .. MaxLinkFailures

\* Node::new for every node; the control-handler queues start empty and the
\* barrier sets of the three wait_* loops are seeded with self.id.
Init ==
  /\ caller = [n \in Node |-> "idle"]
  /\ thread = [n \in Node |-> "none"]
  /\ latch = [n \in Node |-> FALSE]
  /\ shutdownBuf = [n \in Node |-> 0]
  /\ pc = [n \in Node |-> "connect"]
  /\ emitted = {}
  /\ initPending = [n \in Node |-> {}]
  /\ commInit = [n \in Node |-> [k \in Kinds |-> {n}]]
  /\ opInitPending = [n \in Node |-> {}]
  /\ initOps = [n \in Node |-> {}]
  /\ allPending = [n \in Node |-> {}]
  /\ initNodes = [n \in Node |-> {n}]
  /\ op = [o \in Ops |-> "none"]
  /\ runCmd = [o \in Ops |-> FALSE]
  /\ linkDown = {}
  /\ linkFailures = 0
-----------------------------------------------------------------------------
(* Caller side: Node::run_async and NodeHandle.                            *)

\* run_async spawns the node thread and blocks on the initialized latch.
RunAsync(n) ==
  /\ caller[n] = "idle"
  /\ caller' = [caller EXCEPT ![n] = "waiting"]
  /\ thread' = [thread EXCEPT ![n] = "running"]
  /\ UNCHANGED <<shutdownBuf, latch, pc, commVars, localVars, opVars, netVars>>

\* The condvar wait loop sees *started = true and returns the NodeHandle.
ReturnHandle(n) ==
  /\ caller[n] = "waiting"
  /\ latch[n]
  /\ caller' = [caller EXCEPT ![n] = "handle"]
  /\ UNCHANGED <<shutdownBuf, thread, latch, pc, commVars, localVars, opVars, netVars>>

\* NodeHandle::shutdown: try_send(()) on the capacity-1 channel, its error
\* (full, or closed because the node already exited) ignored; then join.
Shutdown(n) ==
  /\ caller[n] = "handle"
  /\ caller' = [caller EXCEPT ![n] = "joining"]
  /\ shutdownBuf' = [shutdownBuf EXCEPT ![n] = IF thread[n] = "running" THEN 1 ELSE @]
  /\ UNCHANGED <<thread, latch, pc, commVars, localVars, opVars, netVars>>

\* NodeHandle::join: wait for the node thread without asking it to stop.
Join(n) ==
  /\ caller[n] = "handle"
  /\ caller' = [caller EXCEPT ![n] = "joining"]
  /\ UNCHANGED <<shutdownBuf, thread, latch, pc, commVars, localVars, opVars, netVars>>

\* thread_handle.join() returns once the node thread has exited.
JoinReturn(n) ==
  /\ caller[n] = "joining"
  /\ thread[n] = "exited"
  /\ caller' = [caller EXCEPT ![n] = "returned"]
  /\ UNCHANGED <<shutdownBuf, thread, latch, pc, commVars, localVars, opVars, netVars>>

-----------------------------------------------------------------------------
(* Node thread: phase A of async_run, transport workers, pipe failures.    *)

\* Phase A: create_tcp_streams on both lanes returns once every pipe with
\* every peer is established, i.e. once every peer runs or has connected;
\* split_*_streams then builds the per-peer sender and receiver workers.
Connect(n) ==
  /\ thread[n] = "running"
  /\ pc[n] = "connect"
  /\ \A m \in Node : thread[m] = "running" \/ pc[m] # "connect"
  /\ pc' = [pc EXCEPT ![n] = "comm"]
  /\ UNCHANGED <<handleVars, thread, latch, commVars, localVars, opVars, netVars>>

\* (spec 4.4) p's worker of kind k for peer n starts and reports
\* k-Initialized(p) to n's control handler over its open pipe.
WorkerReady(k, p, n) ==
  /\ thread[p] = "running"
  /\ pc[p] # "connect"
  /\ Pair(p, n) \notin linkDown
  /\ <<k, p, n>> \notin emitted
  /\ emitted' = emitted \cup {<<k, p, n>>}
  /\ initPending' = [initPending EXCEPT ![n] = @ \cup {<<k, p>>}]
  /\ UNCHANGED <<handleVars, thread, latch, pc, commInit, localVars, opVars, netVars>>

\* A pipe between a and b fails (I/O error, peer process killed).
LinkFail(a, b) ==
  /\ a # b
  /\ Pair(a, b) \notin linkDown
  /\ linkFailures < MaxLinkFailures
  /\ linkDown' = linkDown \cup {Pair(a, b)}
  /\ linkFailures' = linkFailures + 1
  /\ UNCHANGED <<handleVars, thread, latch, pc, commVars, localVars, opVars>>

-----------------------------------------------------------------------------
(* run_operators: phases B to I.                                           *)

\* Mutant: the while condition forgets data_receivers_initialized.
CommLayerInitializedNoDataReceivers(n) ==
  /\ Cardinality(commInit[n]["ControlSender"]) >= N
  /\ Cardinality(commInit[n]["ControlReceiver"]) >= N
  /\ Cardinality(commInit[n]["DataSender"]) >= N

\* The while condition of wait_for_communication_layer_initialized.
CommLayerInitialized(n) ==
  /\ Cardinality(commInit[n]["ControlSender"]) >= N
  /\ Cardinality(commInit[n]["ControlReceiver"]) >= N
  /\ Cardinality(commInit[n]["DataSender"]) >= N
  /\ Cardinality(commInit[n]["DataReceiver"]) >= N

\* Mutant: DataReceiverInitialized is inserted into data_senders_initialized.
CommRecvWrongSet(n) ==
  /\ thread[n] = "running"
  /\ pc[n] = "comm"
  /\ ~CommLayerInitialized(n)
  /\ \E m \in initPending[n] :
       LET k == IF m[1] = "DataReceiver" THEN "DataSender" ELSE m[1]
       IN /\ initPending' = [initPending EXCEPT ![n] = @ \ {m}]
          /\ commInit' = [commInit EXCEPT ![n][k] = @ \cup {m[2]}]
  /\ UNCHANGED <<handleVars, thread, latch, pc, emitted, localVars, opVars, netVars>>

\* Phase B, one loop iteration: read_sender_or_receiver_initialized and
\* insert the node id into the set of the message's variant.
CommRecv(n) ==
  /\ thread[n] = "running"
  /\ pc[n] = "comm"
  /\ ~CommLayerInitialized(n)
  /\ \E m \in initPending[n] :
       /\ initPending' = [initPending EXCEPT ![n] = @ \ {m}]
       /\ commInit' = [commInit EXCEPT ![n][m[1]] = @ \cup {m[2]}]
  /\ UNCHANGED <<handleVars, thread, latch, pc, emitted, localVars, opVars, netVars>>

\* Phases C and D: schedule, the optional to_dot (whose error returns Err
\* from run_operators), ChannelManager::new, and one tokio::spawn per local
\* operator, which starts the executor's setup.
ScheduleAndSpawn(n) ==
  /\ thread[n] = "running"
  /\ pc[n] = "comm"
  /\ CommLayerInitialized(n)
  /\ \/ /\ pc' = [pc EXCEPT ![n] = "local"]
        /\ op' = [o \in Ops |-> IF o \in LocalOps(n) THEN "setup" ELSE op[o]]
     \/ /\ WriteDot
        /\ pc' = [pc EXCEPT ![n] = "opsFailed"]
        /\ UNCHANGED op
  /\ UNCHANGED <<handleVars, thread, latch, commVars, localVars, runCmd, netVars>>

\* Phase E, one loop iteration of wait_for_local_operators_initialized.
LocalRecv(n) ==
  /\ thread[n] = "running"
  /\ pc[n] = "local"
  /\ Cardinality(initOps[n]) < Cardinality(LocalOps(n))
  /\ \E o \in opInitPending[n] :
       /\ opInitPending' = [opInitPending EXCEPT ![n] = @ \ {o}]
       /\ initOps' = [initOps EXCEPT ![n] = @ \cup {o}]
  /\ UNCHANGED <<handleVars, thread, latch, pc, commVars, allPending, initNodes,
                 opVars, netVars>>

\* Mutant: the local barrier stops one operator short.
LocalDoneOffByOne(n) ==
  /\ thread[n] = "running"
  /\ pc[n] = "local"
  /\ Cardinality(initOps[n]) >= Cardinality(LocalOps(n)) - 1
  /\ LET up == {m \in Peers(n) : Pair(n, m) \notin linkDown}
     IN \E reached \in SUBSET up :
          /\ allPending' = [m \in Node |->
                              IF m \in reached THEN allPending[m] \cup {n}
                                               ELSE allPending[m]]
          /\ \/ reached = up /\ pc' = [pc EXCEPT ![n] = "global"]
             \/ up # Peers(n) /\ pc' = [pc EXCEPT ![n] = "opsFailed"]
  /\ UNCHANGED <<handleVars, thread, latch, commVars, opInitPending, initOps,
                 initNodes, opVars, netVars>>

\* Mutant: the broadcast is sent without waiting for the local operators.
LocalDoneNoLocalBarrier(n) ==
  /\ thread[n] = "running"
  /\ pc[n] = "local"
  /\ LET up == {m \in Peers(n) : Pair(n, m) \notin linkDown}
     IN \E reached \in SUBSET up :
          /\ allPending' = [m \in Node |->
                              IF m \in reached THEN allPending[m] \cup {n}
                                               ELSE allPending[m]]
          /\ \/ reached = up /\ pc' = [pc EXCEPT ![n] = "global"]
             \/ up # Peers(n) /\ pc' = [pc EXCEPT ![n] = "opsFailed"]
  /\ UNCHANGED <<handleVars, thread, latch, commVars, opInitPending, initOps,
                 initNodes, opVars, netVars>>

\* Phases F and G: the driver's setup hooks run, then
\* broadcast_local_operators_initialized sends AllOperatorsInitializedOnNode
\* to every peer.  A peer whose pipe is closed does not get it; the
\* broadcast may then fail part-way (Err from run_operators) or not yet
\* notice the closed pipe.
LocalDone(n) ==
  /\ thread[n] = "running"
  /\ pc[n] = "local"
  /\ Cardinality(initOps[n]) >= Cardinality(LocalOps(n))
  /\ LET up == {m \in Peers(n) : Pair(n, m) \notin linkDown}
     IN \E reached \in SUBSET up :
          /\ allPending' = [m \in Node |->
                              IF m \in reached THEN allPending[m] \cup {n}
                                               ELSE allPending[m]]
          /\ \/ reached = up /\ pc' = [pc EXCEPT ![n] = "global"]
             \/ up # Peers(n) /\ pc' = [pc EXCEPT ![n] = "opsFailed"]
  /\ UNCHANGED <<handleVars, thread, latch, commVars, opInitPending, initOps,
                 initNodes, opVars, netVars>>

\* Phase G, one loop iteration of wait_for_all_operators_initialized.
GlobalRecv(n) ==
  /\ thread[n] = "running"
  /\ pc[n] = "global"
  /\ Cardinality(initNodes[n]) < N
  /\ \E m \in allPending[n] :
       /\ allPending' = [allPending EXCEPT ![n] = @ \ {m}]
       /\ initNodes' = [initNodes EXCEPT ![n] = @ \cup {m}]
  /\ UNCHANGED <<handleVars, thread, latch, pc, commVars, opInitPending, initOps,
                 opVars, netVars>>

\* Mutant: the global barrier counts one node short.
GlobalDoneOffByOne(n) ==
  /\ thread[n] = "running"
  /\ pc[n] = "global"
  /\ Cardinality(initNodes[n]) >= N - 1
  /\ latch' = [latch EXCEPT ![n] = TRUE]
  /\ runCmd' = [o \in Ops |-> runCmd[o] \/ o \in LocalOps(n)]
  /\ pc' = [pc EXCEPT ![n] = "running"]
  /\ UNCHANGED <<handleVars, thread, commVars, localVars, op, netVars>>

\* The operators whose task has ended before RunOperator: their command
\* channel's receiver is dropped, so an unbounded send to them fails.
Gone(n) == {o \in LocalOps(n) : op[o] = "waitFailed"}

\* Mutant: a failed RunOperator send breaks out of the loop without `?`.
GlobalDoneBreakOnSendError(n) ==
  /\ thread[n] = "running"
  /\ pc[n] = "global"
  /\ Cardinality(initNodes[n]) >= N
  /\ latch' = [latch EXCEPT ![n] = TRUE]
  /\ \/ /\ Gone(n) = {}
        /\ runCmd' = [o \in Ops |-> runCmd[o] \/ o \in LocalOps(n)]
     \/ /\ Gone(n) # {}
        /\ \E sent \in SUBSET (LocalOps(n) \ Gone(n)) :
             runCmd' = [o \in Ops |-> runCmd[o] \/ o \in sent]
  /\ pc' = [pc EXCEPT ![n] = "running"]
  /\ UNCHANGED <<handleVars, thread, commVars, localVars, op, netVars>>

\* Phases H and I: set_node_initialized, then RunOperator(op) over
\* channels_to_operators, a HashMap iterated in no fixed order.  The first
\* send to an operator in Gone(n) fails and `?` returns Err from
\* run_operators; the operators after it in the iteration get nothing.
GlobalDone(n) ==
  /\ thread[n] = "running"
  /\ pc[n] = "global"
  /\ Cardinality(initNodes[n]) >= N
  /\ latch' = [latch EXCEPT ![n] = TRUE]
  /\ \/ /\ Gone(n) = {}
        /\ runCmd' = [o \in Ops |-> runCmd[o] \/ o \in LocalOps(n)]
        /\ pc' = [pc EXCEPT ![n] = "running"]
     \/ /\ Gone(n) # {}
        /\ \E sent \in SUBSET (LocalOps(n) \ Gone(n)) :
             runCmd' = [o \in Ops |-> runCmd[o] \/ o \in sent]
        /\ pc' = [pc EXCEPT ![n] = "opsFailed"]
  /\ UNCHANGED <<handleVars, thread, commVars, localVars, op, netVars>>

\* join_all(join_handles) completes; run_operators returns Ok(()) whatever
\* the operator tasks returned.
OperatorsJoined(n) ==
  /\ thread[n] = "running"
  /\ pc[n] = "running"
  /\ \A o \in LocalOps(n) : Finished(o)
  /\ pc' = [pc EXCEPT ![n] = "opsDone"]
  /\ UNCHANGED <<handleVars, thread, latch, commVars, localVars, opVars, netVars>>
-----------------------------------------------------------------------------
(* Supervisor: the tokio::select! at the end of async_run.                 *)

\* Mutant: worker-group errors are logged as non-fatal, as in the N = 1 branch.
SuperviseTransportNonFatal(n) ==
  /\ thread[n] = "running"
  /\ pc[n] # "connect"
  /\ \/ shutdownBuf[n] = 1
     \/ pc[n] = "opsFailed"
  /\ thread' = [thread EXCEPT ![n] = "exited"]
  /\ shutdownBuf' = [shutdownBuf EXCEPT ![n] = 0]
  /\ linkDown' = linkDown \cup {Pair(n, m) : m \in Peers(n)}
  /\ UNCHANGED <<caller, latch, pc, commVars, localVars, opVars, linkFailures>>

\* The first completed branch ends async_run; run() returns, the runtime is
\* dropped with every task on it, and the node's pipes close.  With N = 1
\* the worker groups are joined (and finish) before the select, so only
\* run_operators and the shutdown channel race; with N > 1 a worker group
\* that fails because a pipe closed also ends the node.  The `Err(e) =
\* ops_fut` pattern disables that branch when run_operators returns Ok.
Supervise(n) ==
  /\ thread[n] = "running"
  /\ pc[n] # "connect"
  /\ \/ shutdownBuf[n] = 1
     \/ pc[n] = "opsFailed"
     \/ N > 1 /\ \E m \in Peers(n) : Pair(n, m) \in linkDown
  /\ thread' = [thread EXCEPT ![n] = "exited"]
  /\ shutdownBuf' = [shutdownBuf EXCEPT ![n] = 0]
  /\ linkDown' = linkDown \cup {Pair(n, m) : m \in Peers(n)}
  /\ UNCHANGED <<caller, latch, pc, commVars, localVars, opVars, linkFailures>>

-----------------------------------------------------------------------------
(* Operator executors (spec 4.5 D, E, I): not under src/.                  *)

\* The executor finishes setup and sends OperatorInitialized(op) on operator_tx.
OpSetup(o) ==
  /\ thread[OpNode[o]] = "running"
  /\ op[o] = "setup"
  /\ op' = [op EXCEPT ![o] = "waitRun"]
  /\ opInitPending' = [opInitPending EXCEPT ![OpNode[o]] = @ \cup {o}]
  /\ UNCHANGED <<handleVars, thread, latch, pc, commVars, initOps, allPending,
                 initNodes, runCmd, netVars>>

\* The executor receives RunOperator(op) and runs.
OpRun(o) ==
  /\ thread[OpNode[o]] = "running"
  /\ op[o] = "waitRun"
  /\ runCmd[o]
  /\ op' = [op EXCEPT ![o] = "running"]
  /\ UNCHANGED <<handleVars, thread, latch, pc, commVars, localVars, runCmd, netVars>>

\* The executor's task completes, normally or by a panic: in setup, while
\* waiting for RunOperator, or while running.
OpFinish(o) ==
  /\ thread[OpNode[o]] = "running"
  /\ \/ op[o] = "running" /\ op' = [op EXCEPT ![o] = "done"]
     \/ o \in FailingOps /\ op[o] = "setup" /\ op' = [op EXCEPT ![o] = "setupFailed"]
     \/ o \in FailingOps /\ op[o] = "waitRun" /\ op' = [op EXCEPT ![o] = "waitFailed"]
     \/ o \in FailingOps /\ op[o] = "running" /\ op' = [op EXCEPT ![o] = "runFailed"]
  /\ UNCHANGED <<handleVars, thread, latch, pc, commVars, localVars, runCmd, netVars>>

-----------------------------------------------------------------------------
Next ==
  \/ \E n \in Node :
       \/ RunAsync(n) \/ ReturnHandle(n) \/ Shutdown(n) \/ Join(n) \/ JoinReturn(n)
       \/ Connect(n) \/ CommRecv(n) \/ ScheduleAndSpawn(n) \/ LocalRecv(n)
       \/ LocalDone(n) \/ GlobalRecv(n) \/ GlobalDone(n) \/ OperatorsJoined(n)
       \/ Supervise(n)
  \/ \E k \in Kinds, p, n \in Node : p # n /\ WorkerReady(k, p, n)
  \/ \E a, b \in Node : LinkFail(a, b)
  \/ \E o \in Ops : OpSetup(o) \/ OpRun(o) \/ OpFinish(o)

\* Tokio runs every ready task eventually and a node thread is scheduled by
\* the OS: every step of the runtime, the workers and the operators is
\* weakly fair.  The users' calls (run_async, shutdown, join), pipe failures
\* and operator panics are not.
Fairness ==
  /\ \A n \in Node :
       /\ WF_vars(ReturnHandle(n)) /\ WF_vars(JoinReturn(n))
       /\ WF_vars(Connect(n)) /\ WF_vars(CommRecv(n))
       /\ WF_vars(ScheduleAndSpawn(n)) /\ WF_vars(LocalRecv(n))
       /\ WF_vars(LocalDone(n)) /\ WF_vars(GlobalRecv(n))
       /\ WF_vars(GlobalDone(n)) /\ WF_vars(OperatorsJoined(n))
       /\ WF_vars(Supervise(n))
  /\ \A k \in Kinds, p, n \in Node : p # n => WF_vars(WorkerReady(k, p, n))
  /\ \A o \in Ops : WF_vars(OpSetup(o)) /\ WF_vars(OpRun(o))
                    /\ WF_vars(op[o] = "running" /\ OpFinish(o) /\ op'[o] = "done")

Spec == Init /\ [][Next]_vars /\ Fairness

-----------------------------------------------------------------------------
(* Properties.                                                             *)

\* Phase-B barrier (node.rs wait_for_communication_layer_initialized): no
\* operator is spawned on a node before the control sender, control
\* receiver, data sender and data receiver of every peer serving that node
\* have reported ready.
CommBarrier ==
  \A o \in Ops :
    op[o] # "none" =>
      \A k \in Kinds, p \in Peers(OpNode[o]) : <<k, p, OpNode[o]>> \in emitted

\* Phase-G barrier (run_operators): a node releases its run_async caller
\* and sends RunOperator only when every operator of the whole graph, on
\* every node, has sent OperatorInitialized.
GlobalBarrier ==
  \A n \in Node : latch[n] => \A q \in Ops : Initialized(q)

\* node.rs:452-456: once a node has set its latch, every one of its
\* operators still waiting for RunOperator gets it, unless the node exits:
\* a failed send to an operator that has already ended must not leave the
\* others waiting inside join_all on a node that runs on.
RunOperatorReachesAll ==
  \A o \in Ops :
    (latch[OpNode[o]] /\ op[o] = "waitRun")
      ~> (op[o] # "waitRun" \/ thread[OpNode[o]] = "exited")

\* async_run's select ends a node on a transport error: once one node
\* exits, for any reason, every other node exits too.
ShutdownPropagates ==
  (\E n \in Node : thread[n] = "exited") ~> (\A n \in Node : thread[n] = "exited")

\* Startup cannot hang while every node is up: once every caller waits in
\* run_async, either every latch is set or some node has exited.
StartupCompletes ==
  (\A n \in Node : caller[n] = "waiting")
    ~> ((\A n \in Node : latch[n]) \/ (\E n \in Node : thread[n] = "exited"))

\* run_async's doc comment says it returns: a caller is never left waiting
\* on the initialized latch of a node thread that has already exited.
CallerNotStranded ==
  \A n \in Node : thread[n] = "exited" => caller[n] # "waiting"

\* spec 4.6: "Operator error => log, shutdown": an operator whose task
\* panics while running leads its node to exit.
OperatorPanicStopsNode ==
  \A o \in Ops : op[o] = "runFailed" ~> thread[OpNode[o]] = "exited"

\* spec 4.6 and 7 ("operators surface errors to the orchestrator ...
\* Operator error => log, shutdown"): an operator whose task panics in its
\* setup, before OperatorInitialized, leads its node to exit.  Phase E
\* (node.rs:341) awaits rx_from_operators while run_operators still holds
\* operator_tx, and the join handles are only awaited in phase I.
OperatorSetupPanicStopsNode ==
  \A o \in Ops : op[o] = "setupFailed" ~> thread[OpNode[o]] = "exited"

-----------------------------------------------------------------------------
(* Refinement of the abstract lifecycle.                                   *)

\* A node has announced once its broadcast of AllOperatorsInitializedOnNode
\* happened: it reached or passed phase G (its latch is set even when the
\* RunOperator loop then fails), or some peer has queued or counted it.
Announced ==
  {n \in Node : \/ pc[n] \in {"global", "running", "opsDone"}
                \/ latch[n]
                \/ \E m \in Peers(n) : n \in allPending[m] \cup initNodes[m]}

\* A node has built its ChannelManager once ScheduleAndSpawn succeeded:
\* it is past phase D, or its operators are spawned (run_operators may have
\* returned Err since).
ChannelManagerBuilt ==
  {n \in Node : \/ pc[n] \in {"local", "global", "running", "opsDone"}
                \/ latch[n]
                \/ \E o \in LocalOps(n) : op[o] # "none"}

NodeStatus ==
  [n \in Node |-> CASE thread[n] = "none"   -> "off"
                    [] thread[n] = "exited" -> "exited"
                    [] latch[n]             -> "released"
                    [] OTHER                -> "booting"]

Lifecycle == INSTANCE NodeLifecycle
               WITH status <- NodeStatus,
                    registered <- ChannelManagerBuilt,
                    initialized <- {o \in Ops : Initialized(o)},
                    announced <- Announced

\* The node bootstrap of node.rs implements the abstract lifecycle: no
\* node is released before every node announced, no node announces before
\* its own operators are initialized, and nothing is ever undone.
LifecycleRefinement == Lifecycle!Spec
=============================================================================
