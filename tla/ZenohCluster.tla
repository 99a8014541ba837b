---------------------------- MODULE ZenohCluster ----------------------------
(***************************************************************************)
(* Node::async_run on the Zenoh transports: the discovery pre-phase of     *)
(* ZenohDiscovery composed with the bootstrap of ErdosCluster.  On these   *)
(* builds the create_tcp_streams of phase A is compiled out: a node opens  *)
(* its Zenoh session when its thread starts, runs the discovery loop, and  *)
(* builds its control and data workers to get_nodes_ids once the loop has *)
(* returned; phases B to I then run as on TCP.  A node that exits drops    *)
(* its session with it, so its queryable stops answering: ZenohDiscovery's *)
(* phase "crashed" is the phase of a node whose session is gone.           *)
(* Every other step of either component leaves the other one unchanged.   *)
(***************************************************************************)
EXTENDS ErdosCluster

CONSTANT MaxCrashes

VARIABLES zpc, declared, zsig, cur, nodes, streams, crashes

Z == INSTANCE ZenohDiscovery

zvars == <<zpc, declared, zsig, cur, nodes, streams, crashes>>
allVars == <<vars, zvars>>

ZTypeOK == TypeOK /\ Z!TypeOK

ZInit == Init /\ Z!Init

\* run_async spawns the node thread, which opens the Zenoh session, creates
\* ztx/zrx and spawns query_handler before anything else of async_run.
ZRunAsync(n) == RunAsync(n) /\ Z!Open(n)

\* Phase A on Zenoh: once wait_zenoh_nodes_discovered has returned,
\* get_control_streams and get_data_streams build the workers.
ZConnect(n) ==
  /\ thread[n] = "running"
  /\ pc[n] = "connect"
  /\ Z!OpenStreams(n)
  /\ pc' = [pc EXCEPT ![n] = "comm"]
  /\ UNCHANGED <<handleVars, thread, latch, commVars, localVars, opVars, netVars>>

\* The query handler and the discovery loop run on the node's runtime.
ZDiscover(n) ==
  /\ \/ Z!Declare(n) \/ Z!HandlerReady(n) \/ Z!QuerySelf(n)
     \/ Z!QueryReply(n) \/ Z!DiscoveryDone(n)
  /\ UNCHANGED vars

\* An unwrap of the pre-phase panics (opening the session, the zrx recv,
\* the discovery result): the node thread ends before the latch is set and
\* its session is dropped; its peers see its pipes close.
ZCrash(n) ==
  /\ pc[n] = "connect"
  /\ Z!Crash(n)
  /\ thread' = [thread EXCEPT ![n] = "exited"]
  /\ linkDown' = linkDown \cup {Pair(n, m) : m \in Peers(n)}
  /\ UNCHANGED <<handleVars, latch, pc, commVars, localVars, opVars, linkFailures>>

\* A node that leaves the select drops its runtime and its session.
ZSupervise(n) ==
  /\ Supervise(n)
  /\ zpc' = [zpc EXCEPT ![n] = "crashed"]
  /\ UNCHANGED <<declared, zsig, cur, nodes, streams, crashes>>

\* The steps of ErdosCluster that do not touch the transport's pre-phase.
Orchestrate(n) ==
  \/ ReturnHandle(n) \/ Shutdown(n) \/ Join(n) \/ JoinReturn(n)
  \/ CommRecv(n) \/ ScheduleAndSpawn(n) \/ LocalRecv(n)
  \/ LocalDone(n) \/ GlobalRecv(n) \/ GlobalDone(n) \/ OperatorsJoined(n)

ZNext ==
  \/ \E n \in Node :
       \/ ZRunAsync(n) \/ ZDiscover(n) \/ ZConnect(n) \/ ZCrash(n) \/ ZSupervise(n)
       \/ Orchestrate(n) /\ UNCHANGED zvars
  \/ \E k \in Kinds, p, n \in Node : p # n /\ WorkerReady(k, p, n) /\ UNCHANGED zvars
  \/ \E a, b \in Node : LinkFail(a, b) /\ UNCHANGED zvars
  \/ \E o \in Ops : (OpSetup(o) \/ OpRun(o) \/ OpFinish(o)) /\ UNCHANGED zvars

\* The fairness of ErdosCluster, with ZConnect for Connect, and that of
\* ZenohDiscovery: every step of the runtimes, the workers, the discovery
\* loop and the operators is weakly fair; users' calls and panics are not.
ZFairness ==
  /\ \A n \in Node :
       /\ WF_allVars(ReturnHandle(n) /\ UNCHANGED zvars)
       /\ WF_allVars(JoinReturn(n) /\ UNCHANGED zvars)
       /\ WF_allVars(ZConnect(n)) /\ WF_allVars(ZDiscover(n))
       /\ WF_allVars(CommRecv(n) /\ UNCHANGED zvars)
       /\ WF_allVars(ScheduleAndSpawn(n) /\ UNCHANGED zvars)
       /\ WF_allVars(LocalRecv(n) /\ UNCHANGED zvars)
       /\ WF_allVars(LocalDone(n) /\ UNCHANGED zvars)
       /\ WF_allVars(GlobalRecv(n) /\ UNCHANGED zvars)
       /\ WF_allVars(GlobalDone(n) /\ UNCHANGED zvars)
       /\ WF_allVars(OperatorsJoined(n) /\ UNCHANGED zvars)
       /\ WF_allVars(ZSupervise(n))
  /\ \A k \in Kinds, p, n \in Node :
       p # n => WF_allVars(WorkerReady(k, p, n) /\ UNCHANGED zvars)
  /\ \A o \in Ops :
       /\ WF_allVars(OpSetup(o) /\ UNCHANGED zvars)
       /\ WF_allVars(OpRun(o) /\ UNCHANGED zvars)
       /\ WF_allVars(op[o] = "running" /\ OpFinish(o) /\ op'[o] = "done" /\ UNCHANGED zvars)

ZSpec == ZInit /\ [][ZNext]_allVars /\ ZFairness
=============================================================================
