# TLA+ models of the ERDOS node runtime

This directory models the per-node runtime of ERDOS (`src/src/node/node.rs`)
and the error classification of `src/src/communication/errors.rs`. It covers:

- how N nodes bootstrap together;
- how a node supervises its tasks;
- how the `NodeHandle` caller interacts with the node thread;
- how Zenoh nodes discover each other;
- how data frames travel between nodes while the nodes are still starting.

Every module is checked with TLC. Run a check from this directory with
`tlc -workers 2 -config <cfg> <module>`, where `<module>` is the run's module
in section 3.

## 1. Inventory

### Components

| Component | Source | State | Operations |
|---|---|---|---|
| Node orchestrator | `node.rs` `Node::run_operators`, `wait_*`, `broadcast_*`, `set_node_initialized` | phase; the four Phase-B `HashSet`s; `initialized_operators`; `initialized_nodes`; `channels_to_operators`; join handles | phases A–I of spec 4.5 |
| Supervisor | `node.rs` `Node::async_run` (the `tokio::select!`) | the raced futures | first finished branch ends the node; with `num_nodes <= 1` the worker groups are joined first |
| Node handle | `node.rs` `Node::run_async`, `NodeHandle` | `initialized` latch (`Mutex<bool>` + `Condvar`); shutdown channel (capacity 1); thread handle | `run_async`, `join`, `shutdown` |
| Zenoh discovery | `node.rs` `query_handler`, `wait_zenoh_nodes_discovered`, `get_nodes_ids` | declared queryable, `ztx`/`zrx`, list of discovered nodes, query cursor `n` | declare queryable, query peers until N-1 answer |
| Sender/receiver workers | not under `src/` (spec 4.4) | per peer and lane: pipe half, work queue | report `*Initialized`, shuttle frames, fail on closed pipe |
| Control-message handler | not under `src/` (spec 4.2) | queues per message kind | `broadcast_to_nodes`, `read_sender_or_receiver_initialized`, `read_all_operators_initialized_on_node_msg` |
| Channel manager, registries | not under `src/` (spec 4.3); created in `Node::new`, filled by `ChannelManager::new` (`node.rs:393`) | stream → endpoint maps | `get_send_endpoint`, `get_recv_endpoint` |
| Operator executors | not under `src/` (spec 4.5) | setup/run state | send `OperatorInitialized`, wait for `RunOperator`, run |
| Communication errors | `src/src/communication/errors.rs` | none | `From` conversions between error enums |

### How the components interact

- The caller thread calls `run_async`. This spawns the node thread and blocks
  on the `initialized` latch.
- The node thread runs `async_run`. Phase A opens the pipes and builds one
  worker per peer and lane. It then races four worker-group futures,
  `run_operators` and the shutdown channel.
- `run_operators` talks to the workers through the control handler: Phase B
  readiness reports and the Phase G `AllOperatorsInitializedOnNode`
  broadcast.
- It talks to its operators through an unbounded `operator_tx` channel
  (`OperatorInitialized`) and one command channel per operator
  (`RunOperator`).
- Nodes only ever affect each other through their pipes. When a node exits,
  its runtime is dropped and its pipes close, so its peers' workers fail.
- On the Zenoh transports, `async_run` first spawns `query_handler` and runs
  `wait_zenoh_nodes_discovered` until every peer has answered a query.
- The data receivers run from phase A. Their registry
  `channels_to_receivers` is filled only in phase C, and a peer's driver
  hooks may already write in its phase F. Frames can therefore arrive for a
  stream the receiver does not know yet.

### What is hard

- Interleavings across nodes: readiness reports and broadcasts arrive in any
  order, and a faster node can be in Phase G or running while a slower one
  is still in Phase B.
- Failures at any phase: a pipe error, a partial broadcast, a `to_dot` error,
  an operator panic.
- The supervisor's `select!`: `Err(e) = ops_fut` disables that branch on
  `Ok`.
- The `run_async` caller blocks on a latch, outside the runtime, and learns
  nothing about how the node ended.
- Discovery has no timeout: it spins on a peer until that peer answers.
- Frames that overtake a peer's start-up; full work queues.

### What makes each component correct

- Orchestrator:
  - no operator spawned before every peer's four workers are ready
    (Phase-B barrier);
  - no release before every operator of every node is initialized (Phase-G
    barrier);
  - startup completes when nothing fails;
  - after release, every operator gets `RunOperator` or the node exits.
- Supervisor: any exit of one node brings every node down. Operator errors
  shut the node down (spec 4.6).
- Handle: `run_async` returns (its doc comment), and `shutdown` ends the
  thread.
- Discovery: it ends with exactly the N-1 peers that `get_nodes_ids` opens
  streams to (spec 4.1).
- Data lane: per-stream FIFO with no loss or duplicate (spec 8), and
  `NoCapacity` is backpressure, never a stop (spec 7).

The hazards these properties are aimed at are listed with their source lines
in `PROJECT.json` under `hazards`.

## 2. Modules

### `ErdosCluster.tla`

This module models N nodes running the TCP path of `node.rs`.

State, per node, with the code it stands for:

| Variable | Code |
|---|---|
| `caller` | the `run_async` caller, then the `NodeHandle` holder |
| `thread` | the node OS thread |
| `latch` | `initialized` |
| `shutdownBuf` | the shutdown channel |
| `pc` | where `async_run` / `run_operators` is |
| `commInit` | the four Phase-B sets, seeded with `self.id` |
| `initOps` | `initialized_operators` |
| `initNodes` | `initialized_nodes`, seeded with `self.id` |
| `initPending`, `opInitPending`, `allPending` | the handler and operator channels, as sets |

`op` and `runCmd` hold the operator executors and their command channels.
`linkDown` holds the closed pipes.

Actions: each is one atomic step of the code between two `.await`s, or one
iteration of a `while` loop.

- `RunAsync`, `ReturnHandle`, `Shutdown`, `Join` and `JoinReturn` are the
  caller and handle.
- `Connect` is phase A. It blocks until every peer is up or has connected.
- `CommRecv` is one iteration of `wait_for_communication_layer_initialized`;
  `CommLayerInitialized` is its `while` condition.
- `ScheduleAndSpawn` is phases C and D. It includes the disjunct where
  `to_dot` fails.
- `LocalRecv` is one iteration of `wait_for_local_operators_initialized`.
- `LocalDone` is the driver setup hooks plus
  `broadcast_local_operators_initialized`. The broadcast can fail part-way.
- `GlobalRecv` is one iteration of `wait_for_all_operators_initialized`.
- `GlobalDone` is `set_node_initialized` plus the `RunOperator` loop.
  - The loop runs over a `HashMap`, so in no fixed order.
  - A send to an operator whose task has already ended (`Gone`) fails, and
    `?` returns `Err`.
  - Any subset of the other operators has been sent `RunOperator` by then.
- `OperatorsJoined` is `join_all`, which returns `Ok`.
- `Supervise` is the `select!`: shutdown, `run_operators` `Err`, or a worker
  error when `N > 1`. A node exit closes the node's pipes.

Modelled from the spec (that code is not under `src/`): `WorkerReady`
(spec 4.4), `LinkFail` (spec 4.1), and the operator executor steps
`OpSetup`, `OpRun` and `OpFinish` (spec 4.5). An executor may panic in
setup, while waiting for `RunOperator`, or while running.

The module also contains the mutants used by the checks. Each one sits just
before the definition it mutates, and `Next` never refers to one. The same
holds in every module.

### `NodeLifecycle.tla`

The abstract promise of the bootstrap:

- nodes start;
- once every node has started, a node registers its streams (builds its
  channel manager);
- operators of registered nodes initialize;
- a registered node announces once its own operators are initialized;
- a node is released only once every node has announced;
- a started node may exit at any time.

`ErdosCluster` implements it through `Lifecycle == INSTANCE NodeLifecycle
WITH ...`, checked as the property `LifecycleRefinement`. The refinement
mapping:

- `status` comes from `thread` and `latch`;
- `registered` is `ChannelManagerBuilt`: the nodes past phase D, or whose
  operators are spawned;
- `initialized` is the set of operators that sent `OperatorInitialized`;
- `announced` is the set of nodes that reached phase G or set their latch,
  or that some peer has counted or queued.

`DataLane` uses the same module for its nodes. The data lane's assumptions
about the orchestrator are therefore exactly what `ErdosCluster` is checked
to implement.

### `ZenohDiscovery.tla`

This module models the Zenoh discovery pre-phase of `async_run`
(`node.rs:467-492`, `611-678`).

Variables:

| Variable | Code |
|---|---|
| `zpc` | where `async_run` is: `off`, `open`, `discovering`, `discovered`, `connected` or `crashed` |
| `declared` | `query_handler` has declared `/<id>/info` |
| `zsig` | the capacity-1 `ztx`/`zrx` channel |
| `cur` | the cursor `n` |
| `nodes` | the vector `nodes` |
| `streams` | the peers the node has built control and data workers for |

Actions:

- `Open`: opening the session, making the channel and spawning the handler.
- `Declare`: `query_handler` up to `tx.send(())`.
- `HandlerReady`: `zrx.recv()` returns.
- `QuerySelf`: one loop iteration where `n == node_id`.
- `QueryReply`: one loop iteration where a reply arrives. The reply comes
  from `Replies`, the queryable `query_handler` declared for that id, while
  its node is alive.
- A query with no reply is a stuttering step: `spin_loop`, then the same `n`
  again.
- `DiscoveryDone`: the loop exits and the result is unwrapped.
- `OpenStreams`: `get_control_streams`, then `get_data_streams`, over
  `get_nodes_ids` (`node.rs:165-224`, called at `518-526`).
- `Crash`: a panic of an `unwrap` in `async_run`. It drops the node's
  session.
- `GetNodesIds` is `get_nodes_ids`, written as the recursive operator
  `NodesFrom`.

The module refines `NodeLifecycle` through `ZLifecycle`, checked as
`ZenohLifecycleRefinement`:

- `status` comes from `zpc`;
- `registered` is `StreamsBuilt`, the nodes that have opened their
  streams.

Operators are not part of this module, so `initialized` and `announced` stay
empty. The property says that the discovery pre-phase gives the orchestrator
what `create_tcp_streams` gives it on TCP: a node builds its streams only
once every node has started.

### `DataLane.tla`

This module models the data lane, from spec 4.3 and 4.4 (that code is not
under `src/`), placed in the node start-up of `node.rs`.

Node steps, each an action of `NodeLifecycle`:

- `Start` is phase A. It starts a data sender and a data receiver per peer,
  with empty registries.
- `Register` is phase C, `ChannelManager::new`.
- `Hook` is phases E and F: the driver setup hooks and the broadcast.
- `Release` is phases G to I.
- `Exit` is the `select!` ending the node on a worker error.
- `Stop` is the node ending through the shutdown branch or an
  `run_operators` `Err`.

A node that exits closes all its pipes.

The data:

- A writer is a driver (`DriverStreams`) from its `Hook` on, or an operator
  once released.
- `Send` is the write endpoint's `try_send` into the data sender's bounded
  queue. `TrySendResult` gives `Ok`, `Full` or `Closed`, and
  `CommErrorOfTrySend` (`errors.rs:55-62`) classifies the failure.
  `NoCapacity` is retried, as a stuttering step; `Disconnected` ends the
  writer.
- `SenderPump` writes the next frame to the pipe.
- `Recv` demultiplexes one frame. A frame goes to the reader's queue if the
  registry knows its stream and nothing is staged; otherwise it goes to the
  staging area.
- `Unstage` retries the oldest staged frame once the registry is filled,
  while the node runs.
- `LinkFail` closes a pipe, and the frames in flight on it are lost.
- Frames are abstracted to (stream, sequence number).

### `StreamChannel.tla`

This is the abstract promise of one inter-node stream edge `<<s, b>>`, from
spec 4.1, 4.4 and 8:

- messages 1, 2, ... are written in order, read in order, and each read at
  most once;
- an edge breaks when its pipe closes or a node at either end exits;
- after a break nothing more is written, and a suffix of the unread
  messages may be lost;
- an intact edge loses nothing.

`DataLane` implements it through `Channel == INSTANCE StreamChannel WITH
...`, checked as `StreamRefinement`. The refinement mapping:

- `sent` is the writer's `cursor`;
- `got` is `delivered`;
- `chan` is `InFlight`: the frames of `s` in the staging area, then on the
  pipe, then in the work queue. The work queue is left out once the pipe is
  closed, and nothing is in flight to a node that has exited.

### `ZenohCluster.tla`

`ZenohCluster` composes `ZenohDiscovery` with `ErdosCluster`: the
`async_run` of the Zenoh builds. It extends `ErdosCluster`, declares the
variables of `ZenohDiscovery` and instantiates that module as `Z`. Each
step of one component leaves the other component's variables unchanged,
except for the steps where the code joins them:

- `ZRunAsync` (`node.rs:463-483`): `RunAsync` and `Z!Open` in one step.
  The node thread opens the session and spawns `query_handler` before
  anything else.
- `ZDiscover`: the query handler and the discovery loop
  (`node.rs:609-668`).
- `ZConnect` (`node.rs:518-526`): phase A on Zenoh. `Z!OpenStreams`
  replaces the TCP guard of `Connect`, and `pc` moves to `comm`.
- `ZCrash` (`node.rs:468-492`): an `unwrap` of the pre-phase panics. The
  node thread exits before its latch is set, its session is dropped, and
  its pipes close for its peers.
- `ZSupervise` (`node.rs:528-607`): `Supervise`. The exiting node also
  drops its session, so its queryable stops answering. In the composition,
  `zpc = "crashed"` means "session gone".
- `Orchestrate`: the remaining steps of `run_operators` and the node
  handle, unchanged.

`ZFairness` is the fairness of both components, with `ZConnect` in place
of `Connect`.

A check outside the runs shows that a `ZCrash` during the pre-phase
strands the node's own `run_async` caller. This is `CallerNotStranded`
again, so finding 1 also holds on Zenoh, there through an injected panic.

Composing the modules also shows that, for safety, discovery is redundant
with the phase-B barrier. A node passes phase B only once every peer's
workers have reported, and a peer's workers exist only once that peer has
started. On Zenoh, discovery is needed for liveness, and
run zenoh_cluster checks that the two phases together complete.

### MC modules

- `MC_ErdosCluster.tla` uses the operators `o0`, `o1` and `o2` as model
  values.
  - Two-node graph: node 0 hosts `o0` and `o2`, node 1 hosts `o1`. The
    local barrier waits for two operators, and the global barrier waits for
    a peer.
- `MC_DataLane.tla` uses the streams `s0` and `s1` as model values.
  - Two nodes: node 0 writes `s0` from a driver hook and `s1` from an
    operator. Both are read on node 1, so they share one pipe.
  - Three nodes: node 0 fans `s0` out to nodes 1 and 2.
- `MC_ZenohCluster.tla` has the same two-node graph as `MC_ErdosCluster`.

## 3. Runs

| Run | Module | cfg | Checks | Shows |
|---|---|---|---|---|
| safety | `MC_ErdosCluster` | `ErdosCluster_safety.cfg` | TypeOK, CommBarrier, GlobalBarrier, ShutdownPropagates, LifecycleRefinement | Both barriers hold under one pipe failure, a panicking operator and a failing `to_dot`. The code refines the lifecycle, and one exit brings every node down. About 56k states. |
| liveness | `MC_ErdosCluster` | `ErdosCluster_liveness.cfg` | StartupCompletes | Without failures, startup completes or some node has exited. |
| runop | `MC_ErdosCluster` | `ErdosCluster_runop.cfg` | RunOperatorReachesAll | `o2` may end before `RunOperator` reaches it, next to `o0` on node 0. The failed send leaves `o0` without `RunOperator`, but `run_operators` returns `Err` and the node exits, so `o0` does not wait forever. |
| stranded | `MC_ErdosCluster` | `ErdosCluster_stranded.cfg` | CallerNotStranded (expected violation) | `run_async` can wait forever with no injected failure (finding 1). |
| oppanic | `MC_ErdosCluster` | `ErdosCluster_oppanic.cfg` | OperatorPanicStopsNode (expected violation) | An operator panic does not shut the node down (finding 2). |
| setuppanic | `MC_ErdosCluster` | `ErdosCluster_setuppanic.cfg` | OperatorSetupPanicStopsNode (expected violation) | An operator panic in setup hangs the whole cluster (finding 3). |
| zenoh_safety | `ZenohDiscovery` | `ZenohDiscovery_safety.cfg` | TypeOK, DiscoveryBarrier, ZenohLifecycleRefinement | Four nodes start in any order, queries go unanswered until a queryable is declared, and one node may panic. A node that leaves discovery has exactly the list `get_nodes_ids` gives, and every id in it is declared. A node opens its streams only once every node has started. About 19k states. |
| zenoh_liveness | `ZenohDiscovery` | `ZenohDiscovery_liveness.cfg` | DiscoveryCompletes | With four nodes started and none panicking, every discovery loop ends and every node opens its streams. |
| zenoh_cluster | `MC_ZenohCluster` | `ZenohCluster.cfg` | ZTypeOK, LifecycleRefinement, StartupCompletes | On the Zenoh build with two nodes, a pre-phase panic and one pipe failure, the bootstrap still implements the abstract lifecycle. Discovery and the bootstrap barriers together release every caller unless a node exits. No operator panics here, because those hang startup (finding 3). About 46k states. |
| datalane_fifo | `MC_DataLane` | `DataLane_fifo.cfg` | TypeOK, StreamRefinement | A driver stream can overtake the peer's phase C, and it shares a pipe with an operator stream. There is a one-slot queue, one pipe failure, and either node may stop. Under all of that, the data lane implements `StreamChannel`: each edge is read in order with no duplicate or gap, and loses only a suffix, only once it breaks. About 19k states. |
| datalane_delivery | `MC_DataLane` | `DataLane_delivery.cfg` | AllDelivered | With three nodes and fan-out through one-slot queues, backpressure never stops a writer: every message reaches every consumer. |

### Findings

1. **Stranded `run_async` caller** (`node.rs:146`).
   - TLC's trace: node 0 passes Phase G and its caller gets the handle and
     calls `shutdown()`. Node 0 exits and closes its pipes.
   - Node 1 is still reading `AllOperatorsInitializedOnNode` in Phase G. Its
     worker groups fail, and the `select!` ends node 1 without setting the
     latch.
   - Node 1's caller blocks in `run_async` forever. It never gets a handle,
     so it cannot join or shut the node down.
   - Any error before phase H has the same effect: a pipe error, a broadcast
     error, or a `to_dot` error.
2. **Operator panics are swallowed** (`node.rs:459`).
   - `join_all`'s results are discarded and `run_operators` returns `Ok`.
   - The `Err(e) = ops_fut` branch is therefore disabled, and the node runs
     on. Spec 4.6 and 7 say an operator error shuts the node down.
   - An operator that ends before `RunOperator` is different. The failed
     send's `?` does end the node (run `runop`).
3. **An operator panic in setup hangs the cluster** (`node.rs:341`).
   - Phase E awaits `rx_from_operators` while `run_operators` still holds
     `operator_tx`. The join handles are only awaited in phase I.
   - TLC's trace: `o1` panics in setup, so node 1 stays in phase E for
     ever. Node 0 waits in phase G for node 1's broadcast. No latch is set,
     so both callers stay blocked in `run_async`, without a handle to call
     `shutdown`.
   - Spec 4.6 and 7 say an operator error shuts the node down. Spec 8 says
     phase E blocks for an operator that never reports, and expects a
     timeout-triggered abort, but the code has no timeout.

### Bounds

- **ErdosCluster.**
  - Two nodes are enough for every cross-node interleaving of the two
    barriers: each node has a peer whose reports and broadcasts it must
    wait for.
  - Three operators put two on one node. This exercises the local barrier,
    and a failing `RunOperator` send next to an operator still waiting for
    it.
  - One pipe failure and one panicking operator exercise every failure
    path. With N = 2 a second pipe failure is impossible: there is only one
    pair.
  - N = 3 multiplies the 4·N·(N-1) readiness reports (24 instead of 8).
    Even with one operator per node, no failure and a single invariant,
    TLC did not finish within 10 minutes.
- **ZenohDiscovery.**
  - Four nodes put the node's own id at the start, in the middle and at the
    end of the cursor's walk, and let three peers answer in any order.
- **ZenohCluster.** The ErdosCluster bounds with N = 2. The product with
  discovery (about 46k states) fits easily; N = 3 is out of reach for the
  same reason as in ErdosCluster.
- **DataLane.**
  - Three messages per stream with a one-slot queue make the writer meet a
    full queue between messages.
  - Two streams on one pipe interleave frames of a staged stream with
    another stream.
  - Three nodes give fan-out, where the writer's cursors per consumer
    diverge by one.

### Fairness

- Tokio runs every ready task eventually, and the node thread is an OS
  thread. So every step of the runtime, the workers and the operators is
  weakly fair. This covers:
  - ErdosCluster: `Connect`, the barrier loops, `Supervise`, `OpSetup`,
    `OpRun`, and normal operator completion;
  - ZenohDiscovery: `Declare`, `HandlerReady`, the loop iterations,
    `DiscoveryDone` and `OpenStreams`;
  - ZenohCluster: both of the above, with `ZConnect` for `Connect`;
  - DataLane: the node's phases, `Send`, `SenderPump`, `Recv` and
    `Unstage`.
- A declared and live queryable eventually answers, because Zenoh
  propagates the declaration. That is weak fairness of `QueryReply`, which
  stays enabled until it is taken.
- These are not fair, because nothing in the code forces them: user calls
  (`run_async`, `shutdown`, `join`), pipe failures, operator panics, node
  panics and a node stopping.

`CHECK_DEADLOCK FALSE` is set because the program really stops:

- every thread can exit and every caller return, and a caller can also
  join a node that nobody shuts down;
- discovery ends once every node has discovered its peers;
- the data lane ends once every message is read.

## 4. Not modelled, and why

- `errors.rs` beyond `From<TrySendError>`:
  - the codec, bincode, io, Zenoh and shared-memory wrappers only carry an
    error to a place that already fails;
  - `TryRecvError` concerns readers, whose queues are not modelled past
    delivery.
- The Zenoh select branch on `z_handler_fut`: the handler ends only when
  its session is gone, that is, when the node exits anyway.
- Graph scheduling is an external collaborator. Its result is the constant
  `OpNode`, or `Producer` and `Consumers`.
- Intra-node stream edges use in-process queues, which are FIFO by
  construction.
- Codecs and framing are out of TLC's reach and irrelevant here.
- Whether a Zenoh publication sent before the peer has subscribed is lost.
  The Zenoh senders and receivers are not in this repository. The model
  takes spec 4.1 at its word: pipes are lossless while open, so a
  readiness report always reaches its peer.
- The handler's routing of message kinds is taken from spec 4.2: separate
  queues. So `unreachable!()` at `node.rs:329` cannot be reached in the
  model, and it is not listed as a hazard. Deciding it needs the source of
  `ControlMessageHandler`, which is not in this repository.
- The `num_nodes <= 1` branch of the supervisor (`node.rs:540-553`). Its
  `try_join!` of the worker groups runs before the `select!`, but with one
  node the groups are built over an empty peer list. They finish at once
  with `Ok`, so the branch adds no state. With N = 1 the phase-B and
  phase-G loops never iterate, so a one-node run would only repeat what
  the two-node runs check of the local barrier. No run uses N = 1.
- `DataLane` releases a node only while every node is announced and not
  counting exits. A node that exits after announcing ends its peers through
  the transport anyway, so no data property depends on this.

## 5. Plan

Done:

- Step 1: `NodeLifecycle`, `ErdosCluster`, `MC_ErdosCluster`, and the
  runs safety, liveness, stranded and oppanic.
- Step 2:
  - the failing `RunOperator` send (run runop);
  - `ZenohDiscovery` (runs zenoh_safety and zenoh_liveness);
  - `DataLane` on top of `NodeLifecycle`, which gained `registered` (runs
    datalane_fifo and datalane_delivery).
- Step 3:
  - the operator setup panic (run setuppanic, finding 3);
  - Zenoh stream set-up and the refinement of `NodeLifecycle` by
    `ZenohDiscovery`;
  - `StreamChannel` and its refinement by `DataLane`, which replaces the
    invariant `StreamFIFO`;
  - `ZenohCluster`, which composes `ZenohDiscovery` with `ErdosCluster`
    (run zenoh_cluster).

Next, in order:

1. Liveness of `StreamChannel`: under fairness of `Read`, every message on
   an intact edge is read. This would restate `AllDelivered` at the
   abstract level.
