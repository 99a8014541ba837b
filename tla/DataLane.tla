------------------------------ MODULE DataLane ------------------------------
(***************************************************************************)
(* The data lane between nodes.  Phase A of async_run (split_data_streams, *)
(* node.rs) starts one data sender and one data receiver per peer, sharing *)
(* the node's channels_to_senders and channels_to_receivers; these are     *)
(* filled only when run_operators builds the ChannelManager (phase C).     *)
(* Driver setup hooks may write on their streams from phase F on, while a  *)
(* peer can still be in phase B; operators write only after RunOperator.  *)
(*                                                                         *)
(* A write endpoint hands a frame to the data sender serving the consumer  *)
(* node through a bounded queue with try_send; errors.rs turns its failure *)
(* into NoCapacity (retry) or Disconnected (fatal for the writer).  The    *)
(* sender writes frames to the peer pipe, FIFO and lossless while open.    *)
(* The receiver demultiplexes by stream id, holding frames for a stream    *)
(* its registry does not know yet in a staging area (spec 4.4).  Frames    *)
(* are abstracted to (stream, sequence number).                            *)
(***************************************************************************)
EXTENDS Naturals, Sequences

CONSTANTS
  N,               \* number of nodes
  Streams,         \* stream ids
  Producer,        \* Producer[s]: the node whose operator or driver writes s
  Consumers,       \* Consumers[s]: the remote nodes that read s
  DriverStreams,   \* streams written by a driver setup hook
  Stoppable,       \* nodes that may stop on their own: shutdown() or an
                   \* Err from run_operators
  MaxMsgs,         \* messages written on each stream
  Cap,             \* capacity of a data sender's work queue
  MaxLinkFailures

Node == 0 .. N-1

ASSUME /\ Producer \in [Streams -> Node]
       /\ \A s \in Streams : Consumers[s] \subseteq Node \ {Producer[s]}
       /\ DriverStreams \subseteq Streams
       /\ Cap \in Nat \ {0}

VARIABLES
  status,     \* the node, as in NodeLifecycle
  registered, \* nodes whose ChannelManager has filled channels_to_receivers
  announced,  \* nodes past their driver setup hooks and broadcast
  cursor,     \* cursor[s][b]: messages of s handed to b's data sender
  werr,       \* the writer's fatal error on each stream
  workQ,      \* workQ[a][b]: the work queue of a's data sender for peer b
  pipe,       \* pipe[a][b]: frames in flight on the data pipe a -> b
  staged,     \* staged[a][b]: frames b's receiver for a holds back
  delivered,  \* delivered[b][s]: sequence numbers enqueued for b's reader
  down,       \* pipes that have closed
  failures

nodeVars == <<status, registered, announced>>
vars == <<nodeVars, cursor, werr, workQ, pipe, staged, delivered, down, failures>>
dataVars == <<cursor, werr, workQ, pipe, staged, delivered>>

Frame == [stream : Streams, seq : 1 .. MaxMsgs]
Pair(a, b) == {a, b}

\* The variants of CommunicationError that a data-lane step can produce.
CommErrors == {"NoCapacity", "Disconnected"}

\* The outcome of tokio's try_send on a's work queue for b: Closed once the
\* sender task, the queue's receiver, has ended with its pipe; Full at
\* capacity.
TrySendResult(a, b) ==
  IF Pair(a, b) \in down THEN "Closed"
  ELSE IF Len(workQ[a][b]) >= Cap THEN "Full"
  ELSE "Ok"

\* Mutant: a full queue is reported as a closed one.
CommErrorOfTrySendFullClosed(r) == "Disconnected"

\* From<TrySendError> for CommunicationError.
CommErrorOfTrySend(r) == IF r = "Closed" THEN "Disconnected" ELSE "NoCapacity"

\* The node lifecycle the orchestrator implements (ErdosCluster checks
\* LifecycleRefinement); the data lane has no operators of its own.
NL == INSTANCE NodeLifecycle WITH Ops <- {}, OpNode <- [o \in {} |-> 0],
                                  initialized <- {}

\* Mutant: an exited node's tasks keep running (they are not cancelled
\* when its runtime is dropped).
RunningAfterExit(n) == status[n] # "off"

Running(n) == status[n] \in {"booting", "released"}

\* The registry of node n has stream ids: its ChannelManager exists.
Registered(n) == n \in registered

\* The writer of s is running: a driver from its setup hook on, an
\* operator once RunOperator reached it.
Writing(s) ==
  /\ Running(Producer[s])
  /\ IF s \in DriverStreams THEN Producer[s] \in announced
     ELSE status[Producer[s]] = "released"

TypeOK ==
  /\ NL!TypeOK
  /\ cursor \in [Streams -> [Node -> 0 .. MaxMsgs]]
  /\ werr \in [Streams -> {"none"} \cup CommErrors]
  /\ workQ \in [Node -> [Node -> Seq(Frame)]]
  /\ pipe \in [Node -> [Node -> Seq(Frame)]]
  /\ staged \in [Node -> [Node -> Seq(Frame)]]
  /\ delivered \in [Node -> [Streams -> Seq(1 .. MaxMsgs)]]
  /\ down \subseteq SUBSET Node
  /\ failures \in 0 .. MaxLinkFailures

Init ==
  /\ NL!Init
  /\ cursor = [s \in Streams |-> [b \in Node |-> 0]]
  /\ werr = [s \in Streams |-> "none"]
  /\ workQ = [a \in Node |-> [b \in Node |-> << >>]]
  /\ pipe = [a \in Node |-> [b \in Node |-> << >>]]
  /\ staged = [a \in Node |-> [b \in Node |-> << >>]]
  /\ delivered = [b \in Node |-> [s \in Streams |-> << >>]]
  /\ down = {}
  /\ failures = 0

-----------------------------------------------------------------------------
(* The node, as far as the data lane sees it.                              *)

\* run_async starts the node thread; phase A (split_data_streams) starts
\* a data sender and a data receiver per peer, the registries still empty.
Start(n) ==
  /\ NL!Start(n)
  /\ UNCHANGED <<dataVars, down, failures>>

\* Phase C, after the phase-B barrier (every peer has started): schedule,
\* to_dot, ChannelManager::new, which fills channels_to_receivers.
Register(n) ==
  /\ NL!Register(n)
  /\ UNCHANGED <<dataVars, down, failures>>

\* Phases E and F: the local barrier, the driver setup hooks, then the
\* AllOperatorsInitializedOnNode broadcast.
Hook(n) ==
  /\ NL!Announce(n)
  /\ UNCHANGED <<dataVars, down, failures>>

\* Phases G to I: every node has broadcast, the latch is set and every
\* local operator gets RunOperator.
Release(n) ==
  /\ NL!Release(n)
  /\ UNCHANGED <<dataVars, down, failures>>

\* The select of async_run ends the node; its runtime is dropped and all
\* its pipes close.  With N > 1 a worker error on a closed pipe does it.
Exit(n) ==
  /\ NL!Exit(n)
  /\ \E m \in Node \ {n} : Pair(n, m) \in down
  /\ down' = down \cup {Pair(n, m) : m \in Node \ {n}}
  /\ UNCHANGED <<dataVars, failures>>

\* The same, for the shutdown branch or an Err from run_operators.
Stop(n) ==
  /\ n \in Stoppable
  /\ NL!Exit(n)
  /\ down' = down \cup {Pair(n, m) : m \in Node \ {n}}
  /\ UNCHANGED <<dataVars, failures>>

-----------------------------------------------------------------------------
(* The data lane (spec 4.3, 4.4).                                           *)

\* Mutant: the writer's message counter runs one past MaxMsgs.
SendOffByOne(s, b) ==
  LET a == Producer[s]
      r == TrySendResult(a, b)
  IN /\ b \in Consumers[s]
     /\ Writing(s)
     /\ werr[s] = "none"
     /\ cursor[s][b] <= MaxMsgs
     /\ r = "Ok"
     /\ workQ' = [workQ EXCEPT ![a][b] =
                    Append(@, [stream |-> s, seq |-> cursor[s][b] + 1])]
     /\ cursor' = [cursor EXCEPT ![s][b] = @ + 1]
     /\ UNCHANGED <<nodeVars, werr, pipe, staged, delivered, down, failures>>

\* The writer of s hands its next message to the endpoint of consumer b,
\* after it has handed the previous one to every consumer.  try_send
\* either enqueues, or fails: NoCapacity leaves everything as it is (the
\* writer retries, a stuttering step), Disconnected ends the writer.
Send(s, b) ==
  LET a == Producer[s]
      r == TrySendResult(a, b)
  IN /\ b \in Consumers[s]
     /\ Writing(s)
     /\ werr[s] = "none"
     /\ cursor[s][b] < MaxMsgs
     /\ \A c \in Consumers[s] : cursor[s][c] >= cursor[s][b]
     /\ \/ /\ r = "Ok"
           /\ workQ' = [workQ EXCEPT ![a][b] =
                          Append(@, [stream |-> s, seq |-> cursor[s][b] + 1])]
           /\ cursor' = [cursor EXCEPT ![s][b] = @ + 1]
           /\ UNCHANGED werr
        \/ /\ r # "Ok"
           /\ CommErrorOfTrySend(r) = "Disconnected"
           /\ werr' = [werr EXCEPT ![s] = "Disconnected"]
           /\ UNCHANGED <<cursor, workQ>>
     /\ UNCHANGED <<nodeVars, pipe, staged, delivered, down, failures>>

\* a's data sender for b takes the next frame and writes it to the pipe.
SenderPump(a, b) ==
  /\ workQ[a][b] # << >>
  /\ Pair(a, b) \notin down
  /\ pipe' = [pipe EXCEPT ![a][b] = Append(@, Head(workQ[a][b]))]
  /\ workQ' = [workQ EXCEPT ![a][b] = Tail(@)]
  /\ UNCHANGED <<nodeVars, cursor, werr, staged, delivered, down, failures>>

\* Mutant: a known stream is delivered at once, ahead of staged frames.
RecvBypassStaging(a, b) ==
  LET f == Head(pipe[a][b]) IN
  /\ pipe[a][b] # << >>
  /\ Running(b)
  /\ pipe' = [pipe EXCEPT ![a][b] = Tail(@)]
  /\ \/ /\ Registered(b)
        /\ delivered' = [delivered EXCEPT ![b][f.stream] = Append(@, f.seq)]
        /\ UNCHANGED staged
     \/ /\ ~Registered(b)
        /\ staged' = [staged EXCEPT ![a][b] = Append(@, f)]
        /\ UNCHANGED delivered
  /\ UNCHANGED <<nodeVars, cursor, werr, workQ, down, failures>>

\* b's data receiver for a reads the next frame.  It goes to the reader's
\* queue when the registry knows its stream and nothing is held back, and
\* to the staging area otherwise.
Recv(a, b) ==
  LET f == Head(pipe[a][b]) IN
  /\ pipe[a][b] # << >>
  /\ Running(b)
  /\ pipe' = [pipe EXCEPT ![a][b] = Tail(@)]
  /\ \/ /\ Registered(b) /\ staged[a][b] = << >>
        /\ delivered' = [delivered EXCEPT ![b][f.stream] = Append(@, f.seq)]
        /\ UNCHANGED staged
     \/ /\ ~Registered(b) \/ staged[a][b] # << >>
        /\ staged' = [staged EXCEPT ![a][b] = Append(@, f)]
        /\ UNCHANGED delivered
  /\ UNCHANGED <<nodeVars, cursor, werr, workQ, down, failures>>

\* The receiver retries the oldest staged frame once the registry is full.
Unstage(a, b) ==
  LET f == Head(staged[a][b]) IN
  /\ staged[a][b] # << >>
  /\ Running(b)
  /\ Registered(b)
  /\ delivered' = [delivered EXCEPT ![b][f.stream] = Append(@, f.seq)]
  /\ staged' = [staged EXCEPT ![a][b] = Tail(@)]
  /\ UNCHANGED <<nodeVars, cursor, werr, workQ, pipe, down, failures>>

\* A data pipe closes (spec 4.1); frames in flight on it are lost.
LinkFail(a, b) ==
  /\ a # b
  /\ status[a] # "off" /\ status[b] # "off"
  /\ Pair(a, b) \notin down
  /\ failures < MaxLinkFailures
  /\ down' = down \cup {Pair(a, b)}
  /\ failures' = failures + 1
  /\ pipe' = [pipe EXCEPT ![a][b] = << >>, ![b][a] = << >>]
  /\ UNCHANGED <<nodeVars, cursor, werr, workQ, staged, delivered>>

Next ==
  \/ \E n \in Node :
       Start(n) \/ Register(n) \/ Hook(n) \/ Release(n) \/ Exit(n) \/ Stop(n)
  \/ \E s \in Streams, b \in Node : Send(s, b)
  \/ \E a, b \in Node :
       SenderPump(a, b) \/ Recv(a, b) \/ Unstage(a, b) \/ LinkFail(a, b)

\* Every task of a node's runtime runs eventually; starting a node, a
\* node stopping on its own and pipe failures do not have to happen.
Fairness ==
  /\ \A n \in Node : WF_vars(Register(n)) /\ WF_vars(Hook(n))
                     /\ WF_vars(Release(n)) /\ WF_vars(Exit(n))
  /\ \A s \in Streams, b \in Node : WF_vars(Send(s, b))
  /\ \A a, b \in Node : WF_vars(SenderPump(a, b)) /\ WF_vars(Recv(a, b))
                        /\ WF_vars(Unstage(a, b))

Spec == Init /\ [][Next]_vars /\ Fairness

-----------------------------------------------------------------------------
(* Properties.                                                             *)

\* The sequence numbers of stream s in a sequence of frames.
SeqsOf(q, s) ==
  LET t == SelectSeq(q, LAMBDA f : f.stream = s) IN [i \in 1 .. Len(t) |-> t[i].seq]

\* The messages of s on their way to b, oldest first: held back in b's
\* staging area, then on the pipe, then in the data sender's work queue
\* (which a closed pipe never drains).  Nothing is on its way to a node
\* that has exited.
InFlight(s, b) ==
  LET a == Producer[s] IN
  IF status[b] = "exited" THEN << >>
  ELSE SeqsOf(staged[a][b] \o pipe[a][b]
                \o (IF Pair(a, b) \in down THEN << >> ELSE workQ[a][b]), s)

StreamEdges == UNION {{<<s, b>> : b \in Consumers[s]} : s \in Streams}

Channel == INSTANCE StreamChannel
             WITH sent <- [e \in StreamEdges |-> cursor[e[1]][e[2]]],
                  chan <- [e \in StreamEdges |-> InFlight(e[1], e[2])],
                  got <- [e \in StreamEdges |-> delivered[e[2]][e[1]]],
                  broken <- {e \in StreamEdges : \/ Pair(Producer[e[1]], e[2]) \in down
                                                 \/ status[e[2]] = "exited"}

\* spec 8: the data lane implements a reliable FIFO channel per stream
\* edge.  Frames that reach a node before its ChannelManager exists, two
\* streams sharing a pipe, backpressure, a pipe failure and either node
\* stopping never make a reader see a message out of order, twice, or
\* after a gap, nor lose one while the edge is intact.
StreamRefinement == Channel!Spec

\* Once every node is started, while no pipe fails and no node stops,
\* every message written on a stream reaches every consumer: backpressure
\* (NoCapacity) delays a writer, never stops it.
AllDelivered ==
  (\A n \in Node : status[n] # "off")
    ~> (\A s \in Streams, b \in Node :
          b \in Consumers[s] => Len(delivered[b][s]) = MaxMsgs)
=============================================================================
