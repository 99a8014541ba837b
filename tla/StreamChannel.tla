---------------------------- MODULE StreamChannel ----------------------------
(***************************************************************************)
(* What ERDOS promises of an inter-node stream edge (spec 4.1, 4.4 and 8), *)
(* stated without workers, queues or registries.  On each edge <<s, b>>,  *)
(* from the writer of stream s to the reader on consumer node b, messages *)
(* 1, 2, ... are written in order and read in order, each at most once.   *)
(* The edge breaks when its pipe closes or a node at either end exits;    *)
(* then nothing more is written, and the messages not yet read may be     *)
(* lost from some point on.  Nothing is ever lost from an unbroken edge.  *)
(***************************************************************************)
EXTENDS Naturals, Sequences

CONSTANTS Streams, Consumers, MaxMsgs

Edges == UNION {{<<s, b>> : b \in Consumers[s]} : s \in Streams}

VARIABLES
  sent,    \* messages the writer has written on the edge
  chan,    \* messages written and not yet read, oldest first
  got,     \* messages the reader has read, in order
  broken   \* edges whose pipe or end node is gone

vars == <<sent, chan, got, broken>>

Init ==
  /\ sent = [e \in Edges |-> 0]
  /\ chan = [e \in Edges |-> << >>]
  /\ got = [e \in Edges |-> << >>]
  /\ broken = {}

Write(e) ==
  /\ e \notin broken
  /\ sent[e] < MaxMsgs
  /\ sent' = [sent EXCEPT ![e] = @ + 1]
  /\ chan' = [chan EXCEPT ![e] = Append(@, sent[e] + 1)]
  /\ UNCHANGED <<got, broken>>

Read(e) ==
  /\ chan[e] # << >>
  /\ got' = [got EXCEPT ![e] = Append(@, Head(chan[e]))]
  /\ chan' = [chan EXCEPT ![e] = Tail(@)]
  /\ UNCHANGED <<sent, broken>>

\* Some edges break (one pipe, or every edge of an exiting node); on every
\* broken edge a suffix of the unread messages may be lost.
Fail ==
  \E B \in SUBSET Edges :
    /\ broken' = broken \cup B
    /\ \E keep \in [broken' -> 0 .. MaxMsgs] :
         /\ \A e \in broken' : keep[e] <= Len(chan[e])
         /\ chan' = [e \in Edges |-> IF e \in broken' THEN SubSeq(chan[e], 1, keep[e])
                                                      ELSE chan[e]]
    /\ UNCHANGED <<sent, got>>

Next == Fail \/ \E e \in Edges : Write(e) \/ Read(e)

Spec == Init /\ [][Next]_vars
=============================================================================
