------------------------- MODULE PeerOutboundLimits -------------------------
(***************************************************************************)
(* The queue limits of PeerConfig, stated about what the queues of         *)
(* PeerOutbound really hold.                                               *)
(***************************************************************************)
EXTENDS PeerOutbound, Functions

QueueBytes(s) == SumFunction([i \in DOMAIN queue[s] |-> req[queue[s][i]].bytes])

\* The counters send and takeLocked keep are exactly the contents of the
\* queues, whatever sequence of enqueues, takes, cancellations and shutdown
\* led here, so the contents respect every configured limit ("Queue limits
\* are enforced by both bytes and frame count", README.md:53).
CountersExact ==
  /\ \A s \in StreamID : s \in outbound => streamBytes[s] = QueueBytes(s)
  /\ outboundBytes = SumFunction([s \in StreamID |-> QueueBytes(s)])
  /\ outboundFrames = SumFunction([s \in StreamID |-> Len(queue[s])])
  /\ \A s \in StreamID : /\ QueueBytes(s) <= PerStreamQueueBytes
                         /\ Len(queue[s]) <= PerStreamQueueFrames
  /\ outboundBytes <= OutboundQueueBytes /\ outboundFrames <= OutboundQueueFrames
  /\ Cardinality({s \in StreamID : queue[s] # <<>>}) <= MaxActiveStreams
=============================================================================
