--------------------------- MODULE MCPeerOutbound ---------------------------
(* PeerOutbound for TLC: which sends the callers make. *)
EXTENDS PeerOutboundLimits

CONSTANTS a, b, d

\* Two streams, two classes on one of them, frames of one and two units, and
\* one that no queue can take.
MixedOffer ==
  {[stream |-> a, class |-> "control", bytes |-> 1],
   [stream |-> a, class |-> "bulk", bytes |-> 2],
   [stream |-> b, class |-> "bulk", bytes |-> 1],
   [stream |-> b, class |-> "interactive", bytes |-> 3]}

\* One control stream and two bulk streams.
BackloggedOffer ==
  {[stream |-> a, class |-> "control", bytes |-> 1],
   [stream |-> b, class |-> "bulk", bytes |-> 1],
   [stream |-> d, class |-> "bulk", bytes |-> 1]}
=============================================================================
