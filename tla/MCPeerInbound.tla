--------------------------- MODULE MCPeerInbound ----------------------------
(* PeerInbound for TLC: the frames the remote sends and the handlers. *)
EXTENDS PeerInbound

CONSTANTS a, b, d, x

\* Three streams; one or two frames fill a queue, and one can never fit.
SomeOffer ==
  {[stream |-> a, type |-> x, bytes |-> 1], [stream |-> a, type |-> x, bytes |-> 2],
   [stream |-> b, type |-> x, bytes |-> 1], [stream |-> d, type |-> x, bytes |-> 3]}

\* A valid registration and one with the zero type.
Groups == {{x}, {x, NoType}}
=============================================================================
