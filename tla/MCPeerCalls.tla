----------------------------- MODULE MCPeerCalls ----------------------------
(* PeerCalls for TLC: what the calls send and what a stray remote sends. *)
EXTENDS PeerCalls, TLC

OneKind == [c \in Call |-> "k1"]

\* A response to an id in use, of the right kind and of another.
SomeStray == {[id |-> 1, kind |-> "k1"], [id |-> 1, kind |-> "k2"]}

CallSymmetry == Permutations(Call)
=============================================================================
