--------------------------- MODULE OrderedHandling --------------------------
(***************************************************************************)
(* What the inbound half of a Peer promises its handlers: "Handler         *)
(* execution is ordered per StreamID and may run in parallel across        *)
(* different StreamIDs" (peer.go:127).  The frames of a stream are handled *)
(* one at a time in the order they were read, and none is accepted after   *)
(* shutdown.  Workers, queue limits and back-pressure do not appear here.  *)
(***************************************************************************)
EXTENDS Naturals, Sequences

CONSTANTS StreamID, Frame, NoFrame

VARIABLES
  waiting,   \* waiting[s]: the accepted frames of stream s, oldest first
  active,    \* active[s]: the frame a handler of stream s is running on
  open       \* FALSE once the Peer has shut down

hvars == <<waiting, active, open>>

HInit ==
  /\ waiting = [s \in StreamID |-> <<>>]
  /\ active = [s \in StreamID |-> NoFrame]
  /\ open = TRUE

Accept(s, f) ==
  /\ open
  /\ \A t \in StreamID : active[t] # f /\ \A i \in 1..Len(waiting[t]) : waiting[t][i] # f
  /\ waiting' = [waiting EXCEPT ![s] = Append(@, f)]
  /\ UNCHANGED <<active, open>>

\* A handler starts on the oldest frame of its stream, after its predecessor.
Begin(s) ==
  /\ active[s] = NoFrame
  /\ waiting[s] # <<>>
  /\ active' = [active EXCEPT ![s] = Head(waiting[s])]
  /\ waiting' = [waiting EXCEPT ![s] = Tail(@)]
  /\ UNCHANGED open

End(s) ==
  /\ active[s] # NoFrame
  /\ active' = [active EXCEPT ![s] = NoFrame]
  /\ UNCHANGED <<waiting, open>>

\* Shutdown accepts nothing more; what was accepted may still be handled.
Shut ==
  /\ open
  /\ open' = FALSE
  /\ UNCHANGED <<waiting, active>>

HNext ==
  \/ \E s \in StreamID : Begin(s) \/ End(s) \/ \E f \in Frame : Accept(s, f)
  \/ Shut

HSpec == HInit /\ [][HNext]_hvars
=============================================================================
