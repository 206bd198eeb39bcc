--------------------------- MODULE OrderedStreams ---------------------------
(***************************************************************************)
(* What the outbound half of a Peer promises its callers: one first-in     *)
(* first-out channel per StreamID.  "Per-stream order is preserved even    *)
(* when successive frames use different classes" (peer.go:23).  Frames     *)
(* leave a channel only by being handed to the transport, one at a time,   *)
(* or all together when the Peer shuts down, and nothing is accepted after *)
(* that.  Priorities, weights, limits and wake-ups do not appear here.     *)
(***************************************************************************)
EXTENDS Naturals, Sequences

CONSTANTS StreamID, Send, NoSend

VARIABLES
  channel,   \* channel[s]: the accepted frames of stream s, oldest first
  wire,      \* the frame the transport is writing, or NoSend
  open       \* FALSE once the Peer has shut down

ovars == <<channel, wire, open>>

OInit ==
  /\ channel = [s \in StreamID |-> <<>>]
  /\ wire = NoSend
  /\ open = TRUE

\* A frame is accepted behind every earlier frame of its stream.
Accept(s, c) ==
  /\ open
  /\ \A t \in StreamID : \A i \in 1..Len(channel[t]) : channel[t][i] # c
  /\ wire # c
  /\ channel' = [channel EXCEPT ![s] = Append(@, c)]
  /\ UNCHANGED <<wire, open>>

\* The transport takes the oldest frame of some stream.
HandOver(s) ==
  /\ wire = NoSend
  /\ channel[s] # <<>>
  /\ wire' = Head(channel[s])
  /\ channel' = [channel EXCEPT ![s] = Tail(@)]
  /\ UNCHANGED open

\* The transport has finished with its frame, written or failed.
Finish ==
  /\ wire # NoSend
  /\ wire' = NoSend
  /\ UNCHANGED <<channel, open>>

\* Shutdown discards what the transport has not taken.
Shut ==
  /\ open
  /\ open' = FALSE
  /\ channel' = [s \in StreamID |-> <<>>]
  /\ UNCHANGED wire

ONext ==
  \/ \E s \in StreamID : HandOver(s) \/ \E c \in Send : Accept(s, c)
  \/ Finish
  \/ Shut

OSpec == OInit /\ [][ONext]_ovars
=============================================================================
