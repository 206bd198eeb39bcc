---------------------------- MODULE FrameChannel ----------------------------
(***************************************************************************)
(* What two connected Conns promise: frames arrive whole, at most once, in *)
(* the order the sending Conn accepted them.  When the connection ends,    *)
(* the frames that have not arrived are lost from the back: what arrives   *)
(* is a prefix of what was accepted.                                       *)
(***************************************************************************)
EXTENDS Naturals, Sequences

CONSTANTS Frame, NoFrame

VARIABLES
  channel,   \* accepted frames that have neither arrived nor been lost
  arrived,   \* the frame that arrived last
  ended      \* the sending side has ended: nothing is accepted any more

fvars == <<channel, arrived, ended>>

FInit == channel = <<>> /\ arrived = NoFrame /\ ended = FALSE

Accept(f) ==
  /\ ~ended
  /\ \A i \in 1..Len(channel) : channel[i] # f
  /\ channel' = Append(channel, f)
  /\ UNCHANGED <<arrived, ended>>

Arrive ==
  /\ channel # <<>>
  /\ arrived' = Head(channel)
  /\ channel' = Tail(channel)
  /\ UNCHANGED ended

\* The receiver forgets which frame was the last.
Consume == arrived' = NoFrame /\ UNCHANGED <<channel, ended>>

Lose ==
  /\ \E n \in 0..Len(channel) : channel' = SubSeq(channel, 1, n)
  /\ ended' = TRUE
  /\ UNCHANGED arrived

FNext == (\E f \in Frame : Accept(f)) \/ Arrive \/ Consume \/ Lose

FSpec == FInit /\ [][FNext]_fvars
=============================================================================
