----------------------------- MODULE OutputLog -----------------------------
(***************************************************************************)
(* What an attachment promises to its sink ("Attach serializes replay, a   *)
(* bounded live-output queue, and one terminal exit event into sink"): the *)
(* output of the session from some chunk on, every chunk once and in       *)
(* order, and after all of it one exit event.  It may stop anywhere.       *)
(***************************************************************************)
EXTENDS Integers, Sequences

CONSTANTS Attachment, Exit

VARIABLES
  last,  \* the chunks published so far are 1..last
  over,  \* the process has exited
  from,  \* from[a]: the first chunk promised to a
  got    \* got[a]: the events handed to the sink of a

vars == <<last, over, from, got>>

Init ==
  /\ last = 0 /\ over = FALSE
  /\ from = [a \in Attachment |-> 1] /\ got = [a \in Attachment |-> <<>>]

Publish == ~over /\ last' = last + 1 /\ UNCHANGED <<over, from, got>>

ProcessExit == ~over /\ over' = TRUE /\ UNCHANGED <<last, from, got>>

\* A new attachment begins anywhere up to the next live chunk.
Begin(a) ==
  /\ \E n \in 1..(last + 1) : from' = [from EXCEPT ![a] = n]
  /\ got' = [got EXCEPT ![a] = <<>>]
  /\ UNCHANGED <<last, over>>

Upcoming(a) == from[a] + Len(got[a])

DeliverOutput(a) ==
  /\ Upcoming(a) <= last
  /\ got' = [got EXCEPT ![a] = Append(@, Upcoming(a))]
  /\ UNCHANGED <<last, over, from>>

DeliverExit(a) ==
  /\ over /\ Upcoming(a) = last + 1
  /\ got' = [got EXCEPT ![a] = Append(@, Exit)]
  /\ UNCHANGED <<last, over, from>>

Next ==
  \/ Publish \/ ProcessExit
  \/ \E a \in Attachment : Begin(a) \/ DeliverOutput(a) \/ DeliverExit(a)

Spec == Init /\ [][Next]_vars
=============================================================================
