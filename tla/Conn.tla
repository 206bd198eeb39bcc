-------------------------------- MODULE Conn --------------------------------
(***************************************************************************)
(* A Conn (conn.go) sending to the Decoder of another one (codec.go):      *)
(* concurrent callers of Send hand frames to the writeLoop goroutine,      *)
(* which writes header and payload to the stream; cancellation, read and   *)
(* write errors and Close end the Conn.                                    *)
(*                                                                         *)
(* A step is one channel operation, one Write or ReadFull of a part of a   *)
(* frame, or one critical section.  The byte stream is external: it holds  *)
(* up to StreamBuffer parts, may break, and once closed fails reads and    *)
(* writes and loses a suffix of what it holds.  A member of Send is an     *)
(* invocation of Send and its frame, and stands for a later one when       *)
(* nothing holds it.                                                       *)
(***************************************************************************)
EXTENDS Integers, Slices

CONSTANTS
  Send, NoSend,
  WriteQueue,       \* the capacity of Conn.writes; 0 is a rendezvous
  StreamBuffer      \* what the stream holds on its way, in parts of a frame

ASSUME ConnAssumption ==
  /\ NoSend \notin Send
  /\ WriteQueue \in Nat /\ StreamBuffer \in Nat \ {0}

VARIABLES
  cause,            \* why Conn.ctx is done: "none", "asked" or "failed"
  streamClosed,     \* this end of the stream has been closed
  writes,           \* the contents of Conn.writes
  loop,             \* where writeLoop is; "stopped" once Conn.done is closed
  current,          \* the request it is writing, or NoSend
  err,              \* Conn.err
  call, result,     \* of each Send: where it is, and its result channel
  reader,           \* where the goroutine is that uses ReadFrame
  closer,           \* where a caller of Close is
  wire,             \* the parts of frames in the stream
  decoder,          \* where the remote ReadFrame is
  decoding,         \* the frame whose header it has read, or NoSend
  arrived           \* the frame it returned last, or NoSend

writer == <<writes, loop, current>>
callers == <<call, result>>
remote == <<decoder, decoding, arrived>>
vars == <<cause, streamClosed, writer, err, callers, reader, closer, wire, remote>>

Init ==
  /\ cause = "none" /\ streamClosed = FALSE
  /\ writes = <<>> /\ loop = "select" /\ current = NoSend
  /\ err = "nil"
  /\ call = [c \in Send |-> "returned"] /\ result = [c \in Send |-> "empty"]
  /\ reader = "reading" /\ closer = "open"
  /\ wire = <<>>
  /\ decoder = "header" /\ decoding = NoSend /\ arrived = NoSend

Held(c) ==
  \/ current = c \/ decoding = c
  \/ \E i \in 1..Len(writes) : writes[i] = c
  \/ \E i \in 1..Len(wire) : wire[i].of = c

canceled == cause # "none"

Cancel(why) == cause' = IF canceled THEN cause ELSE why

\* setError keeps the first error.
SetError(e) == err' = IF err = "nil" THEN e ELSE err

\* What a read or a write fails with: this end is closed, or the stream broke.
StreamError == IF streamClosed THEN "closed" ELSE "broken"

StreamClose ==
  /\ streamClosed' = TRUE
  /\ IF streamClosed THEN wire' = wire
     ELSE \E n \in 0..Len(wire) : wire' = SubSeq(wire, 1, n)
-----------------------------------------------------------------------------
(* send *)

SendBegin(c) ==
  /\ call[c] = "returned" /\ ~Held(c)
  /\ call' = [call EXCEPT ![c] = "offer"]
  /\ result' = [result EXCEPT ![c] = "empty"]
  /\ UNCHANGED <<cause, streamClosed, writer, err, reader, closer, wire, remote>>

\* The request goes into the buffer of c.writes ...
SendQueued(c) ==
  /\ call[c] = "offer" /\ Len(writes) < WriteQueue
  /\ call' = [call EXCEPT ![c] = "wait"]
  /\ writes' = Append(writes, c)
  /\ UNCHANGED <<cause, streamClosed, loop, current, err, result, reader, closer, wire, remote>>

\* ... or straight to the writeLoop that waits for it, with a buffer or without.
SendTaken(c) ==
  /\ call[c] = "offer" /\ writes = <<>> /\ loop = "select"
  /\ call' = [call EXCEPT ![c] = "wait"]
  /\ loop' = "header" /\ current' = c
  /\ UNCHANGED <<cause, streamClosed, writes, err, result, reader, closer, wire, remote>>

Leave(c) ==
  /\ call' = [call EXCEPT ![c] = "returned"]
  /\ UNCHANGED <<cause, streamClosed, writer, err, result, reader, closer, wire, remote>>

\* The result is there, or Conn.done is closed.
SendReturns(c) ==
  /\ call[c] \in {"offer", "wait"}
  /\ loop = "stopped" \/ (call[c] = "wait" /\ result[c] # "empty")
  /\ Leave(c)

\* The caller's context ends; the request stays where it is.
SendGivesUp(c) == call[c] \in {"offer", "wait"} /\ Leave(c)
-----------------------------------------------------------------------------
(* writeLoop and Encoder.WriteFrame *)

LoopTake ==
  /\ loop = "select" /\ writes # <<>>
  /\ current' = Head(writes) /\ writes' = Tail(writes)
  /\ loop' = "header"
  /\ UNCHANGED <<cause, streamClosed, err, callers, reader, closer, wire, remote>>

\* One Write: the header, then the payload.
WritePart ==
  /\ loop \in {"header", "payload"} /\ ~streamClosed /\ Len(wire) < StreamBuffer
  /\ wire' = Append(wire, [of |-> current, part |-> loop])
  /\ loop' = IF loop = "header" THEN "payload" ELSE "written"
  /\ UNCHANGED <<cause, streamClosed, writes, current, err, callers, reader, closer, remote>>

Report(value, next) ==
  /\ result' = [result EXCEPT ![current] = value]
  /\ current' = NoSend /\ loop' = next
  /\ UNCHANGED <<cause, streamClosed, writes, err, call, reader, closer, wire, remote>>

WriteDone == loop = "written" /\ Report("ok", "select")

\* Mutant: writeLoop goes on after an error.
WriteFailsGoesOn == loop \in {"header", "payload"} /\ Report("error", "select")

\* The stream breaks or is closed in the middle of a frame.
WriteFails == loop \in {"header", "payload"} /\ Report("error", "failed")

\* Then the loop records the error ...
LoopFails ==
  /\ loop = "failed"
  /\ SetError(StreamError)
  /\ loop' = "ending"
  /\ UNCHANGED <<cause, streamClosed, writes, current, callers, reader, closer, wire, remote>>

\* ... and ends the Conn.
LoopEnds ==
  /\ loop = "ending"
  /\ Cancel("failed")
  /\ StreamClose
  /\ loop' = "stopped"
  /\ UNCHANGED <<writes, current, err, callers, reader, closer, remote>>

\* Queued requests are left where they are.
LoopCanceled ==
  /\ loop = "select" /\ canceled
  /\ SetError("canceled")
  /\ loop' = "stopped"
  /\ UNCHANGED <<cause, streamClosed, writes, current, callers, reader, closer, wire, remote>>
-----------------------------------------------------------------------------
(* Open's context, ReadFrame and Close *)

ParentCanceled ==
  /\ ~canceled
  /\ Cancel("asked")
  /\ UNCHANGED <<streamClosed, writer, err, callers, reader, closer, wire, remote>>

\* Mutant: the stream is closed only after the loop has ended.
WatchLate ==
  /\ canceled /\ ~streamClosed /\ loop = "stopped"
  /\ StreamClose
  /\ UNCHANGED <<cause, writer, err, callers, reader, closer, remote>>

\* The goroutine of Open that closes the stream of a canceled Conn.
Watch ==
  /\ canceled /\ ~streamClosed
  /\ StreamClose
  /\ UNCHANGED <<cause, writer, err, callers, reader, closer, remote>>

\* Mutant: ReadFrame cancels before it records its error.
ReadFailsLate ==
  /\ reader \in {"reading", "failed"}
  /\ IF reader = "reading" THEN Cancel("failed") /\ UNCHANGED err
     ELSE SetError(StreamError) /\ UNCHANGED cause
  /\ reader' = IF reader = "reading" THEN "failed" ELSE "stopped"
  /\ UNCHANGED <<streamClosed, writer, callers, closer, wire, remote>>

\* ReadFrame fails on a broken or closed stream: its error first, then cancel.
ReadFails ==
  /\ reader \in {"reading", "failed"}
  /\ IF reader = "reading" THEN SetError(StreamError) /\ UNCHANGED cause
     ELSE Cancel("failed") /\ UNCHANGED err
  /\ reader' = IF reader = "reading" THEN "failed" ELSE "stopped"
  /\ UNCHANGED <<streamClosed, writer, callers, closer, wire, remote>>

Close ==
  /\ closer = "open"
  /\ Cancel("asked")
  /\ StreamClose
  /\ closer' = "joining"
  /\ UNCHANGED <<writer, err, callers, reader, remote>>

\* An error of stream.Close is offered last; FailureNotMasked shows that there
\* is always an earlier one.
CloseJoin ==
  /\ closer = "joining" /\ loop = "stopped"
  /\ SetError("late")
  /\ closer' = "done"
  /\ UNCHANGED <<cause, streamClosed, writer, callers, reader, wire, remote>>
-----------------------------------------------------------------------------
(* The remote Decoder.ReadFrame *)

\* One ReadFull: whatever follows a header is taken for its payload.
DecodePart ==
  /\ decoder \in {"header", "payload"} /\ wire # <<>>
  /\ wire' = Tail(wire)
  /\ decoder' = IF decoder = "header" THEN "payload" ELSE "header"
  /\ decoding' = IF decoder = "header" THEN Head(wire).of ELSE NoSend
  /\ arrived' = IF decoder = "header" THEN NoSend ELSE decoding
  /\ UNCHANGED <<cause, streamClosed, writer, err, callers, reader, closer>>

\* The stream ends, inside a frame or between two.
DecodeFails ==
  /\ decoder # "stopped" /\ streamClosed /\ wire = <<>>
  /\ decoder' = "stopped" /\ decoding' = NoSend /\ arrived' = NoSend
  /\ UNCHANGED <<cause, streamClosed, writer, err, callers, reader, closer, wire>>
-----------------------------------------------------------------------------
WriteLoop ==
  LoopTake \/ WritePart \/ WriteDone \/ WriteFails \/ LoopFails \/ LoopEnds \/ LoopCanceled

Next ==
  \/ \E c \in Send : \/ SendBegin(c) \/ SendQueued(c) \/ SendTaken(c)
                     \/ SendReturns(c) \/ SendGivesUp(c)
  \/ WriteLoop
  \/ ParentCanceled \/ Watch \/ ReadFails \/ Close \/ CloseJoin
  \/ DecodePart \/ DecodeFails

Spec == Init /\ [][Next]_vars

\* Goroutines that can run do run, and a Write on a closed stream fails.  The
\* remote need not read, and nobody need send, cancel or close.
Fairness ==
  /\ WF_vars(LoopTake \/ WritePart \/ WriteDone \/ LoopFails \/ LoopEnds \/ LoopCanceled)
  /\ WF_vars(streamClosed /\ WriteFails)
  /\ WF_vars(Watch) /\ WF_vars(CloseJoin)
  /\ \A c \in Send : WF_vars(SendQueued(c) \/ SendTaken(c)) /\ WF_vars(SendReturns(c))

FairSpec == Spec /\ Fairness
-----------------------------------------------------------------------------
(* Properties *)

\* A Conn that breaks says so: the cancellation that follows a failed read or
\* write never hides its error, although the loop and the reader race to
\* record theirs.  And whoever sees Conn.done closed finds an error.
FailureNotMasked ==
  /\ cause = "failed" => err = "broken"
  /\ loop = "stopped" => err # "nil"

\* The frames not yet decoded: their payload is in the stream, or, while it can
\* still be written, they are in the hands of writeLoop or in its queue.
Ended == streamClosed \/ loop \in {"failed", "ending", "stopped"}

\* The decoder takes parts for headers and payloads by turns, so the payloads
\* are every other part.
Sent ==
  LET begun == IF decoder = "payload" THEN 1 ELSE 0
  IN [i \in 1..((Len(wire) + begun) \div 2) |-> wire[2 * i - begun].of]

InTransit ==
  Sent \o (IF Ended THEN <<>>
           ELSE (IF loop \in {"header", "payload"} THEN <<current>> ELSE <<>>) \o writes)

\* The remote gets a prefix of the accepted frames, whole, once and in order,
\* whatever breaks: after an incomplete frame nothing else is written.
Channel == INSTANCE FrameChannel
             WITH Frame <- Send, NoFrame <- NoSend, channel <- InTransit, ended <- Ended

DeliversPrefix == Channel!FSpec

\* A canceled or broken Conn releases every caller of Send, even while a
\* Write is stuck because the remote does not read, and Close returns.
ShutdownReleases ==
  /\ \A c \in Send : canceled ~> call[c] = "returned"
  /\ closer = "joining" ~> closer = "done"
=============================================================================
