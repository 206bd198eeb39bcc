------------------------------ MODULE Protocol ------------------------------
(***************************************************************************)
(* The PTY protocol of one connection (pty/protocol.go), seen on the       *)
(* stream of one Session: the handlers, which the Peer calls one at a time *)
(* (PeerInbound), the sink that turns the events of an attachment into     *)
(* frames, the watcher of an attachment, and Protocol.Close, which the end *)
(* of the Peer starts too.                                                 *)
(*                                                                         *)
(* An attachment is what Attachment implements: it hands consecutive       *)
(* output and one exit event to its sink, may be finished at any time, and *)
(* is done when its worker has left the sink.  Sending is Peer.send on one *)
(* stream: it keeps the order of the calls (PeerOutbound), blocks while    *)
(* the remote does not read and fails once the Peer has closed; with a     *)
(* canceled context it fails before or after the frame was queued.         *)
(***************************************************************************)
EXTENDS Integers, Sequences

CONSTANTS
  Attachments,  \* 1..N, for an N that bounds the attachments that exist at a time
  Limits,       \* bounds: on those attachments, on the output, whether frames other
                \* than Attach and Detach arrive, and whether anything breaks
  None          \* no attachment

ASSUME ProtocolAssumption == None \notin Attachments

VARIABLES
  limit,       \* the member of Limits for this behaviour
  last, over,  \* the session has published the chunks 1..last; it has exited
  port,        \* each attachment: "paused", "active", "closed" or closed for a failure
               \* "failed"; once its worker has left the sink "done" or "broken"
  next,        \* the next event for its sink; last + 1 is the exit event
  busy,        \* its sink sends: "no", "event", or "end" for ReplayEnd
  replayFirst, \* the first event promised to it
  replayLast,  \* protocolOutputSink.replayLast
  frames,      \* the frames sent for it, from the answer to its Detach on if
  late,        \* there is one
  watch,       \* watchAttachment: "none", "watching", "report" or "wait"
  peer,        \* "open" or "closed"
  shut,        \* Protocol.Close: "open", "canceled", "waiting" or "closed"
  victim,      \* the attachment that Protocol.Close took from the map
  entry,       \* Protocol.attachments at the session's StreamID
  handler,     \* where the handler of the stream is
  mine         \* the attachment it is working on

session == <<limit, last, over>>
sink == <<next, busy, replayFirst, replayLast, frames, late>>
closer == <<shut, victim>>
handling == <<handler, mine>>
vars == <<session, port, sink, watch, peer, closer, entry, handling>>

Init ==
  /\ limit \in Limits
  /\ last = 0 /\ over = FALSE
  /\ port = [a \in Attachments |-> "done"]
  /\ next = [a \in Attachments |-> 1] /\ busy = [a \in Attachments |-> "no"]
  /\ replayFirst = [a \in Attachments |-> 1] /\ replayLast = [a \in Attachments |-> 0]
  /\ frames = [a \in Attachments |-> <<>>] /\ late = [a \in Attachments |-> FALSE]
  /\ watch = [a \in Attachments |-> "none"]
  /\ peer = "open"
  /\ shut = "open" /\ victim = None /\ entry = None
  /\ handler = "idle" /\ mine = None

Open(a) == port[a] \in {"paused", "active"}

Gone(a) == port[a] \in {"done", "broken"}

\* Attachment.finish: the first caller closes the attachment.
Finish(a, why) == port' = [port EXCEPT ![a] = IF Open(a) THEN why ELSE @]

\* A frame is its kind, with the sequence number of an output.
Event(a) == IF next[a] > last THEN <<"exit">> ELSE <<"output", next[a]>>

Emit(a, f) == frames' = [frames EXCEPT ![a] = Append(@, f)] /\ UNCHANGED late

Renew(a, n, m) ==
  /\ next' = [next EXCEPT ![a] = n] /\ busy' = [busy EXCEPT ![a] = "no"]
  /\ replayFirst' = [replayFirst EXCEPT ![a] = n] /\ replayLast' = [replayLast EXCEPT ![a] = m]
  /\ frames' = [frames EXCEPT ![a] = <<>>] /\ late' = [late EXCEPT ![a] = FALSE]

Goto(here, there) == handler = here /\ handler' = there
-----------------------------------------------------------------------------
(* The session and its attachments (external to this component) *)

Publish ==
  /\ ~over /\ last < limit.output /\ last' = last + 1
  /\ UNCHANGED <<limit, over, port, sink, watch, peer, closer, entry, handling>>

SessionExits ==
  /\ ~over /\ over' = TRUE
  /\ UNCHANGED <<limit, last, port, sink, watch, peer, closer, entry, handling>>

\* Overflow or the drain timeout; the session or the Manager goes.
Breaks(a) ==
  /\ limit.faults /\ Open(a) /\ \E why \in {"failed", "closed"} : Finish(a, why)
  /\ UNCHANGED <<session, sink, watch, peer, closer, entry, handling>>

\* The worker hands the next event to the sink, or has delivered the exit.
Takes(a) ==
  /\ port[a] = "active" /\ busy[a] = "no" /\ next[a] <= (IF over THEN last + 1 ELSE last)
  /\ busy' = [busy EXCEPT ![a] = "event"]
  /\ UNCHANGED <<session, port, next, replayFirst, replayLast, frames, late, watch, peer, closer, entry,
                 handling>>

Delivered(a) ==
  /\ port[a] = "active" /\ busy[a] = "no" /\ over /\ next[a] > last + 1
  /\ Finish(a, "closed")
  /\ UNCHANGED <<session, sink, watch, peer, closer, entry, handling>>

\* handleAttach before Activate.
Announcing == {"insert", "respond", "begin", "end"}

\* The worker has left the sink; what its sink did is forgotten, unless the
\* handler has still frames to send for a.
Done(a) ==
  /\ ~Open(a) /\ ~Gone(a) /\ busy[a] = "no"
  /\ port' = [port EXCEPT ![a] = IF @ = "failed" THEN "broken" ELSE "done"]
  /\ IF mine = a /\ handler \in Announcing THEN UNCHANGED sink ELSE Renew(a, 1, 0)
  /\ UNCHANGED <<session, watch, peer, closer, entry, handling>>
-----------------------------------------------------------------------------
(* protocolOutputSink.Send *)

LastOfReplay(a) == replayLast[a] # 0 /\ next[a] = replayLast[a]

\* The frame of the event is sent; after the last one of the replay,
\* ReplayEnd has to follow within the same call.
SinkSends(a) ==
  /\ busy[a] = "event" /\ peer = "open"
  /\ Emit(a, Event(a))
  /\ next' = [next EXCEPT ![a] = @ + 1]
  /\ busy' = [busy EXCEPT ![a] = IF LastOfReplay(a) THEN "end" ELSE "no"]
  /\ UNCHANGED <<session, port, replayFirst, replayLast, watch, peer, closer, entry, handling>>

SinkEnds(a) ==
  /\ busy[a] = "end" /\ peer = "open"
  /\ Emit(a, <<"end">>)
  /\ busy' = [busy EXCEPT ![a] = "no"]
  /\ UNCHANGED <<session, port, next, replayFirst, replayLast, watch, peer, closer, entry, handling>>

\* The Peer has closed, or the attachment has been closed and its context
\* canceled; then the frame may have been queued all the same.
SinkFails(a) ==
  /\ busy[a] # "no" /\ (peer = "closed" \/ ~Open(a))
  /\ \/ UNCHANGED <<frames, late>>
     \/ /\ peer = "open"
        /\ Emit(a, IF busy[a] = "end" THEN <<"end">> ELSE Event(a))
  /\ Finish(a, "failed")
  /\ busy' = [busy EXCEPT ![a] = "no"]
  /\ UNCHANGED <<session, next, replayFirst, replayLast, watch, peer, closer, entry, handling>>
-----------------------------------------------------------------------------
(* The Peer *)

TransportFails ==
  /\ limit.faults /\ peer = "open" /\ peer' = "closed"
  /\ UNCHANGED <<session, port, sink, watch, closer, entry, handling>>

\* The end of a handler that calls respond: it fails with the Peer.
Respond == handler' = IF peer = "open" THEN "idle" ELSE "fail"

Answer ==
  /\ handler = "answer" /\ Respond
  /\ UNCHANGED <<session, port, sink, watch, peer, closer, entry, mine>>

\* Open, List, Inspect, Resize, and every request that is refused: not
\* decoded, not authorized, no such session, already attached, not attached.
Asks ==
  /\ limit.others /\ Goto("idle", "answer")
  /\ UNCHANGED <<session, port, sink, watch, peer, closer, entry, mine>>

\* The handler has returned an error: the Peer fails, the stream's worker ends.
HandlerFails ==
  /\ Goto("fail", "dead") /\ peer' = "closed"
  /\ mine' = None
  /\ UNCHANGED <<session, port, sink, watch, closer, entry>>

\* runInbound still handles what was queued when the Peer closed.
QueueEmpty ==
  /\ Goto("idle", "dead") /\ peer = "closed"
  /\ UNCHANGED <<session, port, sink, watch, peer, closer, entry, mine>>
-----------------------------------------------------------------------------
(* handleAttach *)

HandleAttach ==
  /\ Goto("idle", "attaching") /\ entry = None /\ shut = "open"
  /\ UNCHANGED <<session, port, sink, watch, peer, closer, entry, mine>>

\* Attach fails: the limit, a future sequence, an exited session.
AttachFails ==
  /\ Goto("attaching", "answer")
  /\ UNCHANGED <<session, port, sink, watch, peer, closer, entry, mine>>

Unused(a) == Gone(a) /\ watch[a] = "none" /\ a \notin {entry, victim, mine}

\* session.Attach, paused, replays n..last; the context may have been
\* canceled since Attach looked at it.
Attached(a, n) ==
  /\ Goto("attaching", "insert")
  /\ a <= limit.attachments /\ Unused(a) /\ \A b \in 1..(a - 1) : ~Unused(b)
  /\ port' = [port EXCEPT ![a] = "paused"]
  /\ Renew(a, n, IF n > last THEN 0 ELSE last)
  /\ mine' = a
  /\ UNCHANGED <<session, watch, peer, closer, entry>>

Insert ==
  /\ Goto("insert", "respond")
  /\ entry' = mine
  /\ UNCHANGED <<session, port, sink, watch, peer, closer, mine>>

\* The response, ReplayBegin, and ReplayEnd if there is nothing to replay.
Announce ==
  /\ peer = "open"
  /\ \/ Goto("respond", "begin") /\ Emit(mine, <<"attached">>)
     \/ /\ Goto("begin", IF replayLast[mine] = 0 THEN "end" ELSE "activate")
        /\ Emit(mine, <<"begin">>)
     \/ Goto("end", "activate") /\ Emit(mine, <<"end">>)
  /\ UNCHANGED <<session, port, next, busy, replayFirst, replayLast, watch, peer, closer, entry, mine>>

AnnounceFails ==
  /\ peer = "closed" /\ handler \in {"respond", "begin", "end"} /\ handler' = "cleanup"
  /\ UNCHANGED <<session, port, sink, watch, peer, closer, entry, mine>>

\* Activate fails when the attachment has been closed meanwhile.
Activate ==
  /\ handler = "activate"
  /\ IF port[mine] = "paused"
     THEN /\ handler' = "idle" /\ mine' = None
          /\ port' = [port EXCEPT ![mine] = "active"]
          /\ watch' = [watch EXCEPT ![mine] = "watching"]
     ELSE handler' = "cleanup" /\ UNCHANGED <<mine, port, watch>>
  /\ UNCHANGED <<session, sink, peer, closer, entry>>

Cleanup ==
  /\ Goto("cleanup", "fail")
  /\ entry' = IF entry = mine THEN None ELSE entry
  /\ Finish(mine, "closed")
  /\ UNCHANGED <<session, sink, watch, peer, closer, mine>>
-----------------------------------------------------------------------------
(* handleDetach, handleKill and handleInput *)

HandleDetach ==
  /\ Goto("idle", "detaching") /\ entry # None
  /\ mine' = entry /\ entry' = None
  /\ UNCHANGED <<session, port, sink, watch, peer, closer>>

\* Mutant: the attachment leaves the map but stays open.
DetachForgets ==
  /\ Goto("detaching", "detached")
  /\ UNCHANGED <<session, port, sink, watch, peer, closer, entry, mine>>

\* Attachment.Close does not wait for the sink.
DetachCloses ==
  /\ Goto("detaching", "detached") /\ Finish(mine, "closed")
  /\ UNCHANGED <<session, sink, watch, peer, closer, entry, mine>>

DetachAnswered ==
  /\ handler = "detached" /\ Respond /\ mine' = None
  /\ LET more == peer = "open" /\ ~Gone(mine)
     IN /\ late' = [late EXCEPT ![mine] = more]
        /\ frames' = [frames EXCEPT ![mine] = IF more THEN <<>> ELSE @]
  /\ UNCHANGED <<session, port, next, busy, replayFirst, replayLast, watch, peer, closer, entry>>

\* A Detach that is not a request is carried out, but cannot be answered.
DetachUnanswered ==
  /\ Goto("detached", "fail") /\ mine' = None
  /\ UNCHANGED <<session, port, sink, watch, peer, closer, entry>>

HandleKill ==
  /\ limit.others /\ Goto("idle", "kill")
  /\ UNCHANGED <<session, port, sink, watch, peer, closer, entry, mine>>

\* Mutant: Kill does not listen to its context.
KillInsists ==
  /\ Goto("kill", "answer") /\ over
  /\ UNCHANGED <<session, port, sink, watch, peer, closer, entry, mine>>

\* Manager.Kill returns when the session has ended, or with the Peer.
KillReturns ==
  /\ Goto("kill", "answer") /\ (over \/ peer = "closed")
  /\ UNCHANGED <<session, port, sink, watch, peer, closer, entry, mine>>

\* Input fails if it is not an event, not authorized or has no running session;
\* so do the other handlers when they cannot answer what is not a request.
HandleBad ==
  /\ limit.others /\ Goto("idle", "fail")
  /\ UNCHANGED <<session, port, sink, watch, peer, closer, entry, mine>>

HandleInput ==
  /\ limit.others /\ Goto("idle", "write") /\ ~over
  /\ UNCHANGED <<session, port, sink, watch, peer, closer, entry, mine>>

\* The child has read it or is gone; the context is looked at between writes.
InputReturns ==
  /\ handler = "write" /\ handler' \in {"idle", "fail"}
  /\ handler' = "fail" => over \/ peer = "closed"
  /\ UNCHANGED <<session, port, sink, watch, peer, closer, entry, mine>>
-----------------------------------------------------------------------------
(* watchAttachment *)

\* Mutant: the entry goes, whosever it is.
WatchDoneDeletes(a) ==
  /\ watch[a] = "watching" /\ Gone(a)
  /\ entry' = None
  /\ watch' = [watch EXCEPT ![a] = IF port[a] = "broken" THEN "report" ELSE "none"]
  /\ UNCHANGED <<session, port, sink, peer, closer, handling>>

WatchDone(a) ==
  /\ watch[a] = "watching" /\ Gone(a)
  /\ entry' = IF entry = a THEN None ELSE entry
  /\ watch' = [watch EXCEPT ![a] = IF port[a] = "broken" THEN "report" ELSE "none"]
  /\ UNCHANGED <<session, port, sink, peer, closer, handling>>

WatchCanceled(a) ==
  /\ watch[a] = "watching" /\ shut # "open"
  /\ watch' = [watch EXCEPT ![a] = "none"]
  /\ UNCHANGED <<session, port, sink, peer, closer, entry, handling>>

\* Mutant: the Error event is all.
ReportOnly(a) ==
  /\ watch[a] = "report"
  /\ watch' = [watch EXCEPT ![a] = "none"]
  /\ UNCHANGED <<session, port, sink, peer, closer, entry, handling>>

\* The Error event is sent within 250 ms or not at all; then Peer.Close.
Report(a) ==
  /\ watch[a] = "report"
  /\ watch' = [watch EXCEPT ![a] = "wait"] /\ peer' = "closed"
  /\ UNCHANGED <<session, port, sink, closer, entry, handling>>

\* Peer.Close has waited for the handlers.
PeerCloseReturns(a) ==
  /\ watch[a] = "wait" /\ handler = "dead"
  /\ watch' = [watch EXCEPT ![a] = "none"]
  /\ UNCHANGED <<session, port, sink, peer, closer, entry, handling>>
-----------------------------------------------------------------------------
(* Protocol.Close *)

Close ==
  /\ shut = "open" /\ shut' = "canceled"
  /\ UNCHANGED <<session, port, sink, watch, peer, victim, entry, handling>>

\* Takes the map and closes what was in it.
CloseTakes ==
  /\ shut = "canceled" /\ shut' = "waiting"
  /\ victim' = entry /\ entry' = None
  /\ IF entry = None THEN UNCHANGED port ELSE Finish(entry, "closed")
  /\ UNCHANGED <<session, sink, watch, peer, handling>>

CloseReturns ==
  /\ shut = "waiting" /\ shut' = "closed"
  /\ victim # None => Gone(victim)
  /\ victim' = None
  /\ UNCHANGED <<session, port, sink, watch, peer, entry, handling>>

\* Mutant: the attachment has the context of its handler, which the Peer cancels.
ContextIsHandlers(a) ==
  /\ peer = "closed" /\ Open(a) /\ Finish(a, "closed")
  /\ UNCHANGED <<session, sink, watch, peer, closer, entry, handling>>

\* context.AfterFunc of the context that Protocol.Close has canceled.
ContextCloses(a) ==
  /\ shut # "open" /\ Open(a) /\ Finish(a, "closed")
  /\ UNCHANGED <<session, sink, watch, peer, closer, entry, handling>>
-----------------------------------------------------------------------------
Attaching ==
  \/ HandleAttach \/ AttachFails \/ Insert \/ Announce \/ AnnounceFails \/ Activate \/ Cleanup
  \/ \E a \in Attachments, n \in 1..(last + 1) : Attached(a, n)

Detaching == HandleDetach \/ DetachCloses \/ DetachAnswered \/ DetachUnanswered

Handling ==
  \/ Asks \/ Answer \/ HandlerFails \/ QueueEmpty \/ Attaching \/ Detaching
  \/ HandleKill \/ KillReturns \/ HandleBad \/ HandleInput \/ InputReturns

Sending(a) == SinkSends(a) \/ SinkEnds(a) \/ SinkFails(a)

Watching(a) == WatchDone(a) \/ WatchCanceled(a) \/ Report(a) \/ PeerCloseReturns(a)

Next ==
  \/ Publish \/ SessionExits \/ TransportFails
  \/ Handling \/ Close \/ CloseTakes \/ CloseReturns
  \/ \E a \in Attachments :
       \/ Breaks(a) \/ Takes(a) \/ Delivered(a) \/ Done(a)
       \/ Sending(a) \/ Watching(a) \/ ContextCloses(a)

Spec == Init /\ [][Next]_vars

\* Steps of the handlers that wait for nothing, or for what a closed Peer ends.
Proceeds ==
  \/ AttachFails \/ (\E a \in Attachments, n \in 1..(last + 1) : Attached(a, n)) \/ Insert
  \/ AnnounceFails \/ Activate \/ Cleanup \/ DetachCloses \/ KillReturns \/ HandlerFails
  \/ (Answer \/ DetachAnswered) /\ peer = "closed"
  \/ InputReturns /\ over

\* Goroutines run.  The remote need not read while the Peer is open, the child
\* need not read its input while it runs, and nobody need send a frame; the
\* queue of a closed Peer is finite.
Fairness ==
  /\ WF_vars(Proceeds) /\ SF_vars(QueueEmpty)
  /\ WF_vars(Close /\ peer = "closed") /\ WF_vars(CloseTakes) /\ WF_vars(CloseReturns)
  /\ \A a \in Attachments :
       WF_vars(Done(a) \/ SinkFails(a)) /\ WF_vars(ContextCloses(a)) /\ WF_vars(Watching(a))

FairSpec == Spec /\ Fairness
-----------------------------------------------------------------------------
(* Properties *)

Outputs(m, n) == [k \in 1..(n - m + 1) |-> <<"output", m + k - 1>>]

\* All the frames that can be sent for a.
Script(a) ==
  LET opening == <<<<"attached">>, <<"begin">>>>
      split == IF replayLast[a] = 0 THEN replayFirst[a] - 1 ELSE replayLast[a]
  IN opening \o Outputs(replayFirst[a], split) \o <<<<"end">>>>
       \o Outputs(split + 1, last) \o <<<<"exit">>>>

\* What a client sees of an attachment, written by its handler and by its sink,
\* is the response, ReplayBegin, the replay, ReplayEnd, live output and Exit,
\* whatever is published, closed or canceled meanwhile.  Detach does not wait
\* for the sink: after its response there may still come the event that was
\* being sent, and its ReplayEnd, but nothing else.
FramesInOrder ==
  \A a \in Attachments :
    IF late[a] THEN \/ Len(frames[a]) <= 1
                    \/ frames[a] = <<<<"output", replayLast[a]>>, <<"end">>>>
    ELSE frames[a] = SubSeq(Script(a), 1, Len(frames[a]))

\* The map names the open attachment of the stream, so that Detach finds it,
\* and an entry that is left is being watched, so that it cannot outlive its
\* attachment and refuse every later Attach.
MapExact ==
  shut = "open" =>
    /\ \A a \in Attachments : Open(a) => a \in {entry, mine}
    /\ handler = "idle" /\ entry # None => watch[entry] = "watching"

\* "Closing a Protocol or Peer detaches its frontend": no attachment is left,
\* not even one that a handler was creating when Protocol.Close took the map.
CloseDetaches ==
  (peer = "closed" \/ shut # "open") ~> [](\A a \in Attachments : Gone(a))

\* An attachment that fails ends its connection: through its watcher or, if it
\* has failed before Activate, through the handler once it has announced it.
FailureClosesPeer ==
  \A a \in Attachments :
    /\ port[a] \in {"failed", "broken"}
    /\ \/ watch[a] = "watching"
       \/ mine = a /\ handler = "activate"
    ~> peer = "closed" \/ shut # "open"

\* Peer.Close, called by the watcher, comes back unless a handler is writing
\* input that the child does not read: Session.Input looks at its context only
\* between writes.
PeerCloseEnds ==
  \A a \in Attachments : (watch[a] = "wait")
                            ~> (watch[a] = "none" \/ (handler = "write" /\ ~over))

\* "Close is idempotent and detaches this connection's attachments without
\* stopping their Sessions or closing the Peer": an Attach that Protocol.Close
\* interrupts does not make its handler fail, and with it the Peer.
CloseKeepsPeer == [][HandlerFails /\ peer = "open" /\ mine # None => shut = "open"]_vars
=============================================================================
