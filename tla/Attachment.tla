----------------------------- MODULE Attachment -----------------------------
(***************************************************************************)
(* One Session's output on its way to attachments (pty/manager.go):        *)
(* publish numbers a chunk, appends it to the history and to the queue of  *)
(* every attachment; Attach captures the history after ResumeAfter; the    *)
(* worker of an attachment hands replay, queue and the exit event to its   *)
(* sink; finish ends it, for whichever of many reasons comes first.        *)
(*                                                                         *)
(* A chunk is its sequence number and counts as one byte, so QueueLimit    *)
(* and HistoryLimit are in chunks (module History has chunks of any size). *)
(* An attachment is reused when nothing refers to it any more.             *)
(***************************************************************************)
EXTENDS Integers, FiniteSets, Sequences

CONSTANTS
  Attachments,
  MaxOutput,       \* bound on the chunks a behaviour publishes
  QueueLimit,      \* AttachmentQueueBytes
  HistoryLimit,    \* HistoryBytes
  MaxAttachments,  \* MaxAttachmentsPerSession
  Retain,          \* ExitPolicy is ExitedSessionRetain
  Exit             \* the exit event

ASSUME AttachmentAssumption ==
  /\ MaxOutput \in Nat /\ QueueLimit \in Nat \ {0} /\ HistoryLimit \in Nat
  /\ MaxAttachments \in Nat \ {0} /\ Retain \in BOOLEAN
  /\ Exit \notin Nat

VARIABLES
  state,         \* "running", "draining" after exit, "retained", "removing", "removed"
  lastSequence,
  first,         \* the history is first..lastSequence
  attachments,   \* the entries of Session.attachments
  awaited,       \* attachments that Session.run or Remove waits for
  failing,       \* attachments that publish or run has still to finish
  closing,       \* Manager.closing
  canceled,      \* the Manager's context has ended
  replay, queue, active, ending, closed, reason,
                 \* fields of each attachment; ending is Attachment.closing
  recording,     \* finish has still to call recordAttachmentClose
  worker,        \* Attachment.run: "none", "top", "sending", "exiting", "recording" or "done"
  exitReason,    \* the reason the worker is about to finish with
  from, got      \* the first chunk Attach promised, and the events handed to the sink

session == <<state, lastSequence, first, attachments, awaited, failing, closing, canceled>>
content == <<replay, queue, active, ending>>
ended == <<closed, reason, recording>>
work == <<worker, exitReason>>
vars == <<session, content, ended, work, from, got>>

Init ==
  /\ state = "running" /\ lastSequence = 0 /\ first = 1
  /\ attachments = {} /\ awaited = {} /\ failing = {} /\ closing = FALSE /\ canceled = FALSE
  /\ replay = [a \in Attachments |-> <<>>] /\ queue = [a \in Attachments |-> <<>>]
  /\ active = [a \in Attachments |-> FALSE] /\ ending = [a \in Attachments |-> FALSE]
  /\ closed = [a \in Attachments |-> TRUE] /\ reason = [a \in Attachments |-> "none"]
  /\ recording = [a \in Attachments |-> FALSE]
  /\ worker = [a \in Attachments |-> "none"]
  /\ exitReason = [a \in Attachments |-> "none"]
  /\ from = [a \in Attachments |-> 1] /\ got = [a \in Attachments |-> <<>>]
-----------------------------------------------------------------------------
(* The session *)

\* enqueueLocked accepts a chunk for a.
Accepts(a) == ~closed[a] /\ ~ending[a] /\ Len(queue[a]) < QueueLimit

\* Mutant: a full attachment skips the chunk and stays.
PublishSkips ==
  /\ state = "running" /\ failing = {} /\ lastSequence < MaxOutput
  /\ lastSequence' = lastSequence + 1
  /\ first' = IF lastSequence' - first >= HistoryLimit THEN first + 1 ELSE first
  /\ queue' = [a \in Attachments |-> IF a \in attachments /\ Accepts(a)
                                    THEN Append(queue[a], lastSequence') ELSE queue[a]]
  /\ UNCHANGED <<state, attachments, awaited, failing, closing, canceled, replay, active, ending, ended,
                 work, from, got>>

\* publish: history and queues get the chunk in one critical section; those
\* that cannot take it are no longer entries and are finished afterwards.
Publish ==
  /\ state = "running" /\ failing = {} /\ lastSequence < MaxOutput
  /\ lastSequence' = lastSequence + 1
  /\ first' = IF lastSequence' - first >= HistoryLimit THEN first + 1 ELSE first
  /\ queue' = [a \in Attachments |-> IF a \in attachments /\ Accepts(a)
                                    THEN Append(queue[a], lastSequence') ELSE queue[a]]
  /\ attachments' = {a \in attachments : Accepts(a)}
  /\ failing' = {a \in attachments : ~Accepts(a)}
  /\ UNCHANGED <<state, awaited, closing, canceled, replay, active, ending, ended, work, from, got>>

\* The oldest chunk goes because another session's output needs the room.
DropFirst ==
  /\ state # "removed" /\ first <= lastSequence
  /\ first' = first + 1
  /\ UNCHANGED <<state, lastSequence, attachments, awaited, failing, closing, canceled, content, ended,
                 work, from, got>>

\* The process has exited and its output has ended: the exit event is queued
\* regardless of the limit, and run waits for the attachments it found.
ProcessExit ==
  /\ state = "running" /\ failing = {}
  /\ state' = "draining"
  /\ LET told == {a \in attachments : ~closed[a]}
     IN /\ queue' = [a \in Attachments |-> IF a \in told THEN Append(queue[a], Exit) ELSE queue[a]]
        /\ ending' = [a \in Attachments |-> a \in told \/ ending[a]]
  /\ awaited' = attachments
  /\ failing' = {a \in attachments : closed[a]}
  /\ UNCHANGED <<lastSequence, first, attachments, closing, canceled, replay, active, ended, work,
                 from, got>>

\* All of them are done: the session is retained or removed.
Drained ==
  /\ state = "draining" /\ failing = {} /\ \A a \in awaited : worker[a] = "done"
  /\ state' = IF ~closing /\ Retain THEN "retained" ELSE "removed"
  /\ first' = IF state' = "removed" THEN lastSequence + 1 ELSE first
  /\ attachments' = {} /\ awaited' = {}
  /\ UNCHANGED <<lastSequence, failing, closing, canceled, content, ended, work, from, got>>

\* Remove or an eviction takes the entries, finishes them and waits for them.
Remove ==
  /\ state = "retained"
  /\ state' = "removing"
  /\ awaited' = attachments
  /\ attachments' = {}
  /\ UNCHANGED <<lastSequence, first, failing, closing, canceled, content, ended, work, from, got>>

Removed ==
  /\ state = "removing" /\ \A a \in awaited : worker[a] = "done" /\ ~recording[a]
  /\ state' = "removed" /\ awaited' = {}
  /\ first' = lastSequence + 1
  /\ UNCHANGED <<lastSequence, attachments, failing, closing, canceled, content, ended, work, from, got>>

\* Manager.Close: nothing attaches any more and every context is canceled.
ManagerClose ==
  /\ ~closing /\ closing' = TRUE /\ canceled' = TRUE
  /\ UNCHANGED <<state, lastSequence, first, attachments, awaited, failing, content, ended, work,
                 from, got>>

\* The parent of the Manager's context ends; NewManager then calls Close.
ContextEnds ==
  /\ ~canceled /\ canceled' = TRUE
  /\ UNCHANGED <<state, lastSequence, first, attachments, awaited, failing, closing, content,
                 ended, work, from, got>>
-----------------------------------------------------------------------------
(* Attach, Activate and finish *)

Interval(m, n) == [k \in 1..(n - m + 1) |-> m + k - 1]

Larger(m, n) == IF m > n THEN m ELSE n

Unused(a) ==
  /\ worker[a] \in {"none", "done"} /\ ~recording[a]
  /\ a \notin attachments \cup awaited \cup failing

\* Captures the replay and joins the live output; start is the first chunk
\* that the replay takes from the history.
AttachFrom(a, start, paused) ==
  /\ Unused(a)
  /\ ~closing /\ state \in {"running", "retained"}
  /\ Cardinality(attachments) < MaxAttachments
  /\ replay' = [replay EXCEPT ![a] = Interval(start, lastSequence)]
  /\ queue' = [queue EXCEPT ![a] = IF state = "retained" THEN <<Exit>> ELSE <<>>]
  /\ ending' = [ending EXCEPT ![a] = state = "retained"]
  /\ active' = [active EXCEPT ![a] = ~paused]
  /\ closed' = [closed EXCEPT ![a] = FALSE]
  /\ reason' = [reason EXCEPT ![a] = "none"]
  /\ worker' = [worker EXCEPT ![a] = "top"]
  /\ exitReason' = [exitReason EXCEPT ![a] = "none"]
  /\ attachments' = attachments \cup {a}
  /\ from' = [from EXCEPT ![a] = start] /\ got' = [got EXCEPT ![a] = <<>>]
  /\ UNCHANGED <<state, lastSequence, first, awaited, failing, closing, canceled, recording>>

\* Attach with ReplayHistory; without replay it is ResumeAfter = lastSequence.
Attach(a, resumeAfter, paused) ==
  resumeAfter <= lastSequence /\ AttachFrom(a, Larger(first, resumeAfter + 1), paused)

Activate(a) ==
  /\ ~closed[a] /\ ~active[a]
  /\ active' = [active EXCEPT ![a] = TRUE]
  /\ UNCHANGED <<session, replay, queue, ending, ended, work, from, got>>

\* The first critical section of finish, which only the first caller runs.
Finish(a, why) ==
  /\ ~closed[a]
  /\ closed' = [closed EXCEPT ![a] = TRUE]
  /\ reason' = [reason EXCEPT ![a] = why]
  /\ recording' = [recording EXCEPT ![a] = TRUE]
  /\ replay' = [replay EXCEPT ![a] = <<>>] /\ queue' = [queue EXCEPT ![a] = <<>>]
  /\ UNCHANGED <<active, ending, from, got>>

\* Attachment.Close, or the caller's context ends.
Close(a) == Finish(a, "explicit") /\ UNCHANGED <<session, work>>

\* finish of an attachment that could not take a chunk or the exit event; it
\* waits for another finish of the same attachment (finishOnce).
FinishFailing(a) ==
  /\ a \in failing /\ ~recording[a]
  /\ failing' = failing \ {a}
  /\ IF closed[a] THEN UNCHANGED <<content, ended, from, got>> ELSE Finish(a, "queue_overflow")
  /\ UNCHANGED <<state, lastSequence, first, attachments, awaited, closing, canceled, work>>

\* Mutant: an attachment that is sending is left to its sink.
DrainTimeoutIdle(a) ==
  /\ state = "draining" /\ a \in awaited /\ worker[a] # "sending"
  /\ Finish(a, "drain_timeout") /\ UNCHANGED <<session, work>>

\* The drain timeout has passed.
DrainTimeout(a) ==
  /\ state = "draining" /\ a \in awaited
  /\ Finish(a, "drain_timeout") /\ UNCHANGED <<session, work>>

FinishRemoved(a) ==
  /\ state = "removing" /\ a \in awaited
  /\ Finish(a, "session_removed") /\ UNCHANGED <<session, work>>

\* recordAttachmentClose, at the end of finish.
Record(a) ==
  /\ recording[a]
  /\ recording' = [recording EXCEPT ![a] = FALSE]
  /\ attachments' = attachments \ {a}
  /\ worker' = [worker EXCEPT ![a] = IF @ = "recording" THEN "done" ELSE @]
  /\ UNCHANGED <<state, lastSequence, first, awaited, failing, closing, canceled, content, closed,
                 reason, exitReason, from, got>>
-----------------------------------------------------------------------------
(* Attachment.run *)

Pending(a) == replay[a] # <<>> \/ queue[a] # <<>>

SetWorker(a, pc) == worker' = [worker EXCEPT ![a] = pc]

\* The worker sees that the attachment is closed and closes Attachment.done.
WorkerSeesClosed(a) ==
  /\ worker[a] = "top" /\ closed[a]
  /\ SetWorker(a, "done")
  /\ UNCHANGED <<session, content, ended, exitReason, from, got>>

\* Mutant: the exit is taken for delivered while replay is left.
WorkerDrainedEarly(a) ==
  /\ worker[a] = "top" /\ ~closed[a] /\ ending[a] /\ Len(queue[a]) <= 1
  /\ SetWorker(a, "exiting") /\ exitReason' = [exitReason EXCEPT ![a] = "session_exited"]
  /\ UNCHANGED <<session, content, ended, from, got>>

WorkerDrained(a) ==
  /\ worker[a] = "top" /\ ~closed[a] /\ ending[a] /\ ~Pending(a)
  /\ SetWorker(a, "exiting") /\ exitReason' = [exitReason EXCEPT ![a] = "session_exited"]
  /\ UNCHANGED <<session, content, ended, from, got>>

\* A worker with nothing to do sees the context of the Manager end.
WorkerCanceled(a) ==
  /\ worker[a] = "top" /\ ~closed[a] /\ canceled
  /\ ~active[a] \/ (~Pending(a) /\ ~ending[a])
  /\ SetWorker(a, "exiting") /\ exitReason' = [exitReason EXCEPT ![a] = "manager_closed"]
  /\ UNCHANGED <<session, content, ended, from, got>>

\* Mutant: live output overtakes the replay.
WorkerTakesLive(a) ==
  /\ worker[a] = "top" /\ ~closed[a] /\ active[a] /\ Pending(a)
  /\ IF queue[a] = <<>>
     THEN /\ got' = [got EXCEPT ![a] = Append(@, Head(replay[a]))]
          /\ replay' = [replay EXCEPT ![a] = Tail(@)] /\ UNCHANGED queue
     ELSE /\ got' = [got EXCEPT ![a] = Append(@, Head(queue[a]))]
          /\ queue' = [queue EXCEPT ![a] = Tail(@)] /\ UNCHANGED replay
  /\ SetWorker(a, "sending")
  /\ UNCHANGED <<session, active, ending, ended, exitReason, from>>

\* The next event, of the replay first, is handed to OutputSink.Send.
WorkerTakes(a) ==
  /\ worker[a] = "top" /\ ~closed[a] /\ active[a] /\ Pending(a)
  /\ IF replay[a] # <<>>
     THEN /\ got' = [got EXCEPT ![a] = Append(@, Head(replay[a]))]
          /\ replay' = [replay EXCEPT ![a] = Tail(@)] /\ UNCHANGED queue
     ELSE /\ got' = [got EXCEPT ![a] = Append(@, Head(queue[a]))]
          /\ queue' = [queue EXCEPT ![a] = Tail(@)] /\ UNCHANGED replay
  /\ SetWorker(a, "sending")
  /\ UNCHANGED <<session, active, ending, ended, exitReason, from>>

SendReturns(a) ==
  /\ worker[a] = "sending"
  /\ SetWorker(a, "top")
  /\ UNCHANGED <<session, content, ended, exitReason, from, got>>

SendFails(a) ==
  /\ worker[a] = "sending"
  /\ SetWorker(a, "exiting")
  /\ exitReason' = [exitReason EXCEPT ![a] = IF canceled THEN "manager_closed" ELSE "sink_failure"]
  /\ UNCHANGED <<session, content, ended, from, got>>

\* The worker's own finish: it runs it, joins the one that is running, or finds
\* it over (finishOnce); then Attachment.done is closed.
WorkerFinishes(a) ==
  /\ worker[a] = "exiting"
  /\ IF closed[a] THEN UNCHANGED <<content, ended, from, got>> ELSE Finish(a, exitReason[a])
  /\ SetWorker(a, IF closed[a] /\ ~recording[a] THEN "done" ELSE "recording")
  /\ UNCHANGED <<session, exitReason>>
-----------------------------------------------------------------------------
Working(a) ==
  \/ WorkerSeesClosed(a) \/ WorkerDrained(a) \/ WorkerCanceled(a) \/ WorkerTakes(a)
  \/ SendReturns(a) \/ SendFails(a) \/ WorkerFinishes(a)

Next ==
  \/ Publish \/ DropFirst \/ ProcessExit \/ Drained \/ Remove \/ Removed
  \/ ManagerClose \/ ContextEnds
  \/ \E a \in Attachments :
       \/ \E n \in 0..MaxOutput, p \in BOOLEAN : Attach(a, n, p)
       \/ Activate(a) \/ Close(a) \/ FinishFailing(a) \/ DrainTimeout(a) \/ FinishRemoved(a)
       \/ Record(a) \/ Working(a)

Spec == Init /\ [][Next]_vars

\* Goroutines run, timers fire, and Send returns once its context is canceled,
\* which finish and Manager.Close do; until then a sink may block for good.
Fairness ==
  /\ WF_vars(Drained) /\ WF_vars(Removed)
  /\ \A a \in Attachments :
       /\ WF_vars(FinishFailing(a)) /\ WF_vars(DrainTimeout(a)) /\ WF_vars(FinishRemoved(a))
       /\ WF_vars(Record(a))
       /\ WF_vars(Working(a) /\ worker[a] # "sending")
       /\ WF_vars(Working(a) /\ (closed[a] \/ canceled))

FairSpec == Spec /\ Fairness
-----------------------------------------------------------------------------
(* Properties *)

\* Replay and live output meet without a gap or a repetition whatever is
\* published, dropped from the history or exited while Attach runs: what an
\* open attachment has got and still holds is all of the promised output.
NothingMissing ==
  \A a \in attachments : ~closed[a] =>
    got[a] \o replay[a] \o queue[a]
      = Interval(from[a], lastSequence) \o (IF state = "running" THEN <<>> ELSE <<Exit>>)

\* An attachment that reports "session_exited" has handed everything, the exit
\* event included, to its sink.
ExitedMeansComplete ==
  \A a \in Attachments : reason[a] = "session_exited" =>
    got[a] = Append(Interval(from[a], lastSequence), Exit)

OL == INSTANCE OutputLog WITH Attachment <- Attachments, last <- lastSequence,
                              over <- (state # "running")

\* Every sink sees consecutive output in order and one exit event at the end.
OrderedDelivery == OL!Spec

\* A sink that blocks delays the end of its session only for a while.
DrainEnds == state = "draining" ~> state \in {"retained", "removed"}
=============================================================================
