---------------------------- MODULE PeerOutbound ----------------------------
(***************************************************************************)
(* The outbound half of a Peer (peer.go): callers of send put requests     *)
(* into bounded per-stream queues, the scheduler goroutine takes them by   *)
(* traffic class and hands them to the Conn one at a time, and fail shuts  *)
(* everything down.                                                        *)
(*                                                                         *)
(* A step is one critical section of Peer.mu, or one channel operation     *)
(* outside it.  p.changed is closed and replaced by signalLocked; a waiter *)
(* took the channel inside the critical section that found it must wait,   *)
(* so a signal moves every parked caller and the parked scheduler on.      *)
(*                                                                         *)
(* A member of Send is one invocation of send together with the            *)
(* outboundRequest it allocates.  The request is garbage once its caller    *)
(* has returned and neither a queue nor the scheduler holds it; the        *)
(* invocation is then free to stand for a later call, which bounds the     *)
(* requests alive at a time and nothing else.  The Conn is external:       *)
(* SendOwned either writes the frame or fails.                             *)
(***************************************************************************)
EXTENDS Integers, FiniteSets, Slices

CONSTANTS
  StreamID,
  Send,                   \* invocations of send alive at a time
  NoSend, NoOffer,        \* "no request in flight", "no request allocated"
  Offer,                  \* what callers send: [stream, class, bytes] records
  PerStreamQueueBytes, PerStreamQueueFrames,
  OutboundQueueBytes, OutboundQueueFrames,
  MaxActiveStreams,
  ControlWeight, InteractiveWeight, BulkWeight

\* TrafficClass in the order the scheduler visits it.
classes == <<"control", "interactive", "bulk">>

TrafficClass == {"control", "interactive", "bulk"}

weights == [control |-> ControlWeight, interactive |-> InteractiveWeight,
            bulk |-> BulkWeight]

\* StreamID is an integer type of the program.
ASSUME StreamsAssumption == IsFiniteSet(StreamID)

ASSUME SendAssumption == NoSend \notin Send

ASSUME OfferAssumption ==
  /\ NoOffer \notin Offer
  /\ Offer \subseteq [stream : StreamID, class : TrafficClass, bytes : Nat \ {0}]

\* PeerConfig.withDefaults rejects negative limits and replaces zero ones.
ASSUME ConfigAssumption ==
  /\ PerStreamQueueBytes \in Nat \ {0} /\ PerStreamQueueFrames \in Nat \ {0}
  /\ OutboundQueueBytes \in Nat \ {0} /\ OutboundQueueFrames \in Nat \ {0}
  /\ MaxActiveStreams \in Nat \ {0}
  /\ ControlWeight \in Nat \ {0} /\ InteractiveWeight \in Nat \ {0}
  /\ BulkWeight \in Nat \ {0}

VARIABLES
  closed,          \* Peer.closed; Peer.done is closed in the same section
  outbound,        \* the keys of the map Peer.outbound
  queue,           \* queue[s]: outboundStream.queue of stream s
  streamBytes,     \* streamBytes[s]: outboundStream.bytes of stream s
  outboundOrder, outboundBytes, outboundFrames,
  sched,           \* where the scheduler goroutine is
  classIndex, credit, cursor,    \* its locals, cursor counting from 0
  inflight,        \* the request it took and has not answered
  call,            \* call[c]: where the caller of send is
  req,             \* req[c]: the request's stream, class and bytes
  result,          \* result[c]: the contents of request.result, capacity 1
  closer           \* where a caller of Close is

pvars == <<outbound, queue, streamBytes, outboundOrder, outboundBytes, outboundFrames>>
svars == <<sched, classIndex, credit, cursor, inflight>>
cvars == <<call, req, result>>
vars == <<closed, pvars, svars, cvars, closer>>

Init ==
  /\ closed = FALSE
  /\ outbound = {}
  /\ queue = [s \in StreamID |-> <<>>]
  /\ streamBytes = [s \in StreamID |-> 0]
  /\ outboundOrder = <<>> /\ outboundBytes = 0 /\ outboundFrames = 0
  /\ sched = "select" /\ classIndex = 0 /\ credit = 0 /\ cursor = 0
  /\ inflight = NoSend
  /\ call = [c \in Send |-> "returned"]
  /\ req = [c \in Send |-> NoOffer]
  /\ result = [c \in Send |-> "empty"]
  /\ closer = "open"

Queued(c) == \E s \in StreamID : \E i \in 1..Len(queue[s]) : queue[s][i] = c

Held(c) == Queued(c) \/ inflight = c

\* signalLocked: every goroutine waiting on p.changed goes on.
WokenCalls == [c \in Send |-> IF call[c] = "blocked" THEN "woken" ELSE call[c]]

WokenScheduler == IF sched = "parked" THEN "select" ELSE sched

\* The requests in A are answered; those whose caller is gone become garbage.
Answer(A, value) ==
  /\ result' = [c \in Send |-> IF c \notin A THEN result[c]
                              ELSE IF call[c] = "returned" THEN "empty" ELSE value]
  /\ req' = [c \in Send |-> IF c \in A /\ call[c] = "returned" THEN NoOffer ELSE req[c]]

\* The caller returns; a request nobody holds becomes garbage.
Leave(c) ==
  /\ call' = [call EXCEPT ![c] = "returned"]
  /\ req' = [req EXCEPT ![c] = IF Held(c) THEN @ ELSE NoOffer]
  /\ result' = [result EXCEPT ![c] = IF Held(c) THEN @ ELSE "empty"]
-----------------------------------------------------------------------------
(* send *)

\* The frame is built and its size checked before the lock is taken: a frame
\* that can never fit is refused and leaves no trace but a counter.
SendBegin(c, o) ==
  /\ call[c] = "returned" /\ ~Held(c)
  /\ o.bytes <= PerStreamQueueBytes /\ o.bytes <= OutboundQueueBytes
  /\ call' = [call EXCEPT ![c] = "enqueue"]
  /\ req' = [req EXCEPT ![c] = o]
  /\ UNCHANGED <<closed, pvars, svars, result, closer>>

\* The condition under which the queues accept a request.
Fits(o) ==
  /\ o.bytes <= PerStreamQueueBytes /\ o.bytes <= OutboundQueueBytes
  /\ o.stream \notin outbound => Cardinality(outbound) < MaxActiveStreams
  /\ o.stream \in outbound =>
       /\ streamBytes[o.stream] + o.bytes <= PerStreamQueueBytes
       /\ Len(queue[o.stream]) + 1 <= PerStreamQueueFrames
  /\ outboundBytes + o.bytes <= OutboundQueueBytes
  /\ outboundFrames + 1 <= OutboundQueueFrames

\* Mutant: the request overtakes the earlier ones of its stream.
PushFront(c, s) ==
  /\ outbound' = outbound \cup {s}
  /\ outboundOrder' = IF s \in outbound THEN outboundOrder ELSE Append(outboundOrder, s)
  /\ queue' = [queue EXCEPT ![s] = <<c>> \o @]
  /\ streamBytes' = [streamBytes EXCEPT ![s] = @ + req[c].bytes]
  /\ outboundBytes' = outboundBytes + req[c].bytes
  /\ outboundFrames' = outboundFrames + 1

\* The stream's entry gains the request; a missing entry is made first.
Push(c, s) ==
  /\ outbound' = outbound \cup {s}
  /\ outboundOrder' = IF s \in outbound THEN outboundOrder ELSE Append(outboundOrder, s)
  /\ queue' = [queue EXCEPT ![s] = Append(IF s \in outbound THEN @ ELSE <<>>, c)]
  /\ streamBytes' = [streamBytes EXCEPT ![s] =
                       (IF s \in outbound THEN @ ELSE 0) + req[c].bytes]
  /\ outboundBytes' = outboundBytes + req[c].bytes
  /\ outboundFrames' = outboundFrames + 1

\* Mutant: the scheduler is not signalled.
EnqueueSilent(c) ==
  /\ call[c] \in {"enqueue", "woken"}
  /\ ~closed /\ Fits(req[c])
  /\ Push(c, req[c].stream)
  /\ call' = [call EXCEPT ![c] = "waiting"]
  /\ UNCHANGED <<closed, svars, req, result, closer>>

\* One pass of send's loop that ends in the queue.
Enqueue(c) ==
  /\ call[c] \in {"enqueue", "woken"}
  /\ ~closed /\ Fits(req[c])
  /\ Push(c, req[c].stream)
  /\ call' = [WokenCalls EXCEPT ![c] = "waiting"]
  /\ sched' = WokenScheduler
  /\ UNCHANGED <<closed, classIndex, credit, cursor, inflight, req, result, closer>>

\* One pass that does not: the Peer is closed, or the request must wait.
EnqueueRefused(c) ==
  /\ call[c] \in {"enqueue", "woken"}
  /\ \/ closed /\ Leave(c)
     \/ /\ ~closed /\ ~Fits(req[c])
        /\ call' = [call EXCEPT ![c] = "blocked"]
        /\ UNCHANGED <<req, result>>
  /\ UNCHANGED <<closed, pvars, svars, closer>>

\* The caller's context ends.  The loop does not look at it before its first
\* pass, and a request already queued stays queued.
Cancel(c) ==
  /\ call[c] \in {"blocked", "woken", "waiting"}
  /\ Leave(c)
  /\ UNCHANGED <<closed, pvars, svars, closer>>

\* The caller receives the answer, or sees that the Peer is done.
Return(c) ==
  /\ call[c] = "waiting"
  /\ result[c] # "empty" \/ closed
  /\ Leave(c)
  /\ UNCHANGED <<closed, pvars, svars, closer>>
-----------------------------------------------------------------------------
(* schedule and takeLocked.  Indices count from 0, as in the code.         *)

Streams == Len(outboundOrder)

StreamAt(index) == outboundOrder[index + 1]

\* The stream at this index has a request of this class at its head.
Eligible(class, index) ==
  LET s == StreamAt(index)
  IN s \in outbound /\ queue[s] # <<>> /\ req[Head(queue[s])].class = class

Available(class) == \E index \in 0..(Streams - 1) : Eligible(class, index)

Position(checked) == (cursor + checked) % Streams

\* The scan from the cursor stops at this index for this class.
FirstEligible(class, index) ==
  \E checked \in 0..(Streams - 1) :
    /\ index = Position(checked)
    /\ Eligible(class, index)
    /\ \A earlier \in 0..(checked - 1) : ~Eligible(class, Position(earlier))

ClassAt(skipped) == classes[((classIndex + skipped) % 3) + 1]

\* The class to serve is this many places after the current one: the scans
\* before it found nothing.
FirstClass(skipped) ==
  /\ Available(ClassAt(skipped))
  /\ \A earlier \in 0..(skipped - 1) : ~Available(ClassAt(earlier))

\* Where the scan goes on: after the stream served, which may have left.
NextCursor(index, emptied) ==
  LET next == (index + 1) % Streams
  IN IF ~emptied THEN next
     ELSE IF Streams = 1 THEN 0
     ELSE IF index < next THEN next - 1 ELSE next

\* Mutants: an emptied stream stays in the order; bytes are not given back.
PopKeepsOrder(index) ==
  LET s == StreamAt(index)
      c == Head(queue[s])
      emptied == Len(queue[s]) = 1
  IN /\ inflight' = c
     /\ queue' = [queue EXCEPT ![s] = Tail(@)]
     /\ streamBytes' = [streamBytes EXCEPT ![s] = @ - req[c].bytes]
     /\ outboundBytes' = outboundBytes - req[c].bytes
     /\ outboundFrames' = outboundFrames - 1
     /\ outbound' = IF emptied THEN outbound \ {s} ELSE outbound
     /\ outboundOrder' = outboundOrder
     /\ cursor' = (index + 1) % Streams

PopKeepsBytes(index) ==
  LET s == StreamAt(index)
      c == Head(queue[s])
      emptied == Len(queue[s]) = 1
  IN /\ inflight' = c
     /\ queue' = [queue EXCEPT ![s] = Tail(@)]
     /\ streamBytes' = [streamBytes EXCEPT ![s] = @ - req[c].bytes]
     /\ outboundBytes' = IF emptied THEN outboundBytes ELSE outboundBytes - req[c].bytes
     /\ outboundFrames' = outboundFrames - 1
     /\ outbound' = IF emptied THEN outbound \ {s} ELSE outbound
     /\ outboundOrder' = IF emptied THEN RemoveIndex(outboundOrder, index + 1) ELSE outboundOrder
     /\ cursor' = NextCursor(index, emptied)

\* The head of the stream at this index leaves its queue; an emptied stream
\* leaves the map and the order.
Pop(index) ==
  LET s == StreamAt(index)
      c == Head(queue[s])
      emptied == Len(queue[s]) = 1
  IN /\ inflight' = c
     /\ queue' = [queue EXCEPT ![s] = Tail(@)]
     /\ streamBytes' = [streamBytes EXCEPT ![s] = @ - req[c].bytes]
     /\ outboundBytes' = outboundBytes - req[c].bytes
     /\ outboundFrames' = outboundFrames - 1
     /\ outbound' = IF emptied THEN outbound \ {s} ELSE outbound
     /\ outboundOrder' = IF emptied THEN RemoveIndex(outboundOrder, index + 1) ELSE outboundOrder
     /\ cursor' = NextCursor(index, emptied)

\* Mutant: a class keeps its turn when its credit is used up.
SpendKeepsTurn(skipped) ==
  LET granted == IF skipped = 0 /\ credit > 0 THEN credit ELSE weights[ClassAt(skipped)]
  IN credit' = granted - 1 /\ classIndex' = (classIndex + skipped) % 3

\* A class is served until its credit is used up, then the next has a turn.
Spend(skipped) ==
  LET granted == IF skipped = 0 /\ credit > 0 THEN credit ELSE weights[ClassAt(skipped)]
  IN /\ credit' = granted - 1
     /\ classIndex' = (classIndex + skipped + (IF granted = 1 THEN 1 ELSE 0)) % 3

\* The critical section of schedule that finds a request.
Take ==
  /\ sched = "select"
  /\ \E skipped \in 0..2 :
       /\ FirstClass(skipped)
       /\ \E index \in 0..(Streams - 1) :
            FirstEligible(ClassAt(skipped), index) /\ Pop(index)
       /\ Spend(skipped)
  /\ sched' = "sending"
  /\ call' = WokenCalls
  /\ UNCHANGED <<closed, req, result, closer>>

\* The critical section that finds none after two rounds over the classes.
Rest ==
  /\ sched = "select"
  /\ \A class \in TrafficClass : ~Available(class)
  /\ credit' = 0
  /\ cursor' = IF Streams = 0 THEN 0 ELSE cursor
  /\ sched' = IF closed THEN "stopped" ELSE "parked"
  /\ UNCHANGED <<closed, pvars, classIndex, inflight, cvars, closer>>

\* Conn.SendOwned returns and its result goes to the caller.
Sent ==
  /\ sched = "sending"
  /\ Answer({inflight}, "ok")
  /\ inflight' = NoSend
  /\ sched' = "select"
  /\ UNCHANGED <<closed, pvars, classIndex, credit, cursor, call, closer>>

SendFailed ==
  /\ sched = "sending"
  /\ Answer({inflight}, "error")
  /\ inflight' = NoSend
  /\ sched' = "failing"
  /\ UNCHANGED <<closed, pvars, classIndex, credit, cursor, call, closer>>
-----------------------------------------------------------------------------
(* fail and Close *)

\* Mutants: the requests answered stay queued; parked callers are not woken.
DiscardKeepsQueues ==
  IF closed THEN UNCHANGED <<closed, pvars, cvars>>
  ELSE /\ closed' = TRUE
       /\ Answer({c \in Send : Queued(c)}, "error")
       /\ call' = WokenCalls
       /\ UNCHANGED pvars

DiscardSilent ==
  IF closed THEN UNCHANGED <<closed, pvars, cvars>>
  ELSE /\ closed' = TRUE
       /\ Answer({c \in Send : Queued(c)}, "error")
       /\ outbound' = {}
       /\ queue' = [s \in StreamID |-> <<>>]
       /\ streamBytes' = [s \in StreamID |-> 0]
       /\ outboundOrder' = <<>> /\ outboundBytes' = 0 /\ outboundFrames' = 0
       /\ UNCHANGED call

\* The critical section of fail, a no-op on a closed Peer.
Discard ==
  IF closed THEN UNCHANGED <<closed, pvars, cvars>>
  ELSE /\ closed' = TRUE
       /\ Answer({c \in Send : Queued(c)}, "error")
       /\ outbound' = {}
       /\ queue' = [s \in StreamID |-> <<>>]
       /\ streamBytes' = [s \in StreamID |-> 0]
       /\ outboundOrder' = <<>> /\ outboundBytes' = 0 /\ outboundFrames' = 0
       /\ call' = WokenCalls

\* Serve, a handler or a canceled serve context fails the Peer.
Fail ==
  /\ ~closed
  /\ Discard
  /\ sched' = WokenScheduler
  /\ UNCHANGED <<classIndex, credit, cursor, inflight, closer>>

\* The scheduler fails the Peer after a transport error and returns.
SchedulerFail ==
  /\ sched = "failing"
  /\ Discard
  /\ sched' = "stopped"
  /\ UNCHANGED <<classIndex, credit, cursor, inflight, closer>>

\* Close fails the Peer and waits for the scheduler goroutine.
Close ==
  /\ closer = "open"
  /\ Discard
  /\ closer' = "joining"
  /\ sched' = IF closed THEN sched ELSE WokenScheduler
  /\ UNCHANGED <<classIndex, credit, cursor, inflight>>

CloseJoin ==
  /\ closer = "joining" /\ sched = "stopped"
  /\ closer' = "done"
  /\ UNCHANGED <<closed, pvars, svars, cvars>>
-----------------------------------------------------------------------------
Caller(c) ==
  \/ \E o \in Offer : SendBegin(c, o)
  \/ Enqueue(c) \/ EnqueueRefused(c) \/ Cancel(c) \/ Return(c)

Scheduler == Take \/ Rest \/ Sent \/ SendFailed \/ SchedulerFail

Next ==
  \/ \E c \in Send : Caller(c)
  \/ Scheduler
  \/ Fail \/ Close \/ CloseJoin

Spec == Init /\ [][Next]_vars

\* Goroutines that can run do run: the scheduler, callers inside send and the
\* caller of Close.  SendOwned returns once fail has closed the Conn under it;
\* on an open Peer it may wait for ever for a remote that does not read.
\* Nobody is obliged to send, to cancel, or to shut the Peer down.
Fairness ==
  /\ WF_vars(Take \/ Rest \/ SchedulerFail)
  /\ WF_vars(closed /\ (Sent \/ SendFailed))
  /\ \A c \in Send : WF_vars(Enqueue(c) \/ EnqueueRefused(c)) /\ WF_vars(Return(c))
  /\ WF_vars(CloseJoin)

FairSpec == Spec /\ Fairness

\* What the scheduler needs of others: the remote reads on, or the write fails.
TransportProgress == WF_vars(Sent \/ SendFailed)
-----------------------------------------------------------------------------
(* Properties *)

\* The shape of the state.
TypeOK ==
  /\ closed \in BOOLEAN
  /\ outbound \subseteq StreamID
  /\ queue \in [StreamID -> Seq(Send)]
  /\ streamBytes \in [StreamID -> Int]
  /\ outboundOrder \in Seq(StreamID)
  /\ outboundBytes \in Int /\ outboundFrames \in Int
  /\ sched \in {"select", "parked", "sending", "failing", "stopped"}
  /\ classIndex \in 0..2 /\ credit \in Nat /\ cursor \in Nat
  /\ inflight \in Send \cup {NoSend}
  /\ call \in [Send -> {"returned", "enqueue", "blocked", "woken", "waiting"}]
  /\ req \in [Send -> Offer \cup {NoOffer}]
  /\ result \in [Send -> {"empty", "ok", "error"}]
  /\ closer \in {"open", "joining", "done"}

\* The round-robin order and the map name the same streams, each once and
\* each with work, and the cursor points into the order: takeLocked never
\* skips a backlogged stream because of bookkeeping left by a removal, an
\* enqueue or a shutdown.
OrderMatchesMap ==
  /\ \A i, j \in 1..Len(outboundOrder) : outboundOrder[i] = outboundOrder[j] => i = j
  /\ outbound = {outboundOrder[i] : i \in 1..Len(outboundOrder)}
  /\ \A s \in StreamID : s \in outbound <=> queue[s] # <<>>
  /\ closed \/ cursor = 0 \/ cursor < Len(outboundOrder)

\* A request sits at one place of one queue, of its own stream, or is in
\* flight, and until it leaves nobody has answered it.  So the sends of fail
\* (under Peer.mu) and of the scheduler into request.result, which holds one
\* value, never block.
AnsweredOnce ==
  /\ \A s, t \in StreamID : \A i \in 1..Len(queue[s]), j \in 1..Len(queue[t]) :
       queue[s][i] = queue[t][j] => s = t /\ i = j
  /\ \A s \in StreamID : \A i \in 1..Len(queue[s]) :
       /\ req[queue[s][i]].stream = s
       /\ queue[s][i] # inflight
       /\ result[queue[s][i]] = "empty"
  /\ inflight # NoSend => result[inflight] = "empty"

\* No wake-up is lost: a caller parked on p.changed cannot proceed and the
\* Peer is open, and the scheduler is parked only while there is nothing to
\* send.  Every section that changes what they wait for must signal.
NoLostWakeup ==
  /\ \A c \in Send : call[c] = "blocked" => ~closed /\ ~Fits(req[c])
  /\ sched = "parked" => ~closed /\ outboundOrder = <<>>

\* A caller still waiting is either answered, or its request is still held,
\* or the Peer is done: no caller of send is left behind.
NobodyForgotten ==
  \A c \in Send : call[c] = "waiting" => Held(c) \/ result[c] # "empty" \/ closed

\* A shut down Peer holds no request but the one being written, and the
\* scheduler returns only after shutdown.
ShutDownIsEmpty ==
  /\ closed => outbound = {} /\ outboundOrder = <<>> /\ \A c \in Send : ~Queued(c)
  /\ sched = "stopped" => closed /\ inflight = NoSend

\* The outbound half of the Peer implements one FIFO channel per stream:
\* priorities never reorder, duplicate or drop the frames of a stream.
Ordered == INSTANCE OrderedStreams
             WITH channel <- queue, wire <- inflight, open <- ~closed

PerStreamOrder == Ordered!OSpec

\* As long as the transport makes progress, a class with a request at the head
\* of some stream is served eventually, however much traffic the heavier classes
\* offer.
ClassServed ==
  TransportProgress =>
    \A class \in TrafficClass :
      Available(class) ~> (closed \/ (inflight # NoSend /\ req[inflight].class = class))

\* As long as the transport makes progress, a queued bulk request is eventually
\* taken or discarded, whatever else is sent: "WithoutStarvingBulk" in the name
\* of peer_internal_test.go:96.
BulkNotStarved ==
  TransportProgress =>
    \A c \in Send : (Queued(c) /\ req[c].class = "bulk") ~> ~Queued(c)

\* Once the Peer is closed every caller of send returns, whatever it was
\* waiting for, and so does Close.
ShutdownReleases ==
  /\ \A c \in Send : closed ~> call[c] = "returned"
  /\ closer = "joining" ~> closer = "done"
=============================================================================
