----------------------------- MODULE PeerInbound ----------------------------
(***************************************************************************)
(* The inbound half of a Peer (peer.go): the goroutine in Serve reads      *)
(* frames and dispatches requests and events to bounded per-stream queues, *)
(* one worker goroutine per active stream runs the handlers, and Close     *)
(* waits for them.                                                         *)
(*                                                                         *)
(* A step is one critical section of Peer.mu, a read, or the return of a   *)
(* handler.  A member of Worker is an inboundStream together with the      *)
(* runInbound goroutine that owns it: the map may name another one for the *)
(* same StreamID, and nothing but the code prevents two at once.  A member *)
(* of Frame stands for a received frame while something holds it.          *)
(* Responses go to resolve (module PeerCalls); here they appear only as    *)
(* what the handler waits for that has used Call on its own Peer.          *)
(***************************************************************************)
EXTENDS Integers, FiniteSets, Slices

CONSTANTS
  StreamID, NoStream,
  MessageType, NoType,    \* NoType is the zero message type
  Frame, NoFrame,
  Worker, NoWorker,
  Offer, NoOffer,         \* received headers: [stream, type, bytes] records
  Group,                  \* the sets of types given to RegisterHandlers
  Policy,                 \* the values of PeerConfig.InboundQueuePolicy
  PerStreamQueueBytes, PerStreamQueueFrames, MaxActiveStreams

ASSUME InboundAssumption ==
  /\ NoStream \notin StreamID /\ NoFrame \notin Frame /\ NoWorker \notin Worker
  /\ NoOffer \notin Offer
  /\ Offer \subseteq [stream : StreamID, type : MessageType, bytes : Nat \ {0}]
  /\ NoType \notin MessageType
  /\ Group \subseteq SUBSET (MessageType \cup {NoType})
  /\ Policy \subseteq {"backpressure", "fail"}

ASSUME InboundLimits ==
  /\ PerStreamQueueBytes \in Nat \ {0} /\ PerStreamQueueFrames \in Nat \ {0}
  /\ MaxActiveStreams \in Nat \ {0}

VARIABLES
  policy,        \* PeerConfig.InboundQueuePolicy, fixed by NewPeer
  closed,        \* Peer.closed; Peer.done is closed in the same section
  handlers,      \* the keys of the map Peer.handlers
  inbound,       \* inbound[s]: the inboundStream the map has for s, or NoWorker
  frames, bytes, \* inboundStream.frames and .bytes
  worker,        \* worker[w]: where the goroutine is
  stream,        \* stream[w]: the id runInbound was started with
  handling,      \* handling[w]: the frame it has taken, or NoFrame
  header,        \* header[f]: the frame's stream, type and bytes
  serve,         \* where the Serve loop is
  reading,       \* the frame it is dispatching, or NoFrame
  closer         \* where a caller of Close is

config == <<policy, handlers>>
streams == <<inbound, frames, bytes, worker, stream, handling>>
vars == <<config, closed, streams, header, serve, reading, closer>>

Init ==
  /\ policy \in Policy
  /\ closed = FALSE
  /\ handlers = {}
  /\ inbound = [s \in StreamID |-> NoWorker]
  /\ frames = [w \in Worker |-> <<>>] /\ bytes = [w \in Worker |-> 0]
  /\ worker = [w \in Worker |-> "none"]
  /\ stream = [w \in Worker |-> NoStream]
  /\ handling = [w \in Worker |-> NoFrame]
  /\ header = [f \in Frame |-> NoOffer]
  /\ serve = "new" /\ reading = NoFrame
  /\ closer = "open"

ActiveStreams == {s \in StreamID : inbound[s] # NoWorker}

\* signalLocked, for the one reader that waits on p.changed.
WokenReader == IF serve = "parked" THEN "dispatch" ELSE serve
-----------------------------------------------------------------------------
(* RegisterHandlers and Serve *)

\* A group is registered whole or not at all; handlers are never removed.
RegisterHandlers(types) ==
  /\ ~closed
  /\ types # {} /\ NoType \notin types /\ types \cap handlers = {}
  /\ handlers' = handlers \cup types
  /\ UNCHANGED <<policy, closed, streams, header, serve, reading, closer>>

\* Only the first call of Serve gets past serveOnce.
ServeBegin ==
  /\ serve = "new"
  /\ serve' = "read"
  /\ UNCHANGED <<closed, config, streams, header, reading, closer>>

\* ReadFrame returns a request or an event.
ReadFrame(f, o) ==
  /\ serve = "read" /\ header[f] = NoOffer
  /\ header' = [header EXCEPT ![f] = o]
  /\ reading' = f
  /\ serve' = "dispatch"
  /\ UNCHANGED <<closed, config, streams, closer>>

\* ReadFrame fails: a transport error, a protocol error or the closed Conn.
ReadFails ==
  /\ serve = "read"
  /\ serve' = "failing"
  /\ UNCHANGED <<closed, config, streams, header, reading, closer>>
-----------------------------------------------------------------------------
(* dispatch.  Every pass of its loop is one critical section. *)

\* The inboundStream for s: the one in the map, or a new one.
StateFor(s, w) ==
  IF inbound[s] = NoWorker
  THEN worker[w] = "none" /\ Cardinality(ActiveStreams) < MaxActiveStreams
  ELSE inbound[s] = w

Known(f) == header[f].type \in handlers

NeverFits(f) == header[f].bytes > PerStreamQueueBytes

Room(f) ==
  LET w == inbound[header[f].stream]
  IN w # NoWorker =>
       /\ bytes[w] + header[f].bytes <= PerStreamQueueBytes
       /\ Len(frames[w]) + 1 <= PerStreamQueueFrames

\* The map names w for s; a new one starts its goroutine.
Started(s, w) ==
  /\ inbound' = [inbound EXCEPT ![s] = w]
  /\ stream' = [stream EXCEPT ![w] = s]
  /\ worker' = [worker EXCEPT ![w] = IF @ = "none" THEN "running" ELSE @]

\* The frame is dropped with the reader.
Drop ==
  /\ header' = [header EXCEPT ![reading] = NoOffer]
  /\ reading' = NoFrame
  /\ serve' = "failing"

\* Mutant: the closed Peer still dispatches.
DispatchAcceptClosed ==
  /\ serve = "dispatch" /\ Known(reading) /\ ~NeverFits(reading) /\ Room(reading)
  /\ LET s == header[reading].stream
     IN \E w \in Worker :
          /\ StateFor(s, w)
          /\ Started(s, w)
          /\ bytes' = [bytes EXCEPT ![w] = @ + header[reading].bytes]
          /\ frames' = [frames EXCEPT ![w] = Append(@, reading)]
  /\ serve' = "read" /\ reading' = NoFrame
  /\ UNCHANGED <<closed, config, handling, header, closer>>

\* Mutant: the frame goes in front of the earlier ones.
DispatchAcceptFront ==
  /\ serve = "dispatch" /\ ~closed /\ Known(reading) /\ ~NeverFits(reading) /\ Room(reading)
  /\ LET s == header[reading].stream
     IN \E w \in Worker :
          /\ StateFor(s, w)
          /\ Started(s, w)
          /\ bytes' = [bytes EXCEPT ![w] = @ + header[reading].bytes]
          /\ frames' = [frames EXCEPT ![w] = <<reading>> \o @]
  /\ serve' = "read" /\ reading' = NoFrame
  /\ UNCHANGED <<closed, config, handling, header, closer>>

DispatchAccept ==
  /\ serve = "dispatch" /\ ~closed /\ Known(reading) /\ ~NeverFits(reading) /\ Room(reading)
  /\ LET s == header[reading].stream
     IN \E w \in Worker :
          /\ StateFor(s, w)
          /\ Started(s, w)
          /\ bytes' = [bytes EXCEPT ![w] = @ + header[reading].bytes]
          /\ frames' = [frames EXCEPT ![w] = Append(@, reading)]
  /\ serve' = "read" /\ reading' = NoFrame
  /\ UNCHANGED <<closed, config, handling, header, closer>>

\* No handler, too many streams, or the Peer is done: nothing is kept.
DispatchRefused ==
  /\ serve = "dispatch"
  /\ \/ closed
     \/ ~Known(reading)
     \/ inbound[header[reading].stream] = NoWorker
        /\ Cardinality(ActiveStreams) >= MaxActiveStreams
  /\ Drop
  /\ UNCHANGED <<closed, config, streams, closer>>

\* ErrPeerQueueOverflow for a frame that can never fit; a worker that was
\* started for it stays.
DispatchTooLarge ==
  /\ serve = "dispatch" /\ ~closed /\ Known(reading) /\ NeverFits(reading)
  /\ LET s == header[reading].stream
     IN \E w \in Worker : StateFor(s, w) /\ Started(s, w)
  /\ Drop
  /\ UNCHANGED <<closed, config, frames, bytes, handling, closer>>

\* The queue is full: the policy decides.
DispatchFull ==
  /\ serve = "dispatch" /\ ~closed /\ Known(reading) /\ ~NeverFits(reading) /\ ~Room(reading)
  /\ IF policy = "backpressure" THEN serve' = "parked" /\ UNCHANGED <<header, reading>> ELSE Drop
  /\ UNCHANGED <<closed, config, streams, closer>>
-----------------------------------------------------------------------------
(* runInbound and callHandler *)

\* Mutant: the reader is not signalled.
TakeFrameSilent(w) ==
  LET f == Head(frames[w])
  IN /\ worker[w] = "running" /\ frames[w] # <<>>
     /\ handling' = [handling EXCEPT ![w] = f]
     /\ frames' = [frames EXCEPT ![w] = Tail(@)]
     /\ bytes' = [bytes EXCEPT ![w] = @ - header[f].bytes]
     /\ worker' = [worker EXCEPT ![w] = "handling"]
     /\ UNCHANGED <<closed, config, inbound, stream, header, serve, reading, closer>>

\* The worker takes the oldest frame and looks its handler up again.
TakeFrame(w) ==
  LET f == Head(frames[w])
  IN /\ worker[w] = "running" /\ frames[w] # <<>>
     /\ handling' = [handling EXCEPT ![w] = f]
     /\ frames' = [frames EXCEPT ![w] = Tail(@)]
     /\ bytes' = [bytes EXCEPT ![w] = @ - header[f].bytes]
     /\ worker' = [worker EXCEPT ![w] = IF Known(f) THEN "handling" ELSE "failing"]
     /\ serve' = WokenReader
     /\ UNCHANGED <<closed, config, inbound, stream, header, reading, closer>>

\* Mutant: the entry is deleted while a handler runs.
RetireEarly(w) ==
  /\ worker[w] \in {"running", "handling"} /\ frames[w] = <<>>
  /\ inbound' = [inbound EXCEPT ![stream[w]] = IF @ = w THEN NoWorker ELSE @]
  /\ worker' = [worker EXCEPT ![w] = IF @ = "running" THEN "none" ELSE @]
  /\ UNCHANGED <<closed, config, frames, bytes, stream, handling, header, serve, reading,
                 closer>>

\* The queue is empty: the entry goes and the worker returns, in the same
\* critical section.
Retire(w) ==
  /\ worker[w] = "running" /\ frames[w] = <<>>
  /\ inbound' = [inbound EXCEPT ![stream[w]] = IF @ = w THEN NoWorker ELSE @]
  /\ worker' = [worker EXCEPT ![w] = "none"]
  /\ stream' = [stream EXCEPT ![w] = NoStream]
  /\ bytes' = [bytes EXCEPT ![w] = 0]
  /\ UNCHANGED <<closed, config, frames, handling, header, serve, reading, closer>>

\* The handler is done with its frame.
Finish(w, next) ==
  /\ worker' = [worker EXCEPT ![w] = next]
  /\ handling' = [handling EXCEPT ![w] = NoFrame]
  /\ header' = [header EXCEPT ![handling[w]] = NoOffer]
  /\ UNCHANGED <<closed, config, inbound, frames, bytes, stream, serve, reading, closer>>

HandlerReturns(w) == worker[w] = "handling" /\ Finish(w, "running")

\* It returns an error, or panics and callHandler makes an error of it.
HandlerFails(w) == worker[w] = "handling" /\ Finish(w, "failing")

\* It calls the remote through its own Peer ...
HandlerCalls(w) ==
  /\ worker[w] = "handling" /\ ~closed
  /\ worker' = [worker EXCEPT ![w] = "calling"]
  /\ UNCHANGED <<closed, config, inbound, frames, bytes, stream, handling, header, serve,
                 reading, closer>>

\* ... and goes on when the Serve loop has read the response, or at shutdown.
HandlerAnswered(w) ==
  /\ worker[w] = "calling"
  /\ serve = "read" \/ closed
  /\ worker' = [worker EXCEPT ![w] = "handling"]
  /\ UNCHANGED <<closed, config, inbound, frames, bytes, stream, handling, header, serve,
                 reading, closer>>
-----------------------------------------------------------------------------
(* fail and Close *)

\* Serve, a handler, the scheduler or a canceled serve context fails the Peer.
\* The inbound streams stay: their workers go on with a canceled context.
Fail ==
  /\ ~closed
  /\ closed' = TRUE
  /\ serve' = WokenReader
  /\ UNCHANGED <<config, streams, header, reading, closer>>

ServeFails ==
  /\ serve = "failing"
  /\ closed' = TRUE
  /\ serve' = "stopped"
  /\ UNCHANGED <<config, streams, header, reading, closer>>

\* The worker fails the Peer and returns; its entry and its queue stay.
WorkerFails(w) ==
  /\ worker[w] = "failing"
  /\ closed' = TRUE
  /\ worker' = [worker EXCEPT ![w] = "gone"]
  /\ serve' = IF closed THEN serve ELSE WokenReader
  /\ UNCHANGED <<config, inbound, frames, bytes, stream, handling, header, reading, closer>>

Close ==
  /\ closer = "open"
  /\ closed' = TRUE
  /\ serve' = IF closed THEN serve ELSE WokenReader
  /\ closer' = "joining"
  /\ UNCHANGED <<config, streams, header, reading>>

\* workers.Wait returns.
CloseJoin ==
  /\ closer = "joining"
  /\ \A w \in Worker : worker[w] \in {"none", "gone"}
  /\ closer' = "done"
  /\ UNCHANGED <<closed, config, streams, header, serve, reading>>
-----------------------------------------------------------------------------
Dispatch == DispatchAccept \/ DispatchRefused \/ DispatchTooLarge \/ DispatchFull

RunInbound(w) ==
  TakeFrame(w) \/ Retire(w) \/ WorkerFails(w)

Next ==
  \/ \E types \in Group : RegisterHandlers(types)
  \/ ServeBegin \/ ReadFails \/ Dispatch \/ ServeFails
  \/ \E f \in Frame, o \in Offer : ReadFrame(f, o)
  \/ \E w \in Worker : \/ RunInbound(w)
                       \/ HandlerReturns(w) \/ HandlerFails(w)
                       \/ HandlerCalls(w) \/ HandlerAnswered(w)
  \/ Fail \/ Close \/ CloseJoin

Spec == Init /\ [][Next]_vars

\* Goroutines that can run do run.  A handler "must honor its context"
\* (README.md:55), which fail cancels; before that it may run for ever.
Fairness ==
  /\ WF_vars(Dispatch) /\ WF_vars(ServeFails) /\ WF_vars(CloseJoin)
  /\ \A w \in Worker : /\ WF_vars(RunInbound(w))
                       /\ WF_vars(closed /\ HandlerAnswered(w))
                       /\ WF_vars(closed /\ (HandlerReturns(w) \/ HandlerFails(w)))

FairSpec == Spec /\ Fairness

\* What the reader needs of others: handlers that do not wait for the remote
\* return, they call it finitely often, and it answers behind finitely many
\* other frames.
Prompt ==
  \A w \in Worker : /\ SF_vars(HandlerReturns(w) \/ HandlerFails(w))
                    /\ SF_vars(HandlerAnswered(w))
-----------------------------------------------------------------------------
(* Properties *)

\* The worker the map names for a stream was started for it, and every worker
\* alive is named: a stream never has two, so handlers of one stream cannot
\* overlap, and no frame waits in a queue whose worker has returned.  "Close
\* ... waits for the scheduler and all handlers to return" (peer.go:737): once
\* it has returned no handler runs or ever starts, even if the Serve loop still
\* had a frame in its hands.
OneWorkerPerStream ==
  /\ \A s \in StreamID : inbound[s] # NoWorker => stream[inbound[s]] = s
  /\ \A w \in Worker : worker[w] = "none" \/ inbound[stream[w]] = w
  /\ \A w \in Worker : worker[w] = "none" => frames[w] = <<>>
                                             /\ \A s \in StreamID : inbound[s] # w
  /\ \A w \in Worker : worker[w] = "gone" => closed
  /\ closer = "done" => closed /\ \A w \in Worker : worker[w] \in {"none", "gone"}

\* Handlers of a stream run one at a time and in the order of arrival.
Handling == INSTANCE OrderedHandling
              WITH waiting <- [s \in StreamID |-> IF inbound[s] = NoWorker THEN <<>>
                                                  ELSE frames[inbound[s]]],
                   active <- [s \in StreamID |-> IF inbound[s] = NoWorker THEN NoFrame
                                                 ELSE handling[inbound[s]]],
                   open <- ~closed

PerStreamHandling == Handling!HSpec

\* Close returns once the handlers have honoured their canceled context,
\* however many frames were still queued.
CloseReturns == closer = "joining" ~> closer = "done"

\* A parked reader goes on, unless the queue it waits for belongs to a handler
\* that itself waits for a response which only the reader could read.
SelfBlocked ==
  /\ serve = "parked"
  /\ \E w \in Worker : inbound[header[reading].stream] = w /\ worker[w] = "calling"

ReaderResumes == Prompt => (serve = "parked" ~> serve # "parked" \/ SelfBlocked)
=============================================================================
