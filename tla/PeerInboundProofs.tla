------------------------- MODULE PeerInboundProofs --------------------------
(***************************************************************************)
(* Proofs about the inbound half of a Peer (module PeerInbound), for any   *)
(* number of streams, workers and frames and any limits: a stream has one  *)
(* worker, its queue stays within its limits, and the workers, the map and *)
(* the queues together implement OrderedHandling.                          *)
(***************************************************************************)
EXTENDS PeerInbound, TLAPS

\* Most steps are set theory, which Zenon does; a step with arithmetic cites SMT.
USE Zenon

(***************************************************************************)
(* Only the empty sequence has length zero.                                *)
(***************************************************************************)
LEMMA EmptyLen ==
  ASSUME NEW S
  PROVE  \A s \in Seq(S) : s = <<>> <=> Len(s) = 0
  BY SMT

(***************************************************************************)
(* Taking the head, as Go's queue = queue[1:] does.                        *)
(***************************************************************************)
LEMMA TailFacts ==
  ASSUME NEW S, NEW s \in Seq(S), s # <<>>
  PROVE  /\ Len(s) \in Nat \ {0} /\ Head(s) = s[1] /\ s[1] \in S
         /\ Tail(s) \in Seq(S)
         /\ Len(Tail(s)) = Len(s) - 1
         /\ \A i \in 1..Len(Tail(s)) : i + 1 \in 1..Len(s) /\ Tail(s)[i] = s[i + 1]
         /\ Tail(s) = <<>> <=> Len(s) = 1
<1>1. /\ Len(s) \in Nat \ {0} /\ Head(s) = s[1] /\ s[1] \in S
      /\ Tail(s) \in Seq(S)
      /\ Len(Tail(s)) = Len(s) - 1
      /\ \A i \in 1..Len(Tail(s)) : i + 1 \in 1..Len(s) /\ Tail(s)[i] = s[i + 1]
  BY SMT
<1>2. Tail(s) = <<>> <=> Len(Tail(s)) = 0
  BY <1>1, EmptyLen
<1>3. QED
  BY SMT, <1>1, <1>2

(***************************************************************************)
(* Adding at the end.                                                      *)
(***************************************************************************)
LEMMA AppendFacts ==
  ASSUME NEW S, NEW s \in Seq(S), NEW e \in S
  PROVE  /\ Append(s, e) \in Seq(S) /\ Append(s, e) # <<>>
         /\ Len(s) \in Nat /\ Len(Append(s, e)) = Len(s) + 1
         /\ \A i \in 1..Len(s) : Append(s, e)[i] = s[i]
         /\ Append(s, e)[Len(s) + 1] = e
<1>1. /\ Append(s, e) \in Seq(S)
      /\ Len(s) \in Nat /\ Len(Append(s, e)) = Len(s) + 1
      /\ \A i \in 1..Len(s) : Append(s, e)[i] = s[i]
      /\ Append(s, e)[Len(s) + 1] = e
  BY SMT
<1>2. Len(<<>>) = 0
  OBVIOUS
<1>3. QED
  BY SMT, <1>1, <1>2

\* Every variable the argument needs has its type.
TypeOK ==
  /\ closed \in BOOLEAN
  /\ inbound \in [StreamID -> Worker \cup {NoWorker}]
  /\ frames \in [Worker -> Seq(Frame)]
  /\ bytes \in [Worker -> Int]
  /\ worker \in [Worker -> {"none", "running", "handling", "calling", "failing", "gone"}]
  /\ stream \in [Worker -> StreamID \cup {NoStream}]
  /\ handling \in [Worker -> Frame \cup {NoFrame}]
  /\ header \in [Frame -> Offer \cup {NoOffer}]
  /\ serve \in {"new", "read", "dispatch", "parked", "failing", "stopped"}
  /\ reading \in Frame \cup {NoFrame}
  /\ closer \in {"open", "joining", "done"}

\* Where the goroutines are tells what they hold.
Places ==
  /\ serve \in {"dispatch", "parked"} <=> reading # NoFrame
  /\ reading # NoFrame => header[reading] # NoOffer
  /\ \A w \in Worker : worker[w] # "none" => stream[w] \in StreamID
  /\ \A w \in Worker : worker[w] \in {"none", "running"} => handling[w] = NoFrame
  /\ \A w \in Worker : worker[w] \in {"handling", "calling"} => handling[w] # NoFrame
  /\ closer # "open" => closed

\* OneWorkerPerStream, made inductive.
WorkerInv == Places /\ OneWorkerPerStream

\* f waits in the queue of w.
Queued(w, f) == \E i \in 1..Len(frames[w]) : frames[w][i] = f

\* A frame is in one place: with the reader, once in one queue, or with one
\* handler; a frame that was dropped or handled is in none.
FramesInOnePlace ==
  /\ \A f \in Frame : header[f] = NoOffer =>
       reading # f /\ \A w \in Worker : handling[w] # f /\ ~Queued(w, f)
  /\ reading # NoFrame => \A w \in Worker : handling[w] # reading /\ ~Queued(w, reading)
  /\ \A w \in Worker : handling[w] # NoFrame =>
       \A v \in Worker : ~Queued(v, handling[w]) /\ (v # w => handling[v] # handling[w])
  /\ \A v, w \in Worker : \A i \in 1..Len(frames[v]), j \in 1..Len(frames[w]) :
       frames[v][i] = frames[w][j] => v = w /\ i = j

\* No queue exceeds PerStreamQueueBytes or PerStreamQueueFrames, and a worker
\* that has not started owes nothing.
QueuesBounded ==
  \A w \in Worker : /\ bytes[w] <= PerStreamQueueBytes
                    /\ Len(frames[w]) <= PerStreamQueueFrames

BoundInv ==
  /\ QueuesBounded
  /\ \A w \in Worker : worker[w] = "none" => bytes[w] = 0
-----------------------------------------------------------------------------
(* The cases of a step *)

\* The steps that move no frame and touch no worker.
Control ==
  \/ \E types \in Group : RegisterHandlers(types)
  \/ ServeBegin \/ ReadFails \/ ServeFails \/ Fail \/ Close \/ CloseJoin

\* The steps that end a handler.
Finished(w) == HandlerReturns(w) \/ HandlerFails(w)

\* The case split of every proof.
LEMMA NextCases ==
  ASSUME Next
  PROVE  \/ Control
         \/ \E f \in Frame, o \in Offer : ReadFrame(f, o)
         \/ DispatchAccept \/ DispatchRefused \/ DispatchTooLarge \/ DispatchFull
         \/ \E w \in Worker : \/ TakeFrame(w) \/ Retire(w) \/ WorkerFails(w) \/ Finished(w)
                              \/ HandlerCalls(w) \/ HandlerAnswered(w)
  BY DEF Next, Dispatch, RunInbound, Control, Finished

\* What a control step leaves alone, and how it moves the rest.
LEMMA ControlStep ==
  ASSUME Control, TypeOK
  PROVE  /\ UNCHANGED <<streams, header, reading>>
         /\ closed' \in BOOLEAN /\ (closed => closed')
         /\ closer' \in {closer, "joining", "done"}
         /\ closer' = "joining" => closer = "joining" \/ closed'
         /\ closer' = "done" =>
              \/ closer = "done"
              \/ closer = "joining" /\ \A w \in Worker : worker[w] \in {"none", "gone"}
         /\ serve' \in {"new", "read", "dispatch", "parked", "failing", "stopped"}
         /\ closer' \in {"open", "joining", "done"}
         /\ serve' \in {"dispatch", "parked"} <=> serve \in {"dispatch", "parked"}
<1>1. ASSUME NEW types \in Group, RegisterHandlers(types)
      PROVE  UNCHANGED <<streams, header, reading, closed, closer, serve>>
  BY <1>1 DEF RegisterHandlers
<1>2. ASSUME ServeBegin \/ ReadFails \/ Fail \/ ServeFails
      PROVE  /\ UNCHANGED <<streams, header, reading, closer>> /\ closed' \in BOOLEAN /\ (closed => closed')
             /\ serve' \in {"new", "read", "dispatch", "parked", "failing", "stopped"}
             /\ serve' \in {"dispatch", "parked"} <=> serve \in {"dispatch", "parked"}
  BY <1>2 DEF ServeBegin, ReadFails, Fail, ServeFails, WokenReader, TypeOK
<1>3. ASSUME Close
      PROVE  /\ UNCHANGED <<streams, header, reading>> /\ closed' = TRUE /\ closer' = "joining"
             /\ serve' \in {"new", "read", "dispatch", "parked", "failing", "stopped"}
             /\ serve' \in {"dispatch", "parked"} <=> serve \in {"dispatch", "parked"}
  BY <1>3 DEF Close, WokenReader, TypeOK
<1>4. ASSUME CloseJoin
      PROVE  /\ UNCHANGED <<streams, header, reading, closed, serve>> /\ closer' = "done"
             /\ closer = "joining" /\ \A w \in Worker : worker[w] \in {"none", "gone"}
  BY <1>4 DEF CloseJoin
<1>5. QED
  BY <1>1, <1>2, <1>3, <1>4 DEF Control, TypeOK

\* The frame in the reader's hands.
LEMMA ReadingFacts ==
  ASSUME TypeOK, Places, serve = "dispatch"
  PROVE  /\ reading \in Frame /\ header[reading] \in Offer
         /\ header[reading].stream \in StreamID /\ header[reading].bytes \in Nat \ {0}
<1>1. reading \in Frame /\ header[reading] \in Offer
  BY DEF TypeOK, Places
<1>2. QED
  BY <1>1, InboundAssumption

\* The worker dispatch chooses belongs to no other stream, and is a new one
\* exactly if the map has none.
LEMMA StateForFacts ==
  ASSUME TypeOK, OneWorkerPerStream, NEW s \in StreamID, NEW w \in Worker, StateFor(s, w)
  PROVE  /\ inbound[s] \in {NoWorker, w}
         /\ inbound[s] = NoWorker <=> worker[w] = "none"
         /\ worker[w] = "none" => frames[w] = <<>>
         /\ \A t \in StreamID : t # s => inbound[t] # w
<1>1. CASE inbound[s] = NoWorker
  BY <1>1 DEF StateFor, OneWorkerPerStream
<1>2. CASE inbound[s] # NoWorker
  <2>1. inbound[s] = w /\ stream[w] = s
    BY <1>2 DEF StateFor, OneWorkerPerStream
  <2>2. QED
    BY <1>2, <2>1, InboundAssumption DEF OneWorkerPerStream
<1>3. QED
  BY <1>1, <1>2

\* The frame a worker takes.
LEMMA TakeFacts ==
  ASSUME TypeOK, FramesInOnePlace, NEW w \in Worker, frames[w] # <<>>
  PROVE  /\ Head(frames[w]) \in Frame /\ Head(frames[w]) # NoFrame
         /\ Queued(w, Head(frames[w]))
         /\ header[Head(frames[w])] \in Offer /\ header[Head(frames[w])].bytes \in Nat \ {0}
         /\ Tail(frames[w]) \in Seq(Frame)
         /\ Len(frames[w]) \in Nat \ {0} /\ Len(Tail(frames[w])) = Len(frames[w]) - 1
         /\ frames[w][1] = Head(frames[w])
         /\ \A i \in 1..Len(Tail(frames[w])) :
              i + 1 \in 1..Len(frames[w]) /\ Tail(frames[w])[i] = frames[w][i + 1]
<1> DEFINE q == frames[w]
<1>1. q \in Seq(Frame) /\ q # <<>>
  BY DEF TypeOK
<1>2. /\ Len(q) \in Nat \ {0} /\ Head(q) = q[1] /\ q[1] \in Frame
      /\ Tail(q) \in Seq(Frame)
      /\ Len(Tail(q)) = Len(q) - 1
      /\ \A i \in 1..Len(Tail(q)) : i + 1 \in 1..Len(q) /\ Tail(q)[i] = q[i + 1]
  BY <1>1, TailFacts
<1>3. Queued(w, Head(q))
  BY SMT, <1>2 DEF Queued
<1>4. header[Head(q)] \in Offer
  BY SMT, <1>2, <1>3 DEF TypeOK, FramesInOnePlace
<1>5. QED
  BY <1>2, <1>3, <1>4, InboundAssumption
-----------------------------------------------------------------------------
(* Types *)

LEMMA InitTypeOK == Init => TypeOK
<1> SUFFICES ASSUME Init PROVE TypeOK
  OBVIOUS
<1>1. frames \in [Worker -> Seq(Frame)] /\ bytes \in [Worker -> Int]
  BY SMT DEF Init
<1>2. QED
  BY <1>1 DEF Init, TypeOK

LEMMA StepTypeOK ==
  ASSUME TypeOK, WorkerInv, FramesInOnePlace, [Next]_vars
  PROVE  TypeOK'
<1> USE DEF streams, config
<1>1. ASSUME Control PROVE TypeOK'
  BY <1>1, ControlStep DEF TypeOK
<1>2. ASSUME NEW f \in Frame, NEW o \in Offer, ReadFrame(f, o) PROVE TypeOK'
  BY <1>2 DEF ReadFrame, TypeOK
<1>3. ASSUME DispatchAccept PROVE TypeOK'
  <2>1. /\ reading \in Frame /\ header[reading].stream \in StreamID
        /\ header[reading].bytes \in Nat \ {0}
    BY <1>3, ReadingFacts DEF DispatchAccept, WorkerInv
  <2>2. PICK w \in Worker :
          /\ Started(header[reading].stream, w)
          /\ bytes' = [bytes EXCEPT ![w] = @ + header[reading].bytes]
          /\ frames' = [frames EXCEPT ![w] = Append(@, reading)]
    BY <1>3 DEF DispatchAccept
  <2>3. Append(frames[w], reading) \in Seq(Frame)
    BY SMT, <2>1, AppendFacts DEF TypeOK
  <2>4. /\ frames' \in [Worker -> Seq(Frame)] /\ bytes' \in [Worker -> Int]
    BY SMT, <2>1, <2>2, <2>3 DEF TypeOK
  <2>5. /\ inbound' \in [StreamID -> Worker \cup {NoWorker}]
        /\ worker' \in [Worker -> {"none", "running", "handling", "calling", "failing", "gone"}]
        /\ stream' \in [Worker -> StreamID \cup {NoStream}]
    BY <2>1, <2>2 DEF Started, TypeOK
  <2>6. QED
    BY <1>3, <2>4, <2>5 DEF DispatchAccept, TypeOK
<1>4. ASSUME DispatchRefused \/ DispatchFull PROVE TypeOK'
  BY <1>4 DEF DispatchRefused, DispatchFull, Drop, TypeOK
<1>5. ASSUME DispatchTooLarge PROVE TypeOK'
  <2>1. header[reading].stream \in StreamID
    BY <1>5, ReadingFacts DEF DispatchTooLarge, WorkerInv
  <2>2. PICK w \in Worker : Started(header[reading].stream, w)
    BY <1>5 DEF DispatchTooLarge
  <2>3. /\ inbound' \in [StreamID -> Worker \cup {NoWorker}]
        /\ worker' \in [Worker -> {"none", "running", "handling", "calling", "failing", "gone"}]
        /\ stream' \in [Worker -> StreamID \cup {NoStream}]
    BY <2>1, <2>2 DEF Started, TypeOK
  <2>4. QED
    BY <1>5, <2>3 DEF DispatchTooLarge, Drop, TypeOK
<1>6. ASSUME NEW w \in Worker, TakeFrame(w) PROVE TypeOK'
  <2>1. /\ Head(frames[w]) \in Frame /\ Tail(frames[w]) \in Seq(Frame)
        /\ header[Head(frames[w])].bytes \in Nat
    BY <1>6, TakeFacts DEF TakeFrame
  <2>2. /\ handling' \in [Worker -> Frame \cup {NoFrame}]
        /\ frames' \in [Worker -> Seq(Frame)]
        /\ bytes' \in [Worker -> Int]
    BY SMT, <1>6, <2>1 DEF TakeFrame, TypeOK
  <2>3. QED
    BY <1>6, <2>2 DEF TakeFrame, TypeOK, WokenReader
<1>7. ASSUME NEW w \in Worker,
             Retire(w) \/ WorkerFails(w) \/ Finished(w) \/ HandlerCalls(w) \/ HandlerAnswered(w)
      PROVE  TypeOK'
  <2>1. CASE Retire(w)
    <3>1. inbound' \in [StreamID -> Worker \cup {NoWorker}]
      BY <2>1 DEF Retire, TypeOK
    <3>2. /\ bytes' \in [Worker -> Int] /\ stream' \in [Worker -> StreamID \cup {NoStream}]
          /\ worker' \in [Worker -> {"none", "running", "handling", "calling", "failing", "gone"}]
      BY SMT, <2>1 DEF Retire, TypeOK
    <3>3. QED
      BY <2>1, <3>1, <3>2 DEF Retire, TypeOK
  <2>2. CASE WorkerFails(w)
    BY <2>2 DEF WorkerFails, WokenReader, TypeOK
  <2>3. CASE Finished(w)
    BY <2>3 DEF Finished, HandlerReturns, HandlerFails, Finish, TypeOK
  <2>4. CASE HandlerCalls(w) \/ HandlerAnswered(w)
    BY <2>4 DEF HandlerCalls, HandlerAnswered, TypeOK
  <2>5. QED
    BY <1>7, <2>1, <2>2, <2>3, <2>4
<1>8. CASE UNCHANGED vars
  BY <1>8 DEF vars, TypeOK
<1>9. QED
  BY NextCases, <1>1, <1>2, <1>3, <1>4, <1>5, <1>6, <1>7, <1>8
-----------------------------------------------------------------------------
(* One worker for each stream *)

LEMMA InitWorkerInv == Init => WorkerInv
  BY SMT, InboundAssumption DEF Init, WorkerInv, Places, OneWorkerPerStream

LEMMA StepWorkerInv ==
  ASSUME TypeOK, TypeOK', WorkerInv, FramesInOnePlace, [Next]_vars
  PROVE  WorkerInv'
<1> USE InboundAssumption DEF streams, config
<1>1. ASSUME Control PROVE WorkerInv'
  <2>1. /\ UNCHANGED <<streams, header, reading>>
        /\ closed => closed'
        /\ closer' \in {closer, "joining", "done"}
        /\ closer' = "joining" => closer = "joining" \/ closed'
        /\ closer' = "done" =>
             \/ closer = "done"
             \/ closer = "joining" /\ \A w \in Worker : worker[w] \in {"none", "gone"}
        /\ serve' \in {"dispatch", "parked"} <=> serve \in {"dispatch", "parked"}
    BY <1>1, ControlStep
  <2>2. closer' # "open" => closed'
    BY <2>1 DEF WorkerInv, Places, TypeOK
  <2>3. Places'
    BY <2>1, <2>2 DEF WorkerInv, Places
  <2>4. closer' = "done" => closed' /\ \A w \in Worker : worker'[w] \in {"none", "gone"}
    BY <2>1, <2>2 DEF WorkerInv, OneWorkerPerStream
  <2>5. OneWorkerPerStream'
    BY SMT, <2>1, <2>4 DEF WorkerInv, OneWorkerPerStream
  <2>6. QED
    BY <2>3, <2>5 DEF WorkerInv
<1>2. ASSUME NEW f \in Frame, NEW o \in Offer, ReadFrame(f, o) PROVE WorkerInv'
  BY SMT, <1>2 DEF ReadFrame, TypeOK, WorkerInv, Places, OneWorkerPerStream
<1>3. ASSUME NEW s \in StreamID, NEW w \in Worker, StateFor(s, w), Started(s, w), ~closed,
             UNCHANGED <<closed, handling, closer>>,
             \A v \in Worker : v # w => frames'[v] = frames[v],
             serve' \in {"dispatch", "parked"} <=> reading' # NoFrame,
             reading' = NoFrame
      PROVE  WorkerInv'
  <2>1. /\ inbound[s] \in {NoWorker, w}
        /\ inbound[s] = NoWorker <=> worker[w] = "none"
        /\ \A t \in StreamID : t # s => inbound[t] # w
    BY SMT, <1>3, StateForFacts DEF WorkerInv
  <2>2. /\ inbound' = [inbound EXCEPT ![s] = w]
        /\ stream' = [stream EXCEPT ![w] = s]
        /\ worker' = [worker EXCEPT ![w] = IF @ = "none" THEN "running" ELSE @]
    BY <1>3 DEF Started
  <2>3. /\ \A v \in Worker : v # w => worker'[v] = worker[v] /\ stream'[v] = stream[v]
        /\ worker'[w] # "none" /\ stream'[w] = s
        /\ worker[w] # "none" => worker'[w] = worker[w]
        /\ worker[w] = "none" => worker'[w] = "running"
    BY SMT, <2>2 DEF TypeOK
  <2>4. Places'
    BY <1>3, <2>3 DEF WorkerInv, Places
  <2>5. /\ inbound'[s] = w /\ \A t \in StreamID : t # s => inbound'[t] = inbound[t]
    BY SMT, <2>2 DEF TypeOK
  <2>6. \A v \in Worker : v # w /\ worker[v] # "none" => stream[v] # s
    <3>1. SUFFICES ASSUME NEW v \in Worker, v # w, worker[v] # "none", stream[v] = s PROVE FALSE
      OBVIOUS
    <3>2. inbound[s] = v
      BY <3>1 DEF WorkerInv, OneWorkerPerStream
    <3>3. QED
      BY <2>1, <3>1, <3>2
  <2>7. \A v \in Worker : worker'[v] # "none" => inbound'[stream'[v]] = v
    <3>1. ASSUME NEW v \in Worker, v # w, worker[v] # "none"
          PROVE  inbound'[stream[v]] = v
      BY <2>5, <2>6, <3>1 DEF WorkerInv, Places, OneWorkerPerStream
    <3>2. QED
      BY <2>3, <2>5, <3>1
  <2>8. \A t \in StreamID : inbound'[t] # NoWorker => stream'[inbound'[t]] = t
    <3>1. ASSUME NEW t \in StreamID, t # s, inbound[t] # NoWorker
          PROVE  stream'[inbound[t]] = t
      BY SMT, <2>1, <2>3, <3>1 DEF TypeOK, WorkerInv, OneWorkerPerStream
    <3>2. QED
      BY SMT, <2>3, <2>5, <3>1
  <2>9. \A v \in Worker : worker'[v] = "none" =>
          frames'[v] = <<>> /\ \A t \in StreamID : inbound'[t] # v
    BY SMT, <1>3, <2>3, <2>5 DEF WorkerInv, OneWorkerPerStream
  <2>10. closer = "done" => closed
    BY DEF WorkerInv, OneWorkerPerStream
  <2>11. \A v \in Worker : worker'[v] # "gone"
    BY <1>3, <2>3 DEF WorkerInv, OneWorkerPerStream
  <2>12. QED
    BY <1>3, <2>4, <2>7, <2>8, <2>9, <2>10, <2>11 DEF WorkerInv, OneWorkerPerStream
<1>4. ASSUME DispatchAccept PROVE WorkerInv'
  <2>1. header[reading].stream \in StreamID
    BY <1>4, ReadingFacts DEF DispatchAccept, WorkerInv
  <2>2. PICK w \in Worker :
          /\ StateFor(header[reading].stream, w) /\ Started(header[reading].stream, w)
          /\ frames' = [frames EXCEPT ![w] = Append(@, reading)]
    BY <1>4 DEF DispatchAccept
  <2>3. \A v \in Worker : v # w => frames'[v] = frames[v]
    BY SMT, <2>2 DEF TypeOK
  <2>4. /\ ~closed /\ UNCHANGED <<closed, handling, closer>>
        /\ reading' = NoFrame /\ serve' = "read"
    BY <1>4 DEF DispatchAccept
  <2>5. QED
    BY <1>3, <2>1, <2>2, <2>3, <2>4
<1>5. ASSUME DispatchTooLarge PROVE WorkerInv'
  <2>1. header[reading].stream \in StreamID
    BY <1>5, ReadingFacts DEF DispatchTooLarge, WorkerInv
  <2>2. PICK w \in Worker :
          StateFor(header[reading].stream, w) /\ Started(header[reading].stream, w)
    BY <1>5 DEF DispatchTooLarge
  <2>3. /\ ~closed /\ UNCHANGED <<closed, frames, handling, closer>>
        /\ reading' = NoFrame /\ serve' = "failing"
    BY <1>5 DEF DispatchTooLarge, Drop
  <2>4. QED
    BY <1>3, <2>1, <2>2, <2>3
<1>6. ASSUME DispatchRefused \/ DispatchFull PROVE WorkerInv'
  <2>1. /\ UNCHANGED <<closed, streams, closer>>
        /\ \/ reading' = NoFrame /\ serve' = "failing"
           \/ UNCHANGED <<reading, header>> /\ serve' = "parked" /\ serve = "dispatch"
    BY <1>6 DEF DispatchRefused, DispatchFull, Drop
  <2>2. QED
    BY <2>1 DEF WorkerInv, Places, OneWorkerPerStream
<1>7. ASSUME NEW w \in Worker, TakeFrame(w) PROVE WorkerInv'
  <2>1. /\ Head(frames[w]) # NoFrame
        /\ worker[w] = "running"
        /\ \E next \in {"handling", "failing"} : worker' = [worker EXCEPT ![w] = next]
        /\ handling' = [handling EXCEPT ![w] = Head(frames[w])]
        /\ frames' = [frames EXCEPT ![w] = Tail(@)]
        /\ UNCHANGED <<closed, inbound, stream, header, reading, closer>>
        /\ serve' \in {"dispatch", "parked"} <=> serve \in {"dispatch", "parked"}
    BY <1>7, TakeFacts DEF TakeFrame, WokenReader
  <2>2. Places'
    BY SMT, <2>1 DEF TypeOK, WorkerInv, Places
  <2>3. OneWorkerPerStream'
    BY SMT, <2>1 DEF TypeOK, WorkerInv, OneWorkerPerStream
  <2>4. QED
    BY <2>2, <2>3 DEF WorkerInv
<1>8. ASSUME NEW w \in Worker, Retire(w) PROVE WorkerInv'
  <2>1. stream[w] \in StreamID /\ inbound[stream[w]] = w
    BY <1>8 DEF Retire, WorkerInv, Places, OneWorkerPerStream
  <2>2. /\ inbound' = [inbound EXCEPT ![stream[w]] = NoWorker]
        /\ worker[w] = "running" /\ frames[w] = <<>>
        /\ worker' = [worker EXCEPT ![w] = "none"]
        /\ stream' = [stream EXCEPT ![w] = NoStream]
        /\ UNCHANGED <<closed, frames, handling, header, serve, reading, closer>>
    BY <1>8, <2>1 DEF Retire, TypeOK
  <2>3. \A t \in StreamID : t # stream[w] => inbound[t] # w
    BY SMT DEF WorkerInv, OneWorkerPerStream
  <2>4. Places'
    BY SMT, <2>2 DEF TypeOK, WorkerInv, Places
  <2>5. \A v \in Worker : v # w /\ worker[v] # "none" =>
          stream[v] # stream[w] /\ stream[v] \in StreamID
    BY <2>1 DEF WorkerInv, Places, OneWorkerPerStream
  <2>6. OneWorkerPerStream'
    BY SMT, <2>1, <2>2, <2>3, <2>5 DEF TypeOK, WorkerInv, OneWorkerPerStream
  <2>7. QED
    BY <2>4, <2>6 DEF WorkerInv
<1>9. ASSUME NEW w \in Worker, WorkerFails(w) PROVE WorkerInv'
  <2>1. /\ worker[w] = "failing" /\ closed' = TRUE
        /\ worker' = [worker EXCEPT ![w] = "gone"]
        /\ serve' \in {"dispatch", "parked"} <=> serve \in {"dispatch", "parked"}
        /\ UNCHANGED <<inbound, frames, stream, handling, header, reading, closer>>
    BY <1>9 DEF WorkerFails, WokenReader
  <2>2. QED
    BY SMT, <2>1 DEF TypeOK, WorkerInv, Places, OneWorkerPerStream
<1>10. ASSUME NEW w \in Worker, Finished(w) PROVE WorkerInv'
  <2>1. /\ worker[w] = "handling"
        /\ \E next \in {"running", "failing"} : worker' = [worker EXCEPT ![w] = next]
        /\ handling' = [handling EXCEPT ![w] = NoFrame]
        /\ header' = [header EXCEPT ![handling[w]] = NoOffer]
        /\ UNCHANGED <<closed, inbound, frames, stream, serve, reading, closer>>
    BY <1>10 DEF Finished, HandlerReturns, HandlerFails, Finish
  <2>2. reading # NoFrame => reading # handling[w] /\ reading \in Frame
    BY DEF FramesInOnePlace, TypeOK
  <2>3. Places'
    BY SMT, <2>1, <2>2 DEF TypeOK, WorkerInv, Places
  <2>4. OneWorkerPerStream'
    BY SMT, <2>1 DEF TypeOK, WorkerInv, OneWorkerPerStream
  <2>5. QED
    BY <2>3, <2>4 DEF WorkerInv
<1>11. ASSUME NEW w \in Worker, HandlerCalls(w) \/ HandlerAnswered(w) PROVE WorkerInv'
  <2>1. /\ worker[w] \in {"handling", "calling"}
        /\ \E next \in {"handling", "calling"} : worker' = [worker EXCEPT ![w] = next]
        /\ UNCHANGED <<closed, inbound, frames, stream, handling, header, serve, reading, closer>>
    BY <1>11 DEF HandlerCalls, HandlerAnswered
  <2>2. QED
    BY SMT, <2>1 DEF TypeOK, WorkerInv, Places, OneWorkerPerStream
<1>12. CASE UNCHANGED vars
  BY <1>12 DEF vars, WorkerInv, Places, OneWorkerPerStream
<1>13. QED
  BY NextCases, <1>1, <1>2, <1>4, <1>5, <1>6, <1>7, <1>8, <1>9, <1>10, <1>11, <1>12
-----------------------------------------------------------------------------
(* Every frame in one place *)

LEMMA InitFramesInOnePlace == Init => FramesInOnePlace
<1> SUFFICES ASSUME Init PROVE FramesInOnePlace
  OBVIOUS
<1>1. \A w \in Worker : Len(frames[w]) = 0
  BY DEF Init
<1>2. QED
  BY SMT, <1>1, InboundAssumption DEF Init, FramesInOnePlace, Queued

LEMMA StepFramesInOnePlace ==
  ASSUME TypeOK, TypeOK', WorkerInv, FramesInOnePlace, [Next]_vars
  PROVE  FramesInOnePlace'
<1> USE InboundAssumption DEF streams, config
<1>1. ASSUME UNCHANGED <<frames, handling, header, reading>> PROVE FramesInOnePlace'
  BY SMT, <1>1 DEF FramesInOnePlace, Queued
<1>2. ASSUME NEW f \in Frame, NEW o \in Offer, ReadFrame(f, o) PROVE FramesInOnePlace'
  <2>1. /\ header[f] = NoOffer /\ header' = [header EXCEPT ![f] = o] /\ reading' = f
        /\ serve = "read" /\ UNCHANGED <<frames, handling>>
    BY <1>2 DEF ReadFrame
  <2>2. \A w \in Worker : handling[w] # f /\ ~Queued(w, f)
    BY <2>1 DEF FramesInOnePlace
  <2>3. \A g \in Frame : header'[g] = NoOffer => header[g] = NoOffer /\ g # f
    BY SMT, <2>1 DEF TypeOK
  <2>4. \A w \in Worker, g \in Frame : Queued(w, g)' <=> Queued(w, g)
    BY <2>1 DEF Queued
  <2>5. QED
    BY SMT, <2>1, <2>2, <2>3, <2>4 DEF FramesInOnePlace, TypeOK
<1>3. ASSUME DispatchAccept PROVE FramesInOnePlace'
  <2>1. reading \in Frame /\ header[reading] \in Offer /\ reading # NoFrame
    BY <1>3, ReadingFacts DEF DispatchAccept, WorkerInv
  <2>2. PICK w \in Worker : frames' = [frames EXCEPT ![w] = Append(@, reading)]
    BY <1>3 DEF DispatchAccept
  <2>3. reading' = NoFrame /\ UNCHANGED <<handling, header>>
    BY <1>3 DEF DispatchAccept
  <2>4. /\ Len(frames[w]) \in Nat /\ Len(frames'[w]) = Len(frames[w]) + 1
        /\ \A i \in 1..Len(frames[w]) : frames'[w][i] = frames[w][i]
        /\ frames'[w][Len(frames[w]) + 1] = reading
    BY SMT, <2>1, <2>2, AppendFacts DEF TypeOK
  <2>5. \A v \in Worker : v # w => frames'[v] = frames[v]
    BY SMT, <2>2 DEF TypeOK
  <2>6. \A v \in Worker : handling[v] # reading /\ ~Queued(v, reading)
    BY <2>1 DEF FramesInOnePlace
  <2>7. \A v \in Worker, g \in Frame : Queued(v, g)' => Queued(v, g) \/ g = reading
    BY SMT, <2>4, <2>5 DEF Queued
  <2>8. ASSUME NEW v \in Worker, NEW u \in Worker,
               NEW i \in 1..Len(frames'[v]), NEW j \in 1..Len(frames'[u]),
               frames'[v][i] = frames'[u][j]
        PROVE  v = u /\ i = j
    <3>1. ASSUME NEW x \in Worker, NEW k \in 1..Len(frames'[x])
          PROVE  \/ k \in 1..Len(frames[x]) /\ frames'[x][k] = frames[x][k]
                 \/ x = w /\ k = Len(frames[w]) + 1 /\ frames'[x][k] = reading
      BY SMTT(30), <2>4, <2>5
    <3>2. \A x \in Worker : \A k \in 1..Len(frames[x]) : frames[x][k] # reading
      BY <2>6 DEF Queued
    <3>3. QED
      BY SMTT(30), <2>8, <3>1, <3>2 DEF FramesInOnePlace
  <2>9. QED
    BY SMTT(30), <2>1, <2>3, <2>6, <2>7, <2>8 DEF FramesInOnePlace, TypeOK
<1>4. ASSUME UNCHANGED <<frames, handling>>, Drop, serve = "dispatch" PROVE FramesInOnePlace'
  <2>1. reading \in Frame /\ reading # NoFrame
    BY <1>4, ReadingFacts DEF WorkerInv
  <2>2. \A v \in Worker : handling[v] # reading /\ ~Queued(v, reading)
    BY <2>1 DEF FramesInOnePlace
  <2>3. \A v \in Worker, g \in Frame : Queued(v, g)' <=> Queued(v, g)
    BY <1>4 DEF Queued
  <2>4. reading' = NoFrame /\ \A g \in Frame : header'[g] = NoOffer => header[g] = NoOffer \/ g = reading
    BY SMT, <1>4, <2>1 DEF Drop, TypeOK
  <2>5. QED
    BY SMT, <1>4, <2>1, <2>2, <2>3, <2>4 DEF FramesInOnePlace, TypeOK
<1>5. ASSUME DispatchRefused \/ DispatchTooLarge \/ DispatchFull PROVE FramesInOnePlace'
  BY <1>1, <1>4, <1>5 DEF DispatchRefused, DispatchTooLarge, DispatchFull
<1>6. ASSUME NEW w \in Worker, TakeFrame(w) PROVE FramesInOnePlace'
  <2> DEFINE f == Head(frames[w])
  <2>1. /\ f \in Frame /\ f # NoFrame /\ header[f] \in Offer /\ Queued(w, f)
        /\ Len(frames[w]) \in Nat \ {0} /\ Len(Tail(frames[w])) = Len(frames[w]) - 1
        /\ frames[w][1] = f
        /\ \A i \in 1..Len(Tail(frames[w])) :
             i + 1 \in 1..Len(frames[w]) /\ Tail(frames[w])[i] = frames[w][i + 1]
    BY <1>6, TakeFacts DEF TakeFrame
  <2> HIDE DEF f
  <2>2. /\ handling' = [handling EXCEPT ![w] = f]
        /\ frames' = [frames EXCEPT ![w] = Tail(frames[w])]
        /\ UNCHANGED <<header, reading>>
    BY <1>6 DEF TakeFrame, f
  <2>3. frames'[w] = Tail(frames[w]) /\ \A v \in Worker : v # w => frames'[v] = frames[v]
    BY SMT, <2>2 DEF TypeOK
  <2>4. handling'[w] = f /\ \A v \in Worker : v # w => handling'[v] = handling[v]
    BY SMT, <2>2 DEF TypeOK
  <2>5. ASSUME NEW v \in Worker, NEW k \in 1..Len(frames'[v])
        PROVE  IF v = w THEN k + 1 \in 1..Len(frames[w]) /\ frames'[v][k] = frames[w][k + 1]
                        ELSE k \in 1..Len(frames[v]) /\ frames'[v][k] = frames[v][k]
    BY <2>1, <2>3
  <2>6. ASSUME NEW v \in Worker, NEW k \in 1..Len(frames'[v]) PROVE frames'[v][k] # f
    <3>1. 1 \in 1..Len(frames[w])
      BY SMT, <2>1
    <3>2. QED
      BY SMT, <2>1, <2>5, <3>1 DEF FramesInOnePlace
  <2>7. \A v \in Worker, g \in Frame : Queued(v, g)' => Queued(v, g) /\ g # f
    BY SMT, <2>5, <2>6 DEF Queued
  <2>8. \A v \in Worker : handling[v] # f
    BY <2>1 DEF FramesInOnePlace
  <2>9. ASSUME NEW v \in Worker, NEW u \in Worker,
               NEW i \in 1..Len(frames'[v]), NEW j \in 1..Len(frames'[u]),
               frames'[v][i] = frames'[u][j]
        PROVE  v = u /\ i = j
    <3> DEFINE p(x, k) == IF x = w THEN k + 1 ELSE k
    <3>1. /\ p(v, i) \in 1..Len(frames[v]) /\ frames'[v][i] = frames[v][p(v, i)]
          /\ p(u, j) \in 1..Len(frames[u]) /\ frames'[u][j] = frames[u][p(u, j)]
      BY <2>5
    <3>2. \A k \in 1..Len(frames[v]), l \in 1..Len(frames[u]) :
            frames[v][k] = frames[u][l] => v = u /\ k = l
      BY SMTT(30) DEF FramesInOnePlace
    <3>3. v = u /\ p(v, i) = p(u, j)
      <4> HIDE DEF p
      <4>1. QED
        BY <2>9, <3>1, <3>2
    <3>4. QED
      BY SMT, <3>3
  <2>10. \A g \in Frame : header[g] = NoOffer => g # f
    BY <2>1
  <2>11. reading # f
    BY SMT, <2>1 DEF FramesInOnePlace
  <2>12. \A v \in Worker : handling'[v] # NoFrame =>
           \A u \in Worker : ~Queued(u, handling[v])' /\ (u # v => handling'[u] # handling'[v])
    <3>1. ASSUME NEW v \in Worker, handling'[v] # NoFrame, NEW u \in Worker
          PROVE  ~Queued(u, handling[v])' /\ (u # v => handling'[u] # handling'[v])
      <4>1. handling'[v] \in Frame
        BY <3>1 DEF TypeOK
      <4>2. CASE v = w
        BY <2>4, <2>7, <2>8, <4>1, <4>2
      <4>3. CASE v # w
        BY <2>4, <2>7, <2>8, <3>1, <4>1, <4>3 DEF FramesInOnePlace
      <4>4. QED
        BY <4>2, <4>3
    <3>2. QED
      BY <3>1
  <2>13. QED
    BY SMTT(30), <2>2, <2>4, <2>7, <2>9, <2>10, <2>11, <2>12 DEF FramesInOnePlace, TypeOK
<1>7. ASSUME NEW w \in Worker, Finished(w) PROVE FramesInOnePlace'
  <2>1. /\ worker[w] = "handling"
        /\ handling' = [handling EXCEPT ![w] = NoFrame]
        /\ header' = [header EXCEPT ![handling[w]] = NoOffer]
        /\ UNCHANGED <<frames, reading>>
    BY <1>7 DEF Finished, HandlerReturns, HandlerFails, Finish
  <2>2. handling[w] \in Frame /\ handling[w] # NoFrame
    BY <2>1 DEF TypeOK, WorkerInv, Places
  <2>3. \A v \in Worker : v # w => handling'[v] = handling[v]
    BY SMT, <2>1 DEF TypeOK
  <2>4. handling'[w] = NoFrame
    BY SMT, <2>1 DEF TypeOK
  <2>5. \A v \in Worker, g \in Frame : Queued(v, g)' <=> Queued(v, g)
    BY <2>1 DEF Queued
  <2>6. \A g \in Frame : header'[g] = NoOffer => header[g] = NoOffer \/ g = handling[w]
    BY <2>1 DEF TypeOK
  <2>7. QED
    BY SMTT(30), <2>1, <2>2, <2>3, <2>4, <2>5, <2>6 DEF FramesInOnePlace, TypeOK
<1>8. ASSUME NEW w \in Worker,
             Retire(w) \/ WorkerFails(w) \/ HandlerCalls(w) \/ HandlerAnswered(w)
      PROVE  FramesInOnePlace'
  BY <1>1, <1>8 DEF Retire, WorkerFails, HandlerCalls, HandlerAnswered
<1>9. ASSUME Control PROVE FramesInOnePlace'
  BY <1>1, <1>9, ControlStep
<1>10. CASE UNCHANGED vars
  BY <1>1, <1>10 DEF vars
<1>11. QED
  BY NextCases, <1>2, <1>3, <1>5, <1>6, <1>7, <1>8, <1>9, <1>10
-----------------------------------------------------------------------------
(* The limits of the queues *)

LEMMA InitBoundInv == Init => BoundInv
<1> SUFFICES ASSUME Init PROVE BoundInv
  OBVIOUS
<1>1. \A w \in Worker : Len(frames[w]) = 0 /\ bytes[w] = 0
  BY DEF Init
<1>2. QED
  BY SMT, <1>1, InboundLimits DEF BoundInv, QueuesBounded

LEMMA StepBoundInv ==
  ASSUME TypeOK, TypeOK', WorkerInv, FramesInOnePlace, BoundInv, [Next]_vars
  PROVE  BoundInv'
<1> USE InboundAssumption, InboundLimits DEF streams, config
<1>1. ASSUME UNCHANGED <<frames, bytes>>,
             \A w \in Worker : worker'[w] = "none" => worker[w] = "none"
      PROVE  BoundInv'
  BY <1>1 DEF BoundInv, QueuesBounded
<1>2. ASSUME DispatchAccept PROVE BoundInv'
  <2> DEFINE s == header[reading].stream
             b == header[reading].bytes
  <2>1. reading \in Frame /\ s \in StreamID /\ b \in Nat \ {0}
    BY <1>2, ReadingFacts DEF DispatchAccept, WorkerInv
  <2>2. PICK w \in Worker :
          /\ StateFor(s, w) /\ Started(s, w)
          /\ bytes' = [bytes EXCEPT ![w] = @ + b]
          /\ frames' = [frames EXCEPT ![w] = Append(@, reading)]
    BY <1>2 DEF DispatchAccept
  <2>3. /\ b <= PerStreamQueueBytes
        /\ inbound[s] # NoWorker => /\ bytes[inbound[s]] + b <= PerStreamQueueBytes
                                    /\ Len(frames[inbound[s]]) + 1 <= PerStreamQueueFrames
    BY SMT, <1>2, <2>1 DEF DispatchAccept, NeverFits, Room
  <2>4. /\ inbound[s] \in {NoWorker, w}
        /\ inbound[s] = NoWorker <=> worker[w] = "none"
        /\ worker[w] = "none" => frames[w] = <<>>
    BY <2>1, <2>2, StateForFacts DEF WorkerInv
  <2> HIDE DEF s, b
  <2>5. bytes[w] + b <= PerStreamQueueBytes /\ Len(frames[w]) + 1 <= PerStreamQueueFrames
    <3>1. CASE worker[w] = "none"
      <4>1. bytes[w] = 0 /\ Len(frames[w]) = 0
        BY <2>4, <3>1 DEF BoundInv
      <4>2. QED
        BY SMT, <2>1, <2>3, <4>1
    <3>2. CASE worker[w] # "none"
      BY <2>3, <2>4, <3>2
    <3>3. QED
      BY <3>1, <3>2
  <2>6. Len(frames'[w]) = Len(frames[w]) + 1 /\ bytes'[w] = bytes[w] + b
    BY SMTT(30), <2>1, <2>2, AppendFacts DEF TypeOK
  <2>7. \A v \in Worker : v # w => frames'[v] = frames[v] /\ bytes'[v] = bytes[v]
    BY SMT, <2>2 DEF TypeOK
  <2>8. worker'[w] # "none" /\ \A v \in Worker : v # w => worker'[v] = worker[v]
    BY SMT, <2>2 DEF Started, TypeOK
  <2>9. QED
    BY <2>5, <2>6, <2>7, <2>8 DEF BoundInv, QueuesBounded
<1>3. ASSUME DispatchTooLarge PROVE BoundInv'
  <2>1. PICK w \in Worker : Started(header[reading].stream, w)
    BY <1>3 DEF DispatchTooLarge
  <2>2. \A v \in Worker : worker'[v] = "none" => worker[v] = "none"
    BY SMT, <2>1 DEF Started, TypeOK
  <2>3. QED
    BY <1>1, <1>3, <2>2 DEF DispatchTooLarge
<1>4. ASSUME NEW w \in Worker, TakeFrame(w) PROVE BoundInv'
  <2> DEFINE b == header[Head(frames[w])].bytes
  <2>1. /\ b \in Nat \ {0}
        /\ Len(frames[w]) \in Nat \ {0} /\ Len(Tail(frames[w])) = Len(frames[w]) - 1
    BY <1>4, TakeFacts DEF TakeFrame
  <2>2. /\ bytes' = [bytes EXCEPT ![w] = @ - b]
        /\ frames' = [frames EXCEPT ![w] = Tail(@)]
        /\ worker'[w] # "none" /\ \A v \in Worker : v # w => worker'[v] = worker[v]
    BY SMT, <1>4 DEF TakeFrame, TypeOK
  <2> HIDE DEF b
  <2>3. bytes[w] \in Int /\ bytes[w] <= PerStreamQueueBytes /\ Len(frames[w]) <= PerStreamQueueFrames
    BY DEF TypeOK, BoundInv, QueuesBounded
  <2>4. bytes'[w] = bytes[w] - b /\ frames'[w] = Tail(frames[w])
    BY SMT, <2>2 DEF TypeOK
  <2>5. bytes'[w] <= PerStreamQueueBytes /\ Len(frames'[w]) <= PerStreamQueueFrames
    BY SMT, <2>1, <2>3, <2>4
  <2>6. \A v \in Worker : v # w => frames'[v] = frames[v] /\ bytes'[v] = bytes[v]
    BY SMT, <2>2 DEF TypeOK
  <2>7. QED
    BY <2>2, <2>5, <2>6 DEF BoundInv, QueuesBounded
<1>5. ASSUME NEW w \in Worker, Retire(w) PROVE BoundInv'
  BY SMT, <1>5 DEF Retire, TypeOK, BoundInv, QueuesBounded
<1>6. ASSUME NEW w \in Worker,
             WorkerFails(w) \/ Finished(w) \/ HandlerCalls(w) \/ HandlerAnswered(w)
      PROVE  BoundInv'
  <2>1. \A v \in Worker : worker'[v] = "none" => worker[v] = "none"
    BY SMT, <1>6 DEF WorkerFails, Finished, HandlerReturns, HandlerFails, Finish, HandlerCalls,
                HandlerAnswered, TypeOK
  <2>2. UNCHANGED <<frames, bytes>>
    BY <1>6 DEF WorkerFails, Finished, HandlerReturns, HandlerFails, Finish, HandlerCalls,
                HandlerAnswered
  <2>3. QED
    BY <1>1, <2>1, <2>2
<1>7. ASSUME DispatchRefused \/ DispatchFull PROVE BoundInv'
  BY <1>1, <1>7 DEF DispatchRefused, DispatchFull
<1>8. ASSUME NEW f \in Frame, NEW o \in Offer, ReadFrame(f, o) PROVE BoundInv'
  BY <1>1, <1>8 DEF ReadFrame
<1>9. ASSUME Control PROVE BoundInv'
  BY <1>1, <1>9, ControlStep
<1>10. CASE UNCHANGED vars
  BY <1>1, <1>10 DEF vars
<1>11. QED
  BY NextCases, <1>2, <1>3, <1>4, <1>5, <1>6, <1>7, <1>8, <1>9, <1>10
-----------------------------------------------------------------------------
(* Every step is a step of OrderedHandling *)

\* The refinement mapping, one stream at a time.
WaitingOf(s) == IF inbound[s] = NoWorker THEN <<>> ELSE frames[inbound[s]]
ActiveOf(s) == IF inbound[s] = NoWorker THEN NoFrame ELSE handling[inbound[s]]

\* A step that changes what no stream has waiting or active, and leaves the
\* Peer open or shut, is a stutter.
LEMMA Stutters ==
  ASSUME \A s \in StreamID : WaitingOf(s)' = WaitingOf(s) /\ ActiveOf(s)' = ActiveOf(s),
         UNCHANGED closed
  PROVE  UNCHANGED Handling!hvars
  BY DEF WaitingOf, ActiveOf, Handling!hvars

\* One that also closes it is Shut.
LEMMA Shuts ==
  ASSUME \A s \in StreamID : WaitingOf(s)' = WaitingOf(s) /\ ActiveOf(s)' = ActiveOf(s),
         TypeOK, TypeOK', closed => closed'
  PROVE  [Handling!HNext]_(Handling!hvars)
<1>1. CASE closed = closed'
  BY <1>1, Stutters
<1>2. CASE closed # closed'
  <2>1. ~closed /\ closed'
    BY <1>2 DEF TypeOK
  <2>2. Handling!Shut
    BY <2>1 DEF WaitingOf, ActiveOf, Handling!Shut
  <2>3. QED
    BY <2>2 DEF Handling!HNext
<1>3. QED
  BY <1>1, <1>2

\* The other streams are as they were.
OthersKept(s) ==
  \A t \in StreamID : t # s => WaitingOf(t)' = WaitingOf(t) /\ ActiveOf(t)' = ActiveOf(t)

\* A step that adds f to the queue of s is Accept.
LEMMA Accepts ==
  ASSUME NEW s \in StreamID, NEW f \in Frame, ~closed, UNCHANGED closed, OthersKept(s),
         WaitingOf(s)' = Append(WaitingOf(s), f), ActiveOf(s)' = ActiveOf(s),
         \A t \in StreamID :
           ActiveOf(t) # f /\ \A i \in 1..Len(WaitingOf(t)) : WaitingOf(t)[i] # f
  PROVE  Handling!HNext
<1> DEFINE waiting == [t \in StreamID |-> IF inbound[t] = NoWorker THEN <<>>
                                          ELSE frames[inbound[t]]]
           active == [t \in StreamID |-> IF inbound[t] = NoWorker THEN NoFrame
                                         ELSE handling[inbound[t]]]
<1>1. \A t \in StreamID : waiting[t] = WaitingOf(t) /\ active[t] = ActiveOf(t)
  BY DEF WaitingOf, ActiveOf
<1>2. waiting' = [waiting EXCEPT ![s] = Append(@, f)] /\ active' = active
  <2>1. /\ waiting' = [t \in StreamID |-> WaitingOf(t)'] /\ waiting = [t \in StreamID |-> WaitingOf(t)]
        /\ active' = [t \in StreamID |-> ActiveOf(t)'] /\ active = [t \in StreamID |-> ActiveOf(t)]
    BY DEF WaitingOf, ActiveOf
  <2> HIDE DEF waiting, active
  <2>2. \A t \in StreamID : WaitingOf(t)' = IF t = s THEN Append(WaitingOf(s), f) ELSE WaitingOf(t)
    BY DEF OthersKept
  <2>3. \A t \in StreamID : ActiveOf(t)' = ActiveOf(t)
    BY DEF OthersKept
  <2>4. QED
    BY <2>1, <2>2, <2>3
<1>3. \A t \in StreamID : active[t] # f /\ \A i \in 1..Len(waiting[t]) : waiting[t][i] # f
  <2> HIDE DEF waiting, active
  <2>1. QED
    BY <1>1
<1>4. Handling!Accept(s, f)
  BY <1>2, <1>3 DEF Handling!Accept
<1>5. QED
  BY <1>4 DEF Handling!HNext

\* A step that moves the oldest frame of s to its handler is Begin.
LEMMA Begins ==
  ASSUME NEW s \in StreamID, UNCHANGED closed, OthersKept(s),
         WaitingOf(s) # <<>>, ActiveOf(s) = NoFrame,
         WaitingOf(s)' = Tail(WaitingOf(s)), ActiveOf(s)' = Head(WaitingOf(s))
  PROVE  Handling!HNext
<1>1. Handling!Begin(s)
  BY ZenonT(30) DEF WaitingOf, ActiveOf, OthersKept, Handling!Begin
<1>2. QED
  BY <1>1 DEF Handling!HNext

\* A step that only ends the handler of s is End.
LEMMA Ends ==
  ASSUME NEW s \in StreamID, UNCHANGED closed, OthersKept(s),
         WaitingOf(s)' = WaitingOf(s), ActiveOf(s) # NoFrame, ActiveOf(s)' = NoFrame
  PROVE  Handling!HNext
<1>1. Handling!End(s)
  BY ZenonT(30) DEF WaitingOf, ActiveOf, OthersKept, Handling!End
<1>2. QED
  BY <1>1 DEF Handling!HNext

\* A worker that has started serves its stream, and no other stream has it.
LEMMA OwnStream ==
  ASSUME TypeOK, WorkerInv, NEW w \in Worker, worker[w] # "none"
  PROVE  \E s \in StreamID : /\ inbound[s] = w /\ stream[w] = s
                             /\ \A t \in StreamID : t # s => inbound[t] # w
<1>1. stream[w] \in StreamID /\ inbound[stream[w]] = w
  BY DEF WorkerInv, Places, OneWorkerPerStream
<1>2. \A t \in StreamID : t # stream[w] => inbound[t] # w
  BY SMT, InboundAssumption DEF WorkerInv, OneWorkerPerStream
<1>3. QED
  BY <1>1, <1>2

LEMMA StepHandling ==
  ASSUME TypeOK, TypeOK', WorkerInv, FramesInOnePlace, [Next]_vars
  PROVE  [Handling!HNext]_(Handling!hvars)
<1> USE InboundAssumption DEF streams, config
<1>1. ASSUME Control PROVE [Handling!HNext]_(Handling!hvars)
  <2>1. UNCHANGED <<inbound, frames, handling>> /\ (closed => closed')
    BY <1>1, ControlStep
  <2>2. QED
    BY <2>1, Shuts DEF WaitingOf, ActiveOf
<1>2. ASSUME UNCHANGED <<inbound, frames, handling, closed>>
      PROVE  [Handling!HNext]_(Handling!hvars)
  BY <1>2, Stutters DEF WaitingOf, ActiveOf
<1>3. ASSUME DispatchAccept PROVE [Handling!HNext]_(Handling!hvars)
  <2>1. PICK s \in StreamID, f \in Frame : s = header[reading].stream /\ f = reading
    BY <1>3, ReadingFacts DEF DispatchAccept, WorkerInv
  <2>2. PICK w \in Worker :
          /\ StateFor(s, w) /\ Started(s, w)
          /\ frames' = [frames EXCEPT ![w] = Append(@, f)]
    BY <1>3, <2>1 DEF DispatchAccept
  <2>3. ~closed /\ UNCHANGED <<closed, handling>>
    BY <1>3 DEF DispatchAccept
  <2>4. /\ inbound[s] \in {NoWorker, w}
        /\ inbound[s] = NoWorker <=> worker[w] = "none"
        /\ worker[w] = "none" => frames[w] = <<>>
        /\ \A t \in StreamID : t # s => inbound[t] # w
    BY SMT, <2>2, StateForFacts DEF WorkerInv
  <2>5. worker[w] = "none" => handling[w] = NoFrame
    BY DEF WorkerInv, Places
  <2>6. WaitingOf(s) = frames[w] /\ ActiveOf(s) = handling[w]
    BY <2>4, <2>5 DEF WaitingOf, ActiveOf
  <2>7. inbound'[s] = w /\ frames'[w] = Append(frames[w], f) /\ w # NoWorker
    BY SMT, <2>2 DEF Started, TypeOK
  <2>8. WaitingOf(s)' = Append(WaitingOf(s), f) /\ ActiveOf(s)' = ActiveOf(s)
    <3>1. WaitingOf(s)' = frames'[w] /\ ActiveOf(s)' = handling'[w]
      BY <2>7 DEF WaitingOf, ActiveOf
    <3>2. QED
      BY <2>3, <2>6, <2>7, <3>1
  <2>9. OthersKept(s)
    BY <2>2, <2>3, <2>4 DEF Started, OthersKept, WaitingOf, ActiveOf, TypeOK
  <2>10. \A t \in StreamID :
           ActiveOf(t) # f /\ \A i \in 1..Len(WaitingOf(t)) : WaitingOf(t)[i] # f
    <3>1. \A v \in Worker : handling[v] # f /\ \A i \in 1..Len(frames[v]) : frames[v][i] # f
      BY <2>1 DEF FramesInOnePlace, Queued
    <3>2. Len(<<>>) = 0 /\ f # NoFrame
      OBVIOUS
    <3>3. ASSUME NEW t \in StreamID
          PROVE  ActiveOf(t) # f /\ \A i \in 1..Len(WaitingOf(t)) : WaitingOf(t)[i] # f
      <4>1. CASE inbound[t] = NoWorker
        BY SMT, <3>2, <4>1 DEF WaitingOf, ActiveOf
      <4>2. CASE inbound[t] # NoWorker
        BY <3>1, <4>2 DEF WaitingOf, ActiveOf, TypeOK
      <4>3. QED
        BY <4>1, <4>2
    <3>4. QED
      BY <3>3
  <2>11. QED
    BY <2>3, <2>8, <2>9, <2>10, Accepts
<1>4. ASSUME DispatchTooLarge PROVE [Handling!HNext]_(Handling!hvars)
  <2>1. PICK s \in StreamID : s = header[reading].stream
    BY <1>4, ReadingFacts DEF DispatchTooLarge, WorkerInv
  <2>2. PICK w \in Worker : StateFor(s, w) /\ Started(s, w)
    BY <1>4, <2>1 DEF DispatchTooLarge
  <2>3. UNCHANGED <<closed, frames, handling>>
    BY <1>4 DEF DispatchTooLarge
  <2>4. /\ inbound[s] \in {NoWorker, w}
        /\ inbound[s] = NoWorker <=> worker[w] = "none"
        /\ worker[w] = "none" => frames[w] = <<>> /\ handling[w] = NoFrame
    BY <2>2, StateForFacts DEF WorkerInv, Places
  <2>5. inbound' = [inbound EXCEPT ![s] = w]
    BY <2>2 DEF Started
  <2>6. \A t \in StreamID : WaitingOf(t)' = WaitingOf(t) /\ ActiveOf(t)' = ActiveOf(t)
    BY <2>3, <2>4, <2>5 DEF WaitingOf, ActiveOf, TypeOK
  <2>7. QED
    BY <2>3, <2>6, Stutters
<1>5. ASSUME NEW w \in Worker, TakeFrame(w) PROVE [Handling!HNext]_(Handling!hvars)
  <2>1. PICK s \in StreamID : inbound[s] = w /\ \A t \in StreamID : t # s => inbound[t] # w
    BY <1>5, OwnStream DEF TakeFrame
  <2>2. /\ worker[w] = "running" /\ frames[w] # <<>>
        /\ handling' = [handling EXCEPT ![w] = Head(frames[w])]
        /\ frames' = [frames EXCEPT ![w] = Tail(frames[w])]
        /\ UNCHANGED <<closed, inbound>>
    BY <1>5 DEF TakeFrame
  <2>3. handling[w] = NoFrame
    BY <2>2 DEF WorkerInv, Places
  <2>4. WaitingOf(s) = frames[w] /\ ActiveOf(s) = NoFrame
    BY <2>1, <2>3 DEF WaitingOf, ActiveOf
  <2>5. WaitingOf(s)' = Tail(frames[w]) /\ ActiveOf(s)' = Head(frames[w])
    BY <2>1, <2>2 DEF WaitingOf, ActiveOf, TypeOK
  <2>6. OthersKept(s)
    BY <2>1, <2>2 DEF OthersKept, WaitingOf, ActiveOf, TypeOK
  <2>7. QED
    BY <2>2, <2>4, <2>5, <2>6, Begins
<1>6. ASSUME NEW w \in Worker, Finished(w) PROVE [Handling!HNext]_(Handling!hvars)
  <2>1. PICK s \in StreamID : inbound[s] = w /\ \A t \in StreamID : t # s => inbound[t] # w
    BY <1>6, OwnStream DEF Finished, HandlerReturns, HandlerFails
  <2>2. /\ worker[w] = "handling"
        /\ handling' = [handling EXCEPT ![w] = NoFrame]
        /\ UNCHANGED <<closed, inbound, frames>>
    BY <1>6 DEF Finished, HandlerReturns, HandlerFails, Finish
  <2>3. handling[w] # NoFrame
    BY <2>2 DEF WorkerInv, Places
  <2>4. /\ WaitingOf(s)' = WaitingOf(s) /\ ActiveOf(s) # NoFrame /\ ActiveOf(s)' = NoFrame
    BY <2>1, <2>2, <2>3 DEF WaitingOf, ActiveOf, TypeOK
  <2>5. OthersKept(s)
    BY <2>1, <2>2 DEF OthersKept, WaitingOf, ActiveOf, TypeOK
  <2>6. QED
    BY <2>2, <2>4, <2>5, Ends
<1>7. ASSUME NEW w \in Worker, Retire(w) PROVE [Handling!HNext]_(Handling!hvars)
  <2>1. PICK s \in StreamID : inbound[s] = w /\ stream[w] = s
    BY <1>7, OwnStream DEF Retire
  <2>2. /\ worker[w] = "running" /\ frames[w] = <<>>
        /\ inbound' = [inbound EXCEPT ![s] = NoWorker]
        /\ UNCHANGED <<closed, frames, handling>>
    BY <1>7, <2>1 DEF Retire
  <2>3. handling[w] = NoFrame
    BY <2>2 DEF WorkerInv, Places
  <2>4. \A t \in StreamID : WaitingOf(t)' = WaitingOf(t) /\ ActiveOf(t)' = ActiveOf(t)
    BY SMT, <2>1, <2>2, <2>3 DEF WaitingOf, ActiveOf, TypeOK
  <2>5. QED
    BY <2>2, <2>4, Stutters
<1>8. ASSUME NEW w \in Worker, WorkerFails(w) PROVE [Handling!HNext]_(Handling!hvars)
  <2>1. UNCHANGED <<inbound, frames, handling>> /\ closed'
    BY <1>8 DEF WorkerFails
  <2>2. QED
    BY <2>1, Shuts DEF WaitingOf, ActiveOf
<1>9. ASSUME NEW w \in Worker, HandlerCalls(w) \/ HandlerAnswered(w)
      PROVE  [Handling!HNext]_(Handling!hvars)
  BY <1>2, <1>9 DEF HandlerCalls, HandlerAnswered
<1>10. ASSUME NEW f \in Frame, NEW o \in Offer, ReadFrame(f, o)
       PROVE  [Handling!HNext]_(Handling!hvars)
  BY <1>2, <1>10 DEF ReadFrame
<1>11. ASSUME DispatchRefused \/ DispatchFull PROVE [Handling!HNext]_(Handling!hvars)
  BY <1>2, <1>11 DEF DispatchRefused, DispatchFull
<1>12. CASE UNCHANGED vars
  BY <1>2, <1>12 DEF vars
<1>13. QED
  BY NextCases, <1>1, <1>3, <1>4, <1>5, <1>6, <1>7, <1>8, <1>9, <1>10, <1>11, <1>12
-----------------------------------------------------------------------------
(* Theorems *)

\* The inductive invariant.
IInv == TypeOK /\ WorkerInv /\ FramesInOnePlace /\ BoundInv

LEMMA Invariance == Spec => []IInv
<1>1. Init => IInv
  BY InitTypeOK, InitWorkerInv, InitFramesInOnePlace, InitBoundInv DEF IInv
<1>2. IInv /\ [Next]_vars => IInv'
  BY StepTypeOK, StepWorkerInv, StepFramesInOnePlace, StepBoundInv DEF IInv
<1>3. QED
  BY <1>1, <1>2, PTL DEF Spec

\* A stream has one worker at a time, it is the one the map names, no frame
\* waits where no worker is, and after Close no handler runs, for any number
\* of streams and any limits (dispatch, runInbound and Close in peer.go).
THEOREM StreamsHaveOneWorker == Spec => []OneWorkerPerStream
<1>1. IInv => OneWorkerPerStream
  BY DEF IInv, WorkerInv
<1>2. QED
  BY <1>1, Invariance, PTL

\* A received frame is in one place until its handler returns: none is
\* handled twice and none is in two queues.
THEOREM FramesAreNotDuplicated == Spec => []FramesInOnePlace
<1>1. IInv => FramesInOnePlace
  BY DEF IInv
<1>2. QED
  BY <1>1, Invariance, PTL

\* A queue never exceeds PerStreamQueueBytes or PerStreamQueueFrames, whatever
\* the policy does with a reader that finds it full.
THEOREM InboundQueuesBounded == Spec => []QueuesBounded
<1>1. IInv => QueuesBounded
  BY DEF IInv, BoundInv
<1>2. QED
  BY <1>1, Invariance, PTL

\* "Handler execution is ordered per StreamID" (peer.go:127): the map, the
\* queues and the workers implement OrderedHandling.
THEOREM HandlingIsOrdered == Spec => PerStreamHandling
<1>1. Init => Handling!HInit
  BY DEF Init, Handling!HInit
<1>2. IInv /\ IInv' /\ [Next]_vars => [Handling!HNext]_(Handling!hvars)
  BY StepHandling DEF IInv
<1>3. QED
  BY <1>1, <1>2, Invariance, PTL DEF Spec, PerStreamHandling, Handling!HSpec
=============================================================================
