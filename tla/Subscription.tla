---------------------------- MODULE Subscription ----------------------------
(***************************************************************************)
(* Manager observers (pty/manager.go): emitLocked puts an event into the   *)
(* queue of every subscription under Manager.mu, finishes afterwards those *)
(* whose queue is full, and the worker of a subscription passes its queue  *)
(* to the unbuffered channel Events.  Subscription.Close and Manager.Close *)
(* also finish it.                                                         *)
(*                                                                         *)
(* An event is its number and counts as one byte (QueueLimit stands for    *)
(* ObserverQueueBytes).  Whether anybody receives from Events is up to the *)
(* environment.                                                            *)
(***************************************************************************)
EXTENDS Integers, FiniteSets, Sequences

CONSTANTS
  Observer,
  MaxObservers,
  QueueLimit

VARIABLES
  emitted,         \* events emitted so far
  observers,       \* the entries of Manager.observers
  closing,         \* Manager.closing
  canceled,        \* the Manager's context has ended
  finishing,       \* finishing[o]: the reason somebody will call finish with, or "none"
  queue, closed, reason,
  recording,       \* recording[o]: finish has still to record the closure and close Done
  worker,          \* Subscription.run: "none", "top", "sending" or "ended"
  held,            \* the event the worker holds, as a sequence
  from, got        \* the first event due, and the events received from Events

manager == <<closing, canceled>>
vars == <<emitted, observers, manager, finishing, queue, closed, reason, recording, worker, held,
          from, got>>
subscription == <<closed, reason, recording>>
delivery == <<worker, held, from, got>>

Init ==
  /\ emitted = 0 /\ observers = {} /\ closing = FALSE /\ canceled = FALSE
  /\ finishing = [o \in Observer |-> "none"]
  /\ queue = [o \in Observer |-> <<>>]
  /\ closed = [o \in Observer |-> FALSE] /\ reason = [o \in Observer |-> "none"]
  /\ recording = [o \in Observer |-> FALSE]
  /\ worker = [o \in Observer |-> "none"] /\ held = [o \in Observer |-> <<>>]
  /\ from = [o \in Observer |-> 1] /\ got = [o \in Observer |-> <<>>]

Subscribe(o) ==
  /\ worker[o] = "none" /\ ~closing /\ Cardinality(observers) < MaxObservers
  /\ observers' = observers \cup {o}
  /\ worker' = [worker EXCEPT ![o] = "top"]
  /\ from' = [from EXCEPT ![o] = emitted + 1]
  /\ UNCHANGED <<emitted, manager, finishing, queue, subscription, held, got>>

\* enqueue accepts an event for o.
Accepts(o) == ~closed[o] /\ Len(queue[o]) < QueueLimit

\* Mutant: a full subscription loses the event and stays.
EmitLossy ==
  /\ emitted' = emitted + 1
  /\ queue' = [o \in Observer |-> IF o \in observers /\ Accepts(o)
                                 THEN Append(queue[o], emitted') ELSE queue[o]]
  /\ UNCHANGED <<observers, manager, finishing, subscription, delivery>>

\* emitLocked: a subscription that cannot take the event is no longer an entry.
Emit ==
  /\ emitted' = emitted + 1
  /\ queue' = [o \in Observer |-> IF o \in observers /\ Accepts(o)
                                 THEN Append(queue[o], emitted') ELSE queue[o]]
  /\ observers' = {o \in observers : Accepts(o)}
  /\ finishing' = [o \in Observer |-> IF o \in observers /\ ~Accepts(o) THEN "queue_overflow"
                                     ELSE finishing[o]]
  /\ UNCHANGED <<manager, subscription, delivery>>

\* Subscription.Close takes the entry out before it finishes.
Close(o) ==
  /\ worker[o] # "none" /\ ~closed[o] /\ finishing[o] = "none"
  /\ observers' = observers \ {o}
  /\ finishing' = [finishing EXCEPT ![o] = "explicit"]
  /\ UNCHANGED <<emitted, manager, queue, subscription, delivery>>

\* Manager.Close takes all entries out; events emitted later reach nobody.
ManagerClose ==
  /\ ~closing /\ closing' = TRUE /\ canceled' = TRUE
  /\ observers' = {}
  /\ finishing' = [o \in Observer |-> IF o \in observers THEN "manager_closed" ELSE finishing[o]]
  /\ UNCHANGED <<emitted, queue, subscription, delivery>>

\* The parent of the Manager's context ends; NewManager then calls Close.
ContextEnds ==
  /\ ~canceled /\ canceled' = TRUE
  /\ UNCHANGED <<emitted, observers, closing, finishing, queue, subscription, delivery>>

\* The critical section of finish: queued events are discarded.
Finish(o) ==
  /\ finishing[o] # "none" /\ ~closed[o]
  /\ closed' = [closed EXCEPT ![o] = TRUE]
  /\ reason' = [reason EXCEPT ![o] = finishing[o]]
  /\ recording' = [recording EXCEPT ![o] = TRUE]
  /\ queue' = [queue EXCEPT ![o] = <<>>]
  /\ UNCHANGED <<emitted, observers, manager, finishing, delivery>>

Record(o) ==
  /\ recording[o]
  /\ recording' = [recording EXCEPT ![o] = FALSE]
  /\ UNCHANGED <<emitted, observers, manager, finishing, queue, closed, reason, delivery>>
-----------------------------------------------------------------------------
(* Subscription.run *)

Canceled(o) == closed[o] \/ canceled

\* next returns the first queued event.
WorkerTakes(o) ==
  /\ worker[o] = "top" /\ queue[o] # <<>>
  /\ held' = [held EXCEPT ![o] = <<Head(queue[o])>>]
  /\ queue' = [queue EXCEPT ![o] = Tail(@)]
  /\ worker' = [worker EXCEPT ![o] = "sending"]
  /\ UNCHANGED <<emitted, observers, manager, finishing, subscription, from, got>>

\* next finds nothing queued and the subscription closed or its context ended.
WorkerEnds(o) ==
  /\ worker[o] = "top" /\ queue[o] = <<>> /\ Canceled(o)
  /\ worker' = [worker EXCEPT ![o] = "ended"]
  /\ UNCHANGED <<emitted, observers, manager, finishing, queue, subscription, held, from, got>>

\* Somebody receives the event, even if the context has ended meanwhile.
Receive(o) ==
  /\ worker[o] = "sending"
  /\ got' = [got EXCEPT ![o] = @ \o held[o]]
  /\ held' = [held EXCEPT ![o] = <<>>]
  /\ worker' = [worker EXCEPT ![o] = "top"]
  /\ UNCHANGED <<emitted, observers, manager, finishing, queue, subscription, from>>

\* Mutant: finish does not cancel the context of the subscription.
WorkerInsists(o) ==
  /\ worker[o] = "sending" /\ canceled
  /\ worker' = [worker EXCEPT ![o] = "ended"]
  /\ UNCHANGED <<emitted, observers, manager, finishing, queue, subscription, held, from, got>>

WorkerGivesUp(o) ==
  /\ worker[o] = "sending" /\ Canceled(o)
  /\ worker' = [worker EXCEPT ![o] = "ended"]
  /\ UNCHANGED <<emitted, observers, manager, finishing, queue, subscription, held, from, got>>

\* Whoever finishes a subscription does finish it, and its worker runs; nobody
\* need ever receive from Events.
Fairness ==
  \A o \in Observer :
    /\ WF_vars(Finish(o)) /\ WF_vars(Record(o))
    /\ WF_vars(WorkerTakes(o) \/ WorkerEnds(o) \/ WorkerGivesUp(o))
=============================================================================
