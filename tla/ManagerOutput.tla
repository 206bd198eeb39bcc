--------------------------- MODULE ManagerOutput ---------------------------
(***************************************************************************)
(* What a Manager does with output (pty/manager.go): publish appends a     *)
(* chunk to the history, trims it and tells the observers, all in one      *)
(* critical section of Manager.mu, and a session that goes takes its       *)
(* history along and is announced in the same way.  History and            *)
(* Subscription are the two halves.                                        *)
(***************************************************************************)
EXTENDS Integers, FiniteSets, Sequences, Functions

CONSTANTS
  Session, HistoryBytes, MaxTotalHistoryBytes,
  Observer, MaxObservers, QueueLimit,
  MaxChunk,        \* bound on the bytes of one chunk (ReadBufferBytes)
  Bounds           \* what a behaviour may do: records [published, others, observers]

ASSUME OutputAssumption ==
  /\ IsFiniteSet(Session)
  /\ HistoryBytes \in Nat /\ MaxTotalHistoryBytes \in Nat
  /\ MaxTotalHistoryBytes # 0 => HistoryBytes <= MaxTotalHistoryBytes
  /\ MaxObservers \in Nat \ {0} /\ QueueLimit \in Nat \ {0} /\ MaxChunk \in Nat \ {0}
  /\ \A b \in Bounds : b.observers \subseteq Observer

VARIABLES
  lastSequence, history, sessionBytes, historyBytes, nextHistory, truncatedBytes, trim, current,
  emitted, observers, closing, canceled, finishing, queue, closed, reason, recording, worker,
  held, from, got,
  bound,           \* the member of Bounds
  others           \* events emitted so far that tell of no output and no removal

Histories == INSTANCE History
Subscriptions == INSTANCE Subscription
chosen == <<bound, others>>
stored == <<lastSequence, history, sessionBytes, historyBytes, nextHistory, truncatedBytes, trim,
            current>>
observed == <<emitted, observers, closing, canceled, finishing, queue, closed, reason, recording,
              worker, held, from, got>>
vars == <<stored, observed, chosen>>

Init == bound \in Bounds /\ others = 0 /\ Histories!Init /\ Subscriptions!Init

\* The step of the history that ends the critical section emits.
EmitsLast ==
  /\ IF trim' = "none" THEN Subscriptions!Emit ELSE UNCHANGED observed
  /\ UNCHANGED chosen

Publish(s, n) == nextHistory < bound.published /\ Histories!Publish(s, n) /\ EmitsLast

Trim == (Histories!TrimOwn \/ Histories!TrimTotal) /\ EmitsLast

\* finishRetainedRemoval: removeSessionLocked and EventRemoved or EventEvicted.
RemoveSession(s) == Histories!RemoveHistory(s) /\ EmitsLast

\* emitLocked for a session that starts, exits or is retained.
EmitOther ==
  /\ trim = "none" /\ others < bound.others /\ others' = others + 1
  /\ Subscriptions!Emit
  /\ UNCHANGED <<stored, bound>>

\* The steps of a subscription that take Manager.mu, and those that do not.
Locked ==
  /\ trim = "none"
  /\ \/ Subscriptions!ManagerClose
     \/ \E o \in bound.observers :
          Subscriptions!Subscribe(o) \/ Subscriptions!Close(o) \/ Subscriptions!Record(o)
  /\ UNCHANGED <<stored, chosen>>

Unlocked ==
  /\ \/ Subscriptions!ContextEnds
     \/ \E o \in bound.observers :
          \/ Subscriptions!Finish(o) \/ Subscriptions!Receive(o)
          \/ Subscriptions!WorkerTakes(o) \/ Subscriptions!WorkerEnds(o)
          \/ Subscriptions!WorkerGivesUp(o)
  /\ UNCHANGED <<stored, chosen>>

Next ==
  \/ Trim \/ EmitOther \/ Locked \/ Unlocked
  \/ \E s \in Session : RemoveSession(s) \/ \E n \in 1..MaxChunk : Publish(s, n)

Spec == Init /\ [][Next]_vars

\* The loops of a critical section run to their end.
FairSpec == Spec /\ WF_vars(Trim) /\ Subscriptions!Fairness
-----------------------------------------------------------------------------
(* Properties *)

Bytes(chunks) == SumFunction([i \in DOMAIN chunks |-> chunks[i].size])

\* Both byte counters are what the chunks add up to, and with the mutex free
\* both limits hold, after any publishes, evictions across sessions and removals.
HistoryExact ==
  /\ \A s \in Session : sessionBytes[s] = Bytes(history[s])
  /\ historyBytes = SumFunction([s \in Session |-> Bytes(history[s])])
  /\ trim = "none" => /\ historyBytes <= MaxTotalHistoryBytes
                      /\ \A s \in Session : sessionBytes[s] <= HistoryBytes

\* A client that resumes after chunk n gets the last chunks published, in order
\* and without a hole, and each of them whole, but for a chunk larger than
\* HistoryBytes, which has silently lost its first bytes.  If chunks are missing
\* before them the client can tell: by Truncated, or, when other sessions have
\* evicted all of the history and the flag stays false, by a NextLive
\* (lastSequence + 1) beyond n + 1 with nothing to replay.  If none are missing it
\* is not told so.
ReplayHonest ==
  \A s \in Session : \A n \in 0..lastSequence[s] :
    LET replay == Histories!Replay(s, n)
        missing == lastSequence[s] - n - Len(replay)
    IN /\ \A k \in 1..Len(replay) :
            /\ replay[k].sequence = n + missing + k
            /\ \/ replay[k].size = replay[k].whole
               \/ replay[k].size = HistoryBytes /\ replay[k].whole > HistoryBytes
       /\ missing > 0 <=> Histories!Truncated(s, n) \/ (replay = <<>> /\ n < lastSequence[s])

Interval(m, n) == [k \in 1..(n - m + 1) |-> m + k - 1]

\* A slow observer is cut off, never served with gaps: what it received,
\* together with what is on its way while it is observing, is every event since
\* Subscribe, and what it received is always a run without a hole.
NoGaps ==
  \A o \in Observer :
    /\ got[o] = Interval(from[o], from[o] + Len(got[o]) - 1)
    /\ o \in observers /\ worker[o] # "ended" =>
         got[o] \o held[o] \o queue[o] = Interval(from[o], emitted)

\* Closing a subscription or the Manager ends its worker, even if nobody
\* receives, so Manager.Close can join it.
WorkersEnd ==
  \A o \in Observer : worker[o] # "none" /\ (canceled \/ finishing[o] # "none") ~> worker[o] = "ended"
=============================================================================
