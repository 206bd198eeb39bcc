-------------------------- MODULE AttachmentProofs --------------------------
(***************************************************************************)
(* An attachment's sink gets the promised output without a gap or a        *)
(* repetition, for every number of attachments and chunks and every limit. *)
(***************************************************************************)
EXTENDS Attachment, TLAPS

\* Most steps are set theory, which Zenon does; a step with arithmetic cites SMT.
USE Zenon

(***************************************************************************)
(* Only the empty sequence has length zero.                                *)
(***************************************************************************)
LEMMA EmptyLen ==
  ASSUME NEW S
  PROVE  \A s \in Seq(S) : s = <<>> <=> Len(s) = 0
  BY SMT

(***************************************************************************)
(* Taking the head, as Go's queue = queue[1:] does.                        *)
(***************************************************************************)
LEMMA TailFacts ==
  ASSUME NEW S, NEW s \in Seq(S), s # <<>>
  PROVE  /\ Len(s) \in Nat \ {0} /\ Head(s) = s[1] /\ s[1] \in S
         /\ Tail(s) \in Seq(S)
         /\ Len(Tail(s)) = Len(s) - 1
         /\ \A i \in 1..Len(Tail(s)) : i + 1 \in 1..Len(s) /\ Tail(s)[i] = s[i + 1]
         /\ Tail(s) = <<>> <=> Len(s) = 1
<1>1. /\ Len(s) \in Nat \ {0} /\ Head(s) = s[1] /\ s[1] \in S
      /\ Tail(s) \in Seq(S)
      /\ Len(Tail(s)) = Len(s) - 1
      /\ \A i \in 1..Len(Tail(s)) : i + 1 \in 1..Len(s) /\ Tail(s)[i] = s[i + 1]
  BY SMT
<1>2. Tail(s) = <<>> <=> Len(Tail(s)) = 0
  BY <1>1, EmptyLen
<1>3. QED
  BY SMT, <1>1, <1>2

(***************************************************************************)
(* Adding at the end.                                                      *)
(***************************************************************************)
LEMMA AppendFacts ==
  ASSUME NEW S, NEW s \in Seq(S), NEW e \in S
  PROVE  /\ Append(s, e) \in Seq(S) /\ Append(s, e) # <<>>
         /\ Len(s) \in Nat /\ Len(Append(s, e)) = Len(s) + 1
         /\ \A i \in 1..Len(s) : Append(s, e)[i] = s[i]
         /\ Append(s, e)[Len(s) + 1] = e
<1>1. /\ Append(s, e) \in Seq(S)
      /\ Len(s) \in Nat /\ Len(Append(s, e)) = Len(s) + 1
      /\ \A i \in 1..Len(s) : Append(s, e)[i] = s[i]
      /\ Append(s, e)[Len(s) + 1] = e
  BY SMT
<1>2. Len(<<>>) = 0
  OBVIOUS
<1>3. QED
  BY SMT, <1>1, <1>2

Event == Nat \cup {Exit}

State == {"running", "draining", "retained", "removing", "removed"}

Place == {"none", "top", "sending", "exiting", "recording", "done"}

\* AttachmentCloseReason, and "none" while the attachment is open.
Reasons == {"none", "explicit", "queue_overflow", "drain_timeout", "session_removed",
            "session_exited", "manager_closed", "sink_failure"}

TypeOK ==
  /\ state \in State /\ lastSequence \in Nat
  /\ first \in Nat /\ 1 <= first /\ first <= lastSequence + 1
  /\ attachments \subseteq Attachments /\ awaited \subseteq Attachments
  /\ failing \subseteq Attachments
  /\ closing \in BOOLEAN /\ canceled \in BOOLEAN
  /\ replay \in [Attachments -> Seq(Event)] /\ queue \in [Attachments -> Seq(Event)]
  /\ active \in [Attachments -> BOOLEAN] /\ ending \in [Attachments -> BOOLEAN]
  /\ closed \in [Attachments -> BOOLEAN] /\ reason \in [Attachments -> Reasons]
  /\ recording \in [Attachments -> BOOLEAN]
  /\ worker \in [Attachments -> Place] /\ exitReason \in [Attachments -> Reasons]
  /\ from \in [Attachments -> Nat] /\ got \in [Attachments -> Seq(Event)]

Held(a) == (got[a] \o replay[a]) \o queue[a]

\* All that was promised to a.
Whole(a) ==
  IF state = "running" THEN Interval(from[a], lastSequence)
                       ELSE Append(Interval(from[a], lastSequence), Exit)

\* An open attachment has a worker and nobody has begun to finish it.  It has
\* or holds the whole output, except that one which publish has yet to finish
\* lacks the chunk it could not take.  A worker that is about to report
\* session_exited has nothing left to hand over.
Open(a) ==
  /\ worker[a] \in {"top", "sending", "exiting"}
  /\ ~recording[a] /\ reason[a] = "none"
  /\ ending[a] <=> state # "running"
  /\ a \in attachments \/ (a \in awaited /\ state = "removing") \/ (a \in failing /\ state = "running")
  /\ a \in failing => a \notin attachments /\ state = "running"
  /\ a \notin failing => Held(a) = Whole(a)
  /\ a \in failing => Held(a) = Interval(from[a], lastSequence - 1) /\ from[a] <= lastSequence
  /\ exitReason[a] = "session_exited" => ending[a] /\ ~Pending(a)

\* What has been said of an attachment stays true after it is closed.
Closed(a) ==
  reason[a] = "session_exited" =>
    state # "running" /\ got[a] = Append(Interval(from[a], lastSequence), Exit)

Good(a) == from[a] <= lastSequence + 1 /\ (closed[a] \/ Open(a)) /\ Closed(a)

DeliveryInv ==
  /\ state = "draining" => attachments \subseteq awaited
  /\ state \in {"removing", "removed"} => attachments = {}
  /\ \A a \in Attachments : Good(a)

\* The inductive invariant.
IInv == TypeOK /\ DeliveryInv
-----------------------------------------------------------------------------
(* Sequences of events *)

\* What the history holds after a number, as Attach captures it.
LEMMA IntervalFacts ==
  ASSUME NEW m \in Nat, NEW n \in Int, m <= n + 1
  PROVE  /\ Interval(m, n) \in Seq(Nat) /\ Interval(m, n) \in Seq(Event)
         /\ Len(Interval(m, n)) = n - m + 1
         /\ \A k \in 1..(n - m + 1) : Interval(m, n)[k] = m + k - 1
<1>1. n - m + 1 \in Nat
  BY SMT
<1>2. \A k \in 1..(n - m + 1) : m + k - 1 \in Nat
  BY SMT
<1>3. Interval(m, n) = [k \in 1..(n - m + 1) |-> m + k - 1]
  BY DEF Interval
<1>4. Interval(m, n) \in Seq(Nat) /\ Len(Interval(m, n)) = n - m + 1
  BY SMT, <1>1, <1>2, <1>3
<1>5. Interval(m, n) \in Seq(Event)
  BY SMT, <1>1, <1>2, <1>3 DEF Event
<1>6. QED
  BY <1>3, <1>4, <1>5

\* The next chunk extends it.
LEMMA IntervalAppend ==
  ASSUME NEW m \in Nat, NEW n \in Int, m <= n + 1
  PROVE  Append(Interval(m, n), n + 1) = Interval(m, n + 1)
<1>1. /\ Interval(m, n) \in Seq(Nat) /\ Len(Interval(m, n)) = n - m + 1
      /\ \A k \in 1..(n - m + 1) : Interval(m, n)[k] = m + k - 1
  BY IntervalFacts
<1>2. /\ Interval(m, n + 1) \in Seq(Nat) /\ Len(Interval(m, n + 1)) = n + 1 - m + 1
      /\ \A k \in 1..(n + 1 - m + 1) : Interval(m, n + 1)[k] = m + k - 1
  <2>1. m <= (n + 1) + 1 /\ n + 1 \in Int
    BY SMT
  <2>2. QED
    BY SMT, <2>1, IntervalFacts
<1>3. n + 1 \in Nat /\ n - m + 1 \in Nat
  BY SMT
<1> DEFINE s == Append(Interval(m, n), n + 1)
<1>4. /\ s \in Seq(Nat) /\ Len(s) = n - m + 2
      /\ \A k \in 1..(n - m + 1) : s[k] = m + k - 1
      /\ s[n - m + 2] = n + 1
  BY SMT, <1>1, <1>3
<1>5. \A k \in 1..(n - m + 2) : s[k] = m + k - 1
  BY SMTT(30), <1>3, <1>4
<1>6. Len(Interval(m, n + 1)) = n - m + 2
  BY SMT, <1>2, <1>3
<1> HIDE DEF s
<1>7. \A k \in 1..(n - m + 2) : s[k] = Interval(m, n + 1)[k]
  BY <1>2, <1>5, <1>6
<1>8. s = Interval(m, n + 1)
  BY SMT, <1>2, <1>4, <1>6, <1>7
<1>9. QED
  BY <1>8 DEF s

\* enqueueLocked adds at the end of what the attachment has and holds.
LEMMA HeldAppend ==
  ASSUME NEW g \in Seq(Event), NEW r \in Seq(Event), NEW q \in Seq(Event), NEW e \in Event
  PROVE  (g \o r) \o Append(q, e) = Append((g \o r) \o q, e)
<1>1. g \o r \in Seq(Event)
  BY SMT
<1>2. QED
  BY SMT, <1>1

\* The worker hands over the first event of the replay, or of the queue once
\* the replay is empty: the next event of what the attachment has and holds.
LEMMA TakeReplay ==
  ASSUME NEW g \in Seq(Event), NEW r \in Seq(Event), NEW q \in Seq(Event), r # <<>>
  PROVE  /\ (Append(g, Head(r)) \o Tail(r)) \o q = (g \o r) \o q
         /\ Head(r) \in Event /\ Tail(r) \in Seq(Event)
         /\ ((g \o r) \o q)[Len(g) + 1] = Head(r)
         /\ Len(g) + 1 <= Len((g \o r) \o q)
<1>1. /\ Len(r) \in Nat \ {0} /\ Head(r) = r[1] /\ r[1] \in Event /\ Tail(r) \in Seq(Event)
      /\ Len(Tail(r)) = Len(r) - 1
      /\ \A i \in 1..Len(Tail(r)) : i + 1 \in 1..Len(r) /\ Tail(r)[i] = r[i + 1]
  BY TailFacts
<1>2. Append(g, Head(r)) \o Tail(r) = g \o r
  BY SMT, <1>1
<1>3. /\ g \o r \in Seq(Event) /\ Len(g \o r) = Len(g) + Len(r) /\ (g \o r)[Len(g) + 1] = r[1]
  BY SMT, <1>1
<1>4. QED
  BY SMTT(30), <1>1, <1>2, <1>3

LEMMA TakeQueue ==
  ASSUME NEW g \in Seq(Event), NEW q \in Seq(Event), q # <<>>
  PROVE  /\ (Append(g, Head(q)) \o <<>>) \o Tail(q) = (g \o <<>>) \o q
         /\ Head(q) \in Event /\ Tail(q) \in Seq(Event)
         /\ ((g \o <<>>) \o q)[Len(g) + 1] = Head(q)
         /\ Len(g) + 1 <= Len((g \o <<>>) \o q)
<1>1. /\ Len(q) \in Nat \ {0} /\ Head(q) = q[1] /\ q[1] \in Event /\ Tail(q) \in Seq(Event)
      /\ Len(Tail(q)) = Len(q) - 1
      /\ \A i \in 1..Len(Tail(q)) : i + 1 \in 1..Len(q) /\ Tail(q)[i] = q[i + 1]
  BY TailFacts
<1>2. Append(g, Head(q)) \o <<>> = Append(g, Head(q)) /\ g \o <<>> = g
  BY SMT, <1>1
<1>3. Append(g, Head(q)) \o Tail(q) = g \o q
  BY SMT, <1>1
<1>4. (g \o q)[Len(g) + 1] = q[1] /\ Len(g) + 1 <= Len(g \o q)
  BY SMT, <1>1
<1>5. QED
  BY <1>1, <1>2, <1>3, <1>4
-----------------------------------------------------------------------------
(* Types *)

USE DEF session, content, ended, work, vars, SetWorker

LEMMA FinishTypes ==
  ASSUME TypeOK, NEW a \in Attachments, NEW why \in Reasons, Finish(a, why)
  PROVE  /\ replay' \in [Attachments -> Seq(Event)] /\ queue' \in [Attachments -> Seq(Event)]
         /\ active' \in [Attachments -> BOOLEAN] /\ ending' \in [Attachments -> BOOLEAN]
         /\ closed' \in [Attachments -> BOOLEAN] /\ reason' \in [Attachments -> Reasons]
         /\ recording' \in [Attachments -> BOOLEAN]
         /\ from' \in [Attachments -> Nat] /\ got' \in [Attachments -> Seq(Event)]
<1>1. <<>> \in Seq(Event)
  BY SMT
<1>2. replay' \in [Attachments -> Seq(Event)] /\ queue' \in [Attachments -> Seq(Event)]
  BY <1>1 DEF TypeOK, Finish
<1>3. QED
  BY <1>2 DEF TypeOK, Finish

\* Every action keeps the types, and the history inside what was published.
LEMMA StepTypes == TypeOK /\ [Next]_vars => TypeOK'
<1> SUFFICES ASSUME TypeOK, [Next]_vars PROVE TypeOK'
  OBVIOUS
<1> USE AttachmentAssumption
<1>1. CASE UNCHANGED vars
  BY <1>1 DEF TypeOK
<1>2. CASE Publish
  <2>1. lastSequence' \in Nat /\ first' \in Nat /\ 1 <= first' /\ first' <= lastSequence' + 1
    BY SMT, <1>2 DEF Publish, TypeOK
  <2>2. \A a \in Attachments : Append(queue[a], lastSequence') \in Seq(Event)
    BY SMT, <2>1 DEF TypeOK, Event
  <2>3. queue' \in [Attachments -> Seq(Event)]
    BY <1>2, <2>2 DEF Publish, TypeOK
  <2>4. attachments' \subseteq Attachments /\ failing' \subseteq Attachments
    BY <1>2 DEF Publish, TypeOK
  <2>5. QED
    BY <1>2, <2>1, <2>3, <2>4 DEF Publish, TypeOK
<1>3. CASE DropFirst
  BY SMT, <1>3 DEF DropFirst, TypeOK
<1>4. CASE ProcessExit
  <2> DEFINE told == {a \in attachments : ~closed[a]}
  <2>1. \A a \in Attachments : Append(queue[a], Exit) \in Seq(Event)
    BY SMT DEF TypeOK, Event
  <2>2. queue' = [a \in Attachments |-> IF a \in told THEN Append(queue[a], Exit) ELSE queue[a]]
    BY <1>4 DEF ProcessExit
  <2>3. queue' \in [Attachments -> Seq(Event)]
    BY <2>1, <2>2 DEF TypeOK
  <2>4. ending' = [a \in Attachments |-> a \in told \/ ending[a]]
    BY <1>4 DEF ProcessExit
  <2>5. ending' \in [Attachments -> BOOLEAN]
    BY <2>4 DEF TypeOK
  <2>6. QED
    BY <1>4, <2>3, <2>5 DEF ProcessExit, TypeOK, State
<1>5. CASE Drained
  BY SMT, <1>5 DEF Drained, TypeOK, State
<1>6. CASE Remove
  BY <1>6 DEF Remove, TypeOK, State
<1>7. CASE Removed
  BY SMT, <1>7 DEF Removed, TypeOK, State
<1>8. CASE ManagerClose
  BY <1>8 DEF ManagerClose, TypeOK
<1>9. CASE ContextEnds
  BY <1>9 DEF ContextEnds, TypeOK
<1>10. ASSUME NEW a \in Attachments, NEW n \in 0..MaxOutput, NEW p \in BOOLEAN, Attach(a, n, p)
       PROVE  TypeOK'
  <2> DEFINE start == Larger(first, n + 1)
  <2>1. start \in Nat /\ start <= lastSequence + 1
    BY SMT, <1>10 DEF Attach, Larger, TypeOK
  <2>2. AttachFrom(a, start, p)
    BY <1>10 DEF Attach
  <2> HIDE DEF start
  <2>3. Interval(start, lastSequence) \in Seq(Event)
    BY SMT, <2>1, IntervalFacts DEF TypeOK
  <2>4. replay' \in [Attachments -> Seq(Event)]
    BY <2>2, <2>3 DEF AttachFrom, TypeOK
  <2>5. <<Exit>> \in Seq(Event) /\ <<>> \in Seq(Event)
    BY SMT DEF Event
  <2>6. queue' \in [Attachments -> Seq(Event)] /\ got' \in [Attachments -> Seq(Event)]
    BY <2>2, <2>5 DEF AttachFrom, TypeOK
  <2>7. ending' \in [Attachments -> BOOLEAN] /\ active' \in [Attachments -> BOOLEAN]
    BY <2>2 DEF AttachFrom, TypeOK
  <2>8. closed' \in [Attachments -> BOOLEAN] /\ reason' \in [Attachments -> Reasons]
    BY <2>2 DEF AttachFrom, TypeOK, Reasons
  <2>9. worker' \in [Attachments -> Place] /\ exitReason' \in [Attachments -> Reasons]
    BY <2>2 DEF AttachFrom, TypeOK, Place, Reasons
  <2>10. from' \in [Attachments -> Nat] /\ attachments' \subseteq Attachments
    BY <2>1, <2>2 DEF AttachFrom, TypeOK
  <2>11. QED
    BY <2>2, <2>4, <2>6, <2>7, <2>8, <2>9, <2>10 DEF AttachFrom, TypeOK
<1>11. ASSUME NEW a \in Attachments, Activate(a) PROVE TypeOK'
  BY <1>11 DEF Activate, TypeOK
<1>12. ASSUME NEW a \in Attachments, Close(a) PROVE TypeOK'
  <2>1. Finish(a, "explicit") /\ "explicit" \in Reasons /\ UNCHANGED <<session, work>>
    BY <1>12 DEF Close, Reasons
  <2>2. QED
    BY <2>1, FinishTypes DEF TypeOK
<1>13. ASSUME NEW a \in Attachments, FinishFailing(a) PROVE TypeOK'
  <2>1. "queue_overflow" \in Reasons /\ failing' \subseteq Attachments
    BY <1>13 DEF FinishFailing, TypeOK, Reasons
  <2>2. CASE closed[a]
    BY <1>13, <2>1, <2>2 DEF FinishFailing, TypeOK
  <2>3. CASE ~closed[a]
    <3>1. Finish(a, "queue_overflow")
      BY <1>13, <2>3 DEF FinishFailing
    <3>2. QED
      BY <1>13, <2>1, <3>1, FinishTypes DEF FinishFailing, TypeOK
  <2>4. QED
    BY <2>2, <2>3
<1>14. ASSUME NEW a \in Attachments, DrainTimeout(a) PROVE TypeOK'
  <2>1. Finish(a, "drain_timeout") /\ "drain_timeout" \in Reasons /\ UNCHANGED <<session, work>>
    BY <1>14 DEF DrainTimeout, Reasons
  <2>2. QED
    BY <2>1, FinishTypes DEF TypeOK
<1>15. ASSUME NEW a \in Attachments, FinishRemoved(a) PROVE TypeOK'
  <2>1. Finish(a, "session_removed") /\ "session_removed" \in Reasons /\ UNCHANGED <<session, work>>
    BY <1>15 DEF FinishRemoved, Reasons
  <2>2. QED
    BY <2>1, FinishTypes DEF TypeOK
<1>16. ASSUME NEW a \in Attachments, Record(a) PROVE TypeOK'
  BY <1>16 DEF Record, TypeOK, Place
<1>17. ASSUME NEW a \in Attachments, WorkerSeesClosed(a) PROVE TypeOK'
  BY <1>17 DEF WorkerSeesClosed, TypeOK, Place
<1>18. ASSUME NEW a \in Attachments, WorkerDrained(a) PROVE TypeOK'
  BY <1>18 DEF WorkerDrained, TypeOK, Place, Reasons
<1>19. ASSUME NEW a \in Attachments, WorkerCanceled(a) PROVE TypeOK'
  BY <1>19 DEF WorkerCanceled, TypeOK, Place, Reasons
<1>20. ASSUME NEW a \in Attachments, WorkerTakes(a) PROVE TypeOK'
  <2>1. replay[a] \in Seq(Event) /\ queue[a] \in Seq(Event) /\ got[a] \in Seq(Event)
    BY DEF TypeOK
  <2>2. CASE replay[a] # <<>>
    <3>1. Append(got[a], Head(replay[a])) \in Seq(Event) /\ Tail(replay[a]) \in Seq(Event)
      BY SMT, <2>1, <2>2, TakeReplay
    <3>2. QED
      BY ZenonT(30), <1>20, <2>2, <3>1 DEF WorkerTakes, TypeOK, Place
  <2>3. CASE replay[a] = <<>>
    <3>1. queue[a] # <<>>
      BY <1>20, <2>3 DEF WorkerTakes, Pending
    <3>2. Append(got[a], Head(queue[a])) \in Seq(Event) /\ Tail(queue[a]) \in Seq(Event)
      BY SMT, <2>1, <3>1, TakeQueue
    <3>3. /\ got' = [got EXCEPT ![a] = Append(got[a], Head(queue[a]))]
          /\ queue' = [queue EXCEPT ![a] = Tail(queue[a])] /\ replay' = replay
      BY <1>20, <2>3 DEF WorkerTakes
    <3>4. got' \in [Attachments -> Seq(Event)] /\ queue' \in [Attachments -> Seq(Event)]
      BY <3>2, <3>3 DEF TypeOK
    <3>5. QED
      BY <1>20, <3>3, <3>4 DEF WorkerTakes, TypeOK, Place
  <2>4. QED
    BY <2>2, <2>3
<1>21. ASSUME NEW a \in Attachments, SendReturns(a) PROVE TypeOK'
  BY <1>21 DEF SendReturns, TypeOK, Place
<1>22. ASSUME NEW a \in Attachments, SendFails(a) PROVE TypeOK'
  <2>1. worker' \in [Attachments -> Place] /\ exitReason' \in [Attachments -> Reasons]
    BY <1>22 DEF SendFails, TypeOK, Place, Reasons
  <2>2. QED
    BY <1>22, <2>1 DEF SendFails, TypeOK
<1>23. ASSUME NEW a \in Attachments, WorkerFinishes(a) PROVE TypeOK'
  <2>1. exitReason[a] \in Reasons
    BY DEF TypeOK
  <2>2. worker' \in [Attachments -> Place]
    BY <1>23 DEF WorkerFinishes, TypeOK, Place
  <2>3. CASE closed[a]
    BY <1>23, <2>2, <2>3 DEF WorkerFinishes, TypeOK
  <2>4. CASE ~closed[a]
    <3>1. Finish(a, exitReason[a])
      BY <1>23, <2>4 DEF WorkerFinishes
    <3>2. QED
      BY <1>23, <2>1, <2>2, <3>1, FinishTypes DEF WorkerFinishes, TypeOK
  <2>5. QED
    BY <2>3, <2>4
<1>24. QED
  BY <1>1, <1>2, <1>3, <1>4, <1>5, <1>6, <1>7, <1>8, <1>9, <1>10, <1>11, <1>12, <1>13, <1>14,
     <1>15, <1>16, <1>17, <1>18, <1>19, <1>20, <1>21, <1>22, <1>23 DEF Next, Working
-----------------------------------------------------------------------------
(* What an attachment has and holds *)

\* A step that leaves b and its place in the session alone.
LEMMA Untouched ==
  ASSUME TypeOK, NEW b \in Attachments, Good(b),
         UNCHANGED <<state, lastSequence, closed[b], reason[b], recording[b], replay[b], queue[b],
                     ending[b], worker[b], exitReason[b], from[b], got[b]>>,
         b \in attachments' <=> b \in attachments,
         b \in awaited' <=> b \in awaited,
         b \in failing' <=> b \in failing
  PROVE  Good(b)'
<1>1. UNCHANGED <<Held(b), Whole(b), Pending(b)>>
  BY DEF Held, Whole, Pending
<1>2. (closed[b] \/ Open(b))'
  BY <1>1 DEF Good, Open
<1>3. QED
  BY <1>2 DEF Good, Closed

\* The first finish of an attachment.  If the worker gives session_exited for
\* the reason, nothing was left to hand over.
LEMMA FinishGood ==
  ASSUME TypeOK, NEW a \in Attachments, Good(a), NEW why \in Reasons, Finish(a, why),
         why = "session_exited" => exitReason[a] = "session_exited",
         UNCHANGED <<state, lastSequence>>
  PROVE  Good(a)'
<1>1. /\ closed'[a] = TRUE /\ reason'[a] = why /\ from' = from /\ got' = got /\ ~closed[a]
  BY DEF Finish, TypeOK
<1>2. Open(a)
  BY <1>1 DEF Good
<1>3. ASSUME why = "session_exited"
      PROVE  state # "running" /\ got[a] = Append(Interval(from[a], lastSequence), Exit)
  <2>1. ending[a] /\ ~Pending(a) /\ state # "running"
    BY <1>2, <1>3 DEF Open
  <2>2. a \notin failing /\ Held(a) = Whole(a)
    BY <1>2, <2>1 DEF Open
  <2>3. replay[a] = <<>> /\ queue[a] = <<>>
    BY <2>1 DEF Pending
  <2>4. Held(a) = got[a]
    BY SMT, <2>3 DEF Held, TypeOK
  <2>5. QED
    BY <2>1, <2>2, <2>4 DEF Whole
<1>4. Closed(a)'
  BY <1>1, <1>3 DEF Closed
<1>5. QED
  BY <1>1, <1>4 DEF Good

\* Finish changes nothing of another attachment.
LEMMA FinishOthers ==
  ASSUME TypeOK, NEW a \in Attachments, NEW why, Finish(a, why), NEW b \in Attachments, b # a
  PROVE  UNCHANGED <<closed[b], reason[b], recording[b], replay[b], queue[b], ending[b], from[b],
                     got[b]>>
  BY DEF Finish, TypeOK

LEMMA InitInv == Init => IInv
<1> SUFFICES ASSUME Init PROVE IInv
  OBVIOUS
<1>1. <<>> \in Seq(Event)
  BY SMT
<1>2. TypeOK
  <2>1. /\ replay \in [Attachments -> Seq(Event)] /\ queue \in [Attachments -> Seq(Event)]
        /\ got \in [Attachments -> Seq(Event)]
    BY <1>1 DEF Init
  <2>2. /\ worker \in [Attachments -> Place] /\ exitReason \in [Attachments -> Reasons]
        /\ reason \in [Attachments -> Reasons]
    BY DEF Init, Place, Reasons
  <2>3. /\ active \in [Attachments -> BOOLEAN] /\ ending \in [Attachments -> BOOLEAN]
        /\ closed \in [Attachments -> BOOLEAN] /\ recording \in [Attachments -> BOOLEAN]
        /\ from \in [Attachments -> Nat]
    BY DEF Init
  <2>4. /\ state \in State /\ lastSequence \in Nat /\ first \in Nat /\ 1 <= first
        /\ first <= lastSequence + 1
    BY SMT DEF Init, State
  <2>5. /\ attachments = {} /\ awaited = {} /\ failing = {}
        /\ closing \in BOOLEAN /\ canceled \in BOOLEAN
    BY DEF Init
  <2>6. QED
    BY <2>1, <2>2, <2>3, <2>4, <2>5 DEF TypeOK
<1>3. QED
  BY SMT, <1>2 DEF Init, IInv, DeliveryInv, Good, Closed

\* The session's own steps: publish, exit, the end of the drain and removal.
LEMMA SessionStep ==
  ASSUME IInv, TypeOK',
         Publish \/ DropFirst \/ ProcessExit \/ Drained \/ Remove \/ Removed \/ ManagerClose \/ ContextEnds
  PROVE  DeliveryInv'
<1> USE AttachmentAssumption DEF IInv
<1>1. CASE Publish
  <2>1. state = "running" /\ failing = {} /\ state' = state
    BY <1>1 DEF Publish
  <2>2. ASSUME NEW b \in Attachments PROVE Good(b)'
    <3>1. from[b] <= lastSequence + 1 /\ Closed(b) /\ (closed[b] \/ Open(b))
      BY DEF DeliveryInv, Good
    <3>2. from[b] \in Nat /\ lastSequence \in Nat /\ lastSequence' = lastSequence + 1 /\ from' = from
      BY <1>1 DEF TypeOK, Publish
    <3>3. Closed(b)'
      BY <1>1, <2>1, <3>1 DEF Closed, Publish
    <3>4. ASSUME ~closed[b] PROVE Open(b)'
      <4>1. Open(b)
        BY <3>1, <3>4
      <4>2. b \in attachments /\ Held(b) = Interval(from[b], lastSequence) /\ ~ending[b]
        BY <2>1, <4>1 DEF Open, Whole
      <4>3. UNCHANGED <<got, replay, ending, closed, reason, recording, worker, exitReason, awaited>>
        BY <1>1 DEF Publish
      <4>4. exitReason[b] # "session_exited"
        BY <4>1, <4>2 DEF Open
      <4>5. CASE Accepts(b)
        <5>1. queue'[b] = Append(queue[b], lastSequence + 1) /\ b \in attachments' /\ b \notin failing'
          BY <1>1, <3>2, <4>2, <4>5 DEF Publish
        <5>2. Held(b)' = Append(Held(b), lastSequence + 1)
          <6>1. /\ got[b] \in Seq(Event) /\ replay[b] \in Seq(Event) /\ queue[b] \in Seq(Event)
                /\ lastSequence + 1 \in Event
            BY SMTT(30) DEF TypeOK, Event
          <6>2. Held(b)' = (got[b] \o replay[b]) \o Append(queue[b], lastSequence + 1)
            BY <4>3, <5>1 DEF Held
          <6>3. \A e \in Event : (got[b] \o replay[b]) \o Append(queue[b], e)
                                  = Append((got[b] \o replay[b]) \o queue[b], e)
            BY ZenonT(30), <6>1, HeldAppend
          <6>4. QED
            BY <6>1, <6>2, <6>3 DEF Held
        <5>3. Append(Interval(from[b], lastSequence), lastSequence + 1)
                = Interval(from[b], lastSequence + 1)
          <6>1. from[b] \in Nat /\ lastSequence \in Int /\ from[b] <= lastSequence + 1
            BY SMT, <3>1, <3>2
          <6>2. QED
            BY <6>1, IntervalAppend
        <5>4. Held(b)' = Whole(b)'
          BY <2>1, <3>2, <4>2, <5>2, <5>3 DEF Whole
        <5>5. QED
          BY <2>1, <4>1, <4>2, <4>3, <4>4, <5>1, <5>4 DEF Open
      <4>6. CASE ~Accepts(b)
        <5>1. queue'[b] = queue[b] /\ b \notin attachments' /\ b \in failing'
          BY <1>1, <4>2, <4>6 DEF Publish
        <5>2. Held(b)' = Held(b)
          BY <4>3, <5>1 DEF Held
        <5>3. Held(b)' = Interval(from[b]', lastSequence' - 1) /\ from'[b] <= lastSequence'
          BY SMT, <3>1, <3>2, <4>2, <5>2
        <5>4. QED
          BY <2>1, <4>1, <4>2, <4>3, <4>4, <5>1, <5>3 DEF Open
      <4>7. QED
        BY <4>5, <4>6
    <3>5. closed'[b] = closed[b]
      BY <1>1 DEF Publish
    <3>6. QED
      BY SMT, <3>1, <3>2, <3>3, <3>4, <3>5 DEF Good
  <2>3. QED
    BY <2>1, <2>2 DEF DeliveryInv
<1>2. CASE DropFirst \/ ManagerClose \/ ContextEnds
  <2>1. UNCHANGED <<state, lastSequence, attachments, awaited, failing, content, ended, work, from, got>>
    BY <1>2 DEF DropFirst, ManagerClose, ContextEnds
  <2>2. \A b \in Attachments : Good(b)'
    BY <2>1, Untouched DEF DeliveryInv
  <2>3. QED
    BY <2>1, <2>2 DEF DeliveryInv
<1>3. CASE ProcessExit
  <2>1. state = "running" /\ failing = {} /\ state' = "draining" /\ awaited' = attachments'
    BY <1>3 DEF ProcessExit
  <2>2. ASSUME NEW b \in Attachments PROVE Good(b)'
    <3>1. from[b] <= lastSequence + 1 /\ Closed(b) /\ (closed[b] \/ Open(b))
      BY DEF DeliveryInv, Good
    <3>2. UNCHANGED <<lastSequence, from, got, reason, closed, replay, recording, worker, exitReason,
                      attachments>>
      BY <1>3 DEF ProcessExit
    <3>3. Closed(b)'
      BY <2>1, <3>1, <3>2 DEF Closed
    <3>4. ASSUME ~closed[b] PROVE Open(b)'
      <4>1. Open(b)
        BY <3>1, <3>4
      <4>2. b \in attachments /\ Held(b) = Interval(from[b], lastSequence) /\ ~ending[b]
        BY <2>1, <4>1 DEF Open, Whole
      <4>3. queue'[b] = Append(queue[b], Exit) /\ ending'[b] = TRUE /\ b \notin failing'
        BY <1>3, <3>4, <4>2 DEF ProcessExit
      <4>4. exitReason[b] # "session_exited"
        BY <4>1, <4>2 DEF Open
      <4>5. Held(b)' = Append(Held(b), Exit)
        <5>1. /\ got[b] \in Seq(Event) /\ replay[b] \in Seq(Event) /\ queue[b] \in Seq(Event)
              /\ Exit \in Event
          BY DEF TypeOK, Event
        <5>2. Held(b)' = (got[b] \o replay[b]) \o Append(queue[b], Exit)
          BY <3>2, <4>3 DEF Held
        <5>3. \A e \in Event : (got[b] \o replay[b]) \o Append(queue[b], e)
                                = Append((got[b] \o replay[b]) \o queue[b], e)
          BY ZenonT(30), <5>1, HeldAppend
        <5>4. QED
          BY <5>1, <5>2, <5>3 DEF Held
      <4>6. Held(b)' = Whole(b)'
        BY <2>1, <3>2, <4>2, <4>5 DEF Whole
      <4>7. QED
        BY <2>1, <3>2, <4>1, <4>2, <4>3, <4>4, <4>6 DEF Open
    <3>5. QED
      BY <3>1, <3>2, <3>3, <3>4 DEF Good
  <2>3. QED
    BY <2>1, <2>2 DEF DeliveryInv
<1>4. CASE Drained \/ Removed
  <2>1. /\ state \in {"draining", "removing"} /\ \A a \in awaited : worker[a] = "done"
        /\ state' \in {"retained", "removed"} /\ attachments' = {}
        /\ UNCHANGED <<lastSequence, content, ended, work, from, got>>
    BY <1>4 DEF Drained, Removed, DeliveryInv
  <2>2. ASSUME NEW b \in Attachments PROVE Good(b)'
    <3>1. closed[b]
      <4>1. ASSUME Open(b) PROVE FALSE
        <5>1. b \in awaited
          BY <2>1, <4>1 DEF Open, DeliveryInv
        <5>2. QED
          BY <2>1, <4>1, <5>1 DEF Open
      <4>2. QED
        BY <4>1 DEF DeliveryInv, Good
    <3>2. from[b] <= lastSequence + 1 /\ Closed(b)
      BY DEF DeliveryInv, Good
    <3>3. QED
      BY <2>1, <3>1, <3>2 DEF Good, Closed
  <2>3. QED
    BY <2>1, <2>2 DEF DeliveryInv
<1>5. CASE Remove
  <2>1. /\ state = "retained" /\ state' = "removing" /\ attachments' = {} /\ awaited' = attachments
        /\ UNCHANGED <<lastSequence, failing, content, ended, work, from, got>>
    BY <1>5 DEF Remove
  <2>2. ASSUME NEW b \in Attachments PROVE Good(b)'
    <3>1. Good(b)
      BY DEF DeliveryInv
    <3>2. UNCHANGED <<Held(b), Whole(b), Pending(b)>>
      BY <2>1 DEF Held, Whole, Pending
    <3>3. ASSUME Open(b) PROVE Open(b)'
      BY <2>1, <3>2, <3>3 DEF Open
    <3>4. QED
      BY <2>1, <3>1, <3>3 DEF Good, Closed
  <2>3. QED
    BY <2>1, <2>2 DEF DeliveryInv
<1>6. QED
  BY <1>1, <1>2, <1>3, <1>4, <1>5

\* Attach captures the history up to now and joins the live output.
LEMMA AttachStep ==
  ASSUME IInv, TypeOK', NEW a \in Attachments, NEW n \in Nat, NEW p, Attach(a, n, p)
  PROVE  DeliveryInv'
<1> USE AttachmentAssumption DEF IInv
<1> DEFINE start == Larger(first, n + 1)
<1>1. start \in Nat /\ start <= lastSequence + 1 /\ lastSequence \in Nat
  BY SMTT(30) DEF Attach, Larger, TypeOK
<1>2. AttachFrom(a, start, p)
  BY DEF Attach
<1> HIDE DEF start
<1>3. /\ state \in {"running", "retained"} /\ a \notin failing
      /\ UNCHANGED <<state, lastSequence, awaited, failing, recording>>
      /\ attachments' = attachments \cup {a} /\ ~recording[a]
  BY <1>2 DEF AttachFrom, Unused
<1>4. ASSUME NEW b \in Attachments, b # a PROVE Good(b)'
  <2>1. UNCHANGED <<closed[b], reason[b], replay[b], queue[b], ending[b], worker[b], exitReason[b],
                    from[b], got[b]>>
    BY SMT, <1>2, <1>4 DEF AttachFrom, TypeOK
  <2>2. QED
    BY <1>3, <1>4, <2>1, Untouched DEF DeliveryInv
<1>5. Good(a)'
  <2>1. /\ closed'[a] = FALSE /\ reason'[a] = "none" /\ worker'[a] = "top" /\ exitReason'[a] = "none"
    BY <1>2 DEF AttachFrom, TypeOK
  <2>2. /\ replay'[a] = Interval(start, lastSequence) /\ got'[a] = <<>> /\ from'[a] = start
        /\ queue'[a] = (IF state = "retained" THEN <<Exit>> ELSE <<>>)
        /\ ending'[a] = (state = "retained")
    BY <1>2 DEF AttachFrom, TypeOK
  <2>3. Interval(start, lastSequence) \in Seq(Event) /\ Exit \in Event
    <3>1. Interval(start, lastSequence) \in Seq(Event)
      BY SMT, <1>1, IntervalFacts
    <3>2. QED
      BY <3>1 DEF Event
  <2>4. Held(a)' = Whole(a)'
    <3>1. <<>> \o Interval(start, lastSequence) = Interval(start, lastSequence)
      BY SMT, <2>3
    <3>2. Held(a)' = Interval(start, lastSequence) \o queue'[a]
      BY <2>2, <3>1 DEF Held
    <3>3. CASE state = "running"
      BY SMT, <1>3, <2>2, <2>3, <3>2, <3>3 DEF Whole
    <3>4. CASE state = "retained"
      <4>1. Interval(start, lastSequence) \o <<Exit>> = Append(Interval(start, lastSequence), Exit)
        BY SMT, <2>3
      <4>2. QED
        BY <1>3, <2>2, <3>2, <3>4, <4>1 DEF Whole
    <3>5. QED
      BY <1>3, <3>3, <3>4
  <2>5. Open(a)'
    BY <1>3, <2>1, <2>2, <2>4 DEF Open
  <2>6. QED
    BY <1>1, <1>3, <2>1, <2>2, <2>5 DEF Good, Closed
<1>6. QED
  BY <1>3, <1>4, <1>5 DEF DeliveryInv

\* Handing over an event loses nothing.
LEMMA TakesKeepsHeld ==
  ASSUME TypeOK, NEW a \in Attachments, WorkerTakes(a)
  PROVE  /\ Held(a)' = Held(a)
         /\ Len(got[a]) + 1 <= Len(Held(a))
         /\ got' = [got EXCEPT ![a] = Append(got[a], Held(a)[Len(got[a]) + 1])]
<1>1. replay[a] \in Seq(Event) /\ queue[a] \in Seq(Event) /\ got[a] \in Seq(Event)
  BY DEF TypeOK
<1>2. CASE replay[a] # <<>>
  <2>1. /\ got' = [got EXCEPT ![a] = Append(got[a], Head(replay[a]))]
        /\ replay' = [replay EXCEPT ![a] = Tail(replay[a])] /\ queue' = queue
    BY <1>2 DEF WorkerTakes
  <2>2. got'[a] = Append(got[a], Head(replay[a])) /\ replay'[a] = Tail(replay[a])
    BY <2>1 DEF TypeOK
  <2>3. /\ (Append(got[a], Head(replay[a])) \o Tail(replay[a])) \o queue[a]
             = (got[a] \o replay[a]) \o queue[a]
        /\ ((got[a] \o replay[a]) \o queue[a])[Len(got[a]) + 1] = Head(replay[a])
        /\ Len(got[a]) + 1 <= Len((got[a] \o replay[a]) \o queue[a])
    BY ZenonT(30), <1>1, <1>2, TakeReplay
  <2>4. Held(a)' = Held(a)
    BY <2>1, <2>2, <2>3 DEF Held
  <2>5. QED
    BY <2>1, <2>3, <2>4 DEF Held
<1>3. CASE replay[a] = <<>>
  <2>1. queue[a] # <<>>
    BY <1>3 DEF WorkerTakes, Pending
  <2>2. /\ got' = [got EXCEPT ![a] = Append(got[a], Head(queue[a]))]
        /\ queue' = [queue EXCEPT ![a] = Tail(queue[a])] /\ replay' = replay
    BY <1>3 DEF WorkerTakes
  <2>3. got'[a] = Append(got[a], Head(queue[a])) /\ queue'[a] = Tail(queue[a])
    BY <2>2 DEF TypeOK
  <2>4. /\ (Append(got[a], Head(queue[a])) \o <<>>) \o Tail(queue[a]) = (got[a] \o <<>>) \o queue[a]
        /\ ((got[a] \o <<>>) \o queue[a])[Len(got[a]) + 1] = Head(queue[a])
        /\ Len(got[a]) + 1 <= Len((got[a] \o <<>>) \o queue[a])
    BY <1>1, <2>1, TakeQueue
  <2>5. Held(a) = (got[a] \o <<>>) \o queue[a]
    BY <1>3 DEF Held
  <2>6. Held(a)' = Held(a)
    BY <1>3, <2>2, <2>3, <2>4, <2>5 DEF Held
  <2>7. QED
    BY <2>2, <2>4, <2>5, <2>6
<1>4. QED
  BY <1>2, <1>3

\* A step of the worker of a.
LEMMA WorkerStep ==
  ASSUME IInv, TypeOK', NEW a \in Attachments, Working(a)
  PROVE  DeliveryInv'
<1> USE DEF IInv
<1>1. \A b \in Attachments : Good(b)
  BY DEF DeliveryInv
<1>2. UNCHANGED session
  BY DEF Working, WorkerSeesClosed, WorkerDrained, WorkerCanceled, WorkerTakes, SendReturns,
         SendFails, WorkerFinishes
<1>3. ASSUME NEW b \in Attachments, b # a PROVE Good(b)'
  <2>1. UNCHANGED <<closed[b], reason[b], recording[b], replay[b], queue[b], ending[b], worker[b],
                    exitReason[b], from[b], got[b]>>
    <3>1. CASE WorkerTakes(a)
      BY SMTT(30), <1>3, <3>1 DEF WorkerTakes, TypeOK
    <3>2. CASE WorkerFinishes(a)
      <4>1. worker'[b] = worker[b] /\ exitReason' = exitReason
        BY <1>3, <3>2 DEF WorkerFinishes, TypeOK
      <4>2. CASE closed[a]
        BY <3>2, <4>1, <4>2 DEF WorkerFinishes
      <4>3. CASE ~closed[a]
        <5>1. Finish(a, exitReason[a])
          BY <3>2, <4>3 DEF WorkerFinishes
        <5>2. QED
          BY <1>3, <4>1, <5>1, FinishOthers
      <4>4. QED
        BY <4>2, <4>3
    <3>3. CASE WorkerSeesClosed(a) \/ SendReturns(a)
      BY <1>3, <3>3 DEF WorkerSeesClosed, SendReturns, TypeOK
    <3>4. CASE WorkerDrained(a) \/ WorkerCanceled(a) \/ SendFails(a)
      BY <1>3, <3>4 DEF WorkerDrained, WorkerCanceled, SendFails, TypeOK
    <3>5. QED
      BY <3>1, <3>2, <3>3, <3>4 DEF Working
  <2>2. /\ TypeOK /\ Good(b) /\ UNCHANGED <<state, lastSequence>>
        /\ attachments' = attachments /\ awaited' = awaited /\ failing' = failing
    BY <1>1, <1>2
  <2>3. QED
    BY <2>1, <2>2, Untouched
<1>4. Good(a)'
  <2>1. CASE WorkerSeesClosed(a)
    <3>1. closed[a] /\ UNCHANGED <<session, content, ended, from, got>>
      BY <2>1 DEF WorkerSeesClosed
    <3>2. QED
      BY <1>1, <3>1 DEF Good, Closed
  <2>2. CASE WorkerDrained(a)
    <3>1. /\ ending[a] /\ ~Pending(a) /\ worker'[a] = "exiting"
          /\ UNCHANGED <<session, content, ended, from, got>>
      BY <2>2 DEF WorkerDrained, TypeOK
    <3>2. UNCHANGED <<Held(a), Whole(a), Pending(a)>>
      BY <3>1 DEF Held, Whole, Pending
    <3>3. ASSUME Open(a) PROVE Open(a)'
      BY <3>1, <3>2, <3>3 DEF Open
    <3>4. QED
      BY <1>1, <3>1, <3>3 DEF Good, Closed
  <2>3. CASE WorkerCanceled(a) \/ SendFails(a)
    <3>1. /\ worker'[a] = "exiting" /\ exitReason'[a] \in {"manager_closed", "sink_failure"}
          /\ UNCHANGED <<session, content, ended, from, got>>
      BY <2>3 DEF WorkerCanceled, SendFails, TypeOK
    <3>2. UNCHANGED <<Held(a), Whole(a), Pending(a)>>
      BY <3>1 DEF Held, Whole, Pending
    <3>3. ASSUME Open(a) PROVE Open(a)'
      BY <3>1, <3>2, <3>3 DEF Open
    <3>4. QED
      BY <1>1, <3>1, <3>3 DEF Good, Closed
  <2>4. CASE SendReturns(a)
    <3>1. /\ worker'[a] = "top" /\ UNCHANGED <<session, content, ended, exitReason, from, got>>
      BY <2>4 DEF SendReturns, TypeOK
    <3>2. UNCHANGED <<Held(a), Whole(a), Pending(a)>>
      BY <3>1 DEF Held, Whole, Pending
    <3>3. ASSUME Open(a) PROVE Open(a)'
      BY <3>1, <3>2, <3>3 DEF Open
    <3>4. QED
      BY <1>1, <3>1, <3>3 DEF Good, Closed
  <2>5. CASE WorkerTakes(a)
    <3>1. /\ ~closed[a] /\ Pending(a) /\ worker'[a] = "sending"
          /\ UNCHANGED <<session, ending, ended, exitReason, from>>
      BY <2>5 DEF WorkerTakes, TypeOK
    <3>2. Open(a) /\ exitReason[a] # "session_exited"
      BY <1>1, <3>1 DEF Good, Open
    <3>3. Held(a)' = Held(a)
      BY <2>5, TakesKeepsHeld
    <3>4. Whole(a)' = Whole(a)
      BY <3>1 DEF Whole
    <3>5. Open(a)'
      BY <3>1, <3>2, <3>3, <3>4 DEF Open
    <3>6. QED
      BY <1>1, <3>1, <3>2, <3>5 DEF Good, Closed, Open
  <2>6. CASE WorkerFinishes(a)
    <3>1. CASE closed[a]
      <4>1. UNCHANGED <<session, content, ended, from, got>>
        BY <2>6, <3>1 DEF WorkerFinishes
      <4>2. QED
        BY <1>1, <3>1, <4>1 DEF Good, Closed
    <3>2. CASE ~closed[a]
      <4>1. Finish(a, exitReason[a]) /\ exitReason[a] \in Reasons
        BY <2>6, <3>2 DEF WorkerFinishes, TypeOK
      <4>2. QED
        BY <1>1, <1>2, <4>1, FinishGood
    <3>3. QED
      BY <3>1, <3>2
  <2>7. QED
    BY <2>1, <2>2, <2>3, <2>4, <2>5, <2>6 DEF Working
<1>5. QED
  BY <1>2, <1>3, <1>4 DEF DeliveryInv

\* The other steps of one attachment: Activate, the ways it is finished, and
\* its worker.
LEMMA AttachmentStep ==
  ASSUME IInv, TypeOK', NEW a \in Attachments,
         \/ Activate(a) \/ Close(a) \/ FinishFailing(a) \/ DrainTimeout(a) \/ FinishRemoved(a)
         \/ Record(a) \/ Working(a)
  PROVE  DeliveryInv'
<1> USE DEF IInv
<1>1. \A b \in Attachments : Good(b)
  BY DEF DeliveryInv
<1>2. ASSUME UNCHANGED <<state, awaited>>, attachments' \subseteq attachments, Good(a)',
             \A b \in Attachments : b # a => Good(b)'
      PROVE  DeliveryInv'
  BY <1>2 DEF DeliveryInv
<1>3. CASE Activate(a)
  <2>1. UNCHANGED <<session, replay, queue, ending, ended, work, from, got>>
    BY <1>3 DEF Activate
  <2>2. \A b \in Attachments : Good(b)'
    BY <1>1, <2>1, Untouched
  <2>3. QED
    BY <1>2, <2>1, <2>2
<1>4. CASE Close(a)
  <2>1. /\ Finish(a, "explicit") /\ "explicit" \in Reasons /\ UNCHANGED <<session, work>>
    BY <1>4 DEF Close, Reasons
  <2>2. Good(a)'
    BY <2>1, <1>1, FinishGood
  <2>3. ASSUME NEW b \in Attachments, b # a PROVE Good(b)'
    BY <1>1, <2>1, <2>3, FinishOthers, Untouched
  <2>4. QED
    BY <1>2, <2>1, <2>2, <2>3
<1>5. CASE DrainTimeout(a)
  <2>1. /\ Finish(a, "drain_timeout") /\ "drain_timeout" \in Reasons /\ UNCHANGED <<session, work>>
    BY <1>5 DEF DrainTimeout, Reasons
  <2>2. Good(a)'
    BY <2>1, <1>1, FinishGood
  <2>3. ASSUME NEW b \in Attachments, b # a PROVE Good(b)'
    BY <1>1, <2>1, <2>3, FinishOthers, Untouched
  <2>4. QED
    BY <1>2, <2>1, <2>2, <2>3
<1>6. CASE FinishRemoved(a)
  <2>1. /\ Finish(a, "session_removed") /\ "session_removed" \in Reasons /\ UNCHANGED <<session, work>>
    BY <1>6 DEF FinishRemoved, Reasons
  <2>2. Good(a)'
    BY <2>1, <1>1, FinishGood
  <2>3. ASSUME NEW b \in Attachments, b # a PROVE Good(b)'
    BY <1>1, <2>1, <2>3, FinishOthers, Untouched
  <2>4. QED
    BY <1>2, <2>1, <2>2, <2>3
<1>7. CASE FinishFailing(a)
  <2>1. /\ failing' = failing \ {a} /\ "queue_overflow" \in Reasons
        /\ UNCHANGED <<state, lastSequence, attachments, awaited, work>>
    BY <1>7 DEF FinishFailing, Reasons
  <2>2. CASE closed[a]
    <3>1. UNCHANGED <<content, ended, from, got>>
      BY <1>7, <2>2 DEF FinishFailing
    <3>2. ASSUME NEW b \in Attachments, b # a PROVE Good(b)'
      BY <1>1, <2>1, <3>1, <3>2, Untouched
    <3>3. Good(a)'
      BY <1>1, <2>1, <2>2, <3>1 DEF Good, Closed
    <3>4. QED
      BY <1>2, <2>1, <3>2, <3>3
  <2>3. CASE ~closed[a]
    <3>1. Finish(a, "queue_overflow")
      BY <1>7, <2>3 DEF FinishFailing
    <3>2. Good(a)'
      BY <1>1, <2>1, <3>1, FinishGood
    <3>3. ASSUME NEW b \in Attachments, b # a PROVE Good(b)'
      BY <1>1, <2>1, <3>1, <3>3, FinishOthers, Untouched
    <3>4. QED
      BY <1>2, <2>1, <3>2, <3>3
  <2>4. QED
    BY <2>2, <2>3
<1>8. CASE Record(a)
  <2>1. /\ recording[a] /\ attachments' = attachments \ {a}
        /\ UNCHANGED <<state, lastSequence, awaited, failing, content, closed, reason, exitReason, from,
                       got>>
    BY <1>8 DEF Record
  <2>2. ASSUME NEW b \in Attachments, b # a PROVE Good(b)'
    <3>1. recording'[b] = recording[b] /\ worker'[b] = worker[b]
      BY <1>8, <2>2 DEF Record, TypeOK
    <3>2. QED
      BY <1>1, <2>1, <2>2, <3>1, Untouched
  <2>3. closed[a]
    BY <1>1, <2>1 DEF Good, Open
  <2>4. Good(a)'
    BY <1>1, <2>1, <2>3 DEF Good, Closed
  <2>5. QED
    BY <1>2, <2>1, <2>2, <2>4
<1>9. CASE Working(a)
  BY <1>9, WorkerStep
<1>10. QED
  BY <1>3, <1>4, <1>5, <1>6, <1>7, <1>8, <1>9

LEMMA StepInv == IInv /\ [Next]_vars => IInv'
<1> SUFFICES ASSUME IInv, [Next]_vars PROVE IInv'
  OBVIOUS
<1>1. TypeOK'
  BY StepTypes DEF IInv
<1>2. CASE UNCHANGED vars
  <2>1. \A b \in Attachments : Good(b)'
    BY <1>2, Untouched DEF IInv, DeliveryInv
  <2>2. DeliveryInv'
    BY <1>2, <2>1 DEF IInv, DeliveryInv
  <2>3. QED
    BY <1>1, <2>2 DEF IInv
<1>3. CASE Publish \/ DropFirst \/ ProcessExit \/ Drained \/ Remove \/ Removed \/ ManagerClose \/ ContextEnds
  BY <1>1, <1>3, SessionStep DEF IInv
<1>4. ASSUME NEW a \in Attachments, NEW n \in 0..MaxOutput, NEW p \in BOOLEAN, Attach(a, n, p)
      PROVE  IInv'
  <2>1. n \in Nat
    BY SMT, AttachmentAssumption
  <2>2. QED
    BY <1>1, <1>4, <2>1, AttachStep DEF IInv
<1>5. ASSUME NEW a \in Attachments,
             \/ Activate(a) \/ Close(a) \/ FinishFailing(a) \/ DrainTimeout(a) \/ FinishRemoved(a)
             \/ Record(a) \/ Working(a)
      PROVE  IInv'
  BY <1>1, <1>5, AttachmentStep DEF IInv
<1>6. QED
  BY <1>2, <1>3, <1>4, <1>5 DEF Next

LEMMA Invariance == Spec => []IInv
  BY InitInv, StepInv, PTL DEF Spec
-----------------------------------------------------------------------------
(* The theorems *)

\* Whatever is published, dropped from the history, exited or finished while
\* Attach, publish and the workers interleave, an open attachment has or holds
\* every chunk it was promised, once and in order (Attach and publish).
THEOREM OutputIsNotLost == Spec => []NothingMissing
<1>1. IInv => NothingMissing
  <2> SUFFICES ASSUME IInv, NEW a \in attachments, ~closed[a]
               PROVE  got[a] \o replay[a] \o queue[a]
                        = Interval(from[a], lastSequence)
                            \o (IF state = "running" THEN <<>> ELSE <<Exit>>)
    BY DEF NothingMissing
  <2>1. a \in Attachments
    BY DEF IInv, TypeOK
  <2>2. Open(a) /\ from[a] <= lastSequence + 1
    BY <2>1 DEF IInv, DeliveryInv, Good
  <2>3. Held(a) = Whole(a)
    BY <2>2 DEF Open
  <2>4. Interval(from[a], lastSequence) \in Seq(Event)
    <3>1. from[a] \in Nat /\ lastSequence \in Int
      BY SMT, <2>1 DEF IInv, TypeOK
    <3>2. QED
      BY <2>2, <3>1, IntervalFacts
  <2>5. Exit \in Event
    BY DEF Event
  <2>6. Interval(from[a], lastSequence) \o <<>> = Interval(from[a], lastSequence)
    BY SMT, <2>4
  <2>7. Interval(from[a], lastSequence) \o <<Exit>> = Append(Interval(from[a], lastSequence), Exit)
    BY SMT, <2>4, <2>5
  <2>8. QED
    BY <2>3, <2>6, <2>7 DEF Held, Whole
<1>2. QED
  BY <1>1, Invariance, PTL

\* An attachment that reports session_exited has handed all of the output and
\* the exit event to its sink (Attachment.run and finish).
THEOREM ExitReportsAreTrue == Spec => []ExitedMeansComplete
<1>1. IInv => ExitedMeansComplete
  BY DEF IInv, DeliveryInv, Good, Closed, ExitedMeansComplete
<1>2. QED
  BY <1>1, Invariance, PTL

\* The exit event is the only one that is queued beyond AttachmentQueueBytes.
QueuesBounded ==
  \A a \in Attachments : Len(queue[a]) <= QueueLimit + (IF ending[a] THEN 1 ELSE 0)

LEMMA StepBounded == QueuesBounded /\ IInv /\ [Next]_vars => QueuesBounded'
<1> SUFFICES ASSUME QueuesBounded, IInv, [Next]_vars, NEW b \in Attachments
             PROVE  Len(queue[b])' <= QueueLimit + (IF ending'[b] THEN 1 ELSE 0)
  BY DEF QueuesBounded
<1> USE AttachmentAssumption DEF IInv
<1>1. Len(queue[b]) <= QueueLimit + (IF ending[b] THEN 1 ELSE 0)
  BY DEF QueuesBounded
<1>2. queue[b] \in Seq(Event) /\ Len(queue[b]) \in Nat
  BY SMT DEF TypeOK
<1>3. ASSUME queue'[b] = queue[b], ending'[b] = ending[b]
      PROVE  Len(queue[b])' <= QueueLimit + (IF ending'[b] THEN 1 ELSE 0)
  BY <1>1, <1>3
<1>4. ASSUME Len(queue[b])' <= QueueLimit
      PROVE  Len(queue[b])' <= QueueLimit + (IF ending'[b] THEN 1 ELSE 0)
  <2>1. Len(queue[b])' \in Nat
    BY SMT, StepTypes DEF TypeOK
  <2>2. QED
    BY SMT, <1>4, <2>1
<1>5. CASE Publish
  <2>1. ending' = ending /\ lastSequence' \in Event
    BY SMT, <1>5 DEF Publish, TypeOK, Event
  <2>2. CASE Accepts(b) /\ b \in attachments
    <3>1. queue'[b] = Append(queue[b], lastSequence') /\ Len(queue[b]) < QueueLimit
      BY <1>5, <2>2 DEF Publish, Accepts
    <3>2. Len(Append(queue[b], lastSequence')) = Len(queue[b]) + 1
      BY SMT, <1>2, <2>1, AppendFacts
    <3>3. Len(queue[b])' <= QueueLimit
      BY SMT, <1>2, <3>1, <3>2
    <3>4. QED
      BY <1>4, <3>3
  <2>3. CASE ~(Accepts(b) /\ b \in attachments)
    <3>1. queue'[b] = queue[b]
      BY <1>5, <2>3 DEF Publish
    <3>2. QED
      BY <1>3, <2>1, <3>1
  <2>4. QED
    BY <2>2, <2>3
<1>6. CASE ProcessExit
  <2>1. CASE b \in attachments /\ ~closed[b]
    <3>1. queue'[b] = Append(queue[b], Exit) /\ ending'[b] = TRUE /\ Exit \in Event
      BY <1>6, <2>1 DEF ProcessExit, Event
    <3>2. Open(b) /\ state = "running"
      BY <1>6, <2>1 DEF ProcessExit, DeliveryInv, Good
    <3>3. Len(queue[b]) <= QueueLimit
      <4>1. ~ending[b]
        BY <3>2 DEF Open
      <4>2. (IF ending[b] THEN 1 ELSE 0) = 0
        BY <4>1
      <4>3. Len(queue[b]) <= QueueLimit + 0
        BY <1>1, <4>2
      <4>4. QED
        BY <1>2, <4>3, SMTT(30)
    <3>4. Len(Append(queue[b], Exit)) = Len(queue[b]) + 1
      BY SMT, <1>2, <3>1, AppendFacts
    <3>5. QED
      BY SMT, <1>2, <3>1, <3>3, <3>4
  <2>2. CASE ~(b \in attachments /\ ~closed[b])
    <3>1. queue'[b] = queue[b] /\ ending'[b] = ending[b]
      BY <1>6, <2>2 DEF ProcessExit, TypeOK
    <3>2. QED
      BY <1>3, <3>1
  <2>3. QED
    BY <2>1, <2>2
<1>7. ASSUME NEW a \in Attachments, NEW n \in 0..MaxOutput, NEW p \in BOOLEAN, Attach(a, n, p)
      PROVE  Len(queue[b])' <= QueueLimit + (IF ending'[b] THEN 1 ELSE 0)
  <2>1. CASE b = a
    <3>1. queue'[b] \in {<<>>, <<Exit>>}
      BY <1>7, <2>1 DEF Attach, AttachFrom, TypeOK
    <3>2. Len(<<>>) = 0 /\ Len(<<Exit>>) = 1
      OBVIOUS
    <3>3. 0 <= QueueLimit /\ 1 <= QueueLimit
      BY SMT
    <3>4. Len(queue[b])' <= QueueLimit
      BY <3>1, <3>2, <3>3
    <3>5. QED
      BY <1>4, <3>4
  <2>2. CASE b # a
    <3>1. queue'[b] = queue[b] /\ ending'[b] = ending[b]
      BY <1>7, <2>2 DEF Attach, AttachFrom, TypeOK
    <3>2. QED
      BY <1>3, <3>1
  <2>3. QED
    BY <2>1, <2>2
<1>8. ASSUME NEW a \in Attachments, WorkerTakes(a)
      PROVE  Len(queue[b])' <= QueueLimit + (IF ending'[b] THEN 1 ELSE 0)
  <2>1. ending' = ending
    BY <1>8 DEF WorkerTakes
  <2>2. CASE queue'[b] = queue[b]
    BY <1>3, <2>1, <2>2
  <2>3. CASE queue'[b] # queue[b]
    <3>1. queue'[b] = Tail(queue[b]) /\ queue[b] # <<>>
      BY SMTT(30), <1>8, <2>3 DEF WorkerTakes, Pending, TypeOK
    <3>2. Len(Tail(queue[b])) = Len(queue[b]) - 1
      BY <1>2, <3>1, TailFacts
    <3>3. QED
      BY SMT, <1>1, <1>2, <2>1, <3>1, <3>2
  <2>4. QED
    BY <2>2, <2>3
<1>9. ASSUME NEW a \in Attachments, NEW why, Finish(a, why)
      PROVE  Len(queue[b])' <= QueueLimit + (IF ending'[b] THEN 1 ELSE 0)
  <2>1. ending' = ending /\ queue'[b] \in {<<>>, queue[b]}
    BY <1>9 DEF Finish, TypeOK
  <2>2. CASE queue'[b] = <<>>
    <3>1. Len(queue[b])' <= QueueLimit
      BY SMT, <2>2
    <3>2. QED
      BY <1>4, <3>1
  <2>3. QED
    BY <1>3, <2>1, <2>2
<1>10. ASSUME UNCHANGED <<queue, ending>>
       PROVE  Len(queue[b])' <= QueueLimit + (IF ending'[b] THEN 1 ELSE 0)
  BY <1>3, <1>10
<1>11. CASE \/ DropFirst \/ Drained \/ Remove \/ Removed \/ ManagerClose \/ ContextEnds
            \/ UNCHANGED vars
  <2>1. UNCHANGED <<queue, ending>>
    BY <1>11 DEF DropFirst, Drained, Remove, Removed, ManagerClose, ContextEnds
  <2>2. QED
    BY <1>10, <2>1
<1>12. ASSUME NEW a \in Attachments,
              \/ Activate(a) \/ Record(a) \/ WorkerSeesClosed(a) \/ WorkerDrained(a)
              \/ WorkerCanceled(a) \/ SendReturns(a) \/ SendFails(a)
       PROVE  UNCHANGED <<queue, ending>>
  BY <1>12 DEF Activate, Record, WorkerSeesClosed, WorkerDrained, WorkerCanceled, SendReturns,
               SendFails
<1>13. ASSUME NEW a \in Attachments,
              \/ Close(a) \/ FinishFailing(a) \/ DrainTimeout(a) \/ FinishRemoved(a)
              \/ WorkerFinishes(a)
       PROVE  UNCHANGED <<queue, ending>> \/ \E why : Finish(a, why)
  BY <1>13 DEF Close, FinishFailing, DrainTimeout, FinishRemoved, WorkerFinishes
<1>14. QED
  BY <1>5, <1>6, <1>7, <1>8, <1>9, <1>10, <1>11, <1>12, <1>13 DEF Next, Working

\* However slow its sink, no attachment queues more than AttachmentQueueBytes
\* allows, and the exit event beyond it (enqueueLocked and enqueueExitLocked).
THEOREM AttachmentQueuesBounded == Spec => []QueuesBounded
<1>1. Init => QueuesBounded
  BY SMT, AttachmentAssumption DEF Init, QueuesBounded
<1>2. QED
  BY <1>1, StepBounded, Invariance, PTL DEF Spec

\* The event that the worker hands over is the next chunk, or the exit event
\* after the last one.
LEMMA TakesTheNext ==
  ASSUME IInv, NEW a \in Attachments, WorkerTakes(a)
  PROVE  OL!DeliverOutput(a) \/ OL!DeliverExit(a)
<1> USE DEF IInv
<1> DEFINE g == Len(got[a])
           e == Held(a)[g + 1]
<1>1. /\ g + 1 <= Len(Held(a)) /\ got' = [got EXCEPT ![a] = Append(got[a], e)]
  BY TakesKeepsHeld
<1>2. g \in Nat /\ from[a] \in Nat /\ lastSequence \in Nat
  BY SMT DEF TypeOK
<1>3. Open(a) /\ from[a] <= lastSequence + 1
  BY DEF WorkerTakes, DeliveryInv, Good
<1>4. UNCHANGED <<state, lastSequence, from>>
  BY DEF WorkerTakes
<1> HIDE DEF g, e
<1>5. OL!Upcoming(a) = from[a] + g
  BY DEF OL!Upcoming, g
<1>6. ASSUME NEW n \in Int, from[a] <= n + 1, n <= lastSequence, g + 1 <= n - from[a] + 1,
             e = Interval(from[a], n)[g + 1]
      PROVE  OL!DeliverOutput(a)
  <2>1. e = from[a] + g
    <3>1. g + 1 \in 1..(n - from[a] + 1)
      BY SMT, <1>2, <1>6
    <3>2. \A k \in 1..(n - from[a] + 1) : Interval(from[a], n)[k] = from[a] + k - 1
      BY <1>2, <1>6, IntervalFacts
    <3>3. QED
      BY SMT, <1>2, <1>6, <3>1, <3>2
  <2>2. from[a] + g <= lastSequence
    BY SMT, <1>2, <1>6
  <2>3. QED
    BY <1>1, <1>4, <1>5, <2>1, <2>2 DEF OL!DeliverOutput
<1>7. CASE a \in failing
  <2>1. Held(a) = Interval(from[a], lastSequence - 1) /\ from[a] <= lastSequence
    BY <1>3, <1>7 DEF Open
  <2>2. lastSequence - 1 \in Int /\ from[a] <= (lastSequence - 1) + 1
    BY SMT, <1>2, <2>1
  <2>3. Len(Held(a)) = (lastSequence - 1) - from[a] + 1
    BY <1>2, <2>1, <2>2, IntervalFacts
  <2>4. g + 1 <= (lastSequence - 1) - from[a] + 1 /\ lastSequence - 1 <= lastSequence
    BY SMT, <1>1, <1>2, <2>3
  <2>5. e = Interval(from[a], lastSequence - 1)[g + 1]
    BY <2>1 DEF e
  <2>6. QED
    BY <1>6, <2>2, <2>4, <2>5
<1>8. CASE a \notin failing
  <2>1. Held(a) = Whole(a)
    BY <1>3, <1>8 DEF Open
  <2>2. from[a] \in Nat /\ lastSequence \in Int /\ from[a] <= lastSequence + 1
    BY SMT, <1>2, <1>3
  <2>3. /\ Interval(from[a], lastSequence) \in Seq(Event)
        /\ Len(Interval(from[a], lastSequence)) = lastSequence - from[a] + 1
    BY <2>2, IntervalFacts
  <2>4. CASE state = "running"
    <3>1. Held(a) = Interval(from[a], lastSequence)
      BY <2>1, <2>4 DEF Whole
    <3>2. g + 1 <= lastSequence - from[a] + 1 /\ e = Interval(from[a], lastSequence)[g + 1]
      BY <1>1, <2>3, <3>1 DEF e
    <3>3. QED
      BY SMT, <1>2, <1>3, <1>6, <2>2, <3>2
  <2>5. CASE state # "running"
    <3>1. Held(a) = Append(Interval(from[a], lastSequence), Exit)
      BY <2>1, <2>5 DEF Whole
    <3>2. Exit \in Event
      BY DEF Event
    <3>3. /\ Len(Held(a)) = lastSequence - from[a] + 2
          /\ \A i \in 1..(lastSequence - from[a] + 1) :
               Held(a)[i] = Interval(from[a], lastSequence)[i]
          /\ Held(a)[lastSequence - from[a] + 2] = Exit
      <4> DEFINE s == Interval(from[a], lastSequence)
      <4> HIDE DEF s
      <4>1. s \in Seq(Event) /\ Len(s) = lastSequence - from[a] + 1 /\ Held(a) = Append(s, Exit)
        BY <2>2, <2>3, <3>1 DEF s
      <4>2. /\ Len(Append(s, Exit)) = Len(s) + 1
            /\ \A i \in 1..Len(s) : Append(s, Exit)[i] = s[i]
            /\ Append(s, Exit)[Len(s) + 1] = Exit
        BY SMT, <3>2, <4>1, AppendFacts
      <4>3. Len(s) + 1 = lastSequence - from[a] + 2
        BY SMT, <1>2, <4>1
      <4>4. QED
        BY <4>1, <4>2, <4>3 DEF s
    <3>4. CASE g + 1 <= lastSequence - from[a] + 1
      <4>1. e = Interval(from[a], lastSequence)[g + 1]
        BY SMT, <1>2, <3>3, <3>4 DEF e
      <4>2. QED
        BY SMT, <1>2, <1>3, <1>6, <2>2, <3>4, <4>1
    <3>5. CASE g + 1 > lastSequence - from[a] + 1
      <4>1. g + 1 = lastSequence - from[a] + 2
        BY SMT, <1>1, <1>2, <3>3, <3>5
      <4>2. e = Exit
        BY <3>3, <4>1 DEF e
      <4>3. from[a] + g = lastSequence + 1
        BY SMT, <1>2, <4>1
      <4>4. QED
        BY <1>1, <1>4, <1>5, <2>5, <4>2, <4>3 DEF OL!DeliverExit
    <3>6. QED
      BY SMT, <1>2, <3>4, <3>5
  <2>6. QED
    BY <2>4, <2>5
<1>9. QED
  BY <1>7, <1>8

LEMMA InitRefines == Init => OL!Init
  BY DEF Init, OL!Init

LEMMA StepRefines == IInv /\ [Next]_vars => [OL!Next]_(OL!vars)
<1> SUFFICES ASSUME IInv, [Next]_vars PROVE OL!Next \/ UNCHANGED OL!vars
  OBVIOUS
<1>1. ASSUME UNCHANGED <<lastSequence, from, got>>, (state # "running") <=> (state' # "running")
      PROVE  UNCHANGED OL!vars
  BY <1>1 DEF OL!vars
<1>2. CASE Publish
  BY <1>2 DEF Publish, OL!Next, OL!Publish
<1>3. CASE ProcessExit
  BY <1>3 DEF ProcessExit, OL!Next, OL!ProcessExit
<1>4. CASE DropFirst \/ Drained \/ Remove \/ Removed \/ ManagerClose \/ ContextEnds \/ UNCHANGED vars
  <2>1. UNCHANGED <<lastSequence, from, got>> /\ (state # "running" <=> state' # "running")
    BY <1>4 DEF DropFirst, Drained, Remove, Removed, ManagerClose, ContextEnds
  <2>2. QED
    BY <1>1, <2>1
<1>5. ASSUME NEW a \in Attachments, NEW n \in 0..MaxOutput, NEW p \in BOOLEAN, Attach(a, n, p)
      PROVE  OL!Next
  <2> DEFINE start == Larger(first, n + 1)
  <2>1. start \in 1..(lastSequence + 1)
    BY SMT, <1>5, AttachmentAssumption DEF Attach, Larger, IInv, TypeOK
  <2>2. AttachFrom(a, start, p)
    BY <1>5 DEF Attach
  <2> HIDE DEF start
  <2>3. OL!Begin(a)
    BY <2>1, <2>2 DEF AttachFrom, OL!Begin
  <2>4. QED
    BY <2>3 DEF OL!Next
<1>6. ASSUME NEW a \in Attachments,
             \/ Activate(a) \/ Close(a) \/ FinishFailing(a) \/ DrainTimeout(a) \/ FinishRemoved(a)
             \/ Record(a)
      PROVE  UNCHANGED OL!vars
  <2>1. UNCHANGED <<state, lastSequence, from, got>>
    BY <1>6 DEF Activate, Close, FinishFailing, DrainTimeout, FinishRemoved, Record, Finish
  <2>2. QED
    BY <1>1, <2>1
<1>7. ASSUME NEW a \in Attachments, WorkerTakes(a) PROVE OL!Next
  BY <1>7, TakesTheNext DEF OL!Next
<1>8. ASSUME NEW a \in Attachments, Working(a), ~WorkerTakes(a) PROVE UNCHANGED OL!vars
  <2>1. UNCHANGED <<state, lastSequence, from, got>>
    BY <1>8 DEF Working, WorkerSeesClosed, WorkerDrained, WorkerCanceled, SendReturns, SendFails,
                WorkerFinishes, Finish
  <2>2. QED
    BY <1>1, <2>1
<1>9. QED
  BY <1>2, <1>3, <1>4, <1>5, <1>6, <1>7, <1>8 DEF Next

\* Every sink sees consecutive output in order and one exit event after all of
\* it: the attachments implement OutputLog (Attach, publish, Attachment.run).
THEOREM SinksSeeTheLog == Spec => OrderedDelivery
  BY InitRefines, StepRefines, Invariance, PTL DEF Spec, OrderedDelivery, OL!Spec
=============================================================================
