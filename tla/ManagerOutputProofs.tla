------------------------ MODULE ManagerOutputProofs ------------------------
(***************************************************************************)
(* Proofs about ManagerOutput for every set of sessions and observers and  *)
(* every limit: what an observer receives, what the history holds and what *)
(* its counters say, and what a client that attaches is replayed.  The     *)
(* counters are sums over sets that grow and shrink by one element; the    *)
(* replay is followed chunk by chunk.                                      *)
(***************************************************************************)
EXTENDS ManagerOutput, TLAPS

\* Most steps are set theory, which Zenon does; a step with arithmetic cites SMT.
USE Zenon

Size(s) == Len(s)

Consecutive(s, m) == \A k \in 1..Len(s) : s[k] = m + k - 1

ObserverTypeOK ==
  /\ bound \in Bounds
  /\ emitted \in Nat /\ observers \subseteq Observer
  /\ from \in [Observer -> Nat]
  /\ finishing \in [Observer -> {"none", "explicit", "manager_closed", "queue_overflow"}]
  /\ closed \in [Observer -> BOOLEAN]
  /\ worker \in [Observer -> {"none", "top", "sending", "ended"}]
  /\ queue \in [Observer -> Seq(Nat)]
  /\ held \in [Observer -> Seq(Nat)]
  /\ got \in [Observer -> Seq(Nat)]

\* One subscription: an entry of the Manager is not being finished; nothing is
\* on its way before Subscribe; the worker holds an event only while it sends;
\* what was received, is held and is queued follow each other, and an entry has
\* them all.
Served(o) ==
  /\ closed[o] => finishing[o] # "none"
  /\ o \in observers => finishing[o] = "none" /\ worker[o] # "none"
  /\ worker[o] = "none" =>
       finishing[o] = "none" /\ got[o] = <<>> /\ held[o] = <<>> /\ queue[o] = <<>>
  /\ worker[o] = "top" => held[o] = <<>>
  /\ Consecutive(got[o], from[o])
  /\ Consecutive(held[o], from[o] + Size(got[o]))
  /\ Consecutive(queue[o], from[o] + Size(got[o]) + Size(held[o]))
  /\ o \in observers =>
       emitted + 1 = from[o] + Size(got[o]) + Size(held[o]) + Size(queue[o])

ObserverInv == ObserverTypeOK /\ \A o \in Observer : Served(o)

-----------------------------------------------------------------------------
(* Runs of numbers without a hole *)

\* The empty run.
LEMMA EmptyRun == ASSUME NEW m PROVE Consecutive(<<>>, m) /\ Size(<<>>) = 0
  BY SMT DEF Consecutive, Size

\* emitLocked appends the next number.
LEMMA AppendRun ==
  ASSUME NEW s \in Seq(Nat), NEW m \in Nat, Consecutive(s, m)
  PROVE  /\ Consecutive(Append(s, m + Size(s)), m)
         /\ Size(Append(s, m + Size(s))) = Size(s) + 1
  BY SMT DEF Consecutive, Size

\* The worker takes the head.
LEMMA HeadRun ==
  ASSUME NEW s \in Seq(Nat), NEW m \in Nat, Consecutive(s, m), s # <<>>
  PROVE  /\ Consecutive(<<Head(s)>>, m) /\ Size(<<Head(s)>>) = 1
         /\ Consecutive(Tail(s), m + 1) /\ Size(Tail(s)) = Size(s) - 1
<1>1. Size(s) \in Nat /\ Size(s) > 0 /\ Head(s) = s[1]
  BY SMT DEF Size
<1>2. /\ Tail(s) \in Seq(Nat) /\ Size(Tail(s)) = Size(s) - 1
      /\ \A k \in 1..(Size(s) - 1) : Tail(s)[k] = s[k + 1]
  BY SMT, <1>1 DEF Size
<1>3. QED
  BY SMT, <1>1, <1>2 DEF Consecutive, Size

\* A run followed by the one that starts where it ends.
LEMMA ConcatRun ==
  ASSUME NEW s \in Seq(Nat), NEW t \in Seq(Nat), NEW m \in Nat,
         Consecutive(s, m), Consecutive(t, m + Size(s))
  PROVE  Consecutive(s \o t, m) /\ Size(s \o t) = Size(s) + Size(t)
<1>1. /\ Size(s \o t) = Size(s) + Size(t)
      /\ \A k \in 1..(Size(s) + Size(t)) :
           (s \o t)[k] = IF k <= Size(s) THEN s[k] ELSE t[k - Size(s)]
  BY SMT DEF Size
<1>2. QED
  BY SMT, <1>1 DEF Consecutive, Size

\* A run is the interval it covers.
LEMMA RunIsInterval ==
  ASSUME NEW s \in Seq(Nat), NEW m \in Nat, Consecutive(s, m)
  PROVE  s = Interval(m, m + Len(s) - 1)
<1>1. Len(s) \in Nat /\ DOMAIN s = 1..Len(s) /\ s = [k \in 1..Len(s) |-> s[k]]
  BY SMT
<1>2. m + Len(s) - 1 - m + 1 = Len(s)
  BY SMT, <1>1
<1>3. \A k \in 1..Len(s) : s[k] = m + k - 1
  BY DEF Consecutive
<1>4. Interval(m, m + Len(s) - 1) = [k \in 1..Len(s) |-> m + k - 1]
  BY SMT, <1>2 DEF Interval
<1>5. QED
  BY <1>1, <1>3, <1>4
-----------------------------------------------------------------------------
USE DEF Subscriptions!manager, Subscriptions!subscription, Subscriptions!delivery

\* Nobody observes a new Manager.
LEMMA InitInv == Init => ObserverInv
<1> SUFFICES ASSUME Init PROVE ObserverInv
  OBVIOUS
<1>1. ObserverTypeOK
  <2>1. <<>> \in Seq(Nat)
    BY SMT
  <2>2. QED
    BY <2>1 DEF Init, Subscriptions!Init, ObserverTypeOK
<1>2. ASSUME NEW o \in Observer PROVE Served(o)
  <2>1. /\ closed[o] = FALSE /\ finishing[o] = "none" /\ o \notin observers /\ worker[o] = "none"
        /\ got[o] = <<>> /\ held[o] = <<>> /\ queue[o] = <<>>
    BY DEF Init, Subscriptions!Init
  <2>2. QED
    BY SMT, <2>1 DEF Served, Consecutive
<1>3. QED
  BY <1>1, <1>2 DEF ObserverInv

\* The facts about one observer that an invariant in the state says.
LEMMA Known ==
  ASSUME ObserverInv, NEW o \in Observer
  PROVE  /\ Served(o) /\ from[o] \in Nat /\ emitted \in Nat
         /\ got[o] \in Seq(Nat) /\ held[o] \in Seq(Nat) /\ queue[o] \in Seq(Nat)
         /\ Size(got[o]) \in Nat /\ Size(held[o]) \in Nat /\ Size(queue[o]) \in Nat
<1>1. got[o] \in Seq(Nat) /\ held[o] \in Seq(Nat) /\ queue[o] \in Seq(Nat)
  BY DEF ObserverInv, ObserverTypeOK
<1>2. QED
  BY SMT, <1>1 DEF ObserverInv, ObserverTypeOK, Size

\* A step that leaves o's sequences alone, and at most takes its entry out.
LEMMA Untouched ==
  ASSUME ObserverInv, NEW o \in Observer,
         UNCHANGED <<emitted, from[o], worker[o], closed[o], got[o], held[o], queue[o]>>,
         \/ finishing'[o] = finishing[o] /\ (o \in observers' => o \in observers)
         \/ o \notin observers' /\ worker[o] # "none" /\ finishing'[o] # "none"
  PROVE  Served(o)'
<1>1. Served(o)
  BY Known
<1>2. QED
  BY <1>1 DEF Served

\* emitLocked: queued for every entry with room, the others are taken out.
LEMMA EmitInv == ObserverInv /\ Subscriptions!Emit /\ bound' = bound => ObserverInv'
<1> SUFFICES ASSUME ObserverInv, Subscriptions!Emit, bound' = bound PROVE ObserverInv'
  OBVIOUS
<1>1. ObserverTypeOK'
  BY SMT DEF ObserverInv, ObserverTypeOK, Subscriptions!Emit
<1>2. ASSUME NEW o \in Observer PROVE Served(o)'
  <2> DEFINE m == from[o] + Size(got[o]) + Size(held[o])
  <2>0. /\ Served(o) /\ from[o] \in Nat /\ emitted \in Nat
        /\ Size(got[o]) \in Nat /\ Size(held[o]) \in Nat /\ Size(queue[o]) \in Nat
    BY Known
  <2>1. /\ UNCHANGED <<closed[o], worker[o], got[o], held[o], from[o]>>
        /\ emitted' = emitted + 1
    BY DEF Subscriptions!Emit
  <2>2. CASE o \notin observers
    <3>1. UNCHANGED <<queue[o], finishing[o]>> /\ o \notin observers'
      BY <2>2 DEF Subscriptions!Emit
    <3>2. QED
      BY <2>0, <2>1, <2>2, <3>1 DEF Served
  <2>3. CASE o \in observers /\ ~Subscriptions!Accepts(o)
    <3>1. queue'[o] = queue[o] /\ finishing'[o] = "queue_overflow" /\ o \notin observers'
      BY <2>3 DEF Subscriptions!Emit
    <3>2. QED
      BY <2>0, <2>1, <2>3, <3>1 DEF Served
  <2>4. CASE o \in observers /\ Subscriptions!Accepts(o)
    <3>1. queue'[o] = Append(queue[o], emitted + 1) /\ finishing'[o] = finishing[o]
      BY <2>1, <2>4 DEF Subscriptions!Emit
    <3>2. m \in Nat /\ Consecutive(queue[o], m) /\ emitted + 1 = m + Size(queue[o])
      BY SMT, <2>0, <2>4 DEF Served
    <3>3. /\ Consecutive(Append(queue[o], m + Size(queue[o])), m)
          /\ Size(Append(queue[o], m + Size(queue[o]))) = Size(queue[o]) + 1
      <4>1. queue[o] \in Seq(Nat)
        BY Known
      <4>2. QED
        BY <3>2, <4>1, AppendRun
    <3>4. Consecutive(queue'[o], m) /\ Size(queue'[o]) = Size(queue[o]) + 1
      BY <3>1, <3>2, <3>3
    <3>5. QED
      BY SMT, <2>0, <2>1, <2>4, <3>1, <3>2, <3>4 DEF Served
  <2>5. QED
    BY <2>2, <2>3, <2>4
<1>3. QED
  BY <1>1, <1>2 DEF ObserverInv

\* The steps that at most take entries out.
LEMMA EntryInv ==
  ASSUME ObserverInv, bound' = bound,
         \/ Subscriptions!ManagerClose
         \/ Subscriptions!ContextEnds
         \/ \E p \in Observer : Subscriptions!Close(p) \/ Subscriptions!Record(p)
  PROVE  ObserverInv'
<1> USE DEF Subscriptions!ManagerClose, Subscriptions!ContextEnds, Subscriptions!Close,
            Subscriptions!Record
<1>1. ObserverTypeOK'
  BY DEF ObserverInv, ObserverTypeOK
<1>2. ASSUME NEW o \in Observer PROVE Served(o)'
  <2>1. Served(o)
    BY Known
  <2>2. /\ UNCHANGED <<emitted, from[o], worker[o], closed[o], got[o], held[o], queue[o]>>
        /\ \/ finishing'[o] = finishing[o] /\ (o \in observers' => o \in observers)
           \/ o \notin observers' /\ worker[o] # "none" /\ finishing'[o] # "none"
    BY <2>1 DEF ObserverInv, ObserverTypeOK, Served
  <2>3. QED
    BY <2>2, Untouched
<1>3. QED
  BY <1>1, <1>2 DEF ObserverInv

\* Subscribe: the events from the next one on.
LEMMA SubscribeInv ==
  ASSUME ObserverInv, bound' = bound, NEW p \in Observer, Subscriptions!Subscribe(p)
  PROVE  ObserverInv'
<1> USE DEF Subscriptions!Subscribe
<1>1. ObserverTypeOK'
  BY SMT DEF ObserverInv, ObserverTypeOK
<1>2. ASSUME NEW o \in Observer PROVE Served(o)'
  <2>1. CASE o = p
    <3>0. Served(o) /\ emitted \in Nat
      BY Known
    <3>1. /\ got'[o] = <<>> /\ held'[o] = <<>> /\ queue'[o] = <<>>
          /\ from'[o] = emitted + 1 /\ emitted' = emitted /\ worker'[o] = "top"
          /\ finishing'[o] = "none" /\ ~closed'[o]
      BY <2>1, <3>0 DEF ObserverInv, ObserverTypeOK, Served
    <3>2. /\ Size(got'[o]) = 0 /\ Size(held'[o]) = 0 /\ Size(queue'[o]) = 0
          /\ Consecutive(got[o], from[o])'
          /\ Consecutive(held[o], from[o] + Size(got[o]))'
          /\ Consecutive(queue[o], from[o] + Size(got[o]) + Size(held[o]))'
      BY <3>1, EmptyRun
    <3>3. QED
      BY SMT, <3>0, <3>1, <3>2 DEF Served
  <2>2. CASE o # p
    BY <2>2, Untouched DEF ObserverInv, ObserverTypeOK
  <2>3. QED
    BY <2>1, <2>2
<1>3. QED
  BY <1>1, <1>2 DEF ObserverInv

\* finish empties the queue of a subscription that is no entry any more.
LEMMA FinishInv ==
  ASSUME ObserverInv, bound' = bound, NEW p \in Observer, Subscriptions!Finish(p)
  PROVE  ObserverInv'
<1> USE DEF Subscriptions!Finish
<1>1. ObserverTypeOK'
  <2>1. <<>> \in Seq(Nat)
    BY SMT
  <2>2. QED
    BY <2>1 DEF ObserverInv, ObserverTypeOK
<1>2. ASSUME NEW o \in Observer PROVE Served(o)'
  <2>1. CASE o = p
    <3>1. queue'[o] = <<>> /\ closed'[o] = TRUE
      BY <2>1 DEF ObserverInv, ObserverTypeOK
    <3>2. Consecutive(queue[o], from[o] + Size(got[o]) + Size(held[o]))'
      BY SMT, <3>1 DEF Consecutive
    <3>3. QED
      BY <2>1, <3>1, <3>2, Known DEF Served
  <2>2. CASE o # p
    BY <2>2, Untouched DEF ObserverInv, ObserverTypeOK
  <2>3. QED
    BY <2>1, <2>2
<1>3. QED
  BY <1>1, <1>2 DEF ObserverInv

\* The last step of the worker leaves the events where they are.
LEMMA WorkerInv ==
  ASSUME ObserverInv, bound' = bound, NEW p \in Observer,
         Subscriptions!WorkerEnds(p) \/ Subscriptions!WorkerGivesUp(p)
  PROVE  ObserverInv'
<1> USE DEF Subscriptions!WorkerEnds, Subscriptions!WorkerGivesUp
<1>1. ObserverTypeOK'
  BY DEF ObserverInv, ObserverTypeOK
<1>2. ASSUME NEW o \in Observer PROVE Served(o)'
  <2>1. CASE o = p
    <3>1. worker'[o] = "ended"
      BY <2>1 DEF ObserverInv, ObserverTypeOK
    <3>2. QED
      BY <2>1, <3>1, Known DEF Served
  <2>2. CASE o # p
    BY <2>2, Untouched DEF ObserverInv, ObserverTypeOK
  <2>3. QED
    BY <2>1, <2>2
<1>3. QED
  BY <1>1, <1>2 DEF ObserverInv

\* The worker takes the head of the queue to send it.
LEMMA TakesInv ==
  ASSUME ObserverInv, bound' = bound, NEW p \in Observer, Subscriptions!WorkerTakes(p)
  PROVE  ObserverInv'
<1> USE DEF Subscriptions!WorkerTakes
<1>1. ObserverTypeOK'
  BY SMT DEF ObserverInv, ObserverTypeOK
<1>2. ASSUME NEW o \in Observer PROVE Served(o)'
  <2>1. CASE o = p
    <3>1. /\ held[o] = <<>> /\ held'[o] = <<Head(queue[o])>> /\ queue'[o] = Tail(queue[o])
          /\ worker'[o] = "sending" /\ queue[o] # <<>>
          /\ UNCHANGED <<emitted, observers, from, got, closed, finishing>>
      BY <2>1, Known DEF ObserverInv, ObserverTypeOK, Served
    <3> DEFINE m == from[o] + Size(got[o])
    <3>0. /\ Served(o) /\ from[o] \in Nat /\ emitted \in Nat
          /\ Size(got[o]) \in Nat /\ Size(queue[o]) \in Nat
      BY Known
    <3>2. m \in Nat /\ Size(held[o]) = 0 /\ m + Size(held[o]) = m
      <4>1. Size(held[o]) = 0
        BY <3>1, EmptyRun
      <4>2. QED
        BY SMT, <3>0, <4>1
    <3>3. Consecutive(queue[o], m)
      BY <3>0, <3>2 DEF Served
    <3>4. /\ Consecutive(held'[o], m) /\ Size(held'[o]) = 1
          /\ Consecutive(queue'[o], m + 1) /\ Size(queue'[o]) = Size(queue[o]) - 1
      <4>1. queue[o] \in Seq(Nat)
        BY Known
      <4>2. QED
        BY <3>1, <3>2, <3>3, <4>1, HeadRun
    <3>5. /\ UNCHANGED <<from[o], got[o], closed[o], finishing[o]>>
          /\ from[o] + Size(got[o]) + Size(held'[o]) = m + 1
      BY <3>1, <3>4
    <3>6. QED
      BY SMT, <3>0, <3>1, <3>2, <3>4, <3>5 DEF Served
  <2>2. CASE o # p
    BY <2>2, Untouched DEF ObserverInv, ObserverTypeOK
  <2>3. QED
    BY <2>1, <2>2
<1>3. QED
  BY <1>1, <1>2 DEF ObserverInv

\* The observer receives what the worker holds.
LEMMA ReceiveInv ==
  ASSUME ObserverInv, bound' = bound, NEW p \in Observer, Subscriptions!Receive(p)
  PROVE  ObserverInv'
<1> USE DEF Subscriptions!Receive
<1>1. ObserverTypeOK'
  <2>1. <<>> \in Seq(Nat)
    BY SMT
  <2>2. QED
    BY SMT, <2>1 DEF ObserverInv, ObserverTypeOK
<1>2. ASSUME NEW o \in Observer PROVE Served(o)'
  <2>1. CASE o = p
    <3>1. /\ got'[o] = got[o] \o held[o] /\ held'[o] = <<>> /\ worker'[o] = "top"
          /\ UNCHANGED <<emitted, observers, from, queue, closed, finishing>>
      BY <2>1, Known DEF ObserverInv, ObserverTypeOK
    <3>2. /\ Served(o) /\ from[o] \in Nat /\ emitted \in Nat
          /\ Size(got[o]) \in Nat /\ Size(held[o]) \in Nat /\ Size(queue[o]) \in Nat
      BY Known
    <3>3. Consecutive(got[o], from[o]) /\ Consecutive(held[o], from[o] + Size(got[o]))
      BY <3>2 DEF Served
    <3>4. Consecutive(got'[o], from[o]) /\ Size(got'[o]) = Size(got[o]) + Size(held[o])
      <4>1. /\ Consecutive(got[o] \o held[o], from[o])
            /\ Size(got[o] \o held[o]) = Size(got[o]) + Size(held[o])
        <5>1. got[o] \in Seq(Nat) /\ held[o] \in Seq(Nat)
          BY Known
        <5>2. QED
          BY <3>2, <3>3, <5>1, ConcatRun
      <4>2. QED
        BY <3>1, <4>1
    <3>5. Consecutive(held'[o], from[o] + Size(got'[o])) /\ Size(held'[o]) = 0
      BY <3>1, EmptyRun
    <3>6. /\ UNCHANGED <<from[o], queue[o], closed[o], finishing[o]>>
          /\ from[o] + Size(got'[o]) + Size(held'[o]) = from[o] + Size(got[o]) + Size(held[o])
      BY SMT, <3>1, <3>2, <3>4, <3>5
    <3>7. worker[o] = "sending"
      BY <2>1
    <3>8. QED
      BY <3>1, <3>2, <3>4, <3>5, <3>6, <3>7 DEF Served
  <2>2. CASE o # p
    BY <2>2, Untouched DEF ObserverInv, ObserverTypeOK
  <2>3. QED
    BY <2>1, <2>2
<1>3. QED
  BY <1>1, <1>2 DEF ObserverInv

\* Every step keeps the invariant.
LEMMA StepInv == ObserverInv /\ [Next]_vars => ObserverInv'
<1> SUFFICES ASSUME ObserverInv, [Next]_vars PROVE ObserverInv'
  OBVIOUS
<1>0. bound.observers \subseteq Observer
  BY OutputAssumption DEF ObserverInv, ObserverTypeOK
<1>1. CASE UNCHANGED observed /\ bound' = bound
  BY <1>1 DEF observed, ObserverInv, ObserverTypeOK, Served
<1>2. CASE Subscriptions!Emit /\ bound' = bound
  BY <1>2, EmitInv
<1>3. CASE EmitsLast
  BY <1>1, <1>2, <1>3 DEF EmitsLast, chosen
<1>4. CASE Locked
  BY <1>0, <1>4, EntryInv, SubscribeInv DEF Locked, chosen
<1>5. CASE Unlocked
  BY <1>0, <1>5, EntryInv, FinishInv, WorkerInv, TakesInv, ReceiveInv DEF Unlocked, chosen
<1>6. CASE UNCHANGED vars
  BY <1>1, <1>6 DEF vars, chosen
<1>7. QED
  BY <1>2, <1>3, <1>4, <1>5, <1>6 DEF Next, Trim, EmitOther, RemoveSession, Publish

\* What the invariant says of the numbers is NoGaps.
LEMMA ServedIsNoGaps == ObserverInv => NoGaps
<1> SUFFICES ASSUME ObserverInv, NEW o \in Observer
             PROVE  /\ got[o] = Interval(from[o], from[o] + Len(got[o]) - 1)
                    /\ o \in observers => got[o] \o held[o] \o queue[o] = Interval(from[o], emitted)
  BY DEF NoGaps
<1> DEFINE taken == got[o] \o held[o]
           due == taken \o queue[o]
<1>1. /\ Served(o) /\ from[o] \in Nat /\ emitted \in Nat
      /\ Size(got[o]) \in Nat /\ Size(held[o]) \in Nat /\ Size(queue[o]) \in Nat
  BY Known
<1>2. got[o] \in Seq(Nat) /\ held[o] \in Seq(Nat) /\ queue[o] \in Seq(Nat)
  BY Known
<1>3. /\ Consecutive(got[o], from[o]) /\ Consecutive(held[o], from[o] + Size(got[o]))
      /\ Consecutive(queue[o], from[o] + Size(got[o]) + Size(held[o]))
  BY <1>1 DEF Served
<1>4. got[o] = Interval(from[o], from[o] + Len(got[o]) - 1)
  BY <1>1, <1>2, <1>3, RunIsInterval
<1>5. taken \in Seq(Nat) /\ due \in Seq(Nat)
  BY SMT, <1>2
<1>6. Consecutive(taken, from[o]) /\ Size(taken) = Size(got[o]) + Size(held[o])
  BY <1>1, <1>2, <1>3, ConcatRun
<1>7. Consecutive(due, from[o]) /\ Size(due) = Size(taken) + Size(queue[o])
  <2> HIDE DEF taken
  <2>1. from[o] + Size(taken) = from[o] + Size(got[o]) + Size(held[o])
    BY SMT, <1>1, <1>6
  <2>2. Consecutive(queue[o], from[o] + Size(taken))
    BY <1>3, <2>1
  <2>3. QED
    BY <1>1, <1>2, <1>5, <1>6, <2>2, ConcatRun
<1>8. ASSUME o \in observers PROVE due = Interval(from[o], emitted)
  <2> HIDE DEF due, taken
  <2>1. emitted + 1 = from[o] + Size(got[o]) + Size(held[o]) + Size(queue[o])
    BY <1>1, <1>8 DEF Served
  <2>2. from[o] + Size(due) - 1 = emitted
    BY SMT, <1>1, <1>6, <1>7, <2>1
  <2>3. due = Interval(from[o], from[o] + Len(due) - 1)
    BY <1>1, <1>5, <1>7, RunIsInterval
  <2>4. QED
    BY <2>2, <2>3 DEF Size
<1>9. QED
  BY <1>4, <1>8

\* emitLocked never leaves a hole in what a subscription delivers, whatever the
\* number of observers, their queue limit, and the sessions whose output,
\* trimming and removal are emitted: a full queue ends the subscription.
THEOREM SubscriptionsHaveNoGaps == Spec => []NoGaps
  BY InitInv, StepInv, ServedIsNoGaps, PTL DEF Spec
-----------------------------------------------------------------------------
(* The history *)

\* A chunk is kept whole, or its last HistoryBytes bytes are.
Chunk == {c \in [sequence : Nat, whole : Nat, size : Nat, order : Nat] :
            c.size = c.whole \/ (c.size = HistoryBytes /\ c.whole > HistoryBytes)}

\* Without a history nothing is kept.
HistoryInv ==
  /\ nextHistory \in Nat
  /\ trim = "own" => current \in Session
  /\ lastSequence \in [Session -> Nat] /\ history \in [Session -> Seq(Chunk)]
  /\ ~Histories!Enabled => \A s \in Session : history[s] = <<>>
  /\ \A s \in Session : \A k \in 1..Len(history[s]) :
       history[s][k].sequence = lastSequence[s] - Len(history[s]) + k

\* appendHistoryLocked goes on where the history ends.
LEMMA PublishHistory ==
  ASSUME HistoryInv, NEW s \in Session, NEW n \in 1..MaxChunk, Histories!Publish(s, n)
  PROVE  HistoryInv'
<1>1. /\ current' = s /\ nextHistory' \in Nat
      /\ lastSequence' \in [Session -> Nat] /\ lastSequence'[s] = lastSequence[s] + 1
      /\ \A x \in Session \ {s} : lastSequence'[x] = lastSequence[x]
  BY SMT DEF HistoryInv, Histories!Publish
<1>2. CASE ~Histories!Enabled
  <2>1. history' = history
    BY <1>2 DEF Histories!Publish
  <2>2. \A x \in Session : history[x] = <<>>
    BY <1>2 DEF HistoryInv
  <2>3. QED
    BY SMT, <1>1, <2>1, <2>2 DEF HistoryInv
<1>3. CASE Histories!Enabled
  <2>1. PICK c \in Chunk : /\ c.sequence = lastSequence[s] + 1
                           /\ history' = [history EXCEPT ![s] = Append(@, c)]
    <3>1. PICK size \in Nat :
            /\ size = n \/ (size = HistoryBytes /\ n > HistoryBytes)
            /\ history' = [history EXCEPT ![s] = Append(@, [sequence |-> lastSequence'[s],
                                         whole |-> n, size |-> size, order |-> nextHistory'])]
      BY SMT, <1>3, OutputAssumption DEF Histories!Publish
    <3>2. [sequence |-> lastSequence'[s], whole |-> n, size |-> size, order |-> nextHistory'] \in Chunk
      BY SMT, <1>1, <3>1 DEF Chunk
    <3>3. QED
      BY <1>1, <3>1, <3>2
  <2>2. history' \in [Session -> Seq(Chunk)] /\ history'[s] = Append(history[s], c)
        /\ \A x \in Session \ {s} : history'[x] = history[x]
    BY SMT, <2>1 DEF HistoryInv
  <2>3. ASSUME NEW x \in Session, NEW k \in 1..Len(history'[x])
        PROVE  history'[x][k].sequence = lastSequence'[x] - Len(history'[x]) + k
    <3>1. CASE x = s
      <4>1. history[s] \in Seq(Chunk) /\ lastSequence[s] \in Nat
        BY DEF HistoryInv
      <4>2. /\ Len(history'[s]) = Len(history[s]) + 1
            /\ history'[s][k] = IF k = Len(history[s]) + 1 THEN c ELSE history[s][k]
        BY SMT, <2>2, <3>1, <4>1, <2>3
      <4>3. k # Len(history[s]) + 1 => k \in 1..Len(history[s])
        BY SMT, <2>3, <3>1, <4>1, <4>2
      <4>4. QED
        BY SMTT(30), <1>1, <2>1, <3>1, <4>1, <4>2, <4>3 DEF HistoryInv
    <3>2. CASE x # s
      BY SMTT(30), <1>1, <2>2, <2>3, <3>2 DEF HistoryInv
    <3>3. QED
      BY <3>1, <3>2
  <2>4. Histories!Enabled'
    BY <1>3 DEF Histories!Enabled
  <2>5. QED
    BY <1>1, <2>2, <2>3, <2>4 DEF HistoryInv
<1>4. QED
  BY <1>2, <1>3

\* dropFirstHistoryLocked drops the oldest chunk.
LEMMA DropHistory ==
  ASSUME HistoryInv, NEW s \in Session, history[s] # <<>>, Histories!DropFirst(s),
         UNCHANGED <<lastSequence, nextHistory, current, trim>>
  PROVE  HistoryInv'
<1>1. /\ history' = [history EXCEPT ![s] = Tail(@)] /\ history[s] \in Seq(Chunk)
      /\ lastSequence[s] \in Nat
  BY DEF Histories!DropFirst, HistoryInv
<1>2. /\ Tail(history[s]) \in Seq(Chunk) /\ Len(Tail(history[s])) = Len(history[s]) - 1
      /\ \A k \in 1..(Len(history[s]) - 1) :
           k + 1 \in 1..Len(history[s]) /\ Tail(history[s])[k] = history[s][k + 1]
  BY SMT, <1>1
<1>3. /\ history' \in [Session -> Seq(Chunk)] /\ history'[s] = Tail(history[s])
      /\ \A x \in Session \ {s} : history'[x] = history[x]
  BY <1>1, <1>2 DEF HistoryInv
<1>4. Histories!Enabled' /\ Histories!Enabled
  BY DEF HistoryInv, Histories!Enabled
<1>5. ASSUME NEW x \in Session, NEW k \in 1..Len(history'[x])
      PROVE  history'[x][k].sequence = lastSequence'[x] - Len(history'[x]) + k
  <2>1. CASE x = s
    <3>1. k \in 1..(Len(history[s]) - 1) /\ k \in Nat /\ Len(history[s]) \in Nat
      BY SMT, <1>1, <1>2, <1>3, <1>5, <2>1
    <3>2. history[s][k + 1].sequence = lastSequence[s] - Len(history[s]) + (k + 1)
      BY <1>2, <3>1 DEF HistoryInv
    <3>3. QED
      BY SMT, <1>1, <1>2, <1>3, <2>1, <3>1, <3>2
  <2>2. CASE x # s
    BY <1>3, <1>5, <2>2 DEF HistoryInv
  <2>3. QED
    BY <2>1, <2>2
<1>6. QED
  BY <1>3, <1>4, <1>5 DEF HistoryInv

\* removeHistoryLocked leaves nothing, and a new session starts at zero.
LEMMA RemoveHistoryInv ==
  ASSUME HistoryInv, NEW s \in Session, Histories!RemoveHistory(s) PROVE HistoryInv'
<1>1. /\ UNCHANGED <<nextHistory, current, trim>> /\ history' = [history EXCEPT ![s] = <<>>]
      /\ lastSequence' = [lastSequence EXCEPT ![s] = 0] /\ <<>> \in Seq(Chunk)
  BY SMT DEF Histories!RemoveHistory
<1>2. history' \in [Session -> Seq(Chunk)] /\ lastSequence' \in [Session -> Nat]
  BY <1>1 DEF HistoryInv
<1>3. \A x \in Session :
        history'[x] = <<>> \/ (history'[x] = history[x] /\ lastSequence'[x] = lastSequence[x])
  BY <1>1 DEF HistoryInv
<1>4. Histories!Enabled' = Histories!Enabled
  BY DEF Histories!Enabled
<1>5. QED
  BY SMT, <1>1, <1>2, <1>3, <1>4 DEF HistoryInv

LEMMA HistoryStep == HistoryInv /\ [Next]_vars => HistoryInv'
<1> SUFFICES ASSUME HistoryInv, [Next]_vars PROVE HistoryInv'
  OBVIOUS
<1>1. ASSUME UNCHANGED <<lastSequence, history, nextHistory, current>>, trim' = "own" => trim = "own"
      PROVE  HistoryInv'
  <2>1. Histories!Enabled' = Histories!Enabled
    BY DEF Histories!Enabled
  <2>2. QED
    BY <1>1, <2>1 DEF HistoryInv
<1>2. CASE Trim
  <2>1. \/ UNCHANGED <<lastSequence, history, nextHistory, current>> /\ (trim' = "own" => trim = "own")
        \/ \E s \in Session : /\ history[s] # <<>> /\ Histories!DropFirst(s)
                              /\ UNCHANGED <<lastSequence, nextHistory, current, trim>>
    BY <1>2 DEF Trim, Histories!TrimOwn, Histories!TrimTotal, Histories!Oldest, HistoryInv
  <2>2. QED
    BY <1>1, <2>1, DropHistory
<1>3. CASE \E s \in Session : RemoveSession(s)
  BY <1>3, RemoveHistoryInv DEF RemoveSession
<1>4. CASE \E s \in Session : \E n \in 1..MaxChunk : Publish(s, n)
  BY <1>4, PublishHistory DEF Publish
<1>5. CASE EmitOther \/ Locked \/ Unlocked \/ UNCHANGED vars
  BY <1>1, <1>5 DEF EmitOther, Locked, Unlocked, vars, stored
<1>6. QED
  BY <1>2, <1>3, <1>4, <1>5 DEF Next
-----------------------------------------------------------------------------
(* Sums *)

(***************************************************************************)
(* p gives the sum of w over each subset of S, and total is the sum over   *)
(* S itself.                                                               *)
(***************************************************************************)
SumsBy(p, S, w) ==
  /\ p \in [SUBSET S -> Nat] /\ p[{}] = 0 /\ \A x \in S : w[x] \in Nat
  /\ \A A \in SUBSET S : \A x \in S \ A : p[A \cup {x}] = p[A] + w[x]

IsSum(S, w, total) == \E p : SumsBy(p, S, w) /\ p[S] = total

LEMMA SumIsNat == ASSUME NEW S, NEW w, NEW total, IsSum(S, w, total) PROVE total \in Nat
<1>1. S \in SUBSET S
  OBVIOUS
<1>2. QED
  BY SMT, <1>1 DEF IsSum, SumsBy

LEMMA SumOfNone == ASSUME NEW w, NEW total, IsSum({}, w, total) PROVE total = 0
  BY DEF IsSum, SumsBy

LEMMA SumOfZeros == ASSUME NEW S, NEW w, \A x \in S : w[x] = 0 PROVE IsSum(S, w, 0)
<1> DEFINE p == [A \in SUBSET S |-> 0]
<1>1. p \in [SUBSET S -> Nat] /\ \A A \in SUBSET S : p[A] = 0
  OBVIOUS
<1> HIDE DEF p
<1>2. ASSUME NEW A \in SUBSET S, NEW x \in S \ A PROVE p[A \cup {x}] = p[A] + w[x]
  <2>1. A \cup {x} \in SUBSET S
    OBVIOUS
  <2>2. p[A \cup {x}] = 0 /\ p[A] = 0 /\ w[x] = 0
    BY <1>1, <2>1
  <2>3. QED
    BY SMT, <2>2
<1>3. SumsBy(p, S, w) /\ p[S] = 0
  BY <1>1, <1>2 DEF SumsBy
<1>4. QED
  BY <1>3 DEF IsSum

\* One summand more.
LEMMA SumAdd ==
  ASSUME NEW S, NEW w, NEW v, NEW s, s \notin S, v[s] \in Nat,
         \A x \in S : v[x] = w[x], NEW total, IsSum(S, w, total)
  PROVE  IsSum(S \cup {s}, v, total + v[s])
<1>1. PICK p : SumsBy(p, S, w) /\ p[S] = total
  BY DEF IsSum
<1>2. /\ p \in [SUBSET S -> Nat] /\ p[{}] = 0 /\ \A x \in S : w[x] \in Nat
      /\ \A A \in SUBSET S : \A x \in S \ A : p[A \cup {x}] = p[A] + w[x]
  BY <1>1 DEF SumsBy
<1> DEFINE T == S \cup {s}
           r == [A \in SUBSET T |-> IF s \in A THEN p[A \ {s}] + v[s] ELSE p[A]]
<1>3. /\ \A A \in SUBSET T : A \ {s} \in SUBSET S /\ p[A \ {s}] \in Nat
      /\ \A A \in SUBSET T : s \notin A => A \ {s} = A /\ A \in SUBSET S
  BY <1>2
<1>4. \A A \in SUBSET T : /\ s \in A => r[A] = p[A \ {s}] + v[s]
                          /\ s \notin A => r[A] = p[A]
  OBVIOUS
<1>5. r \in [SUBSET T -> Nat]
  BY SMT, <1>2, <1>3
<1> HIDE DEF r
<1>6. ASSUME NEW A \in SUBSET T, NEW x \in T \ A PROVE r[A \cup {x}] = r[A] + v[x]
  <2>1. A \cup {x} \in SUBSET T
    OBVIOUS
  <2>2. CASE x = s
    <3>1. (A \cup {x}) \ {s} = A /\ s \in A \cup {x} /\ s \notin A
      BY <2>2
    <3>2. r[A] = p[A] /\ r[A \cup {x}] = p[A] + v[s]
      BY <1>4, <2>1, <2>2, <3>1
    <3>3. QED
      BY <2>2, <3>2
  <2>3. CASE x # s /\ s \in A
    <3>1. /\ (A \cup {x}) \ {s} = (A \ {s}) \cup {x} /\ s \in A \cup {x}
          /\ x \in S \ (A \ {s}) /\ x \in S
      BY <2>3
    <3>2. p[(A \ {s}) \cup {x}] = p[A \ {s}] + w[x]
      BY <1>2, <1>3, <3>1
    <3>3. /\ r[A] = p[A \ {s}] + v[s] /\ r[A \cup {x}] = p[(A \ {s}) \cup {x}] + v[s]
          /\ v[x] = w[x]
      BY <1>4, <2>1, <2>3, <3>1
    <3>4. w[x] \in Nat /\ p[A \ {s}] \in Nat
      BY <1>2, <1>3, <3>1
    <3>5. QED
      BY SMT, <3>2, <3>3, <3>4
  <2>4. CASE x # s /\ s \notin A
    <3>1. A \in SUBSET S /\ x \in S \ A
      BY <2>4
    <3>2. r[A] = p[A] /\ r[A \cup {x}] = p[A \cup {x}] /\ v[x] = w[x]
      BY <1>4, <2>1, <2>4, <3>1
    <3>3. p[A \cup {x}] = p[A] + w[x]
      BY <1>2, <3>1
    <3>4. QED
      BY <3>2, <3>3
  <2>5. QED
    BY <2>2, <2>3, <2>4
<1>7. r[{}] = 0
  BY <1>2, <1>4
<1>8. r[T] = total + v[s]
  <2>1. T \ {s} = S /\ T \in SUBSET T /\ s \in T
    OBVIOUS
  <2>2. QED
    BY <1>1, <1>4, <2>1
<1>9. SumsBy(r, T, v)
  BY <1>2, <1>5, <1>6, <1>7 DEF SumsBy
<1>10. QED
  BY <1>8, <1>9 DEF IsSum

\* v has the summands of w but that of s, each in the place m gives it.
AllBut(s, S, w, T, v, m) ==
  /\ \A i \in T : m[i] \in S \ {s} /\ v[i] = w[m[i]]
  /\ \A i, j \in T : m[i] = m[j] => i = j
  /\ \A x \in S \ {s} : \E i \in T : m[i] = x

\* One summand less.
LEMMA SumLess ==
  ASSUME NEW S, NEW w, NEW total, IsSum(S, w, total), NEW s \in S,
         NEW T, NEW v, NEW m, AllBut(s, S, w, T, v, m)
  PROVE  IsSum(T, v, total - w[s])
<1> USE DEF AllBut
<1>1. PICK p : SumsBy(p, S, w) /\ p[S] = total
  BY DEF IsSum
<1>2. /\ p \in [SUBSET S -> Nat] /\ p[{}] = 0 /\ \A x \in S : w[x] \in Nat
      /\ \A A \in SUBSET S : \A x \in S \ A : p[A \cup {x}] = p[A] + w[x]
  BY <1>1 DEF SumsBy
<1> DEFINE Im(A) == {m[i] : i \in A}
           r == [A \in SUBSET T |-> p[Im(A)]]
<1>3. \A A \in SUBSET T : Im(A) \in SUBSET S /\ r[A] = p[Im(A)]
  BY SMT
<1>4. r \in [SUBSET T -> Nat]
  BY <1>2, <1>3
<1>5. r[{}] = 0
  <2>1. Im({}) = {} /\ {} \in SUBSET T
    OBVIOUS
  <2>2. QED
    BY <1>2, <1>3, <2>1
<1> HIDE DEF r
<1>6. ASSUME NEW A \in SUBSET T, NEW x \in T \ A PROVE r[A \cup {x}] = r[A] + v[x]
  <2>1. A \cup {x} \in SUBSET T
    OBVIOUS
  <2>2. Im(A \cup {x}) = Im(A) \cup {m[x]}
    BY SMT
  <2>3. m[x] \in S \ Im(A)
    BY SMT
  <2> HIDE DEF Im
  <2>4. p[Im(A) \cup {m[x]}] = p[Im(A)] + w[m[x]]
    BY <1>2, <1>3, <2>3
  <2>5. r[A \cup {x}] = p[Im(A) \cup {m[x]}] /\ r[A] = p[Im(A)] /\ v[x] = w[m[x]]
    BY <1>3, <2>1, <2>2
  <2>6. QED
    BY <2>4, <2>5
<1>7. r[T] = total - w[s]
  <2>1. Im(T) = S \ {s} /\ T \in SUBSET T
    <3>1. Im(T) \subseteq S \ {s}
      BY SMT
    <3>2. S \ {s} \subseteq Im(T)
      OBVIOUS
    <3>3. QED
      BY <3>1, <3>2
  <2> HIDE DEF Im
  <2>2. (S \ {s}) \cup {s} = S /\ S \ {s} \in SUBSET S /\ s \in S \ (S \ {s})
    OBVIOUS
  <2>3. p[(S \ {s}) \cup {s}] = p[S \ {s}] + w[s]
    BY <1>2, <2>2
  <2>4. total = p[S \ {s}] + w[s] /\ p[S \ {s}] \in Nat /\ w[s] \in Nat
    BY <1>1, <1>2, <2>2, <2>3
  <2>5. r[T] = p[S \ {s}]
    BY <1>3, <2>1
  <2>6. QED
    BY SMT, <2>4, <2>5
<1>8. \A x \in T : v[x] \in Nat
  BY <1>2
<1>9. SumsBy(r, T, v)
  BY <1>4, <1>5, <1>6, <1>8 DEF SumsBy
<1>10. QED
  BY <1>7, <1>9 DEF IsSum

\* One summand changes.
LEMMA SumChange ==
  ASSUME NEW S, NEW w, NEW total, IsSum(S, w, total), NEW s \in S,
         NEW v, v[s] \in Nat, \A x \in S \ {s} : v[x] = w[x]
  PROVE  IsSum(S, v, total + (v[s] - w[s]))
<1> DEFINE rest == S \ {s}
           id == [x \in rest |-> x]
<1>0. PICK T, m : T = rest /\ m = id
  OBVIOUS
<1>1. AllBut(s, S, w, T, v, m)
  BY <1>0 DEF AllBut
<1>2. T \cup {s} = S /\ s \notin T
  BY <1>0
<1> HIDE DEF rest, id
<1>3. IsSum(T, v, total - w[s])
  BY <1>1, SumLess
<1>4. IsSum(T \cup {s}, v, (total - w[s]) + v[s])
  BY <1>2, <1>3, SumAdd
<1>5. total \in Nat /\ w[s] \in Nat
  BY SumIsNat DEF IsSum, SumsBy
<1>6. (total - w[s]) + v[s] = total + (v[s] - w[s])
  BY SMT, <1>5
<1>7. QED
  BY <1>2, <1>4, <1>6

(***************************************************************************)
(* Induction over the subsets of a finite set, as the least element        *)
(* principle: what the proofs need of the library's theorems, which        *)
(* FiniteFactsHold, at the end, cites.                                     *)
(***************************************************************************)
FiniteFacts ==
  /\ \A S : IsFiniteSet(S) =>
       \A T : T # {} /\ (\A A \in T : A \subseteq S) =>
         \E A \in T : \A B \in T : ~(B \subseteq A /\ B # A)
  /\ \A n \in Nat : IsFiniteSet(1..n)

TakesOneByOne(g, S, w) ==
  /\ g[{}] = 0
  /\ \A A \in SUBSET S : A # {} =>
       \E x \in A : g[A] = w[x] + g[A \ {x}] \/ g[A] = g[A \ {x}] + w[x]

\* A recursive function that takes one member after the other out of a finite
\* set, whichever it chooses, adds up the summands.
LEMMA RecursionIsSum ==
  ASSUME FiniteFacts, NEW S, IsFiniteSet(S), NEW w, NEW p, SumsBy(p, S, w),
         NEW g, TakesOneByOne(g, S, w)
  PROVE  g[S] = p[S]
<1>1. PICK T : T = {A \in SUBSET S : g[A] # p[A]}
  OBVIOUS
<1>2. ASSUME NEW A \in T, \A B \in T : ~(B \subseteq A /\ B # A) PROVE FALSE
  <2>1. A \in SUBSET S /\ g[A] # p[A]
    BY <1>1
  <2>2. A # {}
    BY <2>1 DEF SumsBy, TakesOneByOne
  <2>3. PICK x \in A : g[A] = w[x] + g[A \ {x}] \/ g[A] = g[A \ {x}] + w[x]
    BY <2>1, <2>2 DEF TakesOneByOne
  <2>4. A \ {x} \in SUBSET S /\ x \in S \ (A \ {x}) /\ (A \ {x}) \cup {x} = A
        /\ A \ {x} \subseteq A /\ A \ {x} # A
    BY <2>1
  <2>5. g[A \ {x}] = p[A \ {x}]
    BY <1>1, <1>2, <2>4
  <2>6. p[(A \ {x}) \cup {x}] = p[A \ {x}] + w[x] /\ p[A \ {x}] \in Nat /\ w[x] \in Nat
    BY <2>4 DEF SumsBy
  <2>7. p[A] = p[A \ {x}] + w[x]
    BY <2>4, <2>6
  <2>8. QED
    BY SMT, <2>1, <2>3, <2>5, <2>6, <2>7
<1>3. \A A \in T : A \subseteq S
  BY <1>1
<1>4. T = {}
  BY SMT, <1>2, <1>3 DEF FiniteFacts
<1>5. QED
  BY <1>1, <1>4

\* There is no other sum.
LEMMA SumOfZerosIsZero ==
  ASSUME FiniteFacts, NEW S, IsFiniteSet(S), NEW w, \A x \in S : w[x] = 0,
         NEW total, IsSum(S, w, total)
  PROVE  total = 0
<1>1. PICK p : SumsBy(p, S, w) /\ p[S] = total
  BY DEF IsSum
<1>0. PICK g : g = [A \in SUBSET S |-> 0]
  BY ZenonT(30)
<1>2. g[{}] = 0 /\ g[S] = 0
  BY <1>0
<1>3. ASSUME NEW A \in SUBSET S, A # {} PROVE \E x \in A : g[A] = w[x] + g[A \ {x}]
  <2>1. PICK x \in A : TRUE
    BY <1>3
  <2>2. A \ {x} \in SUBSET S /\ w[x] = 0
    OBVIOUS
  <2>3. g[A] = 0 /\ g[A \ {x}] = 0
    BY <1>0, <2>2
  <2>4. QED
    BY SMT, <2>2, <2>3
<1>4. TakesOneByOne(g, S, w)
  BY <1>2, <1>3 DEF TakesOneByOne
<1>5. g[S] = p[S]
  BY <1>1, <1>4, RecursionIsSum
<1>6. QED
  BY <1>1, <1>2, <1>5

\* The sums over a sequence of n, with one position more or one less.
LEMMA SumAppend ==
  ASSUME NEW n \in Nat, NEW f, NEW total, IsSum(1..n, f, total),
         NEW g, \A i \in 1..n : g[i] = f[i], g[n + 1] \in Nat
  PROVE  IsSum(1..(n + 1), g, total + g[n + 1])
<1>1. (1..n) \cup {n + 1} = 1..(n + 1) /\ n + 1 \notin 1..n
  BY SMT
<1>2. IsSum((1..n) \cup {n + 1}, g, total + g[n + 1])
  BY <1>1, SumAdd
<1>3. QED
  BY <1>1, <1>2

LEMMA SumRemove ==
  ASSUME NEW n \in Nat, NEW f, NEW total, IsSum(1..n, f, total), NEW k \in 1..n,
         NEW g, \A i \in 1..(n - 1) : g[i] = IF i < k THEN f[i] ELSE f[i + 1]
  PROVE  IsSum(1..(n - 1), g, total - f[k])
<1>1. PICK m : m = [i \in 1..(n - 1) |-> IF i < k THEN i ELSE i + 1]
  BY ZenonT(30)
<1>2. ASSUME NEW i \in 1..(n - 1) PROVE m[i] \in (1..n) \ {k} /\ g[i] = f[m[i]]
  BY SMT, <1>1
<1>3. ASSUME NEW i \in 1..(n - 1), NEW j \in 1..(n - 1), m[i] = m[j] PROVE i = j
  BY SMT, <1>1, <1>3
<1>4. ASSUME NEW x \in (1..n) \ {k} PROVE \E i \in 1..(n - 1) : m[i] = x
  <2>1. CASE x < k
    <3>1. x \in 1..(n - 1) /\ m[x] = x
      BY SMT, <1>1, <2>1
    <3>2. QED
      BY <3>1
  <2>2. CASE x > k
    <3>1. x - 1 \in 1..(n - 1) /\ ~(x - 1 < k) /\ (x - 1) + 1 = x
      BY SMT, <2>2
    <3>2. m[x - 1] = x
      BY <1>1, <3>1
    <3>3. QED
      BY <3>1, <3>2
  <2>3. QED
    BY SMT, <2>1, <2>2
<1>5. AllBut(k, 1..n, f, 1..(n - 1), g, m)
  BY <1>2, <1>3, <1>4 DEF AllBut
<1>6. QED
  BY <1>5, SumLess
-----------------------------------------------------------------------------
(* The bytes of the history *)

Sizes(s) == [i \in 1..Len(history[s]) |-> history[s][i].size]

\* Session.historyBytes is the sum of the sizes of the chunks kept, and
\* Manager.historyBytes the sum of those over the sessions.
SumsInv ==
  /\ sessionBytes \in [Session -> Nat] /\ historyBytes \in Int
  /\ \A s \in Session : IsSum(1..Len(history[s]), Sizes(s), sessionBytes[s])
  /\ IsSum(Session, sessionBytes, historyBytes)

\* Only the session that published can be over its limit, and only while its
\* history is trimmed.
LimitsInv ==
  /\ \A s \in Session : (trim = "own" /\ s = current) \/ sessionBytes[s] <= HistoryBytes
  /\ trim = "none" => historyBytes <= MaxTotalHistoryBytes

\* What a step does to the sums follows from what it does to one session.
LEMMA OneSession ==
  ASSUME SumsInv, NEW s \in Session, NEW n \in Nat,
         sessionBytes' = [sessionBytes EXCEPT ![s] = n],
         historyBytes' = historyBytes + (n - sessionBytes[s]),
         \A x \in Session \ {s} : history'[x] = history[x],
         IsSum(1..Len(history'[s]), Sizes(s)', n)
  PROVE  SumsInv'
<1>1. /\ sessionBytes \in [Session -> Nat] /\ historyBytes \in Int
      /\ IsSum(Session, sessionBytes, historyBytes)
  BY DEF SumsInv
<1>2. /\ sessionBytes' \in [Session -> Nat] /\ sessionBytes'[s] = n
      /\ \A x \in Session \ {s} : sessionBytes'[x] = sessionBytes[x]
  BY <1>1
<1>3. historyBytes' \in Int
  BY SMT, <1>1
<1>4. IsSum(Session, sessionBytes', historyBytes')
  <2>1. PICK w, v, total : w = sessionBytes /\ v = sessionBytes' /\ total = historyBytes
    OBVIOUS
  <2>2. /\ v[s] \in Nat /\ \A x \in Session \ {s} : v[x] = w[x]
        /\ IsSum(Session, w, total)
    BY <1>1, <1>2, <2>1
  <2>3. IsSum(Session, v, total + (v[s] - w[s]))
    BY <2>2, SumChange
  <2>4. historyBytes' = total + (v[s] - w[s])
    BY <1>2, <2>1
  <2>5. QED
    BY <2>1, <2>3, <2>4
<1>5. ASSUME NEW x \in Session PROVE IsSum(1..Len(history'[x]), Sizes(x)', sessionBytes'[x])
  <2>1. CASE x = s
    BY <1>2, <2>1
  <2>2. CASE x # s
    <3>1. history'[x] = history[x] /\ sessionBytes'[x] = sessionBytes[x]
      BY <1>2, <2>2
    <3>2. Sizes(x)' = Sizes(x)
      BY <3>1 DEF Sizes
    <3>3. QED
      BY <3>1, <3>2 DEF SumsInv
  <2>3. QED
    BY <2>1, <2>2
<1>6. QED
  BY <1>2, <1>3, <1>4, <1>5 DEF SumsInv

\* appendHistoryLocked counts the chunk for the session and for the Manager.
LEMMA PublishSums ==
  ASSUME HistoryInv, SumsInv, NEW s \in Session, NEW n \in 1..MaxChunk, Histories!Publish(s, n)
  PROVE  SumsInv'
<1>1. CASE ~Histories!Enabled
  <2>1. UNCHANGED <<history, sessionBytes, historyBytes>>
    BY <1>1 DEF Histories!Publish
  <2>2. QED
    BY <2>1 DEF SumsInv, Sizes
<1>2. CASE Histories!Enabled
  <2>1. PICK b \in Nat :
          /\ b = n \/ (b = HistoryBytes /\ n > HistoryBytes)
          /\ history' = [history EXCEPT ![s] = Append(@, [sequence |-> lastSequence'[s],
                                       whole |-> n, size |-> b, order |-> nextHistory'])]
          /\ sessionBytes' = [sessionBytes EXCEPT ![s] = @ + b]
          /\ historyBytes' = historyBytes + b
    BY SMT, <1>2, OutputAssumption DEF Histories!Publish
  <2>2. PICK c \in Chunk : c.size = b /\ history' = [history EXCEPT ![s] = Append(@, c)]
    <3>1. lastSequence'[s] \in Nat /\ nextHistory' \in Nat
      BY SMT DEF HistoryInv, Histories!Publish
    <3>2. [sequence |-> lastSequence'[s], whole |-> n, size |-> b, order |-> nextHistory'] \in Chunk
      BY SMT, <2>1, <3>1 DEF Chunk
    <3>3. QED
      BY <2>1, <3>2
  <2>3. PICK old \in Nat : old = sessionBytes[s]
    BY DEF SumsInv
  <2>4. PICK k \in Nat : k = Len(history[s]) /\ history[s] \in Seq(Chunk)
    BY SMT DEF HistoryInv
  <2>5. /\ history'[s] = Append(history[s], c)
        /\ \A x \in Session \ {s} : history'[x] = history[x]
    BY <2>2 DEF HistoryInv
  <2>6. /\ Len(history'[s]) = k + 1 /\ history'[s][k + 1] = c
        /\ \A i \in 1..k : history'[s][i] = history[s][i]
    BY SMT, <2>4, <2>5
  <2>7. Sizes(s)' = [i \in 1..(k + 1) |-> history'[s][i].size]
    BY <2>6 DEF Sizes
  <2>8. Sizes(s)'[k + 1] = b /\ \A i \in 1..k : Sizes(s)'[i] = Sizes(s)[i]
    BY SMT, <2>2, <2>4, <2>6, <2>7 DEF Sizes
  <2>9. IsSum(1..k, Sizes(s), old)
    BY <2>3, <2>4 DEF SumsInv
  <2>10. IsSum(1..(k + 1), Sizes(s)', old + b)
    <3>1. PICK f, g : f = Sizes(s) /\ g = Sizes(s)'
      OBVIOUS
    <3>2. IsSum(1..k, f, old) /\ g[k + 1] = b /\ \A i \in 1..k : g[i] = f[i]
      BY <2>8, <2>9, <3>1
    <3>3. IsSum(1..(k + 1), g, old + g[k + 1])
      BY <3>2, SumAppend
    <3>4. QED
      BY <3>1, <3>2, <3>3
  <2>11. /\ sessionBytes' = [sessionBytes EXCEPT ![s] = old + b]
         /\ historyBytes' = historyBytes + ((old + b) - sessionBytes[s])
    BY SMT, <2>1, <2>3 DEF SumsInv
  <2>12. IsSum(1..Len(history'[s]), Sizes(s)', old + b) /\ old + b \in Nat
    BY SMT, <2>6, <2>10
  <2>13. QED
    BY <2>5, <2>11, <2>12, OneSession
<1>3. QED
  BY <1>1, <1>2

\* dropFirstHistoryLocked takes the chunk out of both counters.
LEMMA DropSums ==
  ASSUME HistoryInv, SumsInv, NEW s \in Session, history[s] # <<>>, Histories!DropFirst(s)
  PROVE  /\ SumsInv' /\ sessionBytes'[s] <= sessionBytes[s]
         /\ \A x \in Session \ {s} : sessionBytes'[x] = sessionBytes[x]
<1>1. PICK k \in Nat : k = Len(history[s]) /\ k # 0 /\ history[s] \in Seq(Chunk)
  BY SMT DEF HistoryInv
<1>2. \A i \in 1..k : history[s][i].size \in Nat
  <2>1. \A i \in 1..k : history[s][i] \in Chunk
    BY SMT, <1>1
  <2>2. \A c \in Chunk : c.size \in Nat
    BY DEF Chunk
  <2>3. QED
    BY <2>1, <2>2
<1>3. PICK b \in Nat : b = history[s][1].size /\ b = Head(history[s]).size
  BY SMT, <1>1, <1>2
<1>4. PICK old \in Nat : old = sessionBytes[s] /\ IsSum(1..k, Sizes(s), old)
  BY <1>1 DEF SumsInv
<1>5. /\ history' = [history EXCEPT ![s] = Tail(@)]
      /\ sessionBytes' = [sessionBytes EXCEPT ![s] = @ - b]
      /\ historyBytes' = historyBytes - b
  BY <1>3 DEF Histories!DropFirst
<1>6. /\ history'[s] = Tail(history[s]) /\ \A x \in Session \ {s} : history'[x] = history[x]
  BY <1>5 DEF HistoryInv
<1>7. Len(history'[s]) = k - 1 /\ \A i \in 1..(k - 1) : history'[s][i] = history[s][i + 1]
  BY SMT, <1>1, <1>6
<1>8. /\ Sizes(s) = [i \in 1..k |-> history[s][i].size]
      /\ Sizes(s)' = [i \in 1..(k - 1) |-> history'[s][i].size]
  BY <1>1, <1>7 DEF Sizes
<1>9. /\ \A i \in 1..k : Sizes(s)[i] \in Nat
      /\ Sizes(s)[1] = b
      /\ \A i \in 1..(k - 1) : Sizes(s)'[i] = Sizes(s)[i + 1]
  <2>1. \A i \in 1..k : Sizes(s)[i] = history[s][i].size
    BY <1>8
  <2>2. \A i \in 1..(k - 1) : i + 1 \in 1..k /\ Sizes(s)'[i] = history'[s][i].size
    BY SMT, <1>8
  <2>3. 1 \in 1..k
    BY SMT, <1>1
  <2>4. \A i \in 1..(k - 1) : Sizes(s)'[i] = Sizes(s)[i + 1]
    BY <1>7, <2>1, <2>2
  <2>5. QED
    BY <1>2, <1>3, <2>1, <2>3, <2>4
<1>10. PICK f, g : f = Sizes(s) /\ g = Sizes(s)'
  OBVIOUS
<1>11. IsSum(1..(k - 1), Sizes(s)', old - b)
  <2>1. /\ IsSum(1..k, f, old) /\ 1 \in 1..k /\ f[1] = b
        /\ \A i \in 1..(k - 1) : g[i] = IF i < 1 THEN f[i] ELSE f[i + 1]
    BY SMT, <1>1, <1>4, <1>9, <1>10
  <2>2. IsSum(1..(k - 1), g, old - f[1])
    BY <2>1, SumRemove
  <2>3. QED
    BY <1>10, <2>1, <2>2
<1>12. k - 1 \in Nat /\ old - b \in Nat
  BY SMT, <1>1, <1>11, SumIsNat
<1>13. /\ sessionBytes' = [sessionBytes EXCEPT ![s] = old - b]
       /\ historyBytes' = historyBytes + ((old - b) - sessionBytes[s])
  BY SMT, <1>4, <1>5 DEF SumsInv
<1>14. SumsInv'
  BY <1>6, <1>7, <1>11, <1>12, <1>13, OneSession
<1>15. sessionBytes'[s] <= sessionBytes[s]
  <2>1. sessionBytes'[s] = old - b /\ sessionBytes[s] = old
    BY <1>4, <1>13 DEF SumsInv
  <2>2. QED
    BY SMT, <1>12, <2>1
<1>16. \A x \in Session \ {s} : sessionBytes'[x] = sessionBytes[x]
  BY <1>13 DEF SumsInv
<1>17. QED
  BY <1>14, <1>15, <1>16

\* removeHistoryLocked takes the whole session out of the Manager's counter.
LEMMA RemoveSums ==
  ASSUME HistoryInv, SumsInv, NEW s \in Session, Histories!RemoveHistory(s)
  PROVE  SumsInv'
<1>1. /\ history' = [history EXCEPT ![s] = <<>>] /\ sessionBytes' = [sessionBytes EXCEPT ![s] = 0]
      /\ historyBytes' = historyBytes - sessionBytes[s]
  BY DEF Histories!RemoveHistory
<1>2. history'[s] = <<>> /\ Len(history'[s]) = 0 /\ \A x \in Session \ {s} : history'[x] = history[x]
  BY <1>1 DEF HistoryInv
<1>3. IsSum(1..Len(history'[s]), Sizes(s)', 0)
  BY SMT, <1>2, SumOfZeros
<1>4. historyBytes' = historyBytes + (0 - sessionBytes[s])
  BY SMT, <1>1 DEF SumsInv
<1>5. QED
  BY <1>1, <1>2, <1>3, <1>4, OneSession

\* A session that keeps nothing counts nothing, and neither does a Manager
\* whose sessions keep nothing.
LEMMA EmptyHistory ==
  ASSUME FiniteFacts, SumsInv
  PROVE  /\ \A s \in Session : history[s] = <<>> => sessionBytes[s] = 0
         /\ (\A s \in Session : history[s] = <<>>) => historyBytes = 0
<1>1. ASSUME NEW s \in Session, history[s] = <<>> PROVE sessionBytes[s] = 0
  <2>1. 1..Len(history[s]) = {}
    BY SMT, <1>1
  <2>2. IsSum({}, Sizes(s), sessionBytes[s])
    BY <2>1 DEF SumsInv
  <2>3. QED
    BY <2>2, SumOfNone
<1>2. ASSUME \A s \in Session : history[s] = <<>> PROVE historyBytes = 0
  <2>1. \A s \in Session : sessionBytes[s] = 0
    BY <1>1, <1>2
  <2>2. QED
    BY <2>1, SumOfZerosIsZero, OutputAssumption DEF SumsInv
<1>3. QED
  BY <1>1, <1>2

LEMMA SumsStep == HistoryInv /\ SumsInv /\ [Next]_vars => SumsInv'
<1> SUFFICES ASSUME HistoryInv, SumsInv, [Next]_vars PROVE SumsInv'
  OBVIOUS
<1>1. ASSUME UNCHANGED <<history, sessionBytes, historyBytes>> PROVE SumsInv'
  BY <1>1 DEF SumsInv, Sizes
<1>2. CASE Trim
  <2>1. \/ UNCHANGED <<history, sessionBytes, historyBytes>>
        \/ \E s \in Session : history[s] # <<>> /\ Histories!DropFirst(s)
    BY <1>2 DEF Trim, Histories!TrimOwn, Histories!TrimTotal, Histories!Oldest, HistoryInv
  <2>2. QED
    BY <1>1, <2>1, DropSums
<1>3. CASE \E s \in Session : RemoveSession(s)
  BY <1>3, RemoveSums DEF RemoveSession
<1>4. CASE \E s \in Session : \E n \in 1..MaxChunk : Publish(s, n)
  BY <1>4, PublishSums DEF Publish
<1>5. CASE EmitOther \/ Locked \/ Unlocked \/ UNCHANGED vars
  BY <1>1, <1>5 DEF EmitOther, Locked, Unlocked, vars, stored
<1>6. QED
  BY <1>2, <1>3, <1>4, <1>5 DEF Next

\* The loops end with the limits met: each drops until its limit is met or
\* nothing is left, and nothing counts nothing.
LEMMA LimitsStep == FiniteFacts /\ HistoryInv /\ SumsInv /\ LimitsInv /\ [Next]_vars => LimitsInv'
<1> SUFFICES ASSUME FiniteFacts, HistoryInv, SumsInv, LimitsInv, [Next]_vars PROVE LimitsInv'
  OBVIOUS
<1> USE OutputAssumption
<1>1. /\ sessionBytes \in [Session -> Nat] /\ historyBytes \in Int
      /\ \A s \in Session : sessionBytes[s] \in Nat
  BY DEF SumsInv
<1>2. ASSUME Histories!TrimOwn PROVE LimitsInv'
  <2>1. trim = "own" /\ current \in Session /\ current' = current
    BY <1>2 DEF Histories!TrimOwn, HistoryInv
  <2>2. CASE sessionBytes[current] > HistoryBytes /\ history[current] # <<>>
    <3>1. Histories!DropFirst(current) /\ trim' = trim
      BY <1>2, <2>2 DEF Histories!TrimOwn
    <3>2. \A x \in Session \ {current} : sessionBytes'[x] = sessionBytes[x]
      BY <2>1, <2>2, <3>1, DropSums
    <3>3. QED
      BY <2>1, <3>1, <3>2 DEF LimitsInv
  <2>3. CASE ~(sessionBytes[current] > HistoryBytes /\ history[current] # <<>>)
    <3>1. trim' = "total" /\ UNCHANGED <<sessionBytes, historyBytes>>
      BY <1>2, <2>3 DEF Histories!TrimOwn
    <3>2. sessionBytes[current] <= HistoryBytes
      BY SMT, <1>1, <2>1, <2>3, EmptyHistory
    <3>3. QED
      BY <2>1, <3>1, <3>2 DEF LimitsInv
  <2>4. QED
    BY <2>2, <2>3
<1>3. ASSUME Histories!TrimTotal PROVE LimitsInv'
  <2>1. trim = "total" /\ \A s \in Session : sessionBytes[s] <= HistoryBytes
    BY <1>3 DEF Histories!TrimTotal, LimitsInv
  <2>2. CASE historyBytes > MaxTotalHistoryBytes /\ \E s \in Session : history[s] # <<>>
    <3>1. PICK s \in Session : history[s] # <<>> /\ Histories!DropFirst(s) /\ trim' = trim
      BY <1>3, <2>2 DEF Histories!TrimTotal, Histories!Oldest
    <3>2. /\ sessionBytes'[s] <= sessionBytes[s] /\ SumsInv'
          /\ \A x \in Session \ {s} : sessionBytes'[x] = sessionBytes[x]
      BY <3>1, DropSums
    <3>3. sessionBytes'[s] \in Nat
      BY <3>2 DEF SumsInv
    <3>4. sessionBytes'[s] <= HistoryBytes
      BY SMT, <1>1, <2>1, <3>2, <3>3
    <3>5. \A x \in Session : sessionBytes'[x] <= HistoryBytes
      BY <2>1, <3>2, <3>4
    <3>6. QED
      BY <2>1, <3>1, <3>5 DEF LimitsInv
  <2>3. CASE ~(historyBytes > MaxTotalHistoryBytes /\ \E s \in Session : history[s] # <<>>)
    <3>1. trim' = "none" /\ UNCHANGED <<sessionBytes, historyBytes>>
      BY <1>3, <2>3 DEF Histories!TrimTotal
    <3>2. historyBytes <= MaxTotalHistoryBytes
      BY SMT, <1>1, <2>3, EmptyHistory
    <3>3. QED
      BY <2>1, <3>1, <3>2 DEF LimitsInv
  <2>4. QED
    BY <2>2, <2>3
<1>4. CASE Trim
  BY <1>2, <1>3, <1>4 DEF Trim
<1>5. CASE \E s \in Session : RemoveSession(s)
  <2>1. PICK s \in Session : Histories!RemoveHistory(s)
    BY <1>5 DEF RemoveSession
  <2>2. /\ trim = "none" /\ trim' = "none"
        /\ sessionBytes' = [sessionBytes EXCEPT ![s] = 0]
        /\ historyBytes' = historyBytes - sessionBytes[s]
    BY <2>1 DEF Histories!RemoveHistory
  <2>3. historyBytes' <= MaxTotalHistoryBytes
    BY SMT, <1>1, <2>2 DEF LimitsInv
  <2>4. \A x \in Session : sessionBytes'[x] <= HistoryBytes
    BY SMT, <1>1, <2>2 DEF LimitsInv
  <2>5. QED
    BY <2>2, <2>3, <2>4 DEF LimitsInv
<1>6. CASE \E s \in Session : \E n \in 1..MaxChunk : Publish(s, n)
  <2>1. PICK s \in Session, n \in 1..MaxChunk : Histories!Publish(s, n)
    BY <1>6 DEF Publish
  <2>2. trim = "none" /\ current' = s
    BY <2>1 DEF Histories!Publish
  <2>3. CASE Histories!Enabled
    <3>1. trim' = "own" /\ \E b : sessionBytes' = [sessionBytes EXCEPT ![s] = b]
      BY <2>1, <2>3 DEF Histories!Publish
    <3>2. \A x \in Session \ {s} : sessionBytes'[x] = sessionBytes[x]
      BY <1>1, <3>1
    <3>3. QED
      BY <2>2, <3>1, <3>2 DEF LimitsInv
  <2>4. CASE ~Histories!Enabled
    <3>1. UNCHANGED <<sessionBytes, historyBytes, trim>>
      BY <2>1, <2>4 DEF Histories!Publish
    <3>2. QED
      BY <2>2, <3>1 DEF LimitsInv
  <2>5. QED
    BY <2>3, <2>4
<1>7. CASE EmitOther \/ Locked \/ Unlocked \/ UNCHANGED vars
  <2>1. UNCHANGED stored
    BY <1>7 DEF EmitOther, Locked, Unlocked, vars
  <2>2. QED
    BY <2>1 DEF LimitsInv, stored
<1>8. QED
  BY <1>4, <1>5, <1>6, <1>7 DEF Next

(***************************************************************************)
(* The library's sum of a function is the sum of its values.               *)
(***************************************************************************)
LEMMA SumFunctionIsSum ==
  ASSUME FiniteFacts, NEW f, IsFiniteSet(DOMAIN f), NEW total, IsSum(DOMAIN f, f, total)
  PROVE  SumFunction(f) = total
<1> DEFINE D == DOMAIN f
           One(A) == CHOOSE x \in A : TRUE
           F(g) == [A \in SUBSET D |->
                      IF A = {} THEN 0 ELSE f[One(A)] + g[A \ {One(A)}]]
<1>1. SumFunction(f) = (CHOOSE g : g = F(g))[D]
  BY DEF SumFunction, SumFunctionOnSet, FoldFunctionOnSet, MapThenFoldSet
<1>2. \A A : A # {} => One(A) \in A
  OBVIOUS
<1>3. IsSum(D, f, total) /\ IsFiniteSet(D)
  OBVIOUS
<1> HIDE DEF One, D
<1>4. PICK p : SumsBy(p, D, f) /\ p[D] = total
  BY <1>3 DEF IsSum
<1>5. ASSUME NEW A \in SUBSET D, A # {}
      PROVE  p[A] = f[One(A)] + p[A \ {One(A)}]
  <2>1. PICK x \in A : x = One(A)
    BY <1>2, <1>5
  <2>2. A \ {x} \in SUBSET D /\ x \in D \ (A \ {x}) /\ (A \ {x}) \cup {x} = A
    OBVIOUS
  <2>3. p[(A \ {x}) \cup {x}] = p[A \ {x}] + f[x] /\ p[A \ {x}] \in Nat /\ f[x] \in Nat
    BY <1>4, <2>2 DEF SumsBy
  <2>4. p[A] = f[x] + p[A \ {x}]
    <3>1. p[A] = p[A \ {x}] + f[x]
      BY <2>2, <2>3
    <3>2. QED
      BY SMT, <2>3, <3>1
  <2>5. QED
    BY <2>1, <2>4
<1>6. p = F(p)
  <2>1. p = [A \in SUBSET D |-> p[A]] /\ p[{}] = 0
    BY <1>4 DEF SumsBy
  <2>2. \A A \in SUBSET D : p[A] = F(p)[A]
    BY <1>5, <2>1
  <2>3. F(p) = [A \in SUBSET D |-> F(p)[A]]
    OBVIOUS
  <2> HIDE DEF F
  <2>4. QED
    BY <2>1, <2>2, <2>3
<1>7. PICK g : g = F(g) /\ g = CHOOSE h : h = F(h)
  BY <1>6
<1>8. TakesOneByOne(g, D, f)
  <2>1. g[{}] = 0
    BY <1>7
  <2>2. ASSUME NEW A \in SUBSET D, A # {}
        PROVE  \E x \in A : g[A] = f[x] + g[A \ {x}] \/ g[A] = g[A \ {x}] + f[x]
    <3>1. PICK x \in A : x = One(A)
      BY <1>2, <2>2
    <3>2. g[A] = f[One(A)] + g[A \ {One(A)}]
      BY <1>7, <2>2
    <3>3. QED
      BY <3>1, <3>2
  <2>3. QED
    BY <2>1, <2>2 DEF TakesOneByOne
<1> HIDE DEF F
<1>9. g[D] = p[D]
  BY <1>3, <1>4, <1>8, RecursionIsSum
<1>10. QED
  BY <1>1, <1>4, <1>7, <1>9

LEMMA SumsAreExact == FiniteFacts /\ HistoryInv /\ SumsInv /\ LimitsInv => HistoryExact
<1> SUFFICES ASSUME FiniteFacts, HistoryInv, SumsInv, LimitsInv PROVE HistoryExact
  OBVIOUS
<1>1. ASSUME NEW s \in Session PROVE sessionBytes[s] = Bytes(history[s])
  <2>1. PICK w, chunks, total : w = Sizes(s) /\ chunks = history[s] /\ total = sessionBytes[s]
    OBVIOUS
  <2>2. chunks \in Seq(Chunk) /\ IsSum(1..Len(chunks), w, total)
    BY <2>1 DEF HistoryInv, SumsInv
  <2>3. Len(chunks) \in Nat /\ DOMAIN chunks = 1..Len(chunks)
    BY SMT, <2>2
  <2>4. DOMAIN w = 1..Len(chunks) /\ w = [i \in DOMAIN chunks |-> chunks[i].size]
    BY <2>1, <2>3 DEF Sizes
  <2>5. IsFiniteSet(1..Len(chunks))
    BY <2>3 DEF FiniteFacts
  <2>6. SumFunction(w) = total
    BY <2>2, <2>4, <2>5, SumFunctionIsSum
  <2>7. QED
    BY <2>1, <2>4, <2>6 DEF Bytes
<1>2. historyBytes = SumFunction([s \in Session |-> Bytes(history[s])])
  <2>1. PICK w, total : w = sessionBytes /\ total = historyBytes
    OBVIOUS
  <2>2. DOMAIN w = Session /\ IsSum(DOMAIN w, w, total) /\ IsFiniteSet(DOMAIN w)
    BY <2>1, OutputAssumption DEF SumsInv
  <2>3. w = [s \in Session |-> Bytes(history[s])]
    BY <1>1, <2>1 DEF SumsInv
  <2>4. SumFunction(w) = total
    BY <2>2, SumFunctionIsSum
  <2>5. QED
    BY <2>1, <2>3, <2>4
<1>3. trim = "none" => /\ historyBytes <= MaxTotalHistoryBytes
                       /\ \A s \in Session : sessionBytes[s] <= HistoryBytes
  BY DEF LimitsInv
<1>4. QED
  BY <1>1, <1>2, <1>3 DEF HistoryExact

-----------------------------------------------------------------------------
(* The replay *)

\* g is the recursive function of Replay for the chunks h and resumeAfter n.
Replays(g, h, n) ==
  g = [i \in 0..Len(h) |-> IF i = 0 THEN <<>>
                           ELSE IF h[i].sequence <= n THEN g[i - 1]
                           ELSE Append(g[i - 1], h[i])]

\* There is such a function.
LEMMA ReplayedExists ==
  ASSUME NEW C, NEW h \in Seq(C), NEW n, NEW k \in Nat,
         \A i \in 1..Len(h) : h[i].sequence <= n <=> i <= k
  PROVE  \E g : Replays(g, h, n)
<1> DEFINE kept(i) == [j \in 1..(i - k) |-> h[k + j]]
           g == [i \in 0..Len(h) |-> IF i <= k THEN <<>> ELSE kept(i)]
           next(i) == IF i = 0 THEN <<>> ELSE IF h[i].sequence <= n THEN g[i - 1]
                      ELSE Append(g[i - 1], h[i])
<1>1. PICK N \in Nat : N = Len(h)
  BY SMT
<1>2. ASSUME NEW i \in 0..N PROVE g[i] = next(i)
  <2>1. CASE i <= k
    <3>1. g[i] = <<>> /\ (i # 0 => g[i - 1] = <<>>)
      BY SMT, <1>1, <2>1
    <3>2. i # 0 => h[i].sequence <= n
      BY SMT, <1>1, <2>1
    <3> HIDE DEF g
    <3>3. QED
      BY <3>1, <3>2
  <2>2. CASE ~(i <= k)
    <3>1. i \in 1..N /\ i - 1 \in 0..N /\ ~(h[i].sequence <= n) /\ g[i] = kept(i)
      BY SMT, <1>1, <2>2
    <3>2. g[i - 1] = kept(i - 1)
      <4>1. CASE i - 1 <= k
        <5>1. 1..((i - 1) - k) = {}
          BY SMT, <2>2, <4>1
        <5>2. kept(i - 1) = <<>>
          BY SMT, <5>1
        <5>3. QED
          BY <1>1, <3>1, <4>1, <5>2
      <4>2. CASE ~(i - 1 <= k)
        BY <1>1, <3>1, <4>2
      <4>3. QED
        BY <4>1, <4>2
    <3>3. kept(i) = Append(kept(i - 1), h[i])
      <4>1. PICK m \in Nat : m = (i - 1) - k /\ i - k = m + 1 /\ k + (m + 1) = i
        BY SMT, <2>2
      <4>2. PICK old : old = [j \in 1..m |-> h[k + j]]
        OBVIOUS
      <4>3. old \in Seq(C) /\ Len(old) = m
        <5>1. \A j \in 1..m : k + j \in 1..N
          BY SMT, <3>1, <4>1
        <5>2. \A j \in 1..m : h[k + j] \in C
          <6>1. \A x \in 1..N : h[x] \in C
            BY SMT, <1>1
          <6>2. QED
            BY <5>1, <6>1
        <5>3. QED
          BY SMT, <4>2, <5>2
      <4>4. Append(old, h[i]) = [j \in 1..(m + 1) |-> IF j = m + 1 THEN h[i] ELSE old[j]]
        BY SMT, <4>3
      <4>5. [j \in 1..(m + 1) |-> IF j = m + 1 THEN h[i] ELSE old[j]] = [j \in 1..(m + 1) |-> h[k + j]]
        <5>1. ASSUME NEW j \in 1..(m + 1)
              PROVE  (IF j = m + 1 THEN h[i] ELSE old[j]) = h[k + j]
          <6>1. CASE j = m + 1
            BY <4>1, <6>1
          <6>2. CASE j # m + 1
            BY SMT, <4>2, <6>2
          <6>3. QED
            BY <6>1, <6>2
        <5>2. QED
          BY <5>1
      <4>6. QED
        BY <4>1, <4>2, <4>4, <4>5
    <3> HIDE DEF g, kept
    <3>4. QED
      BY SMT, <3>1, <3>2, <3>3
  <2>3. QED
    BY <2>1, <2>2
<1>3. g = [i \in 0..N |-> g[i]]
  BY <1>1
<1> HIDE DEF g
<1>4. g = [i \in 0..N |-> next(i)]
  BY <1>2, <1>3
<1>5. Replays(g, h, n)
  BY <1>1, <1>4 DEF Replays
<1>6. QED
  BY <1>5

\* r is h without its first k elements.
Keeps(r, h, k) ==
  /\ Len(r) = IF Len(h) <= k THEN 0 ELSE Len(h) - k
  /\ \A j \in 1..Len(r) : r[j] = h[k + j]

\* When the chunks to skip are the first k, the loop keeps the others.
LEMMA ReplayKeeps ==
  ASSUME FiniteFacts, NEW C, NEW h \in Seq(C), NEW n, NEW k \in Nat,
         \A i \in 1..Len(h) : h[i].sequence <= n <=> i <= k,
         NEW g, Replays(g, h, n)
  PROVE  Keeps(g[Len(h)], h, k)
<1> DEFINE Good(i) == /\ g[i] \in Seq(C) /\ Len(g[i]) = IF i <= k THEN 0 ELSE i - k
                      /\ \A j \in 1..Len(g[i]) : g[i][j] = h[k + j]
<1>1. PICK N \in Nat : N = Len(h)
  BY SMT
<1>2. \A i \in 0..N : g[i] = IF i = 0 THEN <<>> ELSE IF h[i].sequence <= n THEN g[i - 1]
                            ELSE Append(g[i - 1], h[i])
  BY <1>1 DEF Replays
<1>3. PICK T : T = {1..i : i \in {j \in 0..N : ~Good(j)}}
  BY ZenonT(30)
<1>4. ASSUME NEW M \in T, \A B \in T : ~(B \subseteq M /\ B # M) PROVE FALSE
  <2>1. PICK i \in 0..N : M = 1..i /\ ~Good(i)
    BY <1>3
  <2>2. CASE i = 0
    <3>2. g[i] = <<>>
      BY <1>2, <2>2
    <3>3. <<>> \in Seq(C) /\ Len(<<>>) = 0 /\ i <= k
      BY SMT, <2>2
    <3>4. Good(i)
      <4>1. g[i] \in Seq(C) /\ Len(g[i]) = 0
        BY <3>2, <3>3
      <4>2. 1..Len(g[i]) = {}
        BY SMT, <4>1
      <4>3. QED
        BY <3>3, <4>1, <4>2
    <3>5. QED
      BY <2>1, <3>4
  <2>3. CASE i # 0
    <3>1. /\ i - 1 \in 0..N /\ i \in 1..N /\ i \in 1..i /\ 1..i # {}
          /\ (1..i) \ {i} = 1..(i - 1) /\ 1..(i - 1) \subseteq 1..i /\ 1..(i - 1) # 1..i
      <4>1. i - 1 \in 0..N /\ i \in 1..N /\ i \in 1..i /\ i \notin 1..(i - 1)
        BY SMT, <2>3
      <4>2. (1..i) \ {i} = 1..(i - 1) /\ 1..(i - 1) \subseteq 1..i
        BY SMT, <2>3
      <4>3. QED
        BY <4>1, <4>2
    <3>2. Good(i - 1)
      <4>1. 1..(i - 1) \notin T
        BY <1>4, <2>1, <3>1
      <4>2. QED
        BY <1>3, <3>1, <4>1
    <3>4. g[i] = IF h[i].sequence <= n THEN g[i - 1] ELSE Append(g[i - 1], h[i])
      BY <1>2, <2>3
    <3>5. h[i] \in C /\ (h[i].sequence <= n <=> i <= k)
      BY SMTT(30), <1>1, <3>1
    <3>6. CASE i <= k
      <4>1. g[i] = g[i - 1] /\ i - 1 <= k
        BY SMT, <3>4, <3>5, <3>6
      <4>2. Good(i)
        BY <3>2, <3>6, <4>1
      <4>3. QED
        BY <2>1, <4>2
    <3>7. CASE ~(i <= k)
      <4>1. g[i] = Append(g[i - 1], h[i])
        BY <3>4, <3>5, <3>7
      <4>2. PICK old \in Seq(C) : old = g[i - 1]
        BY <3>2
      <4>3. g[i] \in Seq(C) /\ Len(g[i]) = Len(old) + 1
        <5>1. Append(old, h[i]) \in Seq(C) /\ Len(Append(old, h[i])) = Len(old) + 1
          BY SMT, <3>5
        <5>2. g[i] = Append(old, h[i])
          BY <4>1, <4>2
        <5>3. QED
          BY <5>1, <5>2
      <4>4. Len(old) = IF i - 1 <= k THEN 0 ELSE (i - 1) - k
        BY <3>2, <4>2
      <4>5. Len(old) = (i - 1) - k
        BY SMT, <3>7, <4>4
      <4>6. Len(g[i]) = IF i <= k THEN 0 ELSE i - k
        BY SMT, <3>7, <4>3, <4>5
      <4>7. ASSUME NEW j \in 1..Len(g[i]) PROVE g[i][j] = h[k + j]
        <5>1. CASE j = Len(old) + 1
          <6>1. Append(old, h[i])[Len(old) + 1] = h[i]
            BY SMT, <3>5
          <6>2. k + j = i
            BY SMT, <4>5, <5>1
          <6>3. QED
            BY <4>1, <4>2, <5>1, <6>1, <6>2
        <5>2. CASE j # Len(old) + 1
          <6>1. j \in 1..Len(old)
            BY SMT, <4>3, <5>2
          <6>2. Append(old, h[i])[j] = old[j]
            BY SMT, <3>5, <6>1
          <6>3. old[j] = h[k + j]
            BY <3>2, <4>2, <6>1
          <6>4. QED
            BY <4>1, <4>2, <6>2, <6>3
        <5>3. QED
          BY <5>1, <5>2
      <4>8. Good(i)
        BY <4>3, <4>6, <4>7
      <4>9. QED
        BY <2>1, <4>8
    <3>8. QED
      BY <3>6, <3>7
  <2>4. QED
    BY <2>2, <2>3
<1>5. ASSUME NEW M \in T PROVE M \subseteq 1..N
  <2>1. PICK i \in 0..N : M = 1..i
    BY <1>3
  <2>2. QED
    BY SMT, <2>1
<1> HIDE DEF Good
<1>6. T = {}
  <2>1. IsFiniteSet(1..N)
    BY DEF FiniteFacts
  <2>2. QED
    BY SMT, <1>4, <1>5, <2>1 DEF FiniteFacts
<1>7. Good(N)
  <2>1. N \in 0..N
    BY SMT
  <2>2. ~Good(N) => 1..N \in T
    BY <1>3, <2>1
  <2>3. QED
    BY <1>6, <2>2
<1> USE DEF Good
<1>8. QED
  BY <1>1, <1>7 DEF Keeps

\* Where the replay begins, when N chunks are kept and the first k are skipped.
LEMMA ReplayBegins ==
  ASSUME NEW last \in Nat, NEW n \in Nat, NEW N \in Nat, NEW k \in Nat, NEW j \in Nat
  PROVE  last - N + (k + j) = n + (last - n - (N - k)) + j
  BY SMT

\* Chunks are missing if the history begins after the one to replay first.
LEMMA ReplayMisses ==
  ASSUME NEW last \in Nat, NEW n \in Nat, NEW N \in Nat, NEW k \in Nat,
         k = IF n < last - N THEN 0 ELSE n - (last - N)
  PROVE  n + 1 < last - N + 1 <=> last - n - (N - k) > 0
  BY SMT

\* What is kept of a session ends with its last chunk, so the chunks Attach
\* skips are the first ones, and none when the history begins after n.
LEMMA ReplayIsHonest == FiniteFacts /\ HistoryInv => ReplayHonest
<1> SUFFICES ASSUME FiniteFacts, HistoryInv, NEW s \in Session, NEW n \in 0..lastSequence[s]
             PROVE  LET replay == Histories!Replay(s, n)
                        missing == lastSequence[s] - n - Len(replay)
                    IN /\ \A k \in 1..Len(replay) :
                            /\ replay[k].sequence = n + missing + k
                            /\ \/ replay[k].size = replay[k].whole
                               \/ replay[k].size = HistoryBytes /\ replay[k].whole > HistoryBytes
                       /\ missing > 0 <=> \/ Histories!Truncated(s, n)
                                          \/ replay = <<>> /\ n < lastSequence[s]
  BY DEF ReplayHonest
<1>1. PICK h \in Seq(Chunk) : h = history[s]
  BY DEF HistoryInv
<1>2. PICK last \in Nat : last = lastSequence[s] /\ n \in Nat /\ n <= last
  BY SMT DEF HistoryInv
<1>3. PICK N \in Nat : N = Len(h)
  BY SMT
<1>4. \A i \in 1..N : h[i].sequence = last - N + i
  BY <1>1, <1>2, <1>3 DEF HistoryInv
<1>5. PICK k \in 0..N : /\ k = IF n < last - N THEN 0 ELSE n - (last - N)
                        /\ \A i \in 1..N : h[i].sequence <= n <=> i <= k
  <2> DEFINE k == IF n < last - N THEN 0 ELSE n - (last - N)
  <2>1. k \in 0..N
    BY SMT, <1>2
  <2>2. \A i \in 1..N : last - N + i <= n <=> i <= k
    BY SMT, <1>2
  <2> HIDE DEF k
  <2>3. \A i \in 1..N : h[i].sequence <= n <=> i <= k
    BY <1>4, <2>2
  <2>4. QED
    BY <2>1, <2>3 DEF k
<1> DEFINE F(g) == [i \in 0..Len(h) |-> IF i = 0 THEN <<>>
                                        ELSE IF h[i].sequence <= n THEN g[i - 1]
                                        ELSE Append(g[i - 1], h[i])]
<1>6. Histories!Replay(s, n) = (CHOOSE g : g = F(g))[Len(h)]
  BY <1>1 DEF Histories!Replay
<1>7. \A g : g = F(g) <=> Replays(g, h, n)
  BY DEF Replays
<1> HIDE DEF F
<1>8. k \in Nat /\ n \in Nat
  BY SMT, <1>2
<1>9. PICK g : g = F(g) /\ g = CHOOSE e : e = F(e)
  <2>1. \E g : Replays(g, h, n)
    BY <1>3, <1>5, <1>8, ReplayedExists
  <2>2. QED
    BY <1>7, <2>1
<1>10. PICK replay : replay = Histories!Replay(s, n) /\ replay = g[Len(h)]
  BY <1>6, <1>9
<1>11. Len(replay) = N - k /\ \A j \in 1..Len(replay) : replay[j] = h[k + j]
  <2>1. Replays(g, h, n) /\ \A i \in 1..Len(h) : h[i].sequence <= n <=> i <= k
    BY <1>3, <1>5, <1>7, <1>9
  <2>2. Keeps(g[Len(h)], h, k)
    BY <1>8, <2>1, ReplayKeeps
  <2>3. Len(replay) = IF N <= k THEN 0 ELSE N - k
    BY <1>3, <1>10, <2>2 DEF Keeps
  <2>4. Len(replay) = N - k
    BY SMT, <2>3
  <2>5. QED
    BY <1>10, <2>2, <2>4 DEF Keeps
<1>12. ASSUME NEW j \in 1..Len(replay)
       PROVE  /\ replay[j].sequence = n + (last - n - Len(replay)) + j
              /\ \/ replay[j].size = replay[j].whole
                 \/ replay[j].size = HistoryBytes /\ replay[j].whole > HistoryBytes
  <2>1. k + j \in 1..N
    BY SMT, <1>11
  <2>2. replay[j] = h[k + j] /\ h[k + j].sequence = last - N + (k + j)
    BY <1>4, <1>11, <2>1
  <2>3. last - N + (k + j) = n + (last - n - (N - k)) + j
    <3>1. j \in Nat
      BY SMT, <1>11
    <3>2. QED
      BY SMT, <1>8, <3>1, ReplayBegins
  <2>4. h[k + j] \in Chunk
    BY SMT, <1>3, <2>1
  <2>5. QED
    BY <1>11, <2>2, <2>3, <2>4 DEF Chunk
<1>13. last - n - Len(replay) > 0 <=> Histories!Truncated(s, n) \/ (replay = <<>> /\ n < last)
  <2>1. CASE h = <<>>
    <3>1. ~Histories!Truncated(s, n)
      BY <1>1, <2>1 DEF Histories!Truncated
    <3>2. N = 0 /\ Len(replay) = 0
      BY SMT, <1>3, <1>11, <2>1
    <3>3. g[0] = <<>>
      <4>1. Replays(g, h, n)
        BY <1>7, <1>9
      <4>2. 0 \in 0..Len(h)
        BY SMT, <1>3
      <4>3. QED
        BY <4>1, <4>2 DEF Replays
    <3>4. replay = <<>>
      BY <1>3, <1>10, <3>2, <3>3
    <3>5. last - n - Len(replay) > 0 <=> n < last
      BY SMT, <1>2, <3>2
    <3>6. QED
      BY <3>1, <3>4, <3>5
  <2>2. CASE h # <<>>
    <3>1. N # 0 /\ Head(h) = h[1] /\ 1 \in 1..N
      BY SMT, <1>3, <2>2
    <3>2. Histories!Truncated(s, n) <=> n + 1 < last - N + 1
      BY <1>1, <1>4, <2>2, <3>1 DEF Histories!Truncated
    <3>3. n + 1 < last - N + 1 <=> last - n - (N - k) > 0
      <4>1. k = IF n < last - N THEN 0 ELSE n - (last - N)
        BY <1>5
      <4>2. QED
        BY SMT, <1>8, <4>1, ReplayMisses
    <3>4. replay = <<>> => Len(replay) = 0
      BY SMT
    <3>5. replay = <<>> /\ n < last => last - n - (N - k) > 0
      BY SMT, <1>2, <1>11, <3>4
    <3>6. QED
      BY <1>11, <3>2, <3>3, <3>5
  <2>3. QED
    BY <2>1, <2>2
<1>14. QED
  BY <1>2, <1>10, <1>12, <1>13

INSTANCE FiniteSetTheorems

LEMMA FiniteFactsHold == FiniteFacts
<1>1. ASSUME NEW S, IsFiniteSet(S), NEW T, T # {}, \A A \in T : A \subseteq S
      PROVE  \E A \in T : \A B \in T : ~(B \subseteq A /\ B # A)
  <2>1. T \subseteq FiniteSubsetsOf(S)
    BY <1>1, FS_Subset DEF FiniteSubsetsOf
  <2>2. IsWellFoundedOn(StrictSubsetOrdering(S), FiniteSubsetsOf(S))
    BY FS_StrictSubsetOrderingWellFounded
  <2>3. PICK A \in T : \A B \in T : ~(<<B, A>> \in StrictSubsetOrdering(S))
    BY <1>1, <2>1, <2>2, WFMin
  <2>4. \A B \in T : B \subseteq A /\ B # A => <<B, A>> \in StrictSubsetOrdering(S)
    BY <1>1 DEF StrictSubsetOrdering
  <2>5. ASSUME NEW B \in T PROVE ~(B \subseteq A /\ B # A)
    BY <2>3, <2>4
  <2>6. QED
    BY <2>5
<1>2. ASSUME NEW n \in Nat PROVE IsFiniteSet(1..n)
  BY SMT, FS_Interval
<1>3. QED
  BY SMT, <1>1, <1>2 DEF FiniteFacts

\* Both byte counters are at every moment what the chunks kept add up to, and
\* with the mutex free both limits hold, after any publishes, evictions across
\* sessions and removals, for every number of sessions and all limits.
THEOREM HistoryCountersCorrect == Spec => []HistoryExact
<1>1. Init => HistoryInv
  BY SMT DEF Init, Histories!Init, HistoryInv
<1>2. ASSUME Init PROVE SumsInv
  <2>1. /\ history = [s \in Session |-> <<>>] /\ sessionBytes = [s \in Session |-> 0]
        /\ historyBytes = 0
    BY <1>2 DEF Init, Histories!Init
  <2>2. sessionBytes \in [Session -> Nat] /\ \A s \in Session : sessionBytes[s] = 0
    BY <2>1
  <2>3. IsSum(Session, sessionBytes, 0)
    BY <2>2, SumOfZeros
  <2>4. \A s \in Session : 1..Len(history[s]) = {}
    BY SMT, <2>1
  <2>5. \A s \in Session : IsSum(1..Len(history[s]), Sizes(s), sessionBytes[s])
    BY <2>2, <2>4, SumOfZeros
  <2>6. QED
    BY SMTT(30), <2>1, <2>2, <2>3, <2>5 DEF SumsInv
<1>3. Init => LimitsInv
  BY SMTT(30), OutputAssumption DEF Init, Histories!Init, LimitsInv
<1>4. QED
  BY <1>1, <1>2, <1>3, FiniteFactsHold, HistoryStep, SumsStep, LimitsStep, SumsAreExact, PTL
     DEF Spec

\* A client that resumes gets the last chunks without a hole, each as it was kept,
\* and can tell by Truncated, or by NextLive when nothing is left to replay,
\* exactly when chunks are missing, however sessions evict each other's chunks,
\* for every number of sessions and all limits.
THEOREM ReplayIsComplete == Spec => []ReplayHonest
<1>1. Init => HistoryInv
  BY SMT DEF Init, Histories!Init, HistoryInv
<1>2. QED
  BY <1>1, HistoryStep, ReplayIsHonest, FiniteFactsHold, PTL DEF Spec
=============================================================================
