------------------------- MODULE PeerOutboundProofs -------------------------
(***************************************************************************)
(* Proofs about PeerOutbound for every set of streams and callers and      *)
(* every configuration.  Inv is the inductive invariant: the properties of *)
(* PeerOutbound plus Allocated, which says which requests exist.  The last *)
(* sections follow the byte and frame counters: they are sums over sets    *)
(* that grow and shrink by one element, and the folds by which             *)
(* CountersExact is stated compute those sums.                             *)
(***************************************************************************)
EXTENDS PeerOutboundLimits, TLAPS

\* Most steps are set theory, which Zenon does; a step with arithmetic cites SMT.
USE Zenon

(***************************************************************************)
(* Removing one position keeps the others in order: the effect of Go's     *)
(* append(s[:i], s[i+1:]...) on outboundOrder and canceledOrder.           *)
(***************************************************************************)
LEMMA RemoveIndexFacts ==
  ASSUME NEW S, NEW s \in Seq(S), NEW i \in 1..Len(s)
  PROVE  /\ RemoveIndex(s, i) \in Seq(S)
         /\ Len(RemoveIndex(s, i)) = Len(s) - 1
         /\ \A j \in 1..(Len(s) - 1) :
              RemoveIndex(s, i)[j] = IF j < i THEN s[j] ELSE s[j + 1]
<1> DEFINE a == SubSeq(s, 1, i - 1)
           b == SubSeq(s, i + 1, Len(s))
<1>1. \A j \in 1..Len(s) : s[j] \in S
  BY SMT
<1>2. /\ a \in Seq(S) /\ Len(a) = i - 1
      /\ \A j \in 1..(i - 1) : a[j] = s[j]
  BY SMT, <1>1
<1>3. /\ b \in Seq(S) /\ Len(b) = Len(s) - i
      /\ \A j \in 1..(Len(s) - i) : b[j] = s[i + j]
  BY SMT, <1>1
<1>4. RemoveIndex(s, i) = a \o b
  BY DEF RemoveIndex
<1> HIDE DEF a, b
<1>5. a \in Seq(S) /\ b \in Seq(S)
  BY <1>2, <1>3
<1>6. /\ a \o b \in Seq(S)
      /\ Len(a \o b) = Len(a) + Len(b)
      /\ \A j \in 1..(Len(a) + Len(b)) :
           (a \o b)[j] = IF j <= Len(a) THEN a[j] ELSE b[j - Len(a)]
  BY SMT, <1>5
<1>7. /\ a \o b \in Seq(S)
      /\ Len(a \o b) = Len(s) - 1
  BY SMT, <1>2, <1>3, <1>6
<1>8. ASSUME NEW j \in 1..(Len(s) - 1)
      PROVE  (a \o b)[j] = IF j < i THEN s[j] ELSE s[j + 1]
  <2>1. (a \o b)[j] = IF j <= Len(a) THEN a[j] ELSE b[j - Len(a)]
    BY SMT, <1>2, <1>3, <1>6
  <2>2. QED
    BY SMT, <1>2, <1>3, <2>1
<1>9. QED
  BY <1>4, <1>7, <1>8

(***************************************************************************)
(* Only the empty sequence has length zero.                                *)
(***************************************************************************)
LEMMA EmptyLen ==
  ASSUME NEW S
  PROVE  \A s \in Seq(S) : s = <<>> <=> Len(s) = 0
  BY SMT

(***************************************************************************)
(* Taking the head, as Go's queue = queue[1:] does.                        *)
(***************************************************************************)
LEMMA TailFacts ==
  ASSUME NEW S, NEW s \in Seq(S), s # <<>>
  PROVE  /\ Len(s) \in Nat \ {0} /\ Head(s) = s[1] /\ s[1] \in S
         /\ Tail(s) \in Seq(S)
         /\ Len(Tail(s)) = Len(s) - 1
         /\ \A i \in 1..Len(Tail(s)) : i + 1 \in 1..Len(s) /\ Tail(s)[i] = s[i + 1]
         /\ Tail(s) = <<>> <=> Len(s) = 1
<1>1. /\ Len(s) \in Nat \ {0} /\ Head(s) = s[1] /\ s[1] \in S
      /\ Tail(s) \in Seq(S)
      /\ Len(Tail(s)) = Len(s) - 1
      /\ \A i \in 1..Len(Tail(s)) : i + 1 \in 1..Len(s) /\ Tail(s)[i] = s[i + 1]
  BY SMT
<1>2. Tail(s) = <<>> <=> Len(Tail(s)) = 0
  BY <1>1, EmptyLen
<1>3. QED
  BY SMT, <1>1, <1>2

(***************************************************************************)
(* Adding at the end.                                                      *)
(***************************************************************************)
LEMMA AppendFacts ==
  ASSUME NEW S, NEW s \in Seq(S), NEW e \in S
  PROVE  /\ Append(s, e) \in Seq(S) /\ Append(s, e) # <<>>
         /\ Len(s) \in Nat /\ Len(Append(s, e)) = Len(s) + 1
         /\ \A i \in 1..Len(s) : Append(s, e)[i] = s[i]
         /\ Append(s, e)[Len(s) + 1] = e
<1>1. /\ Append(s, e) \in Seq(S)
      /\ Len(s) \in Nat /\ Len(Append(s, e)) = Len(s) + 1
      /\ \A i \in 1..Len(s) : Append(s, e)[i] = s[i]
      /\ Append(s, e)[Len(s) + 1] = e
  BY SMT
<1>2. Len(<<>>) = 0
  OBVIOUS
<1>3. QED
  BY SMT, <1>1, <1>2

(***************************************************************************)
(* Appending keeps a sequence free of duplicates when the element is new,  *)
(* and adds exactly that element to its range.                             *)
(***************************************************************************)
LEMMA AppendNew ==
  ASSUME NEW S, NEW s \in Seq(S), NEW e \in S,
         \A i, j \in 1..Len(s) : s[i] = s[j] => i = j,
         \A i \in 1..Len(s) : s[i] # e
  PROVE  /\ Append(s, e) \in Seq(S)
         /\ Len(Append(s, e)) = Len(s) + 1
         /\ \A i, j \in 1..Len(Append(s, e)) : Append(s, e)[i] = Append(s, e)[j] => i = j
         /\ {Append(s, e)[i] : i \in 1..Len(Append(s, e))} = {s[i] : i \in 1..Len(s)} \cup {e}
  BY SMT

(***************************************************************************)
(* Removing a position of a duplicate-free sequence leaves it duplicate-   *)
(* free and takes exactly that element out of its range.                   *)
(***************************************************************************)
LEMMA RemoveIndexUnique ==
  ASSUME NEW S, NEW s \in Seq(S), NEW p \in 1..Len(s),
         \A i, j \in 1..Len(s) : s[i] = s[j] => i = j
  PROVE  LET r == RemoveIndex(s, p)
         IN /\ r \in Seq(S)
            /\ Len(r) = Len(s) - 1
            /\ \A i, j \in 1..Len(r) : r[i] = r[j] => i = j
            /\ {r[i] : i \in 1..Len(r)} = {s[i] : i \in 1..Len(s)} \ {s[p]}
<1> DEFINE r == RemoveIndex(s, p)
<1>1. /\ r \in Seq(S)
      /\ Len(r) = Len(s) - 1
      /\ \A j \in 1..(Len(s) - 1) : r[j] = IF j < p THEN s[j] ELSE s[j + 1]
  BY RemoveIndexFacts
<1> HIDE DEF r
<1>2. ASSUME NEW i \in 1..Len(r), NEW j \in 1..Len(r), r[i] = r[j]
      PROVE  i = j
  <2> DEFINE f(k) == IF k < p THEN k ELSE k + 1
  <2>1. f(i) \in 1..Len(s) /\ f(j) \in 1..Len(s)
    BY SMT, <1>1
  <2>2. r[i] = s[f(i)] /\ r[j] = s[f(j)]
    BY <1>1
  <2>3. f(i) = f(j)
    BY <1>2, <2>1, <2>2
  <2>4. QED
    BY SMT, <2>3
<1>3. ASSUME NEW i \in 1..Len(r)
      PROVE  r[i] \in {s[j] : j \in 1..Len(s)} \ {s[p]}
  BY SMT, <1>1
<1>4. ASSUME NEW i \in 1..Len(s), i # p
      PROVE  s[i] \in {r[j] : j \in 1..Len(r)}
  <2>1. CASE i < p
    BY SMT, <1>1, <1>4, <2>1
  <2>2. CASE i > p
    <3>1. i - 1 \in 1..Len(r) /\ r[i - 1] = s[i]
      BY SMT, <1>1, <2>2
    <3>2. QED
      BY <3>1
  <2>3. QED
    BY SMT, <1>4, <2>1, <2>2
<1>5. {r[i] : i \in 1..Len(r)} = {s[i] : i \in 1..Len(s)} \ {s[p]}
  <2>1. {r[i] : i \in 1..Len(r)} \subseteq {s[i] : i \in 1..Len(s)} \ {s[p]}
    BY SMT, <1>3
  <2>2. {s[i] : i \in 1..Len(s)} \ {s[p]} \subseteq {r[i] : i \in 1..Len(r)}
    BY <1>4
  <2>3. QED
    BY <2>1, <2>2
<1>6. QED
  BY <1>1, <1>2, <1>5 DEF r

\* Requests that are queued, in flight or owned by a caller still in send are
\* allocated; a caller that has not queued its request is the only one to
\* hold it and has no answer; only the sending scheduler holds a request.
Allocated ==
  /\ \A c \in Send : call[c] # "returned" => req[c] \in Offer
  /\ \A s \in StreamID : \A i \in 1..Len(queue[s]) : req[queue[s][i]] \in Offer
  /\ inflight # NoSend => req[inflight] \in Offer
  /\ inflight # NoSend <=> sched = "sending"
  /\ \A c \in Send : call[c] \in {"enqueue", "blocked", "woken"} =>
       ~Held(c) /\ result[c] = "empty"
  /\ \A c \in Send : call[c] = "returned" => result[c] = "empty"

Inv ==
  /\ TypeOK /\ Allocated /\ OrderMatchesMap /\ AnsweredOnce
  /\ NoLostWakeup /\ NobodyForgotten /\ ShutDownIsEmpty

(***************************************************************************)
(* What a successful selection does: it takes the head c of a backlogged   *)
(* stream s, at some index of the order.                                   *)
(***************************************************************************)
LEMMA TakeFacts ==
  ASSUME TypeOK, Allocated, Take
  PROVE  \E index \in 0..(Len(outboundOrder) - 1), s \in StreamID, c \in Send :
           /\ s = outboundOrder[index + 1] /\ s \in outbound /\ queue[s] # <<>>
           /\ c = queue[s][1] /\ req[c] \in Offer
           /\ inflight' = c
           /\ queue' = [queue EXCEPT ![s] = Tail(queue[s])]
           /\ streamBytes' = [streamBytes EXCEPT ![s] = streamBytes[s] - req[c].bytes]
           /\ outboundBytes' = outboundBytes - req[c].bytes
           /\ outboundFrames' = outboundFrames - 1
           /\ outbound' = IF Len(queue[s]) = 1 THEN outbound \ {s} ELSE outbound
           /\ outboundOrder' = IF Len(queue[s]) = 1
                               THEN RemoveIndex(outboundOrder, index + 1) ELSE outboundOrder
           /\ cursor' = NextCursor(index, Len(queue[s]) = 1)
<1>1. PICK skipped \in 0..2 :
        \E index \in 0..(Streams - 1) : FirstEligible(ClassAt(skipped), index) /\ Pop(index)
  BY DEF Take
<1>2. PICK index \in 0..(Streams - 1) : FirstEligible(ClassAt(skipped), index) /\ Pop(index)
  BY <1>1
<1> DEFINE s == outboundOrder[index + 1]
           c == queue[s][1]
<1>3. s \in outbound /\ queue[s] # <<>>
  BY <1>2 DEF FirstEligible, Eligible, StreamAt
<1>4. index \in 0..(Len(outboundOrder) - 1)
  BY <1>2 DEF Streams
<1>5. /\ s \in StreamID /\ c \in Send
      /\ c = Head(queue[s]) /\ 1 \in 1..Len(queue[s])
  BY SMT, <1>3, <1>4 DEF TypeOK
<1>6. req[c] \in Offer
  BY <1>5 DEF Allocated
<1>7. /\ inflight' = c
      /\ queue' = [queue EXCEPT ![s] = Tail(queue[s])]
      /\ streamBytes' = [streamBytes EXCEPT ![s] = streamBytes[s] - req[c].bytes]
      /\ outboundBytes' = outboundBytes - req[c].bytes
      /\ outboundFrames' = outboundFrames - 1
      /\ outbound' = IF Len(queue[s]) = 1 THEN outbound \ {s} ELSE outbound
      /\ outboundOrder' = IF Len(queue[s]) = 1
                          THEN RemoveIndex(outboundOrder, index + 1) ELSE outboundOrder
      /\ cursor' = NextCursor(index, Len(queue[s]) = 1)
  <2> HIDE DEF c
  <2>1. QED
    BY <1>2, <1>5 DEF Pop, StreamAt, TypeOK
<1> HIDE DEF s, c
<1>8. QED
  BY <1>3, <1>4, <1>5, <1>6, <1>7 DEF s, c

(***************************************************************************)
(* The scheduler's locals stay in range.                                   *)
(***************************************************************************)
LEMMA SpendType ==
  ASSUME TypeOK, NEW skipped \in 0..2, Spend(skipped)
  PROVE  credit' \in Nat /\ classIndex' \in 0..2
<1> DEFINE place == (classIndex + skipped) % 3
           granted == IF skipped = 0 /\ credit > 0 THEN credit ELSE weights[ClassAt(skipped)]
<1>1. place \in 0..2
  BY SMT DEF TypeOK
<1>2. ClassAt(skipped) \in {"control", "interactive", "bulk"}
  BY SMT, <1>1 DEF ClassAt, classes
<1>3. weights[ClassAt(skipped)] \in Nat \ {0}
  BY SMT, <1>2, ConfigAssumption DEF weights
<1>4. granted \in Nat \ {0}
  BY SMT, <1>3 DEF TypeOK
<1>5. credit' = granted - 1
      /\ classIndex' = (classIndex + skipped + (IF granted = 1 THEN 1 ELSE 0)) % 3
  BY DEF Spend
<1> HIDE DEF granted
<1>6. QED
  BY SMT, <1>4, <1>5 DEF TypeOK

(***************************************************************************)
(* The cursor after a selection points into the order that is left.        *)
(***************************************************************************)
LEMMA CursorInRange ==
  ASSUME TypeOK, NEW index \in 0..(Len(outboundOrder) - 1), NEW emptied \in BOOLEAN
  PROVE  /\ NextCursor(index, emptied) \in Nat
         /\ ~emptied => NextCursor(index, emptied) < Len(outboundOrder)
         /\ emptied /\ Len(outboundOrder) > 1 =>
              NextCursor(index, emptied) < Len(outboundOrder) - 1
<1>1. Len(outboundOrder) \in Nat \ {0}
  BY SMT DEF TypeOK
<1>2. CASE index + 1 < Len(outboundOrder)
  <2>1. (index + 1) % Len(outboundOrder) = index + 1
    BY SMT, <1>1, <1>2
  <2>2. QED
    BY SMT, <1>1, <1>2, <2>1 DEF NextCursor, Streams
<1>3. CASE index + 1 = Len(outboundOrder)
  <2>1. (index + 1) % Len(outboundOrder) = 0
    BY SMT, <1>1, <1>3
  <2>2. QED
    BY SMT, <1>1, <1>3, <2>1 DEF NextCursor, Streams
<1>4. QED
  BY SMT, <1>1, <1>2, <1>3

(***************************************************************************)
(* The types survive every step.  The shutdown section is shared by three  *)
(* actions, so it has a step of its own.                                   *)
(***************************************************************************)
LEMMA DiscardType ==
  ASSUME TypeOK, Discard
  PROVE  /\ closed' \in BOOLEAN
         /\ outbound' \subseteq StreamID
         /\ queue' \in [StreamID -> Seq(Send)]
         /\ streamBytes' \in [StreamID -> Int]
         /\ outboundOrder' \in Seq(StreamID)
         /\ outboundBytes' \in Int /\ outboundFrames' \in Int
         /\ call' \in [Send -> {"returned", "enqueue", "blocked", "woken", "waiting"}]
         /\ req' \in [Send -> Offer \cup {NoOffer}]
         /\ result' \in [Send -> {"empty", "ok", "error"}]
<1>1. CASE closed
  BY <1>1 DEF TypeOK, Discard, pvars, cvars
<1>2. CASE ~closed
  <2>1. /\ call' \in [Send -> {"returned", "enqueue", "blocked", "woken", "waiting"}]
        /\ req' \in [Send -> Offer \cup {NoOffer}]
        /\ result' \in [Send -> {"empty", "ok", "error"}]
    BY <1>2 DEF TypeOK, Discard, Answer, WokenCalls
  <2>2. /\ closed' \in BOOLEAN
        /\ outbound' \subseteq StreamID
        /\ streamBytes' \in [StreamID -> Int]
        /\ outboundOrder' \in Seq(StreamID)
        /\ outboundBytes' \in Int /\ outboundFrames' \in Int
    BY SMT, <1>2 DEF TypeOK, Discard
  <2>3. queue' \in [StreamID -> Seq(Send)]
    <3>1. <<>> \in Seq(Send)
      BY SMT
    <3>2. queue' = [s \in StreamID |-> <<>>]
      BY <1>2 DEF Discard
    <3>3. QED
      BY <3>1, <3>2
  <2>4. QED
    BY <2>1, <2>2, <2>3
<1>3. QED
  BY <1>1, <1>2

LEMMA TypeStep ==
  ASSUME TypeOK, Allocated, [Next]_vars
  PROVE  TypeOK'
<1> USE DEF TypeOK, pvars, svars, cvars
<1>1. ASSUME NEW c \in Send, NEW o \in Offer, SendBegin(c, o)
      PROVE  TypeOK'
  BY <1>1 DEF SendBegin
<1>2. ASSUME NEW c \in Send, Enqueue(c)
      PROVE  TypeOK'
  <2>1. req[c] \in Offer
    BY <1>2 DEF Allocated, Enqueue
  <2>2. req[c].stream \in StreamID /\ req[c].bytes \in Nat
    BY <2>1, OfferAssumption
  <2>3. QED
    BY <1>2, <2>2, SMTT(20) DEF Enqueue, Push, WokenCalls, WokenScheduler
<1>3. ASSUME NEW c \in Send, EnqueueRefused(c) \/ Cancel(c) \/ Return(c)
      PROVE  TypeOK'
  BY <1>3 DEF EnqueueRefused, Cancel, Return, Leave
<1>4. ASSUME Take
      PROVE  TypeOK'
  <2>1. PICK index \in 0..(Len(outboundOrder) - 1), s \in StreamID, c \in Send :
          /\ queue[s] # <<>> /\ req[c] \in Offer
          /\ inflight' = c
          /\ queue' = [queue EXCEPT ![s] = Tail(queue[s])]
          /\ streamBytes' = [streamBytes EXCEPT ![s] = streamBytes[s] - req[c].bytes]
          /\ outboundBytes' = outboundBytes - req[c].bytes
          /\ outboundFrames' = outboundFrames - 1
          /\ outbound' = IF Len(queue[s]) = 1 THEN outbound \ {s} ELSE outbound
          /\ outboundOrder' = IF Len(queue[s]) = 1
                              THEN RemoveIndex(outboundOrder, index + 1) ELSE outboundOrder
          /\ cursor' = NextCursor(index, Len(queue[s]) = 1)
    BY <1>4, TakeFacts
  <2>2. req[c].bytes \in Nat
    BY <2>1, OfferAssumption
  <2>3. credit' \in Nat /\ classIndex' \in 0..2
    BY <1>4, SpendType DEF Take
  <2>4. cursor' \in Nat
    BY <2>1, CursorInRange
  <2>5. outboundOrder' \in Seq(StreamID)
    <3>1. index + 1 \in 1..Len(outboundOrder)
      BY SMT, <2>1
    <3>2. RemoveIndex(outboundOrder, index + 1) \in Seq(StreamID)
      BY <3>1, RemoveIndexFacts
    <3>3. QED
      BY <2>1, <3>2
  <2>6. queue' \in [StreamID -> Seq(Send)]
    <3>1. Tail(queue[s]) \in Seq(Send)
      BY SMT, <2>1
    <3>2. QED
      BY <2>1, <3>1
  <2>7. streamBytes' \in [StreamID -> Int]
    <3>1. streamBytes[s] - req[c].bytes \in Int
      BY SMT, <2>2
    <3>2. QED
      BY <2>1, <3>1
  <2>8. outboundBytes' \in Int /\ outboundFrames' \in Int /\ outbound' \subseteq StreamID
    <3>1. outbound' = outbound \/ outbound' = outbound \ {s}
      BY <2>1
    <3>2. outboundBytes' \in Int /\ outboundFrames' \in Int
      BY SMTT(30), <2>1, <2>2
    <3>3. QED
      BY <3>1, <3>2
  <2>9. QED
    BY <1>4, <2>1, <2>3, <2>4, <2>5, <2>6, <2>7, <2>8 DEF Take, WokenCalls
<1>5. ASSUME Rest
      PROVE  TypeOK'
  BY <1>5 DEF Rest
<1>6. ASSUME Sent \/ SendFailed
      PROVE  TypeOK'
  BY <1>6 DEF Sent, SendFailed, Answer
<1>7. ASSUME Fail \/ SchedulerFail \/ Close
      PROVE  TypeOK'
  <2>1. Discard
    BY <1>7 DEF Fail, SchedulerFail, Close
  <2>2. /\ sched' \in {"select", "parked", "sending", "failing", "stopped"}
        /\ closer' \in {"open", "joining", "done"}
        /\ UNCHANGED <<classIndex, credit, cursor, inflight>>
    BY <1>7 DEF Fail, SchedulerFail, Close, WokenScheduler
  <2>3. QED
    BY <2>1, <2>2, DiscardType
<1>8. ASSUME CloseJoin
      PROVE  TypeOK'
  BY <1>8 DEF CloseJoin
<1>9. ASSUME UNCHANGED vars
      PROVE  TypeOK'
  BY <1>9 DEF vars
<1>10. QED
  BY <1>1, <1>2, <1>3, <1>4, <1>5, <1>6, <1>7, <1>8, <1>9 DEF Next, Caller, Scheduler

(***************************************************************************)
(* The order and the map stay in agreement.                                *)
(***************************************************************************)
LEMMA OrderStep ==
  ASSUME TypeOK, Allocated, OrderMatchesMap, ShutDownIsEmpty, [Next]_vars
  PROVE  OrderMatchesMap'
<1> USE DEF pvars, svars, cvars
<1>1. ASSUME UNCHANGED <<closed, pvars, cursor>>
      PROVE  OrderMatchesMap'
  BY <1>1 DEF OrderMatchesMap
<1>2. ASSUME NEW c \in Send, Enqueue(c)
      PROVE  OrderMatchesMap'
  <2> DEFINE s == req[c].stream
  <2>1. s \in StreamID
    <3>1. req[c] \in Offer
      BY <1>2 DEF Allocated, Enqueue
    <3>2. QED
      BY <3>1, OfferAssumption
  <2>2. /\ closed' = closed /\ cursor' = cursor /\ ~closed
        /\ outbound' = outbound \cup {s}
        /\ outboundOrder' = IF s \in outbound THEN outboundOrder ELSE Append(outboundOrder, s)
        /\ queue' = [queue EXCEPT ![s] = Append(IF s \in outbound THEN queue[s] ELSE <<>>, c)]
    BY <1>2 DEF Enqueue, Push
  <2> HIDE DEF s
  <2>3. \A t \in StreamID : t \in outbound' <=> queue'[t] # <<>>
    <3> DEFINE q == IF s \in outbound THEN queue[s] ELSE <<>>
    <3>1. queue'[s] # <<>>
      <4>1. q \in Seq(Send)
        BY SMT, <2>1 DEF TypeOK
      <4>2. queue'[s] = Append(q, c)
        BY <2>1, <2>2 DEF TypeOK
      <4> HIDE DEF q
      <4>3. QED
        BY SMT, <4>1, <4>2, AppendFacts
    <3>2. \A t \in StreamID : t # s => queue'[t] = queue[t]
      BY <2>1, <2>2 DEF TypeOK
    <3>3. QED
      BY <2>2, <3>1, <3>2 DEF OrderMatchesMap
  <2>4. CASE s \in outbound
    <3>1. outbound' = outbound /\ outboundOrder' = outboundOrder
      BY <2>2, <2>4
    <3>2. QED
      BY SMT, <2>2, <2>3, <3>1 DEF OrderMatchesMap
  <2>5. CASE s \notin outbound
    <3>1. /\ \A i, j \in 1..Len(outboundOrder) : outboundOrder[i] = outboundOrder[j] => i = j
          /\ \A i \in 1..Len(outboundOrder) : outboundOrder[i] # s
      BY <2>5 DEF OrderMatchesMap
    <3>2. outboundOrder' = Append(outboundOrder, s)
      BY <2>2, <2>5
    <3>3. /\ Len(outboundOrder') = Len(outboundOrder) + 1
          /\ \A i, j \in 1..Len(outboundOrder') : outboundOrder'[i] = outboundOrder'[j] => i = j
          /\ {outboundOrder'[i] : i \in 1..Len(outboundOrder')} =
               {outboundOrder[i] : i \in 1..Len(outboundOrder)} \cup {s}
      BY SMTT(30), <2>1, <3>1, <3>2, AppendNew DEF TypeOK
    <3>4. outbound' = {outboundOrder'[i] : i \in 1..Len(outboundOrder')}
      BY <2>2, <3>3 DEF OrderMatchesMap
    <3>5. cursor' = 0 \/ cursor' < Len(outboundOrder')
      BY SMT, <2>2, <3>3 DEF OrderMatchesMap, TypeOK
    <3>6. QED
      BY <2>3, <3>3, <3>4, <3>5 DEF OrderMatchesMap
  <2>6. QED
    BY <2>4, <2>5
<1>3. ASSUME Take
      PROVE  OrderMatchesMap'
  <2>1. PICK index \in 0..(Len(outboundOrder) - 1), s \in StreamID, c \in Send :
          /\ s = outboundOrder[index + 1] /\ s \in outbound /\ queue[s] # <<>>
          /\ queue' = [queue EXCEPT ![s] = Tail(queue[s])]
          /\ outbound' = IF Len(queue[s]) = 1 THEN outbound \ {s} ELSE outbound
          /\ outboundOrder' = IF Len(queue[s]) = 1
                              THEN RemoveIndex(outboundOrder, index + 1) ELSE outboundOrder
          /\ cursor' = NextCursor(index, Len(queue[s]) = 1)
    BY <1>3, TakeFacts
  <2>2. \A t \in StreamID : t # s => queue'[t] = queue[t]
    BY <2>1 DEF TypeOK
  <2>3. queue'[s] = <<>> <=> Len(queue[s]) = 1
    <3>1. queue'[s] = Tail(queue[s]) /\ queue[s] \in Seq(Send)
      BY <2>1 DEF TypeOK
    <3>2. QED
      BY <2>1, <3>1, TailFacts
  <2>4. Len(outboundOrder) \in Nat
    BY SMT DEF TypeOK
  <2>5. CASE Len(queue[s]) = 1
    <3>1. queue'[s] = <<>>
      BY <2>3, <2>5
    <3>2. index + 1 \in 1..Len(outboundOrder) /\ outboundOrder' = RemoveIndex(outboundOrder, index + 1)
      BY SMT, <2>1, <2>4, <2>5
    <3>3. /\ Len(outboundOrder') = Len(outboundOrder) - 1
          /\ \A i, j \in 1..Len(outboundOrder') : outboundOrder'[i] = outboundOrder'[j] => i = j
          /\ {outboundOrder'[i] : i \in 1..Len(outboundOrder')} =
               {outboundOrder[i] : i \in 1..Len(outboundOrder)} \ {s}
      <4>1. /\ outboundOrder \in Seq(StreamID)
            /\ \A i, j \in 1..Len(outboundOrder) : outboundOrder[i] = outboundOrder[j] => i = j
        BY DEF TypeOK, OrderMatchesMap
      <4> DEFINE p == index + 1
                 r == RemoveIndex(outboundOrder, p)
      <4>2. p \in 1..Len(outboundOrder) /\ s = outboundOrder[p] /\ outboundOrder' = r
        BY <2>1, <3>2
      <4> HIDE DEF p
      <4>3. /\ Len(r) = Len(outboundOrder) - 1
            /\ \A i, j \in 1..Len(r) : r[i] = r[j] => i = j
            /\ {r[i] : i \in 1..Len(r)} =
                 {outboundOrder[i] : i \in 1..Len(outboundOrder)} \ {outboundOrder[p]}
        BY <4>1, <4>2, RemoveIndexUnique
      <4> HIDE DEF r
      <4>4. outboundOrder' = r /\ outboundOrder[p] = s
        BY <4>2
      <4>5. /\ Len(outboundOrder') = Len(outboundOrder) - 1
            /\ \A i, j \in 1..Len(outboundOrder') : outboundOrder'[i] = outboundOrder'[j] => i = j
        BY <4>3, <4>4
      <4>6. {outboundOrder'[i] : i \in 1..Len(outboundOrder')} =
              {outboundOrder[i] : i \in 1..Len(outboundOrder)} \ {s}
        BY <4>3, <4>4, ZenonT(30)
      <4>7. QED
        BY <4>5, <4>6, ZenonT(30)
    <3>4. outbound' = {outboundOrder'[i] : i \in 1..Len(outboundOrder')}
      BY <2>1, <2>5, <3>3, ZenonT(30) DEF OrderMatchesMap
    <3>5. \A t \in StreamID : t \in outbound' <=> queue'[t] # <<>>
      BY <2>1, <2>2, <2>5, <3>1 DEF OrderMatchesMap
    <3>6. cursor' = 0 \/ cursor' < Len(outboundOrder')
      <4>1. CASE Len(outboundOrder) = 1
        BY <2>1, <2>5, <4>1 DEF NextCursor, Streams
      <4>2. CASE Len(outboundOrder) > 1
        <5>1. NextCursor(index, TRUE) < Len(outboundOrder) - 1
          BY <4>2, CursorInRange
        <5>2. cursor' = NextCursor(index, TRUE)
          BY <2>1, <2>5
        <5>3. QED
          BY <3>3, <5>1, <5>2
      <4>3. Len(outboundOrder) >= 1
        BY SMT, <2>4, <3>2
      <4>4. QED
        BY SMT, <2>4, <4>1, <4>2, <4>3
    <3>7. QED
      BY <3>3, <3>4, <3>5, <3>6 DEF OrderMatchesMap
  <2>6. CASE Len(queue[s]) # 1
    <3>1. queue'[s] # <<>>
      BY <2>3, <2>6
    <3>2. outbound' = outbound /\ outboundOrder' = outboundOrder
      BY <2>1, <2>6
    <3>3. \A t \in StreamID : t \in outbound' <=> queue'[t] # <<>>
      BY <2>1, <2>2, <3>1, <3>2 DEF OrderMatchesMap
    <3>4. cursor' < Len(outboundOrder')
      BY <2>1, <2>6, <3>2, CursorInRange
    <3>5. QED
      BY SMT, <3>2, <3>3, <3>4 DEF OrderMatchesMap
  <2>7. QED
    BY <2>5, <2>6
<1>4. ASSUME Rest
      PROVE  OrderMatchesMap'
  BY <1>4 DEF Rest, OrderMatchesMap
<1>5. ASSUME Fail \/ SchedulerFail \/ Close
      PROVE  OrderMatchesMap'
  <2>1. Discard /\ cursor' = cursor
    BY <1>5 DEF Fail, SchedulerFail, Close
  <2>2. CASE closed
    BY <2>1, <2>2, <1>1 DEF Discard
  <2>3. CASE ~closed
    <3>1. /\ closed' /\ outbound' = {} /\ outboundOrder' = <<>>
          /\ \A s \in StreamID : queue'[s] = <<>>
      BY <2>1, <2>3 DEF Discard
    <3>2. QED
      BY SMT, <3>1 DEF OrderMatchesMap
  <2>4. QED
    BY <2>2, <2>3
<1>6. QED
  BY <1>1, <1>2, <1>3, <1>4, <1>5
  DEF Next, Caller, Scheduler, SendBegin, EnqueueRefused, Cancel, Return, Sent, SendFailed,
      CloseJoin, vars

(***************************************************************************)
(* What joining the queue does to it: the other queues stay, the own one   *)
(* grows by the request at its end.                                        *)
(***************************************************************************)
LEMMA EnqueueFacts ==
  ASSUME TypeOK, Allocated, OrderMatchesMap, NEW c \in Send, Enqueue(c)
  PROVE  LET s == req[c].stream
         IN /\ s \in StreamID /\ req[c] \in Offer
            /\ \A t \in StreamID : t # s => queue'[t] = queue[t]
            /\ Len(queue[s]) \in Nat /\ Len(queue'[s]) = Len(queue[s]) + 1
            /\ \A i \in 1..Len(queue[s]) : queue'[s][i] = queue[s][i]
            /\ queue'[s][Len(queue[s]) + 1] = c
            /\ queue' = [queue EXCEPT ![s] = Append(@, c)]
<1> DEFINE s == req[c].stream
<1>1. req[c] \in Offer
  BY DEF Allocated, Enqueue
<1>2. s \in StreamID
  BY <1>1, OfferAssumption
<1>3. queue' = [queue EXCEPT ![s] = Append(IF s \in outbound THEN queue[s] ELSE <<>>, c)]
  BY DEF Enqueue, Push
<1> HIDE DEF s
<1>4. (IF s \in outbound THEN queue[s] ELSE <<>>) = queue[s]
  BY <1>2 DEF OrderMatchesMap
<1>5. queue' = [queue EXCEPT ![s] = Append(queue[s], c)]
  BY <1>3, <1>4
<1>6. queue[s] \in Seq(Send) /\ queue'[s] = Append(queue[s], c)
  BY <1>2, <1>5 DEF TypeOK
<1>7. \A t \in StreamID : t # s => queue'[t] = queue[t]
  BY <1>5 DEF TypeOK
<1>8. /\ Len(queue[s]) \in Nat /\ Len(queue'[s]) = Len(queue[s]) + 1
      /\ \A i \in 1..Len(queue[s]) : queue'[s][i] = queue[s][i]
      /\ queue'[s][Len(queue[s]) + 1] = c
  BY SMT, <1>6, AppendFacts
<1>9. QED
  BY <1>1, <1>2, <1>5, <1>7, <1>8 DEF s

(***************************************************************************)
(* What taking a request does to the queues.                               *)
(***************************************************************************)
LEMMA TakeQueue ==
  ASSUME TypeOK, Allocated, Take
  PROVE  \E s \in StreamID, c \in Send :
           /\ inflight' = c /\ req[c] \in Offer
           /\ queue[s] # <<>> /\ Head(queue[s]) = c
           /\ 1 \in 1..Len(queue[s]) /\ queue[s][1] = c
           /\ \A t \in StreamID : t # s => queue'[t] = queue[t]
           /\ Len(queue'[s]) = Len(queue[s]) - 1
           /\ \A i \in 1..Len(queue'[s]) :
                i + 1 \in 1..Len(queue[s]) /\ queue'[s][i] = queue[s][i + 1]
           /\ queue' = [queue EXCEPT ![s] = Tail(@)]
<1>1. PICK index \in 0..(Len(outboundOrder) - 1), s \in StreamID, c \in Send :
        /\ queue[s] # <<>>
        /\ c = queue[s][1] /\ req[c] \in Offer
        /\ inflight' = c
        /\ queue' = [queue EXCEPT ![s] = Tail(queue[s])]
  BY TakeFacts
<1>2. queue[s] \in Seq(Send) /\ queue'[s] = Tail(queue[s])
  BY <1>1 DEF TypeOK
<1>3. \A t \in StreamID : t # s => queue'[t] = queue[t]
  BY <1>1 DEF TypeOK
<1> DEFINE q == queue[s]
<1> HIDE DEF q
<1>a. /\ Len(q) \in Nat \ {0} /\ Head(q) = q[1]
      /\ Len(Tail(q)) = Len(q) - 1
      /\ \A i \in 1..Len(Tail(q)) : i + 1 \in 1..Len(q) /\ Tail(q)[i] = q[i + 1]
  <2>1. q \in Seq(Send) /\ q # <<>>
    BY <1>1, <1>2 DEF q
  <2>2. QED
    BY <2>1, TailFacts
<1>b. queue'[s] = Tail(q) /\ queue[s] = q
  BY <1>2 DEF q
<1>4. /\ Len(queue[s]) \in Nat \ {0} /\ Head(queue[s]) = queue[s][1]
      /\ Len(queue'[s]) = Len(queue[s]) - 1
      /\ \A i \in 1..Len(queue'[s]) :
           i + 1 \in 1..Len(queue[s]) /\ queue'[s][i] = queue[s][i + 1]
  BY <1>a, <1>b
<1>5. 1 \in 1..Len(queue[s])
  BY SMT, <1>4
<1>6. QED
  BY <1>1, <1>3, <1>4, <1>5

(***************************************************************************)
(* Every element of a queue is a request, and Held says where it is.       *)
(***************************************************************************)
LEMMA HeldFacts ==
  ASSUME TypeOK
  PROVE  /\ \A s \in StreamID : \A i \in 1..Len(queue[s]) :
              queue[s][i] \in Send /\ Queued(queue[s][i])
         /\ \A c \in Send : ~Held(c) =>
              /\ inflight # c
              /\ \A s \in StreamID : \A i \in 1..Len(queue[s]) : queue[s][i] # c
<1>1. \A s \in StreamID : \A i \in 1..Len(queue[s]) : queue[s][i] \in Send
  BY SMT DEF TypeOK
<1>2. QED
  BY <1>1 DEF Held, Queued

(***************************************************************************)
(* No request is in two places, and none that is in one is answered.       *)
(***************************************************************************)
LEMMA AnsweredStep ==
  ASSUME TypeOK, Allocated, OrderMatchesMap, AnsweredOnce, [Next]_vars
  PROVE  AnsweredOnce'
<1> USE DEF pvars, svars, cvars
<1>a. \A s, t \in StreamID : \A i \in 1..Len(queue[s]), j \in 1..Len(queue[t]) :
        queue[s][i] = queue[t][j] => s = t /\ i = j
  BY DEF AnsweredOnce
<1>b. ASSUME \A s, t \in StreamID : \A i \in 1..Len(queue'[s]), j \in 1..Len(queue'[t]) :
               queue'[s][i] = queue'[t][j] => s = t /\ i = j,
             \A s \in StreamID : \A i \in 1..Len(queue'[s]) :
               /\ req'[queue'[s][i]].stream = s
               /\ queue'[s][i] # inflight'
               /\ result'[queue'[s][i]] = "empty",
             inflight' # NoSend => result'[inflight'] = "empty"
      PROVE  AnsweredOnce'
  BY <1>b DEF AnsweredOnce
<1>1. ASSUME UNCHANGED <<queue, inflight>>,
             \A c \in Send : Held(c) => req'[c] = req[c] /\ result'[c] = result[c]
      PROVE  AnsweredOnce'
  <2>1. inflight # NoSend => inflight \in Send /\ Held(inflight)
    BY DEF TypeOK, Held
  <2>2. \A s \in StreamID : \A i \in 1..Len(queue[s]) : queue[s][i] \in Send /\ Held(queue[s][i])
    BY HeldFacts DEF Held
  <2>3. QED
    BY SMT, <1>1, <2>1, <2>2 DEF AnsweredOnce
<1>2. ASSUME NEW c \in Send, NEW o \in Offer, SendBegin(c, o)
      PROVE  AnsweredOnce'
  BY <1>1, <1>2 DEF SendBegin, TypeOK
<1>3. ASSUME NEW c \in Send, Enqueue(c)
      PROVE  AnsweredOnce'
  <2> DEFINE s == req[c].stream
  <2>1. /\ s \in StreamID
        /\ \A t \in StreamID : t # s => queue'[t] = queue[t]
        /\ Len(queue[s]) \in Nat /\ Len(queue'[s]) = Len(queue[s]) + 1
        /\ \A i \in 1..Len(queue[s]) : queue'[s][i] = queue[s][i]
        /\ queue'[s][Len(queue[s]) + 1] = c
    BY <1>3, EnqueueFacts
  <2>2. UNCHANGED <<req, result, inflight>>
    BY <1>3 DEF Enqueue
  <2>3. ~Held(c) /\ result[c] = "empty"
    BY <1>3 DEF Allocated, Enqueue
  <2>4. \A t \in StreamID : \A i \in 1..Len(queue[t]) : queue[t][i] # c
    BY <2>3, HeldFacts
  <2>5. inflight # c
    BY <2>3, HeldFacts
  <2>6. \A t \in StreamID : \A i \in 1..Len(queue'[t]) :
          \/ t = s /\ i = Len(queue[s]) + 1 /\ queue'[t][i] = c
          \/ i \in 1..Len(queue[t]) /\ queue'[t][i] = queue[t][i]
    <3> SUFFICES ASSUME NEW t \in StreamID, NEW i \in 1..Len(queue'[t])
                 PROVE  \/ t = s /\ i = Len(queue[s]) + 1 /\ queue'[t][i] = c
                        \/ i \in 1..Len(queue[t]) /\ queue'[t][i] = queue[t][i]
      OBVIOUS
    <3> HIDE DEF s
    <3>1. CASE t # s
      BY <2>1, <3>1
    <3>2. CASE t = s /\ i = Len(queue[s]) + 1
      BY <2>1, <3>2
    <3>3. CASE t = s /\ i # Len(queue[s]) + 1
      <4>1. i \in 1..(Len(queue[s]) + 1)
        BY <2>1, <3>3
      <4>2. i \in 1..Len(queue[s])
        BY SMT, <2>1, <3>3, <4>1
      <4>3. QED
        BY <2>1, <3>3, <4>2
    <3>4. QED
      BY <3>1, <3>2, <3>3
  <2>7. c = c /\ req[c].stream = s
    OBVIOUS
  <2> HIDE DEF s
  <2>8. ASSUME NEW t \in StreamID, NEW u \in StreamID,
               NEW i \in 1..Len(queue'[t]), NEW j \in 1..Len(queue'[u]),
               queue'[t][i] = queue'[u][j]
        PROVE  t = u /\ i = j
    <3>1. CASE t = s /\ i = Len(queue[s]) + 1 /\ queue'[t][i] = c
      BY <2>4, <2>6, <2>8, <3>1, ZenonT(40)
    <3>2. CASE i \in 1..Len(queue[t]) /\ queue'[t][i] = queue[t][i]
      <4>1. j \in 1..Len(queue[u]) /\ queue'[u][j] = queue[u][j]
        BY <2>4, <2>6, <2>8, <3>2
      <4>2. queue[t][i] = queue[u][j]
        BY <2>8, <3>2, <4>1
      <4>3. QED
        BY <1>a, <3>2, <4>1, <4>2
    <3>3. QED
      BY <2>6, <3>1, <3>2
  <2>9. ASSUME NEW t \in StreamID, NEW i \in 1..Len(queue'[t])
        PROVE  /\ req[queue'[t][i]].stream = t
               /\ queue'[t][i] # inflight
               /\ result[queue'[t][i]] = "empty"
    <3>1. CASE t = s /\ queue'[t][i] = c
      BY <2>3, <2>5, <2>7, <3>1
    <3>2. CASE i \in 1..Len(queue[t]) /\ queue'[t][i] = queue[t][i]
      BY SMT, <3>2 DEF AnsweredOnce
    <3>3. QED
      BY <2>6, <3>1, <3>2
  <2>10. req' = req /\ result' = result /\ inflight' = inflight
    BY <2>2
  <2>11. QED
    BY <2>8, <2>9, <2>10, ZenonT(40) DEF AnsweredOnce
<1>4. ASSUME NEW c \in Send, EnqueueRefused(c) \/ Cancel(c) \/ Return(c)
      PROVE  AnsweredOnce'
  <2>1. UNCHANGED <<queue, inflight>>
    BY <1>4 DEF EnqueueRefused, Cancel, Return
  <2>2. UNCHANGED <<req, result>> \/ Leave(c)
    BY <1>4 DEF EnqueueRefused, Cancel, Return
  <2>3. \A d \in Send : Held(d) => req'[d] = req[d] /\ result'[d] = result[d]
    BY <2>2, SMTT(20) DEF Leave, TypeOK
  <2>4. QED
    BY <1>1, <2>1, <2>3
<1>5. ASSUME Take
      PROVE  AnsweredOnce'
  <2>1. PICK s \in StreamID, c \in Send :
          /\ inflight' = c
          /\ 1 \in 1..Len(queue[s]) /\ queue[s][1] = c
          /\ \A t \in StreamID : t # s => queue'[t] = queue[t]
          /\ \A i \in 1..Len(queue'[s]) :
               i + 1 \in 1..Len(queue[s]) /\ queue'[s][i] = queue[s][i + 1]
    BY <1>5, TakeQueue
  <2>2. UNCHANGED <<req, result>>
    BY <1>5 DEF Take
  <2>3. ASSUME NEW t \in StreamID, NEW i \in 1..Len(queue'[t])
        PROVE  \E k \in 1..Len(queue[t]) :
                 /\ queue'[t][i] = queue[t][k]
                 /\ t = s => k = i + 1
                 /\ t # s => k = i
    BY <2>1, <2>3
  <2>4. ASSUME NEW t \in StreamID, NEW u \in StreamID,
               NEW i \in 1..Len(queue'[t]), NEW j \in 1..Len(queue'[u]),
               queue'[t][i] = queue'[u][j]
        PROVE  t = u /\ i = j
    <3>1. i \in Int /\ j \in Int
      BY SMT
    <3>2. PICK k \in 1..Len(queue[t]) :
            /\ queue'[t][i] = queue[t][k]
            /\ t = s => k = i + 1
            /\ t # s => k = i
      BY <2>3
    <3>3. PICK l \in 1..Len(queue[u]) :
            /\ queue'[u][j] = queue[u][l]
            /\ u = s => l = j + 1
            /\ u # s => l = j
      BY <2>3
    <3>a. queue[t][k] = queue[u][l]
      BY <2>4, <3>2, <3>3
    <3>4. t = u /\ k = l
      BY <3>a, <1>a
    <3>5. QED
      BY SMT, <3>1, <3>2, <3>3, <3>4
  <2>5. ASSUME NEW t \in StreamID, NEW i \in 1..Len(queue'[t])
        PROVE  /\ req[queue'[t][i]].stream = t
               /\ queue'[t][i] # c
               /\ result[queue'[t][i]] = "empty"
    <3>1. PICK k \in 1..Len(queue[t]) :
            /\ queue'[t][i] = queue[t][k]
            /\ t = s => k = i + 1
            /\ t # s => k = i
      BY <2>3
    <3>2. t = s => k # 1
      BY SMT, <3>1
    <3>3. queue[t][k] # c
      BY SMT, <2>1, <3>2 DEF AnsweredOnce
    <3>4. QED
      BY SMT, <3>1, <3>3 DEF AnsweredOnce
  <2>6. result[c] = "empty"
    BY <2>1 DEF AnsweredOnce
  <2>7. inflight' = c /\ req' = req /\ result' = result
    BY <2>1, <2>2
  <2>8. QED
    <3>1. \A t, u \in StreamID : \A i \in 1..Len(queue'[t]), j \in 1..Len(queue'[u]) :
            queue'[t][i] = queue'[u][j] => t = u /\ i = j
      BY <2>4
    <3>2. \A t \in StreamID : \A i \in 1..Len(queue'[t]) :
            /\ req'[queue'[t][i]].stream = t
            /\ queue'[t][i] # inflight'
            /\ result'[queue'[t][i]] = "empty"
      BY <2>5, <2>7
    <3>3. QED
      BY <1>b, <2>6, <2>7, <3>1, <3>2
<1>6. ASSUME Sent \/ SendFailed
      PROVE  AnsweredOnce'
  <2>1. inflight' = NoSend /\ queue' = queue
    BY <1>6 DEF Sent, SendFailed
  <2>2. \A c \in Send : c # inflight => req'[c] = req[c] /\ result'[c] = result[c]
    BY <1>6 DEF Sent, SendFailed, Answer
  <2>3. \A s \in StreamID : \A i \in 1..Len(queue[s]) :
          queue[s][i] \in Send /\ queue[s][i] # inflight /\ queue[s][i] # NoSend
    BY SMT, HeldFacts, SendAssumption DEF AnsweredOnce
  <2>4. QED
    BY SMT, <2>1, <2>2, <2>3 DEF AnsweredOnce
<1>7. ASSUME Fail \/ SchedulerFail \/ Close
      PROVE  AnsweredOnce'
  <2>1. Discard /\ inflight' = inflight
    BY <1>7 DEF Fail, SchedulerFail, Close
  <2>2. CASE closed
    BY <1>1, <2>1, <2>2 DEF Discard
  <2>3. CASE ~closed
    <3>1. \A s \in StreamID : Len(queue'[s]) = 0
      BY SMT, <2>1, <2>3 DEF Discard
    <3>2. inflight # NoSend => inflight \in Send /\ ~Queued(inflight)
      BY SMT DEF TypeOK, Queued, AnsweredOnce
    <3>3. inflight # NoSend => result'[inflight] = result[inflight]
      BY <2>1, <2>3, <3>2 DEF Discard, Answer
    <3>4. QED
      BY SMT, <2>1, <3>1, <3>3 DEF AnsweredOnce
  <2>4. QED
    BY <2>2, <2>3
<1>8. ASSUME Rest \/ CloseJoin \/ UNCHANGED vars
      PROVE  AnsweredOnce'
  BY <1>1, <1>8 DEF Rest, CloseJoin, vars
<1>9. QED
  BY <1>2, <1>3, <1>4, <1>5, <1>6, <1>7, <1>8 DEF Next, Caller, Scheduler

(***************************************************************************)
(* Where a request can be after a step.                                    *)
(***************************************************************************)
LEMMA HeldStep ==
  ASSUME TypeOK, Allocated, OrderMatchesMap
  PROVE  /\ \A c \in Send : Enqueue(c) => \A d \in Send : Held(d)' <=> Held(d) \/ d = c
         /\ Take => \A d \in Send : Held(d)' <=> Held(d)
         /\ Take => \A s \in StreamID : \A i \in 1..Len(queue'[s]) :
                      \E k \in 1..Len(queue[s]) : queue'[s][i] = queue[s][k]
<1>1. ASSUME NEW c \in Send, Enqueue(c), NEW d \in Send
      PROVE  Held(d)' <=> Held(d) \/ d = c
  <2> DEFINE s == req[c].stream
             n == Len(queue[s])
  <2>1. /\ s \in StreamID
        /\ \A t \in StreamID : t # s => queue'[t] = queue[t]
        /\ n \in Nat /\ Len(queue'[s]) = n + 1
        /\ \A i \in 1..n : queue'[s][i] = queue[s][i]
        /\ queue'[s][n + 1] = c
    BY <1>1, EnqueueFacts
  <2>2. inflight' = inflight
    BY <1>1 DEF Enqueue
  <2> HIDE DEF s
  <2>3. ASSUME NEW t \in StreamID, NEW i \in 1..Len(queue'[t]), queue'[t][i] = d
        PROVE  Queued(d) \/ d = c
    <3>1. CASE t # s
      BY <2>1, <2>3, <3>1 DEF Queued
    <3>2. CASE t = s /\ i = n + 1
      BY <2>1, <2>3, <3>2
    <3>3. CASE t = s /\ i \in 1..n
      BY <2>1, <2>3, <3>3 DEF Queued
    <3>4. QED
      BY SMT, <2>1, <3>1, <3>2, <3>3
  <2>4. ASSUME NEW t \in StreamID, NEW i \in 1..Len(queue[t]), queue[t][i] = d
        PROVE  Queued(d)'
    <3>1. i \in 1..Len(queue'[t]) /\ queue'[t][i] = d
      BY SMT, <2>1, <2>4
    <3>2. QED
      BY <3>1 DEF Queued
  <2>5. n + 1 \in 1..Len(queue'[s])
    BY SMT, <2>1
  <2>6. Queued(c)'
    BY <2>1, <2>5 DEF Queued
  <2>7. Queued(d)' <=> Queued(d) \/ d = c
    <3>1. Queued(d)' => Queued(d) \/ d = c
      BY <2>3 DEF Queued
    <3>2. Queued(d) => Queued(d)'
      BY <2>4 DEF Queued
    <3>3. d = c => Queued(d)'
      BY <2>6
    <3>4. QED
      BY <3>1, <3>2, <3>3
  <2>8. QED
    BY <2>2, <2>7 DEF Held
<1>2. ASSUME Take
      PROVE  /\ \A d \in Send : Held(d)' <=> Held(d)
             /\ \A s \in StreamID : \A i \in 1..Len(queue'[s]) :
                  \E k \in 1..Len(queue[s]) : queue'[s][i] = queue[s][k]
  <2>1. PICK s \in StreamID, c \in Send :
          /\ inflight' = c
          /\ 1 \in 1..Len(queue[s]) /\ queue[s][1] = c
          /\ \A t \in StreamID : t # s => queue'[t] = queue[t]
          /\ Len(queue'[s]) = Len(queue[s]) - 1
          /\ \A i \in 1..Len(queue'[s]) :
               i + 1 \in 1..Len(queue[s]) /\ queue'[s][i] = queue[s][i + 1]
    BY <1>2, TakeQueue
  <2>2. ASSUME NEW t \in StreamID, NEW i \in 1..Len(queue'[t])
        PROVE  \E k \in 1..Len(queue[t]) : queue'[t][i] = queue[t][k]
    <3>1. CASE t = s
      BY <2>1, <3>1
    <3>2. CASE t # s
      BY <2>1, <3>2
    <3>3. QED
      BY <3>1, <3>2
  <2>3. Queued(c)
    BY <2>1 DEF Queued
  <2>4. ASSUME NEW d \in Send, Queued(d)'
        PROVE  Queued(d)
    <3>1. PICK t \in StreamID : \E i \in 1..Len(queue'[t]) : queue'[t][i] = d
      BY <2>4 DEF Queued
    <3>2. PICK i \in 1..Len(queue'[t]) : queue'[t][i] = d
      BY <3>1
    <3>3. QED
      BY <2>2, <3>2 DEF Queued
  <2>5. inflight = NoSend
    BY <1>2 DEF Take, Allocated
  <2>6. ASSUME NEW d \in Send, Queued(d)
        PROVE  Held(d)'
    <3>1. PICK t \in StreamID : \E i \in 1..Len(queue[t]) : queue[t][i] = d
      BY <2>6 DEF Queued
    <3>2. PICK i \in 1..Len(queue[t]) : queue[t][i] = d
      BY <3>1
    <3>3. CASE t # s
      BY <2>1, <3>2, <3>3 DEF Held, Queued
    <3>4. CASE t = s /\ i = 1
      BY <2>1, <3>2, <3>4 DEF Held
    <3>5. CASE t = s /\ i # 1
      <4>1. Len(queue[s]) \in Nat
        BY SMT DEF TypeOK
      <4>2. i - 1 \in 1..Len(queue'[s]) /\ (i - 1) + 1 = i
        BY SMT, <2>1, <3>5, <4>1
      <4>3. queue'[s][i - 1] = d
        BY <2>1, <3>2, <3>5, <4>2
      <4>4. QED
        BY <4>2, <4>3 DEF Held, Queued
    <3>6. QED
      BY <3>3, <3>4, <3>5
  <2>7. QED
    <3>1. \A d \in Send : Held(d)' => Held(d)
      BY <2>1, <2>3, <2>4 DEF Held
    <3>2. \A d \in Send : Held(d) => Held(d)'
      BY <2>5, <2>6, SendAssumption DEF Held
    <3>3. QED
      BY <2>2, <3>1, <3>2
<1>3. QED
  BY <1>1, <1>2, SMTT(20)

(***************************************************************************)
(* Which requests exist.                                                   *)
(***************************************************************************)
LEMMA AllocatedStep ==
  ASSUME TypeOK, Allocated, OrderMatchesMap, AnsweredOnce, [Next]_vars
  PROVE  Allocated'
<1> USE DEF pvars, svars, cvars
<1>a. \A s \in StreamID : \A i \in 1..Len(queue[s]) :
        queue[s][i] \in Send /\ Held(queue[s][i]) /\ req[queue[s][i]] \in Offer
  BY HeldFacts DEF Held, Allocated
<1>b. \A c \in Send : Held(c) => result[c] = "empty"
  <2>1. \A c \in Send : Queued(c) => result[c] = "empty"
    BY SMT DEF Queued, AnsweredOnce
  <2>2. \A c \in Send : inflight = c => result[c] = "empty"
    BY SMT, SendAssumption DEF AnsweredOnce
  <2>3. QED
    BY <2>1, <2>2, SMTT(20) DEF Held
<1>c. \A c \in Send : Held(c) => req[c] \in Offer
  <2>1. \A c \in Send : Queued(c) => req[c] \in Offer
    BY <1>a DEF Queued
  <2>2. \A c \in Send : inflight = c => req[c] \in Offer
    BY SendAssumption DEF Allocated
  <2>3. QED
    BY <2>1, <2>2 DEF Held
<1>1. ASSUME UNCHANGED <<queue, inflight, sched>>, NEW c \in Send,
             \A d \in Send \ {c} : /\ call'[d] = call[d]
                                   /\ req'[d] = req[d] /\ result'[d] = result[d],
             call'[c] # "returned" => req'[c] \in Offer,
             Held(c) => req'[c] \in Offer,
             call'[c] \in {"enqueue", "blocked", "woken"} => ~Held(c) /\ result'[c] = "empty",
             call'[c] = "returned" => result'[c] = "empty"
      PROVE  Allocated'
  <2>1. \A d \in Send : Held(d)' <=> Held(d)
    BY <1>1 DEF Held, Queued
  <2>2. \A d \in Send : Held(d) => req'[d] \in Offer
    BY <1>1, <1>c
  <2>3. \A s \in StreamID : \A i \in 1..Len(queue'[s]) : req'[queue'[s][i]] \in Offer
    BY <1>1, <1>a, <2>2
  <2>4. inflight' # NoSend => req'[inflight'] \in Offer
    BY <1>1, <2>2 DEF Held, TypeOK
  <2>5. inflight' # NoSend <=> sched' = "sending"
    BY <1>1 DEF Allocated
  <2>6. \A d \in Send : /\ call'[d] # "returned" => req'[d] \in Offer
                        /\ call'[d] = "returned" => result'[d] = "empty"
    BY <1>1 DEF Allocated
  <2>7. \A d \in Send : call'[d] \in {"enqueue", "blocked", "woken"} =>
          ~Held(d)' /\ result'[d] = "empty"
    BY <1>1, <2>1 DEF Allocated
  <2>8. QED
    BY <2>3, <2>4, <2>5, <2>6, <2>7 DEF Allocated
<1>2. ASSUME NEW c \in Send, NEW o \in Offer, SendBegin(c, o)
      PROVE  Allocated'
  <2>1. call[c] = "returned" /\ ~Held(c) /\ result[c] = "empty"
    BY <1>2 DEF SendBegin, Allocated
  <2>2. /\ call' = [call EXCEPT ![c] = "enqueue"] /\ req' = [req EXCEPT ![c] = o]
        /\ result' = result /\ UNCHANGED <<queue, inflight, sched>>
    BY <1>2 DEF SendBegin
  <2>3. call'[c] = "enqueue" /\ req'[c] = o /\ result'[c] = "empty"
        /\ \A d \in Send \ {c} : call'[d] = call[d] /\ req'[d] = req[d] /\ result'[d] = result[d]
    BY <2>1, <2>2 DEF TypeOK
  <2>4. QED
    BY <1>1, <2>1, <2>2, <2>3
<1>3. ASSUME NEW c \in Send, EnqueueRefused(c) \/ Cancel(c) \/ Return(c)
      PROVE  Allocated'
  <2>1. UNCHANGED <<queue, inflight, sched>>
    BY <1>3 DEF EnqueueRefused, Cancel, Return
  <2>2. CASE Leave(c)
    <3>1. \A d \in Send \ {c} : call'[d] = call[d] /\ req'[d] = req[d] /\ result'[d] = result[d]
      BY <2>2 DEF Leave, TypeOK
    <3>2. call'[c] = "returned"
      BY <2>2 DEF Leave, TypeOK
    <3>3. /\ Held(c) => req'[c] = req[c] /\ result'[c] = result[c]
          /\ ~Held(c) => result'[c] = "empty"
      BY <2>2 DEF Leave, TypeOK
    <3>4. QED
      BY <1>1, <1>b, <1>c, <2>1, <3>1, <3>2, <3>3
  <2>3. CASE /\ call[c] \in {"enqueue", "woken"}
             /\ call' = [call EXCEPT ![c] = "blocked"] /\ UNCHANGED <<req, result>>
    <3>1. /\ call'[c] = "blocked" /\ UNCHANGED <<req, result>>
          /\ \A d \in Send \ {c} : call'[d] = call[d]
      BY <2>3 DEF TypeOK
    <3>2. ~Held(c) /\ result[c] = "empty" /\ req[c] \in Offer
      BY <2>3 DEF Allocated
    <3>3. QED
      BY <1>1, <2>1, <3>1, <3>2
  <2>4. QED
    BY <1>3, <2>2, <2>3 DEF EnqueueRefused, Cancel, Return
<1>4. ASSUME NEW c \in Send, Enqueue(c)
      PROVE  Allocated'
  <2>1. /\ UNCHANGED <<req, result, inflight>> /\ sched' = WokenScheduler
        /\ call' = [WokenCalls EXCEPT ![c] = "waiting"]
        /\ call[c] \in {"enqueue", "woken"}
    BY <1>4 DEF Enqueue
  <2>2. \A d \in Send : Held(d)' <=> Held(d) \/ d = c
    BY <1>4, HeldStep
  <2>3. req[c] \in Offer
    BY <2>1 DEF Allocated
  <2>4. \A d \in Send : call'[d] = IF d = c THEN "waiting"
                                   ELSE IF call[d] = "blocked" THEN "woken" ELSE call[d]
    BY <2>1 DEF WokenCalls
  <2>5. \A s \in StreamID : \A i \in 1..Len(queue'[s]) : req[queue'[s][i]] \in Offer
    <3>1. SUFFICES ASSUME NEW s \in StreamID, NEW i \in 1..Len(queue'[s])
                   PROVE  req[queue'[s][i]] \in Offer
      OBVIOUS
    <3>2. TypeOK'
      BY TypeStep
    <3>3. PICK d \in Send : d = queue'[s][i]
      BY SMTT(30), <3>2 DEF TypeOK
    <3>4. Held(d)'
      BY <3>3 DEF Held, Queued
    <3>5. QED
      BY <1>c, <2>2, <2>3, <3>3, <3>4
  <2>6. \A d \in Send : /\ call'[d] # "returned" => req[d] \in Offer
                        /\ call'[d] = "returned" => result[d] = "empty"
    BY <2>3, <2>4 DEF Allocated
  <2>7. \A d \in Send : call'[d] \in {"enqueue", "blocked", "woken"} =>
          ~Held(d)' /\ result[d] = "empty"
    BY <2>2, <2>4 DEF Allocated
  <2>8. inflight # NoSend <=> sched' = "sending"
    BY <2>1 DEF Allocated, WokenScheduler
  <2>9. inflight # NoSend => req[inflight] \in Offer
    BY DEF Allocated
  <2>10. req' = req /\ result' = result /\ inflight' = inflight
    BY <2>1
  <2>11. QED
    BY <2>5, <2>6, <2>7, <2>8, <2>9, <2>10 DEF Allocated
<1>5. ASSUME Take
      PROVE  Allocated'
  <2>1. PICK c \in Send : inflight' = c /\ req[c] \in Offer
    BY <1>5, TakeQueue
  <2>2. sched' = "sending" /\ call' = WokenCalls /\ req' = req /\ result' = result
    BY <1>5 DEF Take
  <2>3. \A d \in Send : Held(d)' => Held(d)
    BY <1>5, HeldStep
  <2>4. \A s \in StreamID : \A i \in 1..Len(queue'[s]) : req[queue'[s][i]] \in Offer
    BY SMT, <1>5, <1>a, HeldStep
  <2>5. \A d \in Send : call'[d] = IF call[d] = "blocked" THEN "woken" ELSE call[d]
    BY <2>2 DEF WokenCalls
  <2>6. \A d \in Send : /\ call'[d] # "returned" => req[d] \in Offer
                        /\ call'[d] = "returned" => result[d] = "empty"
    BY <2>5 DEF Allocated
  <2>7. \A d \in Send : call'[d] \in {"enqueue", "blocked", "woken"} =>
          ~Held(d)' /\ result[d] = "empty"
    BY <2>3, <2>5 DEF Allocated
  <2>8. inflight' # NoSend /\ req[inflight'] \in Offer
    BY <2>1, SendAssumption
  <2>9. QED
    BY <2>2, <2>4, <2>6, <2>7, <2>8 DEF Allocated
<1>6. ASSUME Sent \/ SendFailed
      PROVE  Allocated'
  <2>1. PICK value \in {"ok", "error"} : Answer({inflight}, value)
    BY <1>6 DEF Sent, SendFailed
  <2>2. /\ inflight' = NoSend /\ queue' = queue /\ call' = call
        /\ sched' # "sending" /\ inflight \in Send
    BY <1>6 DEF Sent, SendFailed, Allocated, TypeOK
  <2>3. \A d \in Send : /\ d # inflight => req'[d] = req[d] /\ result'[d] = result[d]
                        /\ call[d] # "returned" => req'[d] = req[d]
                        /\ d = inflight /\ call[d] = "returned" => result'[d] = "empty"
    BY <2>1 DEF Answer
  <2>4. \A s \in StreamID : \A i \in 1..Len(queue'[s]) : req'[queue'[s][i]] \in Offer
    BY SMT, <1>a, <2>2, <2>3 DEF AnsweredOnce
  <2>5. \A d \in Send : Held(d)' => Held(d)
    BY <2>2, SendAssumption DEF Held, Queued
  <2>6. \A d \in Send : /\ call'[d] # "returned" => req'[d] \in Offer
                        /\ call'[d] = "returned" => result'[d] = "empty"
    BY <2>2, <2>3 DEF Allocated
  <2>7. \A d \in Send : call'[d] \in {"enqueue", "blocked", "woken"} =>
          ~Held(d)' /\ result'[d] = "empty"
    <3>1. \A d \in Send : call'[d] \in {"enqueue", "blocked", "woken"} =>
            ~Held(d) /\ result[d] = "empty"
      BY <2>2 DEF Allocated
    <3>2. QED
      BY <2>3, <2>5, <3>1 DEF Held
  <2>8. QED
    BY <2>2, <2>4, <2>6, <2>7 DEF Allocated
<1>7. ASSUME Fail \/ SchedulerFail \/ Close
      PROVE  Allocated'
  <2>1. Discard /\ inflight' = inflight
    BY <1>7 DEF Fail, SchedulerFail, Close
  <2>2. sched' = "sending" <=> sched = "sending"
    BY <1>7 DEF Fail, SchedulerFail, Close, WokenScheduler
  <2>3. CASE closed
    <3>1. UNCHANGED <<queue, call, req, result, inflight>>
      BY <2>1, <2>3 DEF Discard
    <3>2. \A d \in Send : Held(d)' <=> Held(d)
      BY <3>1 DEF Held, Queued
    <3>3. QED
      BY <2>2, <3>1, <3>2 DEF Allocated
  <2>4. CASE ~closed
    <3>1. /\ Answer({c \in Send : Queued(c)}, "error") /\ call' = WokenCalls
          /\ queue' = [s \in StreamID |-> <<>>]
      BY <2>1, <2>4 DEF Discard
    <3>2. \A s \in StreamID : Len(queue'[s]) = 0
      BY <3>1
    <3>3. \A d \in Send : Held(d)' => inflight = d
      BY SMT, <2>1, <3>2 DEF Held, Queued
    <3>4. \A d \in Send : /\ ~Queued(d) => req'[d] = req[d] /\ result'[d] = result[d]
                          /\ call[d] # "returned" => req'[d] = req[d]
                          /\ Queued(d) /\ call[d] = "returned" => result'[d] = "empty"
      BY <3>1 DEF Answer
    <3>5. \A d \in Send : call'[d] = IF call[d] = "blocked" THEN "woken" ELSE call[d]
      BY <3>1, SMTT(20) DEF WokenCalls
    <3>6. \A d \in Send : /\ call'[d] # "returned" => req'[d] \in Offer
                          /\ call'[d] = "returned" => result'[d] = "empty"
      BY <3>4, <3>5 DEF Allocated
    <3>7. \A d \in Send : call'[d] \in {"enqueue", "blocked", "woken"} =>
            ~Held(d)' /\ result'[d] = "empty"
      <4>1. \A d \in Send : call'[d] \in {"enqueue", "blocked", "woken"} =>
              ~Held(d) /\ result[d] = "empty"
        BY <3>5 DEF Allocated
      <4>2. QED
        BY <3>3, <3>4, <4>1 DEF Held
    <3>8. inflight' # NoSend => req'[inflight'] \in Offer
      <4>1. inflight # NoSend => inflight \in Send /\ ~Queued(inflight)
        BY SMT DEF TypeOK, Queued, AnsweredOnce
      <4>2. QED
        BY <2>1, <3>4, <4>1 DEF Allocated
    <3>9. inflight' # NoSend <=> sched' = "sending"
      BY <2>1, <2>2 DEF Allocated
    <3>10. \A s \in StreamID : \A i \in 1..Len(queue'[s]) : req'[queue'[s][i]] \in Offer
      BY <3>2, SMTT(20)
    <3>11. QED
      BY <3>6, <3>7, <3>8, <3>9, <3>10 DEF Allocated
  <2>5. QED
    BY <2>3, <2>4
<1>8. ASSUME Rest \/ CloseJoin \/ UNCHANGED vars
      PROVE  Allocated'
  <2>1. UNCHANGED <<queue, call, req, result, inflight>>
    BY <1>8 DEF Rest, CloseJoin, vars
  <2>2. sched' = "sending" <=> sched = "sending"
    BY <1>8 DEF Rest, CloseJoin, vars
  <2>3. \A d \in Send : Held(d)' <=> Held(d)
    BY <2>1 DEF Held, Queued
  <2>4. QED
    BY <2>1, <2>2, <2>3 DEF Allocated
<1>9. QED
  BY <1>2, <1>3, <1>4, <1>5, <1>6, <1>7, <1>8, SMTT(20) DEF Next, Caller, Scheduler

(***************************************************************************)
(* No wake-up is lost.                                                     *)
(***************************************************************************)
LEMMA WakeupStep ==
  ASSUME TypeOK, Allocated, OrderMatchesMap, NoLostWakeup, [Next]_vars
  PROVE  NoLostWakeup'
<1> USE DEF pvars, svars, cvars
<1>1. ASSUME UNCHANGED pvars
      PROVE  \A o : Fits(o)' <=> Fits(o)
  BY <1>1 DEF Fits
<1>2. ASSUME NEW c \in Send, (\E o \in Offer : SendBegin(c, o)) \/ EnqueueRefused(c)
                             \/ Cancel(c) \/ Return(c)
      PROVE  NoLostWakeup'
  <2>1. UNCHANGED <<closed, pvars, sched>>
    BY <1>2 DEF SendBegin, EnqueueRefused, Cancel, Return
  <2>2. \A d \in Send \ {c} : call'[d] = call[d] /\ req'[d] = req[d]
    BY <1>2 DEF SendBegin, EnqueueRefused, Cancel, Return, Leave, TypeOK
  <2>3. call'[c] = "blocked" => ~closed /\ ~Fits(req[c]) /\ req'[c] = req[c]
    BY <1>2 DEF SendBegin, EnqueueRefused, Cancel, Return, Leave, TypeOK
  <2>4. \A d \in Send : call'[d] = "blocked" => ~closed /\ ~Fits(req'[d])
    BY <2>2, <2>3, SMTT(20) DEF NoLostWakeup
  <2>5. \A d \in Send : call'[d] = "blocked" => ~closed' /\ ~Fits(req[d])'
    BY <1>1, <2>1, <2>4 DEF Fits
  <2>6. QED
    BY <2>1, <2>5, SMTT(20) DEF NoLostWakeup
<1>3. ASSUME \A d \in Send : call'[d] # "blocked", sched' # "parked"
      PROVE  NoLostWakeup'
  BY <1>3 DEF NoLostWakeup
<1>4. ASSUME NEW c \in Send, Enqueue(c)
      PROVE  NoLostWakeup'
  <2>1. call' = [WokenCalls EXCEPT ![c] = "waiting"] /\ sched' = WokenScheduler
    BY <1>4 DEF Enqueue
  <2>2. QED
    BY <1>3, <2>1 DEF WokenCalls, WokenScheduler
<1>5. ASSUME Take
      PROVE  NoLostWakeup'
  BY <1>3, <1>5 DEF Take, WokenCalls
<1>6. ASSUME Rest
      PROVE  NoLostWakeup'
  <2>1. UNCHANGED <<closed, pvars, call, req>> /\ (sched' = "parked" => ~closed)
    BY <1>6 DEF Rest
  <2>2. \A d \in Send : call'[d] = "blocked" => ~closed' /\ ~Fits(req[d])'
    BY <2>1 DEF NoLostWakeup, Fits
  <2>3. outboundOrder = <<>>
    <3>1. SUFFICES ASSUME outboundOrder # <<>>
                   PROVE  \E class \in TrafficClass : Available(class)
      BY <1>6 DEF Rest
    <3>2. Len(outboundOrder) \in Nat \ {0}
      BY SMT, <3>1 DEF TypeOK
    <3>3. PICK s \in StreamID : s = outboundOrder[1] /\ s \in outbound /\ queue[s] # <<>>
      BY SMT, <3>2 DEF TypeOK, OrderMatchesMap
    <3>4. queue[s] \in Seq(Send)
      BY DEF TypeOK
    <3>5. 1 \in 1..Len(queue[s]) /\ Head(queue[s]) = queue[s][1]
      BY SMT, <3>3, <3>4
    <3>6. req[Head(queue[s])].class \in TrafficClass
      BY <3>5, OfferAssumption DEF Allocated
    <3>7. 0 \in 0..(Streams - 1) /\ StreamAt(0) = s
      BY SMT, <3>2, <3>3 DEF Streams, StreamAt
    <3>8. Eligible(req[Head(queue[s])].class, 0)
      BY <3>3, <3>7 DEF Eligible
    <3>9. QED
      BY <3>6, <3>7, <3>8 DEF Available
  <2>4. QED
    BY <2>1, <2>2, <2>3 DEF NoLostWakeup
<1>7. ASSUME Sent \/ SendFailed
      PROVE  NoLostWakeup'
  <2>1. UNCHANGED <<closed, pvars, call>> /\ sched' # "parked"
    BY <1>7 DEF Sent, SendFailed
  <2>2. \A d \in Send : call[d] = "blocked" => req'[d] = req[d]
    BY <1>7 DEF Sent, SendFailed, Answer
  <2>3. \A d \in Send : call'[d] = "blocked" => ~closed' /\ ~Fits(req[d])'
    BY <2>1, <2>2 DEF NoLostWakeup, Fits
  <2>4. QED
    BY <2>1, <2>3 DEF NoLostWakeup
<1>8. ASSUME Fail \/ SchedulerFail \/ Close
      PROVE  NoLostWakeup'
  <2>1. Discard
    BY <1>8 DEF Fail, SchedulerFail, Close
  <2>2. CASE closed
    <3>1. (\A d \in Send : call[d] # "blocked") /\ sched # "parked"
      BY <2>2 DEF NoLostWakeup
    <3>2. call' = call /\ sched' # "parked"
      BY <1>8, <2>1, <2>2, <3>1 DEF Discard, Fail, SchedulerFail, Close
    <3>3. QED
      BY <1>3, <3>1, <3>2
  <2>3. CASE ~closed
    <3>1. call' = WokenCalls /\ sched' # "parked"
      BY <1>8, <2>1, <2>3 DEF Discard, Fail, SchedulerFail, Close, WokenScheduler
    <3>2. QED
      BY <1>3, <3>1 DEF WokenCalls
  <2>4. QED
    BY <2>2, <2>3
<1>9. ASSUME CloseJoin \/ UNCHANGED vars
      PROVE  NoLostWakeup'
  <2>1. UNCHANGED <<closed, pvars, call, req, sched>>
    BY <1>9 DEF CloseJoin, vars
  <2>2. \A d \in Send : call'[d] = "blocked" => ~closed' /\ ~Fits(req[d])'
    BY <2>1 DEF NoLostWakeup, Fits
  <2>3. QED
    BY <2>1, <2>2 DEF NoLostWakeup
<1>10. QED
  BY <1>2, <1>4, <1>5, <1>6, <1>7, <1>8, <1>9 DEF Next, Caller, Scheduler

(***************************************************************************)
(* No caller of send is left behind.                                       *)
(***************************************************************************)
LEMMA ForgottenStep ==
  ASSUME TypeOK, Allocated, OrderMatchesMap, NobodyForgotten, [Next]_vars
  PROVE  NobodyForgotten'
<1> USE DEF pvars, svars, cvars
<1>1. ASSUME NEW c \in Send, (\E o \in Offer : SendBegin(c, o)) \/ EnqueueRefused(c)
                             \/ Cancel(c) \/ Return(c)
      PROVE  NobodyForgotten'
  <2>1. UNCHANGED <<closed, queue, inflight>>
    BY <1>1, SMTT(20) DEF SendBegin, EnqueueRefused, Cancel, Return
  <2>2. \A d \in Send \ {c} : call'[d] = call[d] /\ result'[d] = result[d]
    BY <1>1 DEF SendBegin, EnqueueRefused, Cancel, Return, Leave, TypeOK
  <2>3. call'[c] # "waiting"
    BY <1>1 DEF SendBegin, EnqueueRefused, Cancel, Return, Leave, TypeOK
  <2>4. \A d \in Send : Held(d)' <=> Held(d)
    BY <2>1 DEF Held, Queued
  <2>5. QED
    BY <2>1, <2>2, <2>3, <2>4, SMTT(20) DEF NobodyForgotten
<1>2. ASSUME NEW c \in Send, Enqueue(c)
      PROVE  NobodyForgotten'
  <2>1. \A d \in Send : Held(d)' <=> Held(d) \/ d = c
    BY <1>2, HeldStep
  <2>2. \A d \in Send : d # c /\ call'[d] = "waiting" => call[d] = "waiting"
    BY <1>2, ZenonT(30) DEF Enqueue, WokenCalls
  <2>3. result' = result /\ closed' = closed
    BY <1>2, ZenonT(30) DEF Enqueue
  <2>4. QED
    BY <2>1, <2>2, <2>3, SMTT(20) DEF NobodyForgotten
<1>3. ASSUME Take
      PROVE  NobodyForgotten'
  <2>1. \A d \in Send : Held(d)' <=> Held(d)
    BY <1>3, HeldStep
  <2>2. \A d \in Send : call'[d] = "waiting" => call[d] = "waiting"
    BY <1>3 DEF Take, WokenCalls
  <2>3. result' = result /\ closed' = closed
    BY <1>3 DEF Take
  <2>4. QED
    BY <2>1, <2>2, <2>3 DEF NobodyForgotten
<1>4. ASSUME Sent \/ SendFailed
      PROVE  NobodyForgotten'
  <2>1. PICK value \in {"ok", "error"} : Answer({inflight}, value)
    BY <1>4 DEF Sent, SendFailed
  <2>2. UNCHANGED <<queue, call, closed>>
    BY <1>4 DEF Sent, SendFailed
  <2>3. \A d \in Send : /\ d # inflight => result'[d] = result[d]
                        /\ d = inflight /\ call[d] = "waiting" => result'[d] # "empty"
    BY <2>1 DEF Answer
  <2>4. \A d \in Send : d # inflight /\ Held(d) => Held(d)'
    BY <2>2, SMTT(20) DEF Held, Queued
  <2>5. QED
    BY <2>2, <2>3, <2>4 DEF NobodyForgotten
<1>5. ASSUME Fail \/ SchedulerFail \/ Close
      PROVE  NobodyForgotten'
  BY <1>5 DEF Fail, SchedulerFail, Close, Discard, NobodyForgotten
<1>6. ASSUME Rest \/ CloseJoin \/ UNCHANGED vars
      PROVE  NobodyForgotten'
  <2>1. UNCHANGED <<closed, queue, inflight, call, result>>
    BY <1>6 DEF Rest, CloseJoin, vars
  <2>2. QED
    BY <2>1 DEF NobodyForgotten, Held, Queued
<1>7. QED
  BY <1>1, <1>2, <1>3, <1>4, <1>5, <1>6 DEF Next, Caller, Scheduler

(***************************************************************************)
(* A shut down Peer stays empty.                                           *)
(***************************************************************************)
LEMMA ShutStep ==
  ASSUME TypeOK, Allocated, ShutDownIsEmpty, [Next]_vars
  PROVE  ShutDownIsEmpty'
<1> USE DEF pvars, svars, cvars
<1>1. ASSUME UNCHANGED <<closed, outbound, outboundOrder, queue>>,
             sched' = "stopped" => closed' /\ inflight' = NoSend
      PROVE  ShutDownIsEmpty'
  <2>1. \A c \in Send : Queued(c)' <=> Queued(c)
    BY <1>1 DEF Queued
  <2>2. QED
    BY <1>1, <2>1 DEF ShutDownIsEmpty
<1>2. ASSUME NEW c \in Send, (\E o \in Offer : SendBegin(c, o)) \/ EnqueueRefused(c)
                             \/ Cancel(c) \/ Return(c)
      PROVE  ShutDownIsEmpty'
  <2>1. UNCHANGED <<closed, outbound, outboundOrder, queue, sched, inflight>>
    BY <1>2 DEF SendBegin, EnqueueRefused, Cancel, Return
  <2>2. QED
    BY <1>1, <2>1, SMTT(20) DEF ShutDownIsEmpty
<1>3. ASSUME NEW c \in Send, Enqueue(c)
      PROVE  ShutDownIsEmpty'
  <2>1. ~closed' /\ sched' = WokenScheduler /\ ~closed
    BY <1>3 DEF Enqueue
  <2>2. QED
    BY <2>1 DEF ShutDownIsEmpty, WokenScheduler
<1>4. ASSUME Take
      PROVE  ShutDownIsEmpty'
  <2>1. closed' = closed /\ sched' = "sending"
    BY <1>4 DEF Take
  <2>2. PICK index \in 0..(Len(outboundOrder) - 1) : outboundOrder[index + 1] \in outbound
    BY <1>4, TakeFacts
  <2>3. ~closed
    BY <2>2 DEF ShutDownIsEmpty
  <2>4. QED
    BY <2>1, <2>3 DEF ShutDownIsEmpty
<1>5. ASSUME Rest \/ Sent \/ SendFailed
      PROVE  ShutDownIsEmpty'
  <2>1. UNCHANGED <<closed, outbound, outboundOrder, queue>>
    BY <1>5 DEF Rest, Sent, SendFailed
  <2>2. sched' = "stopped" => closed' /\ inflight' = NoSend
    <3>1. CASE Rest
      <4>1. sched = "select" /\ inflight' = inflight /\ sched' = (IF closed THEN "stopped" ELSE "parked")
        BY <3>1 DEF Rest
      <4>2. inflight = NoSend
        BY <4>1 DEF Allocated
      <4>3. QED
        BY <2>1, <4>1, <4>2
    <3>2. CASE Sent \/ SendFailed
      BY <3>2 DEF Sent, SendFailed
    <3>3. QED
      BY <1>5, <3>1, <3>2
  <2>3. QED
    BY <1>1, <2>1, <2>2
<1>6. ASSUME Fail \/ SchedulerFail \/ Close
      PROVE  ShutDownIsEmpty'
  <2>1. Discard /\ inflight' = inflight
    BY <1>6 DEF Fail, SchedulerFail, Close
  <2>2. closed'
    BY <2>1 DEF Discard
  <2>3. sched' = "stopped" => inflight = NoSend
    BY <1>6 DEF Fail, SchedulerFail, Close, WokenScheduler, Allocated, ShutDownIsEmpty
  <2>4. CASE closed
    BY <1>1, <2>1, <2>2, <2>3, <2>4 DEF Discard
  <2>5. CASE ~closed
    <3>1. outbound' = {} /\ outboundOrder' = <<>> /\ queue' = [s \in StreamID |-> <<>>]
      BY <2>1, <2>5 DEF Discard
    <3>2. \A c \in Send : ~Queued(c)'
      BY SMT, <3>1 DEF Queued
    <3>3. QED
      BY <2>1, <2>2, <2>3, <3>1, <3>2 DEF ShutDownIsEmpty
  <2>6. QED
    BY <2>4, <2>5
<1>7. ASSUME CloseJoin \/ UNCHANGED vars
      PROVE  ShutDownIsEmpty'
  <2>1. UNCHANGED <<closed, outbound, outboundOrder, queue, sched, inflight>>
    BY <1>7 DEF CloseJoin, vars
  <2>2. QED
    BY <1>1, <2>1 DEF ShutDownIsEmpty
<1>8. QED
  BY <1>2, <1>3, <1>4, <1>5, <1>6, <1>7 DEF Next, Caller, Scheduler

(***************************************************************************)
(* The invariant holds initially: nothing is queued and nobody is in send. *)
(***************************************************************************)
LEMMA InitInv ==
  ASSUME Init
  PROVE  Inv
<1>1. queue = [s \in StreamID |-> <<>>] /\ outboundOrder = <<>> /\ outbound = {}
  BY DEF Init
<1>2. <<>> \in Seq(Send) /\ <<>> \in Seq(StreamID)
  BY SMT
<1>3. /\ queue \in [StreamID -> Seq(Send)]
      /\ \A s \in StreamID : queue[s] = <<>> /\ Len(queue[s]) = 0
  BY <1>1, <1>2
<1>4. Len(outboundOrder) = 0
  BY <1>1
<1>5. \A c \in Send : ~Queued(c) /\ ~Held(c)
  BY SMT, <1>3, SendAssumption DEF Init, Queued, Held
<1>6. TypeOK
  <2>1. /\ call \in [Send -> {"returned", "enqueue", "blocked", "woken", "waiting"}]
        /\ result \in [Send -> {"empty", "ok", "error"}]
        /\ streamBytes \in [StreamID -> Int]
    BY SMT DEF Init
  <2>2. req \in [Send -> Offer \cup {NoOffer}]
    BY DEF Init
  <2>3. inflight \in Send \cup {NoSend} /\ outbound \subseteq StreamID
    BY DEF Init
  <2>a. closed \in BOOLEAN
    BY DEF Init
  <2>4. /\ sched \in {"select", "parked", "sending", "failing", "stopped"}
        /\ closer \in {"open", "joining", "done"}
    BY DEF Init
  <2>5. classIndex \in 0..2 /\ credit \in Nat /\ cursor \in Nat
        /\ outboundBytes \in Int /\ outboundFrames \in Int
    BY SMT DEF Init
  <2>6. outboundOrder \in Seq(StreamID)
    BY <1>1, <1>2
  <2>7. QED
    BY <1>3, <2>1, <2>2, <2>3, <2>a, <2>4, <2>5, <2>6 DEF TypeOK
<1>7. Allocated
  BY SMT, <1>3, <1>5 DEF Init, Allocated
<1>8. OrderMatchesMap
  BY SMT, <1>1, <1>3, <1>4 DEF Init, OrderMatchesMap
<1>9. AnsweredOnce
  BY SMT, <1>3 DEF Init, AnsweredOnce
<1>10. NoLostWakeup /\ NobodyForgotten /\ ShutDownIsEmpty
  BY DEF Init, NoLostWakeup, NobodyForgotten, ShutDownIsEmpty
<1>11. QED
  BY <1>6, <1>7, <1>8, <1>9, <1>10 DEF Inv

(***************************************************************************)
(* Inv is inductive: every critical section of Peer.mu and every channel   *)
(* operation outside it keeps the whole of it.                             *)
(***************************************************************************)
THEOREM Invariance == Spec => []Inv
<1>1. Inv /\ [Next]_vars => Inv'
  <2>1. SUFFICES ASSUME Inv, [Next]_vars
                 PROVE  Inv'
    OBVIOUS
  <2>2. /\ TypeOK /\ Allocated /\ OrderMatchesMap /\ AnsweredOnce
        /\ NoLostWakeup /\ NobodyForgotten /\ ShutDownIsEmpty
    BY <2>1 DEF Inv
  <2>3. TypeOK'
    BY <2>1, <2>2, TypeStep
  <2>4. OrderMatchesMap'
    BY <2>1, <2>2, OrderStep
  <2>5. AnsweredOnce'
    BY <2>1, <2>2, AnsweredStep
  <2>6. Allocated'
    BY <2>1, <2>2, AllocatedStep
  <2>7. NoLostWakeup'
    BY <2>1, <2>2, WakeupStep
  <2>8. NobodyForgotten'
    BY <2>1, <2>2, ForgottenStep
  <2>9. ShutDownIsEmpty'
    BY <2>1, <2>2, ShutStep
  <2>10. QED
    BY <2>3, <2>4, <2>5, <2>6, <2>7, <2>8, <2>9 DEF Inv
<1>2. Init => Inv
  BY InitInv
<1>3. QED
  BY <1>1, <1>2, PTL DEF Spec

(***************************************************************************)
(* The state keeps its shape, and the scheduler's locals their ranges, for *)
(* every configuration PeerConfig accepts.                                 *)
(***************************************************************************)
THEOREM TypeCorrect == Spec => []TypeOK
<1>1. Inv => TypeOK
  BY DEF Inv
<1>2. QED
  BY <1>1, Invariance, PTL

(***************************************************************************)
(* The round-robin order, the map of streams and the cursor of schedule    *)
(* and takeLocked never disagree.                                          *)
(***************************************************************************)
THEOREM OrderCorrect == Spec => []OrderMatchesMap
<1>1. Inv => OrderMatchesMap
  BY DEF Inv
<1>2. QED
  BY <1>1, Invariance, PTL

(***************************************************************************)
(* Each accepted request is answered at most once, so neither fail nor the *)
(* scheduler ever blocks on request.result.                                *)
(***************************************************************************)
THEOREM AnswerCorrect == Spec => []AnsweredOnce
<1>1. Inv => AnsweredOnce
  BY DEF Inv
<1>2. QED
  BY <1>1, Invariance, PTL

(***************************************************************************)
(* Whoever waits on p.changed really has to: signalLocked is called by     *)
(* every section that changes what a waiter waits for.                     *)
(***************************************************************************)
THEOREM WakeupCorrect == Spec => []NoLostWakeup
<1>1. Inv => NoLostWakeup
  BY DEF Inv
<1>2. QED
  BY <1>1, Invariance, PTL

(***************************************************************************)
(* No caller of send waits for an answer that nobody will give, and a shut *)
(* down Peer holds nothing but the request being written.                  *)
(***************************************************************************)
THEOREM ShutdownCorrect == Spec => [](NobodyForgotten /\ ShutDownIsEmpty)
<1>1. Inv => NobodyForgotten /\ ShutDownIsEmpty
  BY DEF Inv
<1>2. QED
  BY <1>1, Invariance, PTL

(***************************************************************************)
(* Every step of the Peer is a step of the per-stream FIFO channels, or    *)
(* leaves them alone.                                                      *)
(***************************************************************************)
LEMMA RefinementStep ==
  ASSUME Inv, [Next]_vars
  PROVE  [Ordered!ONext]_Ordered!ovars
<1> USE DEF pvars, svars, cvars
<1>1. TypeOK /\ Allocated /\ OrderMatchesMap /\ AnsweredOnce
  BY DEF Inv
<1>2. ASSUME UNCHANGED <<closed, queue, inflight>>
      PROVE  [Ordered!ONext]_Ordered!ovars
  BY <1>2 DEF Ordered!ovars
<1>3. ASSUME NEW c \in Send, Enqueue(c)
      PROVE  Ordered!ONext
  <2>1. PICK s \in StreamID : queue' = [queue EXCEPT ![s] = Append(@, c)]
    BY <1>1, <1>3, EnqueueFacts, SMTT(20)
  <2>2. ~Held(c)
    BY <1>1, <1>3 DEF Allocated, Enqueue
  <2>3. /\ inflight # c
        /\ \A t \in StreamID : \A i \in 1..Len(queue[t]) : queue[t][i] # c
    BY <1>1, <2>2, HeldFacts, SMTT(20)
  <2>4. ~closed /\ closed' = closed /\ inflight' = inflight
    BY <1>3 DEF Enqueue
  <2>5. Ordered!Accept(s, c)
    BY <2>1, <2>3, <2>4 DEF Ordered!Accept
  <2>6. QED
    BY <2>5 DEF Ordered!ONext
<1>4. ASSUME Take
      PROVE  Ordered!ONext
  <2>1. PICK s \in StreamID, c \in Send :
          /\ inflight' = c
          /\ queue[s] # <<>> /\ Head(queue[s]) = c
          /\ queue' = [queue EXCEPT ![s] = Tail(@)]
    BY <1>1, <1>4, TakeQueue
  <2>2. inflight = NoSend /\ closed' = closed
    BY <1>1, <1>4 DEF Take, Allocated
  <2>3. Ordered!HandOver(s)
    BY <2>1, <2>2 DEF Ordered!HandOver
  <2>4. QED
    BY <2>3 DEF Ordered!ONext
<1>5. ASSUME Sent \/ SendFailed
      PROVE  Ordered!ONext
  <2>1. inflight # NoSend
    BY <1>1, <1>5 DEF Sent, SendFailed, Allocated
  <2>2. QED
    BY <1>5, <2>1, SMTT(20) DEF Sent, SendFailed, Ordered!ONext, Ordered!Finish
<1>6. ASSUME Fail \/ SchedulerFail \/ Close
      PROVE  [Ordered!ONext]_Ordered!ovars
  <2>1. Discard /\ inflight' = inflight
    BY <1>6 DEF Fail, SchedulerFail, Close
  <2>2. CASE closed
    BY <1>2, <2>1, <2>2 DEF Discard
  <2>3. CASE ~closed
    BY <2>1, <2>3, SMTT(20) DEF Discard, Ordered!ONext, Ordered!Shut
  <2>4. QED
    BY <2>2, <2>3
<1>7. ASSUME NEW c \in Send, (\E o \in Offer : SendBegin(c, o)) \/ EnqueueRefused(c)
                             \/ Cancel(c) \/ Return(c)
      PROVE  [Ordered!ONext]_Ordered!ovars
  BY <1>2, <1>7 DEF SendBegin, EnqueueRefused, Cancel, Return
<1>8. ASSUME Rest \/ CloseJoin \/ UNCHANGED vars
      PROVE  [Ordered!ONext]_Ordered!ovars
  BY <1>2, <1>8 DEF Rest, CloseJoin, vars
<1>9. QED
  BY <1>3, <1>4, <1>5, <1>6, <1>7, <1>8 DEF Next, Caller, Scheduler

(***************************************************************************)
(* The outbound half of the Peer implements one FIFO channel per stream,   *)
(* for any traffic, weights and limits: "Per-stream order is preserved     *)
(* even when successive frames use different classes" (peer.go:23).        *)
(***************************************************************************)
THEOREM Refinement == Spec => PerStreamOrder
<1>1. Init => Ordered!OInit
  BY DEF Init, Ordered!OInit
<1>2. Inv /\ [Next]_vars => [Ordered!ONext]_Ordered!ovars
  BY RefinementStep
<1>3. QED
  BY <1>1, <1>2, Invariance, PTL DEF Spec, PerStreamOrder, Ordered!OSpec

-----------------------------------------------------------------------------
(* Sums *)

(***************************************************************************)
(* p gives the sum of w over each subset of S, and total is the sum over   *)
(* S itself.                                                               *)
(***************************************************************************)
SumsBy(p, S, w) ==
  /\ p \in [SUBSET S -> Nat] /\ p[{}] = 0 /\ \A x \in S : w[x] \in Nat
  /\ \A A \in SUBSET S : \A x \in S \ A : p[A \cup {x}] = p[A] + w[x]

IsSum(S, w, total) == \E p : SumsBy(p, S, w) /\ p[S] = total

LEMMA SumIsNat == ASSUME NEW S, NEW w, NEW total, IsSum(S, w, total) PROVE total \in Nat
<1>1. S \in SUBSET S
  OBVIOUS
<1>2. QED
  BY SMT, <1>1 DEF IsSum, SumsBy

LEMMA SumOfNone == ASSUME NEW w, NEW total, IsSum({}, w, total) PROVE total = 0
  BY DEF IsSum, SumsBy

LEMMA SumOfZeros == ASSUME NEW S, NEW w, \A x \in S : w[x] = 0 PROVE IsSum(S, w, 0)
<1> DEFINE p == [A \in SUBSET S |-> 0]
<1>1. p \in [SUBSET S -> Nat] /\ \A A \in SUBSET S : p[A] = 0
  OBVIOUS
<1> HIDE DEF p
<1>2. ASSUME NEW A \in SUBSET S, NEW x \in S \ A PROVE p[A \cup {x}] = p[A] + w[x]
  <2>1. A \cup {x} \in SUBSET S
    OBVIOUS
  <2>2. p[A \cup {x}] = 0 /\ p[A] = 0 /\ w[x] = 0
    BY <1>1, <2>1
  <2>3. QED
    BY SMT, <2>2
<1>3. SumsBy(p, S, w) /\ p[S] = 0
  BY <1>1, <1>2 DEF SumsBy
<1>4. QED
  BY <1>3 DEF IsSum

\* One summand more.
LEMMA SumAdd ==
  ASSUME NEW S, NEW w, NEW v, NEW s, s \notin S, v[s] \in Nat,
         \A x \in S : v[x] = w[x], NEW total, IsSum(S, w, total)
  PROVE  IsSum(S \cup {s}, v, total + v[s])
<1>1. PICK p : SumsBy(p, S, w) /\ p[S] = total
  BY DEF IsSum
<1>2. /\ p \in [SUBSET S -> Nat] /\ p[{}] = 0 /\ \A x \in S : w[x] \in Nat
      /\ \A A \in SUBSET S : \A x \in S \ A : p[A \cup {x}] = p[A] + w[x]
  BY <1>1 DEF SumsBy
<1> DEFINE T == S \cup {s}
           r == [A \in SUBSET T |-> IF s \in A THEN p[A \ {s}] + v[s] ELSE p[A]]
<1>3. /\ \A A \in SUBSET T : A \ {s} \in SUBSET S /\ p[A \ {s}] \in Nat
      /\ \A A \in SUBSET T : s \notin A => A \ {s} = A /\ A \in SUBSET S
  BY <1>2
<1>4. \A A \in SUBSET T : /\ s \in A => r[A] = p[A \ {s}] + v[s]
                          /\ s \notin A => r[A] = p[A]
  OBVIOUS
<1>5. r \in [SUBSET T -> Nat]
  BY SMT, <1>2, <1>3
<1> HIDE DEF r
<1>6. ASSUME NEW A \in SUBSET T, NEW x \in T \ A PROVE r[A \cup {x}] = r[A] + v[x]
  <2>1. A \cup {x} \in SUBSET T
    OBVIOUS
  <2>2. CASE x = s
    <3>1. (A \cup {x}) \ {s} = A /\ s \in A \cup {x} /\ s \notin A
      BY <2>2
    <3>2. r[A] = p[A] /\ r[A \cup {x}] = p[A] + v[s]
      BY <1>4, <2>1, <2>2, <3>1
    <3>3. QED
      BY <2>2, <3>2
  <2>3. CASE x # s /\ s \in A
    <3>1. /\ (A \cup {x}) \ {s} = (A \ {s}) \cup {x} /\ s \in A \cup {x}
          /\ x \in S \ (A \ {s}) /\ x \in S
      BY <2>3
    <3>2. p[(A \ {s}) \cup {x}] = p[A \ {s}] + w[x]
      BY <1>2, <1>3, <3>1
    <3>3. /\ r[A] = p[A \ {s}] + v[s] /\ r[A \cup {x}] = p[(A \ {s}) \cup {x}] + v[s]
          /\ v[x] = w[x]
      BY <1>4, <2>1, <2>3, <3>1
    <3>4. w[x] \in Nat /\ p[A \ {s}] \in Nat
      BY <1>2, <1>3, <3>1
    <3>5. QED
      BY SMT, <3>2, <3>3, <3>4
  <2>4. CASE x # s /\ s \notin A
    <3>1. A \in SUBSET S /\ x \in S \ A
      BY <2>4
    <3>2. r[A] = p[A] /\ r[A \cup {x}] = p[A \cup {x}] /\ v[x] = w[x]
      BY <1>4, <2>1, <2>4, <3>1
    <3>3. p[A \cup {x}] = p[A] + w[x]
      BY <1>2, <3>1
    <3>4. QED
      BY <3>2, <3>3
  <2>5. QED
    BY <2>2, <2>3, <2>4
<1>7. r[{}] = 0
  BY <1>2, <1>4
<1>8. r[T] = total + v[s]
  <2>1. T \ {s} = S /\ T \in SUBSET T /\ s \in T
    OBVIOUS
  <2>2. QED
    BY <1>1, <1>4, <2>1
<1>9. SumsBy(r, T, v)
  BY <1>2, <1>5, <1>6, <1>7 DEF SumsBy
<1>10. QED
  BY <1>8, <1>9 DEF IsSum

\* v has the summands of w but that of s, each in the place m gives it.
AllBut(s, S, w, T, v, m) ==
  /\ \A i \in T : m[i] \in S \ {s} /\ v[i] = w[m[i]]
  /\ \A i, j \in T : m[i] = m[j] => i = j
  /\ \A x \in S \ {s} : \E i \in T : m[i] = x

\* One summand less.
LEMMA SumLess ==
  ASSUME NEW S, NEW w, NEW total, IsSum(S, w, total), NEW s \in S,
         NEW T, NEW v, NEW m, AllBut(s, S, w, T, v, m)
  PROVE  IsSum(T, v, total - w[s])
<1> USE DEF AllBut
<1>1. PICK p : SumsBy(p, S, w) /\ p[S] = total
  BY DEF IsSum
<1>2. /\ p \in [SUBSET S -> Nat] /\ p[{}] = 0 /\ \A x \in S : w[x] \in Nat
      /\ \A A \in SUBSET S : \A x \in S \ A : p[A \cup {x}] = p[A] + w[x]
  BY <1>1 DEF SumsBy
<1> DEFINE Im(A) == {m[i] : i \in A}
           r == [A \in SUBSET T |-> p[Im(A)]]
<1>3. \A A \in SUBSET T : Im(A) \in SUBSET S /\ r[A] = p[Im(A)]
  BY SMT
<1>4. r \in [SUBSET T -> Nat]
  BY <1>2, <1>3
<1>5. r[{}] = 0
  <2>1. Im({}) = {} /\ {} \in SUBSET T
    OBVIOUS
  <2>2. QED
    BY <1>2, <1>3, <2>1
<1> HIDE DEF r
<1>6. ASSUME NEW A \in SUBSET T, NEW x \in T \ A PROVE r[A \cup {x}] = r[A] + v[x]
  <2>1. A \cup {x} \in SUBSET T
    OBVIOUS
  <2>2. Im(A \cup {x}) = Im(A) \cup {m[x]}
    BY SMT
  <2>3. m[x] \in S \ Im(A)
    BY SMT
  <2> HIDE DEF Im
  <2>4. p[Im(A) \cup {m[x]}] = p[Im(A)] + w[m[x]]
    BY <1>2, <1>3, <2>3
  <2>5. r[A \cup {x}] = p[Im(A) \cup {m[x]}] /\ r[A] = p[Im(A)] /\ v[x] = w[m[x]]
    BY <1>3, <2>1, <2>2
  <2>6. QED
    BY <2>4, <2>5
<1>7. r[T] = total - w[s]
  <2>1. Im(T) = S \ {s} /\ T \in SUBSET T
    <3>1. Im(T) \subseteq S \ {s}
      BY SMT
    <3>2. S \ {s} \subseteq Im(T)
      OBVIOUS
    <3>3. QED
      BY <3>1, <3>2
  <2> HIDE DEF Im
  <2>2. (S \ {s}) \cup {s} = S /\ S \ {s} \in SUBSET S /\ s \in S \ (S \ {s})
    OBVIOUS
  <2>3. p[(S \ {s}) \cup {s}] = p[S \ {s}] + w[s]
    BY <1>2, <2>2
  <2>4. total = p[S \ {s}] + w[s] /\ p[S \ {s}] \in Nat /\ w[s] \in Nat
    BY <1>1, <1>2, <2>2, <2>3
  <2>5. r[T] = p[S \ {s}]
    BY <1>3, <2>1
  <2>6. QED
    BY SMT, <2>4, <2>5
<1>8. \A x \in T : v[x] \in Nat
  BY <1>2
<1>9. SumsBy(r, T, v)
  BY <1>4, <1>5, <1>6, <1>8 DEF SumsBy
<1>10. QED
  BY <1>7, <1>9 DEF IsSum

\* One summand changes.
LEMMA SumChange ==
  ASSUME NEW S, NEW w, NEW total, IsSum(S, w, total), NEW s \in S,
         NEW v, v[s] \in Nat, \A x \in S \ {s} : v[x] = w[x]
  PROVE  IsSum(S, v, total + (v[s] - w[s]))
<1> DEFINE rest == S \ {s}
           id == [x \in rest |-> x]
<1>0. PICK T, m : T = rest /\ m = id
  BY ZenonT(30)
<1>1. AllBut(s, S, w, T, v, m)
  BY <1>0 DEF AllBut
<1>2. T \cup {s} = S /\ s \notin T
  BY <1>0
<1> HIDE DEF rest, id
<1>3. IsSum(T, v, total - w[s])
  BY <1>1, SumLess
<1>4. IsSum(T \cup {s}, v, (total - w[s]) + v[s])
  BY <1>2, <1>3, SumAdd
<1>5. total \in Nat /\ w[s] \in Nat
  BY SumIsNat DEF IsSum, SumsBy
<1>6. (total - w[s]) + v[s] = total + (v[s] - w[s])
  BY SMT, <1>5
<1>7. QED
  BY <1>2, <1>4, <1>6

(***************************************************************************)
(* Induction over the subsets of a finite set, as the least element        *)
(* principle: what the proofs need of the library's theorems, which        *)
(* FiniteFactsHold, at the end, cites.                                     *)
(***************************************************************************)
FiniteFacts ==
  /\ \A S : IsFiniteSet(S) =>
       \A T : T # {} /\ (\A A \in T : A \subseteq S) =>
         \E A \in T : \A B \in T : ~(B \subseteq A /\ B # A)
  /\ \A n \in Nat : IsFiniteSet(1..n)

TakesOneByOne(g, S, w) ==
  /\ g[{}] = 0
  /\ \A A \in SUBSET S : A # {} =>
       \E x \in A : g[A] = w[x] + g[A \ {x}] \/ g[A] = g[A \ {x}] + w[x]

\* A recursive function that takes one member after the other out of a finite
\* set, whichever it chooses, adds up the summands.
LEMMA RecursionIsSum ==
  ASSUME FiniteFacts, NEW S, IsFiniteSet(S), NEW w, NEW p, SumsBy(p, S, w),
         NEW g, TakesOneByOne(g, S, w)
  PROVE  g[S] = p[S]
<1>1. PICK T : T = {A \in SUBSET S : g[A] # p[A]}
  OBVIOUS
<1>2. ASSUME NEW A \in T, \A B \in T : ~(B \subseteq A /\ B # A) PROVE FALSE
  <2>1. A \in SUBSET S /\ g[A] # p[A]
    BY <1>1
  <2>2. A # {}
    BY <2>1 DEF SumsBy, TakesOneByOne
  <2>3. PICK x \in A : g[A] = w[x] + g[A \ {x}] \/ g[A] = g[A \ {x}] + w[x]
    BY <2>1, <2>2 DEF TakesOneByOne
  <2>4. A \ {x} \in SUBSET S /\ x \in S \ (A \ {x}) /\ (A \ {x}) \cup {x} = A
        /\ A \ {x} \subseteq A /\ A \ {x} # A
    BY <2>1
  <2>5. g[A \ {x}] = p[A \ {x}]
    BY <1>1, <1>2, <2>4
  <2>6. p[(A \ {x}) \cup {x}] = p[A \ {x}] + w[x] /\ p[A \ {x}] \in Nat /\ w[x] \in Nat
    BY <2>4 DEF SumsBy
  <2>7. p[A] = p[A \ {x}] + w[x]
    BY <2>4, <2>6
  <2>8. QED
    BY SMT, <2>1, <2>3, <2>5, <2>6, <2>7
<1>3. \A A \in T : A \subseteq S
  BY <1>1
<1>4. T = {}
  BY SMT, <1>2, <1>3 DEF FiniteFacts
<1>5. QED
  BY <1>1, <1>4

\* The sums over a sequence of n, with one position more or one less.
LEMMA SumAppend ==
  ASSUME NEW n \in Nat, NEW f, NEW total, IsSum(1..n, f, total),
         NEW g, \A i \in 1..n : g[i] = f[i], g[n + 1] \in Nat
  PROVE  IsSum(1..(n + 1), g, total + g[n + 1])
<1>1. (1..n) \cup {n + 1} = 1..(n + 1) /\ n + 1 \notin 1..n
  BY SMT
<1>2. IsSum((1..n) \cup {n + 1}, g, total + g[n + 1])
  BY <1>1, SumAdd
<1>3. QED
  BY <1>1, <1>2

LEMMA SumRemove ==
  ASSUME NEW n \in Nat, NEW f, NEW total, IsSum(1..n, f, total), NEW k \in 1..n,
         NEW g, \A i \in 1..(n - 1) : g[i] = IF i < k THEN f[i] ELSE f[i + 1]
  PROVE  IsSum(1..(n - 1), g, total - f[k])
<1>1. PICK m : m = [i \in 1..(n - 1) |-> IF i < k THEN i ELSE i + 1]
  BY ZenonT(30)
<1>2. ASSUME NEW i \in 1..(n - 1) PROVE m[i] \in (1..n) \ {k} /\ g[i] = f[m[i]]
  BY SMT, <1>1
<1>3. ASSUME NEW i \in 1..(n - 1), NEW j \in 1..(n - 1), m[i] = m[j] PROVE i = j
  BY SMT, <1>1, <1>3
<1>4. ASSUME NEW x \in (1..n) \ {k} PROVE \E i \in 1..(n - 1) : m[i] = x
  <2>1. CASE x < k
    <3>1. x \in 1..(n - 1) /\ m[x] = x
      BY SMT, <1>1, <2>1
    <3>2. QED
      BY <3>1
  <2>2. CASE x > k
    <3>1. x - 1 \in 1..(n - 1) /\ ~(x - 1 < k) /\ (x - 1) + 1 = x
      BY SMT, <2>2
    <3>2. m[x - 1] = x
      BY <1>1, <3>1
    <3>3. QED
      BY <3>1, <3>2
  <2>3. QED
    BY SMT, <2>1, <2>2
<1>5. AllBut(k, 1..n, f, 1..(n - 1), g, m)
  BY <1>2, <1>3, <1>4 DEF AllBut
<1>6. QED
  BY <1>5, SumLess
-----------------------------------------------------------------------------
(* Accounting *)

Sizes(s) == [i \in 1..Len(queue[s]) |-> req[queue[s][i]].bytes]

Lengths == [s \in StreamID |-> Len(queue[s])]

\* outboundStream.bytes is the sum of the sizes queued, and Peer.outboundBytes
\* and outboundFrames are the sums over the streams.
CountersAreSums ==
  /\ \A s \in StreamID : IsSum(1..Len(queue[s]), Sizes(s), streamBytes[s])
  /\ IsSum(StreamID, streamBytes, outboundBytes)
  /\ IsSum(StreamID, Lengths, outboundFrames)

\* The limits of PeerConfig.
WithinLimits ==
  /\ \A s \in StreamID : /\ streamBytes[s] <= PerStreamQueueBytes
                         /\ Len(queue[s]) <= PerStreamQueueFrames
  /\ outboundBytes <= OutboundQueueBytes /\ outboundFrames <= OutboundQueueFrames
  /\ IsFiniteSet(outbound) /\ Cardinality(outbound) <= MaxActiveStreams

\* What the proofs need of finite sets.  CountingHolds, at the end, has it from
\* the library, whose theorems would burden every obligation in their scope.
Counting ==
  /\ IsFiniteSet({}) /\ Cardinality({}) = 0
  /\ \A S : IsFiniteSet(S) =>
       /\ Cardinality(S) \in Nat
       /\ \A x : x \notin S => /\ IsFiniteSet(S \cup {x})
                             /\ Cardinality(S \cup {x}) = Cardinality(S) + 1
       /\ \A x \in S : /\ IsFiniteSet(S \ {x})
                       /\ Cardinality(S \ {x}) = Cardinality(S) - 1

(***************************************************************************)
(* An entry without a request has no bytes.                                *)
(***************************************************************************)
LEMMA EmptyHasNoBytes ==
  ASSUME CountersAreSums, NEW s \in StreamID, Len(queue[s]) = 0
  PROVE  streamBytes[s] = 0
<1>1. 1..Len(queue[s]) = {}
  BY SMT
<1>2. IsSum({}, Sizes(s), streamBytes[s])
  BY <1>1 DEF CountersAreSums
<1>3. QED
  BY <1>2, SumOfNone

(***************************************************************************)
(* Nothing is queued or taken.                                             *)
(***************************************************************************)
LEMMA KeepsCounters ==
  ASSUME TypeOK, CountersAreSums, WithinLimits, UNCHANGED pvars,
         \A s \in StreamID : \A i \in 1..Len(queue[s]) : req'[queue[s][i]] = req[queue[s][i]]
  PROVE  CountersAreSums' /\ WithinLimits'
<1>1. UNCHANGED <<outbound, queue, streamBytes, outboundBytes, outboundFrames>>
  BY DEF pvars
<1>2. ASSUME NEW s \in StreamID PROVE IsSum(1..Len(queue'[s]), Sizes(s)', streamBytes'[s])
  <2>1. Sizes(s)' = Sizes(s)
    BY <1>1 DEF Sizes
  <2>2. QED
    BY <1>1, <2>1 DEF CountersAreSums
<1>3. Lengths' = Lengths
  BY <1>1 DEF Lengths
<1>4. CountersAreSums'
  BY <1>1, <1>2, <1>3 DEF CountersAreSums
<1>5. WithinLimits'
  BY <1>1 DEF WithinLimits
<1>6. QED
  BY <1>4, <1>5

(***************************************************************************)
(* A step that changes one queue changes one summand of each total.        *)
(***************************************************************************)
LEMMA OneStream ==
  ASSUME CountersAreSums, UNCHANGED req, NEW s \in StreamID, NEW b \in Nat, NEW n \in Nat,
         \A t \in StreamID : t # s => queue'[t] = queue[t] /\ streamBytes'[t] = streamBytes[t],
         streamBytes'[s] = b, Len(queue'[s]) = n,
         IsSum(1..n, Sizes(s)', b),
         outboundBytes' = outboundBytes + (b - streamBytes[s]),
         outboundFrames' = outboundFrames + (n - Len(queue[s]))
  PROVE  CountersAreSums'
<1>1. ASSUME NEW t \in StreamID PROVE IsSum(1..Len(queue'[t]), Sizes(t)', streamBytes'[t])
  <2>1. CASE t = s
    BY <2>1
  <2>2. CASE t # s
    <3>1. Sizes(t)' = Sizes(t) /\ queue'[t] = queue[t] /\ streamBytes'[t] = streamBytes[t]
      BY <2>2 DEF Sizes
    <3>2. QED
      BY <3>1 DEF CountersAreSums
  <2>3. QED
    BY <2>1, <2>2
<1>2. IsSum(StreamID, streamBytes', outboundBytes')
  <2>1. PICK w, v, total : w = streamBytes /\ v = streamBytes' /\ total = outboundBytes
    OBVIOUS
  <2>2. v[s] \in Nat /\ (\A t \in StreamID \ {s} : v[t] = w[t]) /\ IsSum(StreamID, w, total)
    BY <2>1 DEF CountersAreSums
  <2>3. IsSum(StreamID, v, total + (v[s] - w[s]))
    BY <2>2, SumChange
  <2>4. QED
    BY <2>1, <2>3
<1>3. IsSum(StreamID, Lengths', outboundFrames')
  <2>1. PICK w, v, total : w = Lengths /\ v = Lengths' /\ total = outboundFrames
    OBVIOUS
  <2>2. /\ v[s] = n /\ w[s] = Len(queue[s]) /\ \A t \in StreamID \ {s} : v[t] = w[t]
        /\ IsSum(StreamID, w, total)
    BY <2>1 DEF CountersAreSums, Lengths
  <2>3. IsSum(StreamID, v, total + (v[s] - w[s]))
    BY <2>2, SumChange
  <2>4. QED
    BY <2>1, <2>2, <2>3
<1>4. QED
  BY <1>1, <1>2, <1>3 DEF CountersAreSums

(***************************************************************************)
(* Enqueue: one more summand for the stream, and more bytes and one more   *)
(* frame for the peer.                                                     *)
(***************************************************************************)
LEMMA EnqueueCounters ==
  ASSUME TypeOK, Allocated, OrderMatchesMap, CountersAreSums, NEW c \in Send, Enqueue(c)
  PROVE  CountersAreSums'
<1>0. PICK s \in StreamID : s = req[c].stream
  BY EnqueueFacts
<1>1. /\ req[c] \in Offer
      /\ \A t \in StreamID : t # s => queue'[t] = queue[t]
      /\ Len(queue[s]) \in Nat /\ Len(queue'[s]) = Len(queue[s]) + 1
      /\ \A i \in 1..Len(queue[s]) : queue'[s][i] = queue[s][i]
      /\ queue'[s][Len(queue[s]) + 1] = c
  BY SMT, <1>0, EnqueueFacts
<1>2. PICK b \in Nat \ {0} : b = req[c].bytes
  BY <1>1, OfferAssumption
<1>3. /\ UNCHANGED req
      /\ outboundBytes' = outboundBytes + b /\ outboundFrames' = outboundFrames + 1
      /\ streamBytes' = [streamBytes EXCEPT ![s] = (IF s \in outbound THEN @ ELSE 0) + b]
  BY <1>0, <1>2 DEF Enqueue, Push
<1>4. streamBytes'[s] = streamBytes[s] + b /\ \A t \in StreamID : t # s => streamBytes'[t] = streamBytes[t]
  <2>1. s \notin outbound => streamBytes[s] = 0
    <3>1. s \notin outbound => queue[s] = <<>>
      BY <1>1 DEF OrderMatchesMap
    <3>2. s \notin outbound => Len(queue[s]) = 0
      BY SMT, <3>1
    <3>3. QED
      BY <1>1, <3>2, EmptyHasNoBytes
  <2>2. QED
    BY <1>1, <1>3, <2>1 DEF TypeOK
<1>5. PICK n, old : n \in Nat /\ n = Len(queue[s]) /\ old = streamBytes[s]
  BY <1>1
<1>6. PICK f, g : f = Sizes(s) /\ g = Sizes(s)'
  OBVIOUS
<1>7. /\ \A i \in 1..n : g[i] = f[i]
      /\ g[n + 1] = b
  <2>1. \A i \in 1..n : f[i] = req[queue[s][i]].bytes
    BY <1>5, <1>6 DEF Sizes
  <2>2. \A i \in 1..(n + 1) : g[i] = req[queue'[s][i]].bytes
    BY <1>1, <1>3, <1>5, <1>6 DEF Sizes
  <2>3. n + 1 \in 1..(n + 1) /\ \A i \in 1..n : i \in 1..(n + 1)
    BY SMT, <1>5
  <2>4. (\A i \in 1..n : queue'[s][i] = queue[s][i]) /\ queue'[s][n + 1] = c
    BY ZenonT(30), <1>1, <1>5
  <2>5. QED
    BY <1>2, <2>1, <2>2, <2>3, <2>4
<1>8. IsSum(1..n, f, old)
  BY <1>5, <1>6 DEF CountersAreSums
<1>9. old \in Nat
  BY <1>8, SumIsNat
<1>10. IsSum(1..(n + 1), g, old + g[n + 1])
  BY <1>5, <1>7, <1>8, SumAppend
<1>11. IsSum(1..(n + 1), Sizes(s)', old + b)
  BY <1>6, <1>7, <1>10
<1>12. /\ streamBytes'[s] = old + b /\ old + b \in Nat /\ n + 1 \in Nat
       /\ Len(queue'[s]) = n + 1
       /\ outboundBytes' = outboundBytes + ((old + b) - streamBytes[s])
       /\ outboundFrames' = outboundFrames + ((n + 1) - Len(queue[s]))
  BY SMT, <1>1, <1>3, <1>4, <1>5, <1>9
<1>13. QED
  BY SMT, <1>1, <1>3, <1>4, <1>11, <1>12, OneStream

(***************************************************************************)
(* Enqueue waits for room, so the limits hold.                             *)
(***************************************************************************)
LEMMA EnqueueLimits ==
  ASSUME Counting, TypeOK, Allocated, OrderMatchesMap, CountersAreSums, WithinLimits,
         NEW c \in Send, Enqueue(c)
  PROVE  WithinLimits'
<1> DEFINE s == req[c].stream
<1>1. /\ s \in StreamID /\ req[c] \in Offer
      /\ \A t \in StreamID : t # s => queue'[t] = queue[t]
      /\ Len(queue[s]) \in Nat /\ Len(queue'[s]) = Len(queue[s]) + 1
  BY EnqueueFacts
<1>2. PICK b \in Nat \ {0} : b = req[c].bytes
  BY <1>1, OfferAssumption
<1>3. /\ outbound' = outbound \cup {s}
      /\ outboundBytes' = outboundBytes + b /\ outboundFrames' = outboundFrames + 1
      /\ streamBytes' = [streamBytes EXCEPT ![s] = (IF s \in outbound THEN @ ELSE 0) + b]
  BY <1>2 DEF Enqueue, Push
<1>4. /\ b <= PerStreamQueueBytes
      /\ s \notin outbound => Cardinality(outbound) < MaxActiveStreams
      /\ s \in outbound => /\ streamBytes[s] + b <= PerStreamQueueBytes
                           /\ Len(queue[s]) + 1 <= PerStreamQueueFrames
      /\ outboundBytes + b <= OutboundQueueBytes
      /\ outboundFrames + 1 <= OutboundQueueFrames
  BY <1>2 DEF Enqueue, Fits
<1> HIDE DEF s
<1>5. s \notin outbound => Len(queue[s]) = 0
  <2>1. s \notin outbound => queue[s] = <<>>
    BY <1>1 DEF OrderMatchesMap
  <2>2. QED
    BY SMT, <2>1
<1>6. Len(queue'[s]) <= PerStreamQueueFrames
  BY SMT, <1>1, <1>4, <1>5, ConfigAssumption
<1>7. streamBytes'[s] <= PerStreamQueueBytes /\ \A t \in StreamID : t # s => streamBytes'[t] = streamBytes[t]
  BY SMT, <1>1, <1>3, <1>4 DEF TypeOK
<1>8. \A t \in StreamID : streamBytes'[t] <= PerStreamQueueBytes /\ Len(queue'[t]) <= PerStreamQueueFrames
  BY <1>1, <1>6, <1>7 DEF WithinLimits
<1>9. IsFiniteSet(outbound) /\ Cardinality(outbound) <= MaxActiveStreams
  BY DEF WithinLimits
<1>10. IsFiniteSet(outbound') /\ Cardinality(outbound') <= MaxActiveStreams
  <2>1. CASE s \in outbound
    <3>1. outbound' = outbound
      BY <1>3, <2>1
    <3>2. QED
      BY <1>9, <3>1
  <2>2. CASE s \notin outbound
    <3>1. /\ IsFiniteSet(outbound \cup {s}) /\ Cardinality(outbound) \in Nat
          /\ Cardinality(outbound \cup {s}) = Cardinality(outbound) + 1
      BY <1>9, <2>2 DEF Counting
    <3>2. Cardinality(outbound) + 1 <= MaxActiveStreams
      BY SMT, <1>4, <2>2, <3>1, ConfigAssumption
    <3>3. QED
      BY <1>3, <3>1, <3>2
  <2>3. QED
    BY <2>1, <2>2
<1>11. QED
  BY <1>3, <1>4, <1>8, <1>10 DEF WithinLimits

(***************************************************************************)
(* takeLocked: one summand less for the stream, and less for the peer.     *)
(***************************************************************************)
LEMMA TakeCounters ==
  ASSUME Counting, TypeOK, Allocated, OrderMatchesMap, CountersAreSums, WithinLimits, Take
  PROVE  CountersAreSums' /\ WithinLimits'
<1>1. PICK index \in 0..(Len(outboundOrder) - 1), s \in StreamID, c \in Send :
        /\ s = outboundOrder[index + 1] /\ s \in outbound /\ queue[s] # <<>>
        /\ c = queue[s][1] /\ req[c] \in Offer
        /\ queue' = [queue EXCEPT ![s] = Tail(queue[s])]
        /\ streamBytes' = [streamBytes EXCEPT ![s] = streamBytes[s] - req[c].bytes]
        /\ outboundBytes' = outboundBytes - req[c].bytes
        /\ outboundFrames' = outboundFrames - 1
        /\ outbound' = IF Len(queue[s]) = 1 THEN outbound \ {s} ELSE outbound
        /\ outboundOrder' = IF Len(queue[s]) = 1
                            THEN RemoveIndex(outboundOrder, index + 1) ELSE outboundOrder
  BY TakeFacts
<1>2. PICK b \in Nat \ {0} : b = req[c].bytes
  BY <1>1, OfferAssumption
<1>3. UNCHANGED req
  BY DEF Take
<1>4. PICK k \in 1..Len(outboundOrder) : k = index + 1 /\ outboundOrder[k] = s
  BY SMT, <1>1 DEF TypeOK
<1>5. /\ \A t \in StreamID : t # s => queue'[t] = queue[t] /\ streamBytes'[t] = streamBytes[t]
      /\ queue'[s] = Tail(queue[s]) /\ streamBytes'[s] = streamBytes[s] - b
  BY <1>1, <1>2 DEF TypeOK
<1> DEFINE q == queue[s]
<1>6. /\ Len(q) \in Nat \ {0} /\ Len(Tail(q)) = Len(q) - 1
      /\ \A i \in 1..Len(Tail(q)) : i + 1 \in 1..Len(q) /\ Tail(q)[i] = q[i + 1]
  <2>1. q \in Seq(Send) /\ q # <<>>
    BY <1>1 DEF TypeOK
  <2> HIDE DEF q
  <2>2. QED
    BY <2>1, TailFacts
<1>7. PICK n \in Nat \ {0} : n = Len(queue[s]) /\ Len(queue'[s]) = n - 1
  BY <1>5, <1>6
<1>8. \A i \in 1..(n - 1) : queue'[s][i] = queue[s][i + 1]
  BY <1>5, <1>6, <1>7
<1> HIDE DEF q
<1>9. PICK f, g, old : f = Sizes(s) /\ g = Sizes(s)' /\ old = streamBytes[s]
  OBVIOUS
<1>10. IsSum(1..(n - 1), Sizes(s)', old - b)
  <2>1. \A i \in 1..n : f[i] = req[queue[s][i]].bytes
    BY <1>7, <1>9 DEF Sizes
  <2>2. \A i \in 1..(n - 1) : g[i] = req[queue'[s][i]].bytes
    BY <1>3, <1>7, <1>9 DEF Sizes
  <2>3. IsSum(1..n, f, old)
    BY <1>7, <1>9 DEF CountersAreSums
  <2>4. 1 \in 1..n /\ \A i \in 1..(n - 1) : i + 1 \in 1..n /\ ~(i < 1)
    BY SMT, <1>7
  <2>5. f[1] = b
    BY <1>1, <1>2, <2>1, <2>4
  <2>6. \A i \in 1..(n - 1) : g[i] = IF i < 1 THEN f[i] ELSE f[i + 1]
    BY <1>8, <2>1, <2>2, <2>4
  <2>7. IsSum(1..(n - 1), g, old - f[1])
    BY <2>3, <2>4, <2>6, SumRemove
  <2>8. QED
    BY <1>9, <2>5, <2>7
<1>11. old - b \in Nat /\ n - 1 \in Nat
  BY SMT, <1>7, <1>10, SumIsNat
<1>12. outboundBytes \in Int /\ outboundFrames \in Int /\ \A t \in StreamID : streamBytes[t] \in Int
  BY DEF TypeOK
<1>13. /\ streamBytes'[s] = old - b /\ Len(queue'[s]) = n - 1
       /\ outboundBytes' = outboundBytes + ((old - b) - streamBytes[s])
       /\ outboundFrames' = outboundFrames + ((n - 1) - Len(queue[s]))
  <2>1. /\ outboundBytes' = outboundBytes - b /\ outboundFrames' = outboundFrames - 1
        /\ streamBytes'[s] = streamBytes[s] - b
    BY <1>1, <1>2, <1>5
  <2>2. streamBytes[s] \in Int
    BY <1>1, <1>12
  <2>3. QED
    BY SMTT(30), <1>7, <1>9, <1>12, <2>1, <2>2
<1>14. \A t \in StreamID : t # s => queue'[t] = queue[t] /\ streamBytes'[t] = streamBytes[t]
  BY <1>5
<1>15. CountersAreSums'
  BY <1>3, <1>10, <1>11, <1>13, <1>14, OneStream
<1>16. IsFiniteSet(outbound') /\ Cardinality(outbound') <= MaxActiveStreams
  <2>1. IsFiniteSet(outbound) /\ Cardinality(outbound) <= MaxActiveStreams
    BY DEF WithinLimits
  <2>2. /\ Cardinality(outbound) \in Nat /\ IsFiniteSet(outbound \ {s})
        /\ Cardinality(outbound \ {s}) = Cardinality(outbound) - 1
    BY <1>1, <2>1 DEF Counting
  <2>3. Cardinality(outbound \ {s}) <= MaxActiveStreams
    BY SMT, <2>1, <2>2, ConfigAssumption
  <2>4. outbound' = outbound \/ outbound' = outbound \ {s}
    BY <1>1
  <2>5. QED
    BY <2>1, <2>2, <2>3, <2>4
<1>17. \A t \in StreamID : streamBytes'[t] <= PerStreamQueueBytes /\ Len(queue'[t]) <= PerStreamQueueFrames
  <2>1. streamBytes[s] <= PerStreamQueueBytes /\ n <= PerStreamQueueFrames
    BY <1>7 DEF WithinLimits
  <2>2. streamBytes'[s] <= PerStreamQueueBytes /\ Len(queue'[s]) <= PerStreamQueueFrames
    BY SMT, <1>5, <1>7, <1>12, <2>1, ConfigAssumption
  <2>3. QED
    BY <1>5, <2>2 DEF WithinLimits
<1>18. outboundBytes' <= OutboundQueueBytes /\ outboundFrames' <= OutboundQueueFrames
  <2>1. outboundBytes' = outboundBytes - b /\ outboundFrames' = outboundFrames - 1
    BY <1>1, <1>2
  <2>2. outboundBytes <= OutboundQueueBytes /\ outboundFrames <= OutboundQueueFrames
    BY DEF WithinLimits
  <2>3. QED
    BY SMT, <1>12, <2>1, <2>2, ConfigAssumption
<1>19. QED
  BY <1>15, <1>16, <1>17, <1>18 DEF WithinLimits

(***************************************************************************)
(* An empty peer counts nothing.                                           *)
(***************************************************************************)
Nothing ==
  /\ outbound = {} /\ queue = [s \in StreamID |-> <<>>]
  /\ streamBytes = [s \in StreamID |-> 0] /\ outboundBytes = 0 /\ outboundFrames = 0

LEMMA NothingCounted == Counting /\ Nothing => CountersAreSums /\ WithinLimits
<1> SUFFICES ASSUME Counting, Nothing PROVE CountersAreSums /\ WithinLimits
  OBVIOUS
<1> USE DEF Nothing
<1>1. \A s \in StreamID : queue[s] = <<>> /\ Len(queue[s]) = 0 /\ 1..Len(queue[s]) = {}
  BY SMT
<1>2. \A s \in StreamID : streamBytes[s] = 0 /\ Lengths[s] = 0
  BY <1>1 DEF Lengths
<1>3. \A s \in StreamID : IsSum(1..Len(queue[s]), Sizes(s), streamBytes[s])
  BY <1>1, <1>2, SumOfZeros
<1>4. IsSum(StreamID, streamBytes, outboundBytes) /\ IsSum(StreamID, Lengths, outboundFrames)
  BY <1>2, SumOfZeros
<1>5. CountersAreSums
  BY <1>3, <1>4 DEF CountersAreSums
<1>6. IsFiniteSet({}) /\ Cardinality({}) = 0
  BY DEF Counting
<1>7. WithinLimits
  BY SMT, <1>1, <1>2, <1>6, ConfigAssumption DEF WithinLimits
<1>8. QED
  BY <1>5, <1>7

(***************************************************************************)
(* fail and Close: nothing is left, and nothing is counted.                *)
(***************************************************************************)
LEMMA DiscardCounters ==
  ASSUME Counting, TypeOK, CountersAreSums, WithinLimits, Discard
  PROVE  CountersAreSums' /\ WithinLimits'
<1>1. CASE closed
  BY <1>1, KeepsCounters DEF Discard, cvars
<1>2. CASE ~closed
  <2>1. Nothing' /\ Counting'
    BY <1>2 DEF Discard, Nothing, Counting
  <2>2. (CountersAreSums /\ WithinLimits)'
    BY <2>1, NothingCounted, PTL
  <2>3. QED
    BY <2>2
<1>3. QED
  BY <1>1, <1>2

LEMMA CountersStep ==
  Counting /\ Inv /\ CountersAreSums /\ WithinLimits /\ [Next]_vars => CountersAreSums' /\ WithinLimits'
<1> SUFFICES ASSUME Counting, Inv, CountersAreSums, WithinLimits, [Next]_vars
             PROVE  CountersAreSums' /\ WithinLimits'
  OBVIOUS
<1>1. TypeOK /\ Allocated /\ OrderMatchesMap /\ AnsweredOnce
  BY DEF Inv
<1>2. ASSUME UNCHANGED pvars, \A x \in Send : Held(x) /\ x # inflight => req'[x] = req[x]
      PROVE  CountersAreSums' /\ WithinLimits'
  <2>1. ASSUME NEW s \in StreamID, NEW i \in 1..Len(queue[s])
        PROVE  queue[s][i] \in Send /\ Held(queue[s][i]) /\ queue[s][i] # inflight
    BY <1>1, HeldFacts DEF Held, AnsweredOnce
  <2>2. QED
    BY <1>1, <1>2, <2>1, KeepsCounters
<1>3. ASSUME NEW c \in Send, NEW o \in Offer, SendBegin(c, o)
      PROVE  CountersAreSums' /\ WithinLimits'
  BY <1>1, <1>2, <1>3 DEF SendBegin, TypeOK
<1>4. ASSUME NEW c \in Send, Enqueue(c) PROVE CountersAreSums' /\ WithinLimits'
  BY <1>1, <1>4, EnqueueCounters, EnqueueLimits
<1>5. ASSUME NEW c \in Send, EnqueueRefused(c) \/ Cancel(c) \/ Return(c)
      PROVE  CountersAreSums' /\ WithinLimits'
  BY <1>1, <1>2, <1>5 DEF EnqueueRefused, Cancel, Return, Leave, TypeOK
<1>6. CASE Take
  BY <1>1, <1>6, TakeCounters
<1>7. CASE Rest \/ CloseJoin \/ UNCHANGED vars
  BY <1>1, <1>2, <1>7 DEF Rest, CloseJoin, cvars, vars
<1>8. CASE Sent \/ SendFailed
  BY <1>1, <1>2, <1>8 DEF Sent, SendFailed, Answer, TypeOK
<1>9. CASE SchedulerFail \/ Fail \/ Close
  BY <1>1, <1>9, DiscardCounters DEF SchedulerFail, Fail, Close
<1>10. QED
  BY <1>3, <1>4, <1>5, <1>6, <1>7, <1>8, <1>9 DEF Next, Caller, Scheduler

LEMMA CountersInit == Counting /\ Init => CountersAreSums /\ WithinLimits
  BY NothingCounted DEF Init, Nothing

(***************************************************************************)
(* The library's sum of a function is the sum of its values.               *)
(***************************************************************************)
LEMMA SumFunctionIsSum ==
  ASSUME FiniteFacts, NEW f, IsFiniteSet(DOMAIN f), NEW total, IsSum(DOMAIN f, f, total)
  PROVE  SumFunction(f) = total
<1> DEFINE D == DOMAIN f
           One(A) == CHOOSE x \in A : TRUE
           F(g) == [A \in SUBSET D |->
                      IF A = {} THEN 0 ELSE f[One(A)] + g[A \ {One(A)}]]
<1>1. SumFunction(f) = (CHOOSE g : g = F(g))[D]
  BY DEF SumFunction, SumFunctionOnSet, FoldFunctionOnSet, MapThenFoldSet
<1>2. \A A : A # {} => One(A) \in A
  OBVIOUS
<1>3. IsSum(D, f, total) /\ IsFiniteSet(D)
  OBVIOUS
<1> HIDE DEF One, D
<1>4. PICK p : SumsBy(p, D, f) /\ p[D] = total
  BY <1>3 DEF IsSum
<1>5. ASSUME NEW A \in SUBSET D, A # {}
      PROVE  p[A] = f[One(A)] + p[A \ {One(A)}]
  <2>1. PICK x \in A : x = One(A)
    BY <1>2, <1>5
  <2>2. A \ {x} \in SUBSET D /\ x \in D \ (A \ {x}) /\ (A \ {x}) \cup {x} = A
    OBVIOUS
  <2>3. p[(A \ {x}) \cup {x}] = p[A \ {x}] + f[x] /\ p[A \ {x}] \in Nat /\ f[x] \in Nat
    BY <1>4, <2>2 DEF SumsBy
  <2>4. p[A] = f[x] + p[A \ {x}]
    <3>1. p[A] = p[A \ {x}] + f[x]
      BY <2>2, <2>3
    <3>2. QED
      BY SMT, <2>3, <3>1
  <2>5. QED
    BY <2>1, <2>4
<1>6. p = F(p)
  <2>1. p = [A \in SUBSET D |-> p[A]] /\ p[{}] = 0
    BY <1>4 DEF SumsBy
  <2>2. \A A \in SUBSET D : p[A] = F(p)[A]
    BY <1>5, <2>1
  <2>3. F(p) = [A \in SUBSET D |-> F(p)[A]]
    OBVIOUS
  <2> HIDE DEF F
  <2>4. QED
    BY <2>1, <2>2, <2>3
<1>7. PICK g : g = F(g) /\ g = CHOOSE h : h = F(h)
  BY <1>6
<1>8. TakesOneByOne(g, D, f)
  <2>1. g[{}] = 0
    BY <1>7
  <2>2. ASSUME NEW A \in SUBSET D, A # {}
        PROVE  \E x \in A : g[A] = f[x] + g[A \ {x}] \/ g[A] = g[A \ {x}] + f[x]
    <3>1. PICK x \in A : x = One(A)
      BY <1>2, <2>2
    <3>2. g[A] = f[One(A)] + g[A \ {One(A)}]
      BY <1>7, <2>2
    <3>3. QED
      BY <3>1, <3>2
  <2>3. QED
    BY <2>1, <2>2 DEF TakesOneByOne
<1> HIDE DEF F
<1>9. g[D] = p[D]
  BY <1>3, <1>4, <1>8, RecursionIsSum
<1>10. QED
  BY <1>1, <1>4, <1>7, <1>9

LEMMA SumsAreExact ==
  FiniteFacts /\ TypeOK /\ CountersAreSums /\ WithinLimits
    /\ Cardinality({s \in StreamID : queue[s] # <<>>}) <= MaxActiveStreams
  => CountersExact
<1> SUFFICES ASSUME FiniteFacts, TypeOK, CountersAreSums, WithinLimits,
                    Cardinality({s \in StreamID : queue[s] # <<>>}) <= MaxActiveStreams
             PROVE  CountersExact
  OBVIOUS
<1>1. ASSUME NEW s \in StreamID PROVE QueueBytes(s) = streamBytes[s]
  <2>1. PICK w, n, total : w = Sizes(s) /\ n = Len(queue[s]) /\ total = streamBytes[s]
    BY ZenonT(30)
  <2>2. n \in Nat /\ DOMAIN queue[s] = 1..n /\ IsSum(1..n, w, total)
    BY SMT, <2>1 DEF TypeOK, CountersAreSums
  <2>3. DOMAIN w = 1..n /\ w = [i \in DOMAIN queue[s] |-> req[queue[s][i]].bytes]
    BY <2>1, <2>2 DEF Sizes
  <2>4. IsFiniteSet(1..n)
    BY <2>2 DEF FiniteFacts
  <2>5. SumFunction(w) = total
    BY <2>2, <2>3, <2>4, SumFunctionIsSum
  <2>6. QED
    BY <2>1, <2>3, <2>5 DEF QueueBytes
<1>2. outboundBytes = SumFunction([s \in StreamID |-> QueueBytes(s)])
  <2>1. PICK w, total : w = streamBytes /\ total = outboundBytes
    OBVIOUS
  <2>2. DOMAIN w = StreamID /\ IsSum(DOMAIN w, w, total) /\ IsFiniteSet(DOMAIN w)
    BY <2>1, StreamsAssumption DEF TypeOK, CountersAreSums
  <2>3. w = [s \in StreamID |-> QueueBytes(s)]
    BY <1>1, <2>1 DEF TypeOK
  <2>4. SumFunction(w) = total
    BY <2>2, SumFunctionIsSum
  <2>5. QED
    BY <2>1, <2>3, <2>4
<1>3. outboundFrames = SumFunction([s \in StreamID |-> Len(queue[s])])
  <2>1. PICK w, total : w = Lengths /\ total = outboundFrames
    BY ZenonT(30)
  <2>2. DOMAIN w = StreamID /\ IsSum(DOMAIN w, w, total) /\ IsFiniteSet(DOMAIN w)
    BY <2>1, StreamsAssumption DEF CountersAreSums, Lengths
  <2>3. SumFunction(w) = total
    BY <2>2, SumFunctionIsSum
  <2>4. QED
    BY <2>1, <2>3 DEF Lengths
<1>4. \A s \in StreamID : QueueBytes(s) <= PerStreamQueueBytes /\ Len(queue[s]) <= PerStreamQueueFrames
  BY <1>1 DEF WithinLimits
<1>5. outboundBytes <= OutboundQueueBytes /\ outboundFrames <= OutboundQueueFrames
  BY DEF WithinLimits
<1>6. \A s \in StreamID : s \in outbound => streamBytes[s] = QueueBytes(s)
  BY <1>1
<1>7. QED
  BY <1>2, <1>3, <1>4, <1>5, <1>6 DEF CountersExact

INSTANCE FiniteSetTheorems

LEMMA CountingHolds == Counting
<1>1. IsFiniteSet({}) /\ Cardinality({}) = 0
  BY FS_EmptySet
<1>2. ASSUME NEW S, IsFiniteSet(S)
      PROVE  /\ Cardinality(S) \in Nat
             /\ \A x : x \notin S => /\ IsFiniteSet(S \cup {x})
                                   /\ Cardinality(S \cup {x}) = Cardinality(S) + 1
             /\ \A x \in S : /\ IsFiniteSet(S \ {x})
                             /\ Cardinality(S \ {x}) = Cardinality(S) - 1
  <2>1. Cardinality(S) \in Nat
    BY <1>2, FS_CardinalityType
  <2>2. ASSUME NEW x, x \notin S
        PROVE  IsFiniteSet(S \cup {x}) /\ Cardinality(S \cup {x}) = Cardinality(S) + 1
    BY <1>2, <2>2, FS_AddElement
  <2>3. ASSUME NEW x \in S
        PROVE  IsFiniteSet(S \ {x}) /\ Cardinality(S \ {x}) = Cardinality(S) - 1
    BY <1>2, FS_RemoveElement
  <2>4. QED
    BY <2>1, <2>2, <2>3
<1>3. QED
  BY <1>1, <1>2 DEF Counting

LEMMA FiniteFactsHold == FiniteFacts
<1>1. ASSUME NEW S, IsFiniteSet(S), NEW T, T # {}, \A A \in T : A \subseteq S
      PROVE  \E A \in T : \A B \in T : ~(B \subseteq A /\ B # A)
  <2>1. T \subseteq FiniteSubsetsOf(S)
    BY <1>1, FS_Subset DEF FiniteSubsetsOf
  <2>2. IsWellFoundedOn(StrictSubsetOrdering(S), FiniteSubsetsOf(S))
    BY FS_StrictSubsetOrderingWellFounded
  <2>3. PICK A \in T : \A B \in T : ~(<<B, A>> \in StrictSubsetOrdering(S))
    BY <1>1, <2>1, <2>2, WFMin
  <2>4. \A B \in T : B \subseteq A /\ B # A => <<B, A>> \in StrictSubsetOrdering(S)
    BY <1>1 DEF StrictSubsetOrdering
  <2>5. ASSUME NEW B \in T PROVE ~(B \subseteq A /\ B # A)
    BY <2>3, <2>4
  <2>6. QED
    BY <2>5
<1>2. ASSUME NEW n \in Nat PROVE IsFiniteSet(1..n)
  BY SMTT(30), FS_Interval
<1>3. QED
  BY SMT, <1>1, <1>2 DEF FiniteFacts

\* No more streams have something queued than the map has entries.
LEMMA QueuedAreEntries ==
  ASSUME OrderMatchesMap, WithinLimits
  PROVE  Cardinality({s \in StreamID : queue[s] # <<>>}) <= MaxActiveStreams
<1>1. PICK S : S = {s \in StreamID : queue[s] # <<>>}
  BY ZenonT(30)
<1>2. S \subseteq outbound
  BY <1>1 DEF OrderMatchesMap
<1>3. IsFiniteSet(outbound) /\ Cardinality(outbound) <= MaxActiveStreams
  BY DEF WithinLimits
<1>4. Cardinality(S) <= Cardinality(outbound) /\ Cardinality(S) \in Nat /\ Cardinality(outbound) \in Nat
  BY <1>2, <1>3, FS_Subset, FS_CardinalityType
<1>5. QED
  BY SMTT(30), <1>1, <1>3, <1>4, ConfigAssumption

(***************************************************************************)
(* The byte and frame counters that admit traffic are exactly what the     *)
(* queues hold, and no limit of PeerConfig is ever exceeded, whatever is   *)
(* queued, taken, canceled or shut down (send, takeLocked and fail).       *)
(***************************************************************************)
THEOREM CountersCorrect == Spec => []CountersExact
<1>1. Init => CountersAreSums /\ WithinLimits
  BY CountersInit, CountingHolds
<1>2. Inv /\ CountersAreSums /\ WithinLimits /\ [Next]_vars => CountersAreSums' /\ WithinLimits'
  BY CountersStep, CountingHolds
<1>3. Inv /\ CountersAreSums /\ WithinLimits => CountersExact
  BY SumsAreExact, FiniteFactsHold, QueuedAreEntries DEF Inv
<1>4. QED
  BY <1>1, <1>2, <1>3, Invariance, PTL DEF Spec
=============================================================================
