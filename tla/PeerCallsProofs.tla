-------------------------- MODULE PeerCallsProofs ---------------------------
(***************************************************************************)
(* Proofs about request correlation (module PeerCalls), for any number of  *)
(* calls, ids, kinds and tombstones and any stray responses.  The          *)
(* invariants come in four layers, each proved with the ones before it:    *)
(* types; who holds which id and how far its request has come; who has     *)
(* been told; and what a response on its way says about the tables.        *)
(***************************************************************************)
EXTENDS PeerCalls, TLAPS

\* Most steps are set theory, which Zenon does; a step with arithmetic cites SMT.
USE Zenon

(***************************************************************************)
(* Removing one position keeps the others in order: the effect of Go's     *)
(* append(s[:i], s[i+1:]...) on outboundOrder and canceledOrder.           *)
(***************************************************************************)
LEMMA RemoveIndexFacts ==
  ASSUME NEW S, NEW s \in Seq(S), NEW i \in 1..Len(s)
  PROVE  /\ RemoveIndex(s, i) \in Seq(S)
         /\ Len(RemoveIndex(s, i)) = Len(s) - 1
         /\ \A j \in 1..(Len(s) - 1) :
              RemoveIndex(s, i)[j] = IF j < i THEN s[j] ELSE s[j + 1]
<1> DEFINE a == SubSeq(s, 1, i - 1)
           b == SubSeq(s, i + 1, Len(s))
<1>1. \A j \in 1..Len(s) : s[j] \in S
  BY SMT
<1>2. /\ a \in Seq(S) /\ Len(a) = i - 1
      /\ \A j \in 1..(i - 1) : a[j] = s[j]
  BY SMT, <1>1
<1>3. /\ b \in Seq(S) /\ Len(b) = Len(s) - i
      /\ \A j \in 1..(Len(s) - i) : b[j] = s[i + j]
  BY SMT, <1>1
<1>4. RemoveIndex(s, i) = a \o b
  BY DEF RemoveIndex
<1> HIDE DEF a, b
<1>5. a \in Seq(S) /\ b \in Seq(S)
  BY <1>2, <1>3
<1>6. /\ a \o b \in Seq(S)
      /\ Len(a \o b) = Len(a) + Len(b)
      /\ \A j \in 1..(Len(a) + Len(b)) :
           (a \o b)[j] = IF j <= Len(a) THEN a[j] ELSE b[j - Len(a)]
  BY SMT, <1>5
<1>7. /\ a \o b \in Seq(S)
      /\ Len(a \o b) = Len(s) - 1
  BY SMT, <1>2, <1>3, <1>6
<1>8. ASSUME NEW j \in 1..(Len(s) - 1)
      PROVE  (a \o b)[j] = IF j < i THEN s[j] ELSE s[j + 1]
  <2>1. (a \o b)[j] = IF j <= Len(a) THEN a[j] ELSE b[j - Len(a)]
    BY SMT, <1>2, <1>3, <1>6
  <2>2. QED
    BY SMT, <1>2, <1>3, <2>1
<1>9. QED
  BY <1>4, <1>7, <1>8

(***************************************************************************)
(* Only the empty sequence has length zero.                                *)
(***************************************************************************)
LEMMA EmptyLen ==
  ASSUME NEW S
  PROVE  \A s \in Seq(S) : s = <<>> <=> Len(s) = 0
  BY SMT

(***************************************************************************)
(* Taking the head, as Go's queue = queue[1:] does.                        *)
(***************************************************************************)
LEMMA TailFacts ==
  ASSUME NEW S, NEW s \in Seq(S), s # <<>>
  PROVE  /\ Len(s) \in Nat \ {0} /\ Head(s) = s[1] /\ s[1] \in S
         /\ Tail(s) \in Seq(S)
         /\ Len(Tail(s)) = Len(s) - 1
         /\ \A i \in 1..Len(Tail(s)) : i + 1 \in 1..Len(s) /\ Tail(s)[i] = s[i + 1]
         /\ Tail(s) = <<>> <=> Len(s) = 1
<1>1. /\ Len(s) \in Nat \ {0} /\ Head(s) = s[1] /\ s[1] \in S
      /\ Tail(s) \in Seq(S)
      /\ Len(Tail(s)) = Len(s) - 1
      /\ \A i \in 1..Len(Tail(s)) : i + 1 \in 1..Len(s) /\ Tail(s)[i] = s[i + 1]
  BY SMT
<1>2. Tail(s) = <<>> <=> Len(Tail(s)) = 0
  BY <1>1, EmptyLen
<1>3. QED
  BY SMT, <1>1, <1>2

(***************************************************************************)
(* Adding at the end.                                                      *)
(***************************************************************************)
LEMMA AppendFacts ==
  ASSUME NEW S, NEW s \in Seq(S), NEW e \in S
  PROVE  /\ Append(s, e) \in Seq(S) /\ Append(s, e) # <<>>
         /\ Len(s) \in Nat /\ Len(Append(s, e)) = Len(s) + 1
         /\ \A i \in 1..Len(s) : Append(s, e)[i] = s[i]
         /\ Append(s, e)[Len(s) + 1] = e
<1>1. /\ Append(s, e) \in Seq(S)
      /\ Len(s) \in Nat /\ Len(Append(s, e)) = Len(s) + 1
      /\ \A i \in 1..Len(s) : Append(s, e)[i] = s[i]
      /\ Append(s, e)[Len(s) + 1] = e
  BY SMT
<1>2. Len(<<>>) = 0
  OBVIOUS
<1>3. QED
  BY SMT, <1>1, <1>2

(***************************************************************************)
(* Appending keeps a sequence free of duplicates when the element is new,  *)
(* and adds exactly that element to its range.                             *)
(***************************************************************************)
LEMMA AppendNew ==
  ASSUME NEW S, NEW s \in Seq(S), NEW e \in S,
         \A i, j \in 1..Len(s) : s[i] = s[j] => i = j,
         \A i \in 1..Len(s) : s[i] # e
  PROVE  /\ Append(s, e) \in Seq(S)
         /\ Len(Append(s, e)) = Len(s) + 1
         /\ \A i, j \in 1..Len(Append(s, e)) : Append(s, e)[i] = Append(s, e)[j] => i = j
         /\ {Append(s, e)[i] : i \in 1..Len(Append(s, e))} = {s[i] : i \in 1..Len(s)} \cup {e}
  BY SMT

(***************************************************************************)
(* Removing a position of a duplicate-free sequence leaves it duplicate-   *)
(* free and takes exactly that element out of its range.                   *)
(***************************************************************************)
LEMMA RemoveIndexUnique ==
  ASSUME NEW S, NEW s \in Seq(S), NEW p \in 1..Len(s),
         \A i, j \in 1..Len(s) : s[i] = s[j] => i = j
  PROVE  LET r == RemoveIndex(s, p)
         IN /\ r \in Seq(S)
            /\ Len(r) = Len(s) - 1
            /\ \A i, j \in 1..Len(r) : r[i] = r[j] => i = j
            /\ {r[i] : i \in 1..Len(r)} = {s[i] : i \in 1..Len(s)} \ {s[p]}
<1> DEFINE r == RemoveIndex(s, p)
<1>1. /\ r \in Seq(S)
      /\ Len(r) = Len(s) - 1
      /\ \A j \in 1..(Len(s) - 1) : r[j] = IF j < p THEN s[j] ELSE s[j + 1]
  BY RemoveIndexFacts
<1> HIDE DEF r
<1>2. ASSUME NEW i \in 1..Len(r), NEW j \in 1..Len(r), r[i] = r[j]
      PROVE  i = j
  <2> DEFINE f(k) == IF k < p THEN k ELSE k + 1
  <2>1. f(i) \in 1..Len(s) /\ f(j) \in 1..Len(s)
    BY SMT, <1>1
  <2>2. r[i] = s[f(i)] /\ r[j] = s[f(j)]
    BY <1>1
  <2>3. f(i) = f(j)
    BY <1>2, <2>1, <2>2
  <2>4. QED
    BY SMT, <2>3
<1>3. ASSUME NEW i \in 1..Len(r)
      PROVE  r[i] \in {s[j] : j \in 1..Len(s)} \ {s[p]}
  BY SMT, <1>1
<1>4. ASSUME NEW i \in 1..Len(s), i # p
      PROVE  s[i] \in {r[j] : j \in 1..Len(r)}
  <2>1. CASE i < p
    BY SMT, <1>1, <1>4, <2>1
  <2>2. CASE i > p
    <3>1. i - 1 \in 1..Len(r) /\ r[i - 1] = s[i]
      BY SMT, <1>1, <2>2
    <3>2. QED
      BY <3>1
  <2>3. QED
    BY SMT, <1>4, <2>1, <2>2
<1>5. {r[i] : i \in 1..Len(r)} = {s[i] : i \in 1..Len(s)} \ {s[p]}
  <2>1. {r[i] : i \in 1..Len(r)} \subseteq {s[i] : i \in 1..Len(s)} \ {s[p]}
    BY SMT, <1>3
  <2>2. {s[i] : i \in 1..Len(s)} \ {s[p]} \subseteq {r[i] : i \in 1..Len(r)}
    BY <1>4
  <2>3. QED
    BY <2>1, <2>2
<1>6. QED
  BY <1>1, <1>2, <1>5 DEF r

(***************************************************************************)
(* Dropping the head of a duplicate-free sequence takes exactly that       *)
(* element out of its range.                                               *)
(***************************************************************************)
LEMMA TailUnique ==
  ASSUME NEW S, NEW s \in Seq(S), s # <<>>,
         \A i, j \in 1..Len(s) : s[i] = s[j] => i = j
  PROVE  /\ Tail(s) \in Seq(S)
         /\ \A i, j \in 1..Len(Tail(s)) : Tail(s)[i] = Tail(s)[j] => i = j
         /\ {Tail(s)[i] : i \in 1..Len(Tail(s))} = {s[i] : i \in 1..Len(s)} \ {Head(s)}
<1> DEFINE t == Tail(s)
<1>1. /\ Len(s) \in Nat \ {0} /\ Head(s) = s[1]
      /\ t \in Seq(S) /\ Len(t) = Len(s) - 1
      /\ \A i \in 1..Len(t) : i + 1 \in 1..Len(s) /\ t[i] = s[i + 1]
  BY TailFacts
<1> HIDE DEF t
<1>2. \A i, j \in 1..Len(t) : t[i] = t[j] => i = j
  BY SMT, <1>1
<1>3. ASSUME NEW i \in 1..Len(t)
      PROVE  t[i] \in {s[j] : j \in 1..Len(s)} \ {s[1]}
  BY SMT, <1>1
<1>4. ASSUME NEW i \in 1..Len(s), i # 1
      PROVE  s[i] \in {t[j] : j \in 1..Len(t)}
  <2>1. i - 1 \in 1..Len(t) /\ t[i - 1] = s[i]
    BY SMT, <1>1, <1>4
  <2>2. QED
    BY <2>1
<1>5. {t[i] : i \in 1..Len(t)} = {s[i] : i \in 1..Len(s)} \ {s[1]}
  <2>1. {t[i] : i \in 1..Len(t)} \subseteq {s[i] : i \in 1..Len(s)} \ {s[1]}
    BY SMT, <1>3
  <2>2. {s[i] : i \in 1..Len(s)} \ {s[1]} \subseteq {t[i] : i \in 1..Len(t)}
    BY <1>4
  <2>3. QED
    BY <2>1, <2>2
<1>6. QED
  BY <1>1, <1>2, <1>5 DEF t

Stage == {"idle", "fill", "send", "sending", "await", "abandon", "returned", "panicked"}

\* Every variable has its type.
TypeOK ==
  /\ closed \in BOOLEAN
  /\ next \in ID
  /\ pending \in [ID -> Call \cup {NoCall}] /\ canceled \in [ID -> Call \cup {NoCall}]
  /\ canceledOrder \in Seq(ID)
  /\ pc \in [Call -> Stage]
  /\ correlation \in [Call -> ID]
  /\ entry \in [Call -> Call \cup {NoCall}]
  /\ header \in [Call -> Kind \cup {NoKind}]
  /\ response \in [Call -> [kind : {"empty", "error", "frame"}, of : Call \cup {NoCall}]]
  /\ request \in [Call -> {"none", "queued", "sent", "answered", "dropped"}]
  /\ inbox \subseteq Response
  /\ serve \in {"read", "deliver", "unexpected", "stopped"}
  /\ delivery \in [to : Call \cup {NoCall}, of : Call \cup {NoCall}]
  /\ history \subseteq {"evicted", "wrapped", "stray"}

\* How far a call has come tells what it may own: an idle one nothing, and one
\* that has not sent has no request under way; only a call with an id has.
Staged ==
  /\ \A c \in Call : pc[c] = "idle" => correlation[c] = 0
  /\ \A c \in Call : pc[c] \in {"idle", "fill", "send"} => request[c] = "none"
  /\ \A c \in Call : pc[c] \in {"fill", "send", "sending"} \/ request[c] # "none" =>
       correlation[c] # 0

\* IDsExclusive, made inductive: a tombstone too belongs to the call that
\* reserved its id.
IDsInv ==
  /\ Staged
  /\ IDsExclusive
  /\ \A i \in ID : canceled[i] # NoCall => correlation[canceled[i]] = i

\* ToldOnce, made inductive: nobody has told an idle call anything, and the
\* Serve loop names a call exactly while it has a response to hand over.
ToldInv ==
  /\ ToldOnce
  /\ \A c \in Call : pc[c] = "idle" => response[c] = Empty /\ delivery.to # c
  /\ serve = "deliver" => delivery.to # NoCall

\* A response on its way answers a request that was sent, or is stray.
InboxTrue ==
  \A m \in inbox :
    IF m.of = NoCall THEN "stray" \in history
    ELSE /\ m.id = correlation[m.of] /\ m.kind = KindOf[m.of]
         /\ request[m.of] = "answered"

\* Until the ids wrap round, next is the largest and no two calls share one.
IDsFresh ==
  "wrapped" \notin history =>
    /\ \A c \in Call : correlation[c] <= next
    /\ \A c, d \in Call : correlation[c] = correlation[d] /\ correlation[c] # 0 => c = d

\* The response to c is still to come.
Outstanding(c) ==
  \/ request[c] \in {"none", "queued", "sent"}
  \/ \E m \in inbox : m.of = c

\* Neither an eviction nor a stray response has disturbed the tables.
Undisturbed == "evicted" \notin history /\ "stray" \notin history

\* An open, undisturbed Peer keeps the entry or the tombstone of every call
\* whose response is still to come, ...
EntryKept ==
  ~closed /\ Undisturbed =>
    \A c \in Call : correlation[c] # 0 /\ Outstanding(c) =>
      pending[correlation[c]] = c \/ canceled[correlation[c]] = c

\* ... with the kind that response will have.
HeaderTrue ==
  Undisturbed =>
    \A c \in Call : pc[c] = "send" \/ request[c] # "none" => header[c] = KindOf[c]

\* What excuses a response that reaches another call.
Excused == "stray" \in history \/ {"evicted", "wrapped"} \subseteq history

OriginInv ==
  /\ InboxTrue /\ IDsFresh /\ EntryKept /\ HeaderTrue
  /\ closed => \A i \in ID : pending[i] = NoCall
  /\ delivery.to # NoCall => delivery.of = delivery.to \/ Excused
  /\ Correlated
  /\ LateResponseAbsorbed
-----------------------------------------------------------------------------
(* Facts about the constants and the operators *)

\* An id tried by reservePending is an id.
LEMMA CandidateID ==
  ASSUME TypeOK, NEW attempt \in 1..(IDs - 1)
  PROVE  Candidate(attempt) \in ID
<1>1. next + attempt \in Nat /\ IDs \in Nat \ {0}
  BY SMT, NumberAssumption DEF TypeOK, ID
<1>2. QED
  BY SMT, <1>1 DEF Candidate, ID

\* A response already told is not the empty one.
LEMMA ResponseTypes ==
  /\ Empty \in [kind : {"empty", "error", "frame"}, of : Call \cup {NoCall}]
  /\ Error \in [kind : {"empty", "error", "frame"}, of : Call \cup {NoCall}]
  /\ Nothing \in [to : Call \cup {NoCall}, of : Call \cup {NoCall}]
  /\ \A m : m.of \in Call \cup {NoCall} =>
       Frame(m) \in [kind : {"empty", "error", "frame"}, of : Call \cup {NoCall}]
  BY DEF Empty, Error, Nothing, Frame

\* The steps of Next, one disjunct per action: the case split of every proof.
LEMMA NextCases ==
  ASSUME Next
  PROVE  \/ \E c \in Call :
              \/ Reserve(c) \/ ReserveRefused(c) \/ Fill(c) \/ Queue(c) \/ SendReturns(c)
              \/ GiveUp(c) \/ Return(c) \/ Abandon(c) \/ Transmit(c) \/ Respond(c)
         \/ SendStray
         \/ \E m \in Response : Read(m)
         \/ Deliver \/ ServeFails \/ ServeEnds \/ Close
  BY DEF Next, Caller, Serve
-----------------------------------------------------------------------------
(* Types *)

LEMMA InitTypeOK == Init => TypeOK
<1> SUFFICES ASSUME Init PROVE TypeOK
  OBVIOUS
<1>1. 0 \in ID
  BY SMT, NumberAssumption DEF ID
<1>2. /\ canceledOrder \in Seq(ID) /\ inbox \subseteq Response
      /\ history \subseteq {"evicted", "wrapped", "stray"}
  BY SMT DEF Init
<1>3. QED
  BY <1>1, <1>2, ResponseTypes DEF Init, TypeOK, Stage

\* What fail's critical section does to the types of the variables it writes.
LEMMA FailTypes ==
  ASSUME TypeOK, Fail
  PROVE  /\ closed' \in BOOLEAN
         /\ pending' \in [ID -> Call \cup {NoCall}] /\ canceled' \in [ID -> Call \cup {NoCall}]
         /\ canceledOrder' \in Seq(ID)
         /\ response' \in [Call -> [kind : {"empty", "error", "frame"}, of : Call \cup {NoCall}]]
         /\ request' \in [Call -> {"none", "queued", "sent", "answered", "dropped"}]
<1>1. response' \in [Call -> [kind : {"empty", "error", "frame"}, of : Call \cup {NoCall}]]
  BY ResponseTypes DEF TypeOK, Fail
<1>2. QED
  BY SMT, <1>1 DEF TypeOK, Fail

LEMMA StepTypeOK == TypeOK /\ [Next]_vars => TypeOK'
<1> SUFFICES ASSUME TypeOK, [Next]_vars PROVE TypeOK'
  OBVIOUS
<1> USE CallAssumption, NumberAssumption, KindAssumption
<1> USE DEF tables, callers, reader
<1>1. ASSUME NEW c \in Call, Reserve(c) PROVE TypeOK'
  <2>1. PICK attempt \in 1..(IDs - 1) :
          LET i == Candidate(attempt)
          IN /\ next' = i
             /\ pending' = [pending EXCEPT ![i] = c]
             /\ correlation' = [correlation EXCEPT ![c] = i]
             /\ history' = IF i <= next THEN history \cup {"wrapped"} ELSE history
    BY <1>1 DEF Reserve
  <2>2. Candidate(attempt) \in ID
    BY CandidateID
  <2>3. QED
    BY <1>1, <2>1, <2>2 DEF TypeOK, Reserve, Stage
<1>2. ASSUME NEW c \in Call, ReserveRefused(c) PROVE TypeOK'
  <2>1. IDs - 1 \in 1..(IDs - 1)
    BY SMT
  <2>2. Candidate(IDs - 1) \in ID
    BY <2>1, CandidateID
  <2>3. QED
    BY <1>2, <2>2 DEF TypeOK, ReserveRefused, Stage
<1>3. ASSUME NEW c \in Call, Fill(c) PROVE TypeOK'
  <2>1. correlation[c] \in ID /\ KindOf[c] \in Kind
    BY DEF TypeOK
  <2>2. pending[correlation[c]] \in Call \cup {NoCall}
    BY <2>1 DEF TypeOK
  <2>3. /\ pc' \in [Call -> Stage]
        /\ entry' \in [Call -> Call \cup {NoCall}]
        /\ header' \in [Call -> Kind \cup {NoKind}]
    BY ZenonT(30), <1>3, <2>1, <2>2 DEF TypeOK, Fill, Stage
  <2>4. QED
    BY <1>3, <2>3 DEF TypeOK, Fill
<1>4. ASSUME NEW c \in Call, Queue(c) PROVE TypeOK'
  BY <1>4 DEF TypeOK, Queue, Stage
<1>5. ASSUME NEW c \in Call, SendReturns(c) PROVE TypeOK'
  BY <1>5 DEF TypeOK, SendReturns, Stage
<1>6. ASSUME NEW c \in Call, GiveUp(c) PROVE TypeOK'
  BY <1>6 DEF TypeOK, GiveUp, Stage
<1>7. ASSUME NEW c \in Call, Return(c) PROVE TypeOK'
  BY <1>7 DEF TypeOK, Return, Stage
<1>8. ASSUME NEW c \in Call, Abandon(c) PROVE TypeOK'
  <2>1. CASE pending[correlation[c]] = NoCall
    BY <1>8, <2>1 DEF TypeOK, Abandon, Stage
  <2>2. CASE pending[correlation[c]] # NoCall
    <3> DEFINE order == Append(canceledOrder, correlation[c])
    <3>1. order \in Seq(ID) /\ order # <<>>
      BY SMT, AppendFacts DEF TypeOK
    <3>2. Tail(order) \in Seq(ID) /\ Head(order) \in ID
      BY SMT, <3>1, TailFacts
    <3> HIDE DEF order
    <3>3. /\ pending' = [pending EXCEPT ![correlation[c]] = NoCall]
          /\ canceledOrder' \in {Tail(order), order}
          /\ \E marked : /\ marked = [canceled EXCEPT ![correlation[c]] = pending[correlation[c]]]
                         /\ canceled' \in {[marked EXCEPT ![Head(order)] = NoCall], marked}
          /\ history' \in {history \cup {"evicted"}, history}
          /\ pc' = [pc EXCEPT ![c] = "returned"]
      BY <1>8, <2>2 DEF Abandon, order
    <3>4. canceled' \in [ID -> Call \cup {NoCall}]
      BY SMT, <3>3 DEF TypeOK
    <3>5. QED
      BY ZenonT(30), <1>8, <3>1, <3>2, <3>3, <3>4 DEF TypeOK, Abandon, Stage
  <2>3. QED
    BY <2>1, <2>2
<1>9. ASSUME NEW c \in Call, Transmit(c) PROVE TypeOK'
  BY <1>9 DEF TypeOK, Transmit
<1>10. ASSUME NEW c \in Call, Respond(c) PROVE TypeOK'
  <2>1. [id |-> correlation[c], kind |-> KindOf[c], of |-> c] \in Response
    BY DEF TypeOK, Response
  <2>2. QED
    BY <1>10, <2>1 DEF TypeOK, Respond
<1>11. ASSUME SendStray PROVE TypeOK'
  <2>1. \A m \in Stray : [id |-> m.id, kind |-> m.kind, of |-> NoCall] \in Response
    BY StrayAssumption DEF Response
  <2>2. QED
    BY SMT, <1>11, <2>1 DEF TypeOK, SendStray
<1>12. ASSUME NEW m \in Response, Read(m) PROVE TypeOK'
  <2>1. m.id \in ID /\ m.of \in Call \cup {NoCall}
    BY DEF Response
  <2>2. inbox' \subseteq Response /\ UNCHANGED <<closed, next, callers, response, request, history>>
    BY <1>12 DEF Read, TypeOK
  <2>3. CASE ResolvePending(m)
    BY <2>1, <2>2, <2>3 DEF TypeOK, ResolvePending
  <2>4. CASE ResolveCanceled(m)
    <3>1. PICK k \in 1..Len(canceledOrder) : canceledOrder' = RemoveIndex(canceledOrder, k)
      BY <2>4 DEF ResolveCanceled
    <3>2. canceledOrder' \in Seq(ID)
      BY <3>1, RemoveIndexFacts DEF TypeOK
    <3>3. QED
      BY <2>1, <2>2, <2>4, <3>2 DEF TypeOK, ResolveCanceled
  <2>5. CASE ResolveUnexpected(m)
    BY <2>1, <2>2, <2>5 DEF TypeOK, ResolveUnexpected
  <2>6. QED
    BY <1>12, <2>3, <2>4, <2>5 DEF Read
<1>13. ASSUME Deliver PROVE TypeOK'
  <2>1. delivery.of \in Call \cup {NoCall}
    BY DEF TypeOK
  <2>2. Frame(delivery) \in [kind : {"empty", "error", "frame"}, of : Call \cup {NoCall}]
    BY <2>1, ResponseTypes
  <2>3. QED
    BY <1>13, <2>2, ResponseTypes DEF TypeOK, Deliver
<1>14. ASSUME ServeFails PROVE TypeOK'
  BY <1>14, FailTypes DEF TypeOK, ServeFails
<1>15. ASSUME ServeEnds PROVE TypeOK'
  BY <1>15 DEF TypeOK, ServeEnds
<1>16. ASSUME Close PROVE TypeOK'
  BY <1>16, FailTypes DEF TypeOK, Close
<1>17. CASE UNCHANGED vars
  BY <1>17 DEF TypeOK, vars
<1>18. QED
  BY NextCases, <1>1, <1>2, <1>3, <1>4, <1>5, <1>6, <1>7, <1>8, <1>9, <1>10, <1>11, <1>12,
     <1>13, <1>14, <1>15, <1>16, <1>17
-----------------------------------------------------------------------------
(* Who holds which id *)

LEMMA InitIDsInv == Init => IDsInv
<1> SUFFICES ASSUME Init PROVE IDsInv
  OBVIOUS
<1> USE CallAssumption, NumberAssumption DEF ID
<1>1. Len(canceledOrder) = 0 /\ canceledOrder = <<>>
  BY DEF Init
<1>2. {canceledOrder[k] : k \in 1..Len(canceledOrder)} = {i \in ID : canceled[i] # NoCall}
  BY SMT, <1>1 DEF Init
<1>3. IDsExclusive
  BY SMT, <1>1, <1>2 DEF Init, IDsExclusive
<1>4. QED
  BY <1>3 DEF Init, IDsInv, Staged

LEMMA StepIDsInv ==
  ASSUME TypeOK, TypeOK', IDsInv, [Next]_vars
  PROVE  IDsInv'
<1> USE CallAssumption
<1> USE DEF tables, callers, reader
<1>1. ASSUME NEW c \in Call, Reserve(c) PROVE IDsInv'
  <2>1. PICK attempt \in 1..(IDs - 1) :
          /\ Free(Candidate(attempt))
          /\ pending' = [pending EXCEPT ![Candidate(attempt)] = c]
          /\ correlation' = [correlation EXCEPT ![c] = Candidate(attempt)]
    BY <1>1 DEF Reserve, FirstFree
  <2> DEFINE i == Candidate(attempt)
  <2>2. i \in ID /\ i # 0 /\ pending[i] = NoCall /\ canceled[i] = NoCall
    BY <2>1, CandidateID DEF Free
  <2> HIDE DEF i
  <2>3. /\ pending' = [pending EXCEPT ![i] = c] /\ correlation' = [correlation EXCEPT ![c] = i]
        /\ UNCHANGED <<canceled, canceledOrder, request>>
        /\ pc[c] = "idle" /\ pc' = [pc EXCEPT ![c] = "fill"]
    BY <1>1, <2>1 DEF Reserve, i
  <2>4. correlation[c] = 0 /\ request[c] = "none"
    BY <2>3 DEF IDsInv, Staged
  <2>5. Staged'
    BY SMT, <2>2, <2>3, <2>4 DEF TypeOK, IDsInv, Staged
  <2>6. ASSUME NEW j \in ID, pending'[j] # NoCall
        PROVE  correlation'[pending'[j]] = j /\ canceled'[j] = NoCall
    <3>1. CASE j = i
      BY <2>2, <2>3, <3>1 DEF TypeOK
    <3>2. CASE j # i
      <4>1. /\ pending'[j] = pending[j] /\ pending[j] \in Call
            /\ correlation[pending[j]] = j /\ canceled[j] = NoCall /\ j # 0
        BY SMT, <2>3, <2>6, <3>2 DEF TypeOK, IDsInv, IDsExclusive
      <4>2. QED
        BY SMT, <2>3, <2>4, <4>1 DEF TypeOK
    <3>3. QED
      BY <3>1, <3>2
  <2>7. ASSUME NEW j \in ID, canceled'[j] # NoCall
        PROVE  correlation'[canceled'[j]] = j
    BY SMT, <2>3, <2>4, <2>7 DEF TypeOK, IDsInv, IDsExclusive
  <2>8. pending'[0] = NoCall /\ canceled'[0] = NoCall
    BY SMT, <2>2, <2>3 DEF TypeOK, IDsInv, IDsExclusive
  <2>9. QED
    BY SMT, <2>3, <2>5, <2>6, <2>7, <2>8 DEF IDsInv, IDsExclusive
<1>2. ASSUME UNCHANGED <<correlation, tables>>, Staged' PROVE IDsInv'
  BY SMT, <1>2 DEF IDsInv, IDsExclusive
<1>3. ASSUME NEW c \in Call,
             ReserveRefused(c) \/ Queue(c) \/ SendReturns(c) \/ GiveUp(c) \/ Return(c)
             \/ Transmit(c) \/ Respond(c)
      PROVE  IDsInv'
  <2>1. Staged'
    BY SMT, <1>3 DEF TypeOK, IDsInv, Staged, ReserveRefused, Queue, SendReturns, GiveUp, Return,
                Transmit, Respond
  <2>2. UNCHANGED <<correlation, tables>>
    BY <1>3 DEF ReserveRefused, Queue, SendReturns, GiveUp, Return, Transmit, Respond
  <2>3. QED
    BY <1>2, <2>1, <2>2
<1>4. ASSUME NEW c \in Call, Fill(c) PROVE IDsInv'
  <2>1. Staged'
    BY SMT, <1>4 DEF TypeOK, IDsInv, Staged, Fill
  <2>2. UNCHANGED <<correlation, tables>>
    BY <1>4 DEF Fill
  <2>3. QED
    BY <1>2, <2>1, <2>2
<1>5. ASSUME NEW c \in Call, Abandon(c) PROVE IDsInv'
  <2>1. Staged'
    BY SMT, <1>5 DEF TypeOK, IDsInv, Staged, Abandon
  <2>2. CASE pending[correlation[c]] = NoCall
    BY <1>2, <1>5, <2>1, <2>2 DEF Abandon
  <2>3. CASE pending[correlation[c]] # NoCall
    <3> DEFINE i == correlation[c]
               order == Append(canceledOrder, i)
               full == Len(order) > MaxCanceledRequests
               marked == [canceled EXCEPT ![i] = pending[i]]
               range(s) == {s[k] : k \in 1..Len(s)}
    <3>1. /\ i \in ID /\ i # 0 /\ pending[i] \in Call /\ canceled[i] = NoCall
          /\ correlation[pending[i]] = i
      BY SMT, <2>3 DEF TypeOK, IDsInv, IDsExclusive
    <3>2. /\ pending' = [pending EXCEPT ![i] = NoCall]
          /\ canceled' = IF full THEN [marked EXCEPT ![Head(order)] = NoCall] ELSE marked
          /\ canceledOrder' = IF full THEN Tail(order) ELSE order
          /\ UNCHANGED correlation
      BY <1>5, <2>3 DEF Abandon
    <3>3. \A k \in 1..Len(canceledOrder) : canceledOrder[k] # i
      BY SMT, <3>1 DEF IDsInv, IDsExclusive
    <3>4. /\ order \in Seq(ID) /\ order # <<>> /\ Len(order) = Len(canceledOrder) + 1
          /\ \A j, k \in 1..Len(order) : order[j] = order[k] => j = k
          /\ range(order) = range(canceledOrder) \cup {i}
      <4>1. order # <<>> /\ Len(order) = Len(canceledOrder) + 1
        BY SMT, <3>1, AppendFacts DEF TypeOK
      <4>2. /\ canceledOrder \in Seq(ID)
            /\ \A j, k \in 1..Len(canceledOrder) : canceledOrder[j] = canceledOrder[k] => j = k
        BY DEF TypeOK, IDsInv, IDsExclusive
      <4>3. /\ order \in Seq(ID)
            /\ \A j, k \in 1..Len(order) : order[j] = order[k] => j = k
            /\ range(order) = range(canceledOrder) \cup {i}
        BY SMT, <3>1, <3>3, <4>2, AppendNew
      <4>4. QED
        BY <4>1, <4>3
    <3>5. range(order) = {j \in ID : marked[j] # NoCall}
      <4>1. range(canceledOrder) = {j \in ID : canceled[j] # NoCall}
        BY DEF IDsInv, IDsExclusive
      <4>2. \A j \in ID : marked[j] # NoCall <=> canceled[j] # NoCall \/ j = i
        BY <3>1 DEF TypeOK
      <4> HIDE DEF marked, order, i
      <4>3. QED
        BY <3>1, <3>4, <4>1, <4>2
    <3>6. marked \in [ID -> Call \cup {NoCall}] /\ marked[0] = NoCall
          /\ \A j \in ID : marked[j] # NoCall => correlation[marked[j]] = j
      BY SMT, <3>1 DEF TypeOK, IDsInv, IDsExclusive
    <3>7. \A j \in ID : pending'[j] # NoCall =>
            correlation[pending'[j]] = j /\ marked[j] = NoCall
      BY SMT, <3>1, <3>2 DEF TypeOK, IDsInv, IDsExclusive
    <3>8. pending'[0] = NoCall
      BY SMT, <3>1, <3>2 DEF TypeOK, IDsInv, IDsExclusive
    <3>9. Len(canceledOrder) \in Nat /\ Len(canceledOrder) <= MaxCanceledRequests
      BY SMT DEF TypeOK, IDsInv, IDsExclusive
    <3> HIDE DEF i, order, marked
    <3>10. CASE ~full
      <4>1. canceled' = marked /\ canceledOrder' = order /\ Len(order) <= MaxCanceledRequests
        BY SMT, <3>2, <3>4, <3>9, <3>10, NumberAssumption
      <4>2. IDsExclusive'
        BY SMT, <3>2, <3>4, <3>5, <3>6, <3>7, <3>8, <4>1 DEF IDsExclusive
      <4>3. QED
        BY <2>1, <3>2, <3>6, <4>1, <4>2 DEF IDsInv
    <3>11. CASE full
      <4>1. canceled' = [marked EXCEPT ![Head(order)] = NoCall] /\ canceledOrder' = Tail(order)
        BY <3>2, <3>11
      <4>2. /\ \A j, k \in 1..Len(Tail(order)) : Tail(order)[j] = Tail(order)[k] => j = k
            /\ range(Tail(order)) = range(order) \ {Head(order)}
        BY <3>4, TailUnique
      <4>3. Head(order) \in ID /\ Len(Tail(order)) = Len(order) - 1
        BY SMT, <3>4, TailFacts
      <4>4. range(Tail(order)) = {j \in ID : canceled'[j] # NoCall}
        BY <3>5, <3>6, <4>1, <4>2, <4>3
      <4>5. canceled'[0] = NoCall /\ \A j \in ID : canceled'[j] \in {marked[j], NoCall}
        BY SMT, <3>6, <4>1, <4>3
      <4>6. Len(Tail(order)) <= MaxCanceledRequests
        BY SMT, <3>4, <3>9, <4>3, NumberAssumption
      <4>7. /\ Len(canceledOrder') <= MaxCanceledRequests
            /\ range(canceledOrder') = {j \in ID : canceled'[j] # NoCall}
            /\ \A j, k \in 1..Len(canceledOrder') :
                 canceledOrder'[j] = canceledOrder'[k] => j = k
        <5>1. canceledOrder' = Tail(order)
          BY <4>1
        <5>2. range(canceledOrder') = {j \in ID : canceled'[j] # NoCall}
          BY <4>4, <5>1
        <5>3. Len(canceledOrder') <= MaxCanceledRequests
          BY <4>6, <5>1
        <5>4. \A j, k \in 1..Len(canceledOrder') :
                canceledOrder'[j] = canceledOrder'[k] => j = k
          BY <4>2, <5>1
        <5>5. QED
          BY <5>2, <5>3, <5>4
      <4>8. \A j \in ID : pending'[j] # NoCall =>
              correlation'[pending'[j]] = j /\ canceled'[j] = NoCall
        BY <3>2, <3>7, <4>5
      <4>9. IDsExclusive'
        BY <3>8, <4>5, <4>7, <4>8 DEF IDsExclusive
      <4>10. QED
        BY <2>1, <3>2, <3>6, <4>5, <4>9 DEF IDsInv
    <3>12. QED
      BY <3>10, <3>11
  <2>4. QED
    BY <2>2, <2>3
<1>6. ASSUME SendStray \/ Deliver \/ ServeEnds PROVE IDsInv'
  BY <1>2, <1>6 DEF SendStray, Deliver, ServeEnds, IDsInv, Staged
<1>7. ASSUME NEW m \in Response, Read(m) PROVE IDsInv'
  <2>1. m.id \in ID
    BY DEF Response
  <2>2. Staged' /\ UNCHANGED correlation
    BY <1>7 DEF Read, IDsInv, Staged
  <2>3. CASE ResolvePending(m)
    BY SMT, <2>1, <2>2, <2>3 DEF ResolvePending, TypeOK, IDsInv, IDsExclusive
  <2>4. CASE ResolveCanceled(m)
    <3>1. PICK k \in 1..Len(canceledOrder) :
            canceledOrder[k] = m.id /\ canceledOrder' = RemoveIndex(canceledOrder, k)
      BY <2>4 DEF ResolveCanceled
    <3>2. canceled' = [canceled EXCEPT ![m.id] = NoCall] /\ UNCHANGED pending
      BY <2>4 DEF ResolveCanceled
    <3> DEFINE range(s) == {s[j] : j \in 1..Len(s)}
               r == RemoveIndex(canceledOrder, k)
    <3>3. /\ Len(r) = Len(canceledOrder) - 1
          /\ \A a, b \in 1..Len(r) : r[a] = r[b] => a = b
          /\ range(r) = range(canceledOrder) \ {canceledOrder[k]}
      <4>1. /\ canceledOrder \in Seq(ID)
            /\ \A a, b \in 1..Len(canceledOrder) : canceledOrder[a] = canceledOrder[b] => a = b
        BY DEF TypeOK, IDsInv, IDsExclusive
      <4>2. QED
        BY <4>1, RemoveIndexUnique
    <3> HIDE DEF r
    <3>4. range(r) = {j \in ID : canceled'[j] # NoCall}
      <4>1. range(canceledOrder) = {j \in ID : canceled[j] # NoCall}
        BY DEF IDsInv, IDsExclusive
      <4>2. QED
        BY <2>1, <3>1, <3>2, <3>3, <4>1 DEF TypeOK
    <3>5. Len(r) <= MaxCanceledRequests
      BY SMT, <3>3, NumberAssumption DEF TypeOK, IDsInv, IDsExclusive
    <3>6. canceled'[0] = NoCall /\ \A j \in ID : canceled'[j] \in {canceled[j], NoCall}
      BY SMT, <2>1, <3>2 DEF TypeOK, IDsInv, IDsExclusive
    <3>7. canceledOrder' = r
      BY <3>1 DEF r
    <3>8. /\ range(canceledOrder') = {j \in ID : canceled'[j] # NoCall}
          /\ \A a, b \in 1..Len(canceledOrder') : canceledOrder'[a] = canceledOrder'[b] => a = b
          /\ Len(canceledOrder') <= MaxCanceledRequests
      <4>1. range(canceledOrder') = {j \in ID : canceled'[j] # NoCall}
        BY <3>4, <3>7
      <4>2. QED
        BY <3>3, <3>5, <3>7, <4>1
    <3>9. /\ pending'[0] = NoCall
          /\ \A j \in ID : pending'[j] # NoCall =>
               correlation'[pending'[j]] = j /\ canceled'[j] = NoCall
      BY <2>2, <3>2, <3>6 DEF IDsInv, IDsExclusive
    <3>10. IDsExclusive'
      BY <3>6, <3>8, <3>9 DEF IDsExclusive
    <3>11. QED
      BY <2>2, <3>6, <3>10 DEF IDsInv
  <2>5. CASE ResolveUnexpected(m)
    BY <1>2, <2>2, <2>5 DEF ResolveUnexpected
  <2>6. QED
    BY <1>7, <2>3, <2>4, <2>5 DEF Read
<1>8. ASSUME Fail, UNCHANGED callers PROVE IDsInv'
  <2>1. Staged'
    BY SMT, <1>8 DEF Fail, TypeOK, IDsInv, Staged
  <2>2. canceledOrder' = <<>> /\ Len(canceledOrder') = 0
    BY <1>8 DEF Fail
  <2>3. \A i \in ID : pending'[i] = NoCall /\ canceled'[i] = NoCall
    BY <1>8 DEF Fail
  <2>4. 0 \in ID
    BY SMT, NumberAssumption DEF ID
  <2>5. {canceledOrder'[k] : k \in 1..Len(canceledOrder')} = {i \in ID : canceled'[i] # NoCall}
    BY SMT, <2>2, <2>3
  <2>6. QED
    BY SMT, <2>1, <2>2, <2>3, <2>4, <2>5, NumberAssumption DEF IDsInv, IDsExclusive
<1>9. ASSUME Close \/ ServeFails PROVE IDsInv'
  <2>1. UNCHANGED callers
    BY <1>9 DEF Close, ServeFails
  <2>2. Fail \/ UNCHANGED <<tables, request>>
    BY <1>9 DEF Close, ServeFails
  <2>3. QED
    BY <1>2, <1>8, <2>1, <2>2 DEF IDsInv, Staged
<1>10. CASE UNCHANGED vars
  BY <1>2, <1>10 DEF vars, IDsInv, Staged
<1>11. QED
  BY NextCases, <1>1, <1>3, <1>4, <1>5, <1>6, <1>7, <1>9, <1>10
-----------------------------------------------------------------------------
(* Who has been told *)

LEMMA InitToldInv == Init => ToldInv
  BY SMT, CallAssumption DEF Init, ToldInv, ToldOnce, Nothing

\* An entry of the table is its call's only one.
LEMMA EntryUnique ==
  ASSUME TypeOK, IDsInv, NEW i \in ID, NEW j \in ID, pending[i] # NoCall, pending[i] = pending[j]
  PROVE  i = j
  BY SMT DEF IDsInv, IDsExclusive

\* An idle call has no entry.
LEMMA IdleHasNoEntry ==
  ASSUME TypeOK, IDsInv, NEW i \in ID, pending[i] # NoCall
  PROVE  pending[i] \in Call /\ pc[pending[i]] # "idle"
<1>1. pending[i] \in Call
  BY DEF TypeOK
<1>2. correlation[pending[i]] = i /\ i # 0
  BY DEF IDsInv, IDsExclusive
<1>3. QED
  BY <1>1, <1>2 DEF IDsInv, Staged

LEMMA StepToldInv ==
  ASSUME TypeOK, TypeOK', IDsInv, ToldInv, [Next]_vars
  PROVE  ToldInv'
<1> USE CallAssumption
<1> USE DEF tables, callers, reader
<1>1. ASSUME UNCHANGED <<response, reader>>,
             \A i \in ID : pending'[i] \in {pending[i], NoCall},
             \A c \in Call : pc'[c] = "idle" => pc[c] = "idle"
      PROVE  ToldInv'
  BY <1>1 DEF ToldInv, ToldOnce
<1>2. ASSUME NEW c \in Call, Reserve(c) PROVE ToldInv'
  <2>1. PICK attempt \in 1..(IDs - 1) : pending' = [pending EXCEPT ![Candidate(attempt)] = c]
    BY <1>2 DEF Reserve
  <2>2. \A i \in ID : pending'[i] \in {pending[i], c}
    BY <2>1, CandidateID DEF TypeOK
  <2>3. /\ UNCHANGED <<response, reader>> /\ response[c] = Empty /\ delivery.to # c
        /\ \A d \in Call : pc'[d] = "idle" => pc[d] = "idle"
    BY SMTT(30), <1>2 DEF Reserve, TypeOK, ToldInv
  <2>4. QED
    BY <2>2, <2>3 DEF ToldInv, ToldOnce
<1>3. ASSUME NEW c \in Call,
             ReserveRefused(c) \/ Queue(c) \/ SendReturns(c) \/ GiveUp(c) \/ Return(c)
             \/ Transmit(c) \/ Respond(c)
      PROVE  ToldInv'
  BY SMT, <1>1, <1>3 DEF TypeOK, ReserveRefused, Queue, SendReturns, GiveUp, Return, Transmit, Respond
<1>4. ASSUME NEW c \in Call, Fill(c) PROVE ToldInv'
  BY SMT, <1>1, <1>4 DEF TypeOK, Fill
<1>5. ASSUME NEW c \in Call, Abandon(c) PROVE ToldInv'
  <2>1. \A i \in ID : pending'[i] \in {pending[i], NoCall}
    BY <1>5 DEF TypeOK, Abandon
  <2>2. QED
    BY SMT, <1>1, <1>5, <2>1 DEF TypeOK, Abandon
<1>6. ASSUME SendStray PROVE ToldInv'
  BY <1>1, <1>6 DEF SendStray
<1>7. ASSUME NEW m \in Response, Read(m) PROVE ToldInv'
  <2>1. m.id \in ID
    BY DEF Response
  <2>2. UNCHANGED <<response, pc>>
    BY <1>7 DEF Read
  <2>3. CASE ResolvePending(m)
    <3> DEFINE c == pending[m.id]
    <3>1. /\ c \in Call /\ response[c] = Empty /\ pc[c] # "idle"
          /\ \A i \in ID : i # m.id => pending[i] # c
      <4>1. c # NoCall
        BY <2>3 DEF ResolvePending, Matches
      <4>2. QED
        BY <2>1, <4>1, IdleHasNoEntry, EntryUnique DEF ToldInv, ToldOnce
    <3>2. /\ pending' = [pending EXCEPT ![m.id] = NoCall]
          /\ delivery'.to = c
      BY <2>3 DEF ResolvePending
    <3> HIDE DEF c
    <3>3. \A i \in ID : pending'[i] # NoCall => pending'[i] = pending[i] /\ pending'[i] # c
      BY <2>1, <3>1, <3>2 DEF TypeOK
    <3>4. QED
      BY SMT, <2>2, <3>1, <3>2, <3>3 DEF ToldInv, ToldOnce
  <2>4. CASE ResolveCanceled(m)
    BY <1>1, <2>2, <2>4 DEF ResolveCanceled
  <2>5. CASE ResolveUnexpected(m)
    BY <2>2, <2>5 DEF ResolveUnexpected, ToldInv, ToldOnce
  <2>6. QED
    BY <1>7, <2>3, <2>4, <2>5 DEF Read
<1>8. ASSUME Deliver PROVE ToldInv'
  <2>1. delivery.to \in Call
    BY <1>8 DEF Deliver, TypeOK, ToldInv
  <2>2. \A c \in Call : c # delivery.to => response'[c] = response[c]
    BY SMT, <1>8 DEF Deliver, TypeOK
  <2>3. delivery'.to = NoCall /\ serve' = "read" /\ UNCHANGED <<pending, pc>>
    BY <1>8 DEF Deliver, Nothing
  <2>4. QED
    BY SMT, <2>1, <2>2, <2>3 DEF ToldInv, ToldOnce, TypeOK
<1>9. ASSUME Fail, UNCHANGED <<pc, delivery>>, serve' = "deliver" => serve = "deliver"
      PROVE  ToldInv'
  <2>1. /\ \A i \in ID : pending'[i] = NoCall
        /\ \A c \in Call : (\A i \in ID : pending[i] # c) => response'[c] = response[c]
    BY <1>9 DEF Fail
  <2>2. \A c \in Call : pc[c] = "idle" => \A i \in ID : pending[i] # c
    BY IdleHasNoEntry
  <2>3. delivery.to # NoCall =>
          delivery.to \in Call /\ \A i \in ID : pending[i] # delivery.to
    BY DEF TypeOK, ToldInv, ToldOnce
  <2>4. QED
    BY <1>9, <2>1, <2>2, <2>3 DEF ToldInv, ToldOnce
<1>10. ASSUME Close PROVE ToldInv'
  BY <1>9, <1>10 DEF Close
<1>11. ASSUME ServeFails PROVE ToldInv'
  <2>1. CASE closed
    BY <1>11, <2>1 DEF ServeFails, ToldInv, ToldOnce
  <2>2. CASE ~closed
    BY <1>9, <1>11, <2>2 DEF ServeFails
  <2>3. QED
    BY <2>1, <2>2
<1>12. ASSUME ServeEnds PROVE ToldInv'
  BY <1>12 DEF ServeEnds, ToldInv, ToldOnce
<1>13. CASE UNCHANGED vars
  BY <1>1, <1>13 DEF vars
<1>14. QED
  BY NextCases, <1>2, <1>3, <1>4, <1>5, <1>6, <1>7, <1>8, <1>10, <1>11, <1>12, <1>13
-----------------------------------------------------------------------------
(* Which call a response reaches *)

LEMMA InitOriginInv == Init => OriginInv
  BY SMT, CallAssumption, NumberAssumption
  DEF Init, OriginInv, InboxTrue, IDsFresh, EntryKept, HeaderTrue, Correlated,
      LateResponseAbsorbed, Undisturbed, Empty, Nothing, ID

\* What InboxTrue says of an answer that is not stray.
LEMMA AnswerTrue ==
  ASSUME TypeOK, InboxTrue, NEW m \in inbox, m.of # NoCall
  PROVE  /\ m.of \in Call
         /\ m.id = correlation[m.of] /\ m.kind = KindOf[m.of] /\ request[m.of] = "answered"
<1>1. m.of \in Call \cup {NoCall}
  BY DEF TypeOK, Response
<1>2. QED
  BY <1>1 DEF InboxTrue

\* A response read by an open, undisturbed Peer finds the entry or the
\* tombstone of the call it answers, with its kind.
LEMMA AnswerMatches ==
  ASSUME TypeOK, IDsInv, OriginInv, NEW m \in inbox, ~closed, Undisturbed
  PROVE  /\ m.of \in Call /\ header[m.of] = m.kind
         /\ \/ pending[m.id] = m.of
            \/ pending[m.id] = NoCall /\ canceled[m.id] = m.of
<1>1. m.id \in ID /\ m.of \in Call \cup {NoCall}
  BY DEF TypeOK, Response
<1>2. m.of \in Call
  BY <1>1 DEF OriginInv, InboxTrue, Undisturbed
<1>3. m.id = correlation[m.of] /\ m.kind = KindOf[m.of] /\ request[m.of] = "answered"
  BY <1>2, CallAssumption DEF OriginInv, InboxTrue
<1>4. header[m.of] = m.kind
  BY <1>2, <1>3 DEF OriginInv, HeaderTrue
<1>5. correlation[m.of] # 0 /\ Outstanding(m.of)
  BY <1>2, <1>3 DEF IDsInv, Staged, Outstanding
<1>6. pending[m.id] = m.of \/ canceled[m.id] = m.of
  BY <1>2, <1>3, <1>5 DEF OriginInv, EntryKept
<1>7. QED
  BY <1>1, <1>2, <1>4, <1>6, CallAssumption DEF IDsInv, IDsExclusive

\* A call that fills its entry on an undisturbed Peer fills its own.
LEMMA FillsOwnEntry ==
  ASSUME TypeOK, IDsInv, OriginInv, NEW c \in Call, pc[c] = "fill", Undisturbed,
         pending[correlation[c]] # NoCall
  PROVE  pending[correlation[c]] = c
<1>1. correlation[c] \in ID /\ correlation[c] # 0 /\ request[c] = "none"
  BY DEF TypeOK, IDsInv, Staged
<1>2. ~closed
  BY <1>1 DEF OriginInv
<1>3. pending[correlation[c]] = c \/ canceled[correlation[c]] = c
  BY <1>1, <1>2 DEF OriginInv, EntryKept, Outstanding
<1>4. QED
  BY <1>1, <1>3, CallAssumption DEF IDsInv, IDsExclusive

\* The entry a response resolves is that of the call it answers, unless the
\* remote invents responses, or tombstones were evicted and ids wrapped round.
LEMMA ResolvesOwnEntry ==
  ASSUME TypeOK, IDsInv, OriginInv, NEW m \in inbox, pending[m.id] # NoCall
  PROVE  m.of = pending[m.id] \/ Excused
<1>1. m.id \in ID /\ m.of \in Call \cup {NoCall}
  BY DEF TypeOK, Response
<1>2. ~closed
  BY <1>1 DEF OriginInv
<1>3. CASE "stray" \notin history /\ "evicted" \notin history
  BY <1>2, <1>3, AnswerMatches DEF Undisturbed
<1>4. CASE "stray" \notin history /\ "wrapped" \notin history
  <2>1. m.of \in Call /\ m.id = correlation[m.of] /\ request[m.of] = "answered"
    BY <1>1, <1>4, CallAssumption DEF OriginInv, InboxTrue
  <2>2. pending[m.id] \in Call /\ correlation[pending[m.id]] = m.id /\ m.id # 0
    BY SMT, <1>1 DEF TypeOK, IDsInv, IDsExclusive
  <2>3. QED
    BY <1>4, <2>1, <2>2 DEF OriginInv, IDsFresh
<1>5. QED
  BY <1>3, <1>4 DEF Excused

LEMMA StepOriginInv ==
  ASSUME TypeOK, TypeOK', IDsInv, ToldInv, OriginInv, [Next]_vars
  PROVE  OriginInv'
<1> USE CallAssumption
<1> USE DEF tables, callers, reader
<1>1. ASSUME UNCHANGED <<closed, tables, correlation, header, response, request, inbox, reader>>,
             UNCHANGED next \/ "wrapped" \in history',
             history' \in {history, history \cup {"wrapped"}},
             \A c \in Call : pc'[c] = "send" => pc[c] = "send"
      PROVE  OriginInv'
  BY <1>1 DEF OriginInv, InboxTrue, IDsFresh, EntryKept, HeaderTrue, Correlated,
              LateResponseAbsorbed, Undisturbed, Outstanding, Excused
<1>2. ASSUME NEW c \in Call, Reserve(c) PROVE OriginInv'
  <2>1. PICK attempt \in 1..(IDs - 1) :
          LET i == Candidate(attempt)
          IN /\ Free(i)
             /\ next' = i
             /\ pending' = [pending EXCEPT ![i] = c]
             /\ correlation' = [correlation EXCEPT ![c] = i]
             /\ history' = IF i <= next THEN history \cup {"wrapped"} ELSE history
    BY <1>2 DEF Reserve, FirstFree
  <2> DEFINE i == Candidate(attempt)
  <2>2. i \in ID /\ i # 0 /\ pending[i] = NoCall /\ canceled[i] = NoCall
    BY <2>1, CandidateID DEF Free
  <2>3. /\ next' = i
        /\ pending' = [pending EXCEPT ![i] = c]
        /\ correlation' = [correlation EXCEPT ![c] = i]
        /\ history' = IF i <= next THEN history \cup {"wrapped"} ELSE history
    BY <2>1
  <2> HIDE DEF i
  <2>4. /\ pc[c] = "idle" /\ ~closed /\ pc' = [pc EXCEPT ![c] = "fill"]
        /\ UNCHANGED <<closed, canceled, header, response, request, inbox, serve, delivery>>
    BY <1>2 DEF Reserve
  <2>5. request[c] = "none"
    BY <2>4 DEF IDsInv, Staged
  <2>6. InboxTrue'
    <3>1. ASSUME NEW m \in inbox
          PROVE IF m.of = NoCall THEN "stray" \in history'
                ELSE /\ m.id = correlation'[m.of] /\ m.kind = KindOf[m.of]
                     /\ request[m.of] = "answered"
      <4>1. m.of # c /\ m.of \in Call \cup {NoCall}
        BY <2>5 DEF TypeOK, Response, OriginInv, InboxTrue
      <4>2. QED
        BY SMT, <2>3, <4>1 DEF TypeOK, OriginInv, InboxTrue
    <3>2. QED
      BY <2>4, <3>1 DEF InboxTrue
  <2>7. IDsFresh'
    <3>1. CASE i <= next
      BY <2>3, <3>1 DEF IDsFresh
    <3>2. CASE ~(i <= next)
      BY SMT, <2>2, <2>3, <3>2, NumberAssumption DEF TypeOK, ID, OriginInv, IDsFresh
    <3>3. QED
      BY <3>1, <3>2
  <2>8. EntryKept'
    <3>1. ASSUME NEW d \in Call, ~closed, Undisturbed, correlation'[d] # 0, Outstanding(d)
          PROVE pending'[correlation'[d]] = d \/ canceled[correlation'[d]] = d
      <4>1. CASE d = c
        BY <2>2, <2>3, <4>1 DEF TypeOK
      <4>2. CASE d # c
        <5>1. correlation'[d] = correlation[d] /\ correlation[d] \in ID
          BY <2>3, <4>2 DEF TypeOK
        <5>2. pending[correlation[d]] = d \/ canceled[correlation[d]] = d
          BY <3>1, <5>1 DEF OriginInv, EntryKept
        <5>3. correlation[d] # i
          BY <2>2, <5>2
        <5>4. QED
          BY <2>2, <2>3, <5>1, <5>2, <5>3 DEF TypeOK
      <4>3. QED
        BY <4>1, <4>2
    <3>2. Undisturbed' => Undisturbed
      BY <2>3 DEF Undisturbed
    <3>3. \A d \in Call : Outstanding(d)' => Outstanding(d)
      BY <2>4 DEF Outstanding
    <3>4. QED
      BY <2>4, <3>1, <3>2, <3>3 DEF EntryKept
  <2>9. HeaderTrue'
    BY SMT, <2>3, <2>4 DEF TypeOK, OriginInv, HeaderTrue, Undisturbed
  <2>10. QED
    BY <2>3, <2>4, <2>6, <2>7, <2>8, <2>9
    DEF OriginInv, Correlated, LateResponseAbsorbed, Excused
<1>3. ASSUME NEW c \in Call,
             ReserveRefused(c) \/ SendReturns(c) \/ GiveUp(c) \/ Return(c)
      PROVE  OriginInv'
  <2>1. \A d \in Call : pc'[d] = "send" => pc[d] = "send"
    BY SMT, <1>3 DEF TypeOK, ReserveRefused, SendReturns, GiveUp, Return
  <2>2. QED
    BY <1>1, <1>3, <2>1 DEF ReserveRefused, SendReturns, GiveUp, Return
<1>4. ASSUME NEW c \in Call, Fill(c) PROVE OriginInv'
  <2>1. CASE pending[correlation[c]] = NoCall
    BY SMT, <1>1, <1>4, <2>1 DEF Fill, TypeOK
  <2>2. CASE pending[correlation[c]] # NoCall
    <3>1. /\ pc[c] = "fill" /\ pc' = [pc EXCEPT ![c] = "send"]
          /\ header' = [header EXCEPT ![pending[correlation[c]]] = KindOf[c]]
          /\ UNCHANGED <<closed, next, tables, correlation, response, request, inbox, reader,
                         history>>
      BY <1>4, <2>2 DEF Fill
    <3>2. HeaderTrue'
      <4>1. ASSUME Undisturbed, NEW d \in Call, pc'[d] = "send" \/ request[d] # "none"
            PROVE  header'[d] = KindOf[d]
        <5>1. header' = [header EXCEPT ![c] = KindOf[c]]
          BY <2>2, <3>1, <4>1, FillsOwnEntry
        <5>2. QED
          BY SMT, <3>1, <4>1, <5>1 DEF TypeOK, OriginInv, HeaderTrue
      <4>2. QED
        BY <3>1, <4>1 DEF HeaderTrue, Undisturbed
    <3>3. QED
      BY <3>1, <3>2 DEF OriginInv, InboxTrue, IDsFresh, EntryKept, Correlated,
                        LateResponseAbsorbed, Undisturbed, Outstanding, Excused
  <2>3. QED
    BY <2>1, <2>2
<1>5. ASSUME NEW c \in Call, Queue(c) \/ Transmit(c) PROVE OriginInv'
  <2>1. /\ UNCHANGED <<closed, next, tables, correlation, header, response, inbox, reader, history>>
        /\ request[c] \in {"none", "queued"}
        /\ \E r \in {"queued", "sent"} : request' = [request EXCEPT ![c] = r]
        /\ pc[c] = "send" \/ request[c] = "queued"
        /\ \A d \in Call : pc'[d] = "send" => pc[d] = "send"
    BY SMT, <1>5 DEF Queue, Transmit, TypeOK, IDsInv, Staged
  <2>2. /\ \A d \in Call : request[d] = "answered" => request'[d] = "answered"
        /\ \A d \in Call : Outstanding(d)' => Outstanding(d)
        /\ \A d \in Call : request'[d] # "none" => pc[d] = "send" \/ request[d] # "none"
    BY SMT, <2>1 DEF TypeOK, Outstanding
  <2>3. InboxTrue'
    <3>1. \A m \in inbox : m.of # NoCall =>
            /\ m.id = correlation[m.of] /\ m.kind = KindOf[m.of]
            /\ request'[m.of] = "answered"
      BY <2>2, AnswerTrue DEF OriginInv
    <3>2. \A m \in inbox : m.of = NoCall => "stray" \in history
      BY DEF OriginInv, InboxTrue
    <3>3. QED
      BY <2>1, <3>1, <3>2 DEF InboxTrue
  <2>4. EntryKept' /\ HeaderTrue'
    BY <2>1, <2>2 DEF OriginInv, EntryKept, HeaderTrue, Undisturbed
  <2>5. QED
    BY <2>1, <2>3, <2>4 DEF OriginInv, IDsFresh, Correlated, LateResponseAbsorbed, Excused
<1>6. ASSUME NEW c \in Call, Abandon(c) PROVE OriginInv'
  <2>1. \A d \in Call : pc'[d] = "send" => pc[d] = "send"
    BY <1>6 DEF TypeOK, Abandon
  <2>2. CASE pending[correlation[c]] = NoCall
    BY <1>1, <1>6, <2>1, <2>2 DEF Abandon
  <2>3. CASE pending[correlation[c]] # NoCall
    <3> DEFINE i == correlation[c]
    <3>1. /\ UNCHANGED <<closed, next, correlation, header, response, request, inbox, reader>>
          /\ pending' = [pending EXCEPT ![i] = NoCall]
          /\ history' \in {history, history \cup {"evicted"}}
          /\ "evicted" \notin history' => canceled' = [canceled EXCEPT ![i] = pending[i]]
      BY <1>6, <2>3 DEF Abandon
    <3>2. i \in ID
      BY DEF TypeOK
    <3> HIDE DEF i
    <3>3. EntryKept'
      <4>1. ASSUME ~closed, Undisturbed', NEW d \in Call, correlation[d] # 0, Outstanding(d)
            PROVE  pending'[correlation[d]] = d \/ canceled'[correlation[d]] = d
        <5>1. Undisturbed /\ canceled' = [canceled EXCEPT ![i] = pending[i]]
          BY <3>1, <4>1 DEF Undisturbed
        <5>2. correlation[d] \in ID /\ (pending[correlation[d]] = d \/ canceled[correlation[d]] = d)
          BY <4>1, <5>1 DEF OriginInv, EntryKept, TypeOK
        <5>3. pending[i] # NoCall => canceled[i] = NoCall
          BY <3>2 DEF IDsInv, IDsExclusive
        <5>4. pending[i] # NoCall
          BY <2>3 DEF i
        <5>5. QED
          BY <3>1, <3>2, <5>1, <5>2, <5>3, <5>4 DEF TypeOK
      <4>2. QED
        BY <3>1, <4>1 DEF EntryKept, Outstanding
    <3>4. HeaderTrue'
      BY <2>1, <3>1 DEF OriginInv, HeaderTrue, Undisturbed
    <3>5. closed' => \A j \in ID : pending'[j] = NoCall
      BY SMT, <3>1, <3>2 DEF OriginInv, TypeOK
    <3>6. QED
      BY <3>1, <3>3, <3>4, <3>5
      DEF OriginInv, InboxTrue, IDsFresh, Correlated, LateResponseAbsorbed, Excused
  <2>4. QED
    BY <2>2, <2>3
<1>7. ASSUME NEW c \in Call, Respond(c) PROVE OriginInv'
  <2> DEFINE a == [id |-> correlation[c], kind |-> KindOf[c], of |-> c]
  <2>1. /\ request[c] = "sent" /\ request' = [request EXCEPT ![c] = "answered"]
        /\ inbox' = inbox \cup {a}
        /\ UNCHANGED <<closed, next, tables, callers, response, reader, history>>
    BY <1>7 DEF Respond
  <2>2. a.id = correlation[c] /\ a.kind = KindOf[c] /\ a.of = c
    OBVIOUS
  <2> HIDE DEF a
  <2>3. InboxTrue'
    <3>1. ASSUME NEW m \in inbox, m.of # NoCall
          PROVE  /\ m.id = correlation[m.of] /\ m.kind = KindOf[m.of]
                 /\ request'[m.of] = "answered"
      <4>1. /\ m.of \in Call
            /\ m.id = correlation[m.of] /\ m.kind = KindOf[m.of] /\ request[m.of] = "answered"
        BY <3>1, AnswerTrue DEF OriginInv
      <4>2. QED
        BY SMT, <2>1, <4>1 DEF TypeOK
    <3>2. request'[c] = "answered"
      BY SMT, <2>1 DEF TypeOK
    <3>3. \A m \in inbox : m.of = NoCall => "stray" \in history
      BY DEF OriginInv, InboxTrue
    <3>4. QED
      BY <2>1, <2>2, <3>1, <3>2, <3>3 DEF InboxTrue
  <2>4. \A d \in Call : Outstanding(d)' => Outstanding(d)
    <3>1. ASSUME NEW d \in Call, d # c, Outstanding(d)' PROVE Outstanding(d)
      <4>1. request'[d] = request[d]
        BY SMT, <2>1, <3>1 DEF TypeOK
      <4>2. ASSUME NEW m \in inbox', m.of = d PROVE m \in inbox
        BY <2>1, <2>2, <3>1, <4>2
      <4>3. QED
        BY <3>1, <4>1, <4>2 DEF Outstanding
    <3>2. Outstanding(c)
      BY <2>1 DEF Outstanding
    <3>3. QED
      BY <3>1, <3>2
  <2>5. \A d \in Call : request'[d] # "none" => request[d] # "none"
    BY SMT, <2>1 DEF TypeOK
  <2>6. QED
    BY <2>1, <2>3, <2>4, <2>5
    DEF OriginInv, IDsFresh, EntryKept, HeaderTrue, Correlated, LateResponseAbsorbed,
        Undisturbed, Excused
<1>8. ASSUME SendStray PROVE OriginInv'
  <2>1. /\ "stray" \in history' /\ history \subseteq history'
        /\ "wrapped" \notin history' => "wrapped" \notin history
        /\ UNCHANGED <<closed, next, tables, callers, response, request, reader>>
    BY <1>8 DEF SendStray
  <2>2. ASSUME NEW m \in inbox', m.of # NoCall PROVE m \in inbox
    BY SMT, <1>8, <2>2 DEF SendStray
  <2>3. InboxTrue'
    BY <2>1, <2>2 DEF OriginInv, InboxTrue
  <2>4. QED
    BY <2>1, <2>3 DEF OriginInv, IDsFresh, EntryKept, HeaderTrue, Correlated,
                      LateResponseAbsorbed, Undisturbed, Excused
<1>9. ASSUME NEW m \in Response, Read(m) PROVE OriginInv'
  <2>1. /\ m.id \in ID /\ m.of \in Call \cup {NoCall} /\ m \in inbox
        /\ inbox' = inbox \ {m}
        /\ UNCHANGED <<closed, next, callers, response, request, history>>
    BY <1>9 DEF Read, Response
  <2>2. InboxTrue'
    BY <2>1 DEF OriginInv, InboxTrue
  <2>3. \A d \in Call : Outstanding(d)' => Outstanding(d)
    BY <2>1 DEF Outstanding
  <2>4. m.of \in Call => ~Outstanding(m.of)'
    <3>1. ASSUME m.of \in Call, NEW n \in inbox, n.of = m.of PROVE n = m
      <4>1. n \in Response
        BY DEF TypeOK
      <4>2. n.id = m.id /\ n.kind = m.kind
        BY <2>1, <3>1 DEF OriginInv, InboxTrue
      <4>3. QED
        BY SMT, <3>1, <4>1, <4>2 DEF Response
    <3>2. m.of \in Call => request[m.of] = "answered"
      BY <2>1 DEF OriginInv, InboxTrue
    <3>3. QED
      BY <2>1, <3>1, <3>2 DEF Outstanding
  <2>5. ASSUME \A i \in ID : i # m.id => pending'[i] = pending[i] /\ canceled'[i] = canceled[i],
               Undisturbed /\ ~closed =>
                 \A d \in Call : d # m.of => pending[m.id] # d /\ canceled[m.id] # d
        PROVE  EntryKept'
    <3>1. ASSUME ~closed, Undisturbed, NEW d \in Call, correlation[d] # 0, Outstanding(d)'
          PROVE  pending'[correlation[d]] = d \/ canceled'[correlation[d]] = d
      <4>1. d # m.of /\ correlation[d] \in ID
        BY <2>4, <3>1 DEF TypeOK
      <4>2. pending[correlation[d]] = d \/ canceled[correlation[d]] = d
        BY <2>3, <3>1 DEF OriginInv, EntryKept
      <4>3. correlation[d] # m.id
        BY <2>5, <3>1, <4>1, <4>2
      <4>4. QED
        BY <2>5, <4>1, <4>2, <4>3
    <3>2. QED
      BY <2>1, <3>1 DEF EntryKept, Undisturbed
  <2>6. Undisturbed /\ ~closed =>
          \A d \in Call : d # m.of => pending[m.id] # d /\ canceled[m.id] # d
    BY SMT, <2>1, AnswerMatches DEF IDsInv, IDsExclusive
  <2>7. HeaderTrue' /\ IDsFresh' /\ Correlated'
    BY <2>1 DEF OriginInv, HeaderTrue, IDsFresh, Correlated, Undisturbed
  <2>8. CASE ResolvePending(m)
    <3>1. /\ pending[m.id] # NoCall
          /\ pending' = [pending EXCEPT ![m.id] = NoCall] /\ UNCHANGED canceled
          /\ delivery' = [to |-> pending[m.id], of |-> m.of] /\ serve' = "deliver"
      BY <2>8 DEF ResolvePending, Matches
    <3>2. EntryKept'
      <4>1. \A i \in ID : i # m.id => pending'[i] = pending[i] /\ canceled'[i] = canceled[i]
        BY <3>1 DEF TypeOK
      <4>2. QED
        BY <2>5, <2>6, <4>1
    <3>3. delivery'.of = delivery'.to \/ Excused'
      BY <2>1, <3>1, ResolvesOwnEntry DEF Excused
    <3>4. closed' => \A i \in ID : pending'[i] = NoCall
      BY <2>1, <3>1 DEF OriginInv, TypeOK
    <3>5. QED
      BY <2>2, <2>7, <3>1, <3>2, <3>3, <3>4 DEF OriginInv, LateResponseAbsorbed
  <2>9. CASE ResolveCanceled(m)
    <3>1. UNCHANGED <<pending, reader>> /\ canceled' = [canceled EXCEPT ![m.id] = NoCall]
      BY <2>9 DEF ResolveCanceled
    <3>2. EntryKept'
      <4>1. \A i \in ID : i # m.id => pending'[i] = pending[i] /\ canceled'[i] = canceled[i]
        BY <3>1 DEF TypeOK
      <4>2. QED
        BY <2>5, <2>6, <4>1
    <3>3. QED
      BY <2>1, <2>2, <2>7, <3>1, <3>2 DEF OriginInv, LateResponseAbsorbed, Excused
  <2>10. CASE ResolveUnexpected(m)
    <3>1. /\ ~Matches(pending[m.id], m)
          /\ pending[m.id] = NoCall => ~Matches(canceled[m.id], m)
          /\ UNCHANGED <<tables, delivery>>
      BY <2>10 DEF ResolveUnexpected
    <3>2. closed \/ ~Undisturbed
      <4> SUFFICES ASSUME ~closed, Undisturbed PROVE FALSE
        OBVIOUS
      <4>1. /\ m.of \in Call /\ header[m.of] = m.kind
            /\ \/ pending[m.id] = m.of
               \/ pending[m.id] = NoCall /\ canceled[m.id] = m.of
        BY <2>1, AnswerMatches
      <4>2. Matches(m.of, m)
        BY <4>1 DEF Matches
      <4>3. QED
        BY <3>1, <4>1, <4>2
    <3>3. EntryKept'
      BY <2>5, <2>6, <3>1
    <3>4. LateResponseAbsorbed'
      BY <2>1, <3>2 DEF LateResponseAbsorbed, Undisturbed
    <3>5. QED
      BY <2>1, <2>2, <2>7, <3>1, <3>3, <3>4 DEF OriginInv, Excused
  <2>11. QED
    BY <1>9, <2>8, <2>9, <2>10 DEF Read
<1>10. ASSUME Deliver PROVE OriginInv'
  <2>1. /\ delivery.to \in Call
        /\ delivery.of = delivery.to \/ Excused
        /\ response' = [response EXCEPT ![delivery.to] = Frame(delivery)]
        /\ delivery'.to = NoCall /\ serve' = "read"
        /\ UNCHANGED <<closed, next, tables, callers, request, inbox, history>>
    BY <1>10 DEF Deliver, Nothing, OriginInv, ToldInv, TypeOK
  <2>2. Correlated'
    BY SMT, <2>1 DEF TypeOK, OriginInv, Correlated, Frame, Excused
  <2>3. QED
    BY <2>1, <2>2 DEF OriginInv, InboxTrue, IDsFresh, EntryKept, HeaderTrue,
                      LateResponseAbsorbed, Undisturbed, Outstanding
<1>11. ASSUME Fail, UNCHANGED <<next, callers, inbox, delivery, history>>
       PROVE  OriginInv'
  <2>1. /\ closed' /\ \A i \in ID : pending'[i] = NoCall
        /\ \A c \in Call : response'[c] \in {response[c], Error}
        /\ \A c \in Call : request'[c] = request[c] \/ request[c] = "queued"
    BY <1>11 DEF Fail
  <2>2. InboxTrue'
    <3>1. \A m \in inbox : m.of # NoCall => m.of \in Call /\ request[m.of] = "answered"
      BY AnswerTrue DEF OriginInv
    <3>2. \A m \in inbox : m.of # NoCall => request'[m.of] = "answered"
      BY <2>1, <3>1
    <3>3. QED
      BY <1>11, <3>2 DEF OriginInv, InboxTrue
  <2>3. HeaderTrue'
    BY <1>11, <2>1 DEF OriginInv, HeaderTrue, Undisturbed
  <2>4. Correlated'
    BY SMT, <1>11, <2>1 DEF OriginInv, Correlated, Error
  <2>5. QED
    BY <1>11, <2>1, <2>2, <2>3, <2>4
    DEF OriginInv, IDsFresh, EntryKept, LateResponseAbsorbed, Excused
<1>12. ASSUME Close PROVE OriginInv'
  BY <1>11, <1>12 DEF Close
<1>13. ASSUME UNCHANGED <<closed, next, tables, callers, response, request, inbox, delivery, history>>,
              serve' = "stopped"
       PROVE  OriginInv'
  BY <1>13 DEF OriginInv, InboxTrue, IDsFresh, EntryKept, HeaderTrue, Correlated,
               LateResponseAbsorbed, Undisturbed, Outstanding, Excused
<1>14. ASSUME ServeFails PROVE OriginInv'
  BY <1>11, <1>13, <1>14 DEF ServeFails
<1>15. ASSUME ServeEnds PROVE OriginInv'
  BY <1>13, <1>15 DEF ServeEnds
<1>16. CASE UNCHANGED vars
  BY <1>1, <1>16 DEF vars
<1>17. QED
  BY NextCases, <1>2, <1>3, <1>4, <1>5, <1>6, <1>7, <1>8, <1>9, <1>10, <1>12, <1>14, <1>15, <1>16
-----------------------------------------------------------------------------
(* Theorems *)

\* The variables of a Peer keep their types.
THEOREM TypeCorrect == Spec => []TypeOK
  BY InitTypeOK, StepTypeOK, PTL DEF Spec

\* The four layers together are an invariant.
LEMMA Invariance == Spec => [](TypeOK /\ IDsInv /\ ToldInv /\ OriginInv)
<1>1. Init => TypeOK /\ IDsInv /\ ToldInv /\ OriginInv
  BY InitTypeOK, InitIDsInv, InitToldInv, InitOriginInv
<1>2. TypeOK /\ IDsInv /\ ToldInv /\ OriginInv /\ [Next]_vars
        => (TypeOK /\ IDsInv /\ ToldInv /\ OriginInv)'
  BY StepTypeOK, StepIDsInv, StepToldInv, StepOriginInv
<1>3. QED
  BY <1>1, <1>2, PTL DEF Spec

\* No CorrelationID is in use twice, and the tombstones and their eviction
\* order agree, whatever the number of ids, calls and tombstones
\* (reservePending, abandonPending, resolve and fail in peer.go).
THEOREM IDsNeverShared == Spec => []IDsExclusive
<1>1. IDsInv => IDsExclusive
  BY DEF IDsInv
<1>2. QED
  BY <1>1, Invariance, PTL

\* A call is told at most once, so neither resolve nor fail ever blocks on a
\* response channel of capacity one.
THEOREM CallsAreToldOnce == Spec => []ToldOnce
<1>1. ToldInv => ToldOnce
  BY DEF ToldInv
<1>2. QED
  BY <1>1, Invariance, PTL

\* Call returns the response to its own request, unless the remote invents
\* responses, or a tombstone was evicted and the ids wrapped round.
THEOREM ResponsesReachTheirCall == Spec => []Correlated
<1>1. OriginInv => Correlated
  BY DEF OriginInv
<1>2. QED
  BY <1>1, Invariance, PTL

\* A late response is absorbed by its tombstone: an open Peer whose remote
\* only answers, and that has evicted none, never meets an unexpected one.
THEOREM LateResponsesAreAbsorbed == Spec => []LateResponseAbsorbed
<1>1. OriginInv => LateResponseAbsorbed
  BY DEF OriginInv
<1>2. QED
  BY <1>1, Invariance, PTL
=============================================================================
