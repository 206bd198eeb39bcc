--------------------------- MODULE SessionsProofs ---------------------------
(***************************************************************************)
(* The registry of a Manager stays exact, no process is orphaned, and      *)
(* nobody attaches to a session that is leaving, for every number of       *)
(* sessions and attachments and every limit.                               *)
(***************************************************************************)
EXTENDS Sessions, TLAPS

\* Most steps are set theory, which Zenon does; a step with arithmetic cites SMT.
USE Zenon

(***************************************************************************)
(* Removing one position keeps the others in order: the effect of Go's     *)
(* append(s[:i], s[i+1:]...) on retainedExited.                            *)
(***************************************************************************)
LEMMA RemoveIndexFacts ==
  ASSUME NEW S, NEW s \in Seq(S), NEW i \in 1..Len(s)
  PROVE  /\ RemoveIndex(s, i) \in Seq(S)
         /\ Len(RemoveIndex(s, i)) = Len(s) - 1
         /\ \A j \in 1..(Len(s) - 1) :
              RemoveIndex(s, i)[j] = IF j < i THEN s[j] ELSE s[j + 1]
<1> DEFINE a == SubSeq(s, 1, i - 1)
           b == SubSeq(s, i + 1, Len(s))
<1>1. \A j \in 1..Len(s) : s[j] \in S
  BY SMT
<1>2. /\ a \in Seq(S) /\ Len(a) = i - 1
      /\ \A j \in 1..(i - 1) : a[j] = s[j]
  BY SMT, <1>1
<1>3. /\ b \in Seq(S) /\ Len(b) = Len(s) - i
      /\ \A j \in 1..(Len(s) - i) : b[j] = s[i + j]
  BY SMT, <1>1
<1>4. RemoveIndex(s, i) = a \o b
  BY DEF RemoveIndex
<1> HIDE DEF a, b
<1>5. a \in Seq(S) /\ b \in Seq(S)
  BY <1>2, <1>3
<1>6. /\ a \o b \in Seq(S)
      /\ Len(a \o b) = Len(a) + Len(b)
      /\ \A j \in 1..(Len(a) + Len(b)) :
           (a \o b)[j] = IF j <= Len(a) THEN a[j] ELSE b[j - Len(a)]
  BY SMT, <1>5
<1>7. /\ a \o b \in Seq(S)
      /\ Len(a \o b) = Len(s) - 1
  BY SMT, <1>2, <1>3, <1>6
<1>8. ASSUME NEW j \in 1..(Len(s) - 1)
      PROVE  (a \o b)[j] = IF j < i THEN s[j] ELSE s[j + 1]
  <2>1. (a \o b)[j] = IF j <= Len(a) THEN a[j] ELSE b[j - Len(a)]
    BY SMT, <1>2, <1>3, <1>6
  <2>2. QED
    BY SMT, <1>2, <1>3, <2>1
<1>9. QED
  BY <1>4, <1>7, <1>8

\* Sequences with the same elements are equal.
LEMMA SameSequence ==
  ASSUME NEW S, NEW x \in Seq(S), NEW y \in Seq(S), Len(x) = Len(y),
         \A i \in 1..Len(x) : x[i] = y[i]
  PROVE  x = y
<1>1. /\ DOMAIN x = 1..Len(x) /\ x = [i \in DOMAIN x |-> x[i]]
      /\ DOMAIN y = 1..Len(x) /\ y = [i \in DOMAIN y |-> y[i]]
  BY SMT
<1>2. QED
  BY <1>1

\* Pages that follow each other make one longer prefix.
LEMMA NextPage ==
  ASSUME NEW S, NEW q \in Seq(S), NEW p \in Nat, NEW end \in p..Len(q)
  PROVE  SubSeq(SubSeq(q, 1, p), 1, p) \o SubSeq(q, p + 1, end) = SubSeq(q, 1, end)
<1>1. Len(q) \in Nat /\ end \in Nat /\ p <= end /\ end <= Len(q)
  BY SMT
<1> DEFINE a == SubSeq(SubSeq(q, 1, p), 1, p)  b == SubSeq(q, p + 1, end)  c == SubSeq(q, 1, end)
<1>2. a \in Seq(S) /\ Len(a) = p /\ \A i \in 1..p : a[i] = q[i]
  <2> DEFINE d == SubSeq(q, 1, p)
  <2>1. d \in Seq(S) /\ Len(d) = p /\ \A i \in 1..p : d[i] = q[i]
    BY SMT, <1>1
  <2> HIDE DEF d
  <2>2. SubSeq(d, 1, p) \in Seq(S) /\ Len(SubSeq(d, 1, p)) = p /\ \A i \in 1..p : SubSeq(d, 1, p)[i] = d[i]
    BY SMT, <2>1
  <2>3. QED
    BY <2>1, <2>2 DEF d
<1>3. b \in Seq(S) /\ Len(b) = end - p /\ \A i \in 1..(end - p) : b[i] = q[p + i]
  BY SMT, <1>1
<1>4. c \in Seq(S) /\ Len(c) = end /\ \A i \in 1..end : c[i] = q[i]
  BY SMT, <1>1
<1> HIDE DEF a, b, c
<1>5. a \o b \in Seq(S) /\ Len(a \o b) = end
  BY SMT, <1>1, <1>2, <1>3
<1>6. ASSUME NEW i \in 1..end PROVE (a \o b)[i] = c[i]
  <2>1. CASE i <= p
    <3>1. (a \o b)[i] = a[i] /\ i \in 1..p
      BY SMT, <1>1, <1>2, <1>3, <2>1
    <3>2. a[i] = q[i] /\ c[i] = q[i]
      BY <1>2, <1>4, <3>1
    <3>3. QED
      BY <3>1, <3>2
  <2>2. CASE i > p
    <3>1. (a \o b)[i] = b[i - p] /\ i - p \in 1..(end - p)
      BY SMTT(30), <1>1, <1>2, <1>3, <2>2
    <3>2. b[i - p] = q[p + (i - p)]
      BY <1>3, <3>1
    <3>3. p + (i - p) = i
      BY SMT, <1>1
    <3>4. QED
      BY <1>4, <3>1, <3>2, <3>3
  <2>3. i <= p \/ i > p
    BY SMT, <1>1
  <2>4. QED
    BY <2>1, <2>2, <2>3
<1>7. a \o b = c
  <2>1. PICK x \in Seq(S) : x = a \o b
    BY <1>5
  <2>2. Len(x) = end /\ Len(c) = end /\ \A i \in 1..end : x[i] = c[i]
    BY <1>4, <1>5, <1>6, <2>1
  <2>3. x = c
    BY <1>4, <2>2, SameSequence
  <2>4. QED
    BY <2>1, <2>3
<1>8. QED
  BY <1>7 DEF a, b, c

(***************************************************************************)
(* Only the empty sequence has length zero.                                *)
(***************************************************************************)
LEMMA EmptyLen ==
  ASSUME NEW S
  PROVE  \A s \in Seq(S) : s = <<>> <=> Len(s) = 0
  BY SMT

(***************************************************************************)
(* Taking the head, as Go's queue = queue[1:] does.                        *)
(***************************************************************************)
LEMMA TailFacts ==
  ASSUME NEW S, NEW s \in Seq(S), s # <<>>
  PROVE  /\ Len(s) \in Nat \ {0} /\ Head(s) = s[1] /\ s[1] \in S
         /\ Tail(s) \in Seq(S)
         /\ Len(Tail(s)) = Len(s) - 1
         /\ \A i \in 1..Len(Tail(s)) : i + 1 \in 1..Len(s) /\ Tail(s)[i] = s[i + 1]
         /\ Tail(s) = <<>> <=> Len(s) = 1
<1>1. /\ Len(s) \in Nat \ {0} /\ Head(s) = s[1] /\ s[1] \in S
      /\ Tail(s) \in Seq(S)
      /\ Len(Tail(s)) = Len(s) - 1
      /\ \A i \in 1..Len(Tail(s)) : i + 1 \in 1..Len(s) /\ Tail(s)[i] = s[i + 1]
  BY SMT
<1>2. Tail(s) = <<>> <=> Len(Tail(s)) = 0
  BY <1>1, EmptyLen
<1>3. QED
  BY SMT, <1>1, <1>2

(***************************************************************************)
(* Appending keeps a sequence free of duplicates when the element is new,  *)
(* and adds exactly that element to its range.                             *)
(***************************************************************************)
LEMMA AppendNew ==
  ASSUME NEW S, NEW s \in Seq(S), NEW e \in S,
         \A i, j \in 1..Len(s) : s[i] = s[j] => i = j,
         \A i \in 1..Len(s) : s[i] # e
  PROVE  /\ Append(s, e) \in Seq(S)
         /\ Len(Append(s, e)) = Len(s) + 1
         /\ \A i, j \in 1..Len(Append(s, e)) : Append(s, e)[i] = Append(s, e)[j] => i = j
         /\ {Append(s, e)[i] : i \in 1..Len(Append(s, e))} = {s[i] : i \in 1..Len(s)} \cup {e}
  BY SMT

(***************************************************************************)
(* Removing a position of a duplicate-free sequence leaves it duplicate-   *)
(* free and takes exactly that element out of its range.                   *)
(***************************************************************************)
LEMMA RemoveIndexUnique ==
  ASSUME NEW S, NEW s \in Seq(S), NEW p \in 1..Len(s),
         \A i, j \in 1..Len(s) : s[i] = s[j] => i = j
  PROVE  LET r == RemoveIndex(s, p)
         IN /\ r \in Seq(S)
            /\ Len(r) = Len(s) - 1
            /\ \A i, j \in 1..Len(r) : r[i] = r[j] => i = j
            /\ {r[i] : i \in 1..Len(r)} = {s[i] : i \in 1..Len(s)} \ {s[p]}
<1> DEFINE r == RemoveIndex(s, p)
<1>1. /\ r \in Seq(S)
      /\ Len(r) = Len(s) - 1
      /\ \A j \in 1..(Len(s) - 1) : r[j] = IF j < p THEN s[j] ELSE s[j + 1]
  BY RemoveIndexFacts
<1> HIDE DEF r
<1>2. ASSUME NEW i \in 1..Len(r), NEW j \in 1..Len(r), r[i] = r[j]
      PROVE  i = j
  <2> DEFINE f(k) == IF k < p THEN k ELSE k + 1
  <2>1. f(i) \in 1..Len(s) /\ f(j) \in 1..Len(s)
    BY SMT, <1>1
  <2>2. r[i] = s[f(i)] /\ r[j] = s[f(j)]
    BY <1>1
  <2>3. f(i) = f(j)
    BY <1>2, <2>1, <2>2
  <2>4. QED
    BY SMT, <2>3
<1>3. ASSUME NEW i \in 1..Len(r)
      PROVE  r[i] \in {s[j] : j \in 1..Len(s)} \ {s[p]}
  BY SMT, <1>1
<1>4. ASSUME NEW i \in 1..Len(s), i # p
      PROVE  s[i] \in {r[j] : j \in 1..Len(r)}
  <2>1. CASE i < p
    BY SMT, <1>1, <1>4, <2>1
  <2>2. CASE i > p
    <3>1. i - 1 \in 1..Len(r) /\ r[i - 1] = s[i]
      BY SMT, <1>1, <2>2
    <3>2. QED
      BY <3>1
  <2>3. QED
    BY SMT, <1>4, <2>1, <2>2
<1>5. {r[i] : i \in 1..Len(r)} = {s[i] : i \in 1..Len(s)} \ {s[p]}
  <2>1. {r[i] : i \in 1..Len(r)} \subseteq {s[i] : i \in 1..Len(s)} \ {s[p]}
    BY SMT, <1>3
  <2>2. {s[i] : i \in 1..Len(s)} \ {s[p]} \subseteq {r[i] : i \in 1..Len(r)}
    BY SMT, <1>4
  <2>3. QED
    BY <2>1, <2>2
<1>6. QED
  BY <1>1, <1>2, <1>5 DEF r

(***************************************************************************)
(* Dropping the head of a duplicate-free sequence takes exactly that       *)
(* element out of its range.                                               *)
(***************************************************************************)
LEMMA TailUnique ==
  ASSUME NEW S, NEW s \in Seq(S), s # <<>>,
         \A i, j \in 1..Len(s) : s[i] = s[j] => i = j
  PROVE  /\ Tail(s) \in Seq(S)
         /\ \A i, j \in 1..Len(Tail(s)) : Tail(s)[i] = Tail(s)[j] => i = j
         /\ {Tail(s)[i] : i \in 1..Len(Tail(s))} = {s[i] : i \in 1..Len(s)} \ {Head(s)}
<1> DEFINE t == Tail(s)
<1>1. /\ Len(s) \in Nat \ {0} /\ Head(s) = s[1]
      /\ t \in Seq(S) /\ Len(t) = Len(s) - 1
      /\ \A i \in 1..Len(t) : i + 1 \in 1..Len(s) /\ t[i] = s[i + 1]
  BY TailFacts
<1> HIDE DEF t
<1>2. \A i, j \in 1..Len(t) : t[i] = t[j] => i = j
  BY SMT, <1>1
<1>3. ASSUME NEW i \in 1..Len(t)
      PROVE  t[i] \in {s[j] : j \in 1..Len(s)} \ {s[1]}
  BY SMT, <1>1
<1>4. ASSUME NEW i \in 1..Len(s), i # 1
      PROVE  s[i] \in {t[j] : j \in 1..Len(t)}
  <2>1. i - 1 \in 1..Len(t) /\ t[i - 1] = s[i]
    BY SMT, <1>1, <1>4
  <2>2. QED
    BY <2>1
<1>5. {t[i] : i \in 1..Len(t)} = {s[i] : i \in 1..Len(s)} \ {s[1]}
  <2>1. {t[i] : i \in 1..Len(t)} \subseteq {s[i] : i \in 1..Len(s)} \ {s[1]}
    BY <1>3
  <2>2. {s[i] : i \in 1..Len(s)} \ {s[1]} \subseteq {t[i] : i \in 1..Len(t)}
    BY <1>4
  <2>3. QED
    BY <2>1, <2>2
<1>6. QED
  BY <1>1, <1>2, <1>5 DEF t

TypeOK ==
  /\ bound \in Bounds /\ nextSession \in 0..(bound.ids - 1) /\ sessionIDExhausted \in BOOLEAN
  /\ starting \in Int /\ activeSessions \in Int /\ generation \in Nat
  /\ sessions \subseteq Session /\ retainedExited \in Seq(Session)
  /\ open \in [Session -> {"none", "starting", "started", "reaping", "returned"}]
  /\ process \in [Session -> {"none", "alive", "killed", "dead"}]
  /\ state \in [Session -> {"none", "running", "stopping", "exited"}]
  /\ run \in [Session -> {"none", "pump", "drain", "evict", "done"}]
  /\ retained \in [Session -> BOOLEAN] /\ removing \in [Session -> BOOLEAN]
  /\ removal \in [Session -> {"none", "Removed", "Evicted"}]
  /\ evictedBy \in [Session -> Session \cup {0}]
  /\ at \in [Attachment -> Session \cup {0}]
  /\ attached \subseteq Attachment /\ workers \subseteq Attachment
  /\ awaited \in [Session -> SUBSET Attachment]
  /\ closing \in BOOLEAN /\ closer \in {"open", "starts", "terminate", "timer", "join", "closed"}
  /\ owned \subseteq Session

\* One session from its Open to the end of its goroutine: a process that lives
\* is with the Open that started it or with run; run is registered until it has
\* drained; only then can the session be retained or be removed again.
Lifecycle(s) ==
  /\ open[s] \in {"none", "starting"} => process[s] = "none"
  /\ open[s] # "returned" => run[s] = "none"
  /\ open[s] = "returned" /\ run[s] = "none" => process[s] \in {"none", "dead"}
  /\ run[s] = "none" <=> state[s] = "none"
  /\ run[s] = "pump" <=> state[s] \in {"running", "stopping"}
  /\ run[s] \in {"drain", "evict", "done"} => process[s] = "dead"
  /\ run[s] \in {"pump", "drain"} => s \in sessions
  /\ retained[s] \/ removing[s] => run[s] \in {"evict", "done"}
  /\ retained[s] => s \in sessions /\ ~removing[s]

Starting == {s \in Session : open[s] \in {"starting", "started"}}

Active == {s \in Session : state[s] \in {"running", "stopping"}}

\* The counters count; an id that has not been reserved is not in use.
Counted ==
  /\ starting = Cardinality(Starting) /\ activeSessions = Cardinality(Active)
  /\ activeSessions + starting <= MaxSessions
  /\ ~sessionIDExhausted => \A s \in Session : s > nextSession => open[s] = "none"

Entries(order) == {order[k] : k \in 1..Len(order)}

Distinct(order) == \A j, k \in 1..Len(order) : order[j] = order[k] => j = k

Retained == {s \in Session : retained[s]}

\* retainedExited lists the retained sessions.
Listed ==
  /\ Distinct(retainedExited)
  /\ Entries(retainedExited) = Retained
  /\ Len(retainedExited) <= MaxRetainedSessions

\* Close: once it has begun nothing is opened, registered or attached.
Shutdown ==
  /\ closer = "open" <=> ~closing
  /\ closing => sessions \subseteq owned
  /\ closer \in {"terminate", "timer", "join", "closed"} =>
       \A s \in Session : open[s] \in {"none", "returned"}
  /\ closer = "closed" => sessions = {} /\ workers = {}

\* The attachments: one with an entry or a worker belongs to a session.
Sinks ==
  /\ IsFiniteSet(attached)
  /\ \A a \in attached \cup workers : at[a] # 0
  /\ AttachmentsExact

\* The inductive invariant.
IInv ==
  /\ TypeOK
  /\ \A s \in Session : Lifecycle(s)
  /\ Counted /\ Listed /\ Shutdown /\ Sinks

-----------------------------------------------------------------------------
(* Facts about the operators *)

\* Open counts its ids modulo their number: the next one, or 0 after the last.
LEMMA NextID ==
  ASSUME NEW m \in Nat \ {0, 1}, NEW n \in 0..(m - 1)
  PROVE  (n + 1) % m = IF n + 1 < m THEN n + 1 ELSE 0
  BY SMT

\* The limits of ManagerOptions are numbers.
LEMMA Limits ==
  /\ MaxSessions \in Nat \ {0} /\ MaxAttachmentsPerSession \in Nat \ {0}
  /\ MaxRetainedSessions \in Nat
  BY SessionsAssumption

LEMMA BoundFacts == bound \in Bounds => bound.ids \in Nat \ {0, 1} /\ bound.ids <= IDs /\ IDs \in Nat \ {0, 1}
  BY SMT, SessionsAssumption

\* removeRetainedLocked takes a session from the order, if it is there.
LEMMA WithoutFacts ==
  ASSUME NEW order \in Seq(Session), NEW s,
         \A j, k \in 1..Len(order) : order[j] = order[k] => j = k
  PROVE  LET r == Without(order, s)
         IN /\ r \in Seq(Session) /\ Len(r) <= Len(order)
            /\ \A j, k \in 1..Len(r) : r[j] = r[k] => j = k
            /\ {r[k] : k \in 1..Len(r)} = {order[k] : k \in 1..Len(order)} \ {s}
<1> DEFINE r == Without(order, s)
<1>1. CASE \E k \in 1..Len(order) : order[k] = s
  <2> DEFINE First(k) == order[k] = s /\ \A j \in 1..(k - 1) : order[j] # s
  <2>1. PICK k \in 1..Len(order) : order[k] = s
    BY <1>1
  <2>2. First(k)
    BY SMT, <2>1
  <2> DEFINE p == CHOOSE i \in 1..Len(order) : First(i)
  <2>3. p \in 1..Len(order) /\ order[p] = s
    BY <2>2
  <2>4. r = RemoveIndex(order, p)
    BY <1>1 DEF Without
  <2> HIDE DEF p, r
  <2>5. LET t == RemoveIndex(order, p)
        IN /\ t \in Seq(Session) /\ Len(t) = Len(order) - 1
           /\ \A i, j \in 1..Len(t) : t[i] = t[j] => i = j
           /\ {t[i] : i \in 1..Len(t)} = {order[i] : i \in 1..Len(order)} \ {order[p]}
    BY <2>3, RemoveIndexUnique
  <2>6. Len(r) <= Len(order)
    BY SMT, <2>4, <2>5
  <2>7. r \in Seq(Session) /\ \A i, j \in 1..Len(r) : r[i] = r[j] => i = j
    BY <2>4, <2>5
  <2>8. {r[i] : i \in 1..Len(r)} = {order[i] : i \in 1..Len(order)} \ {order[p]}
    BY ZenonT(30), <2>4, <2>5
  <2>9. QED
    BY <2>3, <2>6, <2>7, <2>8 DEF r
<1>2. CASE ~\E k \in 1..Len(order) : order[k] = s
  <2>1. r = order
    BY <1>2 DEF Without
  <2>2. {order[k] : k \in 1..Len(order)} \ {s} = {order[k] : k \in 1..Len(order)}
    BY <1>2
  <2>3. Len(order) <= Len(order)
    BY SMT
  <2>4. QED
    BY <2>1, <2>2, <2>3
<1>3. QED
  BY <1>1, <1>2

\* The same, in terms of the order.
LEMMA WithoutOrder ==
  ASSUME NEW order \in Seq(Session), NEW s, Distinct(order)
  PROVE  /\ Without(order, s) \in Seq(Session) /\ Len(Without(order, s)) <= Len(order)
         /\ Distinct(Without(order, s)) /\ Entries(Without(order, s)) = Entries(order) \ {s}
  BY WithoutFacts DEF Distinct, Entries

LEMMA AppendOrder ==
  ASSUME NEW order \in Seq(Session), NEW s \in Session, Distinct(order), s \notin Entries(order)
  PROVE  /\ Append(order, s) \in Seq(Session) /\ Len(Append(order, s)) = Len(order) + 1
         /\ Distinct(Append(order, s)) /\ Entries(Append(order, s)) = Entries(order) \cup {s}
  BY SMT, AppendNew DEF Distinct, Entries

LEMMA TailOrder ==
  ASSUME NEW order \in Seq(Session), order # <<>>, Distinct(order)
  PROVE  /\ Tail(order) \in Seq(Session) /\ Len(Tail(order)) = Len(order) - 1
         /\ Distinct(Tail(order)) /\ Entries(Tail(order)) = Entries(order) \ {Head(order)}
         /\ Head(order) \in Session /\ Head(order) \in Entries(order)
<1>1. Tail(order) \in Seq(Session) /\ Len(Tail(order)) = Len(order) - 1
  BY TailFacts
<1>2. Distinct(Tail(order)) /\ Entries(Tail(order)) = Entries(order) \ {Head(order)}
  BY TailUnique DEF Distinct, Entries
<1>3. Len(order) \in Nat \ {0} /\ Head(order) = order[1] /\ order[1] \in Session
  BY TailFacts
<1>4. 1 \in 1..Len(order)
  BY SMT, <1>3
<1>5. QED
  BY <1>1, <1>2, <1>3, <1>4 DEF Entries

\* removeSessionLocked of a session that is not retained leaves the order alone.
LEMMA Unregistered ==
  ASSUME TypeOK, Listed, NEW s \in Session, ~retained[s], Unregister(s)
  PROVE  /\ sessions' = sessions \ {s} /\ generation' = generation + 1
         /\ retainedExited' \in Seq(Session) /\ retained' = retained
         /\ removing' = [removing EXCEPT ![s] = FALSE]
         /\ Listed'
<1>1. /\ sessions' = sessions \ {s} /\ generation' = generation + 1
      /\ retainedExited' = Without(retainedExited, s)
      /\ retained' = [retained EXCEPT ![s] = FALSE] /\ removing' = [removing EXCEPT ![s] = FALSE]
  BY DEF Unregister
<1>2. retained' = retained
  BY <1>1 DEF TypeOK
<1>3. retainedExited \in Seq(Session) /\ Len(retainedExited) \in Nat /\ Distinct(retainedExited)
  BY SMT DEF TypeOK, Listed
<1>4. /\ retainedExited' \in Seq(Session) /\ Len(retainedExited') <= Len(retainedExited)
      /\ Distinct(retainedExited') /\ Entries(retainedExited') = Entries(retainedExited) \ {s}
  BY <1>1, <1>3, WithoutOrder
<1>5. Retained \ {s} = Retained
  BY DEF Retained
<1>6. Len(retainedExited') \in Nat /\ Len(retainedExited') <= MaxRetainedSessions
  BY SMT, <1>3, <1>4, Limits DEF Listed
<1>7. Listed'
  <2>1. Retained' = Retained
    BY <1>2 DEF Retained
  <2>2. Entries(retainedExited') = Retained
    BY <1>4, <1>5 DEF Listed
  <2>3. QED
    BY <1>4, <1>6, <2>1, <2>2 DEF Listed
<1>8. QED
  BY <1>1, <1>2, <1>4, <1>7

\* retainExitedLocked: the session joins the retained ones, and V, the oldest
\* of them if there are too many, begins to go.
LEMMA Retention ==
  ASSUME TypeOK, Listed, NEW s \in Session, ~retained[s], ~removing[s], Retain, RetainExited(s),
         \A x \in Session : retained[x] => ~removing[x]
  PROVE  \E V \in SUBSET Session :
           /\ s \notin V /\ \A x \in V : retained[x]
           /\ retainedExited' \in Seq(Session)
           /\ retained' = [x \in Session |-> (retained[x] \/ x = s) /\ x \notin V]
           /\ removing' = [x \in Session |-> removing[x] \/ x \in V]
           /\ removal' \in [Session -> {"none", "Removed", "Evicted"}]
           /\ evictedBy' \in [Session -> Session \cup {0}]
           /\ awaited' \in [Session -> SUBSET Attachment]
           /\ \A x \in Session \ V : awaited'[x] = awaited[x]
           /\ ClearAttachments({s} \cup V)
           /\ sessions' = sessions /\ generation' = generation + 1
           /\ Listed'
<1> DEFINE order == Append(retainedExited, s)
           full == Len(order) > MaxRetainedSessions
           victim == Head(order)
           V == IF full THEN {victim} ELSE {}
<1>1. /\ retainedExited \in Seq(Session) /\ Len(retainedExited) \in Nat /\ Distinct(retainedExited)
      /\ Entries(retainedExited) = Retained /\ Len(retainedExited) <= MaxRetainedSessions
  BY SMT DEF TypeOK, Listed
<1>2. MaxRetainedSessions \in Nat /\ MaxRetainedSessions > 0
  BY SessionsAssumption
<1>3. /\ retained' = [retained EXCEPT ![s] = TRUE, ![victim] = ~full]
      /\ retainedExited' = IF full THEN Tail(order) ELSE order
      /\ removing' = [removing EXCEPT ![victim] = full]
      /\ removal' = [removal EXCEPT ![victim] = IF full THEN "Evicted" ELSE @]
      /\ evictedBy' = [evictedBy EXCEPT ![victim] = IF full THEN s ELSE @]
      /\ awaited' = [awaited EXCEPT ![victim] = IF full THEN Attachments(victim) \cap workers ELSE @]
      /\ ClearAttachments(IF full THEN {s, victim} ELSE {s})
      /\ generation' = generation + 1 /\ sessions' = sessions
  BY DEF RetainExited
<1>4. s \notin Entries(retainedExited)
  BY <1>1 DEF Retained
<1>5. /\ order \in Seq(Session) /\ Len(order) = Len(retainedExited) + 1
      /\ Distinct(order) /\ Entries(order) = Retained \cup {s}
  BY <1>1, <1>4, AppendOrder
<1>6. order # <<>>
  BY SMT, <1>1, <1>5
<1>7. /\ Tail(order) \in Seq(Session) /\ Len(Tail(order)) = Len(order) - 1
      /\ Distinct(Tail(order)) /\ Entries(Tail(order)) = (Retained \cup {s}) \ {victim}
      /\ victim \in Session /\ victim \in Retained \cup {s}
  BY <1>5, <1>6, TailOrder
<1>8. full => victim # s
  <2>1. SUFFICES ASSUME full PROVE victim # s
    OBVIOUS
  <2>2. 1 \in 1..Len(retainedExited)
    BY SMT, <1>1, <1>2, <1>5, <2>1
  <2>3. victim = retainedExited[1]
    BY SMT, <1>1, <1>6, <2>2
  <2>4. victim \in Entries(retainedExited)
    BY <2>2, <2>3 DEF Entries
  <2>5. QED
    BY <1>4, <2>4
<1>9. full \in BOOLEAN
  BY SMT
<1>v. PICK v : v = victim
  OBVIOUS
<1>f. PICK f \in BOOLEAN : f = full
  BY <1>9
<1>10. v = victim /\ f = full /\ f \in BOOLEAN
  BY <1>v, <1>f
<1>11. /\ v \in Session /\ v \in Retained \cup {s} /\ (f => v # s /\ v \in Retained)
       /\ V = IF f THEN {v} ELSE {}
  BY <1>7, <1>8, <1>10
<1> DEFINE W == IF f THEN {v} ELSE {}
<1>12. /\ retained' = [retained EXCEPT ![s] = TRUE, ![v] = ~f]
       /\ removing' = [removing EXCEPT ![v] = f]
       /\ removal' = [removal EXCEPT ![v] = IF f THEN "Evicted" ELSE @]
       /\ evictedBy' = [evictedBy EXCEPT ![v] = IF f THEN s ELSE @]
       /\ awaited' = [awaited EXCEPT ![v] = IF f THEN Attachments(v) \cap workers ELSE @]
       /\ ClearAttachments(IF f THEN {s, v} ELSE {s})
  BY <1>3, <1>10
<1>13. s \notin W /\ W \in SUBSET Session /\ \A x \in W : retained[x]
  BY <1>11 DEF Retained
<1>14. retained' = [x \in Session |-> (retained[x] \/ x = s) /\ x \notin W]
  <2>1. CASE f = TRUE
    BY <1>11, <1>12, <2>1 DEF TypeOK
  <2>2. CASE f = FALSE
    <3>1. retained' = [retained EXCEPT ![s] = TRUE, ![v] = TRUE]
      BY <1>12, <2>2
    <3>2. v = s \/ retained[v]
      BY <1>11 DEF Retained
    <3>3. QED
      BY <1>11, <2>2, <3>1, <3>2 DEF TypeOK
  <2>3. QED
    BY <1>10, <2>1, <2>2
<1>15. removing' = [x \in Session |-> removing[x] \/ x \in W]
  <2>1. removing[v] = FALSE
    <3>1. ~removing[v]
      BY <1>11 DEF Retained
    <3>2. QED
      BY <1>11, <3>1 DEF TypeOK
  <2>2. CASE f = TRUE
    BY <1>11, <1>12, <2>2 DEF TypeOK
  <2>3. CASE f = FALSE
    BY <1>11, <1>12, <2>1, <2>3 DEF TypeOK
  <2>4. QED
    BY <1>10, <2>2, <2>3
<1>16. /\ removal' \in [Session -> {"none", "Removed", "Evicted"}]
       /\ evictedBy' \in [Session -> Session \cup {0}]
       /\ awaited' \in [Session -> SUBSET Attachment]
  <2>1. Attachments(v) \cap workers \subseteq Attachment
    BY DEF Attachments, TypeOK
  <2>2. QED
    BY <1>11, <1>12, <2>1 DEF TypeOK
<1>17. \A x \in Session \ W : awaited'[x] = awaited[x]
  BY <1>11, <1>12 DEF TypeOK
<1>18. ClearAttachments({s} \cup W)
  <2>1. {s} \cup W = IF f THEN {s, v} ELSE {s}
    OBVIOUS
  <2>2. QED
    BY <1>12, <2>1
<1>19. Retained' = (Retained \cup {s}) \ W
  BY <1>14 DEF Retained
<1>20. retainedExited' \in Seq(Session) /\ Listed'
  <2>1. CASE full
    <3>1. retainedExited' = Tail(order)
      BY <1>3, <2>1
    <3>2. Len(Tail(order)) = Len(retainedExited)
      BY SMT, <1>1, <1>5, <1>7
    <3>3. W = {victim}
      BY <1>10, <2>1
    <3>4. QED
      BY <1>1, <1>7, <1>19, <3>1, <3>2, <3>3 DEF Listed
  <2>2. CASE ~full
    <3>1. Len(order) <= MaxRetainedSessions
      BY SMT, <1>1, <1>2, <1>5, <2>2
    <3>2. retainedExited' = order
      BY <1>3, <2>2
    <3>3. W = {}
      BY <1>10, <2>2
    <3>4. Retained' = Retained \cup {s}
      BY <1>19, <3>3
    <3>5. QED
      BY <1>5, <3>1, <3>2, <3>4 DEF Listed
  <2>3. QED
    BY <2>1, <2>2
<1>21. sessions' = sessions /\ generation' = generation + 1
  BY <1>3
<1> HIDE DEF W
<1>22. QED
  BY <1>13, <1>14, <1>15, <1>16, <1>17, <1>18, <1>20, <1>21

\* Clearing the attachments of some sessions takes entries away and nothing else.
LEMMA Cleared ==
  ASSUME TypeOK, NEW ss, ClearAttachments(ss)
  PROVE  /\ at' \in [Attachment -> Session \cup {0}]
         /\ attached' \subseteq Attachment /\ workers' \subseteq Attachment
  BY DEF ClearAttachments, TypeOK

\* What the end of a drain does: s is retained (R) and V evicted, or s is removed.
Ends(s, V, R) ==
  /\ V \in SUBSET Session /\ R \in BOOLEAN
  /\ s \notin V /\ \A x \in V : retained[x]
  /\ retainedExited' \in Seq(Session)
  /\ retained' = [x \in Session |-> (retained[x] \/ (R /\ x = s)) /\ x \notin V]
  /\ removing' = [x \in Session |-> removing[x] \/ x \in V]
  /\ removal' \in [Session -> {"none", "Removed", "Evicted"}]
  /\ evictedBy' \in [Session -> Session \cup {0}]
  /\ awaited' \in [Session -> SUBSET Attachment]
  /\ \A x \in Session \ V : awaited'[x] = awaited[x]
  /\ ClearAttachments({s} \cup V)
  /\ sessions' = IF R THEN sessions ELSE sessions \ {s}
  /\ generation' = generation + 1
  /\ Listed'

LEMMA Drained ==
  ASSUME IInv, NEW s \in Session, RunDrained(s)
  PROVE  \E V, R : Ends(s, V, R)
<1> USE DEF IInv
<1>1. ~retained[s] /\ ~removing[s] /\ \A x \in Session : retained[x] => ~removing[x]
  BY DEF RunDrained, Lifecycle
<1>2. CASE ~closing /\ Retain
  <2>1. RetainExited(s)
    BY <1>2 DEF RunDrained
  <2>2. PICK V \in SUBSET Session :
          /\ s \notin V /\ \A x \in V : retained[x]
          /\ retainedExited' \in Seq(Session)
          /\ retained' = [x \in Session |-> (retained[x] \/ x = s) /\ x \notin V]
          /\ removing' = [x \in Session |-> removing[x] \/ x \in V]
          /\ removal' \in [Session -> {"none", "Removed", "Evicted"}]
          /\ evictedBy' \in [Session -> Session \cup {0}]
          /\ awaited' \in [Session -> SUBSET Attachment]
          /\ \A x \in Session \ V : awaited'[x] = awaited[x]
          /\ ClearAttachments({s} \cup V)
          /\ sessions' = sessions /\ generation' = generation + 1
          /\ Listed'
    BY <1>1, <1>2, <2>1, Retention
  <2>3. retained' = [x \in Session |-> (retained[x] \/ (TRUE /\ x = s)) /\ x \notin V]
    BY <2>2
  <2>4. Ends(s, V, TRUE)
    BY <2>2, <2>3 DEF Ends
  <2>5. QED
    BY <2>4
<1>3. CASE ~(~closing /\ Retain)
  <2>1. Unregister(s) /\ ClearAttachments({s}) /\ UNCHANGED <<removals, awaited>>
    BY <1>3 DEF RunDrained
  <2>2. /\ sessions' = sessions \ {s} /\ generation' = generation + 1
        /\ retainedExited' \in Seq(Session) /\ retained' = retained
        /\ removing' = [removing EXCEPT ![s] = FALSE]
        /\ Listed'
    BY <1>1, <2>1, Unregistered
  <2>3. retained' = [x \in Session |-> (retained[x] \/ (FALSE /\ x = s)) /\ x \notin {}]
    BY <2>2 DEF TypeOK
  <2>4. removing' = [x \in Session |-> removing[x] \/ x \in {}]
    BY <1>1, <2>2 DEF TypeOK
  <2>5. ClearAttachments({s} \cup {})
    <3>1. {s} \cup {} = {s}
      OBVIOUS
    <3>2. QED
      BY <2>1, <3>1
  <2>6. /\ removal' \in [Session -> {"none", "Removed", "Evicted"}]
        /\ evictedBy' \in [Session -> Session \cup {0}]
        /\ awaited' \in [Session -> SUBSET Attachment] /\ awaited' = awaited
    BY <2>1 DEF TypeOK, removals
  <2>7. Ends(s, {}, FALSE)
    BY <2>2, <2>3, <2>4, <2>5, <2>6 DEF Ends
  <2>8. QED
    BY <2>7
<1>4. QED
  BY <1>2, <1>3

-----------------------------------------------------------------------------
(* Counting *)

\* What the proofs need of finite sets.  CountingHolds, at the end, has it from
\* the library, whose theorems would burden every obligation in their scope.
Counting ==
  /\ \A i, j \in Int : IsFiniteSet(i..j)
  /\ IsFiniteSet({}) /\ Cardinality({}) = 0
  /\ \A S : IsFiniteSet(S) =>
       /\ Cardinality(S) \in Nat
       /\ \A T \in SUBSET S : IsFiniteSet(T) /\ Cardinality(T) <= Cardinality(S)
       /\ \A x : x \notin S => /\ IsFiniteSet(S \cup {x})
                             /\ Cardinality(S \cup {x}) = Cardinality(S) + 1
       /\ \A x \in S : Cardinality(S \ {x}) = Cardinality(S) - 1

LEMMA EmptySet == ASSUME Counting PROVE IsFiniteSet({}) /\ Cardinality({}) = 0
  BY DEF Counting

LEMMA Subset ==
  ASSUME Counting, NEW S, IsFiniteSet(S), NEW T \in SUBSET S
  PROVE  /\ IsFiniteSet(T) /\ Cardinality(T) <= Cardinality(S)
         /\ Cardinality(S) \in Nat /\ Cardinality(T) \in Nat
  BY DEF Counting

LEMMA AddElement ==
  ASSUME Counting, NEW S, IsFiniteSet(S), NEW x, x \notin S
  PROVE  /\ IsFiniteSet(S \cup {x}) /\ Cardinality(S \cup {x}) = Cardinality(S) + 1
         /\ Cardinality(S) \in Nat
  BY DEF Counting

LEMMA RemoveElement ==
  ASSUME Counting, NEW S, IsFiniteSet(S), NEW x \in S
  PROVE  Cardinality(S \ {x}) = Cardinality(S) - 1 /\ Cardinality(S) \in Nat
  BY DEF Counting
-----------------------------------------------------------------------------
(* What an action leaves alone stays true *)

\* The sets that are counted are subsets of Session.
LEMMA Finite ==
  ASSUME Counting, NEW S \in SUBSET Session
  PROVE  IsFiniteSet(S) /\ Cardinality(S) \in Nat
<1>1. IsFiniteSet(Session)
  BY SMT, SessionsAssumption DEF Counting, Session
<1>2. QED
  BY <1>1, Subset

LEMMA KeepsCounted ==
  ASSUME Counted, UNCHANGED <<starting, activeSessions, nextSession, sessionIDExhausted>>,
         \A x \in Session :
           /\ open'[x] \in {"starting", "started"} <=> open[x] \in {"starting", "started"}
           /\ state'[x] \in {"running", "stopping"} <=> state[x] \in {"running", "stopping"}
           /\ open[x] = "none" => open'[x] = "none"
  PROVE  Counted'
<1>1. Starting' = Starting /\ Active' = Active
  BY DEF Starting, Active
<1>2. QED
  BY <1>1 DEF Counted

LEMMA KeepsListed == ASSUME Listed, UNCHANGED <<retainedExited, retained>> PROVE Listed'
  BY DEF Listed, Retained

LEMMA KeepsShutdown ==
  ASSUME Shutdown, UNCHANGED close, sessions' \subseteq sessions, workers' \subseteq workers,
         \A x \in Session : open[x] \in {"none", "returned"} => open'[x] \in {"none", "returned"}
  PROVE  Shutdown'
  BY DEF Shutdown, close

LEMMA KeepsSinks ==
  ASSUME Sinks, UNCHANGED <<at, attached, workers>>,
         \A a \in attached \cap workers : at[a] \in sessions' /\ ~removing'[at[a]],
         \A x \in Session : run'[x] = "drain" => Attachments(x) \cap workers \subseteq awaited'[x]
  PROVE  Sinks'
<1>1. \A x \in Session : Attachments(x)' = Attachments(x)
  BY DEF Attachments
<1>2. \A x \in Session : Cardinality(Attachments(x))' <= MaxAttachmentsPerSession
  BY <1>1 DEF Sinks, AttachmentsExact
<1>3. QED
  BY <1>1, <1>2 DEF Sinks, AttachmentsExact

\* Clearing the attachments of ss.
LEMMA ClearsSinks ==
  ASSUME Counting, TypeOK, Sinks, NEW ss, ClearAttachments(ss),
         \A x \in sessions \ ss : x \in sessions',
         \A x \in Session \ ss : removing'[x] => removing[x],
         \A x \in Session : run'[x] = "drain" => run[x] = "drain" /\ awaited'[x] = awaited[x]
  PROVE  Sinks'
<1>1. /\ attached' = {a \in attached : at[a] \notin ss} /\ workers' = workers
      /\ at' = [a \in Attachment |-> IF a \in attached \ workers /\ at[a] \in ss THEN 0 ELSE at[a]]
  BY DEF ClearAttachments
<1>2. \A a \in attached' \cup workers : a \in Attachment /\ at'[a] = at[a]
  BY <1>1 DEF TypeOK
<1>3. IsFiniteSet(attached')
  BY <1>1, Subset DEF Sinks
<1>4. \A a \in (attached \cup workers)' : at'[a] # 0
  BY <1>1, <1>2 DEF Sinks
<1>5. \A a \in (attached \cap workers)' : at'[a] \in sessions' /\ ~removing'[at'[a]]
  <2>1. SUFFICES ASSUME NEW a \in attached' \cap workers PROVE at[a] \in sessions' /\ ~removing'[at[a]]
    BY <1>1, <1>2
  <2>2. at[a] \in sessions /\ ~removing[at[a]] /\ at[a] \notin ss
    BY <1>1 DEF Sinks, AttachmentsExact
  <2>3. at[a] \in Session
    BY <2>2 DEF TypeOK
  <2>4. QED
    BY <2>2, <2>3
<1>6. ASSUME NEW x \in Session
      PROVE  /\ Cardinality(Attachments(x)') <= MaxAttachmentsPerSession
             /\ run'[x] = "drain" => Attachments(x)' \cap workers' \subseteq awaited'[x]
  <2>1. Attachments(x)' \subseteq Attachments(x)
    BY <1>1, <1>2 DEF Attachments
  <2>2. IsFiniteSet(Attachments(x))
    BY Subset DEF Sinks, Attachments
  <2>3. Cardinality(Attachments(x)') <= Cardinality(Attachments(x))
    BY <2>1, <2>2, Subset
  <2>4. Cardinality(Attachments(x)) \in Nat /\ Cardinality(Attachments(x)') \in Nat
    BY <2>1, <2>2, Subset
  <2>5. Cardinality(Attachments(x)) <= MaxAttachmentsPerSession
    BY DEF Sinks, AttachmentsExact
  <2>6. Cardinality(Attachments(x)') <= MaxAttachmentsPerSession
    BY SMT, <2>3, <2>4, <2>5, Limits
  <2>7. run'[x] = "drain" => Attachments(x)' \cap workers' \subseteq awaited'[x]
    BY <1>1, <2>1 DEF Sinks, AttachmentsExact
  <2>8. QED
    BY <2>6, <2>7
<1>7. QED
  BY <1>3, <1>4, <1>5, <1>6 DEF Sinks, AttachmentsExact

-----------------------------------------------------------------------------
(* Open *)

\* Nothing but what a client has listed changes.
LEMMA ListStep == IInv /\ (List \/ ListNext \/ UNCHANGED vars) => IInv'
<1> SUFFICES ASSUME IInv, List \/ ListNext \/ UNCHANGED vars PROVE IInv'
  OBVIOUS
<1> USE DEF IInv
<1>1. UNCHANGED <<bound, nextSession, sessionIDExhausted, starting, registry, open, process, state,
                  run, removals, attachments, close>>
  BY DEF List, ListNext, Page, vars, ids
<1>2. UNCHANGED <<bound, nextSession, sessionIDExhausted, starting>> /\ UNCHANGED close
      /\ UNCHANGED <<activeSessions, generation, sessions, retainedExited, retained, removing>>
      /\ UNCHANGED <<open, process, state, run, removal, evictedBy>>
      /\ UNCHANGED <<at, attached, workers, awaited, closing, closer, owned>>
  BY <1>1 DEF registry, removals, attachments, close
<1>3. TypeOK'
  BY <1>2 DEF TypeOK
<1>4. \A s \in Session : Lifecycle(s)'
  BY <1>2 DEF Lifecycle
<1>5. Counted'
  BY <1>2, KeepsCounted
<1>6. Listed'
  BY <1>2, KeepsListed
<1>7. Shutdown'
  BY <1>2, KeepsShutdown
<1>8. Sinks'
  <2>1. Sinks
    OBVIOUS
  <2>2. QED
    BY <1>2, <2>1, KeepsSinks DEF Sinks, AttachmentsExact
<1>9. QED
  BY <1>3, <1>4, <1>5, <1>6, <1>7, <1>8

\* Open: one more session is starting, with an id nobody has, unless there is none.
LEMMA OpenStep == ASSUME Counting, IInv, Open PROVE IInv'
<1> USE DEF IInv
<1> DEFINE id == (nextSession + 1) % bound.ids
<1>1. /\ ~closing /\ activeSessions + starting < MaxSessions /\ ~sessionIDExhausted
      /\ nextSession' = id /\ sessionIDExhausted' = (id = 0)
      /\ starting' = IF id = 0 THEN starting ELSE starting + 1
      /\ open' = [s \in Session |-> IF s = id THEN "starting" ELSE open[s]]
      /\ UNCHANGED <<bound, activeSessions, generation, sessions, retainedExited, retained, removing>>
      /\ UNCHANGED <<process, state, run, removal, evictedBy, at, attached, workers, awaited>>
      /\ UNCHANGED close /\ UNCHANGED <<closing, closer, owned>>
  BY DEF Open, Reserve, registry, removals, attachments, close
<1>2. bound.ids \in Nat \ {0, 1} /\ bound.ids <= IDs /\ IDs \in Nat \ {0, 1}
  BY BoundFacts DEF TypeOK
<1>3. nextSession \in 0..(bound.ids - 1)
  BY DEF TypeOK
<1>4. id \in 0..(bound.ids - 1) /\ id \in Nat /\ (id # 0 => id = nextSession + 1 /\ id \in Session)
  BY SMT, <1>2, <1>3, NextID DEF Session
<1> HIDE DEF id
<1>5. id # 0 => open[id] = "none"
  BY SMT, <1>1, <1>3, <1>4 DEF Counted
<1>6. TypeOK'
  BY SMT, <1>1, <1>4 DEF TypeOK
<1>7. ASSUME NEW s \in Session PROVE Lifecycle(s)'
  <2>1. CASE s = id
    <3>1. open[s] = "none" /\ open'[s] = "starting"
      BY SMT, <1>1, <1>4, <1>5, <2>1 DEF Session
    <3>2. QED
      BY <1>1, <3>1 DEF Lifecycle
  <2>2. CASE s # id
    BY <1>1, <2>2 DEF Lifecycle
  <2>3. QED
    BY <2>1, <2>2
<1>8. Counted'
  <2>1. Active' = Active
    BY <1>1 DEF Active
  <2>2. ~sessionIDExhausted' => \A s \in Session : s > nextSession' => open'[s] = "none"
    <3>1. SUFFICES ASSUME id # 0, NEW s \in Session, s > id PROVE open'[s] = "none"
      BY <1>1
    <3>2. s > nextSession /\ s # id
      BY SMT, <1>3, <1>4, <3>1 DEF Session
    <3>3. QED
      BY <1>1, <3>2 DEF Counted
  <2>3. CASE id = 0
    <3>1. 0 \notin Session
      BY SMT DEF Session
    <3>2. Starting' = Starting /\ starting' = starting
      BY <1>1, <2>3, <3>1 DEF Starting
    <3>3. QED
      BY <1>1, <2>1, <2>2, <3>2 DEF Counted
  <2>4. CASE id # 0
    <3>1. Starting' = Starting \cup {id} /\ id \notin Starting
      BY <1>1, <1>4, <1>5, <2>4 DEF Starting
    <3>2. Starting \in SUBSET Session
      BY DEF Starting
    <3>3. Cardinality(Starting') = Cardinality(Starting) + 1
      BY <3>1, <3>2, Finite, AddElement
    <3>4. starting' = Cardinality(Starting)' /\ activeSessions' = Cardinality(Active)'
      BY <1>1, <2>1, <2>4, <3>3 DEF Counted
    <3>5. activeSessions' + starting' <= MaxSessions
      BY SMT, <1>1, <2>4, Limits DEF TypeOK
    <3>6. QED
      BY <2>2, <3>4, <3>5 DEF Counted
  <2>5. QED
    BY <2>3, <2>4
<1>9. Listed'
  BY <1>1, KeepsListed
<1>10. Shutdown'
  BY <1>1 DEF Shutdown
<1>11. Sinks'
  <2>1. Sinks
    OBVIOUS
  <2>2. QED
    BY <1>1, <2>1, KeepsSinks DEF Sinks, AttachmentsExact
<1>12. QED
  BY <1>6, <1>7, <1>8, <1>9, <1>10, <1>11

\* A session stops starting: its Open gives the place back.
LEMMA LeavesStarting ==
  ASSUME Counting, TypeOK, Counted, NEW s \in Session, open[s] \in {"starting", "started"},
         NEW to \in {"reaping", "returned"}, open' = [open EXCEPT ![s] = to],
         starting' = starting - 1, UNCHANGED <<nextSession, sessionIDExhausted>>
  PROVE  /\ starting' = Cardinality(Starting)'
         /\ ~sessionIDExhausted' => \A x \in Session : x > nextSession' => open'[x] = "none"
<1>1. Starting' = Starting \ {s} /\ s \in Starting
  BY DEF Starting, TypeOK
<1>2. Starting \in SUBSET Session
  BY DEF Starting
<1>3. Cardinality(Starting') = Cardinality(Starting) - 1
  BY <1>1, <1>2, Finite, RemoveElement
<1>4. starting' = Cardinality(Starting)'
  BY <1>3 DEF Counted
<1>5. ~sessionIDExhausted' => \A x \in Session : x > nextSession' => open'[x] = "none"
  BY DEF Counted, TypeOK
<1>6. QED
  BY <1>4, <1>5

\* A start that failed, or came too late: nothing is registered.
LEMMA RefusedStep ==
  ASSUME Counting, IInv, NEW s \in Session, open[s] \in {"starting", "started"},
         NEW to \in {"reaping", "returned"}, open' = [open EXCEPT ![s] = to],
         to = "returned" => open[s] = "starting",
         starting' = starting - 1, process' = [process EXCEPT ![s] = Kill(@)],
         UNCHANGED <<ids, registry, state, run, removals, attachments, close>>
  PROVE  IInv'
<1> USE DEF IInv
<1>1. /\ UNCHANGED <<bound, nextSession, sessionIDExhausted>> /\ UNCHANGED <<state, run>>
      /\ UNCHANGED <<activeSessions, generation, sessions, retainedExited, retained, removing>>
      /\ UNCHANGED <<removal, evictedBy, at, attached, workers, awaited>>
      /\ UNCHANGED close /\ UNCHANGED <<closing, closer, owned>>
  BY DEF ids, registry, removals, attachments, close
<1>2. TypeOK'
  BY SMT, <1>1 DEF TypeOK, Kill
<1>3. ASSUME NEW x \in Session PROVE Lifecycle(x)'
  <2>1. CASE x = s
    <3>1. open'[x] = to /\ process'[x] = Kill(process[x])
      BY <2>1 DEF TypeOK
    <3>2. to = "returned" => process[x] = "none" /\ process'[x] = "none"
      BY <2>1, <3>1 DEF Lifecycle, Kill
    <3>3. QED
      BY <1>1, <2>1, <3>1, <3>2 DEF Lifecycle
  <2>2. CASE x # s
    BY SMT, <1>1, <2>2 DEF Lifecycle, TypeOK
  <2>3. QED
    BY <2>1, <2>2
<1>4. Counted'
  <2>1. /\ starting' = Cardinality(Starting)'
        /\ ~sessionIDExhausted' => \A x \in Session : x > nextSession' => open'[x] = "none"
    BY <1>1, LeavesStarting
  <2>2. Active' = Active
    BY <1>1 DEF Active
  <2>3. activeSessions' + starting' <= MaxSessions
    <3>1. activeSessions \in Int /\ starting \in Int
      BY DEF TypeOK
    <3>2. activeSessions + starting <= MaxSessions
      BY DEF Counted
    <3>3. QED
      BY SMT, <1>1, <3>1, <3>2, Limits
  <2>4. QED
    BY <1>1, <2>1, <2>2, <2>3 DEF Counted
<1>5. Listed'
  BY <1>1, KeepsListed
<1>6. Shutdown'
  <2>1. \A x \in Session : open[x] \in {"none", "returned"} => open'[x] \in {"none", "returned"}
    BY DEF TypeOK
  <2>2. QED
    BY <1>1, <2>1, KeepsShutdown
<1>7. Sinks'
  <2>1. Sinks
    OBVIOUS
  <2>2. QED
    BY <1>1, <2>1, KeepsSinks DEF Sinks, AttachmentsExact
<1>8. QED
  BY <1>2, <1>3, <1>4, <1>5, <1>6, <1>7

LEMMA OpenFailsStep == ASSUME Counting, IInv, NEW s \in Session, OpenFails(s) PROVE IInv'
<1>1. /\ open[s] = "starting" /\ starting' = starting - 1
      /\ open' = [open EXCEPT ![s] = "returned"] /\ process' = process
      /\ UNCHANGED <<ids, registry, state, run, removals, attachments, close>>
  BY DEF OpenFails
<1>2. process[s] = "none"
  BY <1>1 DEF IInv, Lifecycle
<1>3. process' = [process EXCEPT ![s] = Kill(@)]
  BY <1>1, <1>2 DEF IInv, TypeOK, Kill
<1>4. QED
  BY <1>1, <1>3, RefusedStep

LEMMA OpenCanceledStep == ASSUME Counting, IInv, NEW s \in Session, OpenCanceled(s) PROVE IInv'
  BY RefusedStep DEF OpenCanceled

\* The second critical section of Open: the place of a start becomes that of a
\* running session.
LEMMA RegisterStep == ASSUME Counting, IInv, NEW s \in Session, Register(s) PROVE IInv'
<1> USE DEF IInv
<1>1. CASE closing \/ activeSessions >= MaxSessions
  BY <1>1, RefusedStep DEF Register, RegisterUnless, registry
<1>2. CASE ~(closing \/ activeSessions >= MaxSessions)
  <2>1. /\ open[s] = "started" /\ starting' = starting - 1 /\ ~closing
        /\ open' = [open EXCEPT ![s] = "returned"] /\ sessions' = sessions \cup {s}
        /\ activeSessions' = activeSessions + 1 /\ generation' = generation + 1
        /\ state' = [state EXCEPT ![s] = "running"] /\ run' = [run EXCEPT ![s] = "pump"]
        /\ UNCHANGED <<retainedExited, retained, removing, process>>
        /\ UNCHANGED <<bound, nextSession, sessionIDExhausted>>
        /\ UNCHANGED <<removal, evictedBy, at, attached, workers, awaited>>
        /\ UNCHANGED <<closing, closer, owned>>
    BY <1>2 DEF Register, RegisterUnless, ids, removals, attachments, close
  <2>2. run[s] = "none" /\ state[s] = "none"
    BY <2>1 DEF Lifecycle
  <2>3. TypeOK'
    BY SMT, <2>1 DEF TypeOK
  <2>4. ASSUME NEW x \in Session PROVE Lifecycle(x)'
    <3>1. CASE x = s
      <4>1. open'[x] = "returned" /\ state'[x] = "running" /\ run'[x] = "pump" /\ x \in sessions'
        BY <2>1, <3>1 DEF TypeOK
      <4>2. ~retained'[x] /\ ~removing'[x]
        BY <2>1, <2>2, <3>1 DEF Lifecycle
      <4>3. QED
        BY <4>1, <4>2 DEF Lifecycle
    <3>2. CASE x # s
      BY SMT, <2>1, <3>2 DEF Lifecycle, TypeOK
    <3>3. QED
      BY <3>1, <3>2
  <2>5. Counted'
    <3>1. /\ starting' = Cardinality(Starting)'
          /\ ~sessionIDExhausted' => \A x \in Session : x > nextSession' => open'[x] = "none"
      BY <2>1, LeavesStarting
    <3>2. Active' = Active \cup {s} /\ s \notin Active /\ Active \in SUBSET Session
      BY <2>1, <2>2 DEF Active, TypeOK
    <3>3. Cardinality(Active') = Cardinality(Active) + 1
      BY <3>2, Finite, AddElement
    <3>4. activeSessions' = Cardinality(Active)'
      BY <2>1, <3>3 DEF Counted
    <3>5. activeSessions' + starting' <= MaxSessions
      BY SMT, <2>1, Limits DEF Counted, TypeOK
    <3>6. QED
      BY <3>1, <3>4, <3>5 DEF Counted
  <2>6. Listed'
    BY <2>1, KeepsListed
  <2>7. Shutdown'
    BY <2>1 DEF Shutdown
  <2>8. Sinks'
    <3>1. Sinks
      OBVIOUS
    <3>2. \A x \in Session : run'[x] = "drain" => run[x] = "drain"
      BY <2>1 DEF TypeOK
    <3>3. QED
      BY <2>1, <3>1, <3>2, KeepsSinks DEF Sinks, AttachmentsExact
  <2>9. QED
    BY <2>3, <2>4, <2>5, <2>6, <2>7, <2>8
<1>3. QED
  BY <1>1, <1>2

\* A step of one session that neither the registry nor an attachment sees.
LEMMA LocalStep ==
  ASSUME IInv, UNCHANGED <<ids, starting, registry, removals, attachments, close>>,
         open' \in [Session -> {"none", "starting", "started", "reaping", "returned"}],
         process' \in [Session -> {"none", "alive", "killed", "dead"}],
         state' \in [Session -> {"none", "running", "stopping", "exited"}],
         run' \in [Session -> {"none", "pump", "drain", "evict", "done"}],
         \A x \in Session :
           /\ Lifecycle(x)'
           /\ open'[x] \in {"starting", "started"} <=> open[x] \in {"starting", "started"}
           /\ state'[x] \in {"running", "stopping"} <=> state[x] \in {"running", "stopping"}
           /\ open[x] = "none" => open'[x] = "none"
           /\ open[x] \in {"none", "returned"} => open'[x] \in {"none", "returned"}
           /\ run'[x] = "drain" => run[x] = "drain"
  PROVE  IInv'
<1> USE DEF IInv
<1>1. /\ UNCHANGED <<bound, nextSession, sessionIDExhausted, starting>>
      /\ UNCHANGED <<activeSessions, generation, sessions, retainedExited, retained, removing>>
      /\ UNCHANGED <<removal, evictedBy, at, attached, workers, awaited>>
      /\ UNCHANGED close /\ UNCHANGED <<closing, closer, owned>>
  BY DEF ids, registry, removals, attachments, close
<1>2. TypeOK'
  BY SMT, <1>1 DEF TypeOK
<1>3. Counted'
  BY <1>1, KeepsCounted
<1>4. Listed'
  BY <1>1, KeepsListed
<1>5. Shutdown'
  BY <1>1, KeepsShutdown
<1>6. Sinks'
  <2>1. Sinks
    OBVIOUS
  <2>2. QED
    BY <1>1, <2>1, KeepsSinks DEF Sinks, AttachmentsExact
<1>7. QED
  BY <1>2, <1>3, <1>4, <1>5, <1>6

LEMMA OpenStartsStep == ASSUME IInv, NEW s \in Session, OpenStarts(s) PROVE IInv'
<1>1. /\ open[s] = "starting" /\ process' = [process EXCEPT ![s] = "alive"]
      /\ open' = [open EXCEPT ![s] = "started"] /\ UNCHANGED <<state, run>>
      /\ UNCHANGED <<ids, starting, registry, removals, attachments, close>>
      /\ UNCHANGED <<sessions, retained, removing>>
  BY DEF OpenStarts, registry
<1>2. ASSUME NEW x \in Session PROVE Lifecycle(x)'
  BY SMT, <1>1 DEF IInv, TypeOK, Lifecycle
<1>3. QED
  BY <1>1, <1>2, LocalStep DEF IInv, TypeOK

LEMMA OpenReapsStep == ASSUME IInv, NEW s \in Session, OpenReaps(s) PROVE IInv'
<1>1. /\ open[s] = "reaping" /\ process[s] = "dead"
      /\ open' = [open EXCEPT ![s] = "returned"] /\ UNCHANGED <<process, state, run>>
      /\ UNCHANGED <<ids, starting, registry, removals, attachments, close>>
      /\ UNCHANGED <<sessions, retained, removing>>
  BY DEF OpenReaps, registry
<1>2. ASSUME NEW x \in Session PROVE Lifecycle(x)'
  BY SMT, <1>1 DEF IInv, TypeOK, Lifecycle
<1>3. QED
  BY <1>1, <1>2, LocalStep DEF IInv, TypeOK

LEMMA ProcessExitsStep == ASSUME IInv, NEW s \in Session, ProcessExits(s) PROVE IInv'
<1>1. /\ process[s] \in {"alive", "killed"} /\ process' = [process EXCEPT ![s] = "dead"]
      /\ UNCHANGED <<open, state, run>>
      /\ UNCHANGED <<ids, starting, registry, removals, attachments, close>>
      /\ UNCHANGED <<sessions, retained, removing>>
  BY DEF ProcessExits, Live, registry
<1>2. ASSUME NEW x \in Session PROVE Lifecycle(x)'
  BY <1>1 DEF IInv, TypeOK, Lifecycle
<1>3. QED
  BY <1>1, <1>2, LocalStep DEF IInv, TypeOK

LEMMA SessionKillStep == ASSUME IInv, NEW s \in Session, SessionKill(s) PROVE IInv'
<1>1. /\ state[s] \in {"running", "stopping"} /\ state' = [state EXCEPT ![s] = "stopping"]
      /\ process' = [process EXCEPT ![s] = Kill(@)] /\ UNCHANGED <<open, run>>
      /\ UNCHANGED <<ids, starting, registry, removals, attachments, close>>
      /\ UNCHANGED <<sessions, retained, removing>>
  BY DEF SessionKill, registry
<1>2. process' \in [Session -> {"none", "alive", "killed", "dead"}]
  BY <1>1 DEF IInv, TypeOK, Kill
<1>3. ASSUME NEW x \in Session PROVE Lifecycle(x)'
  <2>1. CASE x = s
    <3>1. state'[x] = "stopping" /\ run[x] = "pump" /\ open[x] = "returned"
      BY SMT, <1>1, <2>1 DEF IInv, TypeOK, Lifecycle
    <3>2. QED
      BY <1>1, <3>1 DEF IInv, Lifecycle
  <2>2. CASE x # s
    BY SMT, <1>1, <2>2 DEF IInv, TypeOK, Lifecycle
  <2>3. QED
    BY <2>1, <2>2
<1>4. QED
  BY SMT, <1>1, <1>2, <1>3, LocalStep DEF IInv, TypeOK

LEMMA OutputFailsStep == ASSUME IInv, NEW s \in Session, OutputFails(s) PROVE IInv'
<1>1. /\ run[s] = "pump" /\ process' = [process EXCEPT ![s] = "killed"]
      /\ UNCHANGED <<open, state, run>>
      /\ UNCHANGED <<ids, starting, registry, removals, attachments, close>>
      /\ UNCHANGED <<sessions, retained, removing>>
  BY DEF OutputFails, registry
<1>2. ASSUME NEW x \in Session PROVE Lifecycle(x)'
  BY SMT, <1>1 DEF IInv, TypeOK, Lifecycle
<1>3. QED
  BY <1>1, <1>2, LocalStep DEF IInv, TypeOK

LEMMA RunDoneStep == ASSUME IInv, NEW s \in Session, RunDone(s) PROVE IInv'
<1>1. /\ run[s] = "evict" /\ run' = [run EXCEPT ![s] = "done"]
      /\ UNCHANGED <<open, process, state>>
      /\ UNCHANGED <<ids, starting, registry, removals, attachments, close>>
      /\ UNCHANGED <<sessions, retained, removing>>
  BY DEF RunDone, registry
<1>2. ASSUME NEW x \in Session PROVE Lifecycle(x)'
  BY SMT, <1>1 DEF IInv, TypeOK, Lifecycle
<1>3. QED
  BY <1>1, <1>2, LocalStep DEF IInv, TypeOK

-----------------------------------------------------------------------------
(* Session.run and removal *)

\* The process has been reaped: the session no longer counts as active, and its
\* run waits for the workers of the attachments it has.
LEMMA RunExitedStep == ASSUME Counting, IInv, NEW s \in Session, RunExited(s) PROVE IInv'
<1> USE DEF IInv
<1>1. /\ run[s] = "pump" /\ process[s] = "dead"
      /\ state' = [state EXCEPT ![s] = "exited"] /\ run' = [run EXCEPT ![s] = "drain"]
      /\ activeSessions' = IF activeSessions > 0 THEN activeSessions - 1 ELSE 0
      /\ awaited' = [awaited EXCEPT ![s] = Attachments(s) \cap workers]
      /\ UNCHANGED <<bound, nextSession, sessionIDExhausted, starting, generation, sessions>>
      /\ UNCHANGED <<retainedExited, retained, removing, open, process, removal, evictedBy>>
      /\ UNCHANGED <<at, attached, workers>> /\ UNCHANGED close /\ UNCHANGED <<closing, closer, owned>>
  BY DEF RunExited, ids, removals, close
<1>2. TypeOK'
  <2>1. Attachments(s) \cap workers \subseteq Attachment
    BY DEF Attachments, TypeOK
  <2>2. QED
    BY SMT, <1>1, <2>1 DEF TypeOK
<1>3. ASSUME NEW x \in Session PROVE Lifecycle(x)'
  BY SMT, <1>1 DEF TypeOK, Lifecycle
<1>4. Counted'
  <2>1. Active' = Active \ {s} /\ s \in Active /\ Active \in SUBSET Session
    BY <1>1 DEF Active, TypeOK, Lifecycle
  <2>2. Cardinality(Active') = Cardinality(Active) - 1 /\ Cardinality(Active) \in Nat
    BY <2>1, Finite, RemoveElement
  <2>3. Cardinality(Active') \in Nat
    BY <2>1, Finite, RemoveElement
  <2>4. activeSessions' = activeSessions - 1 /\ activeSessions' = Cardinality(Active')
    BY SMT, <1>1, <2>2, <2>3 DEF Counted
  <2>5. Starting' = Starting
    BY <1>1 DEF Starting
  <2>6. activeSessions' + starting' <= MaxSessions
    BY SMTT(30), <1>1, <2>4, Limits DEF Counted, TypeOK
  <2>7. QED
    BY <1>1, <2>4, <2>5, <2>6 DEF Counted
<1>5. Listed'
  BY <1>1, KeepsListed
<1>6. Shutdown'
  BY <1>1, KeepsShutdown
<1>7. Sinks'
  <2>1. Sinks
    OBVIOUS
  <2>2. \A x \in Session : run'[x] = "drain" => Attachments(x) \cap workers \subseteq awaited'[x]
    BY <1>1 DEF Sinks, AttachmentsExact, TypeOK
  <2>3. QED
    BY <1>1, <2>1, <2>2, KeepsSinks DEF Sinks, AttachmentsExact
<1>8. QED
  BY <1>2, <1>3, <1>4, <1>5, <1>6, <1>7

\* The drain is over: retention, with the eviction it may cause, or removal.
LEMMA RunDrainedStep == ASSUME Counting, IInv, NEW s \in Session, RunDrained(s) PROVE IInv'
<1> USE DEF IInv
<1>1. /\ run[s] = "drain" /\ run' = [run EXCEPT ![s] = "evict"]
      /\ UNCHANGED <<bound, nextSession, sessionIDExhausted, starting, activeSessions>>
      /\ UNCHANGED <<open, process, state>> /\ UNCHANGED close /\ UNCHANGED <<closing, closer, owned>>
  BY DEF RunDrained, ids, close
<1>2. PICK V, R : Ends(s, V, R)
  BY Drained
<1>3. /\ V \in SUBSET Session /\ s \notin V /\ \A x \in V : retained[x]
      /\ retained' = [x \in Session |-> (retained[x] \/ (R /\ x = s)) /\ x \notin V]
      /\ removing' = [x \in Session |-> removing[x] \/ x \in V]
      /\ \A x \in Session \ V : awaited'[x] = awaited[x]
      /\ ClearAttachments({s} \cup V)
      /\ R \in BOOLEAN /\ sessions' = IF R THEN sessions ELSE sessions \ {s}
  BY <1>2 DEF Ends
<1>4. /\ retainedExited' \in Seq(Session)
      /\ removal' \in [Session -> {"none", "Removed", "Evicted"}]
      /\ evictedBy' \in [Session -> Session \cup {0}]
      /\ awaited' \in [Session -> SUBSET Attachment]
      /\ generation' = generation + 1 /\ Listed'
  BY <1>2 DEF Ends
<1>5. ~retained[s] /\ ~removing[s] /\ s \in sessions /\ process[s] = "dead"
  BY <1>1 DEF Lifecycle
<1>6. TypeOK'
  <2>1. /\ at' \in [Attachment -> Session \cup {0}]
        /\ attached' \subseteq Attachment /\ workers' \subseteq Attachment
    BY <1>3, Cleared
  <2>2. sessions' \subseteq Session
    BY <1>3 DEF TypeOK
  <2>3. retained' \in [Session -> BOOLEAN] /\ removing' \in [Session -> BOOLEAN]
    BY <1>3
  <2>4. run' \in [Session -> {"none", "pump", "drain", "evict", "done"}]
    BY <1>1 DEF TypeOK
  <2>5. QED
    BY SMT, <1>1, <1>4, <2>1, <2>2, <2>3, <2>4 DEF TypeOK
<1>7. ASSUME NEW x \in Session PROVE Lifecycle(x)'
  <2>1. CASE x = s
    <3>1. run'[x] = "evict" /\ removing'[x] = FALSE /\ (retained'[x] => x \in sessions')
      <4>1. run'[x] = "evict"
        BY <1>1, <2>1 DEF TypeOK
      <4>2. removing'[x] = FALSE
        BY <1>3, <1>5, <2>1
      <4>3. retained'[x] => R
        BY <1>3, <1>5, <2>1
      <4>4. QED
        BY <1>3, <1>5, <2>1, <4>1, <4>2, <4>3
    <3>2. open[x] = "returned" /\ state[x] = "exited"
      BY <1>1, <2>1 DEF TypeOK, Lifecycle
    <3>3. QED
      BY <1>1, <1>5, <2>1, <3>1, <3>2 DEF Lifecycle
  <2>2. CASE x # s
    <3>1. run'[x] = run[x] /\ (x \in sessions' <=> x \in sessions)
      BY <1>1, <1>3, <2>2 DEF TypeOK
    <3>2. (retained'[x] => retained[x] /\ x \notin V) /\ (removing'[x] => removing[x] \/ x \in V)
      BY <1>3, <2>2
    <3>3. retained'[x] \/ removing'[x] => run[x] \in {"evict", "done"}
      BY <1>3, <3>2 DEF Lifecycle
    <3>4. retained'[x] => x \in sessions /\ ~removing'[x]
      BY <3>2 DEF Lifecycle
    <3>5. QED
      BY <1>1, <3>1, <3>3, <3>4 DEF Lifecycle
  <2>3. QED
    BY <2>1, <2>2
<1>8. Counted'
  BY <1>1, KeepsCounted
<1>9. Shutdown'
  <2>1. sessions' \subseteq sessions /\ workers' = workers
    BY <1>3 DEF ClearAttachments
  <2>2. QED
    BY <1>1, <2>1, KeepsShutdown
<1>10. Sinks'
  <2>1. \A x \in sessions \ ({s} \cup V) : x \in sessions'
    BY <1>3
  <2>2. \A x \in Session \ ({s} \cup V) : removing'[x] => removing[x]
    BY <1>3
  <2>3. \A x \in Session : run'[x] = "drain" => run[x] = "drain" /\ awaited'[x] = awaited[x]
    <3>1. SUFFICES ASSUME NEW x \in Session, run'[x] = "drain"
                   PROVE  run[x] = "drain" /\ awaited'[x] = awaited[x]
      OBVIOUS
    <3>2. run[x] = "drain"
      BY <1>1, <3>1 DEF TypeOK
    <3>3. x \notin V
      BY <1>3, <3>2 DEF Lifecycle
    <3>4. QED
      BY <1>3, <3>2, <3>3
  <2>4. QED
    BY <1>3, <2>1, <2>2, <2>3, ClearsSinks
<1>11. QED
  BY <1>4, <1>6, <1>7, <1>8, <1>9, <1>10

\* Manager.Remove: a retained session leaves the order and is being removed.
LEMMA RemoveStep == ASSUME Counting, IInv, NEW s \in Session, Remove(s) PROVE IInv'
<1> USE DEF IInv
<1>1. /\ retained[s] /\ ~removing[s]
      /\ retainedExited' = Without(retainedExited, s)
      /\ retained' = [retained EXCEPT ![s] = FALSE] /\ removing' = [removing EXCEPT ![s] = TRUE]
      /\ removal' = [removal EXCEPT ![s] = "Removed"]
      /\ awaited' = [awaited EXCEPT ![s] = Attachments(s) \cap workers]
      /\ ClearAttachments({s})
      /\ UNCHANGED <<bound, nextSession, sessionIDExhausted, starting, activeSessions, generation>>
      /\ UNCHANGED <<sessions, open, process, state, run, evictedBy>>
      /\ UNCHANGED close /\ UNCHANGED <<closing, closer, owned>>
  BY DEF Remove, ids, close
<1>2. run[s] \in {"evict", "done"}
  BY <1>1 DEF Lifecycle
<1>3. /\ retainedExited \in Seq(Session) /\ Distinct(retainedExited)
      /\ Len(retainedExited) \in Nat /\ Len(retainedExited) <= MaxRetainedSessions
  BY SMT DEF TypeOK, Listed
<1>4. /\ retainedExited' \in Seq(Session) /\ Len(retainedExited') <= Len(retainedExited)
      /\ Distinct(retainedExited') /\ Entries(retainedExited') = Entries(retainedExited) \ {s}
  BY <1>1, <1>3, WithoutOrder
<1>5. TypeOK'
  <2>1. /\ at' \in [Attachment -> Session \cup {0}]
        /\ attached' \subseteq Attachment /\ workers' \subseteq Attachment
    BY <1>1, Cleared
  <2>2. Attachments(s) \cap workers \subseteq Attachment
    BY DEF Attachments, TypeOK
  <2>3. /\ retained' \in [Session -> BOOLEAN] /\ removing' \in [Session -> BOOLEAN]
        /\ removal' \in [Session -> {"none", "Removed", "Evicted"}]
        /\ awaited' \in [Session -> SUBSET Attachment]
    BY <1>1, <2>2 DEF TypeOK
  <2>4. QED
    BY <1>1, <1>4, <2>1, <2>3 DEF TypeOK
<1>6. ASSUME NEW x \in Session PROVE Lifecycle(x)'
  BY SMT, <1>1, <1>2 DEF Lifecycle, TypeOK
<1>7. Counted'
  BY <1>1, KeepsCounted
<1>8. Listed'
  <2>1. Retained' = Retained \ {s}
    BY <1>1 DEF Retained, TypeOK
  <2>2. Len(retainedExited') \in Nat /\ Len(retainedExited') <= MaxRetainedSessions
    BY SMT, <1>3, <1>4, Limits
  <2>3. Entries(retainedExited') = Retained'
    BY <1>4, <2>1 DEF Listed
  <2>4. QED
    BY <1>4, <2>2, <2>3 DEF Listed
<1>9. Shutdown'
  <2>1. workers' = workers
    BY <1>1 DEF ClearAttachments
  <2>2. QED
    BY <1>1, <2>1, KeepsShutdown
<1>10. Sinks'
  <2>1. \A x \in sessions \ {s} : x \in sessions'
    BY <1>1
  <2>2. \A x \in Session \ {s} : removing'[x] => removing[x]
    BY SMT, <1>1 DEF TypeOK
  <2>3. \A x \in Session : run'[x] = "drain" => run[x] = "drain" /\ awaited'[x] = awaited[x]
    BY <1>1, <1>2 DEF TypeOK
  <2>4. QED
    BY <1>1, <2>1, <2>2, <2>3, ClearsSinks
<1>11. QED
  BY <1>5, <1>6, <1>7, <1>8, <1>9, <1>10

\* finishRetainedRemoval: the session that is being removed leaves the registry.
LEMMA FinishRemovalStep == ASSUME IInv, NEW s \in Session, FinishRemoval(s) PROVE IInv'
<1> USE DEF IInv
<1>1. /\ removal' = [removal EXCEPT ![s] = "none"]
      /\ UNCHANGED <<bound, nextSession, sessionIDExhausted, starting, activeSessions>>
      /\ UNCHANGED <<open, process, state, run, evictedBy, at, attached, workers, awaited>>
      /\ UNCHANGED close /\ UNCHANGED <<closing, closer, owned>>
  BY DEF FinishRemoval, ids, attachments, close
<1>2. Sinks
  OBVIOUS
<1>3. CASE s \in sessions /\ removing[s]
  <2>1. ~retained[s] /\ run[s] \in {"evict", "done"}
    BY <1>3 DEF Lifecycle
  <2>2. Unregister(s)
    BY <1>3 DEF FinishRemoval
  <2>3. /\ sessions' = sessions \ {s} /\ generation' = generation + 1
        /\ retainedExited' \in Seq(Session) /\ retained' = retained
        /\ removing' = [removing EXCEPT ![s] = FALSE]
        /\ Listed'
    BY <2>1, <2>2, Unregistered
  <2>4. TypeOK'
    BY SMT, <1>1, <2>3 DEF TypeOK
  <2>5. ASSUME NEW x \in Session PROVE Lifecycle(x)'
    BY <1>1, <2>1, <2>3 DEF Lifecycle, TypeOK
  <2>6. Counted'
    BY <1>1, KeepsCounted
  <2>7. Shutdown'
    BY <1>1, <2>3, KeepsShutdown
  <2>8. Sinks'
    <3>1. \A a \in attached \cap workers : at[a] \in sessions' /\ ~removing'[at[a]]
      <4>1. SUFFICES ASSUME NEW a \in attached \cap workers
                     PROVE  at[a] \in sessions' /\ ~removing'[at[a]]
        OBVIOUS
      <4>2. at[a] \in sessions /\ ~removing[at[a]]
        BY DEF Sinks, AttachmentsExact
      <4>3. at[a] # s /\ at[a] \in Session
        BY SMT, <1>3, <4>2 DEF TypeOK
      <4>4. QED
        BY SMT, <2>3, <4>2, <4>3 DEF TypeOK
    <3>2. QED
      BY <1>1, <1>2, <3>1, KeepsSinks DEF Sinks, AttachmentsExact
  <2>9. QED
    BY <2>3, <2>4, <2>5, <2>6, <2>7, <2>8
<1>4. CASE ~(s \in sessions /\ removing[s])
  <2>1. UNCHANGED <<sessions, retainedExited, retained, removing, generation>>
    BY <1>4 DEF FinishRemoval
  <2>2. TypeOK'
    BY <1>1, <2>1 DEF TypeOK
  <2>3. ASSUME NEW x \in Session PROVE Lifecycle(x)'
    BY <1>1, <2>1 DEF Lifecycle
  <2>4. Counted'
    BY <1>1, KeepsCounted
  <2>5. Listed' /\ Shutdown'
    BY <1>1, <2>1, KeepsListed, KeepsShutdown
  <2>6. Sinks'
    BY <1>1, <1>2, <2>1, KeepsSinks DEF Sinks, AttachmentsExact
  <2>7. QED
    BY <2>2, <2>3, <2>4, <2>5, <2>6
<1>5. QED
  BY <1>3, <1>4

-----------------------------------------------------------------------------
(* Close *)

LEMMA CloseStep == ASSUME IInv, Close PROVE IInv'
<1> USE DEF IInv
<1>1. /\ closing' = TRUE /\ closer' = "starts" /\ owned' = sessions
      /\ state' = [s \in Session |-> IF s \in sessions /\ state[s] = "running" THEN "stopping"
                                     ELSE state[s]]
      /\ UNCHANGED <<bound, nextSession, sessionIDExhausted, starting>>
      /\ UNCHANGED <<activeSessions, generation, sessions, retainedExited, retained, removing>>
      /\ UNCHANGED <<open, process, run, removal, evictedBy, at, attached, workers, awaited>>
  BY DEF Close, ids, registry, removals, attachments
<1>2. ASSUME NEW x \in Session
      PROVE  /\ state'[x] \in {"none", "running", "stopping", "exited"}
             /\ state'[x] = "none" <=> state[x] = "none"
             /\ state'[x] \in {"running", "stopping"} <=> state[x] \in {"running", "stopping"}
  BY <1>1 DEF TypeOK
<1>3. TypeOK'
  BY <1>1, <1>2 DEF TypeOK
<1>4. ASSUME NEW x \in Session PROVE Lifecycle(x)'
  BY <1>1, <1>2 DEF Lifecycle
<1>5. Counted'
  BY <1>1, <1>2, KeepsCounted
<1>6. Listed'
  BY <1>1, KeepsListed
<1>7. Shutdown'
  BY <1>1 DEF Shutdown
<1>8. Sinks'
  <2>1. Sinks
    OBVIOUS
  <2>2. QED
    BY <1>1, <2>1, KeepsSinks DEF Sinks, AttachmentsExact
<1>9. QED
  BY <1>3, <1>4, <1>5, <1>6, <1>7, <1>8

\* The waits of Close, with the kill between them.
LEMMA CloseWaitsStep ==
  ASSUME IInv, CloseStarts \/ TerminatesReturn \/ CloseKills
  PROVE  IInv'
<1> USE DEF IInv
<1>1. /\ UNCHANGED <<bound, nextSession, sessionIDExhausted, starting>>
      /\ UNCHANGED <<activeSessions, generation, sessions, retainedExited, retained, removing>>
      /\ UNCHANGED <<open, state, run, removal, evictedBy, at, attached, workers, awaited>>
      /\ UNCHANGED <<closing, owned>>
  BY DEF CloseStarts, TerminatesReturn, CloseKills, KillAll, ids, registry, removals, attachments
<1>2. \/ closer = "starts" /\ closer' = "terminate"
         /\ \A s \in Session : open[s] \in {"none", "returned"}
      \/ closer = "terminate" /\ closer' = "timer"
      \/ closer = "timer" /\ closer' = "join"
  BY DEF CloseStarts, TerminatesReturn, CloseKills, KillAll
<1>3. ASSUME NEW x \in Session PROVE process'[x] = process[x] \/ process'[x] = Kill(process[x])
  BY DEF CloseStarts, TerminatesReturn, CloseKills, KillAll
<1>4. process' \in [Session -> {"none", "alive", "killed", "dead"}]
  <2>1. CASE CloseStarts \/ TerminatesReturn
    BY <2>1 DEF CloseStarts, TerminatesReturn, TypeOK
  <2>2. CASE CloseKills
    BY <2>2 DEF CloseKills, KillAll, Kill, TypeOK
  <2>3. QED
    BY <2>1, <2>2
<1>5. TypeOK'
  BY <1>1, <1>2, <1>4 DEF TypeOK
<1>6. ASSUME NEW x \in Session PROVE Lifecycle(x)'
  <2>1. (process'[x] = "none" <=> process[x] = "none") /\ (process'[x] = "dead" <=> process[x] = "dead")
    BY <1>3 DEF Kill
  <2>2. QED
    BY <1>1, <2>1 DEF Lifecycle
<1>7. Counted'
  BY <1>1, KeepsCounted
<1>8. Listed'
  BY <1>1, KeepsListed
<1>9. Shutdown'
  BY <1>1, <1>2 DEF Shutdown
<1>10. Sinks'
  <2>1. Sinks
    OBVIOUS
  <2>2. QED
    BY <1>1, <2>1, KeepsSinks DEF Sinks, AttachmentsExact
<1>11. QED
  BY <1>5, <1>6, <1>7, <1>8, <1>9, <1>10

\* Close clears the registry: every session it found has ended, so none was active.
LEMMA CloseJoinsStep == ASSUME Counting, IInv, CloseJoins PROVE IInv'
<1> USE DEF IInv
<1>1. /\ closer = "join" /\ (\A s \in owned : run[s] = "done") /\ workers = {}
      /\ sessions' = {} /\ retainedExited' = <<>>
      /\ retained' = [s \in Session |-> FALSE] /\ removing' = [s \in Session |-> FALSE]
      /\ activeSessions' = 0 /\ generation' = generation + 1 /\ closer' = "closed"
      /\ UNCHANGED <<bound, nextSession, sessionIDExhausted, starting>>
      /\ UNCHANGED <<open, process, state, run, removal, evictedBy, at, attached, workers, awaited>>
      /\ UNCHANGED <<closing, owned>>
  BY DEF CloseJoins, ids, removals, attachments
<1>2. \A x \in Session : run[x] \notin {"pump", "drain"}
  BY <1>1 DEF Lifecycle, Shutdown
<1>3. TypeOK'
  <2>1. <<>> \in Seq(Session)
    BY SMT
  <2>2. QED
    BY SMT, <1>1, <2>1 DEF TypeOK
<1>4. ASSUME NEW x \in Session PROVE Lifecycle(x)'
  BY <1>1, <1>2 DEF Lifecycle
<1>5. Counted'
  <2>1. Active = {}
    BY <1>2 DEF Active, Lifecycle
  <2>2. Active' = {} /\ Starting' = Starting
    BY <1>1, <2>1 DEF Active, Starting
  <2>3. activeSessions = 0
    BY <2>1, EmptySet DEF Counted
  <2>4. activeSessions' = Cardinality(Active')
    BY <1>1, <2>2, EmptySet
  <2>5. QED
    BY <1>1, <2>2, <2>3, <2>4 DEF Counted
<1>6. Listed'
  <2>1. Len(<<>>) = 0 /\ 0 <= MaxRetainedSessions
    BY SMT, Limits
  <2>2. Entries(<<>>) = {} /\ Distinct(<<>>)
    BY SMT DEF Entries, Distinct
  <2>3. Retained' = {}
    BY <1>1 DEF Retained
  <2>4. QED
    BY <1>1, <2>1, <2>2, <2>3 DEF Listed
<1>7. Shutdown'
  BY <1>1 DEF Shutdown
<1>8. Sinks'
  <2>1. Sinks
    OBVIOUS
  <2>2. QED
    BY <1>1, <1>2, <2>1, KeepsSinks
<1>9. QED
  BY <1>3, <1>4, <1>5, <1>6, <1>7, <1>8

-----------------------------------------------------------------------------
(* Attachments *)

\* A session that can be attached to is registered, not draining and not leaving.
LEMMA AttachStep == ASSUME Counting, IInv, NEW a \in Attachment, NEW s \in Session, Attach(a, s) PROVE IInv'
<1> USE DEF IInv
<1>1. /\ at[a] = 0 /\ ~closing /\ Attachable(s)
      /\ Cardinality(Attachments(s)) < MaxAttachmentsPerSession
      /\ at' = [at EXCEPT ![a] = s] /\ attached' = attached \cup {a} /\ workers' = workers \cup {a}
      /\ UNCHANGED <<bound, nextSession, sessionIDExhausted, starting>>
      /\ UNCHANGED <<activeSessions, generation, sessions, retainedExited, retained, removing>>
      /\ UNCHANGED <<open, process, state, run, removal, evictedBy, awaited, closing, closer, owned>>
  BY DEF Attach, AttachIf, ids, registry, removals, close
<1>2. s \in sessions /\ ~removing[s] /\ run[s] # "drain"
  BY <1>1 DEF Attachable, Lifecycle
<1>3. a \notin attached \cup workers
  BY <1>1 DEF Sinks
<1>4. TypeOK'
  BY SMT, <1>1 DEF TypeOK
<1>5. ASSUME NEW x \in Session PROVE Lifecycle(x)'
  BY <1>1 DEF Lifecycle
<1>6. Counted' /\ Listed'
  BY <1>1, KeepsCounted, KeepsListed
<1>7. Shutdown'
  BY <1>1 DEF Shutdown
<1>8. Sinks'
  <2>1. IsFiniteSet(attached')
    BY <1>1, AddElement DEF Sinks
  <2>0. /\ at'[a] = s /\ s # 0
        /\ \A b \in Attachment \ {a} : at'[b] = at[b]
    BY SMT, <1>1 DEF TypeOK, Session
  <2>2. ASSUME NEW b \in (attached \cup workers)' PROVE at'[b] # 0
    <3>1. CASE b = a
      BY <2>0, <3>1
    <3>2. CASE b # a
      BY <1>1, <2>0, <3>2 DEF Sinks, TypeOK
    <3>3. QED
      BY <3>1, <3>2
  <2>3. ASSUME NEW b \in (attached \cap workers)' PROVE at'[b] \in sessions' /\ ~removing'[at'[b]]
    <3>1. CASE b = a
      BY SMTT(30), <1>1, <1>2, <2>0, <3>1
    <3>2. CASE b # a
      <4>1. b \in attached \cap workers /\ b \in Attachment
        BY <1>1, <3>2 DEF TypeOK
      <4>2. at[b] \in sessions /\ ~removing[at[b]]
        BY <4>1 DEF Sinks, AttachmentsExact
      <4>3. QED
        BY SMT, <1>1, <2>0, <3>2, <4>1, <4>2
    <3>3. QED
      BY <3>1, <3>2
  <2>4. ASSUME NEW x \in Session, x # s PROVE Attachments(x)' = Attachments(x)
    BY SMTT(30), <1>1, <1>3, <2>4 DEF Attachments, TypeOK, Session
  <2>5. Attachments(s)' = Attachments(s) \cup {a} /\ a \notin Attachments(s)
    BY SMT, <1>1, <1>3 DEF Attachments, TypeOK
  <2>6. IsFiniteSet(Attachments(s))
    BY Subset DEF Sinks, Attachments
  <2>7. Cardinality(Attachments(s)') = Cardinality(Attachments(s)) + 1 /\ Cardinality(Attachments(s)) \in Nat
    BY <2>5, <2>6, AddElement
  <2>8. Cardinality(Attachments(s)') <= MaxAttachmentsPerSession
    <3>1. Cardinality(Attachments(s)) < MaxAttachmentsPerSession
      BY <1>1
    <3>2. Cardinality(Attachments(s)) \in Nat
      BY <2>5, <2>6, AddElement
    <3>3. QED
      BY SMT, <2>7, <3>1, <3>2, Limits
  <2>9. ASSUME NEW x \in Session
        PROVE  /\ Cardinality(Attachments(x)') <= MaxAttachmentsPerSession
               /\ run'[x] = "drain" => Attachments(x)' \cap workers' \subseteq awaited'[x]
    <3>1. CASE x = s
      BY <1>1, <1>2, <2>8, <3>1
    <3>2. CASE x # s
      <4>1. Attachments(x)' = Attachments(x) /\ a \notin Attachments(x)
        BY <1>3, <2>4, <3>2 DEF Attachments
      <4>2. QED
        BY <1>1, <4>1 DEF Sinks, AttachmentsExact
    <3>3. QED
      BY <3>1, <3>2
  <2>10. QED
    BY <2>1, <2>2, <2>3, <2>9 DEF Sinks, AttachmentsExact
<1>9. QED
  BY <1>4, <1>5, <1>6, <1>7, <1>8

\* An entry goes, or a worker ends; the identity is free once both have.
LEMMA LeaveStep ==
  ASSUME Counting, IInv, NEW a \in Attachment, Detach(a) \/ WorkerStops(a)
  PROVE  IInv'
<1> USE DEF IInv
<1>1. /\ UNCHANGED <<bound, nextSession, sessionIDExhausted, starting>>
      /\ UNCHANGED <<activeSessions, generation, sessions, retainedExited, retained, removing>>
      /\ UNCHANGED <<open, process, state, run, removal, evictedBy>>
      /\ UNCHANGED close /\ UNCHANGED <<closing, closer, owned>>
  BY DEF Detach, WorkerStops, ids, registry, removals, close
<1>2. /\ attached' \subseteq attached /\ workers' \subseteq workers
      /\ \A b \in attached' \cup workers' : at'[b] = at[b]
      /\ \A x \in Session : awaited[x] \cap workers' \subseteq awaited'[x]
  <2>1. CASE Detach(a)
    BY <2>1 DEF Detach, TypeOK
  <2>2. CASE WorkerStops(a)
    BY SMT, <2>2 DEF WorkerStops, TypeOK
  <2>3. QED
    BY <2>1, <2>2
<1>3. TypeOK'
  <2>1. at' \in [Attachment -> Session \cup {0}] /\ awaited' \in [Session -> SUBSET Attachment]
    <3>1. CASE Detach(a)
      BY <3>1 DEF Detach, TypeOK
    <3>2. CASE WorkerStops(a)
      BY <3>2 DEF WorkerStops, TypeOK
    <3>3. QED
      BY <3>1, <3>2
  <2>2. QED
    BY <1>1, <1>2, <2>1 DEF TypeOK
<1>4. ASSUME NEW x \in Session PROVE Lifecycle(x)'
  BY <1>1 DEF Lifecycle
<1>5. Counted' /\ Listed'
  BY <1>1, KeepsCounted, KeepsListed
<1>6. Shutdown'
  BY <1>1, <1>2, KeepsShutdown
<1>7. Sinks'
  <2>1. IsFiniteSet(attached')
    BY <1>2, Subset DEF Sinks
  <2>2. /\ \A b \in (attached \cup workers)' : at'[b] # 0
        /\ \A b \in (attached \cap workers)' : at'[b] \in sessions' /\ ~removing'[at'[b]]
    BY <1>1, <1>2 DEF Sinks, AttachmentsExact
  <2>3. ASSUME NEW x \in Session
        PROVE  /\ Cardinality(Attachments(x)') <= MaxAttachmentsPerSession
               /\ run'[x] = "drain" => Attachments(x)' \cap workers' \subseteq awaited'[x]
    <3>1. Attachments(x)' \subseteq Attachments(x)
      BY <1>2 DEF Attachments
    <3>2. IsFiniteSet(Attachments(x))
      BY Subset DEF Sinks, Attachments
    <3>3. /\ Cardinality(Attachments(x)') <= Cardinality(Attachments(x))
          /\ Cardinality(Attachments(x)) \in Nat /\ Cardinality(Attachments(x)') \in Nat
      BY <3>1, <3>2, Subset
    <3>4. Cardinality(Attachments(x)) <= MaxAttachmentsPerSession
      BY DEF Sinks, AttachmentsExact
    <3>5. Cardinality(Attachments(x)') <= MaxAttachmentsPerSession
      BY SMT, <3>3, <3>4, Limits
    <3>6. run'[x] = "drain" => Attachments(x)' \cap workers' \subseteq awaited'[x]
      BY <1>1, <1>2, <3>1 DEF Sinks, AttachmentsExact
    <3>7. QED
      BY <3>5, <3>6
  <2>4. QED
    BY <2>1, <2>2, <2>3 DEF Sinks, AttachmentsExact
<1>8. QED
  BY <1>3, <1>4, <1>5, <1>6, <1>7

-----------------------------------------------------------------------------
(* The invariant *)

LEMMA Initially == Counting /\ Init => IInv
<1> SUFFICES ASSUME Counting, Init PROVE IInv
  OBVIOUS
<1> USE DEF Init
<1>1. TypeOK
  <2>1. bound.ids \in Nat \ {0, 1}
    BY BoundFacts
  <2>2. nextSession \in 0..(bound.ids - 1)
    BY SMT, <2>1
  <2>3. <<>> \in Seq(Session)
    BY SMT
  <2>4. /\ sessions \subseteq Session /\ attached \subseteq Attachment /\ workers \subseteq Attachment
        /\ owned \subseteq Session /\ closer \in {"open", "starts", "terminate", "timer", "join", "closed"}
        /\ starting \in Int /\ activeSessions \in Int /\ generation \in Nat
        /\ sessionIDExhausted \in BOOLEAN /\ closing \in BOOLEAN
    <3>1. sessionIDExhausted \in BOOLEAN /\ closing \in BOOLEAN
      OBVIOUS
    <3>2. starting \in Int /\ activeSessions \in Int /\ generation \in Nat
      BY SMT
    <3>3. /\ sessions \subseteq Session /\ attached \subseteq Attachment /\ workers \subseteq Attachment
          /\ owned \subseteq Session /\ closer \in {"open", "starts", "terminate", "timer", "join", "closed"}
      OBVIOUS
    <3>4. QED
      BY <3>1, <3>2, <3>3
  <2>5. /\ open \in [Session -> {"none", "starting", "started", "reaping", "returned"}]
        /\ process \in [Session -> {"none", "alive", "killed", "dead"}]
        /\ state \in [Session -> {"none", "running", "stopping", "exited"}]
        /\ run \in [Session -> {"none", "pump", "drain", "evict", "done"}]
    OBVIOUS
  <2>6. /\ retained \in [Session -> BOOLEAN] /\ removing \in [Session -> BOOLEAN]
        /\ removal \in [Session -> {"none", "Removed", "Evicted"}]
        /\ evictedBy \in [Session -> Session \cup {0}]
    OBVIOUS
  <2>7. at \in [Attachment -> Session \cup {0}] /\ awaited \in [Session -> SUBSET Attachment]
    OBVIOUS
  <2>8. bound \in Bounds /\ retainedExited \in Seq(Session)
    BY <2>3
  <2>9. QED
    BY <2>2, <2>4, <2>5, <2>6, <2>7, <2>8 DEF TypeOK
<1>2. ASSUME NEW s \in Session PROVE Lifecycle(s)
  BY DEF Lifecycle
<1>3. Counted
  <2>1. Starting = {} /\ Active = {}
    BY DEF Starting, Active
  <2>2. Cardinality({}) = 0 /\ 0 + 0 <= MaxSessions
    BY SMT, EmptySet, Limits
  <2>3. QED
    BY <2>1, <2>2 DEF Counted
<1>4. Listed
  <2>1. Len(<<>>) = 0 /\ 0 <= MaxRetainedSessions
    BY SMT, Limits
  <2>2. Entries(<<>>) = {} /\ Distinct(<<>>) /\ Retained = {}
    BY SMT DEF Entries, Distinct, Retained
  <2>3. QED
    BY <2>1, <2>2 DEF Listed
<1>5. Shutdown
  BY DEF Shutdown
<1>6. Sinks
  <2>1. \A s \in Session : Attachments(s) = {}
    BY DEF Attachments
  <2>2. IsFiniteSet({}) /\ Cardinality({}) = 0 /\ 0 <= MaxAttachmentsPerSession
    BY SMT, EmptySet, Limits
  <2>3. QED
    BY <2>1, <2>2 DEF Sinks, AttachmentsExact
<1>7. QED
  BY <1>1, <1>2, <1>3, <1>4, <1>5, <1>6 DEF IInv

LEMMA Inductive == Counting /\ IInv /\ [Next]_vars => IInv'
<1> SUFFICES ASSUME Counting, IInv, [Next]_vars PROVE IInv'
  OBVIOUS
<1>1. CASE List \/ ListNext \/ UNCHANGED vars
  BY <1>1, ListStep
<1>2. CASE Open \/ Close \/ TerminatesReturn \/ Closing
  BY <1>2, OpenStep, CloseStep, CloseWaitsStep, CloseJoinsStep DEF Closing
<1>3. ASSUME NEW s \in Session, Opening(s) PROVE IInv'
  BY <1>3, OpenFailsStep, OpenStartsStep, OpenCanceledStep, RegisterStep, OpenReapsStep DEF Opening
<1>4. ASSUME NEW s \in Session, Running(s) \/ FinishRemoval(s) PROVE IInv'
  BY <1>4, RunExitedStep, RunDrainedStep, RunDoneStep, FinishRemovalStep DEF Running
<1>5. ASSUME NEW s \in Session, ProcessExits(s) \/ SessionKill(s) \/ OutputFails(s) \/ Remove(s)
      PROVE  IInv'
  BY <1>5, ProcessExitsStep, SessionKillStep, OutputFailsStep, RemoveStep
<1>6. ASSUME NEW s \in Session, NEW a \in Attachment, Attach(a, s) PROVE IInv'
  BY <1>6, AttachStep
<1>7. ASSUME NEW a \in Attachment, Detach(a) \/ WorkerStops(a) PROVE IInv'
  BY <1>7, LeaveStep
<1>8. QED
  BY <1>1, <1>2, <1>3, <1>4, <1>5, <1>6, <1>7 DEF Next

\* The invariant leaves no live process without somebody who waits for it.
LEMMA NothingOrphaned == IInv => NoOrphans
<1> SUFFICES ASSUME IInv PROVE NoOrphans
  OBVIOUS
<1>1. ASSUME NEW s \in Session
      PROVE  /\ process[s] \in {"none", "alive", "killed", "dead"}
             /\ open[s] \in {"none", "starting", "started", "reaping", "returned"}
             /\ run[s] \in {"none", "pump", "drain", "evict", "done"}
             /\ Lifecycle(s)
  BY DEF IInv, TypeOK
<1>2. ASSUME NEW s \in Session, Live(s)
      PROVE  open[s] \in {"started", "reaping"} \/ (run[s] = "pump" /\ s \in sessions)
  BY <1>1, <1>2 DEF Lifecycle, Live
<1>3. ASSUME closer = "closed"
      PROVE  /\ sessions = {} /\ workers = {}
             /\ \A s \in Session : open[s] \in {"none", "returned"}
  BY <1>3 DEF IInv, Shutdown
<1>4. ASSUME NEW s \in Session, closer = "closed"
      PROVE  ~Live(s) /\ run[s] \in {"none", "evict", "done"}
  <2>1. open[s] \in {"none", "returned"} /\ s \notin sessions
    BY <1>3, <1>4
  <2>2. run[s] \notin {"pump", "drain"}
    BY <1>1, <2>1 DEF Lifecycle
  <2>3. ~Live(s)
    BY <1>2, <2>1, <2>2
  <2>4. QED
    BY <1>1, <2>2, <2>3
<1>5. QED
  BY <1>2, <1>3, <1>4 DEF NoOrphans

\* RegistryExact in the terms of the invariant.
LEMMA ExactRegistry == IInv => RegistryExact
<1> SUFFICES ASSUME IInv PROVE RegistryExact
  OBVIOUS
<1> USE DEF IInv
<1>1. /\ starting = Cardinality({s \in Session : open[s] \in {"starting", "started"}})
      /\ activeSessions = Cardinality({s \in Session : state[s] \in {"running", "stopping"}})
      /\ activeSessions + starting <= MaxSessions
  BY DEF Counted, Starting, Active
<1>2. /\ \A j, k \in 1..Len(retainedExited) : retainedExited[j] = retainedExited[k] => j = k
      /\ {retainedExited[k] : k \in 1..Len(retainedExited)} = {s \in Session : retained[s]}
      /\ Len(retainedExited) <= MaxRetainedSessions
  BY DEF Listed, Distinct, Entries, Retained
<1>3. \A s \in Session : retained[s] => s \in sessions /\ state[s] = "exited" /\ ~removing[s]
  BY DEF Lifecycle, TypeOK
<1>4. QED
  BY <1>1, <1>2, <1>3 DEF RegistryExact

\* A session id is given once: an Open starts only with an id no Open had before,
\* and an id that was given stays so.
IDsFresh ==
  \A s \in Session : /\ open'[s] = "starting" => open[s] \in {"none", "starting"}
                     /\ open[s] # "none" => open'[s] # "none"

\* Only Open starts a session, with the id that follows all those in use.
LEMMA FreshStep == IInv /\ [Next]_vars => [IDsFresh]_vars
<1> SUFFICES ASSUME IInv, Next PROVE IDsFresh
  OBVIOUS
<1>1. CASE Open
  <2> DEFINE id == (nextSession + 1) % bound.ids
  <2>1. /\ ~sessionIDExhausted
        /\ open' = [s \in Session |-> IF s = id THEN "starting" ELSE open[s]]
    BY <1>1 DEF Open, Reserve
  <2>2. bound.ids \in Nat \ {0, 1} /\ nextSession \in 0..(bound.ids - 1)
    BY BoundFacts DEF IInv, TypeOK
  <2>3. id # 0 => id = nextSession + 1
    BY <2>2, NextID
  <2> HIDE DEF id
  <2>4. ASSUME NEW s \in Session, s = id PROVE open[s] = "none"
    <3>1. s # 0 /\ s \in Int
      BY SMT DEF Session
    <3>2. s > nextSession
      BY SMT, <2>2, <2>3, <2>4, <3>1
    <3>3. QED
      BY <2>1, <3>2 DEF IInv, Counted
  <2>5. QED
    BY <2>1, <2>4 DEF IDsFresh
<1>2. CASE List \/ ListNext \/ Close \/ TerminatesReturn \/ Closing
  BY <1>2 DEF List, ListNext, Page, Close, TerminatesReturn, Closing, CloseStarts, CloseKills,
              KillAll, CloseJoins, IDsFresh, IInv, TypeOK
<1>3. ASSUME NEW s \in Session, Opening(s) PROVE IDsFresh
  <2>1. \E to \in {"started", "reaping", "returned"} : open' = [open EXCEPT ![s] = to]
    BY <1>3 DEF Opening, OpenFails, OpenStarts, OpenCanceled, Register, RegisterUnless, OpenReaps
  <2>2. QED
    BY <2>1 DEF IDsFresh, IInv, TypeOK
<1>4. ASSUME NEW s \in Session, Running(s) \/ FinishRemoval(s) \/ Remove(s) PROVE IDsFresh
  BY <1>4 DEF Running, RunExited, RunDrained, RunDone, FinishRemoval, Remove, IDsFresh
<1>5. ASSUME NEW s \in Session, ProcessExits(s) \/ SessionKill(s) \/ OutputFails(s)
      PROVE  IDsFresh
  BY <1>5 DEF ProcessExits, SessionKill, OutputFails, IDsFresh
<1>6. ASSUME NEW s \in Session, NEW a \in Attachment, Attach(a, s) PROVE IDsFresh
  BY <1>6 DEF Attach, AttachIf, IDsFresh
<1>7. ASSUME NEW a \in Attachment, Detach(a) \/ WorkerStops(a) PROVE IDsFresh
  BY <1>7 DEF Detach, WorkerStops, IDsFresh
<1>8. QED
  BY <1>1, <1>2, <1>3, <1>4, <1>5, <1>6, <1>7 DEF Next

-----------------------------------------------------------------------------
(* Listings *)

Reserved == {s \in Session : open[s] # "none"}

Ascending(q) == \A j, k \in DOMAIN q : j < k => q[j] < q[k]

\* Every set of reserved ids can be put in order.  That a finite set of numbers
\* can is shown here by induction over the calls of Open, whose ids ascend.
Sortable == \A T \in SUBSET Reserved : \E q \in [1..Cardinality(T) -> T] : Ascending(q)

\* A client's cursor is not ahead of the registry.
Paged ==
  /\ sessions \subseteq Reserved
  /\ Sortable
  /\ listing.generation \in Nat /\ listing.position \in Nat
  /\ listing.generation <= generation
  /\ PagesExact

\* The sorted snapshot is a sequence of all sessions.
LEMMA SnapshotExists ==
  ASSUME Counting, IInv, Paged
  PROVE  All \in Seq(Session) /\ Len(All) = Cardinality(sessions) /\ Len(All) \in Nat
<1>1. Cardinality(sessions) \in Nat /\ sessions \subseteq Session
  BY Finite DEF IInv, TypeOK
<1>2. \E q \in [1..Cardinality(sessions) -> sessions] : Ascending(q)
  BY DEF Paged, Sortable
<1>3. All \in [1..Cardinality(sessions) -> sessions]
  BY <1>2 DEF All, Ascending
<1> HIDE DEF All
<1>4. QED
  BY SMT, <1>1, <1>3

\* The first page: what the client had before does not matter.
LEMMA FirstPage ==
  ASSUME NEW S, NEW q \in Seq(S), NEW had, NEW end \in 0..Len(q)
  PROVE  SubSeq(had, 1, 0) \o SubSeq(q, 1, end) = SubSeq(q, 1, end)
<1>1. SubSeq(had, 1, 0) = <<>>
  BY SMT
<1>2. SubSeq(q, 1, end) \in Seq(S)
  BY SMT
<1>3. QED
  BY SMT, <1>1, <1>2

\* Snapshots of the same sessions are the same.
LEMMA SameSnapshot == ASSUME sessions' = sessions PROVE All' = All
  BY DEF All

\* A page leaves the client with a prefix of the snapshot.
LEMMA PagePaged ==
  ASSUME Counting, IInv, Paged, List \/ ListNext
  PROVE  Paged'
<1>0. PICK p \in Nat : Page(p) /\ (p = 0 \/ (p = listing.position /\ listing.generation = generation))
  BY DEF List, ListNext, Paged
<1>1. PICK end \in p..Len(All) :
        listing' = [generation |-> generation, position |-> end,
                    ids |-> SubSeq(listing.ids, 1, p) \o SubSeq(All, p + 1, end)]
  BY <1>0 DEF Page
<1>2. UNCHANGED <<generation, sessions, open>>
  BY <1>0 DEF Page, registry
<1>3. All \in Seq(Session) /\ Len(All) \in Nat
  BY SnapshotExists
<1>4. All' = All
  BY <1>2, SameSnapshot
<1> DEFINE all == All
<1>5. all \in Seq(Session) /\ Len(all) \in Nat /\ end \in p..Len(all) /\ end \in Nat
  BY SMT, <1>1, <1>3
<1>6. p # 0 => p <= Len(all) /\ listing.ids = SubSeq(all, 1, p)
  BY <1>0 DEF Paged, PagesExact
<1>7. SubSeq(listing.ids, 1, p) \o SubSeq(all, p + 1, end) = SubSeq(all, 1, end)
  <2> HIDE DEF all
  <2>1. CASE p = 0
    BY SMT, <1>5, <2>1, FirstPage
  <2>2. CASE p # 0
    BY <1>5, <1>6, <2>2, NextPage
  <2>3. QED
    BY <2>1, <2>2
<1>8. listing'.generation = generation /\ listing'.position = end /\ listing'.ids = SubSeq(All, 1, end)
  BY <1>1, <1>7
<1>9. PagesExact'
  BY SMT, <1>2, <1>4, <1>5, <1>8 DEF PagesExact
<1>10. generation \in Nat
  BY DEF IInv, TypeOK
<1>11. sessions' \subseteq Reserved' /\ Sortable'
  BY <1>2 DEF Paged, Sortable, Reserved
<1>12. QED
  BY SMT, <1>2, <1>5, <1>8, <1>9, <1>10, <1>11 DEF Paged

\* Whatever changes the sessions starts a new generation, which no cursor has.
LEMMA KeepsPaged ==
  ASSUME IInv, Paged, Reserved' = Reserved, sessions' \subseteq Reserved, UNCHANGED listing,
         generation' = generation + 1 \/ UNCHANGED <<generation, sessions>>
  PROVE  Paged'
<1>1. generation \in Nat
  BY DEF IInv, TypeOK
<1>2. Sortable'
  BY DEF Paged, Sortable
<1>3. PagesExact'
  <2>1. CASE generation' = generation + 1
    BY SMT, <1>1, <2>1 DEF Paged, PagesExact
  <2>2. CASE UNCHANGED <<generation, sessions>>
    BY <2>2, SameSnapshot DEF Paged, PagesExact
  <2>3. QED
    BY <2>1, <2>2
<1>4. QED
  BY SMT, <1>1, <1>2, <1>3 DEF Paged

\* Open: the new id is above all reserved ones, so it goes last.
LEMMA OpenPaged ==
  ASSUME Counting, IInv, Paged, Open
  PROVE  Paged'
<1> DEFINE id == (nextSession + 1) % bound.ids
<1>1. /\ ~sessionIDExhausted
      /\ open' = [s \in Session |-> IF s = id THEN "starting" ELSE open[s]]
      /\ UNCHANGED <<listing, generation, sessions>>
  BY DEF Open, Reserve, registry
<1>2. bound.ids \in Nat \ {0, 1} /\ nextSession \in 0..(bound.ids - 1)
  BY BoundFacts DEF IInv, TypeOK
<1>3. id # 0 => id = nextSession + 1
  BY <1>2, NextID
<1> HIDE DEF id
<1>4. \A s \in Reserved : s \in Int /\ s <= nextSession
  BY SMT, <1>1, <1>2 DEF IInv, Counted, Reserved, Session
<1>5. Reserved' \subseteq Reserved \cup {id} /\ Reserved \subseteq Reserved'
  BY <1>1 DEF Reserved
<1>6. ASSUME NEW T \in SUBSET Reserved' PROVE \E q \in [1..Cardinality(T) -> T] : Ascending(q)
  <2>1. CASE id \notin T
    BY <1>5, <2>1 DEF Paged, Sortable
  <2>2. CASE id \in T
    <3>1. id # 0 /\ id \in Session /\ T \in SUBSET Session
      BY SMT, <2>2 DEF Reserved, Session
    <3>2. id \in Int /\ \A s \in Reserved : s < id
      BY SMT, <1>2, <1>3, <1>4, <3>1
    <3> DEFINE U == T \ {id}
    <3>3. U \in SUBSET Reserved
      BY <1>5
    <3>4. Cardinality(U) = Cardinality(T) - 1 /\ Cardinality(T) \in Nat
      BY <2>2, <3>1, Finite, RemoveElement
    <3>5. Cardinality(U) \in Nat
      BY <3>1, Finite
    <3>6. PICK q \in [1..Cardinality(U) -> U] : Ascending(q)
      BY <3>3 DEF Paged, Sortable
    <3>7. PICK n \in Nat : n = Cardinality(U) /\ Cardinality(T) = n + 1
      BY SMT, <3>4, <3>5
    <3> DEFINE r == [k \in 1..(n + 1) |-> IF k = n + 1 THEN id ELSE q[k]]
    <3>8. \A k \in 1..n : q[k] \in U /\ q[k] < id
      BY <3>2, <3>3, <3>6, <3>7
    <3>9. r \in [1..(n + 1) -> T]
      <4>1. ASSUME NEW k \in 1..(n + 1), k # n + 1 PROVE q[k] \in T
        <5>1. k \in 1..n
          BY SMT, <4>1
        <5>2. QED
          BY <3>8, <5>1
      <4>2. QED
        BY <2>2, <4>1
    <3>10. Ascending(r)
      <4> SUFFICES ASSUME NEW j \in 1..(n + 1), NEW k \in 1..(n + 1), j < k PROVE r[j] < r[k]
        BY DEF Ascending
      <4>1. j \in 1..n /\ r[j] = q[j]
        BY SMT
      <4>2. CASE k = n + 1
        BY <3>8, <4>1, <4>2
      <4>3. CASE k # n + 1
        <5>1. k \in 1..n /\ r[k] = q[k]
          BY SMT, <4>3
        <5>2. q[j] < q[k]
          BY <3>6, <3>7, <4>1, <5>1 DEF Ascending
        <5>3. QED
          BY <4>1, <5>1, <5>2
      <4>4. QED
        BY <4>2, <4>3
    <3>11. QED
      BY <3>7, <3>9, <3>10
  <2>3. QED
    BY <2>1, <2>2
<1>7. Sortable'
  BY <1>6 DEF Sortable, Ascending
<1>8. PagesExact'
  BY <1>1, SameSnapshot DEF Paged, PagesExact
<1>9. QED
  BY <1>1, <1>5, <1>7, <1>8 DEF Paged

\* A session is registered by the Open that has reserved its id.
LEMMA OpeningPaged ==
  ASSUME IInv, Paged, NEW s \in Session, Opening(s)
  PROVE  Paged'
<1>1. open[s] \in {"starting", "started", "reaping"}
  BY DEF Opening, OpenFails, OpenStarts, OpenCanceled, Register, RegisterUnless, OpenReaps
<1>2. \E to \in {"started", "reaping", "returned"} : open' = [open EXCEPT ![s] = to]
  BY DEF Opening, OpenFails, OpenStarts, OpenCanceled, Register, RegisterUnless, OpenReaps
<1>3. Reserved' = Reserved /\ s \in Reserved
  BY SMT, <1>1, <1>2 DEF Reserved, IInv, TypeOK
<1>4. /\ UNCHANGED listing
      /\ UNCHANGED <<generation, sessions>>
         \/ (generation' = generation + 1 /\ sessions' = sessions \cup {s})
  BY DEF Opening, OpenFails, OpenStarts, OpenCanceled, Register, RegisterUnless, OpenReaps, ids, registry
<1>5. sessions \subseteq Reserved
  BY DEF Paged
<1>6. QED
  BY <1>3, <1>4, <1>5, KeepsPaged

\* Every other action leaves the reserved ids alone, and only ever takes
\* sessions out of the registry.
LEMMA OtherPaged ==
  ASSUME IInv, Paged, UNCHANGED <<open, listing>>,
         \/ UNCHANGED <<generation, sessions>>
         \/ generation' = generation + 1 /\ sessions' \subseteq sessions
  PROVE  Paged'
<1>1. Reserved' = Reserved
  BY DEF Reserved
<1>2. sessions' \subseteq Reserved
  BY DEF Paged
<1>3. QED
  BY <1>1, <1>2, KeepsPaged

LEMMA StepPaged == Counting /\ IInv /\ Paged /\ [Next]_vars => Paged'
<1> SUFFICES ASSUME Counting, IInv, Paged, [Next]_vars PROVE Paged'
  OBVIOUS
<1>1. CASE List \/ ListNext
  BY <1>1, PagePaged
<1>2. CASE Open
  BY <1>2, OpenPaged
<1>3. ASSUME NEW s \in Session, Opening(s) PROVE Paged'
  BY <1>3, OpeningPaged
<1>4. CASE Close \/ CloseStarts \/ TerminatesReturn \/ CloseKills \/ UNCHANGED vars
  <2>1. UNCHANGED <<open, listing, generation, sessions>>
    BY <1>4 DEF Close, CloseStarts, TerminatesReturn, CloseKills, KillAll, registry, ids, vars
  <2>2. QED
    BY <2>1, OtherPaged
<1>5. CASE CloseJoins
  <2>1. UNCHANGED <<open, listing>> /\ generation' = generation + 1 /\ sessions' = {}
    BY <1>5 DEF CloseJoins, ids
  <2>2. QED
    BY <2>1, OtherPaged
<1>6. ASSUME NEW s \in Session, RunExited(s) \/ RunDone(s) \/ Remove(s) PROVE Paged'
  <2>1. UNCHANGED <<open, listing, generation, sessions>>
    BY <1>6 DEF RunExited, RunDone, Remove, registry, ids
  <2>2. QED
    BY <2>1, OtherPaged
<1>7. ASSUME NEW s \in Session, RunDrained(s) PROVE Paged'
  <2>1. UNCHANGED <<open, listing>> /\ generation' = generation + 1 /\ sessions' \subseteq sessions
    BY <1>7 DEF RunDrained, RetainExited, Unregister, ids
  <2>2. QED
    BY <2>1, OtherPaged
<1>8. ASSUME NEW s \in Session, FinishRemoval(s) PROVE Paged'
  <2>1. /\ UNCHANGED <<open, listing>>
        /\ \/ UNCHANGED <<generation, sessions>>
           \/ generation' = generation + 1 /\ sessions' \subseteq sessions
    BY <1>8 DEF FinishRemoval, Unregister, ids
  <2>2. QED
    BY <2>1, OtherPaged
<1>9. ASSUME NEW s \in Session, ProcessExits(s) \/ SessionKill(s) \/ OutputFails(s) PROVE Paged'
  <2>1. UNCHANGED <<open, listing, generation, sessions>>
    BY <1>9 DEF ProcessExits, SessionKill, OutputFails, registry, ids
  <2>2. QED
    BY <2>1, OtherPaged
<1>10. ASSUME NEW a \in Attachment,
              (\E s \in Session : Attach(a, s)) \/ Detach(a) \/ WorkerStops(a)
       PROVE  Paged'
  <2>1. UNCHANGED <<open, listing, generation, sessions>>
    BY <1>10 DEF Attach, AttachIf, Detach, WorkerStops, registry, ids
  <2>2. QED
    BY <2>1, OtherPaged
<1>11. QED
  BY <1>1, <1>2, <1>3, <1>4, <1>5, <1>6, <1>7, <1>8, <1>9, <1>10 DEF Next, Closing, Running

LEMMA InitPaged == Counting /\ Init => Paged
<1> SUFFICES ASSUME Counting, Init PROVE Paged
  OBVIOUS
<1>1. Reserved = {} /\ sessions = {} /\ generation = 0
  BY DEF Init, Reserved
<1>2. listing = [generation |-> 0, position |-> 0, ids |-> <<>>]
  BY DEF Init
<1>3. Cardinality({}) = 0
  BY EmptySet
<1>4. Sortable
  <2> SUFFICES ASSUME NEW T \in SUBSET Reserved
               PROVE  \E q \in [1..Cardinality(T) -> T] : Ascending(q)
    BY DEF Sortable
  <2>1. T = {} /\ Cardinality(T) = 0
    BY <1>1, <1>3
  <2> DEFINE q == [k \in 1..0 |-> k]
  <2>2. q \in [1..0 -> T] /\ Ascending(q)
    BY SMT DEF Ascending
  <2>3. QED
    BY <2>1, <2>2
<1>5. All \in Seq(Nat) /\ Len(All) = 0
  <2>1. \E q \in [1..Cardinality(sessions) -> sessions] : Ascending(q)
    BY <1>1, <1>4 DEF Sortable
  <2>2. All \in [1..Cardinality(sessions) -> sessions]
    BY <2>1 DEF All, Ascending
  <2> HIDE DEF All
  <2>3. All \in [1..0 -> {}]
    BY <1>1, <1>3, <2>2
  <2>4. QED
    BY SMT, <2>3
<1>6. PagesExact
  <2> DEFINE all == All
  <2>1. all \in Seq(Nat) /\ Len(all) = 0
    BY <1>5
  <2> HIDE DEF all
  <2>2. SubSeq(all, 1, 0) = <<>>
    BY SMT, <2>1
  <2>3. QED
    BY SMT, <1>2, <2>1, <2>2 DEF PagesExact, all
<1>7. QED
  BY SMT, <1>1, <1>2, <1>4, <1>6 DEF Paged

-----------------------------------------------------------------------------
(* The theorems *)

INSTANCE FiniteSetTheorems

LEMMA CountingHolds == Counting
<1>1. \A i, j \in Int : IsFiniteSet(i..j)
  BY FS_Interval
<1>2. IsFiniteSet({}) /\ Cardinality({}) = 0
  BY FS_EmptySet
<1>3. ASSUME NEW S, IsFiniteSet(S)
      PROVE  /\ Cardinality(S) \in Nat
             /\ \A T \in SUBSET S : IsFiniteSet(T) /\ Cardinality(T) <= Cardinality(S)
             /\ \A x : x \notin S => /\ IsFiniteSet(S \cup {x})
                                   /\ Cardinality(S \cup {x}) = Cardinality(S) + 1
             /\ \A x \in S : Cardinality(S \ {x}) = Cardinality(S) - 1
  <2>1. Cardinality(S) \in Nat
    BY <1>3, FS_CardinalityType
  <2>2. ASSUME NEW T \in SUBSET S PROVE IsFiniteSet(T) /\ Cardinality(T) <= Cardinality(S)
    BY <1>3, FS_Subset
  <2>3. ASSUME NEW x, x \notin S
        PROVE  IsFiniteSet(S \cup {x}) /\ Cardinality(S \cup {x}) = Cardinality(S) + 1
    BY <1>3, <2>3, FS_AddElement
  <2>4. ASSUME NEW x \in S PROVE Cardinality(S \ {x}) = Cardinality(S) - 1
    BY <1>3, FS_RemoveElement
  <2>5. QED
    BY <2>1, <2>2, <2>3, <2>4
<1>4. QED
  BY <1>1, <1>2, <1>3 DEF Counting

\* The invariant holds throughout.
LEMMA Invariant == Spec => []IInv
<1>1. Init => IInv
  BY Initially, CountingHolds
<1>2. IInv /\ [Next]_vars => IInv'
  BY Inductive, CountingHolds
<1>3. QED
  BY <1>1, <1>2, PTL DEF Spec

\* The counters of Manager count its sessions and starts, the limit holds, and
\* retainedExited is the order of the retained sessions, however opens, exits,
\* evictions, Remove and Close overlap.
THEOREM RegistryIsExact == Spec => []RegistryExact
  BY Invariant, ExactRegistry, PTL

\* Every live process is still with its Open or with the run of a registered
\* session, and once Close has returned there is no process, worker or Open.
THEOREM NoProcessIsOrphaned == Spec => []NoOrphans
  BY Invariant, NothingOrphaned, PTL

\* The entries with a worker are those of registered sessions that stay, within
\* the limit, and a session that drains waits for all it has.
THEOREM AttachmentsAreExact == Spec => []AttachmentsExact
<1>1. IInv => AttachmentsExact
  BY DEF IInv, Sinks
<1>2. QED
  BY <1>1, Invariant, PTL

\* Open never reserves an id again, whatever became of the session that had it,
\* and reports exhaustion instead of wrapping round (ErrSessionLimit).
THEOREM SessionIDsAreFresh == Spec => [][IDsFresh]_vars
  BY Invariant, FreshStep, PTL DEF Spec

\* While the server accepts a client's cursor, its pages are the first part of
\* the sorted registry, whatever is opened, removed or evicted in between
\* (ListSnapshot and handleList), for any number of sessions and any page size.
THEOREM PagesAreExact == Spec => []PagesExact
<1>1. Init => Paged
  BY InitPaged, CountingHolds
<1>2. IInv /\ Paged /\ [Next]_vars => Paged'
  BY StepPaged, CountingHolds
<1>3. Paged => PagesExact
  BY DEF Paged
<1>4. QED
  BY <1>1, <1>2, <1>3, Invariant, PTL DEF Spec
=============================================================================
