--------------------------- MODULE ProtocolProofs ---------------------------
(***************************************************************************)
(* The map of a connection names its open attachment, and a client sees    *)
(* the frames of an attachment in their order, for any number of           *)
(* attachments, any output, and whatever breaks or is closed.              *)
(***************************************************************************)
EXTENDS Protocol, TLAPS

\* Most steps are set theory, which Zenon does; a step with arithmetic cites SMT.
USE Zenon

Frame == {<<"attached">>, <<"begin">>, <<"end">>, <<"exit">>} \cup {<<"output", n>> : n \in Nat}

Places == {"idle", "answer", "attaching", "insert", "respond", "begin", "end", "activate", "cleanup",
           "fail", "dead", "detaching", "detached", "kill", "write"}

\* What the map depends on.
MapTypes ==
  /\ port \in [Attachments -> {"paused", "active", "closed", "failed", "done", "broken"}]
  /\ watch \in [Attachments -> {"none", "watching", "report", "wait"}]
  /\ shut \in {"open", "canceled", "waiting", "closed"} /\ peer \in {"open", "closed"}
  /\ entry \in Attachments \cup {None} /\ mine \in Attachments \cup {None}
  /\ handler \in Places

\* handleAttach from the insertion into the map on.
Inserted == {"respond", "begin", "end", "activate", "cleanup"}

\* handleAttach and handleDetach hold the attachment in mine.  Nobody watches
\* it before it is activated, so only the handler and Protocol.Close take it
\* from the map again.
Held ==
  /\ handler \in Inserted \cup {"insert", "detaching", "detached"} => mine # None
  /\ mine # None => handler \in Inserted \cup {"insert", "detaching", "detached", "fail"}
  /\ handler \in {"attaching", "insert", "detaching", "detached"} => entry = None
  /\ handler \in Inserted => entry = mine \/ (entry = None /\ shut # "open")
  /\ handler \in Inserted \cup {"insert"} => watch[mine] = "none"
  /\ handler \in Announcing \cup {"activate"} => port[mine] # "active"
  /\ handler = "detached" => ~Open(mine)
  /\ handler = "fail" /\ mine # None => ~Open(mine) /\ entry = None

\* MapExact, for every place of the handler.
MapInv ==
  /\ Held
  /\ shut = "open" => /\ \A a \in Attachments : Open(a) => a \in {entry, mine}
                      /\ entry \notin {None, mine} => watch[entry] = "watching"

Types ==
  /\ last \in Nat /\ over \in BOOLEAN
  /\ next \in [Attachments -> Nat \ {0}] /\ busy \in [Attachments -> {"no", "event", "end"}]
  /\ replayFirst \in [Attachments -> Nat \ {0}] /\ replayLast \in [Attachments -> Nat]
  /\ frames \in [Attachments -> Seq(Frame)] /\ late \in [Attachments -> BOOLEAN]

\* The last event of the replay, or the one before the first if there is none.
Split(a) == IF replayLast[a] = 0 THEN replayFirst[a] - 1 ELSE replayLast[a]

\* Script(a), by its positions.
Nth(a, k) ==
  IF k = 1 THEN <<"attached">>
  ELSE IF k = 2 THEN <<"begin">>
  ELSE IF k <= Split(a) - replayFirst[a] + 3 THEN <<"output", replayFirst[a] + k - 3>>
  ELSE IF k = Split(a) - replayFirst[a] + 4 THEN <<"end">>
  ELSE IF k <= last - replayFirst[a] + 4 THEN <<"output", replayFirst[a] + k - 4>>
  ELSE <<"exit">>

\* How many frames precede the one the sink sends next.
Position(a) ==
  next[a] - replayFirst[a] + (IF next[a] <= Split(a) \/ busy[a] = "end" THEN 2 ELSE 3)

\* The events a sink has had and may get.
Counting(a) ==
  /\ replayFirst[a] <= next[a] /\ replayFirst[a] <= Split(a) + 1 /\ Split(a) <= last
  /\ replayLast[a] # 0 => replayFirst[a] <= replayLast[a]
  /\ next[a] <= (IF over THEN last + 2 ELSE last + 1)
  /\ busy[a] = "event" => next[a] <= (IF over THEN last + 1 ELSE last)
  /\ busy[a] = "end" => replayLast[a] # 0 /\ next[a] = replayLast[a] + 1

\* The frames sent are the first of the script; the exit is not among them
\* while the session runs.
Sequenced(a) ==
  /\ Len(frames[a]) <= last - replayFirst[a] + (IF over THEN 5 ELSE 4)
  /\ \A k \in 1..Len(frames[a]) : frames[a][k] = Nth(a, k)
  /\ port[a] = "active" \/ busy[a] # "no" => Len(frames[a]) = Position(a)

\* Before the attachment is active its handler sends.
Announced(a) ==
  mine = a =>
    /\ handler \in Announcing \cup {"activate"} => ~late[a] /\ busy[a] = "no"
    /\ handler \in Announcing \/ (handler = "activate" /\ port[a] = "paused") => next[a] = replayFirst[a]
    /\ handler \in {"insert", "respond"} => Len(frames[a]) = 0
    /\ handler = "begin" => Len(frames[a]) = 1
    /\ handler = "end" => Len(frames[a]) = 2 /\ replayLast[a] = 0
    /\ handler = "activate" /\ port[a] = "paused" => Len(frames[a]) = Position(a)

\* After the answer to Detach the sink ends what it is doing, and no more.
Leftover(a) ==
  /\ ~Open(a) /\ a \notin {entry, mine}
  /\ busy[a] = "event" => frames[a] = <<>>
  /\ busy[a] = "end" => frames[a] \in {<<>>, <<<<"output", replayLast[a]>>>>}
  /\ Len(frames[a]) <= 1 \/ frames[a] = <<<<"output", replayLast[a]>>, <<"end">>>>

Good(a) == Counting(a) /\ Announced(a) /\ (late[a] => Leftover(a)) /\ (~late[a] => Sequenced(a))

FrameInv == \A a \in Attachments : Good(a)

-----------------------------------------------------------------------------
(* The map *)

\* Attachment.finish ends an open attachment and touches no other.
LEMMA FinishFacts ==
  ASSUME MapTypes, NEW a \in Attachments, NEW why \in {"closed", "failed"}, Finish(a, why)
  PROVE  /\ port' \in [Attachments -> {"paused", "active", "closed", "failed", "done", "broken"}]
         /\ \A b \in Attachments : b # a => port'[b] = port[b]
         /\ ~Open(a)'
         /\ ~Open(a) => port'[a] = port[a]
  BY DEF MapTypes, Finish, Open

\* The steps of the handler outside handleAttach and handleDetach.
LEMMA RequestMap ==
  ASSUME MapTypes, MapInv,
         \/ Asks \/ Answer \/ HandlerFails \/ QueueEmpty \/ HandleKill \/ KillReturns \/ HandleBad
         \/ HandleInput \/ InputReturns
  PROVE  MapTypes' /\ MapInv'
<1> USE DEF MapTypes, MapInv, Held, Open, Announcing, Inserted, Goto, Places, Respond, handling, closer, session, sink
<1>1. CASE Asks \/ Answer
  BY <1>1 DEF Asks, Answer
<1>2. CASE HandlerFails \/ QueueEmpty
  BY <1>2 DEF HandlerFails, QueueEmpty
<1>3. CASE HandleKill \/ KillReturns \/ HandleBad
  BY <1>3 DEF HandleKill, KillReturns, HandleBad
<1>4. CASE HandleInput \/ InputReturns
  BY <1>4 DEF HandleInput, InputReturns
<1>5. QED
  BY <1>1, <1>2, <1>3, <1>4

\* handleAttach puts its attachment into the map, and takes it out on failure.
LEMMA AttachMap ==
  ASSUME MapTypes, MapInv, Attaching
  PROVE  MapTypes' /\ MapInv'
<1> USE ProtocolAssumption DEF MapTypes, MapInv, Held, Open, Announcing, Inserted, Goto, Places, handling, closer, session, sink
<1>1. CASE HandleAttach \/ AttachFails
  BY <1>1 DEF HandleAttach, AttachFails
<1>2. CASE Insert
  BY <1>2 DEF Insert
<1>3. CASE Announce \/ AnnounceFails
  BY <1>3 DEF Announce, AnnounceFails
<1>4. CASE Activate
  BY <1>4 DEF Activate
<1>5. CASE Cleanup
  BY <1>5, FinishFacts DEF Cleanup
<1>6. ASSUME NEW a \in Attachments, NEW n \in 1..(last + 1), Attached(a, n)
      PROVE  MapTypes' /\ MapInv'
  BY <1>6 DEF Attached, Unused, Gone
<1>7. QED
  BY <1>1, <1>2, <1>3, <1>4, <1>5, <1>6 DEF Attaching

\* handleDetach takes the attachment out of the map and closes it.
LEMMA DetachMap ==
  ASSUME MapTypes, MapInv, Detaching
  PROVE  MapTypes' /\ MapInv'
<1> USE ProtocolAssumption DEF MapTypes, MapInv, Held, Open, Announcing, Inserted, Goto, Places, Respond, handling, closer, session, sink
<1>1. CASE HandleDetach
  BY <1>1 DEF HandleDetach
<1>2. CASE DetachCloses
  BY <1>2, FinishFacts DEF DetachCloses
<1>3. CASE DetachAnswered \/ DetachUnanswered
  BY <1>3 DEF DetachAnswered, DetachUnanswered
<1>4. QED
  BY <1>1, <1>2, <1>3 DEF Detaching

\* An attachment is closed, or its worker and its watcher go on.
LEMMA AttachmentMap ==
  ASSUME MapTypes, MapInv, NEW a \in Attachments,
         \/ Breaks(a) \/ Takes(a) \/ Delivered(a) \/ Done(a) \/ Sending(a) \/ Watching(a) \/ ContextCloses(a)
  PROVE  MapTypes' /\ MapInv'
<1> USE DEF MapTypes, MapInv, Held, Open, Announcing, Inserted, Places, handling, closer, session, sink
<1>1. ASSUME NEW why \in {"closed", "failed"}, Finish(a, why), UNCHANGED <<watch, peer, shut, entry, handler, mine>>
      PROVE  MapTypes' /\ MapInv'
  BY SMT, <1>1, FinishFacts
<1>2. CASE Breaks(a) \/ Delivered(a) \/ ContextCloses(a) \/ SinkFails(a)
  BY <1>1, <1>2 DEF Breaks, Delivered, ContextCloses, SinkFails
<1>3. CASE Takes(a) \/ SinkSends(a) \/ SinkEnds(a)
  BY SMT, <1>3 DEF Takes, SinkSends, SinkEnds
<1>4. CASE Done(a)
  BY SMT, <1>4 DEF Done, Gone
<1>5. CASE WatchDone(a)
  BY ZenonT(30), <1>5 DEF WatchDone, Gone
<1>6. CASE WatchCanceled(a) \/ Report(a) \/ PeerCloseReturns(a)
  BY SMT, <1>6 DEF WatchCanceled, Report, PeerCloseReturns
<1>7. QED
  BY <1>2, <1>3, <1>4, <1>5, <1>6 DEF Sending, Watching

\* Protocol.Close takes the map; what the handler inserts later it closes itself.
LEMMA CloseMap ==
  ASSUME MapTypes, MapInv, Close \/ CloseTakes \/ CloseReturns
  PROVE  MapTypes' /\ MapInv'
<1> USE ProtocolAssumption DEF MapTypes, MapInv, Held, Open, Announcing, Inserted, Places, handling, closer, session, sink
<1>1. CASE Close \/ CloseReturns
  BY <1>1 DEF Close, CloseReturns
<1>2. CASE CloseTakes
  BY <1>2, FinishFacts DEF CloseTakes
<1>3. QED
  BY <1>1, <1>2

\* Every step keeps the map exact.
LEMMA MapStep == MapTypes /\ MapInv /\ [Next]_vars => MapTypes' /\ MapInv'
<1> SUFFICES ASSUME MapTypes, MapInv, [Next]_vars PROVE MapTypes' /\ MapInv'
  OBVIOUS
<1>1. CASE Publish \/ SessionExits \/ TransportFails \/ UNCHANGED vars
  BY SMT, <1>1 DEF Publish, SessionExits, TransportFails, vars, handling, closer, session, sink, MapTypes, MapInv,
              Held, Open
<1>2. CASE Handling
  BY <1>2, RequestMap, AttachMap, DetachMap DEF Handling
<1>3. QED
  BY <1>1, <1>2, AttachmentMap, CloseMap DEF Next

\* The map names the open attachment of the stream, and an entry that is left
\* is being watched, for any number of attachments, whatever fails or is closed
\* while handleAttach, handleDetach and watchAttachment work on the map.
THEOREM MapIsExact == Spec => []MapExact
<1>1. Init => MapTypes /\ MapInv
  BY SMT DEF Init, MapTypes, MapInv, Held, Open, Announcing, Inserted, Places
<1>2. MapTypes /\ MapInv => MapExact
  BY DEF MapTypes, MapInv, Held, MapExact, Inserted
<1>3. QED
  BY <1>1, <1>2, MapStep, PTL DEF Spec

-----------------------------------------------------------------------------
(* The frames *)

\* A run of outputs.
LEMMA OutputsFacts ==
  ASSUME NEW m \in Nat \ {0}, NEW n \in Nat, m <= n + 1
  PROVE  /\ Outputs(m, n) \in Seq(Frame) /\ Len(Outputs(m, n)) = n - m + 1
         /\ \A k \in 1..(n - m + 1) : Outputs(m, n)[k] = <<"output", m + k - 1>>
<1>1. n - m + 1 \in Nat
  BY SMT
<1>2. \A k \in 1..(n - m + 1) : <<"output", m + k - 1>> \in Frame
  BY SMT DEF Frame
<1>3. Outputs(m, n) \in [1..(n - m + 1) -> Frame]
  BY <1>2 DEF Outputs
<1>4. Outputs(m, n) \in Seq(Frame) /\ Len(Outputs(m, n)) = n - m + 1
  BY SMT, <1>1, <1>3
<1>5. QED
  BY <1>4 DEF Outputs

\* The places of two sequences in their concatenation.
LEMMA ConcatFacts ==
  ASSUME NEW S, NEW q \in Seq(S), NEW r \in Seq(S)
  PROVE  /\ q \o r \in Seq(S) /\ Len(q \o r) = Len(q) + Len(r)
         /\ \A k \in 1..Len(q) : (q \o r)[k] = q[k]
         /\ \A k \in (Len(q) + 1)..(Len(q) + Len(r)) : (q \o r)[k] = r[k - Len(q)]
  BY SMT

\* The whole script by its positions.
LEMMA ScriptFacts ==
  ASSUME Types, NEW a \in Attachments, Counting(a)
  PROVE  /\ Script(a) \in Seq(Frame)
         /\ Len(Script(a)) = last - replayFirst[a] + 5
         /\ \A k \in 1..Len(Script(a)) : Script(a)[k] = Nth(a, k)
<1> DEFINE m == replayFirst[a]  s == Split(a)
           opening == <<<<"attached">>, <<"begin">>>>
           w == Outputs(m, s)
           x == Outputs(s + 1, last)
           end == <<<<"end">>>>
           exit == <<<<"exit">>>>
           p == s - m + 1
           r == last - s
<1>1. /\ m \in Nat \ {0} /\ s \in Nat /\ last \in Nat /\ m <= s + 1 /\ s <= last
      /\ p \in Nat /\ r \in Nat
  <2>1. m \in Nat \ {0} /\ replayLast[a] \in Nat /\ last \in Nat
    BY DEF Types
  <2>2. s \in Int /\ m <= s + 1 /\ s <= last
    BY SMT, <2>1 DEF Counting, Split
  <2> HIDE DEF m, s
  <2>3. QED
    BY SMT, <2>1, <2>2
<1>2. Script(a) = opening \o w \o end \o x \o exit
  BY DEF Script, Split
<1>3. w \in Seq(Frame) /\ Len(w) = p /\ \A k \in 1..p : w[k] = <<"output", m + k - 1>>
  BY <1>1, OutputsFacts
<1>4. x \in Seq(Frame) /\ Len(x) = r /\ \A k \in 1..r : x[k] = <<"output", s + k>>
  <2>1. s + 1 \in Nat \ {0} /\ s + 1 <= last + 1
    BY SMT, <1>1
  <2>2. /\ x \in Seq(Frame) /\ Len(x) = last - (s + 1) + 1
        /\ \A k \in 1..(last - (s + 1) + 1) : x[k] = <<"output", (s + 1) + k - 1>>
    BY <1>1, <2>1, OutputsFacts
  <2> HIDE DEF x, s
  <2>3. last - (s + 1) + 1 = r
    BY SMT, <1>1
  <2>4. ASSUME NEW k \in 1..r PROVE x[k] = <<"output", s + k>>
    <3>1. (s + 1) + k - 1 = s + k
      BY SMT, <1>1
    <3>2. QED
      BY <2>2, <2>3, <3>1
  <2>5. QED
    BY <2>2, <2>3, <2>4
<1>5. /\ opening \in Seq(Frame) /\ Len(opening) = 2 /\ opening[1] = <<"attached">> /\ opening[2] = <<"begin">>
      /\ end \in Seq(Frame) /\ Len(end) = 1 /\ end[1] = <<"end">>
      /\ exit \in Seq(Frame) /\ Len(exit) = 1 /\ exit[1] = <<"exit">>
  BY SMT DEF Frame
<1>6. last - m + 5 = 2 + p + 1 + r + 1
  BY SMT, <1>1
<1>7. ASSUME NEW k \in Int
      PROVE  Nth(a, k) = IF k = 1 THEN <<"attached">>
                         ELSE IF k = 2 THEN <<"begin">>
                         ELSE IF k <= 2 + p THEN <<"output", m + (k - 2) - 1>>
                         ELSE IF k = 2 + p + 1 THEN <<"end">>
                         ELSE IF k <= 2 + p + 1 + r THEN <<"output", s + (k - (2 + p + 1))>>
                         ELSE <<"exit">>
  <2>1. /\ s - m + 3 = 2 + p /\ s - m + 4 = 2 + p + 1 /\ last - m + 4 = 2 + p + 1 + r
        /\ m + k - 3 = m + (k - 2) - 1 /\ m + k - 4 = s + (k - (2 + p + 1))
    BY SMT, <1>1
  <2> HIDE DEF p, r
  <2>2. QED
    BY <2>1 DEF Nth
<1> HIDE DEF m, s, p, r, opening, w, x, end, exit
<1> DEFINE b == opening \o w
           c == b \o end
           d == c \o x
           e == d \o exit
<1>8. /\ b \in Seq(Frame) /\ Len(b) = 2 + p
      /\ \A k \in 1..2 : b[k] = opening[k]
      /\ \A k \in (2 + 1)..(2 + p) : b[k] = w[k - 2]
  <2>1. /\ b \in Seq(Frame) /\ Len(b) = Len(opening) + Len(w)
        /\ \A k \in 1..Len(opening) : b[k] = opening[k]
        /\ \A k \in (Len(opening) + 1)..(Len(opening) + Len(w)) : b[k] = w[k - Len(opening)]
    BY <1>3, <1>5, ConcatFacts
  <2> HIDE DEF b
  <2>2. QED
    BY <1>1, <1>3, <1>5, <2>1
<1> HIDE DEF b
<1>9. /\ c \in Seq(Frame) /\ Len(c) = 2 + p + 1
      /\ \A k \in 1..(2 + p) : c[k] = b[k]
      /\ c[2 + p + 1] = end[1]
  <2>1. /\ c \in Seq(Frame) /\ Len(c) = Len(b) + Len(end)
        /\ \A k \in 1..Len(b) : c[k] = b[k]
        /\ \A k \in (Len(b) + 1)..(Len(b) + Len(end)) : c[k] = end[k - Len(b)]
    BY ZenonT(30), <1>5, <1>8, ConcatFacts
  <2> HIDE DEF c
  <2>2. QED
    BY SMT, <1>1, <1>5, <1>8, <2>1
<1> HIDE DEF c
<1>10. /\ d \in Seq(Frame) /\ Len(d) = 2 + p + 1 + r
       /\ \A k \in 1..(2 + p + 1) : d[k] = c[k]
       /\ \A k \in (2 + p + 1 + 1)..(2 + p + 1 + r) : d[k] = x[k - (2 + p + 1)]
  <2>1. /\ d \in Seq(Frame) /\ Len(d) = Len(c) + Len(x)
        /\ \A k \in 1..Len(c) : d[k] = c[k]
        /\ \A k \in (Len(c) + 1)..(Len(c) + Len(x)) : d[k] = x[k - Len(c)]
    BY <1>4, <1>9, ConcatFacts
  <2> HIDE DEF d
  <2>2. QED
    BY <1>1, <1>4, <1>9, <2>1
<1> HIDE DEF d
<1>11. /\ e \in Seq(Frame) /\ Len(e) = 2 + p + 1 + r + 1
       /\ \A k \in 1..(2 + p + 1 + r) : e[k] = d[k]
       /\ e[2 + p + 1 + r + 1] = exit[1]
  <2>1. /\ e \in Seq(Frame) /\ Len(e) = Len(d) + Len(exit)
        /\ \A k \in 1..Len(d) : e[k] = d[k]
        /\ \A k \in (Len(d) + 1)..(Len(d) + Len(exit)) : e[k] = exit[k - Len(d)]
    <3>1. d \in Seq(Frame) /\ exit \in Seq(Frame)
      BY <1>5, <1>10
    <3>2. QED
      BY <3>1, ConcatFacts
  <2> HIDE DEF e
  <2>2. QED
    BY SMT, <1>1, <1>5, <1>10, <2>1
<1>12. Script(a) = e
  BY <1>2 DEF b, c, d, e
<1> HIDE DEF e
<1>13. ASSUME NEW k \in 1..(2 + p + 1 + r + 1) PROVE e[k] = Nth(a, k)
  <2>1. CASE k <= 2
    <3>1. e[k] = opening[k] /\ k \in {1, 2}
      BY SMT, <1>1, <1>8, <1>9, <1>10, <1>11, <2>1
    <3>2. Nth(a, k) = IF k = 1 THEN <<"attached">> ELSE <<"begin">>
      BY SMT, <1>7, <3>1
    <3>3. QED
      BY <1>5, <3>1, <3>2
  <2>2. CASE k > 2 /\ k <= 2 + p
    <3>1. e[k] = w[k - 2] /\ k - 2 \in 1..p
      BY SMTT(30), <1>1, <1>8, <1>9, <1>10, <1>11, <2>2
    <3>2. w[k - 2] = <<"output", m + (k - 2) - 1>>
      BY <1>3, <3>1
    <3>3. QED
      BY SMT, <1>7, <2>2, <3>1, <3>2
  <2>3. CASE k = 2 + p + 1
    <3>1. e[k] = end[1]
      BY SMT, <1>1, <1>9, <1>10, <1>11, <2>3
    <3>2. QED
      BY SMT, <1>1, <1>5, <1>7, <2>3, <3>1
  <2>4. CASE k > 2 + p + 1 /\ k <= 2 + p + 1 + r
    <3>1. e[k] = x[k - (2 + p + 1)] /\ k - (2 + p + 1) \in 1..r
      BY SMT, <1>1, <1>10, <1>11, <2>4
    <3>2. x[k - (2 + p + 1)] = <<"output", s + (k - (2 + p + 1))>>
      BY <1>4, <3>1
    <3>3. QED
      BY SMT, <1>1, <1>7, <2>4, <3>1, <3>2
  <2>5. CASE k = 2 + p + 1 + r + 1
    <3>1. e[k] = <<"exit">>
      BY <1>5, <1>11, <2>5
    <3>2. k # 1 /\ k # 2 /\ ~(k <= 2 + p) /\ k # 2 + p + 1 /\ ~(k <= 2 + p + 1 + r)
      BY SMT, <1>1, <2>5
    <3>3. QED
      BY SMT, <1>7, <3>1, <3>2
  <2>6. QED
    BY SMT, <1>1, <2>1, <2>2, <2>3, <2>4, <2>5
<1>14. QED
  BY <1>6, <1>11, <1>12, <1>13 DEF m

\* Two sequences with the same elements are the same.
LEMMA SameElements ==
  ASSUME NEW S, NEW q \in Seq(S), NEW r \in Seq(S), Len(q) = Len(r),
         \A k \in 1..Len(q) : q[k] = r[k]
  PROVE  q = r
  BY SMT

\* FrameInv says by positions what FramesInOrder says of whole sequences.
LEMMA OrderFromPositions == Types /\ FrameInv => FramesInOrder
<1> SUFFICES ASSUME Types, FrameInv, NEW a \in Attachments
             PROVE  IF late[a] THEN \/ Len(frames[a]) <= 1
                                    \/ frames[a] = <<<<"output", replayLast[a]>>, <<"end">>>>
                    ELSE frames[a] = SubSeq(Script(a), 1, Len(frames[a]))
  BY DEF FramesInOrder
<1>1. CASE late[a]
  BY <1>1 DEF FrameInv, Good, Leftover
<1>2. CASE ~late[a]
  <2> DEFINE n == Len(frames[a])
             script == Script(a)
             part == SubSeq(script, 1, n)
  <2>1. Counting(a) /\ Sequenced(a)
    BY <1>2 DEF FrameInv, Good
  <2>2. /\ script \in Seq(Frame) /\ Len(script) = last - replayFirst[a] + 5
        /\ \A k \in 1..Len(script) : script[k] = Nth(a, k)
    BY <2>1, ScriptFacts
  <2>3. frames[a] \in Seq(Frame) /\ n \in Nat /\ last \in Nat /\ replayFirst[a] \in Nat
    BY SMT DEF Types
  <2>4. n <= Len(script) /\ Len(script) \in Nat
    <3>1. n <= last - replayFirst[a] + 5
      BY SMT, <2>1, <2>3 DEF Sequenced
    <3>2. QED
      BY SMT, <2>2, <3>1
  <2>5. \A k \in 1..n : frames[a][k] = Nth(a, k)
    BY <2>1 DEF Sequenced
  <2> HIDE DEF script, n
  <2>6. part \in Seq(Frame) /\ Len(part) = n /\ \A k \in 1..n : part[k] = script[k]
    BY SMT, <2>2, <2>3, <2>4
  <2>7. \A k \in 1..n : part[k] = frames[a][k]
    BY SMTT(30), <2>2, <2>3, <2>4, <2>5, <2>6
  <2>8. frames[a] = part
    <3> HIDE DEF part
    <3>1. QED
      BY <2>3, <2>6, <2>7, SameElements DEF n
  <2>9. QED
    BY <1>2, <2>8 DEF n, script
<1>3. QED
  BY <1>1, <1>2

\* What does not touch the sink of a leaves its frames as good as they are,
\* unless it activates a, or puts it back into the map after a Detach.
LEMMA KeepsGood ==
  ASSUME Types, NEW a \in Attachments, Good(a),
         UNCHANGED <<last, over, next[a], busy[a], replayFirst[a], replayLast[a], frames[a], late[a]>>,
         port'[a] = "active" => port[a] = "active",
         late[a] => ~Open(a)' /\ a \notin {entry', mine'},
         Announced(a)'
  PROVE  Good(a)'
<1>1. Split(a)' = Split(a) /\ Position(a)' = Position(a)
  BY DEF Split, Position
<1>2. \A k \in 1..Len(frames[a]) : Nth(a, k)' = Nth(a, k)
  BY <1>1 DEF Nth
<1>3. Counting(a)'
  BY <1>1 DEF Good, Counting
<1>4. CASE late[a]
  BY <1>3, <1>4 DEF Good, Leftover
<1>5. CASE ~late[a]
  <2>1. /\ Len(frames[a]) <= last - replayFirst[a] + (IF over THEN 5 ELSE 4)
        /\ \A k \in 1..Len(frames[a]) : frames[a][k] = Nth(a, k)
        /\ port[a] = "active" \/ busy[a] # "no" => Len(frames[a]) = Position(a)
    BY <1>5 DEF Good, Sequenced
  <2>2. Sequenced(a)'
    BY <1>1, <1>2, <2>1 DEF Sequenced
  <2>3. QED
    BY <1>3, <1>5, <2>2 DEF Good
<1>6. QED
  BY <1>4, <1>5 DEF Types

\* What the handler has announced stays so while it does not move.
LEMMA KeepsAnnounced ==
  ASSUME NEW a \in Attachments, Announced(a),
         UNCHANGED <<next[a], busy[a], replayFirst[a], replayLast[a], frames[a], late[a], handler, mine>>,
         port'[a] = "paused" => port[a] = "paused"
  PROVE  Announced(a)'
  BY DEF Announced, Position, Split

\* The sink unchanged, and with it the sink of every attachment.
LEMMA SameSink ==
  ASSUME UNCHANGED sink, NEW a \in Attachments
  PROVE  UNCHANGED <<next[a], busy[a], replayFirst[a], replayLast[a], frames[a], late[a]>>
  BY DEF sink

\* The session publishes a chunk, or exits.
LEMMA SessionFrames ==
  ASSUME Types, FrameInv, Publish \/ SessionExits
  PROVE  FrameInv'
<1> SUFFICES ASSUME NEW a \in Attachments PROVE Good(a)'
  BY DEF FrameInv
<1>1. /\ UNCHANGED <<port, next, busy, replayFirst, replayLast, frames, late, entry, handler, mine>>
      /\ ~over /\ last' \in Nat /\ last <= last'
      /\ last' # last => ~over'
  <2>1. CASE Publish
    BY SMT, <2>1 DEF Publish, sink, handling, Types
  <2>2. CASE SessionExits
    BY SMT, <2>2 DEF SessionExits, sink, handling, Types
  <2>3. QED
    BY <2>1, <2>2
<1>2. /\ last \in Nat /\ replayFirst[a] \in Nat /\ next[a] \in Nat /\ Len(frames[a]) \in Nat
      /\ replayLast[a] \in Nat /\ late[a] \in BOOLEAN
  BY SMT DEF Types
<1>3. Split(a)' = Split(a) /\ Position(a)' = Position(a)
  BY <1>1 DEF Split, Position
<1>4. Split(a) \in Int
  BY SMT, <1>2 DEF Split
<1>5. Counting(a)'
  BY SMTT(30), <1>1, <1>2, <1>3, <1>4 DEF FrameInv, Good, Counting
<1>6. Announced(a)'
  BY <1>1, <1>3 DEF FrameInv, Good, Announced
<1>7. late[a]' => Leftover(a)'
  BY <1>1 DEF FrameInv, Good, Leftover, Open
<1>8. ASSUME ~late[a] PROVE Sequenced(a)'
  <2>1. /\ Len(frames[a]) <= last - replayFirst[a] + 4
        /\ \A k \in 1..Len(frames[a]) : frames[a][k] = Nth(a, k)
        /\ port[a] = "active" \/ busy[a] # "no" => Len(frames[a]) = Position(a)
    BY <1>1, <1>8 DEF FrameInv, Good, Sequenced
  <2>2. ASSUME NEW k \in 1..Len(frames[a]) PROVE Nth(a, k)' = Nth(a, k)
    <3>1. k <= last - replayFirst[a] + 4 /\ k <= last' - replayFirst[a] + 4
      BY SMTT(30), <1>1, <1>2, <2>1
    <3>2. QED
      BY <1>1, <1>3, <3>1 DEF Nth
  <2>3. Len(frames[a]) <= last' - replayFirst[a] + (IF over' THEN 5 ELSE 4)
    BY SMTT(30), <1>1, <1>2, <2>1
  <2>4. QED
    BY <1>1, <1>3, <2>1, <2>2, <2>3 DEF Sequenced
<1>9. QED
  BY <1>1, <1>5, <1>6, <1>7, <1>8 DEF Good

\* The steps of the handler that send nothing for an attachment.
LEMMA RequestFrames ==
  ASSUME MapTypes, MapInv, Types, FrameInv,
         \/ Asks \/ Answer \/ HandlerFails \/ QueueEmpty \/ HandleKill \/ KillReturns \/ HandleBad
         \/ HandleInput \/ InputReturns \/ HandleAttach \/ AttachFails \/ AnnounceFails
         \/ DetachUnanswered
  PROVE  FrameInv'
<1> SUFFICES ASSUME NEW a \in Attachments PROVE Good(a)'
  BY DEF FrameInv
<1>1. /\ UNCHANGED <<last, over, port, entry>> /\ UNCHANGED sink
      /\ mine' \in {mine, None}
      /\ mine' # None => handler' \notin Announcing \cup {"activate"}
  <2> USE DEF session, sink, handling, Goto, Respond, Announcing
  <2>1. CASE Asks \/ Answer \/ HandlerFails \/ QueueEmpty
    BY <2>1 DEF Asks, Answer, HandlerFails, QueueEmpty
  <2>2. CASE HandleKill \/ KillReturns \/ HandleBad
    BY <2>2 DEF HandleKill, KillReturns, HandleBad
  <2>3. CASE HandleInput \/ InputReturns
    BY <2>3 DEF HandleInput, InputReturns
  <2>4. CASE HandleAttach \/ AttachFails \/ AnnounceFails \/ DetachUnanswered
    BY <2>4 DEF HandleAttach, AttachFails, AnnounceFails, DetachUnanswered
  <2>5. QED
    BY <2>1, <2>2, <2>3, <2>4
<1>2. Good(a) /\ a # None
  BY ProtocolAssumption DEF FrameInv
<1>3. Announced(a)'
  BY <1>1, <1>2 DEF Announced, Announcing
<1>4. late[a] => ~Open(a)' /\ a \notin {entry', mine'}
  BY <1>1, <1>2 DEF Good, Leftover, Open
<1>5. QED
  BY <1>1, <1>2, <1>3, <1>4, KeepsGood, SameSink

\* An attachment starts with no frames, and Done leaves it so.
LEMMA RenewFacts ==
  ASSUME Types, NEW a \in Attachments, NEW n \in 1..(last + 1), NEW m \in {0, last}, m # 0 => n <= m,
         Renew(a, n, m), UNCHANGED <<last, over>>, port'[a] # "active"
  PROVE  /\ Types' /\ Counting(a)' /\ Sequenced(a)'
         /\ next'[a] = n /\ replayFirst'[a] = n /\ busy'[a] = "no" /\ ~late'[a] /\ frames'[a] = <<>>
         /\ \A b \in Attachments : b # a =>
              UNCHANGED <<next[b], busy[b], replayFirst[b], replayLast[b], frames[b], late[b]>>
<1>1. Types'
  BY SMT DEF Types, Renew
<1>2. /\ next'[a] = n /\ replayFirst'[a] = n /\ replayLast'[a] = m /\ busy'[a] = "no" /\ ~late'[a]
      /\ frames'[a] = <<>>
  BY DEF Types, Renew
<1>3. Counting(a)'
  BY SMT, <1>2 DEF Types, Counting, Split
<1>4. Len(frames'[a]) = 0
  BY SMT, <1>2
<1>5. Sequenced(a)'
  BY SMT, <1>2, <1>4 DEF Types, Sequenced
<1>6. QED
  BY SMT, <1>1, <1>2, <1>3, <1>5 DEF Types, Renew

\* handleAttach has its attachment.
LEMMA AttachedFrames ==
  ASSUME MapTypes, MapInv, Types, FrameInv, NEW a \in Attachments, NEW n \in 1..(last + 1), Attached(a, n)
  PROVE  FrameInv'
<1> DEFINE m == IF n > last THEN 0 ELSE last
<1>1. /\ Renew(a, n, m) /\ port' = [port EXCEPT ![a] = "paused"]
      /\ handler = "attaching" /\ handler' = "insert" /\ mine' = a /\ UNCHANGED <<last, over, entry>>
  BY DEF Attached, Goto, session
<1>2. m \in {0, last} /\ (m # 0 => n <= m) /\ port'[a] = "paused"
  BY SMT, <1>1 DEF Types, MapTypes
<1> HIDE DEF m
<1>3. /\ Counting(a)' /\ Sequenced(a)'
      /\ next'[a] = n /\ replayFirst'[a] = n /\ busy'[a] = "no" /\ ~late'[a] /\ frames'[a] = <<>>
      /\ \A b \in Attachments : b # a =>
           UNCHANGED <<next[b], busy[b], replayFirst[b], replayLast[b], frames[b], late[b]>>
  BY <1>1, <1>2, RenewFacts
<1>4. Good(a)'
  BY <1>1, <1>3 DEF Good, Announced, Announcing
<1>5. ASSUME NEW b \in Attachments, b # a PROVE Good(b)'
  <2>1. Good(b) /\ Announced(b)' /\ port'[b] = port[b]
    BY <1>1, <1>5 DEF FrameInv, Announced, MapTypes
  <2>2. late[b] => ~Open(b)' /\ b \notin {entry', mine'}
    BY <1>1, <1>5, <2>1 DEF Good, Leftover, Open
  <2>3. QED
    BY <1>1, <1>3, <1>5, <2>1, <2>2, KeepsGood
<1>6. QED
  BY <1>4, <1>5 DEF FrameInv

\* One more frame for a.
LEMMA EmitFacts ==
  ASSUME Types, NEW a \in Attachments, NEW f \in Frame, Emit(a, f)
  PROVE  /\ frames' \in [Attachments -> Seq(Frame)] /\ late' = late
         /\ Len(frames'[a]) = Len(frames[a]) + 1 /\ Len(frames[a]) \in Nat
         /\ \A k \in 1..Len(frames[a]) : frames'[a][k] = frames[a][k]
         /\ frames'[a][Len(frames[a]) + 1] = f
         /\ \A b \in Attachments : b # a => frames'[b] = frames[b]
<1>1. frames'[a] = Append(frames[a], f) /\ frames[a] \in Seq(Frame)
  BY DEF Types, Emit
<1>2. frames' \in [Attachments -> Seq(Frame)] /\ \A b \in Attachments : b # a => frames'[b] = frames[b]
  BY SMT, <1>1 DEF Types, Emit
<1>3. QED
  BY SMT, <1>1, <1>2 DEF Emit

\* Appending what the script has next keeps the order.
LEMMA NextOfScript ==
  ASSUME Types, NEW a \in Attachments, NEW f \in Frame, Emit(a, f), ~late[a],
         \A k \in 1..Len(frames[a]) : frames[a][k] = Nth(a, k),
         f = Nth(a, Len(frames[a]) + 1),
         UNCHANGED <<last, over, replayFirst[a], replayLast[a]>>
  PROVE  /\ Len(frames'[a]) = Len(frames[a]) + 1 /\ ~late'[a] /\ Split(a)' = Split(a)
         /\ \A k \in 1..Len(frames'[a]) : frames'[a][k] = Nth(a, k)'
<1>1. \A k \in Int : Nth(a, k)' = Nth(a, k)
  BY DEF Nth, Split
<1>2. /\ Len(frames'[a]) = Len(frames[a]) + 1 /\ Len(frames[a]) \in Nat /\ late' = late
      /\ \A k \in 1..Len(frames[a]) : frames'[a][k] = frames[a][k]
      /\ frames'[a][Len(frames[a]) + 1] = f
  BY EmitFacts
<1>3. ASSUME NEW k \in 1..(Len(frames[a]) + 1) PROVE frames'[a][k] = Nth(a, k)
  <2>1. CASE k <= Len(frames[a])
    BY SMT, <1>2, <2>1
  <2>2. CASE k = Len(frames[a]) + 1
    BY <1>2, <2>2
  <2>3. QED
    BY SMT, <1>2, <2>1, <2>2
<1>4. QED
  BY SMT, <1>1, <1>2, <1>3 DEF Split

\* The response, ReplayBegin and the ReplayEnd of an empty replay come first.
LEMMA AnnounceFrames ==
  ASSUME MapTypes, MapInv, Types, FrameInv, Announce
  PROVE  FrameInv'
<1>1. /\ UNCHANGED <<last, over, port, next, busy, replayFirst, replayLast, entry, mine>>
      /\ handler \in {"respond", "begin", "end"}
  BY DEF Announce, session, Goto
<1>2. PICK a \in Attachments : a = mine /\ port[a] # "active"
  BY <1>1 DEF MapTypes, MapInv, Held, Inserted, Announcing
<1> DEFINE m == replayFirst[a]
<1>3. PICK f \in Frame : Emit(a, f)
  BY <1>2 DEF Announce, Frame
<1>4. /\ Good(a) /\ ~late[a] /\ busy[a] = "no" /\ next[a] = m /\ Sequenced(a) /\ Counting(a)
  BY <1>1, <1>2 DEF FrameInv, Good, Announced, Announcing
<1>5. /\ last \in Nat /\ m \in Nat /\ Split(a) \in Int /\ m <= last + 1 /\ m <= Split(a) + 1
      /\ Len(frames[a]) \in Nat
  BY SMT, <1>2, <1>4 DEF Types, Counting, Split
<1>6. \/ Len(frames[a]) = 0 /\ Emit(a, <<"attached">>) /\ handler' = "begin"
      \/ /\ Len(frames[a]) = 1 /\ Emit(a, <<"begin">>)
         /\ handler' = IF replayLast[a] = 0 THEN "end" ELSE "activate"
      \/ Len(frames[a]) = 2 /\ Emit(a, <<"end">>) /\ handler' = "activate" /\ replayLast[a] = 0
  BY <1>2, <1>4 DEF Announce, Goto, Good, Announced
<1>7. PICK g \in Frame : Emit(a, g) /\ g = Nth(a, Len(frames[a]) + 1)
  <2>1. Nth(a, 1) = <<"attached">> /\ Nth(a, 2) = <<"begin">>
    BY SMT DEF Nth
  <2>2. replayLast[a] = 0 => Nth(a, 3) = <<"end">>
    BY SMT, <1>5 DEF Nth, Split
  <2>3. <<"attached">> \in Frame /\ <<"begin">> \in Frame /\ <<"end">> \in Frame
    BY DEF Frame
  <2>4. CASE Len(frames[a]) = 0
    BY SMT, <1>6, <2>1, <2>3, <2>4
  <2>5. CASE Len(frames[a]) = 1
    BY SMT, <1>6, <2>1, <2>3, <2>5
  <2>6. CASE Len(frames[a]) = 2
    BY SMT, <1>6, <2>2, <2>3, <2>6
  <2>7. QED
    BY <1>6, <2>4, <2>5, <2>6
<1>8. /\ Len(frames'[a]) = Len(frames[a]) + 1 /\ ~late'[a] /\ Split(a)' = Split(a)
      /\ \A k \in 1..Len(frames'[a]) : frames'[a][k] = Nth(a, k)'
  BY <1>1, <1>2, <1>4, <1>7, NextOfScript DEF Sequenced
<1>9. Good(a)'
  <2>1. Counting(a)'
    BY <1>1, <1>4, <1>8 DEF Counting
  <2> DEFINE l == Len(frames[a])
  <2>0. /\ Len(frames'[a]) = l + 1
        /\ \/ l = 0 /\ handler' = "begin"
           \/ l = 1 /\ replayLast[a] = 0 /\ handler' = "end"
           \/ l = 1 /\ replayLast[a] # 0 /\ handler' = "activate"
           \/ l = 2 /\ replayLast[a] = 0 /\ handler' = "activate"
    BY <1>6, <1>8
  <2> HIDE DEF l
  <2>2. Len(frames'[a]) <= last' - replayFirst'[a] + (IF over' THEN 5 ELSE 4)
    <3>1. PICK j \in 1..3 : j = Len(frames'[a])
      BY SMT, <2>0
    <3>2. last' = last /\ replayFirst'[a] = m
      BY <1>1
    <3> HIDE DEF m
    <3>3. 3 <= last - m + 4 /\ 3 <= last - m + 5
      BY SMT, <1>5
    <3>4. j <= last - m + 4 /\ j <= last - m + 5
      BY SMT, <1>5, <3>3
    <3>5. QED
      BY <3>1, <3>2, <3>4
  <2>3. Sequenced(a)'
    BY <1>1, <1>2, <1>4, <1>8, <2>2 DEF Sequenced
  <2>4. handler' = "activate" => Len(frames'[a]) = Position(a)'
    <3>1. Position(a)' = next[a] - m + (IF next[a] <= Split(a) \/ busy[a] = "end" THEN 2 ELSE 3)
      BY <1>1, <1>8 DEF Position
    <3>2. replayLast[a] # 0 => m <= Split(a)
      BY <1>4, <1>5 DEF Counting, Split
    <3>3. replayLast[a] = 0 => Split(a) = m - 1
      BY DEF Split
    <3>4. QED
      BY SMT, <1>4, <1>5, <2>0, <3>1, <3>2, <3>3
  <2>5. Announced(a)'
    <3>1. /\ handler' \in {"begin", "end", "activate"}
          /\ handler' = "begin" => Len(frames'[a]) = 1
          /\ handler' = "end" => Len(frames'[a]) = 2 /\ replayLast'[a] = 0
      BY SMT, <1>1, <2>0
    <3>2. QED
      BY <1>1, <1>4, <1>8, <2>4, <3>1 DEF Announced
  <2>6. QED
    BY <1>8, <2>1, <2>3, <2>5 DEF Good
<1>10. ASSUME NEW b \in Attachments, b # a PROVE Good(b)'
  <2>1. frames'[b] = frames[b] /\ late' = late
    BY <1>2, <1>3, <1>10, EmitFacts
  <2>2. Good(b) /\ Announced(b)'
    BY <1>1, <1>2, <1>10 DEF FrameInv, Announced
  <2>3. late[b] => ~Open(b)' /\ b \notin {entry', mine'}
    BY <1>1, <2>2 DEF Good, Leftover, Open
  <2>4. QED
    BY <1>1, <2>1, <2>2, <2>3, KeepsGood
<1>11. QED
  BY <1>9, <1>10 DEF FrameInv

\* The handler moves on without sending: nothing is activated.
LEMMA MovesFrames ==
  ASSUME MapTypes, MapInv, Types, FrameInv, Insert \/ Cleanup \/ HandleDetach \/ DetachCloses
  PROVE  FrameInv'
<1> SUFFICES ASSUME NEW a \in Attachments PROVE Good(a)'
  BY DEF FrameInv
<1>1. Good(a) /\ a # None
  BY ProtocolAssumption DEF FrameInv
<1>2. UNCHANGED <<last, over>> /\ UNCHANGED sink
  BY DEF Insert, Cleanup, HandleDetach, DetachCloses, session
<1>3. port'[a] = port[a] \/ port'[a] = "closed"
  BY <1>1 DEF Insert, Cleanup, HandleDetach, DetachCloses, Finish, MapTypes
<1>4. Announced(a)'
  <2>1. CASE Insert
    BY <1>1, <1>2, <2>1 DEF Insert, Goto, Good, Announced, Announcing, sink
  <2>2. CASE Cleanup \/ HandleDetach \/ DetachCloses
    BY <2>2 DEF Cleanup, HandleDetach, DetachCloses, Goto, Announced, Announcing
  <2>3. QED
    BY <2>1, <2>2
<1>5. late[a] => ~Open(a)' /\ a \notin {entry', mine'}
  <2>1. late[a] => port[a] \notin {"paused", "active"} /\ a # entry /\ a # mine
    BY <1>1 DEF Good, Leftover, Open
  <2>2. entry' \in {entry, mine, None} /\ mine' \in {entry, mine}
    BY DEF Insert, Cleanup, HandleDetach, DetachCloses
  <2>3. QED
    BY <1>1, <1>3, <2>1, <2>2 DEF Open
<1>6. QED
  BY <1>1, <1>2, <1>3, <1>4, <1>5, KeepsGood, SameSink

\* Activate finds the announcement complete.
LEMMA ActivateFrames ==
  ASSUME MapTypes, MapInv, Types, FrameInv, Activate
  PROVE  FrameInv'
<1> SUFFICES ASSUME NEW a \in Attachments PROVE Good(a)'
  BY DEF FrameInv
<1>1. Good(a) /\ a # None /\ mine \in Attachments
  BY ProtocolAssumption DEF FrameInv, Activate, MapTypes, MapInv, Held, Inserted
<1>2. UNCHANGED <<last, over, entry>> /\ UNCHANGED sink /\ handler = "activate"
  BY DEF Activate, session
<1>3. /\ mine' \in {mine, None} /\ handler' \in {"idle", "cleanup"}
      /\ port'[a] # port[a] => a = mine /\ port[a] = "paused" /\ mine' = None
  BY <1>1 DEF Activate, MapTypes
<1>4. Announced(a)'
  BY <1>3 DEF Announced, Announcing
<1>5. CASE port'[a] = port[a]
  <2>1. late[a] => ~Open(a)' /\ a \notin {entry', mine'}
    BY <1>1, <1>2, <1>3, <1>5 DEF Good, Leftover, Open
  <2>2. QED
    BY <1>1, <1>2, <1>4, <1>5, <2>1, KeepsGood, SameSink
<1>6. CASE port'[a] # port[a]
  <2>1. ~late[a] /\ Len(frames[a]) = Position(a)
    BY <1>1, <1>2, <1>3, <1>6 DEF Good, Announced
  <2>2. UNCHANGED <<next[a], busy[a], replayFirst[a], replayLast[a], frames[a], late[a]>>
    BY <1>2, SameSink
  <2>3. Split(a)' = Split(a) /\ Position(a)' = Position(a)
    BY <2>2 DEF Split, Position
  <2>4. Counting(a)'
    BY <1>1, <1>2, <2>2, <2>3 DEF Good, Counting
  <2>5. \A k \in 1..Len(frames[a]) : Nth(a, k)' = Nth(a, k)
    BY <1>2, <2>2, <2>3 DEF Nth
  <2>6. Sequenced(a)'
    BY <1>1, <1>2, <2>1, <2>2, <2>3, <2>5 DEF Good, Sequenced
  <2>7. QED
    BY <1>4, <2>1, <2>2, <2>4, <2>6 DEF Good
<1>7. QED
  BY <1>5, <1>6

\* From the answer to Detach on the frames are counted anew, if there are more.
LEMMA AnsweredFrames ==
  ASSUME MapTypes, MapInv, Types, FrameInv, DetachAnswered
  PROVE  FrameInv'
<1> SUFFICES ASSUME NEW a \in Attachments PROVE Good(a)'
  BY DEF FrameInv
<1>1. Good(a) /\ a # None /\ mine \in Attachments /\ ~Open(mine) /\ entry = None
  BY ProtocolAssumption DEF FrameInv, DetachAnswered, MapTypes, MapInv, Held
<1>2. /\ UNCHANGED <<last, over, entry, port, next, busy, replayFirst, replayLast>> /\ mine' = None
      /\ handler' \in {"idle", "fail"}
  BY DEF DetachAnswered, Respond, session
<1>3. Announced(a)'
  BY <1>1, <1>2 DEF Announced
<1>4. late[a] => a # mine
  BY <1>1 DEF Good, Leftover
<1>5. \/ frames'[a] = frames[a] /\ (late'[a] = late[a] \/ (~late[a] /\ ~late'[a]))
      \/ a = mine /\ frames'[a] = <<>> /\ late'[a] = TRUE
  <2>1. CASE a # mine
    BY <2>1 DEF DetachAnswered, Types
  <2>2. CASE a = mine
    BY <1>4, <2>2 DEF DetachAnswered, Types
  <2>3. QED
    BY <2>1, <2>2
<1>6. CASE frames'[a] = frames[a] /\ (late'[a] = late[a] \/ (~late[a] /\ ~late'[a]))
  <2>1. late'[a] = late[a]
    BY <1>6 DEF DetachAnswered, Types
  <2>2. late[a] => ~Open(a)' /\ a \notin {entry', mine'}
    BY <1>1, <1>2 DEF Good, Leftover, Open
  <2>3. QED
    BY <1>1, <1>2, <1>3, <1>6, <2>1, <2>2, KeepsGood
<1>7. CASE a = mine /\ frames'[a] = <<>> /\ late'[a] = TRUE
  <2>1. Counting(a)'
    BY <1>1, <1>2 DEF Good, Counting, Split
  <2>2. Len(frames'[a]) = 0
    BY <1>7
  <2>3. Leftover(a)'
    BY SMT, <1>1, <1>2, <1>7, <2>2 DEF Leftover, Open
  <2>4. QED
    BY <1>3, <1>7, <2>1, <2>3 DEF Good
<1>8. QED
  BY <1>5, <1>6, <1>7

\* An attachment is closed or watched, Protocol.Close and the Peer go on.
LEMMA ClosingFrames ==
  ASSUME MapTypes, MapInv, Types, FrameInv,
         \/ TransportFails \/ Close \/ CloseTakes \/ CloseReturns
         \/ \E b \in Attachments : Breaks(b) \/ Delivered(b) \/ ContextCloses(b) \/ Watching(b)
  PROVE  FrameInv'
<1> SUFFICES ASSUME NEW a \in Attachments PROVE Good(a)'
  BY DEF FrameInv
<1>1. Good(a) /\ a # None
  BY ProtocolAssumption DEF FrameInv
<1>2. /\ UNCHANGED <<last, over, handler, mine>> /\ UNCHANGED sink
      /\ entry' \in {entry, None}
      /\ port'[a] = port[a] \/ port'[a] \in {"closed", "failed"}
  <2>1. CASE TransportFails \/ Close \/ CloseTakes \/ CloseReturns
    BY <2>1 DEF TransportFails, Close, CloseTakes, CloseReturns, Finish, MapTypes, session, handling
  <2>2. ASSUME NEW b \in Attachments, Breaks(b) \/ Delivered(b) \/ ContextCloses(b)
        PROVE  /\ UNCHANGED <<last, over, handler, mine, entry>> /\ UNCHANGED sink
               /\ port'[a] = port[a] \/ port'[a] \in {"closed", "failed"}
    BY <2>2 DEF Breaks, Delivered, ContextCloses, Finish, MapTypes, session, handling
  <2>3. ASSUME NEW b \in Attachments, Watching(b)
        PROVE  /\ UNCHANGED <<last, over, handler, mine, port>> /\ UNCHANGED sink
               /\ entry' \in {entry, None}
    BY <2>3 DEF Watching, WatchDone, WatchCanceled, Report, PeerCloseReturns, session, handling
  <2>4. QED
    BY <2>1, <2>2, <2>3
<1>3. Announced(a)'
  BY <1>1, <1>2, KeepsAnnounced, SameSink DEF Good
<1>4. late[a] => ~Open(a)' /\ a \notin {entry', mine'}
  BY <1>1, <1>2 DEF Good, Leftover, Open
<1>5. QED
  BY <1>1, <1>2, <1>3, <1>4, KeepsGood, SameSink

\* A step of the worker or the sink of a leaves the other attachments alone.
LEMMA OthersGood ==
  ASSUME MapTypes, Types, FrameInv, NEW a \in Attachments, NEW b \in Attachments, b # a,
         UNCHANGED <<last, over, entry, handler, mine>>, port'[b] = port[b],
         UNCHANGED <<next[b], busy[b], replayFirst[b], replayLast[b], frames[b], late[b]>>
  PROVE  Good(b)'
<1>1. Good(b) /\ Announced(b)
  BY DEF FrameInv, Good
<1>2. Announced(b)'
  BY <1>1, KeepsAnnounced
<1>3. late[b] => ~Open(b)' /\ b \notin {entry', mine'}
  BY <1>1 DEF Good, Leftover, Open
<1>4. QED
  BY <1>1, <1>2, <1>3, KeepsGood

\* The worker hands the next event to the sink.
LEMMA TakesFrames ==
  ASSUME MapTypes, MapInv, Types, FrameInv, NEW a \in Attachments, Takes(a)
  PROVE  FrameInv'
<1>1. /\ port[a] = "active" /\ busy[a] = "no" /\ next[a] <= (IF over THEN last + 1 ELSE last)
      /\ busy'[a] = "event" /\ \A b \in Attachments : b # a => busy'[b] = busy[b]
      /\ UNCHANGED <<last, over, port, next, replayFirst, replayLast, frames, late, entry, handler, mine>>
  BY DEF Takes, Types, session, handling
<1>2. Good(a) /\ ~late[a]
  BY <1>1 DEF FrameInv, Good, Leftover, Open
<1>3. Split(a)' = Split(a) /\ Position(a)' = Position(a)
  BY <1>1 DEF Split, Position
<1>4. Counting(a)'
  BY <1>1, <1>2, <1>3 DEF Good, Counting
<1>5. Announced(a)'
  BY <1>1 DEF MapInv, Held, Announced, Announcing
<1>6. \A k \in 1..Len(frames[a]) : Nth(a, k)' = Nth(a, k)
  BY <1>1, <1>3 DEF Nth
<1>7. Sequenced(a)'
  BY <1>1, <1>2, <1>3, <1>6 DEF Good, Sequenced
<1>8. Good(a)'
  BY <1>1, <1>2, <1>4, <1>5, <1>7 DEF Good
<1>9. QED
  BY <1>1, <1>8, OthersGood DEF FrameInv

\* The worker has left the sink.
LEMMA DoneFrames ==
  ASSUME MapTypes, MapInv, Types, FrameInv, NEW a \in Attachments, Done(a)
  PROVE  FrameInv'
<1>1. /\ UNCHANGED <<last, over, entry, handler, mine>> /\ ~Open(a)' /\ port'[a] \in {"broken", "done"}
      /\ \A b \in Attachments : b # a => port'[b] = port[b]
  BY DEF Done, Open, MapTypes, session, handling
<1>2. CASE UNCHANGED sink
  <2>1. Good(a) /\ Announced(a)
    BY DEF FrameInv, Good
  <2>2. Announced(a)'
    BY <1>1, <1>2, <2>1, KeepsAnnounced, SameSink
  <2>3. late[a] => ~Open(a)' /\ a \notin {entry', mine'}
    BY <1>1, <2>1 DEF Good, Leftover
  <2>4. Good(a)'
    BY <1>1, <1>2, <2>1, <2>2, <2>3, KeepsGood, SameSink
  <2>5. QED
    BY <1>1, <1>2, <2>4, OthersGood, SameSink DEF FrameInv
<1>3. CASE Renew(a, 1, 0) /\ ~(mine = a /\ handler \in Announcing)
  <2>1. 1 \in 1..(last + 1)
    BY SMT DEF Types
  <2>2. /\ Counting(a)' /\ Sequenced(a)' /\ busy'[a] = "no" /\ ~late'[a]
        /\ \A b \in Attachments : b # a =>
             UNCHANGED <<next[b], busy[b], replayFirst[b], replayLast[b], frames[b], late[b]>>
    BY <1>1, <1>3, <2>1, RenewFacts
  <2>3. Announced(a)'
    BY <1>1, <1>3, <2>2 DEF Announced, Announcing
  <2>4. Good(a)'
    BY <2>2, <2>3 DEF Good
  <2>5. QED
    BY <1>1, <2>2, <2>4, OthersGood DEF FrameInv
<1>4. QED
  BY <1>2, <1>3 DEF Done

\* While its sink is sending, a is past its announcement.
LEMMA BusyFacts ==
  ASSUME Types, FrameInv, NEW a \in Attachments, busy[a] # "no"
  PROVE  /\ Good(a) /\ Counting(a)
         /\ mine = a => handler \notin Announcing \cup {"activate"}
         /\ late[a] => Leftover(a)
         /\ ~late[a] => Sequenced(a) /\ Len(frames[a]) = Position(a)
         /\ Event(a) \in Frame
<1>1. Good(a)
  BY DEF FrameInv
<1>2. Event(a) \in Frame
  BY DEF Event, Frame, Types
<1>3. QED
  BY <1>1, <1>2 DEF Good, Announced, Sequenced

\* The frame of the event, or ReplayEnd, is what the script has next.
LEMMA Scripted ==
  ASSUME Types, FrameInv, NEW a \in Attachments, busy[a] # "no", ~late[a]
  PROVE  /\ busy[a] = "event" => Nth(a, Len(frames[a]) + 1) = Event(a)
         /\ busy[a] = "end" => Nth(a, Len(frames[a]) + 1) = <<"end">>
         /\ Len(frames[a]) + 1 <= last - replayFirst[a] + (IF over THEN 5 ELSE 4)
<1> DEFINE n == next[a]  m == replayFirst[a]  s == Split(a)  k == Len(frames[a]) + 1
<1>1. /\ n \in Nat \ {0} /\ m \in Nat \ {0} /\ last \in Nat /\ s \in Int
      /\ busy[a] \in {"no", "event", "end"} /\ replayLast[a] \in Nat
  BY SMT DEF Types, Split
<1>2. /\ m <= n /\ m <= s + 1 /\ s <= last
      /\ busy[a] = "event" => n <= (IF over THEN last + 1 ELSE last)
      /\ busy[a] = "end" => n = s + 1
  BY BusyFacts DEF Counting, Split
<1>3. k = n - m + (IF n <= s \/ busy[a] = "end" THEN 3 ELSE 4)
  <2>1. Len(frames[a]) = n - m + (IF n <= s \/ busy[a] = "end" THEN 2 ELSE 3)
    BY BusyFacts DEF Position
  <2> HIDE DEF n, m, s
  <2>2. QED
    BY SMT, <1>1, <2>1
<1>4. Nth(a, k) = IF k = 1 THEN <<"attached">>
                  ELSE IF k = 2 THEN <<"begin">>
                  ELSE IF k <= s - m + 3 THEN <<"output", m + k - 3>>
                  ELSE IF k = s - m + 4 THEN <<"end">>
                  ELSE IF k <= last - m + 4 THEN <<"output", m + k - 4>>
                  ELSE <<"exit">>
  BY DEF Nth
<1>5. Event(a) = IF n > last THEN <<"exit">> ELSE <<"output", n>>
  BY DEF Event
<1> HIDE DEF n, m, s, k
<1>6. ASSUME busy[a] = "event", n <= s PROVE Nth(a, k) = Event(a) /\ k <= last - m + 4
  <2>1. /\ k # 1 /\ k # 2 /\ k <= s - m + 3 /\ m + k - 3 = n /\ ~(n > last)
        /\ k <= last - m + 4
    BY SMT, <1>1, <1>2, <1>3, <1>6
  <2>2. QED
    BY <1>4, <1>5, <2>1
<1>7. ASSUME busy[a] = "event", n > s, n <= last PROVE Nth(a, k) = Event(a) /\ k <= last - m + 4
  <2>1. /\ k # 1 /\ k # 2 /\ ~(k <= s - m + 3) /\ k # s - m + 4 /\ k <= last - m + 4
        /\ m + k - 4 = n /\ ~(n > last)
    BY SMT, <1>1, <1>2, <1>3, <1>7
  <2>2. QED
    BY <1>4, <1>5, <2>1
<1>8. ASSUME busy[a] = "event", n > last PROVE Nth(a, k) = Event(a) /\ over /\ k <= last - m + 5
  <2>1. over /\ n = last + 1
    BY SMT, <1>1, <1>2, <1>8
  <2>2. /\ k # 1 /\ k # 2 /\ ~(k <= s - m + 3) /\ k # s - m + 4 /\ ~(k <= last - m + 4)
        /\ k <= last - m + 5
    BY SMT, <1>1, <1>2, <1>3, <1>8, <2>1
  <2>3. QED
    BY <1>4, <1>5, <1>8, <2>1, <2>2
<1>9. ASSUME busy[a] = "end" PROVE Nth(a, k) = <<"end">> /\ k <= last - m + 4
  <2>1. k # 1 /\ k # 2 /\ ~(k <= s - m + 3) /\ k = s - m + 4 /\ k <= last - m + 4
    BY SMT, <1>1, <1>2, <1>3, <1>9
  <2>2. QED
    BY <1>4, <2>1
<1>10. k <= last - m + (IF over THEN 5 ELSE 4)
  <2>1. k \in Int
    BY SMT, <1>1, <1>3
  <2>2. k <= last - m + 4 => k <= last - m + 5
    BY SMT, <1>1, <2>1
  <2>3. QED
    BY SMT, <1>1, <1>6, <1>7, <1>8, <1>9, <2>2
<1>11. QED
  BY SMT, <1>1, <1>6, <1>7, <1>8, <1>9, <1>10 DEF k, m

\* The sink sends the frame of its event, also when the attachment was closed.
LEMMA SendsFrames ==
  ASSUME MapTypes, MapInv, Types, FrameInv, NEW a \in Attachments, SinkSends(a)
  PROVE  FrameInv'
<1>1. /\ busy[a] = "event" /\ Emit(a, Event(a)) /\ next'[a] = next[a] + 1
      /\ busy'[a] = IF LastOfReplay(a) THEN "end" ELSE "no"
      /\ \A b \in Attachments : b # a => next'[b] = next[b] /\ busy'[b] = busy[b]
      /\ UNCHANGED <<last, over, port, replayFirst, replayLast, entry, handler, mine>>
  BY DEF SinkSends, Types, session, handling
<1>2. /\ Counting(a) /\ Event(a) \in Frame
      /\ mine = a => handler \notin Announcing \cup {"activate"}
      /\ late[a] => Leftover(a)
      /\ ~late[a] => Sequenced(a) /\ Len(frames[a]) = Position(a)
  BY <1>1, BusyFacts
<1>3. /\ late' = late /\ Len(frames'[a]) = Len(frames[a]) + 1
      /\ \A b \in Attachments : b # a => frames'[b] = frames[b]
  BY <1>1, <1>2, EmitFacts
<1>4. /\ next[a] \in Nat \ {0} /\ replayFirst[a] \in Nat \ {0} /\ last \in Nat /\ Split(a) \in Int
      /\ replayLast[a] \in Nat /\ Split(a)' = Split(a)
  BY SMTT(30), <1>1 DEF Types, Split
<1>5. Counting(a)'
  <2>1. LastOfReplay(a) => replayLast'[a] # 0 /\ next'[a] = replayLast'[a] + 1
    BY <1>1 DEF LastOfReplay
  <2>2. next'[a] <= (IF over THEN last + 2 ELSE last + 1)
    BY SMT, <1>1, <1>2, <1>4 DEF Counting
  <2>3. QED
    BY SMT, <1>1, <1>2, <1>4, <2>1, <2>2 DEF Counting
<1>6. Announced(a)'
  BY <1>1, <1>2 DEF Announced, Announcing
<1>7. ASSUME ~late[a] PROVE Sequenced(a)'
  <2>1. /\ Nth(a, Len(frames[a]) + 1) = Event(a)
        /\ Len(frames[a]) + 1 <= last - replayFirst[a] + (IF over THEN 5 ELSE 4)
    BY <1>1, <1>7, Scripted
  <2>2. \A k \in 1..Len(frames'[a]) : frames'[a][k] = Nth(a, k)'
    BY <1>1, <1>2, <1>7, <2>1, NextOfScript DEF Sequenced
  <2>3. Len(frames'[a]) = Position(a)'
    <3> DEFINE n == next[a]  m == replayFirst[a]  s == Split(a)
    <3>1. Len(frames[a]) = n - m + (IF n <= s THEN 2 ELSE 3)
      BY <1>1, <1>2, <1>7 DEF Position
    <3>2. Position(a)' = (n + 1) - m + (IF n + 1 <= s \/ LastOfReplay(a) THEN 2 ELSE 3)
      BY <1>1, <1>4 DEF Position
    <3>3. (n + 1 <= s \/ LastOfReplay(a)) <=> n <= s
      <4>1. m <= n /\ (replayLast[a] = 0 => s = m - 1) /\ (replayLast[a] # 0 => s = replayLast[a])
        BY <1>2 DEF Counting, Split
      <4>2. QED
        BY SMT, <1>4, <4>1 DEF LastOfReplay
    <3> HIDE DEF n, m, s
    <3>4. n \in Nat /\ m \in Nat /\ s \in Int
      BY <1>4 DEF n, m, s
    <3>5. PICK l \in Int : l = Len(frames[a]) /\ l + 1 = Len(frames'[a])
      BY SMT, <1>3, <3>1, <3>4
    <3>6. l + 1 = (n + 1) - m + (IF n <= s THEN 2 ELSE 3)
      BY SMT, <3>1, <3>4, <3>5
    <3>7. QED
      BY <3>2, <3>3, <3>5, <3>6
  <2>4. QED
    BY <1>1, <1>3, <2>1, <2>2, <2>3 DEF Sequenced
<1>8. ASSUME late[a] PROVE Leftover(a)'
  <2>1. frames[a] = <<>> /\ ~Open(a) /\ a \notin {entry, mine}
    BY <1>1, <1>2, <1>8 DEF Leftover
  <2>2. frames'[a] = <<Event(a)>> /\ Len(frames'[a]) = 1
    BY SMTT(30), <1>1, <1>3, <2>1 DEF Emit, Types
  <2>3. LastOfReplay(a) => Event(a) = <<"output", replayLast[a]>>
    BY SMT, <1>2, <1>4 DEF LastOfReplay, Event, Counting, Split
  <2>4. QED
    BY SMT, <1>1, <2>1, <2>2, <2>3 DEF Leftover, Open
<1>9. Good(a)'
  BY <1>3, <1>5, <1>6, <1>7, <1>8 DEF Good
<1>10. ASSUME NEW b \in Attachments, b # a PROVE Good(b)'
  BY <1>1, <1>3, <1>10, OthersGood
<1>11. QED
  BY <1>9, <1>10 DEF FrameInv

\* A sink that ends its call, with one more frame or without.
LEMMA SinkStops ==
  ASSUME MapTypes, Types, FrameInv, NEW a \in Attachments, busy[a] # "no", busy'[a] = "no",
         \/ UNCHANGED <<frames, late>>
         \/ Emit(a, IF busy[a] = "end" THEN <<"end">> ELSE Event(a)),
         UNCHANGED <<last, over, entry, handler, mine, next, replayFirst, replayLast>>,
         port'[a] # "active" \/ (busy[a] = "end" /\ frames' # frames),
         Open(a)' => Open(a),
         \A b \in Attachments : b # a => busy'[b] = busy[b] /\ port'[b] = port[b]
  PROVE  FrameInv'
<1>1. /\ Counting(a) /\ Event(a) \in Frame /\ <<"end">> \in Frame
      /\ mine = a => handler \notin Announcing \cup {"activate"}
      /\ late[a] => Leftover(a)
      /\ ~late[a] => Sequenced(a) /\ Len(frames[a]) = Position(a)
  BY BusyFacts DEF Frame
<1>2. /\ next[a] \in Nat \ {0} /\ replayFirst[a] \in Nat \ {0} /\ last \in Nat /\ Split(a) \in Int
      /\ replayLast[a] \in Nat /\ Split(a)' = Split(a) /\ busy[a] \in {"event", "end"}
  BY SMT DEF Types, Split
<1>3. Counting(a)'
  BY <1>1, <1>2 DEF Counting
<1>4. Announced(a)'
  BY <1>1 DEF Announced, Announcing
<1>5. CASE UNCHANGED <<frames, late>>
  <2>1. ASSUME ~late[a] PROVE Sequenced(a)'
    <3>1. \A k \in 1..Len(frames[a]) : Nth(a, k)' = Nth(a, k)
      BY <1>2 DEF Nth
    <3>2. QED
      BY <1>1, <1>5, <2>1, <3>1 DEF Sequenced
  <2>2. ASSUME late[a] PROVE Leftover(a)'
    BY <1>1, <1>5, <2>2 DEF Leftover
  <2>3. Good(a)'
    BY <1>3, <1>4, <1>5, <2>1, <2>2 DEF Good
  <2>4. QED
    BY <1>5, <2>3, OthersGood DEF FrameInv
<1>6. ASSUME NEW f \in Frame, f = (IF busy[a] = "end" THEN <<"end">> ELSE Event(a)), Emit(a, f)
      PROVE  FrameInv'
  <2>1. /\ late' = late /\ Len(frames'[a]) = Len(frames[a]) + 1
        /\ \A b \in Attachments : b # a => frames'[b] = frames[b]
    BY <1>6, EmitFacts
  <2>2. ASSUME ~late[a] PROVE Sequenced(a)'
    <3>1. /\ Nth(a, Len(frames[a]) + 1) = f
          /\ Len(frames[a]) + 1 <= last - replayFirst[a] + (IF over THEN 5 ELSE 4)
      BY <1>2, <1>6, <2>2, Scripted
    <3>2. \A k \in 1..Len(frames'[a]) : frames'[a][k] = Nth(a, k)'
      BY <1>1, <1>6, <2>2, <3>1, NextOfScript DEF Sequenced
    <3>3. port'[a] = "active" => Len(frames'[a]) = Position(a)'
      <4> SUFFICES ASSUME busy[a] = "end" PROVE Len(frames'[a]) = Position(a)'
        OBVIOUS
      <4>1. Len(frames[a]) = next[a] - replayFirst[a] + 2
        BY <1>1, <2>2 DEF Position
      <4>2. next[a] = Split(a) + 1
        BY <1>1 DEF Counting, Split
      <4>3. Position(a)' = next[a] - replayFirst[a] + 3
        BY SMT, <1>2, <4>2 DEF Position
      <4>4. QED
        BY SMT, <1>2, <2>1, <4>1, <4>3
    <3>4. QED
      BY <2>1, <3>1, <3>2, <3>3 DEF Sequenced
  <2>3. ASSUME late[a] PROVE Leftover(a)'
    <3>1. ~Open(a) /\ a \notin {entry, mine}
      BY <1>1, <2>3 DEF Leftover
    <3>2. CASE frames[a] = <<>>
      BY SMT, <2>1, <3>1, <3>2 DEF Leftover
    <3>3. CASE frames[a] # <<>>
      <4>1. busy[a] = "end" /\ frames[a] = <<<<"output", replayLast[a]>>>>
        BY <1>1, <1>2, <2>3, <3>3 DEF Leftover
      <4>2. frames'[a] = Append(frames[a], <<"end">>)
        BY <1>6, <4>1 DEF Emit, Types
      <4>3. frames'[a] = <<<<"output", replayLast[a]>>, <<"end">>>>
        <5> DEFINE x == <<"output", replayLast[a]>>  y == <<"end">>
        <5>1. frames'[a] = Append(<<x>>, y)
          BY <4>1, <4>2
        <5>0. x \in Frame /\ y \in Frame
          BY <1>2 DEF Frame
        <5> HIDE DEF x, y
        <5>2. Append(<<x>>, y) = <<x, y>>
          <6> DEFINE q == Append(<<x>>, y)  r == <<x, y>>
          <6>1. <<x>> \in Seq(Frame) /\ Len(<<x>>) = 1 /\ <<x>>[1] = x
            BY SMT, <5>0
          <6>2. q \in Seq(Frame) /\ Len(q) = 2 /\ q[1] = x /\ q[2] = y
            BY SMT, <5>0, <6>1
          <6>3. r \in Seq(Frame) /\ Len(r) = 2 /\ r[1] = x /\ r[2] = y
            BY SMT, <5>0
          <6> HIDE DEF q, r
          <6>4. \A k \in 1..2 : q[k] = r[k]
            BY SMT, <6>2, <6>3
          <6>5. QED
            BY <6>2, <6>3, <6>4, SameElements DEF q, r
        <5>3. QED
          BY <5>1, <5>2 DEF x, y
      <4>4. QED
        BY <3>1, <4>3 DEF Leftover
    <3>4. QED
      BY <3>2, <3>3
  <2>4. Good(a)'
    BY <1>3, <1>4, <2>1, <2>2, <2>3 DEF Good
  <2>5. QED
    BY <2>1, <2>4, OthersGood DEF FrameInv
<1>7. QED
  BY <1>1, <1>5, <1>6

\* The sink fails with the Peer or its context, or sends ReplayEnd.
LEMMA EndsFrames ==
  ASSUME MapTypes, Types, FrameInv, NEW a \in Attachments, SinkEnds(a) \/ SinkFails(a)
  PROVE  FrameInv'
<1>1. CASE SinkEnds(a)
  <2>1. /\ busy[a] = "end" /\ Emit(a, <<"end">>) /\ busy'[a] = "no"
        /\ UNCHANGED <<last, over, entry, handler, mine, next, replayFirst, replayLast, port>>
        /\ \A b \in Attachments : b # a => busy'[b] = busy[b] /\ port'[b] = port[b]
    BY <1>1 DEF SinkEnds, Types, session, handling
  <2>2. frames' # frames
    <3>1. Len(frames'[a]) = Len(frames[a]) + 1 /\ Len(frames[a]) \in Nat
      BY <2>1, EmitFacts DEF Frame
    <3>2. QED
      BY SMT, <3>1
  <2>3. Open(a)' => Open(a)
    BY <2>1 DEF Open
  <2>4. QED
    BY <2>1, <2>2, <2>3, SinkStops
<1>2. CASE SinkFails(a)
  <2>1. /\ busy[a] # "no" /\ busy'[a] = "no"
        /\ \/ UNCHANGED <<frames, late>>
           \/ Emit(a, IF busy[a] = "end" THEN <<"end">> ELSE Event(a))
        /\ UNCHANGED <<last, over, entry, handler, mine, next, replayFirst, replayLast>>
        /\ Finish(a, "failed")
        /\ \A b \in Attachments : b # a => busy'[b] = busy[b]
    BY <1>2 DEF SinkFails, Types, session, handling
  <2>2. ~Open(a)' /\ port'[a] # "active" /\ \A b \in Attachments : b # a => port'[b] = port[b]
    BY <2>1, FinishFacts DEF Open
  <2>3. QED
    BY <2>1, <2>2, SinkStops
<1>3. QED
  BY <1>1, <1>2

\* The sinks keep their types.
LEMMA TypesStep ==
  ASSUME MapTypes, MapInv, Types, FrameInv, [Next]_vars
  PROVE  Types'
<1>1. ASSUME UNCHANGED <<last, over>>, UNCHANGED sink PROVE Types'
  BY <1>1 DEF Types, sink
<1>2. CASE Publish \/ SessionExits
  <2>1. UNCHANGED sink /\ last' \in Nat
    BY SMT, <1>2 DEF Publish, SessionExits, Types
  <2>2. over' \in BOOLEAN
    BY <1>2 DEF Publish, SessionExits, Types
  <2>3. QED
    BY <2>1, <2>2 DEF Types, sink
<1>3. CASE TransportFails \/ Close \/ CloseTakes \/ CloseReturns \/ UNCHANGED vars
  BY <1>1, <1>3 DEF TransportFails, Close, CloseTakes, CloseReturns, session, vars
<1>4. ASSUME Asks \/ Answer \/ HandlerFails \/ QueueEmpty \/ HandleKill \/ KillReturns \/ HandleBad
             \/ HandleInput \/ InputReturns
      PROVE  Types'
  BY <1>1, <1>4 DEF Asks, Answer, HandlerFails, QueueEmpty, HandleKill, KillReturns, HandleBad,
                    HandleInput, InputReturns, session
<1>5. ASSUME HandleAttach \/ AttachFails \/ Insert \/ AnnounceFails \/ Activate \/ Cleanup
             \/ HandleDetach \/ DetachCloses \/ DetachUnanswered
      PROVE  Types'
  BY <1>1, <1>5 DEF HandleAttach, AttachFails, Insert, AnnounceFails, Activate, Cleanup,
                    HandleDetach, DetachCloses, DetachUnanswered, session
<1>6. CASE Announce
  <2>1. mine \in Attachments
    BY <1>6 DEF Announce, Goto, MapTypes, MapInv, Held, Inserted
  <2>2. \E f \in Frame : Emit(mine, f)
    BY <1>6 DEF Announce, Frame
  <2>3. frames' \in [Attachments -> Seq(Frame)] /\ late' = late
    BY <2>1, <2>2, EmitFacts
  <2>4. UNCHANGED <<last, over, next, busy, replayFirst, replayLast>>
    BY <1>6 DEF Announce, session
  <2>5. QED
    BY <2>3, <2>4 DEF Types
<1>7. ASSUME NEW a \in Attachments, NEW n \in 1..(last + 1), Attached(a, n) PROVE Types'
  BY SMT, <1>7 DEF Attached, Renew, Types, session
<1>8. CASE DetachAnswered
  <2>1. UNCHANGED <<last, over, next, busy, replayFirst, replayLast>>
    BY <1>8 DEF DetachAnswered, session
  <2>2. frames' \in [Attachments -> Seq(Frame)]
    <3>1. <<>> \in Seq(Frame)
      BY SMT
    <3>2. QED
      BY <1>8, <3>1 DEF DetachAnswered, Types
  <2>3. late' \in [Attachments -> BOOLEAN]
    BY <1>8 DEF DetachAnswered, Types
  <2>4. QED
    BY <2>1, <2>2, <2>3 DEF Types
<1>9. ASSUME NEW a \in Attachments, Breaks(a) \/ Delivered(a) \/ Watching(a) \/ ContextCloses(a)
      PROVE  Types'
  BY <1>1, <1>9 DEF Breaks, Delivered, Watching, WatchDone, WatchCanceled, Report, PeerCloseReturns,
                    ContextCloses, session
<1>10. ASSUME NEW a \in Attachments, Takes(a) \/ Done(a) PROVE Types'
  <2>1. CASE Takes(a)
    BY <2>1 DEF Takes, Types, session
  <2>2. CASE Done(a)
    <3>1. UNCHANGED <<last, over>> /\ (UNCHANGED sink \/ Renew(a, 1, 0))
      BY <2>2 DEF Done, session
    <3>2. ASSUME Renew(a, 1, 0) PROVE Types'
      BY SMT, <3>1, <3>2 DEF Renew, Types
    <3>3. QED
      BY <1>1, <3>1, <3>2
  <2>3. QED
    BY <1>10, <2>1, <2>2
<1>11. ASSUME NEW a \in Attachments, Sending(a) PROVE Types'
  <2>1. /\ UNCHANGED <<last, over, replayFirst, replayLast>>
        /\ next' \in [Attachments -> Nat \ {0}] /\ busy' \in [Attachments -> {"no", "event", "end"}]
    <3>1. CASE SinkSends(a)
      BY SMT, <3>1 DEF SinkSends, Types, session
    <3>2. CASE SinkEnds(a) \/ SinkFails(a)
      BY <3>2 DEF SinkEnds, SinkFails, Types, session
    <3>3. QED
      BY <1>11, <3>1, <3>2 DEF Sending
  <2>2. Event(a) \in Frame /\ <<"end">> \in Frame
    BY DEF Event, Frame, Types
  <2>3. UNCHANGED <<frames, late>> \/ \E f \in Frame : Emit(a, f)
    BY <1>11, <2>2 DEF Sending, SinkSends, SinkEnds, SinkFails
  <2>4. frames' \in [Attachments -> Seq(Frame)] /\ late' \in [Attachments -> BOOLEAN]
    BY <2>3, EmitFacts DEF Types
  <2>5. QED
    BY <2>1, <2>4 DEF Types
<1>12. CASE Handling
  BY <1>4, <1>5, <1>6, <1>7, <1>8, <1>12 DEF Handling, Attaching, Detaching
<1>13. QED
  BY <1>2, <1>3, <1>9, <1>10, <1>11, <1>12 DEF Next

\* Every step keeps the frames in order.
LEMMA FrameStep ==
  ASSUME MapTypes, MapInv, Types, FrameInv, [Next]_vars
  PROVE  FrameInv'
<1>1. CASE UNCHANGED vars
  BY SMT, <1>1 DEF vars, session, sink, closer, handling, FrameInv, Good, Counting, Announced, Leftover,
              Sequenced, Position, Split, Nth, Open
<1>2. CASE Handling
  BY <1>2, RequestFrames, AttachedFrames, AnnounceFrames, MovesFrames, ActivateFrames, AnsweredFrames
     DEF Handling, Attaching, Detaching
<1>3. ASSUME NEW a \in Attachments, Sending(a) PROVE FrameInv'
  BY <1>3, SendsFrames, EndsFrames DEF Sending
<1>4. QED
  BY ZenonT(30), <1>1, <1>2, <1>3, SessionFrames, ClosingFrames, TakesFrames, DoneFrames DEF Next

\* What a client sees of an attachment is its response, ReplayBegin, the replay,
\* ReplayEnd, live output and Exit, and after the answer to a Detach at most the
\* event that was being sent, for any attachments and any output (handleAttach,
\* protocolOutputSink.Send, handleDetach).
THEOREM FramesAreInOrder == Spec => []FramesInOrder
<1> DEFINE IInv == MapTypes /\ MapInv /\ Types /\ FrameInv
<1>1. Init => IInv
  <2> SUFFICES ASSUME Init PROVE IInv
    OBVIOUS
  <2>1. MapTypes /\ MapInv
    BY DEF Init, MapTypes, MapInv, Held, Open, Announcing, Inserted, Places
  <2>2. Types
    <3>1. <<>> \in Seq(Frame)
      BY SMT
    <3>2. over \in BOOLEAN /\ late \in [Attachments -> BOOLEAN]
      BY DEF Init
    <3>3. QED
      BY SMT, <3>1, <3>2 DEF Init, Types
  <2>3. ASSUME NEW a \in Attachments PROVE Good(a)
    <3>1. /\ next[a] = 1 /\ busy[a] = "no" /\ replayFirst[a] = 1 /\ replayLast[a] = 0
          /\ frames[a] = <<>> /\ late[a] = FALSE /\ last = 0 /\ over = FALSE /\ port[a] = "done"
          /\ mine = None /\ a # None
      BY ProtocolAssumption DEF Init
    <3>2. Len(frames[a]) = 0
      BY <3>1
    <3>3. Counting(a)
      BY SMT, <3>1 DEF Counting, Split
    <3>4. Sequenced(a)
      BY SMT, <3>1, <3>2 DEF Sequenced
    <3>5. QED
      BY <3>1, <3>3, <3>4 DEF Good, Announced
  <2>4. QED
    BY <2>1, <2>2, <2>3 DEF FrameInv
<1>2. IInv /\ [Next]_vars => IInv'
  BY MapStep, TypesStep, FrameStep
<1>3. IInv => FramesInOrder
  BY OrderFromPositions
<1>4. QED
  BY <1>1, <1>2, <1>3, PTL DEF Spec
=============================================================================
