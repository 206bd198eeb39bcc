----------------------------- MODULE ConnProofs -----------------------------
(***************************************************************************)
(* A Conn never masks its failure, and its remote gets a prefix of the     *)
(* frames it accepted, for every set of callers, every write queue and     *)
(* every buffer of the stream.                                             *)
(***************************************************************************)
EXTENDS Conn, TLAPS

\* Most steps are set theory, which Zenon does; a step with arithmetic cites SMT.
USE Zenon

(***************************************************************************)
(* Only the empty sequence has length zero.                                *)
(***************************************************************************)
LEMMA EmptyLen ==
  ASSUME NEW S
  PROVE  \A s \in Seq(S) : s = <<>> <=> Len(s) = 0
  BY SMT

(***************************************************************************)
(* Taking the head, as Go's queue = queue[1:] does.                        *)
(***************************************************************************)
LEMMA TailFacts ==
  ASSUME NEW S, NEW s \in Seq(S), s # <<>>
  PROVE  /\ Len(s) \in Nat \ {0} /\ Head(s) = s[1] /\ s[1] \in S
         /\ Tail(s) \in Seq(S)
         /\ Len(Tail(s)) = Len(s) - 1
         /\ \A i \in 1..Len(Tail(s)) : i + 1 \in 1..Len(s) /\ Tail(s)[i] = s[i + 1]
         /\ Tail(s) = <<>> <=> Len(s) = 1
<1>1. /\ Len(s) \in Nat \ {0} /\ Head(s) = s[1] /\ s[1] \in S
      /\ Tail(s) \in Seq(S)
      /\ Len(Tail(s)) = Len(s) - 1
      /\ \A i \in 1..Len(Tail(s)) : i + 1 \in 1..Len(s) /\ Tail(s)[i] = s[i + 1]
  BY SMT
<1>2. Tail(s) = <<>> <=> Len(Tail(s)) = 0
  BY <1>1, EmptyLen
<1>3. QED
  BY SMT, <1>1, <1>2

(***************************************************************************)
(* Adding at the end.                                                      *)
(***************************************************************************)
LEMMA AppendFacts ==
  ASSUME NEW S, NEW s \in Seq(S), NEW e \in S
  PROVE  /\ Append(s, e) \in Seq(S) /\ Append(s, e) # <<>>
         /\ Len(s) \in Nat /\ Len(Append(s, e)) = Len(s) + 1
         /\ \A i \in 1..Len(s) : Append(s, e)[i] = s[i]
         /\ Append(s, e)[Len(s) + 1] = e
<1>1. /\ Append(s, e) \in Seq(S)
      /\ Len(s) \in Nat /\ Len(Append(s, e)) = Len(s) + 1
      /\ \A i \in 1..Len(s) : Append(s, e)[i] = s[i]
      /\ Append(s, e)[Len(s) + 1] = e
  BY SMT
<1>2. Len(<<>>) = 0
  OBVIOUS
<1>3. QED
  BY SMT, <1>1, <1>2

Part == [of : Send, part : {"header", "payload"}]

TypeOK ==
  /\ cause \in {"none", "asked", "failed"} /\ streamClosed \in BOOLEAN
  /\ writes \in Seq(Send)
  /\ loop \in {"select", "header", "payload", "written", "failed", "ending", "stopped"}
  /\ current \in Send \cup {NoSend}
  /\ loop \in {"header", "payload", "written"} => current \in Send
  /\ err \in {"nil", "canceled", "closed", "broken", "late"}
  /\ call \in [Send -> {"returned", "offer", "wait"}]
  /\ result \in [Send -> {"empty", "ok", "error"}]
  /\ reader \in {"reading", "failed", "stopped"} /\ closer \in {"open", "joining", "done"}
  /\ wire \in Seq(Part)
  /\ decoder \in {"header", "payload", "stopped"} /\ decoding \in Send \cup {NoSend}
  /\ arrived \in Send \cup {NoSend}

\* Errors and cancellation: the stream is closed only by, or after, a
\* cancellation; before one, only a broken stream leaves an error; whoever is
\* about to cancel because of a failure, and a loop that has stopped, has left
\* an error.
Blame ==
  /\ streamClosed => canceled
  /\ ~canceled => err \in {"nil", "broken"}
  /\ loop \in {"ending", "stopped"} \/ reader = "failed" => err # "nil"
  /\ cause = "failed" => err = "broken"

Half(n) == n \div 2

Odd(n) == n % 2 = 1

\* begun: the decoder has read the header of the frame that comes next.
begun == IF decoder = "payload" THEN 1 ELSE 0

\* The parts in the stream are headers, each with its payload after it; the
\* last may lack one only if it is being written or the Conn has ended.
Paired ==
  /\ \A i \in 1..(Len(wire) - 1) : Odd(i + begun) => wire[i + 1].of = wire[i].of
  /\ decoder = "payload" /\ wire # <<>> => wire[1].of = decoding
  /\ decoder = "stopped" => wire = <<>> /\ streamClosed
  /\ ~Ended => /\ Odd(Len(wire) + begun) <=> loop = "payload"
               /\ loop = "payload" /\ wire # <<>> => wire[Len(wire)].of = current
               /\ loop = "payload" /\ wire = <<>> => decoding = current

\* A frame that is offered is nowhere else yet.
Fresh == \A c \in Send : call[c] = "offer" => ~Held(c)

\* The inductive invariant.
IInv == TypeOK /\ Blame /\ Paired /\ Fresh

-----------------------------------------------------------------------------
(* Every other part of a stream *)

Payloads(w, b) == [i \in 1..Half(Len(w) + b) |-> w[2 * i - b].of]

\* Half and Odd by cases.
LEMMA Halves ==
  ASSUME NEW n \in Nat
  PROVE  /\ Half(n) \in Nat /\ Half(n + 1) \in Nat
         /\ Odd(n + 1) <=> ~Odd(n)
         /\ Half(n + 1) = IF Odd(n) THEN Half(n) + 1 ELSE Half(n)
         /\ Odd(n) => n = 2 * Half(n) + 1
         /\ ~Odd(n) => n = 2 * Half(n)
  BY SMT DEF Half, Odd

\* Half keeps the order.
LEMMA HalfMonotone ==
  ASSUME NEW n \in Nat, NEW m \in Nat, m <= n
  PROVE  Half(m) \in Nat /\ Half(n) \in Nat /\ Half(m) <= Half(n)
  BY SMT DEF Half

\* A payload of the stream has its place in it.
LEMMA HalfBound == \A n \in Nat : Half(n) \in Nat /\ 2 * Half(n) <= n
  BY SMT DEF Half

\* Every part is of a frame that was sent.
LEMMA PartOf == \A p \in Part : p.of \in Send
  BY DEF Part

\* The payloads are frames, one for every two parts.
LEMMA PayloadsType ==
  ASSUME NEW w \in Seq(Part), NEW b \in {0, 1}
  PROVE  /\ Payloads(w, b) \in Seq(Send)
         /\ Len(Payloads(w, b)) = Half(Len(w) + b) /\ Half(Len(w) + b) \in Nat
         /\ \A i \in 1..Half(Len(w) + b) :
              2 * i - b \in 1..Len(w) /\ Payloads(w, b)[i] = w[2 * i - b].of
<1>1. Len(w) \in Nat /\ Len(w) + b \in Nat
  BY SMT
<1>2. Half(Len(w) + b) \in Nat /\ 2 * Half(Len(w) + b) <= Len(w) + b
  BY <1>1, HalfBound
<1>3. \A i \in 1..Half(Len(w) + b) : 2 * i - b \in 1..Len(w)
  BY SMT, <1>1, <1>2
<1>4. \A k \in 1..Len(w) : w[k].of \in Send
  BY SMT, PartOf
<1>5. PICK n \in Nat : n = Half(Len(w) + b)
  BY <1>2
<1>6. \A i \in 1..n : 2 * i - b \in 1..Len(w) /\ w[2 * i - b].of \in Send
  BY <1>3, <1>4, <1>5
<1>7. Payloads(w, b) = [i \in 1..n |-> w[2 * i - b].of]
  BY <1>5 DEF Payloads
<1>8. [i \in 1..n |-> w[2 * i - b].of] \in Seq(Send) /\ Len([i \in 1..n |-> w[2 * i - b].of]) = n
  BY SMT, <1>6
<1>9. \A i \in 1..n : Payloads(w, b)[i] = w[2 * i - b].of
  BY <1>7
<1>10. QED
  BY <1>5, <1>6, <1>7, <1>8, <1>9

\* The decoder reads a header.
LEMMA TailOfHeader ==
  ASSUME NEW w \in Seq(Part), w # <<>>
  PROVE  Payloads(Tail(w), 1) = Payloads(w, 0)
<1>1. /\ Len(w) \in Nat \ {0} /\ Tail(w) \in Seq(Part) /\ Len(Tail(w)) = Len(w) - 1
      /\ \A i \in 1..Len(Tail(w)) : Tail(w)[i] = w[i + 1]
  BY TailFacts
<1>2. Len(Tail(w)) + 1 = Len(w) + 0
  BY SMT, <1>1
<1>3. ASSUME NEW i \in 1..Half(Len(w) + 0) PROVE Tail(w)[2 * i - 1].of = w[2 * i - 0].of
  <2>1. 2 * i - 1 \in 1..Len(Tail(w))
    BY <1>1, <1>2, PayloadsType
  <2>2. (2 * i - 1) + 1 = 2 * i - 0
    BY SMT
  <2>3. QED
    BY <1>1, <2>1, <2>2
<1>4. QED
  BY <1>2, <1>3 DEF Payloads

\* Sequences are equal where their elements are.
LEMMA SameSequence ==
  ASSUME NEW S, NEW s \in Seq(S), NEW t \in Seq(S), Len(s) = Len(t),
         \A i \in 1..Len(s) : s[i] = t[i]
  PROVE  s = t
  BY SMT

\* The decoder reads a payload.
LEMMA TailOfPayload ==
  ASSUME NEW w \in Seq(Part), w # <<>>
  PROVE  /\ Payloads(w, 1) # <<>> /\ Head(Payloads(w, 1)) = w[1].of
         /\ Payloads(Tail(w), 0) = Tail(Payloads(w, 1))
<1>1. /\ Len(w) \in Nat \ {0} /\ Tail(w) \in Seq(Part) /\ Len(Tail(w)) = Len(w) - 1
      /\ \A i \in 1..Len(Tail(w)) : Tail(w)[i] = w[i + 1]
  BY TailFacts
<1>2. /\ Payloads(w, 1) \in Seq(Send) /\ Len(Payloads(w, 1)) = Half(Len(w) + 1)
      /\ \A i \in 1..Half(Len(w) + 1) :
           2 * i - 1 \in 1..Len(w) /\ Payloads(w, 1)[i] = w[2 * i - 1].of
  BY PayloadsType
<1>3. Half(Len(w) + 1) = Half(Len(w) - 1) + 1 /\ Half(Len(w) - 1) \in Nat
  BY SMT, <1>1 DEF Half
<1>4. Payloads(w, 1) # <<>> /\ Head(Payloads(w, 1)) = w[1].of
  <2>1. 1 \in 1..Half(Len(w) + 1) /\ 2 * 1 - 1 = 1
    BY SMT, <1>3
  <2>2. Payloads(w, 1)[1] = w[1].of
    BY <1>2, <2>1
  <2>3. Payloads(w, 1) # <<>>
    BY SMT, <1>2, <1>3
  <2>4. QED
    BY SMT, <1>2, <2>2, <2>3
<1>5. /\ Tail(Payloads(w, 1)) \in Seq(Send) /\ Len(Tail(Payloads(w, 1))) = Half(Len(w) - 1)
      /\ \A i \in 1..Half(Len(w) - 1) : Tail(Payloads(w, 1))[i] = Payloads(w, 1)[i + 1]
  <2>1. Len(Payloads(w, 1)) - 1 = Half(Len(w) - 1)
    BY SMT, <1>2, <1>3
  <2>2. QED
    BY SMT, <1>2, <1>4, <2>1, TailFacts
<1>6. ASSUME NEW i \in 1..Half(Len(w) - 1) PROVE Tail(w)[2 * i - 0].of = Payloads(w, 1)[i + 1]
  <2>1. 2 * i - 0 \in 1..Len(Tail(w))
    <3>1. Half(Len(Tail(w)) + 0) = Half(Len(w) - 1)
      BY SMT, <1>1
    <3>2. QED
      BY <1>1, <3>1, PayloadsType
  <2>2. i + 1 \in 1..Half(Len(w) + 1)
    BY SMT, <1>3
  <2>3. 2 * (i + 1) - 1 = (2 * i - 0) + 1
    BY SMT
  <2>4. QED
    BY <1>1, <1>2, <2>1, <2>2, <2>3
<1>7. Half(Len(Tail(w)) + 0) = Half(Len(w) - 1)
  BY SMT, <1>1
<1>8. Payloads(Tail(w), 0) = Tail(Payloads(w, 1))
  <2>1. /\ Payloads(Tail(w), 0) \in Seq(Send) /\ Len(Payloads(Tail(w), 0)) = Half(Len(w) - 1)
        /\ \A i \in 1..Half(Len(w) - 1) : Payloads(Tail(w), 0)[i] = Tail(w)[2 * i - 0].of
    BY <1>1, <1>7, PayloadsType
  <2>2. \A i \in 1..Half(Len(w) - 1) : Payloads(Tail(w), 0)[i] = Tail(Payloads(w, 1))[i]
    BY <1>5, <1>6, <2>1
  <2>3. QED
    BY <1>5, <2>1, <2>2, SameSequence
<1>9. QED
  BY <1>4, <1>8

\* A part is written.
LEMMA AppendPart ==
  ASSUME NEW w \in Seq(Part), NEW b \in {0, 1}, NEW p \in Part
  PROVE  /\ Odd(Len(w) + b) => Payloads(Append(w, p), b) = Append(Payloads(w, b), p.of)
         /\ ~Odd(Len(w) + b) => Payloads(Append(w, p), b) = Payloads(w, b)
<1>1. /\ Len(w) \in Nat /\ Append(w, p) \in Seq(Part) /\ Len(Append(w, p)) = Len(w) + 1
      /\ \A k \in 1..Len(w) : Append(w, p)[k] = w[k]
      /\ Append(w, p)[Len(w) + 1] = p
  BY SMT
<1>2. Len(w) + b \in Nat /\ Len(Append(w, p)) + b = (Len(w) + b) + 1
  BY SMT, <1>1
<1>3. /\ Payloads(w, b) \in Seq(Send) /\ Len(Payloads(w, b)) = Half(Len(w) + b)
      /\ Half(Len(w) + b) \in Nat
      /\ \A i \in 1..Half(Len(w) + b) :
           2 * i - b \in 1..Len(w) /\ Payloads(w, b)[i] = w[2 * i - b].of
  BY PayloadsType
<1>4. /\ Payloads(Append(w, p), b) \in Seq(Send)
      /\ Len(Payloads(Append(w, p), b)) = Half((Len(w) + b) + 1)
      /\ \A i \in 1..Half((Len(w) + b) + 1) :
           2 * i - b \in 1..(Len(w) + 1) /\ Payloads(Append(w, p), b)[i] = Append(w, p)[2 * i - b].of
  BY <1>1, <1>2, PayloadsType
<1> DEFINE old == Payloads(w, b)
           new == Payloads(Append(w, p), b)
           n == Half(Len(w) + b)
<1>5. \A i \in 1..n : i \in 1..Half((Len(w) + b) + 1) => new[i] = old[i]
  BY <1>1, <1>3, <1>4
<1>6. CASE ~Odd(Len(w) + b)
  <2>1. Half((Len(w) + b) + 1) = n
    BY <1>2, <1>6, Halves
  <2> HIDE DEF old, new, n
  <2>2. QED
    BY SMT, <1>3, <1>4, <1>5, <1>6, <2>1 DEF old, new, n
<1>7. CASE Odd(Len(w) + b)
  <2>1. Half((Len(w) + b) + 1) = n + 1 /\ Len(w) + b = 2 * n + 1
    BY <1>2, <1>7, Halves
  <2>2. 2 * (n + 1) - b = Len(w) + 1
    BY SMT, <1>1, <1>3, <2>1
  <2>3. n + 1 \in 1..Half((Len(w) + b) + 1)
    BY SMT, <1>3, <2>1
  <2>4. new[n + 1] = p.of
    BY <1>1, <1>4, <2>2, <2>3
  <2>5. p.of \in Send
    BY DEF Part
  <2>6. Append(old, p.of) \in Seq(Send) /\ Len(Append(old, p.of)) = n + 1
    BY SMT, <1>3, <2>5
  <2>7. \A i \in 1..(n + 1) : Append(old, p.of)[i] = IF i = n + 1 THEN p.of ELSE old[i]
    BY SMT, <1>3, <2>5
  <2>8. \A i \in 1..(n + 1) : new[i] = Append(old, p.of)[i]
    BY SMTT(30), <1>3, <1>5, <2>1, <2>4, <2>7
  <2>9. Len(new) = n + 1 /\ new \in Seq(Send)
    BY <1>4, <2>1
  <2> HIDE DEF old, new, n
  <2>10. new = Append(old, p.of)
    BY SMT, <2>6, <2>8, <2>9
  <2>11. QED
    BY <1>7, <2>10 DEF old, new
<1>8. QED
  BY <1>6, <1>7

\* What PrefixOfParts takes a prefix of.
LEMMA IsPrefix ==
  ASSUME NEW S, NEW old \in Seq(S), NEW new \in Seq(S), Len(new) <= Len(old),
         \A i \in 1..Len(new) : new[i] = old[i]
  PROVE  new = SubSeq(old, 1, Len(new))
  BY SMT

\* The stream loses a suffix.
LEMMA PrefixOfParts ==
  ASSUME NEW w \in Seq(Part), NEW b \in {0, 1}, NEW n \in 0..Len(w)
  PROVE  /\ SubSeq(w, 1, n) \in Seq(Part)
         /\ Half(n + b) \in 0..Len(Payloads(w, b))
         /\ Payloads(SubSeq(w, 1, n), b) = SubSeq(Payloads(w, b), 1, Half(n + b))
<1> DEFINE v == SubSeq(w, 1, n)
<1>1. /\ v \in Seq(Part) /\ Len(v) = n /\ n \in Nat /\ Len(w) \in Nat
      /\ \A k \in 1..n : v[k] = w[k]
  BY SMT
<1> HIDE DEF v
<1>2. Half(n + b) \in Nat /\ Half(n + b) <= Half(Len(w) + b)
  <2>1. n + b \in Nat /\ Len(w) + b \in Nat /\ n + b <= Len(w) + b
    BY SMT, <1>1
  <2>2. QED
    BY <2>1, HalfMonotone
<1>3. /\ Payloads(w, b) \in Seq(Send) /\ Len(Payloads(w, b)) = Half(Len(w) + b)
      /\ Half(Len(w) + b) \in Nat
      /\ \A i \in 1..Half(Len(w) + b) :
           2 * i - b \in 1..Len(w) /\ Payloads(w, b)[i] = w[2 * i - b].of
  BY PayloadsType
<1>4. /\ Payloads(v, b) \in Seq(Send) /\ Len(Payloads(v, b)) = Half(n + b)
      /\ \A i \in 1..Half(n + b) : 2 * i - b \in 1..n /\ Payloads(v, b)[i] = v[2 * i - b].of
  BY <1>1, PayloadsType
<1>5. \A i \in 1..Half(n + b) : i \in 1..Half(Len(w) + b) /\ Payloads(v, b)[i] = Payloads(w, b)[i]
  <2> SUFFICES ASSUME NEW i \in 1..Half(n + b)
               PROVE  i \in 1..Half(Len(w) + b) /\ Payloads(v, b)[i] = Payloads(w, b)[i]
    OBVIOUS
  <2>1. i \in 1..Half(Len(w) + b)
    BY SMT, <1>2, <1>3
  <2>2. 2 * i - b \in 1..n /\ Payloads(v, b)[i] = v[2 * i - b].of
    BY <1>4
  <2>3. v[2 * i - b] = w[2 * i - b]
    BY <1>1, <2>2
  <2>4. Payloads(w, b)[i] = w[2 * i - b].of
    BY <1>3, <2>1
  <2>5. QED
    BY <2>1, <2>2, <2>3, <2>4
<1>6. Half(n + b) \in 0..Len(Payloads(w, b))
  BY SMT, <1>2, <1>3
<1>7. Payloads(v, b) = SubSeq(Payloads(w, b), 1, Len(Payloads(v, b)))
  BY <1>2, <1>3, <1>4, <1>5, IsPrefix
<1>8. QED
  BY <1>1, <1>4, <1>6, <1>7 DEF v

-----------------------------------------------------------------------------
(* Types *)

\* Closing the stream leaves a prefix of what it holds.
LEMMA Closes ==
  ASSUME TypeOK, StreamClose
  PROVE  /\ streamClosed' = TRUE
         /\ \E n \in 0..Len(wire) :
              /\ wire' = SubSeq(wire, 1, n) /\ wire' \in Seq(Part) /\ Len(wire') = n
              /\ \A k \in 1..n : wire'[k] = wire[k]
         /\ streamClosed => wire' = wire
<1>1. wire \in Seq(Part) /\ Len(wire) \in 0..Len(wire) /\ SubSeq(wire, 1, Len(wire)) = wire
  BY SMT DEF TypeOK
<1>2. PICK n \in 0..Len(wire) : wire' = SubSeq(wire, 1, n)
  BY <1>1 DEF StreamClose
<1>3. wire' \in Seq(Part) /\ Len(wire') = n /\ \A k \in 1..n : wire'[k] = wire[k]
  BY SMT, <1>1, <1>2
<1>4. QED
  BY <1>2, <1>3 DEF StreamClose

\* Send keeps the types.
LEMMA SendTypes ==
  ASSUME TypeOK, NEW c \in Send,
         SendBegin(c) \/ SendQueued(c) \/ SendTaken(c) \/ SendReturns(c) \/ SendGivesUp(c)
  PROVE  TypeOK'
<1>1. CASE SendBegin(c)
  BY SMT, <1>1 DEF SendBegin, TypeOK, writer, remote
<1>2. CASE SendQueued(c)
  BY SMT, <1>2 DEF SendQueued, TypeOK, remote
<1>3. CASE SendTaken(c)
  BY SMT, <1>3 DEF SendTaken, TypeOK, remote
<1>4. CASE SendReturns(c) \/ SendGivesUp(c)
  BY SMT, <1>4 DEF SendReturns, SendGivesUp, Leave, TypeOK, writer, remote
<1>5. QED
  BY <1>1, <1>2, <1>3, <1>4

\* writeLoop keeps the types.
LEMMA LoopTypes == ASSUME TypeOK, WriteLoop PROVE TypeOK'
<1>1. CASE LoopTake
  <2>1. writes \in Seq(Send) /\ writes # <<>>
    BY <1>1 DEF LoopTake, TypeOK
  <2>2. Head(writes) \in Send /\ Tail(writes) \in Seq(Send)
    BY <2>1, TailFacts
  <2>3. QED
    BY SMT, <1>1, <2>2 DEF LoopTake, TypeOK, callers, remote
<1>2. CASE WritePart
  <2>1. [of |-> current, part |-> loop] \in Part
    BY <1>2 DEF WritePart, TypeOK, Part
  <2>2. wire' \in Seq(Part)
    BY SMT, <1>2, <2>1 DEF WritePart, TypeOK
  <2>3. QED
    BY SMT, <1>2, <2>2 DEF WritePart, TypeOK, callers, remote
<1>3. CASE WriteDone
  BY SMT, <1>3 DEF WriteDone, Report, TypeOK, remote
<1>4. CASE WriteFails
  BY SMT, <1>4 DEF WriteFails, Report, TypeOK, remote
<1>5. CASE LoopFails
  BY SMT, <1>5 DEF LoopFails, SetError, StreamError, TypeOK, callers, remote
<1>6. CASE LoopEnds
  <2>1. streamClosed' \in BOOLEAN /\ wire' \in Seq(Part)
    BY <1>6, Closes DEF LoopEnds
  <2>2. QED
    BY SMT, <1>6, <2>1 DEF LoopEnds, Cancel, TypeOK, callers, remote
<1>7. CASE LoopCanceled
  BY SMT, <1>7 DEF LoopCanceled, SetError, TypeOK, callers, remote
<1>8. QED
  BY <1>1, <1>2, <1>3, <1>4, <1>5, <1>6, <1>7 DEF WriteLoop

\* The ways a Conn ends keep the types.
LEMMA EndTypes == ASSUME TypeOK, ParentCanceled \/ Watch \/ ReadFails \/ Close \/ CloseJoin PROVE TypeOK'
<1>1. CASE ParentCanceled
  BY SMT, <1>1 DEF ParentCanceled, Cancel, TypeOK, writer, callers, remote
<1>2. CASE Watch \/ Close
  <2>1. streamClosed' \in BOOLEAN /\ wire' \in Seq(Part)
    BY <1>2, Closes DEF Watch, Close
  <2>2. CASE Watch
    BY SMT, <2>1, <2>2 DEF Watch, TypeOK, writer, callers, remote
  <2>3. CASE Close
    BY SMT, <2>1, <2>3 DEF Close, Cancel, TypeOK, writer, callers, remote
  <2>4. QED
    BY <1>2, <2>2, <2>3
<1>3. CASE ReadFails
  BY SMT, <1>3 DEF ReadFails, Cancel, SetError, StreamError, TypeOK, writer, callers, remote
<1>4. CASE CloseJoin
  BY SMT, <1>4 DEF CloseJoin, SetError, TypeOK, writer, callers, remote
<1>5. QED
  BY <1>1, <1>2, <1>3, <1>4

\* The remote Decoder keeps the types.
LEMMA DecodeTypes == ASSUME TypeOK, DecodePart \/ DecodeFails PROVE TypeOK'
<1>1. CASE DecodePart
  <2>1. wire \in Seq(Part) /\ wire # <<>>
    BY <1>1 DEF DecodePart, TypeOK
  <2>2. Head(wire) \in Part /\ Tail(wire) \in Seq(Part)
    BY <2>1, TailFacts
  <2>3. Head(wire).of \in Send
    BY <2>2, PartOf
  <2>4. QED
    BY SMT, <1>1, <2>2, <2>3 DEF DecodePart, TypeOK, writer, callers
<1>2. CASE DecodeFails
  BY SMT, <1>2 DEF DecodeFails, TypeOK, writer, callers
<1>3. QED
  BY <1>1, <1>2

\* Every step keeps the types.
LEMMA StepTypes == TypeOK /\ [Next]_vars => TypeOK'
<1>1. TypeOK /\ UNCHANGED vars => TypeOK'
  BY SMT DEF vars, writer, callers, remote, TypeOK
<1>2. QED
  BY <1>1, SendTypes, LoopTypes, EndTypes, DecodeTypes DEF Next

-----------------------------------------------------------------------------
(* Who is to blame *)

\* Every step keeps the first failure, which is the one Err reports.
LEMMA StepBlame == TypeOK /\ Blame /\ [Next]_vars => Blame'
<1> SUFFICES ASSUME TypeOK, Blame, [Next]_vars PROVE Blame'
  OBVIOUS
<1> USE DEF Blame, canceled
<1>1. ASSUME NEW c \in Send,
             SendBegin(c) \/ SendQueued(c) \/ SendTaken(c) \/ SendReturns(c) \/ SendGivesUp(c)
      PROVE  Blame'
  BY SMT, <1>1 DEF SendBegin, SendQueued, SendTaken, SendReturns, SendGivesUp, Leave, writer
<1>2. CASE LoopTake \/ WritePart \/ WriteDone \/ WriteFails
  BY SMT, <1>2 DEF LoopTake, WritePart, WriteDone, WriteFails, Report
<1>3. CASE LoopFails
  BY <1>3 DEF LoopFails, SetError, StreamError, TypeOK
<1>4. CASE LoopEnds
  BY <1>4 DEF LoopEnds, Cancel, TypeOK
<1>5. CASE LoopCanceled
  BY <1>5 DEF LoopCanceled, SetError, TypeOK
<1>6. CASE ParentCanceled
  BY <1>6 DEF ParentCanceled, Cancel, writer
<1>7. CASE Watch
  BY <1>7 DEF Watch, writer
<1>8. CASE ReadFails
  BY <1>8 DEF ReadFails, Cancel, SetError, StreamError, TypeOK, writer
<1>9. CASE Close
  BY <1>9 DEF Close, Cancel, TypeOK, writer
<1>10. CASE CloseJoin
  BY <1>10 DEF CloseJoin, SetError, TypeOK, writer
<1>11. CASE DecodePart \/ DecodeFails
  BY SMT, <1>11 DEF DecodePart, DecodeFails, writer
<1>12. CASE UNCHANGED vars
  BY <1>12 DEF vars, writer
<1>13. QED
  BY <1>1, <1>2, <1>3, <1>4, <1>5, <1>6, <1>7, <1>8, <1>9, <1>10, <1>11, <1>12 DEF Next, WriteLoop

-----------------------------------------------------------------------------
(* Headers and payloads *)

\* A header without its payload counts as one part.
LEMMA BegunFacts == begun \in {0, 1} /\ (begun = 1 <=> decoder = "payload")
  BY SMT DEF begun

\* Adding a part turns even into odd.
LEMMA Parity ==
  /\ \A n \in Nat : Odd(n + 1) <=> ~Odd(n)
  /\ \A n \in Nat : Odd((n + 1) + 1) <=> Odd(n)
  /\ ~Odd(0) /\ Odd(1)
  BY SMT DEF Odd

\* One Write: a header after a payload, or the payload of the last header.
LEMMA PairedWrite == ASSUME TypeOK, Paired, WritePart PROVE Paired'
<1>1. /\ loop \in {"header", "payload"} /\ ~streamClosed
      /\ wire' = Append(wire, [of |-> current, part |-> loop])
      /\ loop' = IF loop = "header" THEN "payload" ELSE "written"
      /\ UNCHANGED <<streamClosed, current, decoder, decoding>>
  BY DEF WritePart, remote
<1>2. ~Ended /\ ~Ended'
  BY <1>1 DEF Ended
<1>3. [of |-> current, part |-> loop].of = current /\ [of |-> current, part |-> loop] \in Part
  BY <1>1 DEF Part, TypeOK
<1>4. PICK n \in Nat : n = Len(wire)
  BY SMT DEF TypeOK
<1>5. /\ wire # <<>> <=> n # 0
      /\ wire' \in Seq(Part) /\ Len(wire') = n + 1
      /\ \A k \in 1..n : wire'[k] = wire[k]
      /\ wire'[n + 1].of = current /\ wire' # <<>>
  <2> DEFINE p == [of |-> current, part |-> loop]
  <2>1. wire \in Seq(Part) /\ p \in Part /\ p.of = current /\ wire' = Append(wire, p)
    BY <1>1, <1>3 DEF TypeOK
  <2> HIDE DEF p
  <2>2. /\ wire' \in Seq(Part) /\ Len(wire') = n + 1
        /\ (\A k \in 1..n : wire'[k] = wire[k]) /\ wire'[n + 1] = p
    BY SMT, <1>4, <2>1
  <2>3. (wire # <<>> <=> n # 0) /\ (wire' # <<>> <=> n + 1 # 0)
    BY <1>4, <2>1, <2>2, EmptyLen
  <2>4. QED
    BY SMT, <1>4, <2>1, <2>2, <2>3
<1>6. PICK b \in {0, 1} : b = begun /\ b = begun' /\ (b = 1 <=> decoder = "payload")
  BY <1>1, BegunFacts DEF begun
<1>7. /\ Odd(n + b) <=> loop = "payload"
      /\ loop = "payload" /\ n # 0 => wire[n].of = current
      /\ loop = "payload" /\ n = 0 => decoding = current
      /\ \A i \in 1..(n - 1) : Odd(i + b) => wire[i + 1].of = wire[i].of
      /\ decoder = "payload" /\ n # 0 => wire[1].of = decoding
      /\ decoder # "stopped"
  BY <1>1, <1>2, <1>4, <1>5, <1>6 DEF Paired
<1>8. Odd((n + 1) + b) <=> ~Odd(n + b)
  <2>1. n + b \in Nat /\ (n + 1) + b = (n + b) + 1
    BY SMT, <1>4, <1>6
  <2>2. QED
    BY <2>1, Parity
<1>9. ASSUME NEW i \in 1..n, Odd(i + b) PROVE wire'[i + 1].of = wire'[i].of
  <2>1. CASE i = n
    BY SMT, <1>5, <1>7, <1>9, <2>1
  <2>2. CASE i # n
    <3>1. i \in 1..(n - 1) /\ i \in 1..n /\ i + 1 \in 1..n
      BY SMT, <1>4, <2>2
    <3>2. QED
      BY <1>5, <1>7, <1>9, <3>1
  <2>3. QED
    BY <2>1, <2>2
<1>10. decoder' = "payload" => wire'[1].of = decoding'
  <2>1. SUFFICES ASSUME decoder = "payload" PROVE wire'[1].of = decoding
    BY <1>1
  <2>2. CASE n = 0
    <3>1. Odd(n + b)
      BY <1>6, <2>1, <2>2, Parity
    <3>2. QED
      BY SMT, <1>5, <1>7, <2>2, <3>1
  <2>3. CASE n # 0
    <3>1. 1 \in 1..n
      BY SMT, <1>4, <2>3
    <3>2. QED
      BY <1>5, <1>7, <2>1, <2>3, <3>1
  <2>4. QED
    BY <2>2, <2>3
<1>11. /\ Odd(Len(wire') + b) <=> loop' = "payload"
       /\ wire'[Len(wire')].of = current'
  BY <1>1, <1>5, <1>7, <1>8
<1>12. Len(wire') - 1 = n
  BY SMT, <1>4, <1>5
<1>13. QED
  BY <1>1, <1>5, <1>6, <1>7, <1>9, <1>10, <1>11, <1>12 DEF Paired

\* One ReadFull.
LEMMA PairedRead == ASSUME TypeOK, Paired, DecodePart PROVE Paired'
<1>1. /\ decoder \in {"header", "payload"} /\ wire # <<>> /\ wire' = Tail(wire)
      /\ decoder' = IF decoder = "header" THEN "payload" ELSE "header"
      /\ decoding' = IF decoder = "header" THEN Head(wire).of ELSE NoSend
      /\ UNCHANGED <<streamClosed, loop, current>>
  BY DEF DecodePart, writer
<1>2. PICK n \in Nat : Len(wire) = n + 1
  BY SMTT(30), <1>1 DEF TypeOK
<1>3. /\ wire' \in Seq(Part) /\ Len(wire') = n /\ Head(wire) = wire[1]
      /\ \A k \in 1..n : wire'[k] = wire[k + 1]
      /\ wire' # <<>> <=> n # 0
  <2>1. wire \in Seq(Part)
    BY DEF TypeOK
  <2>2. /\ Tail(wire) \in Seq(Part) /\ Len(Tail(wire)) = Len(wire) - 1 /\ Head(wire) = wire[1]
        /\ \A k \in 1..Len(Tail(wire)) : Tail(wire)[k] = wire[k + 1]
    BY <1>1, <2>1, TailFacts
  <2>3. Len(Tail(wire)) = n
    BY SMT, <1>2, <2>2
  <2>4. wire' # <<>> <=> n # 0
    BY <1>1, <2>2, <2>3, EmptyLen
  <2>5. QED
    BY <1>1, <2>2, <2>3, <2>4
<1>4. Ended' = Ended
  BY <1>1 DEF Ended
<1>5. PICK b \in {0, 1} : b = begun /\ (b = 1 <=> decoder = "payload")
  BY BegunFacts
<1>6. begun' = 1 - b
  BY SMT, <1>1, <1>5 DEF begun
<1>7. /\ \A i \in 1..n : Odd(i + b) => wire[i + 1].of = wire[i].of
      /\ decoder = "payload" => wire[1].of = decoding
      /\ ~Ended => /\ Odd((n + 1) + b) <=> loop = "payload"
                   /\ loop = "payload" => wire[n + 1].of = current
  <2>1. Len(wire) - 1 = n
    BY SMT, <1>2
  <2>2. QED
    BY <1>1, <1>2, <1>5, <2>1 DEF Paired
<1>8. \A k \in Nat : Odd(k + (1 - b)) <=> Odd((k + 1) + b)
  <2>1. CASE b = 0
    BY SMT, <2>1
  <2>2. CASE b = 1
    <3>1. \A k \in Nat : k + (1 - b) = k /\ (k + 1) + b = (k + 1) + 1
      BY SMT, <2>2
    <3>2. QED
      BY SMT, <3>1, Parity
  <2>3. QED
    BY <1>5, <2>1, <2>2
<1>9. ASSUME NEW i \in 1..(n - 1), Odd(i + (1 - b)) PROVE wire'[i + 1].of = wire'[i].of
  <2>1. i \in 1..n /\ i + 1 \in 1..n /\ i \in Nat
    BY SMT, <1>2
  <2>2. Odd((i + 1) + b)
    BY <1>8, <1>9, <2>1
  <2>3. wire[(i + 1) + 1].of = wire[i + 1].of
    BY <1>7, <2>1, <2>2
  <2>4. QED
    BY <1>3, <2>1, <2>3
<1>10. decoder' = "payload" /\ wire' # <<>> => wire'[1].of = decoding'
  <2>1. SUFFICES ASSUME decoder = "header", n # 0 PROVE wire'[1].of = decoding'
    BY <1>1, <1>3
  <2>2. b = 0 /\ 1 \in 1..n /\ 1 + 0 = 1 /\ 1 + b = 1
    BY SMT, <1>2, <1>5, <2>1
  <2>3. wire[1 + 1].of = wire[1].of
    BY SMT, <1>7, <2>2, Parity
  <2>4. decoding' = wire[1].of
    BY <1>1, <1>3, <2>1
  <2>5. wire'[1] = wire[1 + 1]
    BY <1>3, <2>2
  <2>6. QED
    BY <2>3, <2>4, <2>5
<1>11. ASSUME ~Ended'
       PROVE  /\ Odd(Len(wire') + begun') <=> loop' = "payload"
              /\ loop' = "payload" /\ wire' # <<>> => wire'[Len(wire')].of = current'
              /\ loop' = "payload" /\ wire' = <<>> => decoding' = current'
  <2>1. Odd(Len(wire') + begun') <=> loop' = "payload"
    BY <1>1, <1>2, <1>3, <1>4, <1>6, <1>7, <1>8, <1>11
  <2>2. loop' = "payload" /\ wire' # <<>> => wire'[Len(wire')].of = current'
    <3>1. n # 0 => n \in 1..n
      BY SMT, <1>2
    <3>2. QED
      BY <1>1, <1>3, <1>4, <1>7, <1>11, <3>1
  <2>3. ASSUME loop' = "payload", wire' = <<>> PROVE decoding' = current'
    <3>1. n = 0
      BY <1>3, <2>3
    <3>2. Odd(1 + b)
      BY SMT, <1>1, <1>4, <1>7, <1>11, <2>3, <3>1
    <3>3. b = 0
      <4>1. ~Odd(1 + 1)
        BY Parity
      <4>2. QED
        BY <1>5, <3>2, <4>1
    <3>4. decoder = "header"
      BY SMT, <1>1, <1>5, <3>3
    <3>5. wire[n + 1].of = current
      BY <1>1, <1>4, <1>7, <1>11, <2>3
    <3>6. QED
      BY SMT, <1>1, <1>3, <3>1, <3>4, <3>5
  <2>4. QED
    BY <2>1, <2>2, <2>3
<1>12. decoder' # "stopped"
  BY <1>1
<1>13. QED
  BY <1>3, <1>6, <1>9, <1>10, <1>11, <1>12 DEF Paired

\* The stream is closed and keeps a prefix.
LEMMA PairedClose ==
  ASSUME TypeOK, Paired, StreamClose, UNCHANGED <<decoder, decoding>>
  PROVE  Paired'
<1>1. PICK n \in 0..Len(wire) : Len(wire') = n /\ (\A k \in 1..n : wire'[k] = wire[k]) /\ wire' \in Seq(Part)
  BY Closes
<1>2. streamClosed' = TRUE /\ Ended'
  BY Closes DEF Ended
<1>3. begun' = begun /\ n \in Nat /\ Len(wire) \in Nat /\ (wire' # <<>> => 1 \in 1..n /\ wire # <<>>)
  BY SMT, <1>1 DEF begun, TypeOK
<1>4. ASSUME NEW i \in 1..(n - 1) PROVE i \in 1..(Len(wire) - 1) /\ i \in 1..n /\ i + 1 \in 1..n
  BY SMT, <1>1, <1>3
<1>5. decoder = "stopped" => wire' = <<>>
  BY <1>1, <1>3 DEF Paired
<1>6. QED
  BY <1>1, <1>2, <1>3, <1>4, <1>5 DEF Paired

\* Everything else leaves the stream alone.
LEMMA PairedElse ==
  ASSUME Paired, UNCHANGED <<wire, decoder, decoding, streamClosed>>,
         \/ UNCHANGED <<loop, current>>
         \/ Ended'
         \/ ~Ended /\ loop # "payload" /\ loop' # "payload"
  PROVE  Paired'
<1>1. begun' = begun
  BY DEF begun
<1>2. QED
  BY <1>1 DEF Paired, Ended

\* Headers and payloads stay paired in every step.
LEMMA StepPaired == TypeOK /\ Paired /\ [Next]_vars => Paired'
<1> SUFFICES ASSUME TypeOK, Paired, [Next]_vars PROVE Paired'
  OBVIOUS
<1>1. ASSUME NEW c \in Send,
             SendBegin(c) \/ SendQueued(c) \/ SendTaken(c) \/ SendReturns(c) \/ SendGivesUp(c)
      PROVE  Paired'
  BY SMT, <1>1, PairedElse
     DEF SendBegin, SendQueued, SendTaken, SendReturns, SendGivesUp, Leave, writer, remote, Ended
<1>2. CASE LoopTake \/ WriteDone \/ WriteFails
  BY SMT, <1>2, PairedElse DEF LoopTake, WriteDone, WriteFails, Report, remote, Ended
<1>3. CASE LoopFails \/ LoopCanceled
  BY <1>3, PairedElse DEF LoopFails, LoopCanceled, remote, Ended
<1>4. CASE WritePart
  BY <1>4, PairedWrite
<1>5. CASE LoopEnds \/ Watch \/ Close
  BY <1>5, PairedClose DEF LoopEnds, Watch, Close, remote
<1>6. CASE ParentCanceled \/ ReadFails \/ CloseJoin
  BY <1>6, PairedElse DEF ParentCanceled, ReadFails, CloseJoin, writer, remote
<1>7. CASE DecodePart
  BY <1>7, PairedRead
<1>8. CASE DecodeFails
  <2>1. /\ wire = <<>> /\ streamClosed /\ decoder' = "stopped" /\ UNCHANGED <<wire, streamClosed>>
    BY <1>8 DEF DecodeFails
  <2>2. Ended' /\ Len(wire') = 0
    BY <2>1 DEF Ended
  <2>3. \A i \in 1..(Len(wire') - 1) : FALSE
    BY SMT, <2>2
  <2>4. QED
    BY <2>1, <2>2, <2>3 DEF Paired
<1>9. CASE UNCHANGED vars
  BY <1>9, PairedElse DEF vars, writer, remote
<1>10. QED
  BY <1>1, <1>2, <1>3, <1>4, <1>5, <1>6, <1>7, <1>8, <1>9 DEF Next, WriteLoop

-----------------------------------------------------------------------------
(* A frame is offered once *)

\* A step that takes no new frame keeps the others where they are.
LEMMA FreshElse ==
  ASSUME Fresh, \A c \in Send : call'[c] = "offer" => call[c] = "offer",
         \A c \in Send : Held(c)' => Held(c)
  PROVE  Fresh'
  BY DEF Fresh

\* A frame that is offered is nowhere else.
LEMMA StepFresh == TypeOK /\ Fresh /\ [Next]_vars => Fresh'
<1> SUFFICES ASSUME TypeOK, Fresh, [Next]_vars PROVE Fresh'
  OBVIOUS
<1>1. ASSUME NEW c \in Send, SendBegin(c) PROVE Fresh'
  <2>1. \A d \in Send : Held(d)' <=> Held(d)
    BY <1>1 DEF SendBegin, Held, writer, remote
  <2>2. \A d \in Send : call'[d] = "offer" => call[d] = "offer" \/ ~Held(d)
    BY <1>1 DEF SendBegin, TypeOK
  <2>3. QED
    BY <2>1, <2>2 DEF Fresh
<1>2. ASSUME NEW c \in Send, SendQueued(c) PROVE Fresh'
  <2> SUFFICES ASSUME NEW d \in Send, call'[d] = "offer" PROVE ~Held(d)'
    BY DEF Fresh
  <2>1. /\ writes' = Append(writes, c) /\ UNCHANGED <<current, wire, decoding>>
        /\ call' = [call EXCEPT ![c] = "wait"]
    BY <1>2 DEF SendQueued, remote
  <2>2. d # c /\ call[d] = "offer"
    BY <2>1 DEF TypeOK
  <2>3. ~Held(d)
    BY <2>2 DEF Fresh
  <2>4. writes \in Seq(Send)
    BY DEF TypeOK
  <2>5. /\ Len(writes) \in Nat /\ Len(writes') = Len(writes) + 1
        /\ (\A i \in 1..Len(writes) : writes'[i] = writes[i]) /\ writes'[Len(writes) + 1] = c
    BY SMT, <2>1, <2>4, AppendFacts
  <2>6. \A i \in 1..Len(writes') : writes'[i] # d
    BY SMT, <2>2, <2>3, <2>5 DEF Held
  <2>7. QED
    BY <2>1, <2>3, <2>6 DEF Held
<1>3. ASSUME NEW c \in Send, SendTaken(c) PROVE Fresh'
  <2>1. /\ UNCHANGED <<writes, wire, decoding>> /\ current' = c
        /\ call' = [call EXCEPT ![c] = "wait"]
    BY <1>3 DEF SendTaken, remote
  <2>2. \A d \in Send : call'[d] = "offer" => d # c /\ call[d] = "offer"
    BY <2>1 DEF TypeOK
  <2>3. QED
    BY <2>1, <2>2 DEF Fresh, Held
<1>4. ASSUME NEW c \in Send, SendReturns(c) \/ SendGivesUp(c) PROVE Fresh'
  <2>1. \A d \in Send : (Held(d)' <=> Held(d)) /\ (call'[d] = "offer" => call[d] = "offer")
    BY <1>4 DEF SendReturns, SendGivesUp, Leave, Held, writer, remote, TypeOK
  <2>2. QED
    BY <2>1, FreshElse
<1>5. CASE LoopTake
  <2>1. /\ writes # <<>> /\ current' = Head(writes) /\ writes' = Tail(writes)
        /\ UNCHANGED <<wire, decoding, call>>
    BY <1>5 DEF LoopTake, callers, remote
  <2>2. writes \in Seq(Send)
    BY DEF TypeOK
  <2>3. /\ Len(writes) \in Nat \ {0} /\ Head(writes) = writes[1]
        /\ \A i \in 1..Len(Tail(writes)) : i + 1 \in 1..Len(writes) /\ Tail(writes)[i] = writes[i + 1]
    BY <2>1, <2>2, TailFacts
  <2>4. 1 \in 1..Len(writes)
    BY SMT, <2>3
  <2>5. ASSUME NEW d \in Send, Held(d)' PROVE Held(d)
    BY <2>1, <2>3, <2>4, <2>5 DEF Held
  <2>6. QED
    BY <2>1, <2>5, FreshElse
<1>6. CASE WritePart
  <2>1. /\ wire' = Append(wire, [of |-> current, part |-> loop])
        /\ UNCHANGED <<writes, current, decoding, call>>
        /\ [of |-> current, part |-> loop].of = current
        /\ [of |-> current, part |-> loop] \in Part
    BY <1>6 DEF WritePart, callers, remote, TypeOK, Part
  <2>2. PICK p \in Part : p.of = current /\ wire' = Append(wire, p)
    BY <2>1
  <2>3. wire \in Seq(Part)
    BY DEF TypeOK
  <2>4. /\ Len(wire) \in Nat /\ Len(wire') = Len(wire) + 1
        /\ (\A i \in 1..Len(wire) : wire'[i] = wire[i]) /\ wire'[Len(wire) + 1] = p
    BY SMT, <2>2, <2>3, AppendFacts
  <2>5. ASSUME NEW d \in Send, Held(d)' PROVE Held(d)
    <3>1. ASSUME NEW i \in 1..Len(wire'), wire'[i].of = d PROVE Held(d)
      <4>1. CASE i = Len(wire) + 1
        BY <2>2, <2>4, <3>1, <4>1 DEF Held
      <4>2. CASE i # Len(wire) + 1
        <5>1. i \in 1..Len(wire)
          BY SMT, <2>4, <4>2
        <5>2. QED
          BY <2>4, <3>1, <5>1 DEF Held
      <4>3. QED
        BY <4>1, <4>2
    <3>2. QED
      BY <2>1, <2>5, <3>1 DEF Held
  <2>6. QED
    BY <2>1, <2>5, FreshElse
<1>7. CASE WriteDone \/ WriteFails
  <2>1. current' = NoSend /\ UNCHANGED <<writes, call, wire, decoding>>
    BY <1>7 DEF WriteDone, WriteFails, Report, remote
  <2>2. \A d \in Send : Held(d)' => Held(d)
    BY <2>1, ConnAssumption DEF Held
  <2>3. QED
    BY <2>1, <2>2, FreshElse
<1>8. CASE LoopEnds \/ Watch \/ Close
  <2>1. StreamClose /\ UNCHANGED <<writes, current, call, decoding>>
    BY <1>8 DEF LoopEnds, Watch, Close, writer, callers, remote
  <2>2. PICK n \in 0..Len(wire) : Len(wire') = n /\ \A k \in 1..n : wire'[k] = wire[k]
    BY <2>1, Closes
  <2>3. \A k \in 1..n : k \in 1..Len(wire)
    BY SMT, <2>2 DEF TypeOK
  <2>4. \A d \in Send : Held(d)' => Held(d)
    BY <2>1, <2>2, <2>3 DEF Held
  <2>5. QED
    BY <2>1, <2>4, FreshElse
<1>9. CASE LoopFails \/ LoopCanceled \/ ParentCanceled \/ ReadFails \/ CloseJoin \/ UNCHANGED vars
  <2>1. UNCHANGED <<writes, current, call, wire, decoding>>
    BY <1>9 DEF LoopFails, LoopCanceled, ParentCanceled, ReadFails, CloseJoin, vars, writer,
                callers, remote
  <2>2. \A d \in Send : Held(d)' => Held(d)
    BY <2>1 DEF Held
  <2>3. QED
    BY <2>1, <2>2, FreshElse
<1>10. CASE DecodePart
  <2>1. /\ wire # <<>> /\ wire' = Tail(wire) /\ decoding' \in {Head(wire).of, NoSend}
        /\ UNCHANGED <<writes, current, call>>
    BY <1>10 DEF DecodePart, writer, callers
  <2>2. wire \in Seq(Part)
    BY DEF TypeOK
  <2>3. /\ Len(wire) \in Nat \ {0} /\ Head(wire) = wire[1]
        /\ \A i \in 1..Len(Tail(wire)) : i + 1 \in 1..Len(wire) /\ Tail(wire)[i] = wire[i + 1]
    BY <2>1, <2>2, TailFacts
  <2>4. 1 \in 1..Len(wire)
    BY SMT, <2>3
  <2>5. ASSUME NEW d \in Send, Held(d)' PROVE Held(d)
    BY <2>1, <2>3, <2>4, <2>5, ConnAssumption DEF Held
  <2>6. QED
    BY <2>1, <2>5, FreshElse
<1>11. CASE DecodeFails
  <2>1. decoding' = NoSend /\ UNCHANGED <<writes, current, call, wire>>
    BY <1>11 DEF DecodeFails, writer, callers
  <2>2. \A d \in Send : Held(d)' => Held(d)
    BY <2>1, ConnAssumption DEF Held
  <2>3. QED
    BY <2>1, <2>2, FreshElse
<1>12. QED
  BY <1>1, <1>2, <1>3, <1>4, <1>5, <1>6, <1>7, <1>8, <1>9, <1>10, <1>11 DEF Next, WriteLoop

\* A new Conn has nothing on its way.
LEMMA Initially == Init => IInv
<1> SUFFICES ASSUME Init PROVE IInv
  OBVIOUS
<1> USE DEF Init
<1>1. TypeOK
  <2>1. <<>> \in Seq(Send) /\ <<>> \in Seq(Part)
    BY SMT
  <2>2. streamClosed \in BOOLEAN
    OBVIOUS
  <2>3. QED
    BY <2>1, <2>2 DEF TypeOK
<1>2. Blame
  BY DEF Blame, canceled
<1>3. Paired
  <2>1. Len(wire) = 0 /\ begun = 0 /\ ~Odd(Len(wire) + begun)
    BY SMT, Parity DEF begun
  <2>2. QED
    BY SMT, <2>1 DEF Paired
<1>4. Fresh
  BY DEF Fresh
<1>5. QED
  BY <1>1, <1>2, <1>3, <1>4 DEF IInv

\* The invariant is kept by every step.
LEMMA Inductive == IInv /\ [Next]_vars => IInv'
  BY StepTypes, StepBlame, StepPaired, StepFresh DEF IInv

\* The first error of a Conn stays, so that a failed read or write is never
\* hidden by the cancellation it causes, and whoever finds Conn.done closed
\* finds an error.
THEOREM FailureIsNotMasked == Spec => []FailureNotMasked
<1>1. IInv => FailureNotMasked
  BY DEF IInv, Blame, FailureNotMasked
<1>2. QED
  BY <1>1, Initially, Inductive, PTL DEF Spec

-----------------------------------------------------------------------------
(* The remote gets a prefix *)

\* Nothing to add.
LEMMA EmptyConcat == ASSUME NEW S, NEW a \in Seq(S) PROVE a \o <<>> = a /\ <<>> \o a = a
  BY SMT

\* A frame at the end of either half.
LEMMA AppendConcat ==
  ASSUME NEW S, NEW a \in Seq(S), NEW b \in Seq(S), NEW e \in S
  PROVE  /\ a \o Append(b, e) = Append(a \o b, e)
         /\ Append(a, e) \o b = a \o (<<e>> \o b)
<1>1. a \o Append(b, e) = Append(a \o b, e)
  BY SMTT(30)
<1>2. Append(a, e) = a \o <<e>> /\ <<e>> \in Seq(S)
  BY SMTT(30)
<1>3. \A q \in Seq(S) : (a \o q) \o b = a \o (q \o b)
  BY SMTT(30)
<1>4. QED
  BY <1>1, <1>2, <1>3

\* The first frame of a concatenation.
LEMMA HeadConcat ==
  ASSUME NEW S, NEW a \in Seq(S), NEW b \in Seq(S), a # <<>>
  PROVE  /\ <<Head(a)>> \o Tail(a) = a
         /\ a \o b # <<>> /\ Head(a \o b) = Head(a) /\ Tail(a \o b) = Tail(a) \o b
<1>1. <<Head(a)>> \o Tail(a) = a
  BY SMTT(30)
<1>2. a \o b # <<>> /\ Head(a \o b) = Head(a)
  BY SMTT(30)
<1>3. Tail(a \o b) = Tail(a) \o b
  BY SMTT(30)
<1>4. QED
  BY <1>1, <1>2, <1>3

\* In neither half, in neither place.
LEMMA NotInConcat ==
  ASSUME NEW S, NEW a \in Seq(S), NEW b \in Seq(S), NEW e,
         \A i \in 1..Len(a) : a[i] # e, \A i \in 1..Len(b) : b[i] # e
  PROVE  \A i \in 1..Len(a \o b) : (a \o b)[i] # e
  BY SMT

\* A prefix of the first half.
LEMMA PrefixConcat ==
  ASSUME NEW S, NEW a \in Seq(S), NEW b \in Seq(S), NEW m \in 0..Len(a)
  PROVE  m \in 0..Len(a \o b) /\ SubSeq(a \o b, 1, m) = SubSeq(a, 1, m) /\ SubSeq(a, 1, Len(a)) = a
  BY SMT

\* The frames that are not in the stream yet and still can be.
InHand == IF loop \in {"header", "payload"} THEN <<current>> ELSE <<>>

Unsent == IF Ended THEN <<>> ELSE InHand \o writes

\* The mapping in the terms of the proofs.
LEMMA TransitFacts ==
  ASSUME TypeOK
  PROVE  /\ Sent = Payloads(wire, begun) /\ InTransit = Sent \o Unsent
         /\ Sent \in Seq(Send) /\ InHand \in Seq(Send) /\ writes \in Seq(Send)
         /\ Unsent \in Seq(Send) /\ InTransit \in Seq(Send)
<1>1. Sent = Payloads(wire, begun)
  BY DEF Sent, Payloads, begun, Half
<1>2. InTransit = Sent \o Unsent
  BY DEF InTransit, Unsent, InHand
<1>3. Sent \in Seq(Send)
  BY <1>1, BegunFacts, PayloadsType DEF TypeOK
<1>4. InHand \in Seq(Send) /\ writes \in Seq(Send) /\ Unsent \in Seq(Send)
  <2>1. InHand \in Seq(Send) /\ writes \in Seq(Send)
    BY SMT DEF InHand, TypeOK
  <2>2. InHand \o writes \in Seq(Send) /\ <<>> \in Seq(Send)
    BY SMT, <2>1
  <2>3. QED
    BY <2>1, <2>2 DEF Unsent
<1>5. InTransit \in Seq(Send)
  BY SMT, <1>2, <1>3, <1>4
<1>6. QED
  BY <1>1, <1>2, <1>3, <1>4, <1>5

\* The same after a step.
LEMMA TransitNext == Sent' = Payloads(wire', begun') /\ InTransit' = Sent' \o Unsent'
<1>1. Sent' = Payloads(wire', begun')
  BY DEF Sent, Payloads, begun, Half
<1>2. InTransit' = Sent' \o Unsent'
  BY DEF InTransit, Unsent, InHand
<1>3. QED
  BY <1>1, <1>2

\* What nobody holds is not on its way.
LEMMA NotInTransit ==
  ASSUME TypeOK, NEW c \in Send, ~Held(c)
  PROVE  \A i \in 1..Len(InTransit) : InTransit[i] # c
<1>1. /\ Sent = Payloads(wire, begun) /\ InTransit = Sent \o Unsent
      /\ Sent \in Seq(Send) /\ InHand \in Seq(Send) /\ writes \in Seq(Send) /\ Unsent \in Seq(Send)
  BY TransitFacts
<1>2. \A i \in 1..Len(Sent) : Sent[i] # c
  <2>1. /\ Len(Sent) = Half(Len(wire) + begun)
        /\ \A i \in 1..Half(Len(wire) + begun) :
             2 * i - begun \in 1..Len(wire) /\ Payloads(wire, begun)[i] = wire[2 * i - begun].of
    BY <1>1, BegunFacts, PayloadsType DEF TypeOK
  <2>2. QED
    BY <1>1, <2>1 DEF Held
<1>3. \A i \in 1..Len(InHand) : InHand[i] # c
  BY SMT DEF InHand, Held
<1>4. \A i \in 1..Len(writes) : writes[i] # c
  BY DEF Held
<1>5. \A i \in 1..Len(InHand \o writes) : (InHand \o writes)[i] # c
  BY <1>1, <1>3, <1>4, NotInConcat
<1>6. \A i \in 1..Len(Unsent) : Unsent[i] # c
  BY SMT, <1>5 DEF Unsent
<1>7. QED
  BY <1>1, <1>2, <1>6, NotInConcat

\* An empty stream has no payloads.
LEMMA NothingSent ==
  /\ [i \in 1..((Len(<<>>) + 0) \div 2) |-> <<>>[2 * i - 0].of] = <<>>
  /\ [i \in 1..((Len(<<>>) + 1) \div 2) |-> <<>>[2 * i - 1].of] = <<>>
<1>1. (Len(<<>>) + 0) \div 2 = 0 /\ (Len(<<>>) + 1) \div 2 = 0
  BY SMT
<1>2. QED
  BY SMT, <1>1

Step == [Channel!FNext]_(Channel!fvars)

\* A step the channel does not see.
LEMMA Stutters == ASSUME UNCHANGED <<InTransit, arrived, Ended>> PROVE Step
  BY DEF Step, Channel!fvars

\* The remote goes on to the next frame.
LEMMA Consumes == ASSUME UNCHANGED <<InTransit, Ended>>, arrived' = NoSend PROVE Step
  BY DEF Step, Channel!FNext, Channel!Consume

\* The channel ends and loses a suffix.
LEMMA Loses ==
  ASSUME NEW n \in 0..Len(InTransit), InTransit' = SubSeq(InTransit, 1, n), Ended',
         UNCHANGED arrived
  PROVE  Step
<1>1. Ended' = TRUE
  BY DEF Ended
<1>2. QED
  BY <1>1 DEF Step, Channel!FNext, Channel!Lose

\* Send hands its frame to the Conn.
LEMMA Accepted ==
  ASSUME IInv, NEW c \in Send, SendQueued(c) \/ SendTaken(c)
  PROVE  Step
<1>1. /\ call[c] = "offer" /\ UNCHANGED <<wire, decoder, arrived, streamClosed>>
      /\ \/ writes' = Append(writes, c) /\ UNCHANGED <<loop, current>>
         \/ writes = <<>> /\ writes' = <<>> /\ loop = "select" /\ loop' = "header" /\ current' = c
  BY DEF SendQueued, SendTaken, remote
<1>2. Ended' = Ended /\ begun' = begun
  BY <1>1 DEF Ended, begun
<1>3. TypeOK /\ \A i \in 1..Len(InTransit) : InTransit[i] # c
  BY <1>1, NotInTransit DEF IInv, Fresh
<1>4. /\ Sent = Payloads(wire, begun) /\ InTransit = Sent \o Unsent
      /\ Sent \in Seq(Send) /\ InHand \in Seq(Send) /\ writes \in Seq(Send) /\ Unsent \in Seq(Send)
  BY <1>3, TransitFacts
<1>5. Sent' = Payloads(wire', begun') /\ InTransit' = Sent' \o Unsent'
  BY TransitNext
<1>6. Sent' = Sent
  BY <1>1, <1>2, <1>4, <1>5
<1>7. CASE Ended
  <2>1. Unsent' = Unsent
    BY <1>2, <1>7 DEF Unsent
  <2>2. QED
    BY <1>1, <1>2, <1>4, <1>5, <1>6, <2>1, Stutters
<1>8. CASE ~Ended
  <2>1. Unsent' = Append(Unsent, c)
    <3>1. Unsent = InHand \o writes /\ Unsent' = InHand' \o writes'
      BY <1>2, <1>8 DEF Unsent
    <3>2. CASE writes' = Append(writes, c) /\ UNCHANGED <<loop, current>>
      <4>1. InHand' = InHand
        BY <3>2 DEF InHand
      <4>2. InHand \o Append(writes, c) = Append(InHand \o writes, c)
        BY SMT, <1>4, AppendConcat
      <4>3. QED
        BY <3>1, <3>2, <4>1, <4>2
    <3>3. CASE writes = <<>> /\ writes' = <<>> /\ loop = "select" /\ loop' = "header" /\ current' = c
      <4>1. InHand = <<>> /\ InHand' = <<c>>
        BY <3>3 DEF InHand
      <4>2. <<c>> \o <<>> = Append(<<>> \o <<>>, c)
        BY SMT
      <4>3. QED
        BY <3>1, <3>3, <4>1, <4>2
    <3>4. QED
      BY <1>1, <3>2, <3>3
  <2>2. Sent \o Append(Unsent, c) = Append(Sent \o Unsent, c)
    BY SMTT(30), <1>4, AppendConcat
  <2>3. InTransit' = Append(InTransit, c)
    BY <1>4, <1>5, <1>6, <2>1, <2>2
  <2>4. Channel!Accept(c)
    BY <1>1, <1>2, <1>3, <1>8, <2>3 DEF Channel!Accept
  <2>5. QED
    BY <2>4 DEF Step, Channel!FNext
<1>9. QED
  BY <1>7, <1>8

\* writeLoop takes a frame, writes a part of it, or has written it all.
LEMMA Written == ASSUME IInv, LoopTake \/ WritePart \/ WriteDone PROVE Step
<1>1. TypeOK /\ Paired
  BY DEF IInv
<1>2. /\ Sent = Payloads(wire, begun) /\ InTransit = Sent \o Unsent
      /\ Sent \in Seq(Send) /\ InHand \in Seq(Send) /\ writes \in Seq(Send) /\ Unsent \in Seq(Send)
  BY <1>1, TransitFacts
<1>3. Sent' = Payloads(wire', begun') /\ InTransit' = Sent' \o Unsent'
  BY TransitNext
<1>4. UNCHANGED <<decoder, arrived, streamClosed>> /\ begun' = begun /\ Ended' = Ended
  BY SMT DEF LoopTake, WritePart, WriteDone, Report, remote, Ended, begun
<1>5. CASE LoopTake
  <2>1. /\ loop = "select" /\ loop' = "header" /\ writes # <<>> /\ wire' = wire
        /\ current' = Head(writes) /\ writes' = Tail(writes)
    BY <1>5 DEF LoopTake
  <2>2. InHand = <<>> /\ InHand' = <<Head(writes)>>
    BY <2>1 DEF InHand
  <2>3. <<Head(writes)>> \o Tail(writes) = <<>> \o writes
    BY <1>2, <2>1, HeadConcat, EmptyConcat
  <2>4. InHand' \o writes' = InHand \o writes
    BY <2>1, <2>2, <2>3
  <2>5. Unsent' = Unsent
    BY <1>4, <2>4 DEF Unsent
  <2>6. QED
    BY <1>2, <1>3, <1>4, <2>1, <2>5, Stutters
<1>6. CASE WriteDone
  <2>1. loop = "written" /\ loop' = "select" /\ UNCHANGED <<wire, writes>>
    BY <1>6 DEF WriteDone, Report
  <2>2. Unsent' = Unsent
    BY <1>4, <2>1 DEF Unsent, InHand
  <2>3. QED
    BY <1>2, <1>3, <1>4, <2>1, <2>2, Stutters
<1>7. CASE WritePart
  <2>1. /\ loop \in {"header", "payload"} /\ ~streamClosed /\ UNCHANGED <<writes, current>>
        /\ wire' = Append(wire, [of |-> current, part |-> loop])
        /\ loop' = IF loop = "header" THEN "payload" ELSE "written"
    BY <1>7 DEF WritePart
  <2>2. current \in Send /\ wire \in Seq(Part) /\ ~Ended
    BY <1>1, <2>1 DEF TypeOK, Ended
  <2>3. /\ [of |-> current, part |-> loop] \in Part
        /\ [of |-> current, part |-> loop].of = current
    BY <2>1, <2>2 DEF Part
  <2>4. PICK p \in Part : p.of = current /\ wire' = Append(wire, p)
    BY <2>1, <2>3
  <2>5. Odd(Len(wire) + begun) <=> loop = "payload"
    BY <1>1, <2>2 DEF Paired
  <2>6. /\ Odd(Len(wire) + begun) => Payloads(Append(wire, p), begun) = Append(Payloads(wire, begun), p.of)
        /\ ~Odd(Len(wire) + begun) => Payloads(Append(wire, p), begun) = Payloads(wire, begun)
    BY <2>2, BegunFacts, AppendPart
  <2>7. CASE loop = "header"
    <3>1. Sent' = Sent
      BY <1>2, <1>3, <1>4, <2>4, <2>5, <2>6, <2>7
    <3>2. Unsent' = Unsent
      BY <1>4, <2>1, <2>7 DEF Unsent, InHand
    <3>3. QED
      BY <1>2, <1>3, <1>4, <3>1, <3>2, Stutters
  <2>8. CASE loop = "payload"
    <3>1. Sent' = Append(Sent, current)
      BY <1>2, <1>3, <1>4, <2>4, <2>5, <2>6, <2>8
    <3>2. Unsent = <<current>> \o writes
      BY <2>2, <2>8 DEF Unsent, InHand
    <3>3. Unsent' = <<>> \o writes
      BY <1>4, <2>1, <2>2, <2>8 DEF Unsent, InHand
    <3>4. <<>> \o writes = writes
      BY <1>2, EmptyConcat
    <3>5. Append(Sent, current) \o writes = Sent \o (<<current>> \o writes)
      BY SMTT(30), <1>2, <2>2, AppendConcat
    <3>6. InTransit' = InTransit
      BY <1>2, <1>3, <3>1, <3>2, <3>3, <3>4, <3>5
    <3>7. QED
      BY <1>4, <3>6, Stutters
  <2>9. QED
    BY <2>1, <2>7, <2>8
<1>8. QED
  BY <1>5, <1>6, <1>7

\* The loop stops writing: what is not in the stream is lost.
LEMMA Stopped == ASSUME IInv, WriteFails \/ LoopFails \/ LoopCanceled PROVE Step
<1>1. /\ Sent = Payloads(wire, begun) /\ InTransit = Sent \o Unsent
      /\ Sent \in Seq(Send) /\ Unsent \in Seq(Send)
  BY TransitFacts DEF IInv
<1>2. Sent' = Payloads(wire', begun') /\ InTransit' = Sent' \o Unsent'
  BY TransitNext
<1>3. UNCHANGED <<wire, decoder, arrived, streamClosed>> /\ loop' \in {"failed", "ending", "stopped"}
  BY DEF WriteFails, Report, LoopFails, LoopCanceled, remote
<1>4. Ended' /\ Unsent' = <<>>
  BY <1>3 DEF Ended, Unsent
<1>5. begun' = begun
  BY <1>3 DEF begun
<1>6. InTransit' = Sent
  BY <1>1, <1>2, <1>3, <1>4, <1>5, EmptyConcat
<1>7. Len(Sent) \in 0..Len(Sent)
  BY SMT, <1>1
<1>8. Len(Sent) \in 0..Len(InTransit) /\ SubSeq(InTransit, 1, Len(Sent)) = Sent
  BY SMT, <1>1, <1>7, PrefixConcat
<1>9. QED
  BY <1>3, <1>4, <1>6, <1>8, Loses

\* The stream is closed: of what it holds, a suffix may be lost too.
LEMMA Closed == ASSUME IInv, LoopEnds \/ Watch \/ Close PROVE Step
<1>1. TypeOK /\ wire \in Seq(Part)
  BY DEF IInv, TypeOK
<1>2. /\ Sent = Payloads(wire, begun) /\ InTransit = Sent \o Unsent
      /\ Sent \in Seq(Send) /\ Unsent \in Seq(Send)
  BY <1>1, TransitFacts
<1>3. Sent' = Payloads(wire', begun') /\ InTransit' = Sent' \o Unsent'
  BY TransitNext
<1>4. StreamClose /\ UNCHANGED <<decoder, arrived>>
  BY DEF LoopEnds, Watch, Close, remote
<1>5. PICK n \in 0..Len(wire) : wire' = SubSeq(wire, 1, n)
  BY <1>1, <1>4, Closes
<1>6. streamClosed' = TRUE
  BY <1>1, <1>4, Closes
<1>7. Ended' /\ Unsent' = <<>> /\ begun' = begun
  BY <1>4, <1>6 DEF Ended, Unsent, begun
<1>8. PICK m : /\ m \in 0..Len(Payloads(wire, begun))
              /\ Payloads(SubSeq(wire, 1, n), begun) = SubSeq(Payloads(wire, begun), 1, m)
  BY <1>1, BegunFacts, PrefixOfParts
<1>9. m \in 0..Len(Sent) /\ Sent' = SubSeq(Sent, 1, m)
  BY <1>2, <1>3, <1>5, <1>7, <1>8
<1>10. Sent' \in Seq(Send)
  BY SMT, <1>2, <1>9
<1>11. InTransit' = SubSeq(Sent, 1, m)
  BY <1>3, <1>7, <1>9, <1>10, EmptyConcat
<1>12. m \in 0..Len(InTransit) /\ SubSeq(InTransit, 1, m) = SubSeq(Sent, 1, m)
  BY SMT, <1>2, <1>9, PrefixConcat
<1>13. QED
  BY <1>4, <1>7, <1>11, <1>12, Loses

\* The remote reads a header, or a payload and with it the frame.
LEMMA Decoded == ASSUME IInv, DecodePart PROVE Step
<1>1. TypeOK /\ Paired /\ wire \in Seq(Part)
  BY DEF IInv, TypeOK
<1>2. /\ Sent = Payloads(wire, begun) /\ InTransit = Sent \o Unsent
      /\ Sent \in Seq(Send) /\ Unsent \in Seq(Send)
  BY <1>1, TransitFacts
<1>3. Sent' = Payloads(wire', begun') /\ InTransit' = Sent' \o Unsent'
  BY TransitNext
<1>4. /\ decoder \in {"header", "payload"} /\ wire # <<>> /\ wire' = Tail(wire)
      /\ decoder' = IF decoder = "header" THEN "payload" ELSE "header"
      /\ arrived' = IF decoder = "header" THEN NoSend ELSE decoding
      /\ UNCHANGED <<streamClosed, writes, loop, current>>
  BY DEF DecodePart, writer
<1>5. Ended' = Ended /\ Unsent' = Unsent
  BY <1>4 DEF Ended, Unsent, InHand
<1>6. CASE decoder = "header"
  <2>1. begun = 0 /\ begun' = 1
    BY <1>4, <1>6 DEF begun
  <2>2. Sent' = Sent
    BY <1>1, <1>2, <1>3, <1>4, <2>1, TailOfHeader
  <2>3. QED
    BY <1>2, <1>3, <1>4, <1>5, <1>6, <2>2, Consumes
<1>7. CASE decoder = "payload"
  <2>1. begun = 1 /\ begun' = 0
    BY <1>4, <1>7 DEF begun
  <2>2. Sent # <<>> /\ Head(Sent) = wire[1].of /\ Sent' = Tail(Sent)
    BY <1>1, <1>2, <1>3, <1>4, <2>1, TailOfPayload
  <2>3. arrived' = Head(Sent)
    BY <1>1, <1>4, <1>7, <2>2 DEF Paired
  <2>4. InTransit # <<>> /\ Head(InTransit) = Head(Sent) /\ Tail(InTransit) = Tail(Sent) \o Unsent
    BY SMT, <1>2, <2>2, HeadConcat
  <2>5. Channel!Arrive
    BY <1>3, <1>5, <2>2, <2>3, <2>4 DEF Channel!Arrive
  <2>6. QED
    BY <2>5 DEF Step, Channel!FNext
<1>8. QED
  BY <1>4, <1>6, <1>7

\* The Decoder finds the end of the stream.
LEMMA DecoderStopped == ASSUME IInv, DecodeFails PROVE Step
<1>1. wire = <<>> /\ arrived' = NoSend /\ UNCHANGED <<wire, streamClosed, writes, loop, current>>
  BY DEF DecodeFails, writer
<1>2. Ended' = Ended /\ Unsent' = Unsent
  BY <1>1 DEF Ended, Unsent, InHand
<1>3. Sent = <<>> /\ Sent' = <<>>
  BY <1>1, NothingSent DEF Sent
<1>4. InTransit' = InTransit
  BY <1>2, <1>3 DEF InTransit, Unsent, InHand
<1>5. QED
  BY <1>1, <1>2, <1>4, Consumes

\* Every step of a Conn is a step of the channel, or none.
LEMMA StepRefines == IInv /\ [Next]_vars => Step
<1> SUFFICES ASSUME IInv, [Next]_vars PROVE Step
  OBVIOUS
<1>1. ASSUME NEW c \in Send, SendQueued(c) \/ SendTaken(c) PROVE Step
  BY <1>1, Accepted
<1>2. ASSUME \/ \E c \in Send : SendBegin(c) \/ SendReturns(c) \/ SendGivesUp(c)
             \/ ParentCanceled \/ ReadFails \/ CloseJoin \/ UNCHANGED vars
      PROVE  Step
  <2>1. UNCHANGED <<wire, decoder, arrived, streamClosed, writes, loop, current>>
    BY <1>2 DEF SendBegin, SendReturns, SendGivesUp, Leave, ParentCanceled, ReadFails, CloseJoin,
                vars, writer, remote
  <2>2. Ended' = Ended /\ Unsent' = Unsent /\ begun' = begun
    BY <2>1 DEF Ended, Unsent, InHand, begun
  <2>3. Sent = Payloads(wire, begun) /\ InTransit = Sent \o Unsent
    BY TransitFacts DEF IInv
  <2>4. InTransit' = InTransit
    BY <2>1, <2>2, <2>3, TransitNext
  <2>5. QED
    BY <2>1, <2>2, <2>4, Stutters
<1>3. QED
  BY <1>1, <1>2, Written, Stopped, Closed, Decoded, DecoderStopped DEF Next, WriteLoop

\* What the remote Decoder returns is a prefix of the frames the Conn accepted,
\* whole, once and in their order, whatever breaks or is closed, for every set
\* of callers, every capacity of Conn.writes and of the stream.
THEOREM PrefixIsDelivered == Spec => DeliversPrefix
<1>1. Init => Channel!FInit
  <2> SUFFICES ASSUME Init PROVE Channel!FInit
    OBVIOUS
  <2>1. Sent = <<>>
    BY NothingSent DEF Init, Sent
  <2>2. Ended = FALSE
    BY DEF Init, Ended
  <2>3. InTransit = <<>>
    BY SMT, <2>1, <2>2 DEF Init, InTransit
  <2>4. QED
    BY <2>2, <2>3 DEF Init, Channel!FInit
<1>2. IInv /\ [Next]_vars => [Channel!FNext]_(Channel!fvars)
  BY StepRefines DEF Step
<1>3. QED
  BY <1>1, <1>2, Initially, Inductive, PTL DEF Spec, DeliversPrefix, Channel!FSpec
=============================================================================
