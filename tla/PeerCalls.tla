----------------------------- MODULE PeerCalls ------------------------------
(***************************************************************************)
(* Request correlation of a Peer (peer.go): concurrent callers of Call     *)
(* reserve a CorrelationID, send a request and wait; the goroutine in      *)
(* Serve resolves the responses it reads; a call that gives up leaves a    *)
(* tombstone for its late response, and fail ends everything.              *)
(*                                                                         *)
(* A step is one critical section of Peer.mu, or one channel operation     *)
(* outside it.  What send promises (module PeerOutbound) appears as the    *)
(* life of a request: queued, transmitted later whether or not its caller  *)
(* still waits, or dropped by fail.  The remote side is external: it       *)
(* answers a request at most once, in any order, and may also send         *)
(* responses nobody asked for (Stray).  A member of Call is one invocation *)
(* of Call; a kind stands for a (MessageType, StreamID) pair.              *)
(***************************************************************************)
EXTENDS Integers, Slices

CONSTANTS
  Call, NoCall,
  Kind, NoKind,          \* (MessageType, StreamID) pairs, and the zero pair
  KindOf,                \* KindOf[c]: the pair of the frame given to Call
  IDs,                   \* CorrelationIDs are 0..IDs-1; 2^64 in the code
  MaxCanceledRequests,
  Stray                  \* unsolicited responses: [id, kind] records

ID == 0..(IDs - 1)

ASSUME CallAssumption == NoCall \notin Call

ASSUME KindAssumption == NoKind \notin Kind /\ KindOf \in [Call -> Kind]

ASSUME NumberAssumption ==
  /\ IDs \in Nat \ {0, 1}
  /\ MaxCanceledRequests \in Nat \ {0}

\* Header.validate refuses a response without a CorrelationID.
ASSUME StrayAssumption == Stray \subseteq [id : ID \ {0}, kind : Kind]

Response == [id : ID, kind : Kind, of : Call \cup {NoCall}]

VARIABLES
  closed,          \* Peer.closed; Peer.done is closed in the same section
  next,            \* Peer.next
  pending,         \* pending[i]: the call whose peerPending has key i, or NoCall
  canceled,        \* canceled[i]: the call whose tombstone has key i, or NoCall
  canceledOrder,
  pc,              \* pc[c]: where the caller is
  correlation,     \* correlation[c]: the id it reserved, 0 before
  entry,           \* entry[c]: whose peerPending Call holds, its own as a rule
  header,          \* header[c]: the type and stream in its peerPending
  response,        \* response[c]: the contents of pending.response, capacity 1
  request,         \* request[c]: what became of its frame
  inbox,           \* responses on their way to the Serve loop
  serve,           \* where the Serve loop is
  delivery,        \* the response it has matched and not delivered, with its call
  history          \* which of "evicted", "wrapped", "stray" have happened

tables == <<pending, canceled, canceledOrder>>
callers == <<pc, correlation, entry, header>>
reader == <<serve, delivery>>
vars == <<closed, next, tables, callers, response, request, inbox, reader, history>>

Empty == [kind |-> "empty", of |-> NoCall]
Error == [kind |-> "error", of |-> NoCall]
Frame(m) == [kind |-> "frame", of |-> m.of]

Nothing == [to |-> NoCall, of |-> NoCall]

Init ==
  /\ closed = FALSE
  /\ next = 0
  /\ pending = [i \in ID |-> NoCall] /\ canceled = [i \in ID |-> NoCall]
  /\ canceledOrder = <<>>
  /\ pc = [c \in Call |-> "idle"]
  /\ correlation = [c \in Call |-> 0]
  /\ entry = [c \in Call |-> NoCall]
  /\ header = [c \in Call |-> NoKind]
  /\ response = [c \in Call |-> Empty]
  /\ request = [c \in Call |-> "none"]
  /\ inbox = {}
  /\ serve = "read" /\ delivery = Nothing
  /\ history = {}

\* A panic inside a critical section leaves Peer.mu locked.
Unlocked == \A c \in Call : pc[c] # "panicked"
-----------------------------------------------------------------------------
(* Call and reservePending *)

Free(i) == i # 0 /\ pending[i] = NoCall /\ canceled[i] = NoCall

Candidate(attempt) == (next + attempt) % IDs

\* The loop of reservePending stops at this attempt.
FirstFree(attempt) ==
  /\ Free(Candidate(attempt))
  /\ \A earlier \in 1..(attempt - 1) : ~Free(Candidate(earlier))

\* Mutant: the lowest free id is taken, next does not move.
ReserveLowest(c) ==
  /\ pc[c] = "idle" /\ Unlocked /\ ~closed
  /\ \E attempt \in 1..(IDs - 1) :
       LET i == Candidate(attempt)
       IN /\ FirstFree(attempt)
          /\ pending' = [pending EXCEPT ![i] = c]
          /\ correlation' = [correlation EXCEPT ![c] = i]
  /\ pc' = [pc EXCEPT ![c] = "fill"]
  /\ UNCHANGED <<closed, next, canceled, canceledOrder, entry, header, response, request, inbox,
                 reader, history>>

\* reservePending succeeds ...
Reserve(c) ==
  /\ pc[c] = "idle" /\ Unlocked /\ ~closed
  /\ \E attempt \in 1..(IDs - 1) :
       LET i == Candidate(attempt)
       IN /\ FirstFree(attempt)
          /\ next' = i
          /\ pending' = [pending EXCEPT ![i] = c]
          /\ correlation' = [correlation EXCEPT ![c] = i]
          /\ history' = IF i <= next THEN history \cup {"wrapped"} ELSE history
  /\ pc' = [pc EXCEPT ![c] = "fill"]
  /\ UNCHANGED <<closed, canceled, canceledOrder, entry, header, response, request, inbox,
                 reader>>

\* ... or fails: the Peer is closed, or every id is taken.
ReserveRefused(c) ==
  /\ pc[c] = "idle" /\ Unlocked
  /\ \/ closed /\ UNCHANGED <<next, history>>
     \/ /\ ~closed
        /\ \A attempt \in 1..(IDs - 1) : ~Free(Candidate(attempt))
        /\ next' = Candidate(IDs - 1)
        /\ history' = history \cup {"wrapped"}
  /\ pc' = [pc EXCEPT ![c] = "returned"]
  /\ UNCHANGED <<closed, tables, correlation, entry, header, response, request, inbox, reader>>

\* Call looks its entry up again under the lock and completes it; without an
\* entry it dereferences nil.
Fill(c) ==
  /\ pc[c] = "fill" /\ Unlocked
  /\ IF pending[correlation[c]] = NoCall
     THEN pc' = [pc EXCEPT ![c] = "panicked"] /\ UNCHANGED <<entry, header>>
     ELSE /\ pc' = [pc EXCEPT ![c] = "send"]
          /\ entry' = [entry EXCEPT ![c] = pending[correlation[c]]]
          /\ header' = [header EXCEPT ![pending[correlation[c]]] = KindOf[c]]
  /\ UNCHANGED <<closed, next, tables, correlation, response, request, inbox, reader, history>>

\* send puts the request into its queue.
Queue(c) ==
  /\ pc[c] = "send" /\ Unlocked /\ ~closed
  /\ request' = [request EXCEPT ![c] = "queued"]
  /\ pc' = [pc EXCEPT ![c] = "sending"]
  /\ UNCHANGED <<closed, next, tables, correlation, entry, header, response, inbox, reader,
                 history>>

\* The scheduler writes it, even if its caller has given up.
Transmit(c) ==
  /\ request[c] = "queued"
  /\ request' = [request EXCEPT ![c] = "sent"]
  /\ UNCHANGED <<closed, next, tables, callers, response, inbox, reader, history>>

SendReturns(c) ==
  /\ pc[c] = "sending" /\ request[c] \in {"sent", "answered"}
  /\ pc' = [pc EXCEPT ![c] = "await"]
  /\ UNCHANGED <<closed, next, tables, correlation, entry, header, response, request, inbox,
                 reader, history>>

\* The context ends or the Peer is done while the caller is inside send, or
\* the context ends while it waits for the response.
GiveUp(c) ==
  /\ pc[c] \in {"send", "sending", "await"}
  /\ pc' = [pc EXCEPT ![c] = "abandon"]
  /\ UNCHANGED <<closed, next, tables, correlation, entry, header, response, request, inbox,
                 reader, history>>

\* The wait ends with the response, or because the Peer is done.
Return(c) ==
  /\ pc[c] = "await"
  /\ response[entry[c]] # Empty \/ closed
  /\ pc' = [pc EXCEPT ![c] = "returned"]
  /\ UNCHANGED <<closed, next, tables, correlation, entry, header, response, request, inbox,
                 reader, history>>

\* Mutant: the evicted id stays in the map of tombstones.
AbandonKeepsOldest(c) ==
  LET i == correlation[c]
      order == Append(canceledOrder, i)
      full == Len(order) > MaxCanceledRequests
  IN /\ pc[c] = "abandon" /\ Unlocked
     /\ IF pending[i] = NoCall THEN UNCHANGED <<tables, history>>
        ELSE /\ pending' = [pending EXCEPT ![i] = NoCall]
             /\ canceled' = [canceled EXCEPT ![i] = pending[i]]
             /\ canceledOrder' = IF full THEN Tail(order) ELSE order
             /\ history' = IF full THEN history \cup {"evicted"} ELSE history
     /\ pc' = [pc EXCEPT ![c] = "returned"]
     /\ UNCHANGED <<closed, next, correlation, entry, header, response, request, inbox, reader>>

\* Mutant: the entry goes without a tombstone.
AbandonForgets(c) ==
  /\ pc[c] = "abandon" /\ Unlocked
  /\ pending' = [pending EXCEPT ![correlation[c]] = NoCall]
  /\ pc' = [pc EXCEPT ![c] = "returned"]
  /\ UNCHANGED <<closed, next, canceled, canceledOrder, correlation, entry, header, response,
                 request, inbox, reader, history>>

\* abandonPending: the entry becomes a tombstone, the oldest one making room.
Abandon(c) ==
  LET i == correlation[c]
      order == Append(canceledOrder, i)
      full == Len(order) > MaxCanceledRequests
      marked == [canceled EXCEPT ![i] = pending[i]]
  IN /\ pc[c] = "abandon" /\ Unlocked
     /\ IF pending[i] = NoCall THEN UNCHANGED <<tables, history>>
        ELSE /\ pending' = [pending EXCEPT ![i] = NoCall]
             /\ canceled' = IF full THEN [marked EXCEPT ![Head(order)] = NoCall] ELSE marked
             /\ canceledOrder' = IF full THEN Tail(order) ELSE order
             /\ history' = IF full THEN history \cup {"evicted"} ELSE history
     /\ pc' = [pc EXCEPT ![c] = "returned"]
     /\ UNCHANGED <<closed, next, correlation, entry, header, response, request, inbox, reader>>
-----------------------------------------------------------------------------
(* The remote side *)

\* It answers a request it has received, with Respond.
Respond(c) ==
  /\ request[c] = "sent"
  /\ request' = [request EXCEPT ![c] = "answered"]
  /\ inbox' = inbox \cup {[id |-> correlation[c], kind |-> KindOf[c], of |-> c]}
  /\ UNCHANGED <<closed, next, tables, callers, response, reader, history>>

\* It sends a response nobody asked for, or one of another kind.
SendStray ==
  /\ \E m \in Stray :
       /\ [id |-> m.id, kind |-> m.kind, of |-> NoCall] \notin inbox
       /\ inbox' = inbox \cup {[id |-> m.id, kind |-> m.kind, of |-> NoCall]}
  /\ history' = history \cup {"stray"}
  /\ UNCHANGED <<closed, next, tables, callers, response, request, reader>>
-----------------------------------------------------------------------------
(* Serve, resolve and fail *)

Matches(c, m) == c # NoCall /\ header[c] = m.kind

\* Mutant: the entry stays in the map while its response is delivered.
ResolvePendingKeeps(m) ==
  /\ Matches(pending[m.id], m)
  /\ delivery' = [to |-> pending[m.id], of |-> m.of]
  /\ serve' = "deliver"
  /\ UNCHANGED tables

\* resolve finds the waiting call: its entry goes before it is told.
ResolvePending(m) ==
  /\ Matches(pending[m.id], m)
  /\ pending' = [pending EXCEPT ![m.id] = NoCall]
  /\ delivery' = [to |-> pending[m.id], of |-> m.of]
  /\ serve' = "deliver"
  /\ UNCHANGED <<canceled, canceledOrder>>

\* It finds the tombstone, which goes with its place in the order.
ResolveCanceled(m) ==
  /\ pending[m.id] = NoCall
  /\ Matches(canceled[m.id], m)
  /\ canceled' = [canceled EXCEPT ![m.id] = NoCall]
  /\ \E k \in 1..Len(canceledOrder) :
       /\ canceledOrder[k] = m.id
       /\ \A earlier \in 1..(k - 1) : canceledOrder[earlier] # m.id
       /\ canceledOrder' = RemoveIndex(canceledOrder, k)
  /\ UNCHANGED <<pending, reader>>

\* It finds neither, or one of another kind: ErrUnexpectedResponse.
ResolveUnexpected(m) ==
  /\ ~Matches(pending[m.id], m)
  /\ pending[m.id] = NoCall => ~Matches(canceled[m.id], m)
  /\ serve' = "unexpected"
  /\ UNCHANGED <<tables, delivery>>

\* The Serve loop reads a frame and runs resolve's critical section.
Read(m) ==
  /\ serve = "read" /\ Unlocked /\ m \in inbox
  /\ inbox' = inbox \ {m}
  /\ ResolvePending(m) \/ ResolveCanceled(m) \/ ResolveUnexpected(m)
  /\ UNCHANGED <<closed, next, callers, response, request, history>>

\* resolve hands the response over, outside the lock.
Deliver ==
  /\ serve = "deliver"
  /\ response' = [response EXCEPT ![delivery.to] = Frame(delivery)]
  /\ serve' = "read" /\ delivery' = Nothing
  /\ UNCHANGED <<closed, next, tables, callers, request, inbox, history>>

\* The critical section of fail on an open Peer.  It drops the queued requests
\* but the one the scheduler has taken, which may still be written.
Fail ==
  /\ closed' = TRUE
  /\ response' = [c \in Call |-> IF \E i \in ID : pending[i] = c THEN Error ELSE response[c]]
  /\ pending' = [i \in ID |-> NoCall] /\ canceled' = [i \in ID |-> NoCall]
  /\ canceledOrder' = <<>>
  /\ \E taken \in Call \cup {NoCall} :
       request' = [c \in Call |-> IF request[c] = "queued" /\ c # taken THEN "dropped"
                                 ELSE request[c]]

\* Close, a handler or the transport fails the Peer.
Close ==
  /\ ~closed /\ Unlocked
  /\ Fail
  /\ UNCHANGED <<next, callers, inbox, reader, history>>

\* The Serve loop fails it after an unexpected response, and returns.
ServeFails ==
  /\ serve = "unexpected" /\ Unlocked
  /\ IF closed THEN UNCHANGED <<closed, tables, response, request>> ELSE Fail
  /\ serve' = "stopped"
  /\ UNCHANGED <<next, callers, inbox, delivery, history>>

\* It stops when ReadFrame fails on the closed Conn.
ServeEnds ==
  /\ serve = "read" /\ closed
  /\ serve' = "stopped"
  /\ UNCHANGED <<closed, next, tables, callers, response, request, inbox, delivery, history>>
-----------------------------------------------------------------------------
Caller(c) ==
  \/ Reserve(c) \/ ReserveRefused(c) \/ Fill(c)
  \/ Queue(c) \/ SendReturns(c) \/ GiveUp(c) \/ Return(c) \/ Abandon(c)

Serve == (\E m \in Response : Read(m)) \/ Deliver \/ ServeFails \/ ServeEnds

Next ==
  \/ \E c \in Call : Caller(c) \/ Transmit(c) \/ Respond(c)
  \/ SendStray
  \/ Serve
  \/ Close

Spec == Init /\ [][Next]_vars

\* A caller inside Call goes on when it can, and gives up inside send when
\* the Peer is done; the Serve loop goes on when it can.  Nobody is obliged to
\* call, to answer or to shut down.
Fairness ==
  /\ \A c \in Call : /\ WF_vars(Fill(c)) /\ WF_vars(Return(c)) /\ WF_vars(Abandon(c))
                     /\ WF_vars(SendReturns(c)) /\ WF_vars(closed /\ GiveUp(c))
  /\ WF_vars(Serve)

FairSpec == Spec /\ Fairness
-----------------------------------------------------------------------------
(* Properties *)

\* No id is in use twice: an entry belongs to the call that reserved its id,
\* no id is both waited for and abandoned, and id 0 is never used.  The
\* tombstones and the order they are evicted in name the same ids, each once,
\* within MaxCanceledRequests: a stale entry never evicts a reused id, however
\* often calls are abandoned and late responses absorbed.
IDsExclusive ==
  /\ \A i \in ID : pending[i] # NoCall => correlation[pending[i]] = i /\ canceled[i] = NoCall
  /\ pending[0] = NoCall /\ canceled[0] = NoCall
  /\ \A j, k \in 1..Len(canceledOrder) : canceledOrder[j] = canceledOrder[k] => j = k
  /\ {canceledOrder[k] : k \in 1..Len(canceledOrder)} = {i \in ID : canceled[i] # NoCall}
  /\ Len(canceledOrder) <= MaxCanceledRequests

\* Nobody blocks on a response channel: while a call is waited for or is
\* about to be told, its channel is empty, and it is never both.  So fail,
\* which sends under Peer.mu, and resolve never stop the Peer.
ToldOnce ==
  /\ \A i \in ID : pending[i] # NoCall =>
       response[pending[i]] = Empty /\ delivery.to # pending[i]
  /\ delivery.to # NoCall => response[delivery.to] = Empty

\* A response reaches the call whose request it answers; only after a
\* tombstone was evicted and the ids have wrapped round, or with a remote
\* that invents responses, can it be another one.
Correlated ==
  \A c \in Call : response[c].kind = "frame" =>
    \/ response[c].of = c
    \/ "stray" \in history
    \/ {"evicted", "wrapped"} \subseteq history

\* "Cancellation abandons only this call; a bounded tombstone safely absorbs
\* a late response" (peer.go:282): with a remote that answers what it was
\* asked, an open Peer meets an unexpected response only after abandoned
\* calls have pushed a tombstone out.
LateResponseAbsorbed ==
  serve = "unexpected" => closed \/ "evicted" \in history \/ "stray" \in history

\* Shutting down unblocks every call in progress
\* (TestPeerCloseUnblocksPendingCall, peer_test.go:366).
CloseUnblocksCalls ==
  \A c \in Call : closed /\ pc[c] # "idle" ~> pc[c] = "returned"
=============================================================================
