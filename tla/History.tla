------------------------------ MODULE History ------------------------------
(***************************************************************************)
(* The output history of all sessions of a Manager (pty/manager.go):       *)
(* appendHistoryLocked, its two trimming loops and removeHistoryLocked.    *)
(* The loops run one drop a step while Manager.mu is held, so the other    *)
(* actions wait for trim = "none".  The interval AttachResult reports is   *)
(* computed from the same history.                                         *)
(***************************************************************************)
EXTENDS Integers, Sequences

CONSTANTS
  Session,
  HistoryBytes, MaxTotalHistoryBytes

VARIABLES
  lastSequence,          \* lastSequence[s]
  history,               \* history[s]: chunks [sequence, whole, size, order]; whole is the
                         \* number of bytes read from the process, size those kept
  sessionBytes,          \* sessionBytes[s]: Session.historyBytes
  historyBytes,          \* Manager.historyBytes
  nextHistory,
  truncatedBytes,        \* Manager.historyTruncatedBytes
  trim,                  \* the loop that runs: "none", "own" or "total"
  current                \* the session publishing

vars == <<lastSequence, history, sessionBytes, historyBytes, nextHistory, truncatedBytes, trim,
          current>>

Init ==
  /\ lastSequence = [s \in Session |-> 0]
  /\ history = [s \in Session |-> <<>>]
  /\ sessionBytes = [s \in Session |-> 0]
  /\ historyBytes = 0 /\ nextHistory = 0 /\ truncatedBytes = 0
  /\ trim = "none" /\ current = CHOOSE s \in Session : TRUE

Enabled == HistoryBytes # 0 /\ MaxTotalHistoryBytes # 0

\* publish and the head of appendHistoryLocked: a chunk over the limit keeps
\* its last bytes.  Without history only the sequence number moves.
Publish(s, n) ==
  /\ trim = "none"
  /\ lastSequence' = [lastSequence EXCEPT ![s] = @ + 1]
  /\ nextHistory' = nextHistory + 1
  /\ current' = s
  /\ IF Enabled
     THEN LET size == IF n > HistoryBytes THEN HistoryBytes ELSE n
          IN /\ history' = [history EXCEPT ![s] = Append(@,
                              [sequence |-> lastSequence'[s], whole |-> n, size |-> size,
                               order |-> nextHistory'])]
             /\ sessionBytes' = [sessionBytes EXCEPT ![s] = @ + size]
             /\ historyBytes' = historyBytes + size
             /\ truncatedBytes' = truncatedBytes + (n - size)
             /\ trim' = "own"
     ELSE UNCHANGED <<history, sessionBytes, historyBytes, truncatedBytes, trim>>

\* dropFirstHistoryLocked.
DropFirst(s) ==
  LET size == Head(history[s]).size
  IN /\ history' = [history EXCEPT ![s] = Tail(@)]
     /\ sessionBytes' = [sessionBytes EXCEPT ![s] = @ - size]
     /\ historyBytes' = historyBytes - size
     /\ truncatedBytes' = truncatedBytes + size

\* The first loop trims the session that published.
TrimOwn ==
  /\ trim = "own"
  /\ IF sessionBytes[current] > HistoryBytes /\ history[current] # <<>>
     THEN DropFirst(current) /\ UNCHANGED trim
     ELSE trim' = "total" /\ UNCHANGED <<history, sessionBytes, historyBytes, truncatedBytes>>
  /\ UNCHANGED <<lastSequence, nextHistory, current>>

Oldest(s) ==
  /\ history[s] # <<>>
  /\ \A t \in Session : history[t] # <<>> => Head(history[s]).order <= Head(history[t]).order

\* The second loop drops the oldest chunk of all sessions.
TrimTotal ==
  /\ trim = "total"
  /\ IF historyBytes > MaxTotalHistoryBytes /\ \E s \in Session : history[s] # <<>>
     THEN \E s \in Session : Oldest(s) /\ DropFirst(s) /\ UNCHANGED trim
     ELSE trim' = "none" /\ UNCHANGED <<history, sessionBytes, historyBytes, truncatedBytes>>
  /\ UNCHANGED <<lastSequence, nextHistory, current>>

\* Mutant: the bytes of a removed session stay accounted for.
RemoveKeepsBytes(s) ==
  /\ trim = "none" /\ lastSequence[s] > 0
  /\ history' = [history EXCEPT ![s] = <<>>]
  /\ sessionBytes' = [sessionBytes EXCEPT ![s] = 0]
  /\ lastSequence' = [lastSequence EXCEPT ![s] = 0]
  /\ UNCHANGED <<historyBytes, nextHistory, truncatedBytes, trim, current>>

\* removeHistoryLocked when the session goes; its place is taken by a new one.
RemoveHistory(s) ==
  /\ trim = "none" /\ lastSequence[s] > 0
  /\ historyBytes' = historyBytes - sessionBytes[s]
  /\ history' = [history EXCEPT ![s] = <<>>]
  /\ sessionBytes' = [sessionBytes EXCEPT ![s] = 0]
  /\ lastSequence' = [lastSequence EXCEPT ![s] = 0]
  /\ UNCHANGED <<nextHistory, truncatedBytes, trim, current>>

-----------------------------------------------------------------------------
(* The replay of Attach *)

\* The loop over Session.history collects the chunks after resumeAfter.
Replay(s, resumeAfter) ==
  LET chunks == history[s]
      upTo[k \in 0..Len(chunks)] ==
        IF k = 0 THEN <<>>
        ELSE IF chunks[k].sequence <= resumeAfter THEN upTo[k - 1]
        ELSE Append(upTo[k - 1], chunks[k])
  IN upTo[Len(chunks)]

\* Mutant: off by one.
TruncatedLate(s, resumeAfter) ==
  history[s] # <<>> /\ resumeAfter + 2 < Head(history[s]).sequence

\* AttachResult.Truncated.
Truncated(s, resumeAfter) ==
  history[s] # <<>> /\ resumeAfter + 1 < Head(history[s]).sequence
=============================================================================
