--------------------------- MODULE ManagedProcess ---------------------------
(***************************************************************************)
(* What pty.ManagedProcess promises whoever calls it (pty/pty.go): methods *)
(* may be called concurrently and repeatedly, the status is reported once, *)
(* Close does not itself end a running process, and a process that Kill    *)
(* ended is reported killed.                                               *)
(***************************************************************************)
VARIABLES
  calls,           \* the methods called so far
  root,            \* the started process: "none", "alive" or "exited"
  cause,           \* how it ended: what it did itself, or the request that ended it
  status           \* the ExitReason of WaitStatus, or "none"

vars == <<calls, root, cause, status>>

\* A process ends by itself with code zero or another, or by a signal that has
\* nothing to do with the calls.
Own == {"zero", "nonzero", "signal"}

Init == calls = {} /\ root = "none" /\ cause = "none" /\ status = "none"

Start == root = "none" /\ root' = "alive" /\ UNCHANGED <<calls, cause, status>>

Call ==
  /\ \E m \in {"terminate", "kill", "close"} : calls' = calls \cup {m}
  /\ UNCHANGED <<root, cause, status>>

\* The request comes before the end it causes.  Closing the terminal may hang
\* it up.
Exit ==
  /\ root = "alive" /\ root' = "exited"
  /\ cause' \in Own \cup (calls \ {"close"}) \cup (IF "close" \in calls THEN {"hangup"} ELSE {})
  /\ UNCHANGED <<calls, status>>

\* Reported once: killed for every process that Kill ended, and for others only
\* if Kill was called; signaled only after a failure of some kind.
Report ==
  /\ status = "none" /\ root = "exited" /\ status' \in {"exited", "signaled", "killed"}
  /\ cause = "kill" => status' = "killed"
  /\ status' = "killed" => "kill" \in calls
  /\ status' = "signaled" => cause # "zero"
  /\ status' = "exited" => cause \in Own
  /\ UNCHANGED <<calls, root, cause>>

\* The wait itself failed; the promises about the process end here.
Fail ==
  /\ status = "none" /\ root # "none"
  /\ status' \in {"io_failure", "killed"} /\ (status' = "killed" => "kill" \in calls)
  /\ UNCHANGED <<calls, root, cause>>

EndsAfterFailure ==
  /\ status # "none" /\ root = "alive" /\ root' = "exited"
  /\ cause' \in {"terminate", "kill"}
  /\ UNCHANGED <<calls, status>>

Next == Start \/ Call \/ Exit \/ Report \/ Fail \/ EndsAfterFailure

Spec == Init /\ [][Next]_vars
=============================================================================
