---------------------------- MODULE UnixProcess ----------------------------
(***************************************************************************)
(* unixpty.managedProcess (pty/unixpty/factory_unix.go).  Terminate and    *)
(* Kill signal the process group while the mutex is held and running is    *)
(* set; WaitStatus reaps the root before it takes the mutex to clear       *)
(* running.  In between the group id may be free, or name somebody else.   *)
(***************************************************************************)
EXTENDS ProcessTree

VARIABLES
  calls, status,   \* as in ManagedProcess
  start,           \* StartManaged: "idle", "running" or "failed"
  held,            \* {"file"} while the terminal is open
  running, killed,
  pc               \* pc["wait"]: "idle", "waiting", "reaped", "failed" or "done"

process == <<start, held, running, killed>>

\* StartManaged refuses the specification, the context or the size, or cannot
\* start the command.
StartFails ==
  /\ start = "idle" /\ start' = "failed"
  /\ UNCHANGED <<tree, calls, status, held, running, killed, pc>>

StartManaged ==
  /\ start = "idle" /\ start' = "running"
  /\ Spawn
  /\ held' = {"file"} /\ running' = TRUE
  /\ UNCHANGED <<calls, status, killed, pc>>

\* The root is reaped and nobody is left in the group.
GroupFree == pc["wait"] \in {"reaped", "done"} /\ child # "alive"

\* signalGroup and ProcessID go on.
UsesGroup == running

\* Mutant: the result of the signal is not recorded.
SignalForgets(request) ==
  /\ start = "running" /\ calls' = calls \cup {request}
  /\ IF running /\ (root = "alive" \/ child = "alive") THEN Deliver(request) ELSE UNCHANGED tree
  /\ UNCHANGED <<status, start, held, running, killed, pc>>

\* Terminate and Kill.  A group of zombies takes the signal or refuses it,
\* depending on the system; a free id is refused, and a reused one takes it.
SignalGroup(request) ==
  /\ start = "running" /\ calls' = calls \cup {request}
  /\ IF UsesGroup /\ (root = "alive" \/ child = "alive")
     THEN Deliver(request) /\ killed' = (killed \/ request = "kill")
     ELSE /\ UNCHANGED tree
          /\ \/ UNCHANGED killed
             \/ UsesGroup /\ killed' = (killed \/ request = "kill")
  /\ UNCHANGED <<status, start, held, running, pc>>

WaitStatus ==
  /\ start = "running" /\ pc["wait"] = "idle"
  /\ pc' = [pc EXCEPT !["wait"] = "waiting"]
  /\ UNCHANGED <<tree, calls, status, process>>

\* command.Wait returns: the root is reaped, or the wait failed.
CommandWaits ==
  /\ pc["wait"] = "waiting"
  /\ \E result \in {"failed"} \cup (IF root = "exited" THEN {"reaped"} ELSE {}) :
       pc' = [pc EXCEPT !["wait"] = result]
  /\ UNCHANGED <<tree, calls, status, process>>

Reason ==
  IF pc["wait"] = "failed" THEN "io_failure"
  ELSE IF cause = "zero" THEN "exited"
  ELSE IF killed THEN "killed"
  ELSE IF cause = "nonzero" THEN "exited" ELSE "signaled"

Publish ==
  /\ pc["wait"] \in {"reaped", "failed"}
  /\ running' = FALSE /\ status' = Reason
  /\ pc' = [pc EXCEPT !["wait"] = "done"]
  /\ UNCHANGED <<tree, calls, start, held, killed>>

\* Close closes the terminal, which the system may turn into a hangup.
Close ==
  /\ start = "running" /\ calls' = calls \cup {"close"}
  /\ held' = {}
  /\ IF held = {} THEN UNCHANGED tree ELSE Deliver("hangup")
  /\ UNCHANGED <<status, start, running, killed, pc>>

Next ==
  \/ StartFails \/ StartManaged \/ WaitStatus \/ CommandWaits \/ Publish \/ Close
  \/ SignalGroup("terminate") \/ SignalGroup("kill")
  \/ (RootExits \/ ChildExits) /\ UNCHANGED <<calls, status, process, pc>>

\* The system ends a killed process, and the goroutine in WaitStatus runs.
Steps ==
  \/ DoomedExits /\ UNCHANGED <<calls, status, process, pc>>
  \/ root = "exited" /\ CommandWaits
  \/ Publish
=============================================================================
