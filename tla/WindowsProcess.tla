--------------------------- MODULE WindowsProcess ---------------------------
(***************************************************************************)
(* windowspty.managedProcess (pty/windowspty/factory_windows.go).  The     *)
(* critical sections of the mutex are actions; between them the callers of *)
(* Terminate, WaitStatus and Close, and the goroutine that Close may       *)
(* start, are at a place pc.  ClosePseudoConsole asks the clients to exit  *)
(* and may block until they have; closing the Job Object kills whoever is  *)
(* left in it.                                                             *)
(*                                                                         *)
(* WaitForSingleObject on a Job Object is taken to succeed at most when    *)
(* the job is empty, and TerminateJobObject not to fail.                   *)
(***************************************************************************)
EXTENDS ProcessTree, Integers, Sequences

VARIABLES
  calls, status,   \* as in ManagedProcess
  start,           \* startManaged: "idle", "running" or "failed"
  held,            \* the handles open in this process
  running, killed, terminateSent, consoleClosing, resourcesClosed,
  released,        \* ReleasePseudoConsole exists
  pc               \* the place of "terminate", "wait", "close" and "cleanup"

flags == <<running, killed, terminateSent, consoleClosing, resourcesClosed>>
-----------------------------------------------------------------------------
(* startManaged *)

\* What the system calls before CreateProcess open, in order.
Acquired == <<{"inputRead", "inputWrite"}, {"outputRead", "outputWrite"}, {"console"}, {"job"},
              {"attributes"}>>

Before(k) == UNION {Acquired[j] : j \in 1..(k - 1)}

Acquire ==
  /\ start = "idle"
  /\ \E k \in DOMAIN Acquired : held = Before(k) /\ held' = held \cup Acquired[k]
  /\ UNCHANGED <<tree, calls, status, start, flags, released, pc>>

\* The specification is refused or a system call fails, and the deferred calls
\* undo what was acquired.
StartFails ==
  /\ start = "idle" /\ start' = "failed"
  /\ \E k \in 1..(Len(Acquired) + 1) : held = Before(k) /\ held' = held \ Before(k)
  /\ UNCHANGED <<tree, calls, status, flags, released, pc>>

\* CreateProcess, and the ends that only the client or the pseudoconsole needs.
StartManaged ==
  /\ start = "idle" /\ held = Before(Len(Acquired) + 1) /\ start' = "running"
  /\ Spawn
  /\ held' = (held \cup {"process"}) \ {"inputRead", "outputWrite", "attributes"}
  /\ running' = TRUE
  /\ UNCHANGED <<calls, status, killed, terminateSent, consoleClosing, resourcesClosed, released, pc>>
-----------------------------------------------------------------------------
(* Terminate, Kill and the uses of a handle under the mutex *)

\* jobExitedLocked.
JobExited == {FALSE} \cup (IF root = "exited" /\ child # "alive" THEN {TRUE} ELSE {})

UsesProcessAndJob == start = "running" /\ ~resourcesClosed

\* Resize.
UsesConsole == running /\ ~consoleClosing

Terminate ==
  /\ start = "running" /\ pc["terminate"] = "idle" /\ calls' = calls \cup {"terminate"}
  /\ \E exited \in JobExited :
       IF resourcesClosed \/ consoleClosing \/ exited
       THEN UNCHANGED <<terminateSent, pc>>
       ELSE /\ terminateSent' = (terminateSent \/ (running /\ root = "alive"))
            /\ pc' = [pc EXCEPT !["terminate"] = "mark"]
  /\ UNCHANGED <<tree, status, start, held, running, killed, consoleClosing, resourcesClosed, released>>

\* Mutant: Kill leaves the clients to a pseudoconsole that is being closed.
KillDefers ==
  /\ start = "running" /\ calls' = calls \cup {"kill"}
  /\ IF resourcesClosed \/ consoleClosing
     THEN UNCHANGED <<tree, killed>>
     ELSE Deliver("kill") /\ killed' = (killed \/ (running /\ root = "alive"))
  /\ UNCHANGED <<status, start, held, running, terminateSent, consoleClosing, resourcesClosed,
                 released, pc>>

Kill ==
  /\ start = "running" /\ calls' = calls \cup {"kill"}
  /\ \E exited \in JobExited :
       IF resourcesClosed \/ exited
       THEN UNCHANGED <<tree, killed>>
       ELSE Deliver("kill") /\ killed' = (killed \/ (running /\ root = "alive"))
  /\ UNCHANGED <<status, start, held, running, terminateSent, consoleClosing, resourcesClosed,
                 released, pc>>
-----------------------------------------------------------------------------
(* closeConsole, for a caller t *)

AfterConsole(t) ==
  CASE t = "terminate" -> "idle" [] t = "wait" -> "done" [] OTHER -> "take"

Mark(t) ==
  /\ pc[t] = "mark" /\ pc' = [pc EXCEPT ![t] = "once"]
  /\ consoleClosing' = TRUE
  /\ UNCHANGED <<tree, calls, status, start, held, running, killed, terminateSent, resourcesClosed,
                 released>>

Closing == \E t \in DOMAIN pc : pc[t] = "closing"

\* consoleOnce: the first closes the pseudoconsole, the others wait for it.
EnterOnce(t) ==
  /\ pc[t] = "once" /\ "console" \in held /\ ~Closing
  /\ pc' = [pc EXCEPT ![t] = "closing"]
  /\ Deliver("terminate")
  /\ UNCHANGED <<calls, status, start, held, flags, released>>

ConsoleClosed(t) ==
  /\ pc[t] = "closing"
  /\ held' = held \ {"console"} /\ pc' = [pc EXCEPT ![t] = AfterConsole(t)]
  /\ UNCHANGED <<tree, calls, status, start, flags, released>>

PassOnce(t) ==
  /\ pc[t] = "once" /\ "console" \notin held
  /\ pc' = [pc EXCEPT ![t] = AfterConsole(t)]
  /\ UNCHANGED <<tree, calls, status, start, held, flags, released>>
-----------------------------------------------------------------------------
(* WaitStatus *)

WaitStatus ==
  /\ start = "running" /\ pc["wait"] = "idle"
  /\ pc' = [pc EXCEPT !["wait"] = "waiting"]
  /\ UNCHANGED <<tree, calls, status, start, held, flags, released>>

Reason(failed) ==
  IF killed THEN "killed"
  ELSE IF failed THEN "io_failure"
  ELSE IF terminateSent /\ cause # "zero" THEN "signaled" ELSE "exited"

\* The wait ends or fails; the status is published under the mutex.
Publish ==
  /\ pc["wait"] = "waiting"
  /\ \E failed \in {TRUE} \cup (IF root = "exited" THEN {FALSE} ELSE {}) : status' = Reason(failed)
  /\ running' = FALSE
  /\ pc' = [pc EXCEPT !["wait"] = IF released THEN "done" ELSE "drain"]
  /\ UNCHANGED <<tree, calls, start, held, killed, terminateSent, consoleClosing, resourcesClosed,
                 released>>

\* Output was observed, or 100 ms have passed.
Drained ==
  /\ pc["wait"] = "drain" /\ pc' = [pc EXCEPT !["wait"] = "mark"]
  /\ UNCHANGED <<tree, calls, status, start, held, flags, released>>
-----------------------------------------------------------------------------
(* Close, and the goroutine it leaves behind *)

Close ==
  /\ start = "running" /\ pc["close"] = "idle" /\ calls' = calls \cup {"close"}
  /\ held' = held \ {"inputWrite", "outputRead"}
  /\ pc' = [pc EXCEPT !["close"] = "read"]
  /\ UNCHANGED <<tree, status, start, flags, released>>

\* Mutant: the handles are freed under a goroutine that waits on them.
CloseEagerly ==
  /\ pc["close"] = "read" /\ pc' = [pc EXCEPT !["close"] = "mark"]
  /\ UNCHANGED <<tree, calls, status, start, held, flags, released>>

CloseReads ==
  /\ pc["close"] = "read"
  /\ pc' = IF running THEN [pc EXCEPT !["close"] = "returned", !["cleanup"] = "blocked"]
                      ELSE [pc EXCEPT !["close"] = "mark"]
  /\ UNCHANGED <<tree, calls, status, start, held, flags, released>>

CleanupWakes ==
  /\ pc["cleanup"] = "blocked" /\ pc["wait"] = "done"
  /\ pc' = [pc EXCEPT !["cleanup"] = "mark"]
  /\ UNCHANGED <<tree, calls, status, start, held, flags, released>>

Take(t) ==
  /\ pc[t] = "take"
  /\ pc' = [pc EXCEPT ![t] = IF resourcesClosed THEN "returned" ELSE "process"]
  /\ resourcesClosed' = TRUE
  /\ UNCHANGED <<tree, calls, status, start, held, running, killed, terminateSent, consoleClosing,
                 released>>

CloseProcessHandle(t) ==
  /\ pc[t] = "process" /\ pc' = [pc EXCEPT ![t] = "job"]
  /\ held' = held \ {"process"}
  /\ UNCHANGED <<tree, calls, status, start, flags, released>>

CloseJobHandle(t) ==
  /\ pc[t] = "job" /\ pc' = [pc EXCEPT ![t] = "returned"]
  /\ held' = held \ {"job"}
  /\ Deliver("kill")
  /\ UNCHANGED <<calls, status, start, flags, released>>
-----------------------------------------------------------------------------
Caller == {"terminate", "wait", "close", "cleanup"}

Step(t) ==
  \/ Mark(t) \/ EnterOnce(t) \/ PassOnce(t)
  \/ Take(t) \/ CloseProcessHandle(t) \/ CloseJobHandle(t)

Next ==
  \/ Acquire \/ StartFails \/ StartManaged
  \/ Terminate \/ Kill \/ WaitStatus \/ Close
  \/ Publish \/ Drained \/ CloseReads \/ CleanupWakes
  \/ \E t \in Caller : Step(t) \/ ConsoleClosed(t)
  \/ (RootExits \/ ChildExits) /\ UNCHANGED <<calls, status, start, held, flags, released, pc>>

\* The system ends a killed process and lets go of a pseudoconsole without
\* clients; the goroutines run.
Steps ==
  \/ DoomedExits /\ UNCHANGED <<calls, status, start, held, flags, released, pc>>
  \/ \E t \in Caller :
       Step(t) \/ (root = "exited" /\ child # "alive" /\ ConsoleClosed(t))
  \/ root = "exited" /\ Publish
  \/ Drained \/ CloseReads \/ CleanupWakes
=============================================================================
