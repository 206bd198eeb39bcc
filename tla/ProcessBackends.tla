-------------------------- MODULE ProcessBackends --------------------------
(***************************************************************************)
(* The processes under a Manager and under a Bridge: one behaviour is a    *)
(* managed Unix process, a managed Windows process, or a Bridge over a     *)
(* process of the v0.1 API, with every method called at any time.          *)
(***************************************************************************)
EXTENDS Integers, Sequences

VARIABLES
  backend,         \* "unix", "windows" or "bridge"
  root, child, cause, asked,
  calls, status, start, held, running, killed, pc,
  terminateSent, consoleClosing, resourcesClosed, released,
  context, startContext, legacy, doomed, file, output, closer

managed == <<root, child, cause, asked, calls, status, start, held, running, killed, pc>>
windows == <<terminateSent, consoleClosing, resourcesClosed, released>>
bridge == <<context, startContext, legacy, doomed, file, output, closer>>
vars == <<backend, managed, windows, bridge>>

Unix == INSTANCE UnixProcess
Windows == INSTANCE WindowsProcess
Bridges == INSTANCE Bridge

Init ==
  /\ backend \in {"unix", "windows", "bridge"}
  /\ Unix!TreeInit
  /\ calls = {} /\ status = "none" /\ start = "idle" /\ held = {}
  /\ running = FALSE /\ killed = FALSE
  /\ pc = [t \in Windows!Caller |-> "idle"]
  /\ terminateSent = FALSE /\ consoleClosing = FALSE /\ resourcesClosed = FALSE
  /\ released \in (IF backend = "windows" THEN BOOLEAN ELSE {FALSE})
  /\ Bridges!BridgeInit

UnixNext == backend = "unix" /\ Unix!Next /\ UNCHANGED <<backend, windows, bridge>>

WindowsNext == backend = "windows" /\ Windows!Next /\ UNCHANGED <<backend, bridge>>

BridgeNext == backend = "bridge" /\ Bridges!BridgeNext /\ UNCHANGED <<backend, managed, windows>>

Next == UnixNext \/ WindowsNext \/ BridgeNext

Spec == Init /\ [][Next]_vars

\* Nobody need call a method; what has been called runs, the system ends what
\* was killed, and a pseudoconsole without clients closes.
FairSpec ==
  /\ Spec
  /\ WF_vars(backend = "unix" /\ Unix!Steps /\ UNCHANGED <<backend, windows, bridge>>)
  /\ WF_vars(backend = "windows" /\ Windows!Steps /\ UNCHANGED <<backend, bridge>>)
  /\ backend = "bridge" => Bridges!BridgeFairness
-----------------------------------------------------------------------------
(* Properties *)

Contract == INSTANCE ManagedProcess

\* Both backends keep the promises of pty.ManagedProcess, whatever the order of
\* calls, exits and the steps of WaitStatus: one status, killed for every process
\* that Kill ended and only if Kill was called, and no kill by Close: all it may do
\* to the process is to hang up its terminal.
ManagedContract == Contract!Spec

\* No handle is used after it is closed: Kill, Terminate and ProcessID find the
\* process and the job open until resourcesClosed, Resize the pseudoconsole until
\* consoleClosing, and the goroutine that waits on the process without the mutex
\* keeps its handle.  On Unix a group id that may name somebody else is used at
\* most between the reap and the publication of the status.
HandlesExact ==
  /\ backend = "unix" /\ Unix!UsesGroup /\ Unix!GroupFree => status = "none" /\ root = "exited"
  /\ backend = "windows" =>
       /\ Windows!UsesProcessAndJob => {"process", "job"} \subseteq held
       /\ Windows!UsesConsole => "console" \in held /\ ~Windows!Closing
       /\ pc["wait"] = "waiting" => "process" \in held

\* After Kill the process ends, even one that ignores Terminate, and so do its
\* Windows descendants; every call that is under way returns; and after Close
\* and WaitStatus no handle is left open.
KillEnds ==
  /\ "kill" \in calls ~> \/ status = "io_failure"
                         \/ root = "exited" /\ (backend = "windows" => child # "alive")
  /\ \A t \in {"terminate", "close", "wait"} :
       "kill" \in calls ~> pc[t] \in {"idle", "done", "returned"}
  /\ {"kill", "close"} \subseteq calls /\ pc["wait"] = "done" ~> held = {}

\* When the context of RunOutput ends, RunOutput returns, and its goroutine has
\* closed and reaped the process or, if RunOutput was the first to return (from a
\* failed send, say), has left it to its owner.  A Close of the owner returns with
\* the process reaped, whoever else closes, and the process does not outlive the
\* context it was started with.  All this with a peer that takes no more frames
\* and a process that is silent.
BridgeEnds ==
  /\ context = "canceled" ~>
       /\ output = "returned"
       /\ closer["watcher"] = "left" \/ (closer["watcher"] = "returned" /\ legacy = "reaped")
  /\ closer["owner"] = "once" ~> closer["owner"] = "returned" /\ legacy = "reaped"
  /\ startContext = "canceled" ~> legacy # "alive"
=============================================================================
