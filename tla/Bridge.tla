------------------------------- MODULE Bridge -------------------------------
(***************************************************************************)
(* pty.Bridge over a process of the v0.1 API (pty/bridge.go and process in *)
(* pty/unixpty/factory_unix.go): RunOutput reads and sends, a goroutine    *)
(* closes the process if the context of RunOutput ends first, and the      *)
(* owner may call Close, Kill and Wait meanwhile.  Close is guarded by     *)
(* closeOnce: it closes the terminal, kills the process and waits for it.  *)
(* exec.CommandContext kills the process when the context given to         *)
(* Factory.Start ends, which need not be the context of RunOutput.         *)
(***************************************************************************)
VARIABLES
  context,         \* of RunOutput: "live" or "canceled"
  startContext,    \* of Factory.Start
  legacy,          \* the process: "alive", "exited" or "reaped"
  doomed,          \* it has been killed
  file,            \* "open" or "closed"
  output,          \* RunOutput: "read", "send", "last" (send, then return) or "returned"
  closer           \* closer[t]: "idle", "once", "file", "kill", "wait" or "returned";
                   \* "left" for the goroutine of RunOutput if it leaves without Close

bridge == <<context, startContext, legacy, doomed, file, output, closer>>

contexts == <<context, startContext>>

Closer == {"watcher", "owner"}

BridgeInit ==
  /\ context = "live" /\ startContext = "live" /\ legacy = "alive" /\ doomed = FALSE /\ file = "open"
  /\ output = "read" /\ closer = [t \in Closer |-> "idle"]

Cancel ==
  /\ context = "live" /\ context' = "canceled"
  /\ UNCHANGED <<startContext, legacy, doomed, file, output, closer>>

CancelStart ==
  /\ startContext = "live" /\ startContext' = "canceled"
  /\ UNCHANGED <<context, legacy, doomed, file, output, closer>>

ProcessExits ==
  /\ legacy = "alive" /\ legacy' = "exited"
  /\ UNCHANGED <<contexts, doomed, file, output, closer>>

\* Bridge.Kill.
Kill ==
  /\ legacy = "alive" /\ ~doomed /\ doomed' = TRUE
  /\ UNCHANGED <<contexts, legacy, file, output, closer>>

\* The goroutine of os/exec.
ContextKills == startContext = "canceled" /\ Kill

\* Bridge.Wait.
Wait == legacy = "exited" /\ legacy' = "reaped" /\ UNCHANGED <<contexts, doomed, file, output, closer>>

\* A read returns data, or data with an error.
ReadReturns ==
  /\ output = "read" /\ file = "open" /\ output' \in {"send", "last"}
  /\ UNCHANGED <<contexts, legacy, doomed, file, closer>>

\* A read ends with the terminal closed or hung up, or fails at any time.
ReadEnds ==
  /\ output = "read" /\ output' = "returned"
  /\ UNCHANGED <<contexts, legacy, doomed, file, closer>>

\* SendOwned takes the frame.
Sends ==
  /\ output \in {"send", "last"}
  /\ output' = IF output = "send" THEN "read" ELSE "returned"
  /\ UNCHANGED <<contexts, legacy, doomed, file, closer>>

\* Mutant: the frame is sent with a context of its own.
SendInsists ==
  /\ FALSE
  /\ UNCHANGED bridge

\* SendOwned fails; it does when the context has ended.
SendFails ==
  /\ output \in {"send", "last"} /\ output' = "returned"
  /\ UNCHANGED <<contexts, legacy, doomed, file, closer>>

\* The goroutine of RunOutput: the first of the end of the context and of the
\* return, and either if both have come.  After the return it just leaves.
WatcherWakes ==
  /\ closer["watcher"] = "idle"
  /\ \/ context = "canceled" /\ closer' = [closer EXCEPT !["watcher"] = "once"]
     \/ output = "returned" /\ closer' = [closer EXCEPT !["watcher"] = "left"]
  /\ UNCHANGED <<contexts, legacy, doomed, file, output>>

\* Bridge.Close.
OwnerCloses ==
  /\ closer["owner"] = "idle" /\ closer' = [closer EXCEPT !["owner"] = "once"]
  /\ UNCHANGED <<contexts, legacy, doomed, file, output>>

Busy == \E t \in Closer : closer[t] \in {"file", "kill", "wait"}

Close(t) ==
  \/ /\ closer[t] = "once" /\ ~Busy
     /\ closer' = [closer EXCEPT ![t] = IF file = "open" THEN "file" ELSE "returned"]
     /\ UNCHANGED <<legacy, doomed, file>>
  \/ /\ closer[t] = "file" /\ file' = "closed"
     /\ closer' = [closer EXCEPT ![t] = "kill"]
     /\ UNCHANGED <<legacy, doomed>>
  \/ /\ closer[t] = "kill" /\ doomed' = (doomed \/ legacy = "alive")
     /\ closer' = [closer EXCEPT ![t] = "wait"]
     /\ UNCHANGED <<legacy, file>>
  \/ /\ closer[t] = "wait" /\ legacy # "alive" /\ legacy' = "reaped"
     /\ closer' = [closer EXCEPT ![t] = "returned"]
     /\ UNCHANGED <<doomed, file>>

BridgeNext ==
  \/ Cancel \/ CancelStart \/ ProcessExits \/ Kill \/ ContextKills \/ Wait
  \/ ReadReturns \/ ReadEnds \/ Sends \/ SendFails \/ WatcherWakes \/ OwnerCloses
  \/ \E t \in Closer : Close(t) /\ UNCHANGED <<contexts, output>>

\* A killed process ends, a read of a closed terminal returns, a send with a
\* context that has ended returns, os/exec kills when the context it was given
\* has ended, and the goroutines run.  Nobody need call Close, Kill or Wait.
BridgeFairness ==
  /\ WF_bridge(doomed /\ ProcessExits)
  /\ WF_bridge(ContextKills)
  /\ WF_bridge(file = "closed" /\ ReadEnds)
  /\ WF_bridge(context = "canceled" /\ SendFails)
  /\ WF_bridge(WatcherWakes)
  /\ \A t \in Closer : WF_bridge(Close(t) /\ UNCHANGED <<contexts, output>>)
=============================================================================
