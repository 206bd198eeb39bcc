---------------------------- MODULE ProcessTree ----------------------------
(***************************************************************************)
(* The operating system's side of a started process: the root, one         *)
(* descendant that is in the process group or Job Object with it, and the  *)
(* requests that may end the root.  Only a kill is sure to.                *)
(***************************************************************************)
VARIABLES
  root,            \* "none", "alive" or "exited"
  child,           \* "none", "alive" or "dead"
  cause,           \* how the root ended
  asked            \* the requests that have reached the root

tree == <<root, child, cause, asked>>

TreeInit == root = "none" /\ child = "none" /\ cause = "none" /\ asked = {}

Spawn ==
  /\ root = "none" /\ root' = "alive"
  /\ child' \in {"none", "alive"}
  /\ UNCHANGED <<cause, asked>>

\* A doomed process may still end by itself first.
RootExits ==
  /\ root = "alive" /\ root' = "exited"
  /\ cause' \in {"zero", "nonzero", "signal"} \cup asked
  /\ UNCHANGED <<child, asked>>

ChildExits == child = "alive" /\ child' = "dead" /\ UNCHANGED <<root, cause, asked>>

\* A request reaches whoever is alive; a killed descendant is gone.
Deliver(request) ==
  /\ asked' = IF root = "alive" THEN asked \cup {request} ELSE asked
  /\ child' = IF child = "alive" /\ request = "kill" THEN "dead" ELSE child
  /\ UNCHANGED <<root, cause>>

DoomedExits == "kill" \in asked /\ RootExits
=============================================================================
