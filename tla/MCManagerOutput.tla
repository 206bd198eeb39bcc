-------------------------- MODULE MCManagerOutput --------------------------
(* ManagerOutput for TLC: full histories unobserved, full queues without   *)
(* output, and a little of both.                                           *)
EXTENDS ManagerOutput

CONSTANTS s1, s2, o1, o2

MCBounds ==
  {[published |-> 4, others |-> 0, observers |-> {}],
   [published |-> 0, others |-> 3, observers |-> {o1, o2}],
   [published |-> 2, others |-> 0, observers |-> {o1}]}
=============================================================================
