----------------------------- MODULE MCSessions -----------------------------
(* Sessions for TLC: three sessions and one attachment; two sessions and    *)
(* two attachments; two sessions and a client that lists them.              *)
EXTENDS Sessions

CONSTANTS a1, a2

MCBounds == {[ids |-> 4, attachments |-> {a1}, lists |-> FALSE],
             [ids |-> 3, attachments |-> {a1, a2}, lists |-> FALSE],
             [ids |-> 3, attachments |-> {}, lists |-> TRUE]}
=============================================================================
