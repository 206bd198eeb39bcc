---------------------------- MODULE MCProtocol ----------------------------
(* Two attachments that overlap, with only the exit event to send; one     *)
(* with replay and live output; one with all kinds of frames arriving.     *)
EXTENDS Protocol

MCLimits == {[attachments |-> 2, output |-> 0, others |-> FALSE, faults |-> TRUE],
             [attachments |-> 1, output |-> 2, others |-> FALSE, faults |-> FALSE],
             [attachments |-> 1, output |-> 1, others |-> TRUE, faults |-> TRUE]}

(* Only Protocol.Close disturbs an Attach. *)
MCQuietLimits == {[attachments |-> 1, output |-> 1, others |-> FALSE, faults |-> FALSE]}
=============================================================================
