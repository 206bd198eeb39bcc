------------------------------- MODULE Slices -------------------------------
(* Operations on Go slices that the standard sequences lack. *)
EXTENDS Integers, Sequences

\* append(s[:i], s[i+1:]...), with i counting from 1.
RemoveIndex(s, i) == SubSeq(s, 1, i - 1) \o SubSeq(s, i + 1, Len(s))
=============================================================================
