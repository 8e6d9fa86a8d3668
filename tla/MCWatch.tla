------------------------------- MODULE MCWatch -------------------------------
(* A file in the root, and one in a directory that the user creates. *)
EXTENDS Watch

Directories == [p \in Path |-> IF p = "p" THEN "root" ELSE "d"]

\* Two changes, a failing scan, a tick.
TwoChanges == [o \in Outside |-> IF o = "change" THEN 2 ELSE 1]
=============================================================================
