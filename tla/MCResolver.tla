----------------------------- MODULE MCResolver -----------------------------
(* All pairs of leaves with three devices and small counters. *)
EXTENDS VectorWalk

ThePath == [name |-> "p", tags |-> <<>>]
=============================================================================
