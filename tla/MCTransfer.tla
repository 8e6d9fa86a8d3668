----------------------------- MODULE MCTransfer -----------------------------
(* A small instance of Transfer: blocks of two bytes. *)
EXTENDS Transfer

\* One full block and a partial one, a single full block.
Contents == {<<1, 2, 3>>, <<3, 1>>}
=============================================================================
