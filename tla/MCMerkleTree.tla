---------------------------- MODULE MCMerkleTree ----------------------------
(* A small instance of MerkleTree: a name that may be a file or a directory of two      *)
(* files, and a file that has nothing to do with it.                                    *)
EXTENDS MerkleTree

Paths == {<<"a">>, <<"a", "x">>, <<"a", "y">>, <<"b">>}
=============================================================================
