----------------------------- MODULE MCFileConn -----------------------------
(* Small instances of FileConn. *)
EXTENDS FileConn, TLC

Symmetry == Permutations(Calls)
=============================================================================
