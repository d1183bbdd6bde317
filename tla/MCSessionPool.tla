--------------------------- MODULE MCSessionPool ---------------------------
(* Small instances of SessionPool. *)
EXTENDS SessionPool, TLC

Symmetry == Permutations(Requests) \cup Permutations(ClientIds) \cup Permutations(SessionIds)
=============================================================================
