--------------------------- MODULE MCConnection ---------------------------
(* Connection on a small instance. *)
EXTENDS Connection, TLC

CONSTANTS t1, t2, r1

Symmetry == Permutations(Threads)
=============================================================================
