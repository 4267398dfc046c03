-------------------------- MODULE MCDatabaseWorker --------------------------
(* DatabaseWorker for TLC: the requests are interchangeable.               *)
EXTENDS DatabaseWorker, TLC

Symmetry == Permutations(Reqs)
=============================================================================
