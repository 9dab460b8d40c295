---------------------------- MODULE MCListPages ----------------------------
(* The rows of a list are interchangeable. *)
EXTENDS ListPages, TLC

RowSymmetry == Permutations(Rows)
=============================================================================
