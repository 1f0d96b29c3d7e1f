------------------------------ MODULE MCTasker ------------------------------
(* Small instances of Tasker for TLC. *)
EXTENDS Tasker, TLC

Symmetry == Permutations(Tasks) \union Permutations(Workers)
=============================================================================
