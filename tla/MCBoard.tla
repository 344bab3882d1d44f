------------------------------ MODULE MCBoard ------------------------------
(* A small instance of Board for TLC. *)
EXTENDS Board, TLC

Symmetry == Permutations(Requests)

=============================================================================
