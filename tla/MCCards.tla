------------------------------- MODULE MCCards -------------------------------
(* Two cards, two columns and two fields under two requests at a time. *)
EXTENDS Cards, TLC

RequestSymmetry == Permutations(Requests) \union Permutations(Cards)

=============================================================================
