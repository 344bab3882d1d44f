------------------------------- MODULE MCTools -------------------------------
(* Two management requests beside one turn, two definitions of the tool. *)
EXTENDS Tools, TLC

OpsSymmetry == Permutations(Admins) \union Permutations(Versions)

=============================================================================
