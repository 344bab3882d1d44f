---------------------------- MODULE MCChangeSet ----------------------------
(* One change set and three decisions in a row, each of which may time     *)
(* out, be lost or be answered late.                                       *)
EXTENDS ChangeSet, TLC
Symmetry == Permutations(Workspaces) \union Permutations(Requests)
=============================================================================
