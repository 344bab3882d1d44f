------------------------------ MODULE Ordering ------------------------------
(***************************************************************************)
(* sorted() of Python, for a set whose members all have different keys,    *)
(* with the order of the keys as an operator.  SetToSortSeq of the         *)
(* community modules has the same value, as the end of a search through    *)
(* permutations; the definition here is what sorting promises, which is    *)
(* what a proof can use.                                                   *)
(***************************************************************************)
EXTENDS Naturals, FiniteSets

Sorted(S, Before(_, _)) ==
  CHOOSE f \in [1..Cardinality(S) -> S] : \A i, j \in DOMAIN f : i < j => Before(f[i], f[j])

=============================================================================
