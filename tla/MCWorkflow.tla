---------------------------- MODULE MCWorkflow ----------------------------
(* A workflow with work before and after an approval and a step whose      *)
(* condition does not match; a run, a retry and a retry of the retry.      *)
EXTENDS Workflow, TLC
MCSteps == <<"work", "approval", "skip", "work">>
Symmetry == Permutations(Executors) \union Permutations(Retries)
=============================================================================
