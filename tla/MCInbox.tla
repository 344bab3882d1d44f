------------------------------- MODULE MCInbox -------------------------------
(* One coding run and one change set, and two pages that load, act and follow. *)
EXTENDS Inbox

PageSymmetry == Permutations(Pages)

=============================================================================
