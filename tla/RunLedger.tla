----------------------------- MODULE RunLedger -----------------------------
(***************************************************************************)
(* What the coding-run endpoints promise, without sockets, handlers or     *)
(* transactions: a run goes from running to one terminal status, once, and *)
(* the requester is never told an outcome the durable record contradicts.  *)
(***************************************************************************)
CONSTANTS Runs

VARIABLES
  status,   \* the durable status of each run
  answer    \* what the requester of each run has been told

ledgerVars == <<status, answer>>

Rejected == {"failed", "cancelled", "interrupted"}
Terminal == {"succeeded"} \union Rejected

LedgerInit ==
  /\ status = [r \in Runs |-> "none"]
  /\ answer = [r \in Runs |-> "none"]

Start(r) ==
  /\ status[r] = "none"
  /\ status' = [status EXCEPT ![r] = "running"]
  /\ UNCHANGED answer

\* Several runs may reach their terminal status together (reconciliation).
Settle ==
  /\ \A r \in Runs : status'[r] # status[r] =>
       status[r] = "running" /\ status'[r] \in Terminal
  /\ DOMAIN status' = Runs

\* A change set is reported for a succeeded run only, a failure for a rejected
\* one only; a lost connection, a timeout or a malformed frame says nothing
\* about the record.
Consistent(r, a, st) ==
  \/ a = "changeset" /\ st = "succeeded"
  \/ a = "failure" /\ st \in Rejected
  \/ a \in {"lost", "timeout", "malformed", "refused"}

Tell ==
  /\ \A r \in Runs : answer'[r] # answer[r] =>
       answer[r] = "none" /\ Consistent(r, answer'[r], status'[r])
  /\ DOMAIN answer' = Runs

LedgerNext ==
  \/ \E r \in Runs : Start(r)
  \/ Settle /\ Tell

LedgerSpec == LedgerInit /\ [][LedgerNext]_ledgerVars

=============================================================================
