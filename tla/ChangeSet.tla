----------------------------- MODULE ChangeSet -----------------------------
(***************************************************************************)
(* The governed life of stored change sets (application/change_sets.py,    *)
(* api/routers/change_sets.py) composed with the allocator of the agent    *)
(* host (Workspace) and the connection between them.                       *)
(*                                                                         *)
(* A change set belongs to one run and a run to one worktree, so a member  *)
(* of Workspaces names all three.  A member of Requests is one call of     *)
(* execute_workspace_decision: it commits the request, waits for the agent *)
(* outside any transaction, and commits the outcome.  The socket keeps the *)
(* order of frames; what is in flight when it breaks is lost.              *)
(***************************************************************************)
EXTENDS Workspace, Sequences

CONSTANTS Requests, NoRequest

ASSUME RequestAssumption == NoRequest \notin Requests

VARIABLES
  csStatus,  \* stored_change_set.status ("none": no row)
  qpc,       \* where each request is
  qset,      \* its change set
  qact,      \* its action
  link,      \* the agent is connected
  toAgent,   \* coding_workspace_action frames in flight
  toServer,  \* results and failures in flight
  taken,     \* the request the agent is applying, NoRequest when its socket is gone
  abandoned  \* history: change sets whose decision a restart of the server cut off

reqVars  == <<qpc, qset, qact>>
linkVars == <<link, toAgent, toServer, taken>>
csVars   == <<csStatus, reqVars, linkVars, abandoned>>
changeVars == <<wsVars, csVars>>

Requested(a) == IF a = "retain" THEN "retain_requested" ELSE "discard_requested"

Final(a) == IF a = "retain" THEN "retained" ELSE "discarded"

CsStatuses == {"none", "captured", "reviewed", "pr_requested",
               "retain_requested", "discard_requested", "retained", "discarded"}

Answers == [q : Requests, ok : BOOLEAN]

InFlight == {"send", "wait", "complete", "rollback"}

\* SqlAlchemyChangeSetRepository.transition: compare and set.
CsTransition(w, expected, new) ==
  csStatus' = [csStatus EXCEPT ![w] = IF @ = expected THEN new ELSE @]

\* Every request waiting on the socket fails.
FailWaiting == [q \in Requests |-> IF qpc[q] = "wait" THEN "rollback" ELSE qpc[q]]

DropLink ==
  /\ link' = FALSE
  /\ toAgent' = <<>>
  /\ toServer' = <<>>
  /\ taken' = NoRequest

-----------------------------------------------------------------------------
\* The control plane.

\* record_capture for the run the worktree was allocated for.
Capture(w) ==
  /\ csStatus[w] = "none"
  /\ link
  /\ w \in allocated \intersect tree
  /\ csStatus' = [csStatus EXCEPT ![w] = "captured"]
  /\ UNCHANGED <<wsVars, reqVars, linkVars, abandoned>>

Review(w) ==
  /\ csStatus[w] = "captured"
  /\ CsTransition(w, "captured", "reviewed")
  /\ UNCHANGED <<wsVars, reqVars, linkVars, abandoned>>

RequestPr(w) ==
  /\ csStatus[w] = "reviewed"
  /\ CsTransition(w, "reviewed", "pr_requested")
  /\ UNCHANGED <<wsVars, reqVars, linkVars, abandoned>>

\* Mutant: a decision in flight can be decided again.
DecideAgain(q, w, a) ==
  /\ qpc[q] = "idle"
  /\ csStatus[w] \in {"reviewed", "retain_requested", "discard_requested"}
  /\ csStatus' = [csStatus EXCEPT ![w] = Requested(a)]
  /\ qpc' = [qpc EXCEPT ![q] = "send"]
  /\ qset' = [qset EXCEPT ![q] = w]
  /\ qact' = [qact EXCEPT ![q] = a]
  /\ UNCHANGED <<wsVars, linkVars, abandoned>>

\* decide(), committed before the remote wait; any other status is a 409.
Decide(q, w, a) ==
  /\ qpc[q] = "idle"
  /\ csStatus[w] = "reviewed"
  /\ CsTransition(w, "reviewed", Requested(a))
  /\ qpc' = [qpc EXCEPT ![q] = "send"]
  /\ qset' = [qset EXCEPT ![q] = w]
  /\ qact' = [qact EXCEPT ![q] = a]
  /\ UNCHANGED <<wsVars, linkVars, abandoned>>

SendAction(q) ==
  /\ qpc[q] = "send"
  /\ link
  /\ toAgent' = Append(toAgent, q)
  /\ qpc' = [qpc EXCEPT ![q] = "wait"]
  /\ UNCHANGED <<wsVars, csStatus, qset, qact, link, toServer, taken, abandoned>>

\* send_workspace_action raises (no connection, capability or slot), the wait
\* times out, or the caller is cancelled: except BaseException.
GiveUp(q) ==
  /\ qpc[q] \in {"send", "wait"}
  /\ qpc' = [qpc EXCEPT ![q] = "rollback"]
  /\ UNCHANGED <<wsVars, csStatus, qset, qact, linkVars, abandoned>>

\* Mutant: any answer of the agent completes the decision.
DeliverAnyAnswer ==
  LET f == Head(toServer) IN
  /\ toServer # <<>>
  /\ toServer' = Tail(toServer)
  /\ qpc' = IF qpc[f.q] = "wait" THEN [qpc EXCEPT ![f.q] = "complete"] ELSE qpc
  /\ UNCHANGED <<wsVars, csStatus, qset, qact, link, toAgent, taken, abandoned>>

\* deliver_workspace_action_result / _failure: only the correlated request that
\* is still waiting; a late frame is dropped.
Deliver ==
  LET f == Head(toServer) IN
  /\ toServer # <<>>
  /\ toServer' = Tail(toServer)
  /\ qpc' = IF qpc[f.q] = "wait"
            THEN [qpc EXCEPT ![f.q] = IF f.ok THEN "complete" ELSE "rollback"]
            ELSE qpc
  /\ UNCHANGED <<wsVars, csStatus, qset, qact, link, toAgent, taken, abandoned>>

Complete(q) ==
  /\ qpc[q] = "complete"
  /\ CsTransition(qset[q], Requested(qact[q]), Final(qact[q]))
  /\ qpc' = [qpc EXCEPT ![q] = "done"]
  /\ UNCHANGED <<wsVars, qset, qact, linkVars, abandoned>>

\* Mutant: a failed action leaves the change set in its requested status.
RollbackForgotten(q) ==
  /\ qpc[q] = "rollback"
  /\ qpc' = [qpc EXCEPT ![q] = "done"]
  /\ UNCHANGED <<wsVars, csStatus, qset, qact, linkVars, abandoned>>

Rollback(q) ==
  /\ qpc[q] = "rollback"
  /\ CsTransition(qset[q], Requested(qact[q]), "reviewed")
  /\ qpc' = [qpc EXCEPT ![q] = "done"]
  /\ UNCHANGED <<wsVars, qset, qact, linkVars, abandoned>>

\* The control plane dies: its requests are forgotten, the rows stay.
ServerRestart ==
  /\ link
  /\ DropLink
  /\ qpc' = [q \in Requests |-> IF qpc[q] \in InFlight THEN "done" ELSE qpc[q]]
  /\ abandoned' = abandoned \union {qset[q] : q \in {p \in Requests : qpc[p] \in InFlight}}
  /\ UNCHANGED <<wsVars, csStatus, qset, qact>>

-----------------------------------------------------------------------------
\* The connection and the agent.

LinkUp ==
  /\ ~link
  /\ link' = TRUE
  /\ UNCHANGED <<wsVars, csStatus, reqVars, toAgent, toServer, taken, abandoned>>

LinkDown ==
  /\ link
  /\ DropLink
  /\ qpc' = FailWaiting
  /\ UNCHANGED <<wsVars, csStatus, qset, qact, abandoned>>

\* A coding_run frame allocates the run's worktree.
AgentAllocate(w) ==
  /\ link
  /\ Allocate(w) \/ AllocateOrphan(w)
  /\ UNCHANGED csVars

\* The receive pump takes the next coding_workspace_action.
AgentTake ==
  /\ toAgent # <<>>
  /\ Begin(qset[Head(toAgent)], qact[Head(toAgent)])
  /\ toAgent' = Tail(toAgent)
  /\ taken' = Head(toAgent)
  /\ UNCHANGED <<csStatus, reqVars, link, toServer, abandoned>>

AgentApply == Apply /\ UNCHANGED csVars

\* The answer goes out on the socket the action came in on, if it is still up.
AgentAnswer ==
  /\ End
  /\ toServer' = IF taken = NoRequest THEN toServer
                 ELSE Append(toServer, [q |-> taken, ok |-> op.ok])
  /\ taken' = NoRequest
  /\ UNCHANGED <<csStatus, reqVars, link, toAgent, abandoned>>

AgentDies(readable) ==
  /\ AgentRestart(readable)
  /\ DropLink
  /\ qpc' = FailWaiting
  /\ UNCHANGED <<csStatus, qset, qact, abandoned>>

-----------------------------------------------------------------------------

CsInit ==
  /\ WsInit
  /\ csStatus = [w \in Workspaces |-> "none"]
  /\ qpc = [q \in Requests |-> "idle"]
  /\ qset = [q \in Requests |-> NoWorkspace]
  /\ qact = [q \in Requests |-> "none"]
  /\ link = FALSE
  /\ toAgent = <<>>
  /\ toServer = <<>>
  /\ taken = NoRequest
  /\ abandoned = {}

CsNext ==
  \/ \E w \in Workspaces : Capture(w)
  \/ \E w \in Workspaces : Review(w)
  \/ \E w \in Workspaces : RequestPr(w)
  \/ \E q \in Requests, w \in Workspaces, a \in Actions : Decide(q, w, a)
  \/ \E q \in Requests : SendAction(q)
  \/ \E q \in Requests : GiveUp(q)
  \/ Deliver
  \/ \E q \in Requests : Complete(q)
  \/ \E q \in Requests : Rollback(q)
  \/ ServerRestart
  \/ LinkUp
  \/ LinkDown
  \/ \E w \in Workspaces : AgentAllocate(w)
  \/ AgentTake
  \/ AgentApply
  \/ AgentAnswer
  \/ \E readable \in BOOLEAN : AgentDies(readable)

\* The server's own steps: a request is sent or gives up (wait_for bounds the
\* wait), and its outcome is committed.  The agent need not answer.
CsFairness ==
  \A q \in Requests :
    /\ WF_changeVars(GiveUp(q))
    /\ WF_changeVars(Complete(q))
    /\ WF_changeVars(Rollback(q))

CsSpec == CsInit /\ [][CsNext]_changeVars /\ CsFairness

-----------------------------------------------------------------------------

\* The values the rows, the requests and the two directions of the socket range
\* over, and those of the allocator.
CsTypeOK ==
  /\ WsTypeOK
  /\ csStatus \in [Workspaces -> CsStatuses]
  /\ qpc \in [Requests -> {"idle", "done"} \union InFlight]
  /\ qset \in [Requests -> Workspaces \union {NoWorkspace}]
  /\ qact \in [Requests -> Actions \union {"none"}]
  /\ \A q \in Requests : qpc[q] # "idle" => qset[q] \in Workspaces /\ qact[q] \in Actions
  /\ link \in BOOLEAN
  /\ toAgent \in Seq(Requests)
  /\ toServer \in Seq(Answers)
  /\ taken \in Requests \union {NoRequest}
  /\ abandoned \subseteq Workspaces

\* The requested status is a claim: while a decision is in flight no second one
\* is, so its final compare-and-set (or the one that returns the change set to
\* reviewed) never fails.
DecisionOwned ==
  \A q \in Requests : qpc[q] \in InFlight =>
    /\ csStatus[qset[q]] = Requested(qact[q])
    /\ \A p \in Requests \ {q} : qpc[p] \in InFlight => qset[p] # qset[q]

\* What the record says is what the host has, although earlier requests timed
\* out, were lost or were answered late: a change set is retained only while its
\* worktree and branch exist, and discarded only when they are gone.  Left behind
\* are the worktree of a workspace the agent gave up when it restarted, which it
\* then calls already removed, and the branch of that or of a removal cut short.
OutcomeTrue ==
  \A w \in Workspaces :
    /\ csStatus[w] = "retained" => w \in tree \intersect branch
    /\ csStatus[w] = "discarded" =>
         (w \in tree => w \in forsaken) /\ (w \in branch => w \in cut \union forsaken)

\* A decision ends: the change set leaves its requested status, unless the
\* control plane restarts under it (nothing reconciles that one).
DecisionSettles ==
  \A w \in Workspaces : csStatus[w] \in {"retain_requested", "discard_requested"} ~>
    (csStatus[w] \in {"retained", "discarded", "reviewed"} \/ w \in abandoned)

=============================================================================
