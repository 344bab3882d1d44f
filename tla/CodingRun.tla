----------------------------- MODULE CodingRun -----------------------------
(***************************************************************************)
(* The life of coding runs on the control plane: the durable rows          *)
(* (coding_run, stored_change_set), the endpoints that dispatch and cancel *)
(* (application/coding_runs.py, routers/coding_runs.py), the frame         *)
(* handlers (routers/agents.py), the reconciler fired by a disconnect and  *)
(* by a restart (main.py), and the part of the connection manager they     *)
(* depend on.  One agent, as in AgentConn.                                 *)
(*                                                                         *)
(* A handler is a sequence of steps split at its awaits.  A unit of work   *)
(* reads committed rows statement by statement; its writes appear together *)
(* when it ends, so INSERT, UPDATE ... WHERE status = expected and commit  *)
(* are one step.  A unit of work that is left by return commits as well    *)
(* (Database.uow), and only an exception that leaves it rolls it back.     *)
(***************************************************************************)
EXTENDS Integers, FiniteSets

CONSTANTS
  Runs,        \* run ids, each dispatched once with its own request id
  Sockets,     \* WebSocket objects of the agent
  NoSocket,
  NoRun,
  Cancellers   \* concurrent cancel requests

ASSUME RunAssumption == NoSocket \notin Sockets /\ NoRun \notin Runs

VARIABLES
  status,      \* coding_run.status ("none": no row)
  changeSets,  \* runs with a row in stored_change_set
  conn,        \* the agent's active socket
  seen,        \* sockets connected so far
  open,        \* sockets whose receive loop runs
  sent,        \* runs whose coding_run frame went out
  owner,       \* the socket that frame went out on
  answer,      \* how the dispatching request ended ("none": it is waiting)
  waiting,     \* runs with an unresolved entry in _coding_waiters
  hpc, hrun,   \* frame handler of each receive loop: step and run
  cpc, crun,   \* cancel request: step and run
  asked,       \* runs for which a coding_run_cancel frame was sent
  acked,       \* runs a cancel request reported as cancelled
  rpc, rruns   \* reconciler fired when a socket disconnected: step and rows read

dbVars   == <<status, changeSets>>
connVars == <<conn, seen, open>>
futVars  == <<sent, owner, answer, waiting>>
hVars    == <<hpc, hrun>>
cVars    == <<cpc, crun, asked, acked>>
rVars    == <<rpc, rruns>>
vars == <<dbVars, connVars, futVars, hVars, cVars, rVars>>

Rejected == {"failed", "cancelled", "interrupted"}
Terminal == {"succeeded"} \union Rejected
Statuses == {"none", "running"} \union Terminal

\* Mutant: an UPDATE without the expected status.
TransitionAlways(R, new) ==
  status' = [r \in Runs |-> IF r \in R THEN new ELSE status[r]]

\* SqlAlchemyCodingRunRepository.transition: compare and set on "running", the
\* only live status a committed row ever shows (dispatch inserts "queued" and
\* moves it to "running" in one transaction).
Transition(R, new) ==
  status' = [r \in Runs |-> IF r \in R /\ status[r] = "running" THEN new ELSE status[r]]

\* Settle the future of the runs in R that are still waiting.
Resolve(R, how) ==
  /\ answer'  = [r \in Runs |-> IF r \in R \intersect waiting THEN how ELSE answer[r]]
  /\ waiting' = waiting \ R

\* _fail_socket_requests for the coding waiters of the active socket.
FailWaiters == Resolve({r \in Runs : owner[r] = conn}, "lost")

-----------------------------------------------------------------------------
\* Connections.

Connect(ws) ==
  /\ ws \notin seen
  /\ conn' = ws
  /\ seen' = seen \union {ws}
  /\ open' = open \union {ws}
  /\ FailWaiters
  /\ UNCHANGED <<dbVars, sent, owner, hVars, cVars, rVars>>

\* The loop of ws ends between two frames.  The active socket's disconnect
\* fails its waiters and schedules the reconciler; any other one is a no-op.
Disconnect(ws) ==
  /\ ws \in open
  /\ hpc[ws] = "idle"
  /\ open' = open \ {ws}
  /\ IF conn = ws
     THEN /\ conn' = NoSocket
          /\ FailWaiters
          /\ rpc' = [rpc EXCEPT ![ws] = "scheduled"]
     ELSE UNCHANGED <<conn, answer, waiting, rpc>>
  /\ UNCHANGED <<dbVars, seen, sent, owner, hVars, cVars, rruns>>

\* close(): the agent is archived or deleted; no callback is fired.
Close ==
  /\ conn # NoSocket
  /\ conn' = NoSocket
  /\ FailWaiters
  /\ UNCHANGED <<dbVars, seen, open, sent, owner, hVars, cVars, rVars>>

-----------------------------------------------------------------------------
\* dispatch_coding_run.

\* create + queued -> running + commit.
DispatchCommit(r) ==
  /\ status[r] = "none"
  /\ status' = [status EXCEPT ![r] = "running"]
  /\ UNCHANGED <<changeSets, connVars, futVars, hVars, cVars, rVars>>

\* send_coding_run on the agent's active socket.
DispatchSend(r) ==
  /\ status[r] # "none"
  /\ r \notin sent
  /\ answer[r] = "none"
  /\ conn # NoSocket
  /\ sent' = sent \union {r}
  /\ owner' = [owner EXCEPT ![r] = conn]
  /\ waiting' = waiting \union {r}
  /\ UNCHANGED <<dbVars, connVars, answer, hVars, cVars, rVars>>

\* send_coding_run raises: not connected, no coding_workspace or busy.
DispatchRefused(r) ==
  /\ status[r] # "none"
  /\ r \notin sent
  /\ answer[r] = "none"
  /\ answer' = [answer EXCEPT ![r] = "refused"]
  /\ UNCHANGED <<dbVars, connVars, sent, owner, waiting, hVars, cVars, rVars>>

\* wait_for times out; the TimeoutError leaves dispatch_coding_run.
DispatchTimeout(r) ==
  /\ r \in waiting
  /\ Resolve({r}, "timeout")
  /\ UNCHANGED <<dbVars, connVars, sent, owner, hVars, cVars, rVars>>

-----------------------------------------------------------------------------
\* Frame handlers.  The loop of a socket handles one frame at a time; the
\* agent may send any terminal frame for a run it was given, late or twice.

HandlerAt(ws, pc) == hpc[ws] = pc

GoTo(ws, pc) == hpc' = [hpc EXCEPT ![ws] = pc] /\ UNCHANGED hrun

Return(ws) ==
  /\ hpc' = [hpc EXCEPT ![ws] = "idle"]
  /\ hrun' = [hrun EXCEPT ![ws] = NoRun]

Receive(ws, r, pc) ==
  /\ ws \in open
  /\ conn = ws
  /\ hpc[ws] = "idle"
  /\ r \in sent
  /\ hpc' = [hpc EXCEPT ![ws] = pc]
  /\ hrun' = [hrun EXCEPT ![ws] = r]

\* Mutant: the frame is not correlated to a waiting request.
ChangeSetFrameUncorrelated(ws, r) ==
  /\ Receive(ws, r, "check")
  /\ UNCHANGED <<dbVars, connVars, futVars, cVars, rVars>>

\* coding_change_set, well formed and correlated to a waiter
\* (validate_coding_change_set); otherwise it is dropped.
ChangeSetFrame(ws, r) ==
  /\ r \in waiting
  /\ Receive(ws, r, "check")
  /\ UNCHANGED <<dbVars, connVars, futVars, cVars, rVars>>

\* coding_change_set that fails validation: the error goes to the waiter.
MalformedFrame(ws, r) ==
  /\ ws \in open
  /\ conn = ws
  /\ hpc[ws] = "idle"
  /\ r \in waiting
  /\ Resolve({r}, "malformed")
  /\ UNCHANGED <<dbVars, connVars, sent, owner, hVars, cVars, rVars>>

\* _handle_coding_change_set: the idempotency test.
CaptureCheck(ws) ==
  /\ HandlerAt(ws, "check")
  /\ IF status[hrun[ws]] = "running" THEN GoTo(ws, "read") ELSE Return(ws)
  /\ UNCHANGED <<dbVars, connVars, futVars, cVars, rVars>>

\* Mutant: the requester is answered before the capture is committed.
CaptureReadTellsEarly(ws) ==
  /\ HandlerAt(ws, "read")
  /\ Resolve({hrun[ws]}, "changeset")
  /\ IF status[hrun[ws]] = "running" THEN GoTo(ws, "write") ELSE Return(ws)
  /\ UNCHANGED <<dbVars, connVars, sent, owner, cVars, rVars>>

\* record_capture reads the row again; a rejection is delivered to the waiter.
CaptureRead(ws) ==
  /\ HandlerAt(ws, "read")
  /\ IF status[hrun[ws]] = "running"
     THEN GoTo(ws, "write") /\ UNCHANGED futVars
     ELSE Return(ws) /\ Resolve({hrun[ws]}, "failure") /\ UNCHANGED <<sent, owner>>
  /\ UNCHANGED <<dbVars, connVars, cVars, rVars>>

\* record_capture inserts the change set and moves the run to succeeded.  When
\* the compare-and-set fails the ValueError is caught inside the unit of work,
\* which then commits the insert.
CaptureWrite(ws) ==
  LET r == hrun[ws] IN
  /\ HandlerAt(ws, "write")
  /\ r \notin changeSets
  /\ changeSets' = changeSets \union {r}
  /\ Transition({r}, "succeeded")
  /\ IF status[r] = "running"
     THEN GoTo(ws, "complete") /\ UNCHANGED futVars
     ELSE Return(ws) /\ Resolve({r}, "failure") /\ UNCHANGED <<sent, owner>>
  /\ UNCHANGED <<connVars, cVars, rVars>>

\* complete_coding_change_set, after the commit.
CaptureComplete(ws) ==
  /\ HandlerAt(ws, "complete")
  /\ Resolve({hrun[ws]}, "changeset")
  /\ Return(ws)
  /\ UNCHANGED <<dbVars, connVars, sent, owner, cVars, rVars>>

\* coding_run_failed: found by request id, so no waiter is needed.
FailedFrame(ws, r) ==
  /\ Receive(ws, r, "failing")
  /\ UNCHANGED <<dbVars, connVars, futVars, cVars, rVars>>

\* mark_run_failed reads the row; a terminal run makes the frame a no-op.
FailedRead(ws) ==
  /\ HandlerAt(ws, "failing")
  /\ IF status[hrun[ws]] = "running" THEN GoTo(ws, "fail") ELSE Return(ws)
  /\ UNCHANGED <<dbVars, connVars, futVars, cVars, rVars>>

FailedWrite(ws) ==
  LET r == hrun[ws] IN
  /\ HandlerAt(ws, "fail")
  /\ Transition({r}, "failed")
  /\ IF status[r] = "running" THEN GoTo(ws, "tell") ELSE Return(ws)
  /\ UNCHANGED <<changeSets, connVars, futVars, cVars, rVars>>

\* deliver_coding_failure.
FailedTell(ws) ==
  /\ HandlerAt(ws, "tell")
  /\ Resolve({hrun[ws]}, "failure")
  /\ Return(ws)
  /\ UNCHANGED <<dbVars, connVars, sent, owner, cVars, rVars>>

-----------------------------------------------------------------------------
\* cancel_coding_run: read, send the frame, then compare and set.

CancelRead(c, r) ==
  /\ cpc[c] = "idle"
  /\ status[r] = "running"
  /\ cpc' = [cpc EXCEPT ![c] = "send"]
  /\ crun' = [crun EXCEPT ![c] = r]
  /\ UNCHANGED <<dbVars, connVars, futVars, hVars, asked, acked, rVars>>

CancelEnd(c) ==
  /\ cpc' = [cpc EXCEPT ![c] = "idle"]
  /\ crun' = [crun EXCEPT ![c] = NoRun]

\* Mutant: the run is cancelled although no frame could be sent.
CancelSendLost(c) ==
  /\ cpc[c] = "send"
  /\ cpc' = [cpc EXCEPT ![c] = "write"]
  /\ UNCHANGED <<dbVars, connVars, futVars, hVars, crun, asked, acked, rVars>>

CancelSend(c) ==
  /\ cpc[c] = "send"
  /\ conn # NoSocket
  /\ asked' = asked \union {crun[c]}
  /\ cpc' = [cpc EXCEPT ![c] = "write"]
  /\ UNCHANGED <<dbVars, connVars, futVars, hVars, crun, acked, rVars>>

\* send_coding_cancel raises: not connected or no cancellation capability.
CancelRefused(c) ==
  /\ cpc[c] = "send"
  /\ CancelEnd(c)
  /\ UNCHANGED <<dbVars, connVars, futVars, hVars, asked, acked, rVars>>

CancelWrite(c) ==
  LET r == crun[c] IN
  /\ cpc[c] = "write"
  /\ Transition({r}, "cancelled")
  /\ acked' = IF status[r] = "running" THEN acked \union {r} ELSE acked
  /\ CancelEnd(c)
  /\ UNCHANGED <<changeSets, connVars, futVars, hVars, asked, rVars>>

-----------------------------------------------------------------------------
\* reconcile_interrupted_runs: the callback of a disconnect, keyed by agent id.
\* Mutant: only runs somebody still waits for are reconciled.
ReconcileReadWaiting(ws) ==
  /\ rpc[ws] = "scheduled"
  /\ rpc' = [rpc EXCEPT ![ws] = "write"]
  /\ rruns' = [rruns EXCEPT ![ws] = {r \in waiting : status[r] = "running"}]
  /\ UNCHANGED <<dbVars, connVars, futVars, hVars, cVars>>

ReconcileRead(ws) ==
  /\ rpc[ws] = "scheduled"
  /\ rpc' = [rpc EXCEPT ![ws] = "write"]
  /\ rruns' = [rruns EXCEPT ![ws] = {r \in Runs : status[r] = "running"}]
  /\ UNCHANGED <<dbVars, connVars, futVars, hVars, cVars>>

ReconcileWrite(ws) ==
  /\ rpc[ws] = "write"
  /\ Transition(rruns[ws], "interrupted")
  /\ rpc' = [rpc EXCEPT ![ws] = "done"]
  /\ rruns' = [rruns EXCEPT ![ws] = {}]
  /\ UNCHANGED <<changeSets, connVars, futVars, hVars, cVars>>

\* The process dies and lifespan() starts again: memory is lost, and every
\* live run is reconciled before the first request is served.
Restart ==
  /\ seen # {}
  /\ Transition(Runs, "interrupted")
  /\ conn' = NoSocket
  /\ open' = {}
  /\ answer' = [r \in Runs |-> IF status[r] # "none" /\ answer[r] = "none"
                               THEN "lost" ELSE answer[r]]
  /\ waiting' = {}
  /\ hpc' = [ws \in Sockets |-> "idle"]
  /\ hrun' = [ws \in Sockets |-> NoRun]
  /\ cpc' = [c \in Cancellers |-> "idle"]
  /\ crun' = [c \in Cancellers |-> NoRun]
  /\ rpc' = [ws \in Sockets |-> IF rpc[ws] = "none" THEN "none" ELSE "done"]
  /\ rruns' = [ws \in Sockets |-> {}]
  /\ UNCHANGED <<changeSets, seen, sent, owner, asked, acked>>

-----------------------------------------------------------------------------

Init ==
  /\ status = [r \in Runs |-> "none"]
  /\ changeSets = {}
  /\ conn = NoSocket
  /\ seen = {}
  /\ open = {}
  /\ sent = {}
  /\ owner = [r \in Runs |-> NoSocket]
  /\ answer = [r \in Runs |-> "none"]
  /\ waiting = {}
  /\ hpc = [ws \in Sockets |-> "idle"]
  /\ hrun = [ws \in Sockets |-> NoRun]
  /\ cpc = [c \in Cancellers |-> "idle"]
  /\ crun = [c \in Cancellers |-> NoRun]
  /\ asked = {}
  /\ acked = {}
  /\ rpc = [ws \in Sockets |-> "none"]
  /\ rruns = [ws \in Sockets |-> {}]

HandlerStep(ws) ==
  \/ CaptureCheck(ws)
  \/ CaptureRead(ws)
  \/ CaptureWrite(ws)
  \/ CaptureComplete(ws)
  \/ FailedRead(ws)
  \/ FailedWrite(ws)
  \/ FailedTell(ws)

CancelStep(c) == CancelSend(c) \/ CancelRefused(c) \/ CancelWrite(c)

ReconcileStep(ws) == ReconcileRead(ws) \/ ReconcileWrite(ws)

Next ==
  \/ \E ws \in Sockets : Connect(ws)
  \/ \E ws \in Sockets : Disconnect(ws)
  \/ Close
  \/ \E r \in Runs : DispatchCommit(r)
  \/ \E r \in Runs : DispatchSend(r)
  \/ \E r \in Runs : DispatchRefused(r)
  \/ \E r \in Runs : DispatchTimeout(r)
  \/ \E ws \in Sockets, r \in Runs : ChangeSetFrame(ws, r)
  \/ \E ws \in Sockets, r \in Runs : MalformedFrame(ws, r)
  \/ \E ws \in Sockets, r \in Runs : FailedFrame(ws, r)
  \/ \E ws \in Sockets : HandlerStep(ws)
  \/ \E c \in Cancellers, r \in Runs : CancelRead(c, r)
  \/ \E c \in Cancellers : CancelStep(c)
  \/ \E ws \in Sockets : ReconcileStep(ws)
  \/ Restart

\* The event loop finishes what it has started: handlers, cancel requests,
\* scheduled reconcilers and the dispatching request (its wait is bounded).
\* Nothing obliges agents to answer, users to cancel or sockets to drop.
Fairness ==
  /\ \A ws \in Sockets : WF_vars(HandlerStep(ws)) /\ WF_vars(ReconcileStep(ws))
  /\ \A c \in Cancellers : WF_vars(CancelStep(c))
  /\ \A r \in Runs : WF_vars(DispatchSend(r) \/ DispatchRefused(r))
  /\ \A r \in Runs : WF_vars(DispatchTimeout(r))

Spec == Init /\ [][Next]_vars /\ Fairness

-----------------------------------------------------------------------------

\* The values the rows, the connection and the handlers' steps range over; a busy
\* handler or cancel request knows its run.
TypeOK ==
  /\ status \in [Runs -> Statuses]
  /\ changeSets \subseteq Runs
  /\ conn \in Sockets \union {NoSocket}
  /\ seen \subseteq Sockets
  /\ open \subseteq seen
  /\ sent \subseteq Runs
  /\ owner \in [Runs -> Sockets \union {NoSocket}]
  /\ answer \in [Runs -> {"none", "changeset", "failure", "lost", "timeout",
                          "malformed", "refused"}]
  /\ waiting \subseteq Runs
  /\ hpc \in [Sockets -> {"idle", "check", "read", "write", "complete",
                          "failing", "fail", "tell"}]
  /\ hrun \in [Sockets -> Runs \union {NoRun}]
  /\ \A ws \in Sockets : hpc[ws] # "idle" => hrun[ws] \in Runs
  /\ cpc \in [Cancellers -> {"idle", "send", "write"}]
  /\ crun \in [Cancellers -> Runs \union {NoRun}]
  /\ \A c \in Cancellers : cpc[c] # "idle" => crun[c] \in Runs
  /\ asked \subseteq Runs
  /\ acked \subseteq Runs
  /\ rpc \in [Sockets -> {"none", "scheduled", "write", "done"}]
  /\ rruns \in [Sockets -> SUBSET Runs]

\* A terminal run is final: whatever frames, cancel requests and reconcilers
\* race for it, the first compare-and-set wins and the others change nothing.
TerminalIsFinal ==
  [][\A r \in Runs : status[r] \in Terminal => status'[r] = status[r]]_vars

\* The detail endpoint links a succeeded run to its change set, and the
\* requester is told "changeset" only once both are durable.
SuccessIsDurable ==
  \A r \in Runs :
    /\ status[r] = "succeeded" => r \in changeSets
    /\ answer[r] = "changeset" => status[r] = "succeeded"

\* The requester is never told of a failure while the run may still succeed.
FailureIsDurable ==
  \A r \in Runs : answer[r] = "failure" => status[r] \in Rejected

\* At most one handler is capturing a run, so the unique key on
\* stored_change_set.run_id is never hit although a replaced socket's handler
\* may still be running beside the new one's.
CaptureExclusive ==
  \A w \in Sockets :
    /\ hpc[w] = "write" => hrun[w] \notin changeSets
    /\ \A v \in Sockets \ {w} :
         ~ /\ hpc[w] \in {"check", "read", "write"}
           /\ hpc[v] \in {"check", "read", "write"}
           /\ hrun[v] = hrun[w]

\* Fail-closed cancel: a run is cancelled only after the agent was asked to
\* stop it, and a request that was told "cancelled" finds the run so.
CancelFailClosed ==
  /\ \A r \in Runs : status[r] = "cancelled" => r \in asked
  /\ \A r \in acked : status[r] = "cancelled"

\* A run dispatched on a socket that was active when it disconnected does not
\* stay live: the reconciler that disconnect schedules gets to it, given that its
\* own write succeeds.
DroppedRunsSettle ==
  \A ws \in Sockets, r \in Runs :
    (rpc[ws] = "scheduled" /\ owner[r] = ws) ~> status[r] \in Terminal

\* The endpoints implement the ledger.
Ledger == INSTANCE RunLedger
ImplementsLedger == Ledger!LedgerSpec

=============================================================================
