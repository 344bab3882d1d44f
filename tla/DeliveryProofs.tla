-------------------------- MODULE DeliveryProofs ---------------------------
(***************************************************************************)
(* Proofs about the way a coding run's work is delivered: the run          *)
(* (CodingRun) for every set of runs, sockets and cancel requests; the     *)
(* allocator of the agent host and the governed decisions (Workspace,      *)
(* ChangeSet) for every set of workspaces and requests; the delivery       *)
(* pipeline (Pipeline) for every contract graph, set of artifacts and      *)
(* retry policy, with no bound on how often a stage is begun that matters  *)
(* (Begins is any number); the events a run is shown by (RunStream).  Each *)
(* part argues about its own specification from an invariant of its own;   *)
(* none rests on another, but for the events, which follow the run.        *)
(***************************************************************************)
EXTENDS CodingRun, RunStream, ChangeSet, Pipeline, FiniteSetTheorems, SequenceTheorems, TLAPS


-----------------------------------------------------------------------------

\* PART I.  The coding run.

USE RunAssumption

LEMMA TypeInit == Init => TypeOK
BY DEF Init, TypeOK, Statuses

LEMMA TypeStep == TypeOK /\ [Next]_vars => TypeOK'
<1> SUFFICES ASSUME TypeOK, [Next]_vars PROVE TypeOK'
  OBVIOUS
<1> USE DEF TypeOK, Statuses, Terminal, Rejected, dbVars, connVars, futVars, hVars, cVars, rVars
<1>1. ASSUME NEW ws \in Sockets, Connect(ws) PROVE TypeOK'
  BY <1>1 DEF Connect, FailWaiters, Resolve
<1>2. ASSUME NEW ws \in Sockets, Disconnect(ws) PROVE TypeOK'
  BY <1>2 DEF Disconnect, FailWaiters, Resolve
<1>3. ASSUME Close PROVE TypeOK'
  BY <1>3 DEF Close, FailWaiters, Resolve
<1>4. ASSUME NEW r \in Runs,
             DispatchCommit(r) \/ DispatchSend(r) \/ DispatchRefused(r) \/ DispatchTimeout(r)
      PROVE  TypeOK'
  BY <1>4 DEF DispatchCommit, DispatchSend, DispatchRefused, DispatchTimeout, Resolve
<1>5. ASSUME NEW ws \in Sockets, NEW r \in Runs,
             ChangeSetFrame(ws, r) \/ MalformedFrame(ws, r) \/ FailedFrame(ws, r)
      PROVE  TypeOK'
  BY <1>5 DEF ChangeSetFrame, MalformedFrame, FailedFrame, Receive, Resolve
<1>6. ASSUME NEW ws \in Sockets, CaptureCheck(ws) \/ CaptureRead(ws) PROVE TypeOK'
  BY <1>6 DEF CaptureCheck, CaptureRead, HandlerAt, GoTo, Return, Resolve
<1>7. ASSUME NEW ws \in Sockets, CaptureWrite(ws) PROVE TypeOK'
  <2>1. changeSets' \subseteq Runs
    BY <1>7 DEF CaptureWrite, HandlerAt
  <2>2. QED
    BY <1>7, <2>1 DEF CaptureWrite, HandlerAt, GoTo, Return, Resolve, Transition
<1>8. ASSUME NEW ws \in Sockets, CaptureComplete(ws) PROVE TypeOK'
  BY <1>8 DEF CaptureComplete, HandlerAt, Return, Resolve
<1>9. ASSUME NEW ws \in Sockets, FailedRead(ws) \/ FailedWrite(ws) \/ FailedTell(ws)
      PROVE  TypeOK'
  BY <1>9 DEF FailedRead, FailedWrite, FailedTell, HandlerAt, GoTo, Return, Resolve, Transition
<1>10. ASSUME NEW c \in Cancellers, NEW r \in Runs, CancelRead(c, r) PROVE TypeOK'
  BY <1>10 DEF CancelRead
<1>11. ASSUME NEW c \in Cancellers, CancelStep(c) PROVE TypeOK'
  BY <1>11 DEF CancelStep, CancelSend, CancelRefused, CancelWrite, CancelEnd, Transition
<1>12. ASSUME NEW ws \in Sockets, ReconcileStep(ws) PROVE TypeOK'
  BY <1>12 DEF ReconcileStep, ReconcileRead, ReconcileWrite, Transition
<1>13. ASSUME Restart PROVE TypeOK'
  BY <1>13 DEF Restart, Transition
<1>14. CASE UNCHANGED vars
  BY <1>14 DEF vars
<1>15. QED
  BY <1>1, <1>2, <1>3, <1>4, <1>5, <1>6, <1>7, <1>8, <1>9, <1>10, <1>11, <1>12,
     <1>13, <1>14 DEF Next, HandlerStep

\* Type correctness of the coding-run control plane.
THEOREM TypeCorrect == Spec => []TypeOK
BY TypeInit, TypeStep, PTL DEF Spec

-----------------------------------------------------------------------------

Capturing == {"check", "read", "write"}

\* A pending future belongs to a run sent on the socket that is still active.
WaiterInv ==
  /\ \A r \in sent : status[r] # "none" /\ owner[r] \in Sockets
  /\ \A r \in waiting : r \in sent /\ answer[r] = "none" /\ owner[r] = conn
  /\ \A r \in Runs : r \notin sent => status[r] # "succeeded" /\ r \notin changeSets

\* Where a handler is tells what it has made durable.  A capture whose future
\* is still pending runs on the active socket; a pending future of a run that
\* already has its change set is the one that handler is about to settle.
HandlerInv ==
  /\ \A ws \in Sockets : hpc[ws] # "idle" => hrun[ws] \in sent
  /\ \A ws \in Sockets : hpc[ws] = "complete" => status[hrun[ws]] = "succeeded"
  /\ \A ws \in Sockets : hpc[ws] = "tell" => status[hrun[ws]] = "failed"
  /\ \A ws \in Sockets : hpc[ws] \in Capturing => hrun[ws] \notin changeSets
  /\ \A ws \in Sockets : hpc[ws] \in Capturing /\ hrun[ws] \in waiting => ws = conn
  /\ \A r \in waiting : status[r] = "succeeded" \/ r \in changeSets =>
       hpc[conn] = "complete" /\ hrun[conn] = r
  /\ \A w, v \in Sockets :
       hpc[w] \in Capturing /\ hpc[v] \in Capturing /\ hrun[w] = hrun[v] => w = v

CancelInv ==
  /\ \A c \in Cancellers : cpc[c] = "write" => crun[c] \in asked
  /\ CancelFailClosed

RunInv == WaiterInv /\ HandlerInv /\ CancelInv /\ SuccessIsDurable /\ FailureIsDurable

LEMMA RunInit == Init => RunInv
BY DEF Init, RunInv, WaiterInv, HandlerInv, CancelInv, CancelFailClosed,
       SuccessIsDurable, FailureIsDurable, Capturing

\* Every step leaves the status of a run alone, starts it, or takes it from
\* running to a terminal status: the compare-and-set of the repository.
LEMMA StatusStep ==
  ASSUME TypeOK, [Next]_vars
  PROVE  \A r \in Runs : \/ status'[r] = status[r]
                         \/ DispatchCommit(r) /\ status[r] = "none" /\ status'[r] = "running"
                         \/ status[r] = "running" /\ status'[r] \in Terminal
<1> USE DEF TypeOK, dbVars, Terminal, Rejected
<1>1. ASSUME NEW R, NEW new \in Terminal, Transition(R, new)
      PROVE  \A r \in Runs : \/ status'[r] = status[r]
                             \/ status[r] = "running" /\ status'[r] \in Terminal
  BY <1>1 DEF Transition
<1>2. ASSUME NEW r \in Runs, DispatchCommit(r)
      PROVE  \A q \in Runs : \/ status'[q] = status[q]
                             \/ DispatchCommit(q) /\ status[q] = "none" /\ status'[q] = "running"
  BY <1>2 DEF DispatchCommit
<1>3. CASE Next
  <2>1. CASE status' = status
    BY <2>1
  <2>2. CASE \E r \in Runs : DispatchCommit(r)
    BY <1>2, <2>2
  <2>3. CASE \E R \in SUBSET Runs, new \in Terminal : Transition(R, new)
    BY <1>1, <2>3
  <2>4. \/ status' = status
        \/ \E r \in Runs : DispatchCommit(r)
        \/ \E ws \in Sockets : CaptureWrite(ws) \/ FailedWrite(ws) \/ ReconcileWrite(ws)
        \/ \E c \in Cancellers : CancelWrite(c)
        \/ Restart
    BY <1>3 DEF Next, HandlerStep, CancelStep, ReconcileStep, Connect, Disconnect, Close,
         DispatchSend, DispatchRefused, DispatchTimeout, ChangeSetFrame, MalformedFrame,
         FailedFrame, CaptureCheck, CaptureRead, CaptureComplete, FailedRead, FailedTell,
         CancelRead, CancelSend, CancelRefused, ReconcileRead
  <2>5. ASSUME NEW ws \in Sockets, CaptureWrite(ws) \/ FailedWrite(ws) \/ ReconcileWrite(ws)
        PROVE  \E R \in SUBSET Runs, new \in Terminal : Transition(R, new)
    <3>1. ASSUME CaptureWrite(ws) PROVE {hrun[ws]} \in SUBSET Runs /\ Transition({hrun[ws]}, "succeeded")
      BY <3>1 DEF CaptureWrite, HandlerAt
    <3>2. ASSUME FailedWrite(ws) PROVE {hrun[ws]} \in SUBSET Runs /\ Transition({hrun[ws]}, "failed")
      BY <3>2 DEF FailedWrite, HandlerAt
    <3>3. ASSUME ReconcileWrite(ws) PROVE rruns[ws] \in SUBSET Runs /\ Transition(rruns[ws], "interrupted")
      BY <3>3 DEF ReconcileWrite
    <3>4. QED
      BY <2>5, <3>1, <3>2, <3>3
  <2>6. ASSUME NEW c \in Cancellers, CancelWrite(c)
        PROVE  \E R \in SUBSET Runs, new \in Terminal : Transition(R, new)
    <3>1. {crun[c]} \in SUBSET Runs /\ Transition({crun[c]}, "cancelled")
      BY <2>6 DEF CancelWrite
    <3>2. QED
      BY <3>1
  <2>7. ASSUME Restart PROVE \E R \in SUBSET Runs, new \in Terminal : Transition(R, new)
    <3>1. Transition(Runs, "interrupted")
      BY <2>7 DEF Restart
    <3>2. QED
      BY <3>1
  <2>8. QED
    BY <2>1, <2>2, <2>3, <2>4, <2>5, <2>6, <2>7
<1>4. CASE UNCHANGED vars
  BY <1>4 DEF vars
<1>5. QED
  BY <1>3, <1>4

\* A terminal status is never left.
THEOREM TerminalStatusFinal == Spec => TerminalIsFinal
<1>1. TypeOK /\ [Next]_vars => [\A r \in Runs : status[r] \in Terminal => status'[r] = status[r]]_vars
  BY StatusStep DEF Terminal, Rejected
<1>2. QED
  BY <1>1, TypeCorrect, PTL DEF Spec, TerminalIsFinal

-----------------------------------------------------------------------------

LEMMA RunStep == TypeOK /\ RunInv /\ [Next]_vars => RunInv'
<1> SUFFICES ASSUME TypeOK, RunInv, [Next]_vars PROVE RunInv'
  OBVIOUS
<1> USE DEF TypeOK, RunInv, WaiterInv, HandlerInv, CancelInv, CancelFailClosed,
        SuccessIsDurable, FailureIsDurable, Capturing, Rejected,
        dbVars, connVars, futVars, hVars, cVars, rVars
<1>1. ASSUME NEW ws \in Sockets, Connect(ws) PROVE RunInv'
  BY <1>1 DEF Connect, FailWaiters, Resolve
<1>2. ASSUME NEW ws \in Sockets, Disconnect(ws) PROVE RunInv'
  BY <1>2 DEF Disconnect, FailWaiters, Resolve
<1>3. ASSUME Close PROVE RunInv'
  BY <1>3 DEF Close, FailWaiters, Resolve
<1>4. ASSUME NEW r \in Runs, DispatchCommit(r) PROVE RunInv'
  BY <1>4 DEF DispatchCommit
<1>5. ASSUME NEW r \in Runs, DispatchSend(r) PROVE RunInv'
  BY <1>5 DEF DispatchSend
<1>6. ASSUME NEW r \in Runs, DispatchRefused(r) \/ DispatchTimeout(r) PROVE RunInv'
  BY <1>6 DEF DispatchRefused, DispatchTimeout, Resolve
<1>7. ASSUME NEW ws \in Sockets, NEW r \in Runs,
             ChangeSetFrame(ws, r) \/ MalformedFrame(ws, r) \/ FailedFrame(ws, r)
      PROVE  RunInv'
  BY <1>7 DEF ChangeSetFrame, MalformedFrame, FailedFrame, Receive, Resolve
<1>8. ASSUME NEW ws \in Sockets, CaptureCheck(ws) PROVE RunInv'
  BY <1>8 DEF CaptureCheck, HandlerAt, GoTo, Return
<1>9. ASSUME NEW ws \in Sockets, CaptureRead(ws) PROVE RunInv'
  <2>1. CASE status[hrun[ws]] = "running"
    BY <1>9, <2>1 DEF CaptureRead, HandlerAt, GoTo
  <2>2. CASE status[hrun[ws]] # "running"
    <3>1. hrun[ws] \in waiting => status[hrun[ws]] \in Rejected
      BY <1>9, <2>2 DEF CaptureRead, HandlerAt, Statuses, Terminal
    <3>2. QED
      BY <1>9, <2>2, <3>1 DEF CaptureRead, HandlerAt, Return, Resolve
  <2>3. QED
    BY <2>1, <2>2
<1>10. ASSUME NEW ws \in Sockets, CaptureWrite(ws) PROVE RunInv'
  <2> DEFINE r == hrun[ws]
  <2>1. r \in Runs /\ r \in sent /\ r \notin changeSets /\ hpc[ws] = "write"
    BY <1>10 DEF CaptureWrite, HandlerAt
  <2>2. /\ changeSets' = changeSets \union {r}
        /\ UNCHANGED <<conn, sent, owner, cpc, crun, asked, acked>>
    BY <1>10 DEF CaptureWrite, GoTo, Return
  <2>3. CASE status[r] = "running"
    <3>1. /\ status' = [q \in Runs |-> IF q = r THEN "succeeded" ELSE status[q]]
          /\ hpc' = [hpc EXCEPT ![ws] = "complete"]
          /\ UNCHANGED <<hrun, answer, waiting>>
      BY <1>10, <2>3 DEF CaptureWrite, GoTo, Transition
    <3>2. WaiterInv' /\ HandlerInv'
      BY <2>1, <2>2, <2>3, <3>1
    <3>3. CancelInv' /\ SuccessIsDurable' /\ FailureIsDurable'
      BY <2>1, <2>2, <2>3, <3>1
    <3>4. QED
      BY <3>2, <3>3
  <2>4. CASE status[r] # "running"
    <3>1. /\ status' = status
          /\ hpc' = [hpc EXCEPT ![ws] = "idle"]
          /\ hrun' = [hrun EXCEPT ![ws] = NoRun]
          /\ waiting' = waiting \ {r}
          /\ answer' = [q \in Runs |-> IF q \in {r} \intersect waiting THEN "failure" ELSE answer[q]]
      BY <1>10, <2>4 DEF CaptureWrite, Return, Transition, Resolve
    <3>2. r \in waiting => status[r] \in Rejected
      BY <2>1, <2>4 DEF Statuses, Terminal
    <3>3. WaiterInv' /\ CancelInv' /\ SuccessIsDurable' /\ FailureIsDurable'
      BY <2>1, <2>2, <3>1, <3>2
    <3>4. HandlerInv'
      BY <2>1, <2>2, <3>1
    <3>5. QED
      BY <3>3, <3>4
  <2>5. QED
    BY <2>3, <2>4
<1>11. ASSUME NEW ws \in Sockets, CaptureComplete(ws) PROVE RunInv'
  BY <1>11 DEF CaptureComplete, HandlerAt, Return, Resolve
<1>12. ASSUME NEW ws \in Sockets, FailedRead(ws) \/ FailedWrite(ws) \/ FailedTell(ws)
       PROVE  RunInv'
  BY <1>12 DEF FailedRead, FailedWrite, FailedTell, HandlerAt, GoTo, Return, Resolve, Transition
<1>13. ASSUME NEW c \in Cancellers, NEW r \in Runs, CancelRead(c, r) PROVE RunInv'
  BY <1>13 DEF CancelRead
<1>14. ASSUME NEW c \in Cancellers, CancelStep(c) PROVE RunInv'
  BY <1>14 DEF CancelStep, CancelSend, CancelRefused, CancelWrite, CancelEnd, Transition
<1>15. ASSUME NEW ws \in Sockets, ReconcileStep(ws) PROVE RunInv'
  BY <1>15 DEF ReconcileStep, ReconcileRead, ReconcileWrite, Transition
<1>16. ASSUME Restart PROVE RunInv'
  BY <1>16 DEF Restart, Transition
<1>17. CASE UNCHANGED vars
  BY <1>17 DEF vars
<1>18. QED
  BY <1>1, <1>2, <1>3, <1>4, <1>5, <1>6, <1>7, <1>8, <1>9, <1>10, <1>11, <1>12,
     <1>13, <1>14, <1>15, <1>16, <1>17 DEF Next, HandlerStep

LEMMA RunInvariant == Spec => []RunInv
<1>1. QED
  BY TypeCorrect, RunInit, RunStep, PTL DEF Spec

\* A change set reported to the requester is durable, and so is the success of
\* a run the detail endpoint links to its change set.
THEOREM SuccessDurable == Spec => []SuccessIsDurable
<1>1. RunInv => SuccessIsDurable
  BY DEF RunInv
<1>2. QED
  BY <1>1, RunInvariant, PTL

\* A failure reported to the requester is one the record agrees with.
THEOREM FailureDurable == Spec => []FailureIsDurable
<1>1. RunInv => FailureIsDurable
  BY DEF RunInv
<1>2. QED
  BY <1>1, RunInvariant, PTL

\* Cancellation is fail-closed: "cancelled" is recorded and reported only after
\* the agent was asked to stop.
THEOREM CancelClosed == Spec => []CancelFailClosed
<1>1. RunInv => CancelFailClosed
  BY DEF RunInv, CancelInv
<1>2. QED
  BY <1>1, RunInvariant, PTL

\* No two handlers capture one run, and a capture never meets the row of an
\* earlier one.
THEOREM CapturesExclusive == Spec => []CaptureExclusive
<1>1. RunInv => CaptureExclusive
  BY DEF RunInv, HandlerInv, CaptureExclusive, Capturing
<1>2. QED
  BY <1>1, RunInvariant, PTL

-----------------------------------------------------------------------------

\* A requester is told an outcome once.
LEMMA AnswerStep ==
  ASSUME TypeOK, RunInv, [Next]_vars
  PROVE  \A r \in Runs : answer'[r] # answer[r] => answer[r] = "none"
<1> USE DEF TypeOK, RunInv, WaiterInv, futVars
<1>1. ASSUME NEW R, NEW how, Resolve(R, how)
      PROVE  \A r \in Runs : answer'[r] # answer[r] => answer[r] = "none"
  BY <1>1 DEF Resolve
<1>2. ASSUME NEW r \in Runs, DispatchRefused(r)
      PROVE  \A q \in Runs : answer'[q] # answer[q] => answer[q] = "none"
  BY <1>2 DEF DispatchRefused
<1>3. ASSUME Restart PROVE \A r \in Runs : answer'[r] # answer[r] => answer[r] = "none"
  BY <1>3 DEF Restart
<1>4. \/ answer' = answer
      \/ \E R, how : Resolve(R, how)
      \/ \E r \in Runs : DispatchRefused(r)
      \/ Restart
  <2>1. ASSUME NEW ws \in Sockets, Connect(ws) \/ Disconnect(ws)
        PROVE  answer' = answer \/ \E R, how : Resolve(R, how)
    BY <2>1 DEF Connect, Disconnect, FailWaiters
  <2>2. ASSUME NEW ws \in Sockets, HandlerStep(ws)
        PROVE  answer' = answer \/ \E R, how : Resolve(R, how)
    BY <2>2 DEF HandlerStep, CaptureCheck, CaptureRead, CaptureWrite, CaptureComplete,
       FailedRead, FailedWrite, FailedTell
  <2>3. ASSUME NEW ws \in Sockets, NEW r \in Runs, MalformedFrame(ws, r)
        PROVE  \E R, how : Resolve(R, how)
    BY <2>3 DEF MalformedFrame
  <2>4. Close => \E R, how : Resolve(R, how)
    BY DEF Close, FailWaiters
  <2>5. ASSUME NEW r \in Runs, DispatchTimeout(r) PROVE \E R, how : Resolve(R, how)
    BY <2>5 DEF DispatchTimeout
  <2>6. QED
    BY <2>1, <2>2, <2>3, <2>4, <2>5 DEF Next, vars, DispatchCommit, DispatchSend,
       ChangeSetFrame, FailedFrame, CancelRead, CancelStep, CancelSend, CancelRefused,
       CancelWrite, ReconcileStep, ReconcileRead, ReconcileWrite
<1>5. QED
  BY <1>1, <1>2, <1>3, <1>4

\* The detailed endpoints implement the ledger: every step is a Start, or
\* settles and tells consistently (a stutter does both vacuously).
THEOREM RunsImplementLedger == Spec => ImplementsLedger
<1>1. Init => Ledger!LedgerInit
  BY DEF Init, Ledger!LedgerInit
<1>2. ASSUME TypeOK, RunInv, RunInv', [Next]_vars
      PROVE  [Ledger!LedgerNext]_(Ledger!ledgerVars)
  <2>1. CASE \E r \in Runs : DispatchCommit(r)
    BY <2>1 DEF DispatchCommit, futVars, Ledger!LedgerNext, Ledger!Start
  <2>2. CASE UNCHANGED vars
    BY <2>2 DEF vars, dbVars, futVars, Ledger!ledgerVars
  <2>3. CASE Next /\ ~ \E r \in Runs : DispatchCommit(r)
    <3>1. TypeOK'
      BY <1>2, TypeStep
    <3>2. Ledger!Settle
      BY <1>2, <2>3, <3>1, StatusStep
         DEF Ledger!Settle, Ledger!Terminal, Ledger!Rejected, Terminal, Rejected, TypeOK
    <3>3. \A r \in Runs : answer'[r] # answer[r] => answer[r] = "none"
      BY <1>2, AnswerStep
    <3>4. Ledger!Tell
      BY <1>2, <3>1, <3>3 DEF Ledger!Tell, Ledger!Consistent, Ledger!Rejected, Rejected, TypeOK,
         RunInv, SuccessIsDurable, FailureIsDurable
    <3>5. QED
      BY <3>2, <3>4 DEF Ledger!LedgerNext
  <2>4. QED
    BY <1>2, <2>1, <2>2, <2>3
<1>3. QED
  BY <1>1, <1>2, TypeCorrect, RunInvariant, PTL DEF Spec, ImplementsLedger, Ledger!LedgerSpec

-----------------------------------------------------------------------------
\* The events of a run.

Planned == Event("plan", "none")
Commanded == Event("command", "none")
Ended(st) == Event("terminal", st)

\* What the events are, for each status a row may have.
LEMMA EventsAre ==
  ASSUME NEW st \in Statuses
  PROVE  /\ st = "none" => DerivedEvents(st) = {}
         /\ st = "running" => DerivedEvents(st) = {Planned, Commanded}
         /\ st \in Terminal => DerivedEvents(st) = {Planned, Commanded, Ended(st)}
BY DEF DerivedEvents, Event, At, Planned, Commanded, Ended, Statuses, Terminal, Rejected

LEMMA EventsDiffer ==
  ASSUME NEW st
  PROVE  /\ Planned # Commanded /\ Planned # Ended(st) /\ Commanded # Ended(st)
         /\ Planned.id # Commanded.id /\ Planned.id # Ended(st).id /\ Commanded.id # Ended(st).id
         /\ Planned.at = 0 /\ Commanded.at = 0 /\ Ended(st).at = 1
BY DEF Event, At, Planned, Commanded, Ended

\* The three orders.
LEMMA EventOrders ==
  ASSUME NEW st
  PROVE  LET p == Planned c == Commanded e == Ended(st) IN
         /\ KeyBefore(c, p) /\ KeyBefore(p, e) /\ KeyBefore(c, e)
         /\ ~KeyBefore(p, c) /\ ~KeyBefore(e, p) /\ ~KeyBefore(e, c)
         /\ ~KeyBefore(p, p) /\ ~KeyBefore(c, c) /\ ~KeyBefore(e, e)
         /\ LifeBefore(p, c) /\ LifeBefore(c, e) /\ LifeBefore(p, e)
         /\ ~LifeBefore(c, p) /\ ~LifeBefore(e, c) /\ ~LifeBefore(e, p)
         /\ ~LifeBefore(p, p) /\ ~LifeBefore(c, c) /\ ~LifeBefore(e, e)
         /\ AuditBefore(c, p) /\ AuditBefore(p, e) /\ AuditBefore(c, e)
         /\ ~AuditBefore(p, c) /\ ~AuditBefore(e, p) /\ ~AuditBefore(e, c)
         /\ ~AuditBefore(p, p) /\ ~AuditBefore(c, c) /\ ~AuditBefore(e, e)
BY DEF KeyBefore, LifeBefore, AuditBefore, IdRank, Priority, Event, At, Planned, Commanded, Ended

LEMMA TwoOrThree ==
  ASSUME NEW a, NEW b, NEW c, a # b, a # c, b # c
  PROVE  Cardinality({}) = 0 /\ Cardinality({a, b}) = 2 /\ Cardinality({a, b, c}) = 3
<1>1. IsFiniteSet({}) /\ Cardinality({}) = 0
  BY FS_EmptySet
<1>2. IsFiniteSet({a, b}) /\ Cardinality({a, b}) = 2
  <2>1. IsFiniteSet({a}) /\ Cardinality({a}) = 1
    BY FS_Singleton
  <2>2. {a, b} = {a} \union {b}
    OBVIOUS
  <2> QED BY <2>1, <2>2, FS_AddElement
<1>3. {a, b, c} = {a, b} \union {c}
  OBVIOUS
<1>4. Cardinality({a, b, c}) = 3
  BY <1>2, <1>3, FS_AddElement
<1> QED BY <1>1, <1>2, <1>4

\* The activity lists the events in the order of the run's life ...
LEMMA ActivitiesAre ==
  ASSUME NEW st
  PROVE  /\ Activity({}) = <<>>
         /\ Activity({Planned, Commanded}) = <<Planned, Commanded>>
         /\ Activity({Planned, Commanded, Ended(st)}) = <<Planned, Commanded, Ended(st)>>
<1> DEFINE p == Planned
           c == Commanded
           e == Ended(st)
<1>0. p # c /\ p # e /\ c # e
  BY EventsDiffer
<1>2. /\ LifeBefore(p, c) /\ LifeBefore(c, e) /\ LifeBefore(p, e)
      /\ ~LifeBefore(c, p) /\ ~LifeBefore(e, c) /\ ~LifeBefore(e, p)
      /\ ~LifeBefore(p, p) /\ ~LifeBefore(c, c) /\ ~LifeBefore(e, e)
  BY EventOrders
<1> HIDE DEF p, c, e
<1>1. Cardinality({}) = 0 /\ Cardinality({p, c}) = 2 /\ Cardinality({p, c, e}) = 3
  BY <1>0, TwoOrThree
<1>3. Activity({}) = <<>>
  BY <1>1 DEF Activity, Sorted
<1>4. Activity({p, c}) = <<p, c>>
  <2>1. <<p, c>> \in [1..2 -> {p, c}]
    OBVIOUS
  <2>2. \A i, j \in DOMAIN <<p, c>> : i < j => LifeBefore(<<p, c>>[i], <<p, c>>[j])
    BY <1>2
  <2>3. ASSUME NEW f \in [1..2 -> {p, c}], \A i, j \in DOMAIN f : i < j => LifeBefore(f[i], f[j])
        PROVE  f = <<p, c>>
    BY <1>2, <2>3
  <2> QED BY <1>1, <2>1, <2>2, <2>3 DEF Activity, Sorted
<1>5. Activity({p, c, e}) = <<p, c, e>>
  <2>1. <<p, c, e>> \in [1..3 -> {p, c, e}]
    OBVIOUS
  <2>2. \A i, j \in DOMAIN <<p, c, e>> : i < j => LifeBefore(<<p, c, e>>[i], <<p, c, e>>[j])
    BY <1>2
  <2>3. ASSUME NEW f \in [1..3 -> {p, c, e}], \A i, j \in DOMAIN f : i < j => LifeBefore(f[i], f[j])
        PROVE  f = <<p, c, e>>
    <3>1. LifeBefore(f[1], f[2]) /\ LifeBefore(f[2], f[3]) /\ LifeBefore(f[1], f[3])
      BY <2>3
    <3>2. f[1] = p /\ f[2] = c /\ f[3] = e
      BY <1>2, <3>1
    <3> QED BY <3>2
  <2> QED BY <1>1, <2>1, <2>2, <2>3 DEF Activity, Sorted
<1> QED BY <1>3, <1>4, <1>5 DEF p, c, e

\* ... and the export by their ids, where their times are one.
LEMMA ExportsAre ==
  ASSUME NEW st
  PROVE  /\ Exported({Planned, Commanded}) = <<Commanded, Planned>>
         /\ Exported({Planned, Commanded, Ended(st)}) = <<Commanded, Planned, Ended(st)>>
<1> DEFINE p == Planned
           c == Commanded
           e == Ended(st)
<1>0. p # c /\ p # e /\ c # e
  BY EventsDiffer
<1>2. /\ AuditBefore(c, p) /\ AuditBefore(p, e) /\ AuditBefore(c, e)
      /\ ~AuditBefore(p, c) /\ ~AuditBefore(e, p) /\ ~AuditBefore(e, c)
      /\ ~AuditBefore(p, p) /\ ~AuditBefore(c, c) /\ ~AuditBefore(e, e)
  BY EventOrders
<1> HIDE DEF p, c, e
<1>1. Cardinality({p, c}) = 2 /\ Cardinality({p, c, e}) = 3
  BY <1>0, TwoOrThree
<1>3. Exported({p, c}) = <<c, p>>
  <2>1. <<c, p>> \in [1..2 -> {p, c}]
    OBVIOUS
  <2>2. \A i, j \in DOMAIN <<c, p>> : i < j => AuditBefore(<<c, p>>[i], <<c, p>>[j])
    BY <1>2
  <2>3. ASSUME NEW f \in [1..2 -> {p, c}], \A i, j \in DOMAIN f : i < j => AuditBefore(f[i], f[j])
        PROVE  f = <<c, p>>
    BY <1>2, <2>3
  <2> QED BY <1>1, <2>1, <2>2, <2>3 DEF Exported, Sorted
<1>4. Exported({p, c, e}) = <<c, p, e>>
  <2>1. <<c, p, e>> \in [1..3 -> {p, c, e}]
    OBVIOUS
  <2>2. \A i, j \in DOMAIN <<c, p, e>> : i < j => AuditBefore(<<c, p, e>>[i], <<c, p, e>>[j])
    BY <1>2
  <2>3. ASSUME NEW f \in [1..3 -> {p, c, e}], \A i, j \in DOMAIN f : i < j => AuditBefore(f[i], f[j])
        PROVE  f = <<c, p, e>>
    <3>1. AuditBefore(f[1], f[2]) /\ AuditBefore(f[2], f[3]) /\ AuditBefore(f[1], f[3])
      BY <2>3
    <3>2. f[1] = c /\ f[2] = p /\ f[3] = e
      BY <1>2, <3>1
    <3> QED BY <3>2
  <2> QED BY <1>1, <2>1, <2>2, <2>3 DEF Exported, Sorted
<1> QED BY <1>3, <1>4 DEF p, c, e

\* What ResumeTellsAll says of a run whose events grow.
Told(before, after) ==
  LET came == after \ before
      shown == Activity(after)
      audit == Exported(after)
  IN  /\ before \subseteq after
      /\ EventsAfter(Cursor(before), after) = came
      /\ Unseen(before, after) = came
      /\ In(ReadAfter(shown, Len(Activity(before)) - 1)) = came
      /\ In(audit) = In(shown)
      /\ \A i, j \in DOMAIN shown : shown[i].at < shown[j].at =>
           \E k, l \in DOMAIN audit : k < l /\ audit[k] = shown[i] /\ audit[l] = shown[j]

\* A dispatch: the plan and the command, to one who has seen nothing.
LEMMA StartTells == Told(DerivedEvents("none"), DerivedEvents("running"))
<1> DEFINE p == Planned
           c == Commanded
<1>1. DerivedEvents("none") = {} /\ DerivedEvents("running") = {p, c}
  BY EventsAre DEF Statuses, Terminal, Rejected
<1>2. Activity({}) = <<>> /\ Activity({p, c}) = <<p, c>> /\ Exported({p, c}) = <<c, p>>
  BY ActivitiesAre, ExportsAre
<1>3. p # c /\ p.at = c.at /\ p.at \in Nat
  BY EventsDiffer
<1> HIDE DEF p, c
<1>4. EventsAfter(Cursor({}), {p, c}) = {p, c}
  BY DEF EventsAfter, Cursor
<1>5. Unseen({}, {p, c}) = {p, c}
  BY DEF Unseen
<1>6. ReadAfter(<<p, c>>, Len(<<>>) - 1) = <<p, c>>
  <2>1. Len(<<>>) - 1 + 2 = 1 /\ Len(<<p, c>>) = 2
    OBVIOUS
  <2>2. <<p, c>> \in Seq({p, c})
    OBVIOUS
  <2>3. SubSeq(<<p, c>>, 1, Len(<<p, c>>)) = <<p, c>>
    BY <2>2, SubSeqFull
  <2> QED BY <2>1, <2>3 DEF ReadAfter
<1>7. In(<<p, c>>) = {p, c} /\ In(<<c, p>>) = {p, c}
  BY DEF In
<1>8. \A i, j \in DOMAIN <<p, c>> : ~(<<p, c>>[i].at < <<p, c>>[j].at)
  BY <1>3
<1>9. Told({}, {p, c})
  BY <1>2, <1>4, <1>5, <1>6, <1>7, <1>8 DEF Told
<1> QED BY <1>1, <1>9

\* An end: the last event, to one who has seen the first two.
LEMMA EndTells ==
  ASSUME NEW st \in Terminal
  PROVE  Told(DerivedEvents("running"), DerivedEvents(st))
<1> DEFINE p == Planned
           c == Commanded
           e == Ended(st)
<1>1. DerivedEvents("running") = {p, c} /\ DerivedEvents(st) = {p, c, e}
  BY EventsAre DEF Statuses, Terminal, Rejected
<1>2. /\ Activity({p, c}) = <<p, c>> /\ Activity({p, c, e}) = <<p, c, e>>
      /\ Exported({p, c, e}) = <<c, p, e>>
  BY ActivitiesAre, ExportsAre
<1>3. /\ p # c /\ p # e /\ c # e /\ p.id # c.id /\ p.id # e.id /\ c.id # e.id
      /\ p.at = 0 /\ c.at = 0 /\ e.at = 1
  BY EventsDiffer
<1>4. /\ KeyBefore(c, p) /\ KeyBefore(p, e) /\ KeyBefore(c, e)
      /\ ~KeyBefore(p, c) /\ ~KeyBefore(e, p) /\ ~KeyBefore(e, c)
      /\ ~KeyBefore(p, p) /\ ~KeyBefore(c, c) /\ ~KeyBefore(e, e)
  BY EventOrders
<1> HIDE DEF p, c, e
<1>5. {p, c, e} \ {p, c} = {e}
  BY <1>3
<1>6. EventsAfter(Cursor({p, c}), {p, c, e}) = {e}
  <2>1. Cursor({p, c}) = {p}
    BY <1>3, <1>4 DEF Cursor
  <2> QED BY <1>4, <2>1 DEF EventsAfter
<1>7. Unseen({p, c}, {p, c, e}) = {e}
  BY <1>3 DEF Unseen
<1>8. In(ReadAfter(<<p, c, e>>, Len(<<p, c>>) - 1)) = {e}
  <2> DEFINE q == SubSeq(<<p, c, e>>, 3, 3)
  <2>1. Len(<<p, c>>) - 1 + 2 = 3 /\ Len(<<p, c, e>>) = 3
    OBVIOUS
  <2>2. /\ q \in Seq({p, c, e})
        /\ Len(q) = IF 3 <= 3 THEN 3 - 3 + 1 ELSE 0
        /\ \A i \in 1..3 - 3 + 1 : q[i] = <<p, c, e>>[3 + i - 1]
    BY SubSeqProperties
  <2> HIDE DEF q
  <2>3. DOMAIN q = {1} /\ q[1] = e
    BY <2>2
  <2>4. In(q) = {e}
    BY <2>3 DEF In
  <2>5. ReadAfter(<<p, c, e>>, Len(<<p, c>>) - 1) = q
    BY <2>1 DEF ReadAfter, q
  <2> QED BY <2>4, <2>5
<1>9. In(<<p, c, e>>) = {p, c, e} /\ In(<<c, p, e>>) = {p, c, e}
  BY DEF In
<1>10. \A i, j \in DOMAIN <<p, c, e>> : <<p, c, e>>[i].at < <<p, c, e>>[j].at =>
         \E k, l \in DOMAIN <<c, p, e>> :
           k < l /\ <<c, p, e>>[k] = <<p, c, e>>[i] /\ <<c, p, e>>[l] = <<p, c, e>>[j]
  <2> SUFFICES ASSUME NEW i \in 1..3, NEW j \in 1..3, <<p, c, e>>[i].at < <<p, c, e>>[j].at
               PROVE  \E k, l \in 1..3 :
                        k < l /\ <<c, p, e>>[k] = <<p, c, e>>[i] /\ <<c, p, e>>[l] = <<p, c, e>>[j]
    OBVIOUS
  <2>1. j = 3 /\ (i = 1 \/ i = 2)
    BY <1>3
  <2>2. CASE i = 1
    BY <2>1, <2>2
  <2>3. CASE i = 2
    BY <2>1, <2>3
  <2> QED BY <2>1, <2>2, <2>3
<1>11. {p, c} \subseteq {p, c, e}
  OBVIOUS
<1>12. Told({p, c}, {p, c, e})
  <2> DEFINE old == {p, c}
             new == {p, c, e}
  <2>1. old \subseteq new /\ EventsAfter(Cursor(old), new) = new \ old /\ Unseen(old, new) = new \ old
    BY <1>5, <1>6, <1>7, <1>11
  <2>2. In(ReadAfter(Activity(new), Len(Activity(old)) - 1)) = new \ old
    BY <1>2, <1>5, <1>8
  <2>3. In(Exported(new)) = In(Activity(new))
    BY <1>2, <1>9
  <2>4. \A i, j \in DOMAIN Activity(new) : Activity(new)[i].at < Activity(new)[j].at =>
          \E k, l \in DOMAIN Exported(new) :
            k < l /\ Exported(new)[k] = Activity(new)[i] /\ Exported(new)[l] = Activity(new)[j]
    BY <1>2, <1>10
  <2> HIDE DEF old, new
  <2>5. Told(old, new)
    BY <2>1, <2>2, <2>3, <2>4 DEF Told
  <2> QED BY <2>5 DEF old, new
<1> QED BY <1>1, <1>12

\* A reader of a run's events misses none and sees none twice, for any runs and
\* whatever ends them.
THEOREM ResumingTellsAll == Spec => ResumeTellsAll
<1>1. ASSUME TypeOK, [Next]_vars
      PROVE  \A r \in {q \in Runs : status'[q] # status[q]} : Told(DerivedEvents(status[r]), DerivedEvents(status'[r]))
  <2> SUFFICES ASSUME NEW r \in Runs, status'[r] # status[r] PROVE Told(DerivedEvents(status[r]), DerivedEvents(status'[r]))
    OBVIOUS
  <2>1. \/ status[r] = "none" /\ status'[r] = "running"
        \/ status[r] = "running" /\ status'[r] \in Terminal
    BY <1>1, StatusStep
  <2> QED BY <2>1, StartTells, EndTells
<1>2. ASSUME TypeOK, [Next]_vars
      PROVE  [\A r \in {q \in Runs : status'[q] # status[q]} : Told(DerivedEvents(status[r]), DerivedEvents(status'[r]))]_vars
  BY <1>1, <1>2
<1> QED BY <1>2, TypeCorrect, PTL DEF Spec, ResumeTellsAll, Told

-----------------------------------------------------------------------------

\* PART II.  The allocator and the governed decisions.

USE WorkspaceAssumption, RequestAssumption

-----------------------------------------------------------------------------
\* The allocator.

\* Ownership, files and Git agree.  A branch outlives its worktree only while
\* its removal is pending or was cut short; a marker of the file that memory
\* has lost belongs to a workspace memory does not own either.
WsInv ==
  /\ allocated \union removed \union branch \subseteq names
  /\ disk.allocated \union disk.retained \union disk.removed \subseteq names
  /\ disk.allocated \intersect disk.removed = {}
  /\ tree \subseteq branch
  /\ \A w \in branch : w \notin tree => w \in cut \union pending
  /\ pending \subseteq allocated
  /\ pending \intersect tree = {}
  /\ retained \union disk.retained \subseteq tree
  /\ allocated \intersect disk.retained \subseteq retained
  /\ op.step \in {"branch", "forget"} => op.action = "discard"
  /\ op.step = "branch" => op.w \in pending
  /\ op.step = "forget" => op.w \in pending /\ op.w \notin branch
  /\ TombstonesGone

LEMMA WsTypeInit == WsInit => WsTypeOK /\ WsInv
BY DEF WsInit, WsTypeOK, WsInv, NoOp, Ops, Files, TombstonesGone

LEMMA WsTypeStep == WsTypeOK /\ WsInv /\ [WsNext]_wsVars => WsTypeOK'
<1> SUFFICES ASSUME WsTypeOK, WsInv, [WsNext]_wsVars PROVE WsTypeOK'
  OBVIOUS
<1> USE DEF WsTypeOK, Files, Ops, Actions, memVars, gitVars
<1>1. ASSUME NEW w \in Workspaces, Allocate(w) \/ AllocateOrphan(w) PROVE WsTypeOK'
  BY <1>1 DEF Allocate, AllocateOrphan, AddWorktree, Persist
<1>2. ASSUME NEW w \in Workspaces, NEW a \in Actions, Begin(w, a) PROVE WsTypeOK'
  BY <1>2 DEF Begin
<1>3. ASSUME ApplyUnowned \/ ApplyRetain \/ ApplyForget PROVE WsTypeOK'
  <2>1. CASE ApplyUnowned
    BY <2>1 DEF ApplyUnowned, Reply
  <2>2. CASE ApplyRetain
    <3>1. retained' \subseteq Workspaces /\ UNCHANGED <<allocated, removed, pending, tree, branch, names, cut, forsaken>>
      BY <2>2 DEF ApplyRetain
    <3>2. op' \in Ops
      BY <2>2 DEF ApplyRetain, Reply
    <3>3. disk' \in Files
      BY <2>2, <3>1 DEF ApplyRetain, Persist
    <3>4. QED
      BY <3>1, <3>2, <3>3
  <2>3. CASE ApplyForget
    <3>1. op.w \in Workspaces
      BY <2>3 DEF ApplyForget, WsInv
    <3>2. /\ retained' \subseteq Workspaces /\ allocated' \subseteq Workspaces
          /\ removed' \subseteq Workspaces /\ pending' \subseteq Workspaces
          /\ UNCHANGED <<tree, branch, names, cut, forsaken>>
      BY <2>3, <3>1 DEF ApplyForget
    <3>3. op' \in Ops
      BY <2>3 DEF ApplyForget, Reply
    <3>4. disk' \in Files
      BY <2>3, <3>2 DEF ApplyForget, Persist
    <3>5. QED
      BY <3>2, <3>3, <3>4
  <2>4. QED
    BY <1>3, <2>1, <2>2, <2>3
<1>4. ASSUME ApplyRemoveTree \/ ApplyRemoveBranch \/ ApplyFails \/ ApplyCut PROVE WsTypeOK'
  <2>1. CASE ApplyRemoveTree \/ ApplyRemoveBranch
    BY <2>1 DEF ApplyRemoveTree, ApplyRemoveBranch, Reply
  <2>2. CASE ApplyFails \/ ApplyCut
    BY <2>2 DEF ApplyFails, ApplyCut, Reply
  <2> QED BY <1>4, <2>1, <2>2
<1>5. ASSUME End PROVE WsTypeOK'
  BY <1>5 DEF End, NoOp
<1>6. ASSUME NEW readable \in BOOLEAN, AgentRestart(readable) PROVE WsTypeOK'
  BY <1>6 DEF AgentRestart, Load, NoOp
<1>7. CASE UNCHANGED wsVars
  BY <1>7 DEF wsVars
<1>8. QED
  BY <1>1, <1>2, <1>3, <1>4, <1>5, <1>6, <1>7 DEF WsNext, Apply

LEMMA WsInvStep == WsTypeOK /\ WsInv /\ [WsNext]_wsVars => WsInv'
<1> SUFFICES ASSUME WsTypeOK, WsInv, [WsNext]_wsVars PROVE WsInv'
  OBVIOUS
<1> USE DEF WsTypeOK, WsInv, TombstonesGone, Files, Ops, memVars, gitVars
<1>1. ASSUME NEW w \in Workspaces, Allocate(w) PROVE WsInv'
  BY <1>1 DEF Allocate, AddWorktree, Persist
<1>2. ASSUME NEW w \in Workspaces, AllocateOrphan(w) PROVE WsInv'
  BY <1>2 DEF AllocateOrphan, AddWorktree
<1>3. ASSUME NEW w \in Workspaces, NEW a \in Actions, Begin(w, a) PROVE WsInv'
  BY <1>3 DEF Begin
<1>4. ASSUME ApplyUnowned \/ ApplyFails PROVE WsInv'
  BY <1>4 DEF ApplyUnowned, ApplyFails, Reply
<1>5. ASSUME ApplyRetain PROVE WsInv'
  BY <1>5 DEF ApplyRetain, Reply, Persist
<1>6. ASSUME ApplyRemoveTree PROVE WsInv'
  BY <1>6 DEF ApplyRemoveTree
<1>7. ASSUME ApplyRemoveBranch PROVE WsInv'
  BY <1>7 DEF ApplyRemoveBranch
<1>8. ASSUME ApplyForget PROVE WsInv'
  BY <1>8 DEF ApplyForget, Reply, Persist
<1>9. ASSUME ApplyCut PROVE WsInv'
  BY <1>9 DEF ApplyCut, Reply
<1>10. ASSUME End PROVE WsInv'
  BY <1>10 DEF End, NoOp
<1>11. ASSUME NEW readable \in BOOLEAN, AgentRestart(readable) PROVE WsInv'
  <2>1. PICK owned \in SUBSET (disk.allocated \intersect tree \intersect branch) :
          /\ allocated' = IF readable THEN owned ELSE {}
          /\ retained' = IF readable THEN disk.retained ELSE {}
          /\ removed' = IF readable THEN disk.removed \union (disk.allocated \ owned) ELSE {}
          /\ forsaken' = IF readable THEN forsaken \union ((disk.allocated \ owned) \intersect tree)
                                     ELSE forsaken
    BY <1>11 DEF AgentRestart, Load
  <2>2. /\ pending' = {} /\ op' = NoOp /\ cut' = cut \union (pending \ removed)
        /\ UNCHANGED <<disk, tree, branch, names>>
    BY <1>11 DEF AgentRestart
  <2>3. \A w \in branch : w \notin tree => w \in cut'
    BY <2>2
  <2>4. TombstonesGone'
    BY <2>1, <2>2, <2>3
  <2>5. QED
    BY <2>1, <2>2, <2>3, <2>4 DEF NoOp
<1>12. CASE UNCHANGED wsVars
  BY <1>12 DEF wsVars
<1>13. QED
  BY <1>1, <1>2, <1>3, <1>4, <1>5, <1>6, <1>7, <1>8, <1>9, <1>10, <1>11, <1>12
     DEF WsNext, Apply

LEMMA WsInvariant == WsSpec => [](WsTypeOK /\ WsInv)
BY WsTypeInit, WsTypeStep, WsInvStep, PTL DEF WsSpec

\* A retained workspace is never removed.
LEMMA RetainedKeptHolds == WsInv => RetainedKept
BY DEF WsInv, RetainedKept

-----------------------------------------------------------------------------
\* The decisions.

\* Frames in flight and the action being applied belong to requests that have
\* been made, so their change set and action are known.
FlightInv ==
  /\ \A i \in 1..Len(toAgent) : qpc[toAgent[i]] # "idle"
  /\ \A i \in 1..Len(toServer) : qpc[toServer[i].q] # "idle"
  /\ taken \in Requests => qpc[taken] # "idle"

LEMMA CsTypeInit == CsInit => CsTypeOK /\ FlightInv
<1> SUFFICES ASSUME CsInit PROVE CsTypeOK /\ FlightInv
  OBVIOUS
<1>1. WsTypeOK
  BY WsTypeInit DEF CsInit
<1>2. toAgent \in Seq(Requests) /\ toServer \in Seq(Answers)
  BY DEF CsInit
<1>3. csStatus \in [Workspaces -> CsStatuses] /\ qpc \in [Requests -> {"idle", "done"} \union InFlight]
  BY DEF CsInit, CsStatuses
<1>4. FlightInv
  BY DEF CsInit, FlightInv
<1>5. QED
  BY <1>1, <1>2, <1>3, <1>4 DEF CsInit, CsTypeOK

\* The control plane drives the allocator only through its own operations.
LEMMA WsRefined == CsTypeOK /\ FlightInv /\ [CsNext]_changeVars => [WsNext]_wsVars
<1> SUFFICES ASSUME CsTypeOK, FlightInv, [CsNext]_changeVars PROVE [WsNext]_wsVars
  OBVIOUS
<1>1. ASSUME NEW w \in Workspaces, AgentAllocate(w) PROVE WsNext
  BY <1>1 DEF AgentAllocate, WsNext
<1>2. ASSUME AgentTake PROVE WsNext
  <2>1. Head(toAgent) = toAgent[1] /\ 1 \in 1..Len(toAgent) /\ toAgent[1] \in Requests
    BY <1>2 DEF AgentTake, CsTypeOK
  <2>2. qset[toAgent[1]] \in Workspaces /\ qact[toAgent[1]] \in Actions
    BY <2>1 DEF FlightInv, CsTypeOK
  <2>3. QED
    BY <1>2, <2>1, <2>2 DEF AgentTake, WsNext
<1>3. ASSUME AgentApply \/ AgentAnswer PROVE WsNext
  BY <1>3 DEF AgentApply, AgentAnswer, WsNext
<1>4. ASSUME NEW readable \in BOOLEAN, AgentDies(readable) PROVE WsNext
  BY <1>4 DEF AgentDies, WsNext
<1>5. QED
  BY <1>1, <1>2, <1>3, <1>4 DEF CsNext, changeVars, Capture, Review, RequestPr, Decide, SendAction,
     GiveUp, Deliver, Complete, Rollback, ServerRestart, LinkUp, LinkDown

LEMMA SeqTail ==
  ASSUME NEW S, NEW s \in Seq(S), s # <<>>
  PROVE  /\ Head(s) \in S
         /\ Tail(s) \in Seq(S)
         /\ \A i \in 1..Len(Tail(s)) : \E j \in 1..Len(s) : Tail(s)[i] = s[j]
OBVIOUS

LEMMA SeqAppend ==
  ASSUME NEW S, NEW s \in Seq(S), NEW e \in S
  PROVE  /\ Append(s, e) \in Seq(S)
         /\ \A i \in 1..Len(Append(s, e)) :
              Append(s, e)[i] = e \/ \E j \in 1..Len(s) : Append(s, e)[i] = s[j]
OBVIOUS

LEMMA CsTypeStep == CsTypeOK /\ FlightInv /\ WsTypeOK' /\ [CsNext]_changeVars => CsTypeOK' /\ FlightInv'
<1> SUFFICES ASSUME CsTypeOK, FlightInv, WsTypeOK', [CsNext]_changeVars PROVE CsTypeOK' /\ FlightInv'
  OBVIOUS
<1> USE DEF CsTypeOK, FlightInv, CsStatuses, InFlight, Actions, reqVars, linkVars, csVars
<1>1. ASSUME NEW w \in Workspaces, Capture(w) \/ Review(w) \/ RequestPr(w)
      PROVE  CsTypeOK' /\ FlightInv'
  BY <1>1 DEF Capture, Review, RequestPr, CsTransition
<1>2. ASSUME NEW q \in Requests, NEW w \in Workspaces, NEW a \in Actions, Decide(q, w, a)
      PROVE  CsTypeOK' /\ FlightInv'
  BY <1>2 DEF Decide, CsTransition, Requested
<1>3. ASSUME NEW q \in Requests, SendAction(q) PROVE CsTypeOK' /\ FlightInv'
  BY <1>3 DEF SendAction
<1>4. ASSUME NEW q \in Requests, GiveUp(q) PROVE CsTypeOK' /\ FlightInv'
  BY <1>4 DEF GiveUp
<1>5. ASSUME Deliver PROVE CsTypeOK' /\ FlightInv'
  <2> DEFINE f == Head(toServer)
  <2>1. toServer # <<>> /\ toServer' = Tail(toServer)
    BY <1>5 DEF Deliver
  <2>2. /\ f \in Answers
        /\ toServer' \in Seq(Answers)
        /\ \A i \in 1..Len(toServer') : \E j \in 1..Len(toServer) : toServer'[i] = toServer[j]
    BY <2>1, SeqTail
  <2>3. f.q \in Requests /\ f.ok \in BOOLEAN
    BY <2>2 DEF Answers
  <2>4. /\ qpc' \in [Requests -> {"idle", "done"} \union InFlight]
        /\ \A q \in Requests : qpc[q] = "idle" <=> qpc'[q] = "idle"
    BY <1>5, <2>3 DEF Deliver
  <2>5. \A i \in 1..Len(toServer) : toServer[i].q \in Requests
    <3>1. \A i \in 1..Len(toServer) : toServer[i] \in Answers
      OBVIOUS
    <3>2. QED
      BY <3>1 DEF Answers
  <2>6. \A i \in 1..Len(toServer') : toServer'[i].q \in Requests /\ qpc[toServer'[i].q] # "idle"
    BY <2>2, <2>5
  <2>7. UNCHANGED <<csStatus, qset, qact, link, toAgent, taken, abandoned>>
    BY <1>5 DEF Deliver
  <2>8. QED
    BY <2>2, <2>4, <2>6, <2>7
<1>6. ASSUME NEW q \in Requests, Complete(q) \/ Rollback(q) PROVE CsTypeOK' /\ FlightInv'
  <2>1. /\ qpc' = [qpc EXCEPT ![q] = "done"] /\ qpc[q] # "idle"
        /\ UNCHANGED <<qset, qact, link, toAgent, toServer, taken, abandoned>>
    BY <1>6 DEF Complete, Rollback
  <2>2. csStatus' \in [Workspaces -> CsStatuses]
    BY <1>6 DEF Complete, Rollback, CsTransition, Final
  <2>3. QED
    BY <2>1, <2>2
<1>7. ASSUME LinkUp PROVE CsTypeOK' /\ FlightInv'
  BY <1>7 DEF LinkUp
<1>8. ASSUME NEW f \in [Requests -> {"idle", "done"} \union InFlight],
             \A q \in Requests : f[q] = "idle" <=> qpc[q] = "idle",
             DropLink, qpc' = f, abandoned' \subseteq Workspaces,
             UNCHANGED <<csStatus, qset, qact>>
      PROVE  CsTypeOK' /\ FlightInv'
  <2>1. toAgent' = <<>> /\ toServer' = <<>> /\ taken' = NoRequest /\ link' = FALSE
    BY <1>8 DEF DropLink
  <2>2. toAgent' \in Seq(Requests) /\ toServer' \in Seq(Answers) /\ Len(toAgent') = 0 /\ Len(toServer') = 0
    BY <2>1
  <2>3. qpc' \in [Requests -> {"idle", "done"} \union InFlight]
    BY <1>8
  <2>4. \A q \in Requests : qpc'[q] # "idle" => qset'[q] \in Workspaces /\ qact'[q] \in Actions
    BY <1>8
  <2>5. csStatus' \in [Workspaces -> CsStatuses] /\ qset' \in [Requests -> Workspaces \union {NoWorkspace}]
        /\ qact' \in [Requests -> Actions \union {"none"}]
    BY <1>8
  <2>6. CsTypeOK'
    BY <1>8, <2>1, <2>2, <2>3, <2>4, <2>5
  <2>7. FlightInv'
    BY <2>1, <2>2
  <2>8. QED
    BY <2>6, <2>7
<1>9. ASSUME ServerRestart PROVE CsTypeOK' /\ FlightInv'
  <2> DEFINE g == [q \in Requests |-> IF qpc[q] \in InFlight THEN "done" ELSE qpc[q]]
  <2>1. g \in [Requests -> {"idle", "done"} \union InFlight] /\ \A q \in Requests : g[q] = "idle" <=> qpc[q] = "idle"
    OBVIOUS
  <2>2. DropLink /\ qpc' = g /\ UNCHANGED <<csStatus, qset, qact>>
    BY <1>9 DEF ServerRestart
  <2>3. abandoned' \subseteq Workspaces
    BY <1>9 DEF ServerRestart
  <2> HIDE DEF g
  <2>4. QED
    BY <1>8, <2>1, <2>2, <2>3
<1>10. ASSUME LinkDown \/ \E readable \in BOOLEAN : AgentDies(readable) PROVE CsTypeOK' /\ FlightInv'
  <2>1. FailWaiting \in [Requests -> {"idle", "done"} \union InFlight] /\ \A q \in Requests : FailWaiting[q] = "idle" <=> qpc[q] = "idle"
    BY DEF FailWaiting
  <2>2. DropLink /\ qpc' = FailWaiting /\ UNCHANGED <<csStatus, qset, qact, abandoned>>
    BY <1>10 DEF LinkDown, AgentDies
  <2>3. abandoned' \subseteq Workspaces
    BY <2>2
  <2>4. QED
    BY <1>8, <2>1, <2>2, <2>3
<1>11. ASSUME AgentApply \/ \E w \in Workspaces : AgentAllocate(w) PROVE CsTypeOK' /\ FlightInv'
  BY <1>11 DEF AgentAllocate, AgentApply
<1>12. ASSUME AgentTake PROVE CsTypeOK' /\ FlightInv'
  <2>1. /\ Head(toAgent) = toAgent[1] /\ 1 \in 1..Len(toAgent)
        /\ toAgent' \in Seq(Requests) /\ taken' = toAgent[1]
        /\ UNCHANGED <<csStatus, qpc, qset, qact, link, toServer, abandoned>>
    BY <1>12 DEF AgentTake
  <2>2. \A i \in 1..Len(toAgent') : \E j \in 1..Len(toAgent) : toAgent'[i] = toAgent[j]
    BY <1>12 DEF AgentTake
  <2>3. \A i \in 1..Len(toAgent') : qpc[toAgent'[i]] # "idle"
    BY <2>2
  <2>4. taken' \in Requests /\ qpc'[taken'] # "idle"
    BY <2>1
  <2>5. QED
    BY <2>1, <2>3, <2>4
<1>13. ASSUME AgentAnswer PROVE CsTypeOK' /\ FlightInv'
  <2>1. UNCHANGED <<csStatus, qpc, qset, qact, link, toAgent, abandoned>> /\ taken' = NoRequest
    BY <1>13 DEF AgentAnswer
  <2>2. CASE taken = NoRequest
    BY <1>13, <2>1, <2>2 DEF AgentAnswer
  <2>3. CASE taken # NoRequest
    <3> DEFINE f == [q |-> taken, ok |-> op.ok]
    <3>1. f \in Answers /\ f.q = taken
      BY <2>3 DEF WsTypeOK, Ops, Answers
    <3>2. toServer' = Append(toServer, f)
      BY <1>13, <2>3 DEF AgentAnswer
    <3> HIDE DEF f
    <3>3. /\ toServer' \in Seq(Answers)
          /\ \A i \in 1..Len(toServer') :
               toServer'[i] = f \/ \E j \in 1..Len(toServer) : toServer'[i] = toServer[j]
      BY <3>1, <3>2, SeqAppend
    <3>4. \A i \in 1..Len(toServer') : qpc[toServer'[i].q] # "idle"
      BY <2>3, <3>1, <3>3
    <3>5. QED
      BY <2>1, <3>3, <3>4
  <2>4. QED
    BY <2>2, <2>3
<1>14. CASE UNCHANGED changeVars
  BY <1>14 DEF changeVars
<1>15. QED
  BY <1>1, <1>2, <1>3, <1>4, <1>5, <1>6, <1>7, <1>9, <1>10, <1>11, <1>14, <1>12, <1>13 DEF CsNext

CsInv == CsTypeOK /\ FlightInv /\ WsInv

LEMMA CsInvariant == CsSpec => []CsInv
<1>1. CsInit => CsInv
  BY CsTypeInit, WsTypeInit DEF CsInit, CsInv
<1>2. CsInv /\ [CsNext]_changeVars => CsInv'
  BY WsRefined, WsTypeStep, WsInvStep, CsTypeStep DEF CsInv, CsTypeOK
<1>3. QED
  BY <1>1, <1>2, PTL DEF CsSpec

\* Type correctness of the change-set lifecycle.
THEOREM CsTypeCorrect == CsSpec => []CsTypeOK
<1>1. CsInv => CsTypeOK
  BY DEF CsInv
<1>2. QED
  BY <1>1, CsInvariant, PTL

\* Whatever the control plane, the network and the agent process do, the
\* allocator takes only the steps of its own specification.
THEOREM AllocatorImplemented == CsSpec => WsSpec
<1>1. CsInit => WsInit
  BY DEF CsInit
<1>2. CsInv /\ [CsNext]_changeVars => [WsNext]_wsVars
  BY WsRefined DEF CsInv
<1>3. QED
  BY <1>1, <1>2, CsInvariant, PTL DEF CsSpec, WsSpec

\* A retained workspace keeps its worktree and branch.
THEOREM RetainedNeverRemoved == CsSpec => []RetainedKept
<1>1. CsInv => RetainedKept
  BY RetainedKeptHolds DEF CsInv
<1>2. QED
  BY <1>1, CsInvariant, PTL

\* A tombstoned workspace is not owned, and is gone but for what a load gave up.
THEOREM TombstonesFinal == CsSpec => []TombstonesGone
<1>1. CsInv => TombstonesGone
  BY DEF CsInv, WsInv
<1>2. QED
  BY <1>1, CsInvariant, PTL

-----------------------------------------------------------------------------
\* The claim a decision holds.

LEMMA OwnedStep == CsTypeOK /\ CsTypeOK' /\ FlightInv /\ DecisionOwned /\ [CsNext]_changeVars => DecisionOwned'
<1> SUFFICES ASSUME CsTypeOK, CsTypeOK', FlightInv, DecisionOwned, [CsNext]_changeVars PROVE DecisionOwned'
  OBVIOUS
<1> USE DEF DecisionOwned, CsTypeOK, InFlight, Requested, Actions, reqVars, linkVars, csVars
<1>1. ASSUME NEW w \in Workspaces, Capture(w) \/ Review(w) \/ RequestPr(w) PROVE DecisionOwned'
  BY <1>1 DEF Capture, Review, RequestPr, CsTransition
<1>2. ASSUME NEW q \in Requests, NEW w \in Workspaces, NEW a \in Actions, Decide(q, w, a)
      PROVE  DecisionOwned'
  <2>1. \A p \in Requests : qpc[p] \in InFlight => qset[p] # w
    BY <1>2 DEF Decide
  <2>2. QED
    BY <1>2, <2>1 DEF Decide, CsTransition
<1>3. ASSUME NEW f, f = qpc' /\ (\A q \in Requests : f[q] \in InFlight => qpc[q] \in InFlight),
             UNCHANGED <<csStatus, qset, qact>>
      PROVE  DecisionOwned'
  BY <1>3
<1>4. ASSUME NEW q \in Requests, SendAction(q) \/ GiveUp(q) PROVE DecisionOwned'
  BY <1>3, <1>4 DEF SendAction, GiveUp
<1>5. ASSUME Deliver PROVE DecisionOwned'
  <2>1. Head(toServer).q \in Requests
    <3>1. Head(toServer) \in Answers
      BY <1>5, SeqTail DEF Deliver
    <3>2. QED
      BY <3>1 DEF Answers
  <2>2. QED
    BY <1>3, <1>5, <2>1 DEF Deliver
<1>6. ASSUME NEW q \in Requests, Complete(q) \/ Rollback(q) PROVE DecisionOwned'
  <2>1. \A p \in Requests \ {q} : qpc[p] \in InFlight => qset[p] # qset[q]
    BY <1>6 DEF Complete, Rollback
  <2>2. QED
    BY <1>6, <2>1 DEF Complete, Rollback, CsTransition
<1>7. ASSUME ServerRestart \/ LinkDown \/ \E readable \in BOOLEAN : AgentDies(readable)
      PROVE  DecisionOwned'
  BY <1>3, <1>7 DEF ServerRestart, LinkDown, AgentDies, FailWaiting
<1>8. CASE UNCHANGED <<csStatus, reqVars>>
  BY <1>8
<1>9. QED
  BY <1>1, <1>2, <1>4, <1>5, <1>6, <1>7, <1>8 DEF CsNext, changeVars, LinkUp, AgentAllocate, AgentTake,
     AgentApply, AgentAnswer

\* At most one decision is in flight per change set, and its claim holds until
\* it is settled.
THEOREM OneDecision == CsSpec => []DecisionOwned
<1>1. CsInit => DecisionOwned
  BY DEF CsInit, DecisionOwned, InFlight
<1>2. CsInv /\ CsInv' /\ DecisionOwned /\ [CsNext]_changeVars => DecisionOwned'
  BY OwnedStep DEF CsInv
<1>3. QED
  BY <1>1, <1>2, CsInvariant, PTL DEF CsSpec

-----------------------------------------------------------------------------
\* The record and the host.

\* Removed, or given up by a load with its worktree still there.
Gone(w) ==
  /\ w \in names
  /\ w \in tree => w \in forsaken
  /\ w \in branch => w \in cut \union forsaken

\* A discard of w is on its way to the agent or being applied.
Discarding(w) ==
  \/ \E i \in 1..Len(toAgent) : qset[toAgent[i]] = w /\ qact[toAgent[i]] = "discard"
  \/ op.w = w /\ op.action = "discard" /\ op.step \in {"start", "branch", "forget"}

\* The outcome of w has reached the server: its final status is committed or is
\* about to be.
Outcome(w, a) ==
  \/ csStatus[w] = Final(a)
  \/ \E q \in Requests : qpc[q] = "complete" /\ qset[q] = w /\ qact[q] = a

\* A positive answer is true of the host when it is given and while it travels;
\* once it has arrived a retained workspace is safe although the agent may lose
\* the marker, because no discard of it is left anywhere.
OutcomeInv ==
  /\ taken \in Requests => op.w = qset[taken] /\ op.action = qact[taken]
  /\ op.step = "done" /\ op.ok =>
       IF op.action = "retain" THEN op.w \in retained ELSE Gone(op.w)
  /\ \A i \in 1..Len(toServer) : toServer[i].ok =>
       IF qact[toServer[i].q] = "retain" THEN qset[toServer[i].q] \in retained
                                         ELSE Gone(qset[toServer[i].q])
  /\ \A w \in Workspaces : Outcome(w, "retain") => w \in tree /\ (w \in retained \/ ~Discarding(w))
  /\ \A w \in Workspaces : Outcome(w, "discard") => Gone(w)

LEMMA GoneStep ==
  ASSUME WsTypeOK, WsInv, [WsNext]_wsVars, NEW w, Gone(w)
  PROVE  Gone(w)'
<1> USE DEF Gone, memVars, gitVars
<1>1. ASSUME NEW v \in Workspaces, Allocate(v) \/ AllocateOrphan(v) PROVE Gone(w)'
  BY <1>1 DEF Allocate, AllocateOrphan, AddWorktree
<1>2. ASSUME Apply PROVE Gone(w)'
  BY <1>2 DEF Apply, ApplyUnowned, ApplyRetain, ApplyRemoveTree, ApplyRemoveBranch, ApplyForget,
     ApplyFails, ApplyCut
<1>3. ASSUME NEW readable \in BOOLEAN, AgentRestart(readable) PROVE Gone(w)'
  <2>1. forsaken \subseteq forsaken' /\ cut \subseteq cut' /\ UNCHANGED <<tree, branch, names>>
    BY <1>3 DEF AgentRestart, Load
  <2>2. QED
    BY <2>1
<1>4. QED
  BY <1>1, <1>2, <1>3 DEF WsNext, Begin, End, wsVars

\* Applying an action keeps every marker, and removes no worktree but that of
\* an unmarked workspace being discarded.
LEMMA ApplyKeeps ==
  ASSUME WsTypeOK, WsInv, Apply
  PROVE  /\ retained \subseteq retained'
         /\ \A w \in tree : w \notin tree' =>
              w \notin retained /\ op.w = w /\ op.action = "discard" /\ op.step = "start"
         /\ op'.w = op.w /\ op'.action = op.action
         /\ op.step \in {"start", "branch", "forget"}
<1> USE DEF WsTypeOK, WsInv, Ops, memVars, gitVars, Reply
<1>1. retained \subseteq retained'
  BY DEF Apply, ApplyUnowned, ApplyRetain, ApplyRemoveTree, ApplyRemoveBranch, ApplyForget,
     ApplyFails, ApplyCut
<1>2. \A w \in tree : w \notin tree' =>
        w \notin retained /\ op.w = w /\ op.action = "discard" /\ op.step = "start"
  BY DEF Apply, ApplyUnowned, ApplyRetain, ApplyRemoveTree, ApplyRemoveBranch, ApplyForget,
     ApplyFails, ApplyCut
<1>3. op'.w = op.w /\ op'.action = op.action /\ op.step \in {"start", "branch", "forget"}
  BY DEF Apply, ApplyUnowned, ApplyRetain, ApplyRemoveTree, ApplyRemoveBranch, ApplyForget,
     ApplyFails, ApplyCut
<1>4. QED
  BY <1>1, <1>2, <1>3

\* An action that succeeds has done what it says.
LEMMA ApplyTrue ==
  ASSUME WsTypeOK, WsInv, Apply, op'.step = "done", op'.ok
  PROVE  IF op.action = "retain" THEN op.w \in retained' ELSE Gone(op.w)'
<1> USE DEF WsTypeOK, WsInv, Ops, memVars, gitVars, Reply
<1>1. CASE ApplyRetain
  BY <1>1 DEF ApplyRetain
<1>2. CASE ApplyUnowned
  BY <1>2 DEF ApplyUnowned, TombstonesGone, Gone
<1>3. CASE ApplyForget
  BY <1>3 DEF ApplyForget, Gone
<1>4. QED
  BY <1>1, <1>2, <1>3 DEF Apply, ApplyRemoveTree, ApplyRemoveBranch, ApplyFails, ApplyCut

LEMMA OutcomeStep ==
  CsInv /\ CsInv' /\ DecisionOwned /\ OutcomeInv /\ [CsNext]_changeVars => OutcomeInv'
<1> SUFFICES ASSUME CsInv, CsInv', DecisionOwned, OutcomeInv, [CsNext]_changeVars PROVE OutcomeInv'
  OBVIOUS
<1>1. CsTypeOK /\ CsTypeOK' /\ WsTypeOK /\ FlightInv /\ WsInv /\ WsInv'
  BY DEF CsInv, CsTypeOK
<1>2. \A w : Gone(w) => Gone(w)'
  BY <1>1, GoneStep, WsRefined
<1> USE <1>1
<1>3. /\ \A i \in 1..Len(toAgent) : toAgent[i] \in Requests /\ qpc[toAgent[i]] # "idle"
      /\ \A i \in 1..Len(toServer) : toServer[i].q \in Requests /\ qpc[toServer[i].q] # "idle"
  <2>1. \A i \in 1..Len(toServer) : toServer[i] \in Answers
    BY DEF CsTypeOK
  <2>2. \A i \in 1..Len(toServer) : toServer[i].q \in Requests
    BY <2>1 DEF Answers
  <2>3. QED
    BY <2>2 DEF CsTypeOK, FlightInv
\* Steps of the server that move no frame and touch no workspace.
<1>4. ASSUME UNCHANGED <<wsVars, linkVars>>,
             \A q \in Requests : qpc[q] # "idle" => qset'[q] = qset[q] /\ qact'[q] = qact[q],
             \A w \in Workspaces, a \in Actions : Outcome(w, a)' => Outcome(w, a)
      PROVE  OutcomeInv'
  <2>1. \A w \in Workspaces : Discarding(w)' => Discarding(w)
    BY <1>4, <1>3 DEF Discarding, wsVars, linkVars
  <2>2. taken \in Requests => qset'[taken] = qset[taken] /\ qact'[taken] = qact[taken]
    BY <1>4 DEF FlightInv
  <2>3. \A i \in 1..Len(toServer) : /\ qset'[toServer[i].q] = qset[toServer[i].q]
                                    /\ qact'[toServer[i].q] = qact[toServer[i].q]
    BY <1>4, <1>3
  <2>4. QED
    BY <1>2, <1>4, <2>1, <2>2, <2>3 DEF OutcomeInv, wsVars, memVars, gitVars, linkVars, Actions
<1>5. ASSUME NEW w \in Workspaces, Capture(w) \/ Review(w) \/ RequestPr(w) PROVE OutcomeInv'
  BY <1>4, <1>5 DEF Capture, Review, RequestPr, CsTransition, Outcome, Final, reqVars, CsTypeOK
<1>6. ASSUME NEW q \in Requests, NEW w \in Workspaces, NEW a \in Actions, Decide(q, w, a)
      PROVE  OutcomeInv'
  BY <1>4, <1>6 DEF Decide, CsTransition, Requested, Outcome, Final, CsTypeOK
<1>7. ASSUME NEW q \in Requests, GiveUp(q) PROVE OutcomeInv'
  BY <1>4, <1>7 DEF GiveUp, Outcome, Final, CsTypeOK
<1>8. ASSUME NEW q \in Requests, Complete(q) \/ Rollback(q) PROVE OutcomeInv'
  BY <1>4, <1>8 DEF Complete, Rollback, CsTransition, Outcome, Final, Requested, CsTypeOK, Actions
<1>9. ASSUME NEW q \in Requests, SendAction(q) PROVE OutcomeInv'
  <2>1. /\ toAgent' = Append(toAgent, q)
        /\ UNCHANGED <<wsVars, csStatus, qset, qact, toServer, taken>>
        /\ qpc' = [qpc EXCEPT ![q] = "wait"]
    BY <1>9 DEF SendAction
  <2>2. \A w \in Workspaces, a \in Actions : Outcome(w, a)' => Outcome(w, a)
    BY <2>1 DEF Outcome, Final, CsTypeOK
  <2>3. \A w \in Workspaces : Outcome(w, "retain") => qset[q] # w \/ qact[q] # "discard"
    BY <1>9 DEF SendAction, DecisionOwned, InFlight, Outcome, Final, Requested
  <2>4. \A w : Discarding(w)' => Discarding(w) \/ (qset[q] = w /\ qact[q] = "discard")
    BY <2>1 DEF Discarding, CsTypeOK, wsVars
  <2>5. QED
    BY <1>2, <2>1, <2>2, <2>3, <2>4 DEF OutcomeInv, wsVars, memVars, gitVars, Actions
<1>10. ASSUME Deliver PROVE OutcomeInv'
  <2> DEFINE f == Head(toServer)
  <2>1. /\ toServer # <<>> /\ toServer' = Tail(toServer) /\ f = toServer[1] /\ 1 \in 1..Len(toServer)
        /\ UNCHANGED <<wsVars, csStatus, qset, qact, toAgent, taken>>
    BY <1>10 DEF Deliver, CsTypeOK
  <2>2. \A i \in 1..Len(toServer') : \E j \in 1..Len(toServer) : toServer'[i] = toServer[j]
    BY <2>1, SeqTail DEF CsTypeOK
  <2>3. f.q \in Requests
    BY <1>3, <2>1
  <2>4. \A q \in Requests : qpc'[q] = "complete" => qpc[q] = "complete" \/ (q = f.q /\ f.ok)
    BY <1>10, <2>3 DEF Deliver, CsTypeOK
  <2>5. \A w \in Workspaces, a \in Actions :
          Outcome(w, a)' => Outcome(w, a) \/ (qset[f.q] = w /\ qact[f.q] = a /\ f.ok)
    BY <2>1, <2>4 DEF Outcome
  <2>6. \A w : Discarding(w)' <=> Discarding(w)
    BY <2>1 DEF Discarding, wsVars
  <2>7. f.ok => IF qact[f.q] = "retain" THEN qset[f.q] \in retained ELSE Gone(qset[f.q])
    BY <2>1 DEF OutcomeInv
  <2>8. \A i \in 1..Len(toServer') : toServer'[i].ok =>
          IF qact[toServer'[i].q] = "retain" THEN qset[toServer'[i].q] \in retained
                                             ELSE Gone(qset[toServer'[i].q])
    BY <2>2 DEF OutcomeInv
  <2> HIDE DEF f
  <2>9. retained \subseteq tree
    BY DEF WsInv
  <2>10. QED
    BY <1>2, <2>1, <2>5, <2>6, <2>7, <2>8, <2>9 DEF OutcomeInv, wsVars, memVars, gitVars, Actions
<1>11. ASSUME ServerRestart \/ LinkDown PROVE OutcomeInv'
  <2>1. /\ toAgent' = <<>> /\ toServer' = <<>> /\ taken' = NoRequest
        /\ UNCHANGED <<wsVars, csStatus, qset, qact>>
    BY <1>11 DEF ServerRestart, LinkDown, DropLink
  <2>2. \A q \in Requests : qpc'[q] = "complete" => qpc[q] = "complete"
    BY <1>11 DEF ServerRestart, LinkDown, FailWaiting, InFlight, CsTypeOK
  <2>3. \A w \in Workspaces, a \in Actions : Outcome(w, a)' => Outcome(w, a)
    BY <2>1, <2>2 DEF Outcome
  <2>4. \A w : Discarding(w)' => Discarding(w)
    BY <2>1 DEF Discarding, wsVars
  <2>5. QED
    BY <1>2, <2>1, <2>3, <2>4 DEF OutcomeInv, wsVars, memVars, gitVars, Actions
<1>12. ASSUME LinkUp PROVE OutcomeInv'
  <2>1. UNCHANGED <<wsVars, csStatus, qpc, qset, qact, toAgent, toServer, taken>>
    BY <1>12 DEF LinkUp, reqVars
  <2>2. QED
    BY <1>2, <2>1 DEF OutcomeInv, Outcome, Discarding, wsVars, memVars, gitVars
<1>13. ASSUME NEW w \in Workspaces, AgentAllocate(w) PROVE OutcomeInv'
  <2>1. /\ tree \subseteq tree' /\ UNCHANGED <<retained, op, csVars>>
    BY <1>13 DEF AgentAllocate, Allocate, AllocateOrphan, AddWorktree, memVars
  <2>2. QED
    BY <1>2, <2>1 DEF OutcomeInv, Outcome, Discarding, csVars, reqVars, linkVars
<1>14. ASSUME AgentTake PROVE OutcomeInv'
  <2> DEFINE q == Head(toAgent)
  <2>1. /\ toAgent # <<>> /\ toAgent' = Tail(toAgent) /\ q = toAgent[1] /\ 1 \in 1..Len(toAgent)
        /\ taken' = q /\ op' = [w |-> qset[q], action |-> qact[q], step |-> "start", ok |-> FALSE]
        /\ UNCHANGED <<memVars, gitVars, names, cut, forsaken, csStatus, qpc, qset, qact, toServer>>
    BY <1>14 DEF AgentTake, Begin, CsTypeOK, reqVars
  <2>2. \A i \in 1..Len(toAgent') : \E j \in 1..Len(toAgent) : toAgent'[i] = toAgent[j]
    BY <2>1, SeqTail DEF CsTypeOK
  <2>3. \A w : Discarding(w)' => Discarding(w)
    BY <2>1, <2>2 DEF Discarding
  <2> HIDE DEF q
  <2>4. \A w, a : Outcome(w, a)' => Outcome(w, a)
    BY <2>1 DEF Outcome
  <2>5. QED
    BY <1>2, <2>1, <2>3, <2>4 DEF OutcomeInv, memVars, gitVars
<1>15. ASSUME AgentApply PROVE OutcomeInv'
  <2>1. Apply /\ UNCHANGED <<csStatus, qpc, qset, qact, toAgent, toServer, taken>>
    BY <1>15 DEF AgentApply, csVars, reqVars, linkVars
  <2>2. \A w : Discarding(w)' => Discarding(w)
    BY <2>1, ApplyKeeps DEF Discarding
  <2>3. \A w, a : Outcome(w, a)' => Outcome(w, a)
    BY <2>1 DEF Outcome
  <2>4. \A w \in Workspaces : Outcome(w, "retain") =>
          w \in tree' /\ (w \in retained' \/ ~Discarding(w)')
    BY <2>1, <2>2, ApplyKeeps DEF OutcomeInv, Discarding
  <2>5. (op.step = "done" /\ op.ok =>
          IF op.action = "retain" THEN op.w \in retained ELSE Gone(op.w))'
    BY <2>1, ApplyTrue, ApplyKeeps
  <2>6. taken' \in Requests => op'.w = qset'[taken'] /\ op'.action = qact'[taken']
    BY <2>1, ApplyKeeps DEF OutcomeInv
  <2>7. retained \subseteq retained'
    BY <2>1, ApplyKeeps
  <2>8. (\A i \in 1..Len(toServer) : toServer[i].ok =>
          IF qact[toServer[i].q] = "retain" THEN qset[toServer[i].q] \in retained
                                            ELSE Gone(qset[toServer[i].q]))'
    BY <1>2, <2>1, <2>7 DEF OutcomeInv
  <2>9. \A w \in Workspaces : Outcome(w, "discard")' => Gone(w)'
    BY <1>2, <2>3 DEF OutcomeInv
  <2>10. QED
    BY <2>3, <2>4, <2>5, <2>6, <2>8, <2>9 DEF OutcomeInv
<1>16. ASSUME AgentAnswer PROVE OutcomeInv'
  <2>1. /\ op.step = "done" /\ op' = NoOp /\ taken' = NoRequest
        /\ UNCHANGED <<memVars, gitVars, names, cut, forsaken, csStatus, qpc, qset, qact, toAgent>>
    BY <1>16 DEF AgentAnswer, End, reqVars
  <2>2. \A i \in 1..Len(toServer') : toServer'[i].ok =>
          IF qact[toServer'[i].q] = "retain" THEN qset[toServer'[i].q] \in retained
                                             ELSE Gone(qset[toServer'[i].q])
    <3>1. CASE taken = NoRequest
      BY <1>16, <3>1 DEF AgentAnswer, OutcomeInv
    <3>2. CASE taken # NoRequest
      <4> DEFINE f == [q |-> taken, ok |-> op.ok]
      <4>1. f \in Answers /\ f.q = taken /\ f.ok = op.ok
        BY <3>2 DEF CsTypeOK, WsTypeOK, Ops, Answers
      <4>2. toServer' = Append(toServer, f)
        BY <1>16, <3>2 DEF AgentAnswer
      <4> HIDE DEF f
      <4>3. \A i \in 1..Len(toServer') :
              toServer'[i] = f \/ \E j \in 1..Len(toServer) : toServer'[i] = toServer[j]
        BY <4>1, <4>2, SeqAppend DEF CsTypeOK
      <4>4. f.ok => IF qact[f.q] = "retain" THEN qset[f.q] \in retained ELSE Gone(qset[f.q])
        BY <2>1, <3>2, <4>1 DEF OutcomeInv, CsTypeOK
      <4>5. QED
        BY <4>3, <4>4 DEF OutcomeInv
    <3>3. QED
      BY <3>1, <3>2
  <2>3. \A w : Discarding(w)' => Discarding(w)
    BY <2>1 DEF Discarding, NoOp
  <2>4. \A w, a : Outcome(w, a)' => Outcome(w, a)
    BY <2>1 DEF Outcome
  <2>5. QED
    BY <1>2, <2>1, <2>2, <2>3, <2>4 DEF OutcomeInv, memVars, gitVars, NoOp
<1>17. ASSUME NEW readable \in BOOLEAN, AgentDies(readable) PROVE OutcomeInv'
  <2>1. /\ toAgent' = <<>> /\ toServer' = <<>> /\ taken' = NoRequest /\ op' = NoOp
        /\ UNCHANGED <<csStatus, qset, qact, tree>>
    BY <1>17 DEF AgentDies, DropLink, AgentRestart, gitVars
  <2>2. \A q \in Requests : qpc'[q] = "complete" => qpc[q] = "complete"
    BY <1>17 DEF AgentDies, FailWaiting
  <2>3. \A w, a : Outcome(w, a)' => Outcome(w, a)
    BY <2>1, <2>2 DEF Outcome
  <2>4. \A w : ~Discarding(w)'
    BY <2>1 DEF Discarding, NoOp
  <2>5. QED
    BY <1>2, <2>1, <2>3, <2>4 DEF OutcomeInv, NoOp
<1>18. CASE UNCHANGED changeVars
  BY <1>4, <1>18 DEF changeVars, csVars, reqVars, Outcome
<1>19. QED
  BY <1>5, <1>6, <1>7, <1>8, <1>9, <1>10, <1>11, <1>12, <1>13, <1>14, <1>15, <1>16, <1>17, <1>18
     DEF CsNext

\* What the record says of a workspace is what the agent host has, although
\* requests time out, frames are lost and both processes restart.
THEOREM OutcomeHolds == CsSpec => []OutcomeTrue
<1>1. CsInit => OutcomeInv
  BY DEF CsInit, WsInit, NoOp, OutcomeInv, Outcome, Final
<1>2. CsInv /\ CsInv' /\ DecisionOwned /\ OutcomeInv /\ [CsNext]_changeVars => OutcomeInv'
  BY OutcomeStep
<1>3. CsInv /\ OutcomeInv => OutcomeTrue
  BY DEF CsInv, WsInv, OutcomeInv, OutcomeTrue, Outcome, Final, Gone
<1>4. QED
  BY <1>1, <1>2, <1>3, CsInvariant, OneDecision, PTL DEF CsSpec

-----------------------------------------------------------------------------

\* PART III.  The delivery pipeline.

\* A stage has artifacts to its name only while it is completed, so the purge of
\* retry_stage never takes away what a later stage rests on.
OnlyCompletedEmit == \A s \in Stages : stage[s] # "succeeded" => emitted[s] = {}

\* A recorded grant is never beside a lock.
GateClosed == decision = "approved" => prior \notin Locks

\* Nothing is left to do in a finished pipeline.
OverSettled ==
  /\ delivery = "succeeded" => \A s \in Stages : stage[s] = "succeeded"
  /\ delivery = "failed" => \A s \in Stages : stage[s] # "running" /\ ~CanRetry(s)

PInv == PipelineTypeOK /\ StagesInOrder /\ OnlyCompletedEmit /\ GateClosed /\ OverSettled

-----------------------------------------------------------------------------

\* At most one stage is neither pending nor completed.
LEMMA OneActive ==
  ASSUME PipelineTypeOK, StagesInOrder, NEW s \in Stages, NEW q \in Stages, q # s,
         stage[s] \in {"running", "failed"}
  PROVE  stage[q] \in {"pending", "succeeded"}
  <1>1. q < s \/ s < q
    BY StageAssumption DEF Stages
  <1>2. CASE q < s
    BY <1>2, StageAssumption DEF StagesInOrder, Stages
  <1>3. CASE s < q
    BY <1>3, StageAssumption DEF StagesInOrder, Stages, PipelineTypeOK
  <1> QED BY <1>1, <1>2, <1>3

\* Emptying or filling the entry of a stage that had none loses no artifact.
LEMMA ProducedGrows ==
  ASSUME PipelineTypeOK, NEW s \in Stages, emitted[s] = {}, NEW arts \in SUBSET Artifacts,
         emitted' = [emitted EXCEPT ![s] = arts]
  PROVE  produced \subseteq produced'
  BY DEF PipelineTypeOK, produced

LEMMA PipelineInitHolds == PipelineInit => PInv
  <1> SUFFICES ASSUME PipelineInit PROVE PInv
    OBVIOUS
  <1>1. PipelineTypeOK
    BY DEF PipelineInit, PipelineTypeOK
  <1>2. StagesInOrder /\ OnlyCompletedEmit
    BY DEF PipelineInit, StagesInOrder, OnlyCompletedEmit
  <1>3. GateClosed /\ OverSettled
    BY DEF PipelineInit, GateClosed, OverSettled
  <1> QED BY <1>1, <1>2, <1>3 DEF PInv

LEMMA PipelineTypeStep == PipelineTypeOK /\ [PipelineNext]_pipelineVars => PipelineTypeOK'
  <1> SUFFICES ASSUME PipelineTypeOK, [PipelineNext]_pipelineVars PROVE PipelineTypeOK'
    OBVIOUS
  <1> USE DEF PipelineTypeOK, Set, Over, Locks
  <1>1. ASSUME NEW s \in Stages, BeginStage(s) PROVE PipelineTypeOK'
    BY <1>1 DEF BeginStage, gateVars
  <1>2. ASSUME NEW s \in Stages, NEW arts \in SUBSET Artifacts, CompleteStage(s, arts)
        PROVE  PipelineTypeOK'
    BY <1>2 DEF CompleteStage, gateVars
  <1>3. ASSUME NEW s \in Stages, FailStage(s) PROVE PipelineTypeOK'
    BY <1>3 DEF FailStage, gateVars
  <1>4. ASSUME NEW s \in Stages, NEW a \in Artifacts, AttachArtifact(s, a) PROVE PipelineTypeOK'
    BY <1>4 DEF AttachArtifact, gateVars
  <1>5. ASSUME NEW s \in Stages, RetryStage(s) PROVE PipelineTypeOK'
    BY <1>5 DEF RetryStage, gateVars
  <1>6. ASSUME NEW signed \in BOOLEAN, NEW approved \in BOOLEAN,
               GrantHumanApproval(signed, approved)
        PROVE  PipelineTypeOK'
    BY <1>6 DEF GrantHumanApproval, stageVars
  <1>7. ASSUME NEW d \in Locks \union {"granted", "other"}, SetPriorApprovalDecision(d)
        PROVE  PipelineTypeOK'
    BY <1>7 DEF SetPriorApprovalDecision, stageVars
  <1>8. CASE Cancel
    BY <1>8 DEF Cancel, stageVars, gateVars
  <1>9. CASE UNCHANGED pipelineVars
    BY <1>9 DEF pipelineVars, stageVars, gateVars
  <1> QED BY <1>1, <1>2, <1>3, <1>4, <1>5, <1>6, <1>7, <1>8, <1>9 DEF PipelineNext

LEMMA PipelineRestStep ==
  ASSUME PInv, [PipelineNext]_pipelineVars
  PROVE  (StagesInOrder /\ OnlyCompletedEmit /\ GateClosed /\ OverSettled)'
  <1> USE DEF PInv
  <1>0. PipelineTypeOK'
    BY PipelineTypeStep
  <1> DEFINE Rest == StagesInOrder /\ OnlyCompletedEmit /\ GateClosed /\ OverSettled
  <1>1. ASSUME NEW s \in Stages, BeginStage(s) PROVE Rest'
    <2>1. /\ stage' = [stage EXCEPT ![s] = "running"]
          /\ emitted' = emitted
          /\ stage[s] # "succeeded"
          /\ delivery \notin Over
          /\ delivery' = delivery
          /\ UNCHANGED gateVars
          /\ \A p \in 1..(s - 1) : stage[p] = "succeeded"
          /\ Required[s] \subseteq produced
      BY <1>1 DEF BeginStage, Set, Eligible, FirstIncomplete
    <2>2. produced' = produced
      BY <2>1 DEF produced
    <2>3. StagesInOrder'
      <3> SUFFICES ASSUME NEW q \in Stages, stage'[q] # "pending"
                   PROVE  /\ \A p \in 1..(q - 1) : stage'[p] = "succeeded"
                          /\ Required[q] \subseteq produced'
        BY DEF StagesInOrder
      <3>1. CASE q = s
        BY <3>1, <2>1, <2>2, StageAssumption DEF Stages, PipelineTypeOK
      <3>2. CASE q # s
        <4>1. stage[q] # "pending"
          BY <3>2, <2>1 DEF PipelineTypeOK
        <4>2. /\ \A p \in 1..(q - 1) : stage[p] = "succeeded"
              /\ Required[q] \subseteq produced
          BY <4>1 DEF StagesInOrder
        <4> QED BY <4>2, <2>1, <2>2 DEF PipelineTypeOK
      <3> QED BY <3>1, <3>2
    <2>4. OnlyCompletedEmit'
      BY <2>1 DEF OnlyCompletedEmit, PipelineTypeOK
    <2>5. GateClosed' /\ OverSettled'
      BY <2>1 DEF GateClosed, OverSettled, gateVars, Over
    <2> QED BY <2>3, <2>4, <2>5
  <1>2. ASSUME NEW s \in Stages, NEW arts \in SUBSET Artifacts, CompleteStage(s, arts)
        PROVE  Rest'
    <2>1. /\ stage' = [stage EXCEPT ![s] = "succeeded"]
          /\ emitted' = [emitted EXCEPT ![s] = arts]
          /\ stage[s] = "running"
          /\ delivery \notin Over
          /\ delivery' = IF \A p \in Stages : stage'[p] = "succeeded" THEN "succeeded" ELSE delivery
          /\ UNCHANGED gateVars
      BY <1>2 DEF CompleteStage, Set
    <2>2. produced \subseteq produced'
      BY <2>1, ProducedGrows DEF OnlyCompletedEmit
    <2>3. StagesInOrder'
      BY <2>1, <2>2 DEF StagesInOrder, PipelineTypeOK
    <2>4. OnlyCompletedEmit'
      BY <2>1 DEF OnlyCompletedEmit, PipelineTypeOK
    <2>5. GateClosed' /\ OverSettled'
      BY <2>1 DEF GateClosed, OverSettled, gateVars, Over
    <2> QED BY <2>3, <2>4, <2>5
  <1>3. ASSUME NEW s \in Stages, FailStage(s) PROVE Rest'
    <2>1. /\ stage' = [stage EXCEPT ![s] = "failed"]
          /\ emitted' = emitted
          /\ attempts' = attempts
          /\ stage[s] = "running"
          /\ delivery \notin Over
          /\ delivery' = IF attempts[s] < MaxAttempts THEN delivery ELSE "failed"
          /\ UNCHANGED gateVars
      BY <1>3 DEF FailStage, Set
    <2>2. produced' = produced
      BY <2>1 DEF produced
    <2>3. StagesInOrder'
      BY <2>1, <2>2 DEF StagesInOrder, PipelineTypeOK
    <2>4. OnlyCompletedEmit' /\ GateClosed'
      BY <2>1 DEF OnlyCompletedEmit, PipelineTypeOK, GateClosed, gateVars
    <2>5. OverSettled'
      <3>1. \A q \in Stages : q # s => stage[q] \in {"pending", "succeeded"}
        BY <2>1, OneActive
      <3> QED BY <2>1, <3>1 DEF OverSettled, Over, CanRetry, PipelineTypeOK
    <2> QED BY <2>3, <2>4, <2>5
  <1>4. ASSUME NEW s \in Stages, NEW a \in Artifacts, AttachArtifact(s, a) PROVE Rest'
    BY <1>4 DEF AttachArtifact, gateVars, StagesInOrder, OnlyCompletedEmit, GateClosed,
       OverSettled, CanRetry, produced
  <1>5. ASSUME NEW s \in Stages, RetryStage(s) PROVE Rest'
    <2>1. /\ stage' = [stage EXCEPT ![s] = "pending"]
          /\ emitted' = [emitted EXCEPT ![s] = {}]
          /\ attempts' = attempts
          /\ stage[s] = "failed"
          /\ CanRetry(s)
          /\ delivery' = delivery
          /\ UNCHANGED gateVars
      BY <1>5 DEF RetryStage, Set, CanRetry
    <2>2. produced \subseteq produced'
      BY <2>1, ProducedGrows DEF OnlyCompletedEmit
    <2>3. StagesInOrder'
      <3> SUFFICES ASSUME NEW q \in Stages, stage'[q] # "pending"
                   PROVE  /\ \A p \in 1..(q - 1) : stage'[p] = "succeeded"
                          /\ Required[q] \subseteq produced'
        BY DEF StagesInOrder
      <3>1. q # s /\ stage[q] # "pending"
        BY <2>1 DEF PipelineTypeOK
      <3>2. /\ \A p \in 1..(q - 1) : stage[p] = "succeeded"
            /\ Required[q] \subseteq produced
        BY <3>1 DEF StagesInOrder
      <3>3. s \notin 1..(q - 1)
        BY <3>2, <2>1
      <3> QED BY <3>2, <3>3, <2>1, <2>2 DEF PipelineTypeOK
    <2>4. OnlyCompletedEmit' /\ GateClosed'
      BY <2>1 DEF OnlyCompletedEmit, PipelineTypeOK, GateClosed, gateVars
    <2>5. OverSettled'
      BY <2>1 DEF OverSettled, CanRetry, PipelineTypeOK
    <2> QED BY <2>3, <2>4, <2>5
  <1>6. ASSUME NEW signed \in BOOLEAN, NEW approved \in BOOLEAN,
               GrantHumanApproval(signed, approved)
        PROVE  Rest'
    BY <1>6 DEF GrantHumanApproval, stageVars, StagesInOrder, OnlyCompletedEmit, GateClosed,
       OverSettled, CanRetry, produced
  <1>7. ASSUME NEW d \in Locks \union {"granted", "other"}, SetPriorApprovalDecision(d)
        PROVE  Rest'
    BY <1>7 DEF SetPriorApprovalDecision, stageVars, StagesInOrder, OnlyCompletedEmit,
       GateClosed, OverSettled, CanRetry, produced, Locks
  <1>8. CASE Cancel
    BY <1>8 DEF Cancel, stageVars, gateVars, StagesInOrder, OnlyCompletedEmit, GateClosed,
       OverSettled, CanRetry, produced
  <1>9. CASE UNCHANGED pipelineVars
    BY <1>9 DEF pipelineVars, stageVars, gateVars, StagesInOrder, OnlyCompletedEmit, GateClosed,
       OverSettled, CanRetry, produced
  <1> QED BY <1>1, <1>2, <1>3, <1>4, <1>5, <1>6, <1>7, <1>8, <1>9 DEF PipelineNext

LEMMA PipelineInvariant == PipelineSpec => []PInv
  <1>1. PInv /\ [PipelineNext]_pipelineVars => PInv'
    BY PipelineTypeStep, PipelineRestStep DEF PInv
  <1> QED BY PipelineInitHolds, <1>1, PTL DEF PipelineSpec

-----------------------------------------------------------------------------

\* Type correctness of the pipeline's fields.
THEOREM PipelineTypeCorrect == PipelineSpec => []PipelineTypeOK
  BY PipelineInvariant, PTL DEF PInv

\* Stages are begun in order and on produced inputs, for every contract graph.
THEOREM InOrder == PipelineSpec => []StagesInOrder
  BY PipelineInvariant, PTL DEF PInv

\* No pipeline succeeds without a standing signed grant.
THEOREM ApprovedDelivery == PipelineSpec => DeliveryApproved
  <1> DEFINE Gate == delivery' = "succeeded" /\ delivery # "succeeded" =>
                       decision = "approved" /\ prior \notin Locks
  <1>1. PInv /\ [PipelineNext]_pipelineVars => [Gate]_pipelineVars
    <2> SUFFICES ASSUME PInv, [PipelineNext]_pipelineVars, delivery' = "succeeded", delivery # "succeeded"
                 PROVE  decision = "approved" /\ prior \notin Locks
      OBVIOUS
    <2>1. PICK s \in Stages, arts \in SUBSET Artifacts : CompleteStage(s, arts)
      BY DEF PipelineNext, BeginStage, FailStage, AttachArtifact, RetryStage,
         GrantHumanApproval, SetPriorApprovalDecision, Cancel, pipelineVars
    <2>2. \A p \in Stages : stage'[p] = "succeeded"
      BY <2>1 DEF CompleteStage
    <2>3. stage[Last] = "succeeded" \/ s = Last
      BY <2>1, <2>2, StageAssumption DEF CompleteStage, Set, Stages, PInv, PipelineTypeOK
    <2>4. stage[Last] = "succeeded" => s = Last
      <3> SUFFICES ASSUME stage[Last] = "succeeded", s # Last PROVE FALSE
        OBVIOUS
      <3>1. Last \in Stages /\ s \in 1..(Last - 1)
        BY StageAssumption DEF Stages
      <3>2. stage[s] = "succeeded"
        BY <3>1 DEF PInv, StagesInOrder
      <3> QED BY <2>1, <3>2 DEF CompleteStage
    <2>5. decision = "approved"
      BY <2>1, <2>3, <2>4 DEF CompleteStage
    <2> QED BY <2>5 DEF PInv, GateClosed
  <1> QED BY PipelineInvariant, <1>1, PTL DEF PipelineSpec, DeliveryApproved

\* A finished pipeline does no more work.
THEOREM FinishedStays == PipelineSpec => OverIsOver
  <1> DEFINE Stays ==
        /\ delivery \in Over => delivery' = delivery
        /\ delivery \in {"succeeded", "failed"} => UNCHANGED stageVars
        /\ delivery = "cancelled" => UNCHANGED <<attempts, evidence>> /\
             \A s \in Stages : stage'[s] # stage[s] => stage'[s] = "pending"
  <1>1. PInv /\ [PipelineNext]_pipelineVars => [Stays]_pipelineVars
    <2> SUFFICES ASSUME PInv, [PipelineNext]_pipelineVars PROVE [Stays]_pipelineVars
      OBVIOUS
    <2> USE DEF PInv
    <2>1. ASSUME NEW s \in Stages, RetryStage(s) PROVE Stays
      BY <2>1 DEF RetryStage, CanRetry, Set, OverSettled, Over, PipelineTypeOK, stageVars
    <2> QED BY <2>1 DEF PipelineNext, BeginStage, Eligible, CompleteStage, FailStage,
               AttachArtifact, GrantHumanApproval, SetPriorApprovalDecision, Cancel, pipelineVars,
               stageVars, Over
  <1> QED BY PipelineInvariant, <1>1, PTL DEF PipelineSpec, OverIsOver

=============================================================================
