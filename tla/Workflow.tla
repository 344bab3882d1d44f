----------------------------- MODULE Workflow -----------------------------
(***************************************************************************)
(* Runs of one workflow (application/workflows.py, WorkflowService.run,    *)
(* approve, retry_failed; api/routers/workflows.py): the durable rows of   *)
(* workflow_run and the coroutines that execute, resume, reject and retry  *)
(* them.                                                                   *)
(*                                                                         *)
(* An executor is one request handler, webhook call, message trigger or    *)
(* scheduler pass.  It works on its own copy of the row and writes the     *)
(* whole copy back (update_run has no expected status), then commits: a    *)
(* step is an action of the outside world and, after an await, a write.    *)
(* A statement that fails leaves the connection usable, so the run is      *)
(* failed by the next write; after a COMMIT that fails, a cancellation     *)
(* (CancelledError passes "except Exception") or the death of the process  *)
(* the executor writes nothing more (Stop).                                *)
(* All runs see the same event, so the condition of a step holds for all   *)
(* of them or for none ("skip").  The definition is not edited meanwhile.  *)
(***************************************************************************)
EXTENDS Naturals, Sequences

CONSTANTS
  Triggered,  \* ids of workflow_run rows a trigger inserts
  Retries,    \* ids of rows a retry inserts
  Executors,  \* coroutines
  NoRun,
  Steps       \* the kinds of the workflow's steps, in order

Runs == Triggered \union Retries

ASSUME RunAssumption == NoRun \notin Runs /\ Triggered \intersect Retries = {}
ASSUME StepAssumption == Steps \in Seq({"work", "approval", "skip"}) /\ Steps # <<>>

VARIABLES
  row,        \* workflow_run, committed: status, current_step, the steps that succeeded
  root,       \* root_run_id (the run itself for a first attempt), set on insertion
  attempt,    \* attempt, likewise
  ex,         \* what each executor holds
  done,       \* history: <<r, i>> once step i of run r has acted on the world
  granted,    \* history: <<r, i>> once an approve of step i of r was accepted
  rejected,   \* history: <<r, i>> once a rejection of step i of r was written
  contested,  \* history: runs whose approval was answered while an answer was at work
  unasked,    \* history: <<r, i>> once run r failed because its pause at step i was not written
  orphaned    \* history: runs an executor was working on when it was stopped

dbVars == <<row, root, attempt>>
history == <<done, granted, rejected, contested, unasked, orphaned>>
vars == <<dbVars, ex, history>>

Indexes == 1..Len(Steps)

Live == {"running", "waiting"}
Terminal == {"succeeded", "failed"}

Rows == [status : {"none"} \union Live \union Terminal, at : 0..Len(Steps),
         ok : SUBSET Indexes]

NoRow == [status |-> "none", at |-> 0, ok |-> {}]

\* pc "act" is the head of the loop over the steps; ctx are the steps whose
\* output the templates of later steps can see.
Idle == [pc |-> "idle", run |-> NoRun, at |-> 0, ok |-> {}, ctx |-> {}, attempt |-> 0]

Pcs == {"idle", "act", "record", "fail", "end", "reject", "plan", "insert"}

Lineage(r) == {q \in Runs : row[q].status # "none" /\ root[q] = root[r]}

\* update_run and commit.
Write(r, status, at, ok) == row' = [row EXCEPT ![r] = [status |-> status, at |-> at, ok |-> ok]]

\* The executor returns.
Leave(e) == ex' = [ex EXCEPT ![e] = Idle]

GoTo(e, pc) == ex' = [ex EXCEPT ![e].pc = pc]

\* Executors that answer or execute r.
Working(r) == {e \in Executors : ex[e].run = r /\ ex[e].pc \notin {"plan", "insert"}}

-----------------------------------------------------------------------------
\* run().

\* A trigger starts the first attempt.
Start(e, r) ==
  /\ ex[e] = Idle
  /\ row[r].status = "none"
  /\ Write(r, "running", 0, {})
  /\ root' = [root EXCEPT ![r] = r]
  /\ attempt' = [attempt EXCEPT ![r] = 1]
  /\ ex' = [ex EXCEPT ![e] = [Idle EXCEPT !.pc = "act", !.run = r]]
  /\ UNCHANGED history

Next1(e) == ex[e].at + 1

AtStep(e, kind) ==
  /\ ex[e].pc = "act"
  /\ ex[e].at < Len(Steps)
  /\ Steps[Next1(e)] = kind

\* The condition of the step does not match.
SkipStep(e) ==
  /\ AtStep(e, "skip")
  /\ ex' = [ex EXCEPT ![e].at = @ + 1]
  /\ Write(ex[e].run, "running", Next1(e), ex[e].ok)
  /\ UNCHANGED <<root, attempt, history>>

\* _execute_action takes effect; wait_for may still time out after it.
Perform(e) ==
  /\ AtStep(e, "work")
  /\ done' = done \union {<<ex[e].run, Next1(e)>>}
  /\ GoTo(e, "record") \/ GoTo(e, "fail")
  /\ UNCHANGED <<dbVars, granted, rejected, contested, unasked, orphaned>>

\* _execute_action raises or times out first.
PerformFails(e) ==
  /\ AtStep(e, "work")
  /\ GoTo(e, "fail")
  /\ UNCHANGED <<dbVars, history>>

\* Mutant: the executor goes on behind the approval step.
AskGoesOn(e) ==
  /\ AtStep(e, "approval")
  /\ Write(ex[e].run, "waiting", Next1(e), ex[e].ok \union {Next1(e)})
  /\ ex' = [ex EXCEPT ![e].at = @ + 1]
  /\ UNCHANGED <<root, attempt, history>>

\* request_approval: the run waits and the executor returns.
Ask(e) ==
  /\ AtStep(e, "approval")
  /\ Write(ex[e].run, "waiting", Next1(e), ex[e].ok \union {Next1(e)})
  /\ Leave(e)
  /\ UNCHANGED <<root, attempt, history>>

Record(e) ==
  LET ok == ex[e].ok \union {Next1(e)} IN
  /\ ex[e].pc = "record"
  /\ Write(ex[e].run, "running", Next1(e), ok)
  /\ ex' = [ex EXCEPT ![e] = [@ EXCEPT !.pc = "act", !.at = Next1(e), !.ok = ok,
                                       !.ctx = ex[e].ctx \union {Next1(e)}]]
  /\ UNCHANGED <<root, attempt, history>>

\* Mutant: the exception of a step is swallowed after it was recorded.
RecordFailureReturns(e) ==
  /\ ex[e].pc = "fail"
  /\ Write(ex[e].run, "running", ex[e].at, ex[e].ok)
  /\ Leave(e)
  /\ UNCHANGED <<root, attempt, history>>

\* The failed step is written first, if it can be, the failed run in a second
\* commit.
RecordFailure(e) ==
  /\ ex[e].pc = "fail"
  /\ Write(ex[e].run, "running", ex[e].at, ex[e].ok) \/ UNCHANGED row
  /\ GoTo(e, "end")
  /\ UNCHANGED <<root, attempt, history>>

\* The write behind a step raises: the copy, which already has the step, is
\* written as a failed run next.  That includes an approval step nobody was
\* asked about.
WriteFails(e) ==
  LET kind == Steps[Next1(e)] IN
  /\ ex[e].pc = "record" \/ AtStep(e, "skip") \/ AtStep(e, "approval")
  /\ ex' = [ex EXCEPT ![e] = [@ EXCEPT !.pc = "end", !.at = Next1(e),
                !.ok = IF kind = "skip" THEN ex[e].ok ELSE ex[e].ok \union {Next1(e)}]]
  /\ unasked' = IF kind = "approval" THEN unasked \union {<<ex[e].run, Next1(e)>>} ELSE unasked
  /\ UNCHANGED <<dbVars, done, granted, rejected, contested, orphaned>>

EndFailed(e) ==
  /\ ex[e].pc = "end"
  /\ Write(ex[e].run, "failed", ex[e].at, ex[e].ok)
  /\ Leave(e)
  /\ UNCHANGED <<root, attempt, history>>

EndSucceeded(e) ==
  /\ ex[e].pc = "act"
  /\ ex[e].at = Len(Steps)
  /\ Write(ex[e].run, "succeeded", ex[e].at, ex[e].ok)
  /\ Leave(e)
  /\ UNCHANGED <<root, attempt, history>>

-----------------------------------------------------------------------------
\* approve().

\* Read by its approval token; a row that is not waiting is refused.
Answer(e, r, pc) ==
  /\ ex[e] = Idle
  /\ row[r].status = "waiting"
  /\ ex' = [ex EXCEPT ![e] = [Idle EXCEPT !.pc = pc, !.run = r,
                                          !.at = row[r].at, !.ok = row[r].ok]]
  /\ contested' = IF Working(r) = {} THEN contested ELSE contested \union {r}

\* The run goes on after the approval, without the outputs of earlier steps;
\* its row says "waiting" until the next step has been executed.
Approve(e, r) ==
  /\ Answer(e, r, "act")
  /\ granted' = granted \union {<<r, row[r].at>>}
  /\ UNCHANGED <<dbVars, done, rejected, unasked, orphaned>>

Reject(e, r) ==
  /\ Answer(e, r, "reject")
  /\ UNCHANGED <<dbVars, done, granted, rejected, unasked, orphaned>>

RejectWrite(e) ==
  /\ ex[e].pc = "reject"
  /\ Write(ex[e].run, "failed", ex[e].at, ex[e].ok)
  /\ rejected' = rejected \union {<<ex[e].run, ex[e].at>>}
  /\ Leave(e)
  /\ UNCHANGED <<root, attempt, done, granted, contested, unasked, orphaned>>

-----------------------------------------------------------------------------
\* retry_failed().
\* Mutant: the retry starts behind the failed step.
RetryReadNext(e, f) ==
  /\ ex[e] = Idle
  /\ row[f].status = "failed"
  /\ row[f].at < Len(Steps)
  /\ ex' = [ex EXCEPT ![e] = [Idle EXCEPT !.pc = "plan", !.run = f, !.at = row[f].at + 1]]
  /\ UNCHANGED <<dbVars, history>>

RetryRead(e, f) ==
  /\ ex[e] = Idle
  /\ row[f].status = "failed"
  /\ row[f].at < Len(Steps)
  /\ ex' = [ex EXCEPT ![e] = [Idle EXCEPT !.pc = "plan", !.run = f, !.at = row[f].at]]
  /\ UNCHANGED <<dbVars, history>>

\* Mutant: only the failed attempt's own outputs are carried over.
RetryPlanOwn(e) ==
  LET f == ex[e].run IN
  /\ ex[e].pc = "plan"
  /\ ex' = [ex EXCEPT ![e] = [@ EXCEPT !.pc = "insert", !.attempt = attempt[f] + 1,
                                       !.ctx = row[f].ok]]
  /\ UNCHANGED <<dbVars, history>>

\* The lineage is read: the outputs of every attempt up to the failed one, and
\* the number of the next attempt.
RetryPlan(e) ==
  LET f == ex[e].run
      earlier == {q \in Lineage(f) : attempt[q] <= attempt[f]}
      last == CHOOSE n \in {attempt[q] : q \in Lineage(f)} :
                \A q \in Lineage(f) : attempt[q] <= n
  IN  /\ ex[e].pc = "plan"
      /\ ex' = [ex EXCEPT ![e] = [@ EXCEPT !.pc = "insert", !.attempt = last + 1,
                                           !.ctx = UNION {row[q].ok : q \in earlier}]]
      /\ UNCHANGED <<dbVars, history>>

\* Mutant: the failed row itself is set running again.
RetryInPlace(e, r) ==
  /\ ex[e].pc = "insert"
  /\ row[r].status = "none"
  /\ Write(ex[e].run, "running", ex[e].at, {})
  /\ GoTo(e, "act")
  /\ UNCHANGED <<root, attempt, history>>

\* A new row that starts at the failed step, committed by run() before that step.
RetryInsert(e, r) ==
  LET f == ex[e].run IN
  /\ ex[e].pc = "insert"
  /\ row[r].status = "none"
  /\ Write(r, "running", ex[e].at, {})
  /\ root' = [root EXCEPT ![r] = root[f]]
  /\ attempt' = [attempt EXCEPT ![r] = ex[e].attempt]
  /\ ex' = [ex EXCEPT ![e] = [@ EXCEPT !.pc = "act", !.run = r]]
  /\ UNCHANGED history

-----------------------------------------------------------------------------

\* The executor is cancelled, one of its writes raises outside the try block, or
\* the process dies (which stops them all, in any order).  Nothing looks for
\* running rows afterwards.
Stop(e) ==
  /\ ex[e] # Idle
  /\ Leave(e)
  /\ orphaned' = orphaned \union {r \in Runs : e \in Working(r)}
  /\ UNCHANGED <<dbVars, done, granted, rejected, contested, unasked>>

Init ==
  /\ row = [r \in Runs |-> NoRow]
  /\ root = [r \in Runs |-> NoRun]
  /\ attempt = [r \in Runs |-> 0]
  /\ ex = [e \in Executors |-> Idle]
  /\ done = {}
  /\ granted = {}
  /\ rejected = {}
  /\ contested = {}
  /\ unasked = {}
  /\ orphaned = {}

ExecutorStep(e) ==
  \/ SkipStep(e)
  \/ Perform(e)
  \/ PerformFails(e)
  \/ Ask(e)
  \/ Record(e)
  \/ RecordFailure(e)
  \/ WriteFails(e)
  \/ EndFailed(e)
  \/ EndSucceeded(e)
  \/ RejectWrite(e)
  \/ RetryPlan(e)
  \/ \E r \in Retries : RetryInsert(e, r)
  \/ Stop(e)

Next ==
  \/ \E e \in Executors, r \in Triggered : Start(e, r)
  \/ \E e \in Executors : ExecutorStep(e)
  \/ \E e \in Executors, r \in Runs : Approve(e, r)
  \/ \E e \in Executors, r \in Runs : Reject(e, r)
  \/ \E e \in Executors, f \in Runs : RetryRead(e, f)

Spec == Init /\ [][Next]_vars

-----------------------------------------------------------------------------

\* The values the rows, the executors' copies and the histories range over.
TypeOK ==
  /\ row \in [Runs -> Rows]
  /\ root \in [Runs -> Runs \union {NoRun}]
  /\ attempt \in [Runs -> Nat]
  /\ ex \in [Executors -> [pc : Pcs, run : Runs \union {NoRun}, at : 0..Len(Steps),
                           ok : SUBSET Indexes, ctx : SUBSET Indexes, attempt : Nat]]
  /\ done \subseteq Runs \X Indexes
  /\ granted \subseteq Runs \X Indexes
  /\ rejected \subseteq Runs \X Indexes
  /\ contested \subseteq Runs
  /\ unasked \subseteq Runs \X Indexes
  /\ orphaned \subseteq Runs

\* A step acts only after every earlier step of its lineage has: neither a
\* retry from the failed step, nor an approval that resumes in the middle, nor
\* a stale copy written back leaves a step out (run, retry_failed, approve).
StepsInOrder ==
  \A r \in Runs, i \in Indexes : <<r, i>> \in done => \A j \in 1..(i - 1) :
    Steps[j] = "work" => \E q \in Lineage(r) : <<q, j>> \in done

\* Nothing behind an approval step acts before a person has dealt with it: an
\* approver, or somebody who retries the run that was rejected there or that
\* failed there because its pause could not be written (retry_failed starts after
\* that step in both cases).
ApprovalGate ==
  \A r \in Runs, i \in Indexes : <<r, i>> \in done => \A j \in 1..(i - 1) :
    Steps[j] = "approval" =>
      \E q \in Lineage(r) : \/ <<q, j>> \in granted
                            \/ q # r /\ <<q, j>> \in rejected \union unasked

\* A retry starts with the outputs of every step before the failed one, however
\* many attempts produced them (tests/test_workflows.py,
\* test_retry_of_retry_reconstructs_outputs_from_full_lineage).
RetryReconstructs ==
  \A e \in Executors : ex[e].pc = "insert" /\ Lineage(ex[e].run) \intersect contested = {} =>
    {j \in 1..ex[e].at : Steps[j] # "skip"} \subseteq ex[e].ctx

\* A finished run stays as it is, unless its approval was answered twice.
FinishedStays ==
  [][\A r \in Runs \ contested : row[r].status \in Terminal => row'[r] = row[r]]_vars

\* A running run, a retry's included, has an executor, which ends it or makes it
\* wait, unless one was stopped under it: then nothing ever moves it, and
\* retry_failed refuses it.
RunningIsDriven ==
  \A r \in Runs : row[r].status = "running" => Working(r) # {} \/ r \in orphaned

=============================================================================
