----------------------------- MODULE Schedule -----------------------------
(***************************************************************************)
(* The two pollers of scheduled work: SchedulerLoop with the cron jobs     *)
(* (application/scheduling.py, api/routers/cronjobs.py, the scheduled_job  *)
(* table) and WorkflowSchedulerLoop with the scheduled workflows           *)
(* (application/workflows.py, api/routers/workflows.py, the workflow       *)
(* table).  Both claim what is due under a lease of five minutes, publish  *)
(* the claims, run the claimed copies one after the other and write the    *)
(* next date back.                                                         *)
(*                                                                         *)
(* Dates are relative: "due" is the time left until next_run_at, "claim"   *)
(* the time left until claim_until, and Tick lets time pass.  One plan     *)
(* stands for a schedule: Once, or a period.  A behaviour is about one of  *)
(* the two tables, chosen in Init.  Loops belong to different processes.   *)
(***************************************************************************)
EXTENDS Naturals

CONSTANTS
  Items,      \* rows
  NoItem,
  Loops,      \* scheduler tasks, one per process
  Requests,   \* handlers of the pages
  Lease,      \* the five minutes of a claim
  Periods,    \* lengths an interval may have
  MaxUpsets   \* bound of the model: crashes, database errors and requests of the pages

Workers == Loops \union Requests
Once == 0
Horizon == CHOOSE p \in Periods : \A q \in Periods : q <= p

ASSUME ItemAssumption == NoItem \notin Items
ASSUME WorkerAssumption == Loops \intersect Requests = {}
ASSUME TimeAssumption ==
  /\ Lease \in Nat \ {0}
  /\ Periods \subseteq Nat \ {0} /\ Periods # {} /\ \E p \in Periods : \A q \in Periods : q <= p
  /\ MaxUpsets \in Nat

VARIABLES
  family,    \* "job" or "flow": which table, for ever
  row,       \* the rows
  archived,  \* the channel, its workspace or its team is archived
  wk,        \* what each worker is at
  upsets,    \* counted against MaxUpsets
  asked,     \* history: on and plan as the last person wrote them
  posts,     \* history: how often an instruction was posted since it was last armed
  raced,     \* history: written by a person, or run by hand while off, under a copy
  cleared,   \* history: a claim was removed under a loop whose lease still ran
  marred     \* history: a run failed or broke off, or two workers had copies at once

history == <<asked, posts, raced, cleared, marred>>
vars == <<family, row, archived, wk, upsets, history>>

Plans == {Once} \union Periods
Rows == [live : BOOLEAN, on : BOOLEAN, plan : Plans, due : 0..Horizon, claim : 0..Lease]
Copies == [on : BOOLEAN, plan : Plans, due : 0..Horizon]
NoCopy == [on |-> FALSE, plan |-> Once, due |-> Horizon]

\* copy: the rows as read; held: those not finished; age, ran: the time since
\* they were read, and since the run of "at" began (both saturate).
Limit == IF Lease > Horizon THEN Lease ELSE Horizon
Idle == [pc |-> "idle", at |-> NoItem, left |-> {}, copy |-> [i \in Items |-> NoCopy],
         age |-> 0, ran |-> 0]
Pcs == {"idle", "batch", "run", "answer", "edit", "dead"}

Held(w) == wk[w].left \union ({wk[w].at} \ {NoItem})
Copied(i) == {w \in Workers : i \in Held(w)}

\* _to_job and _workflow: what a worker keeps of a row.
ToCopy(i) == [on |-> row[i].on, plan |-> row[i].plan, due |-> row[i].due]

\* A date read, or computed from, a while ago.
Left(date, time) == IF date > time THEN date - time ELSE 0

\* next_run_for: Once keeps its date.
NextRunFor(plan, date) == IF plan = Once THEN date ELSE plan

Job == family = "job"
Flow == family = "flow"

\* A loop works on i and believes in its lease.
Leased(w, i) == w \in Loops /\ i \in Held(w) /\ wk[w].age < Lease

Upset == upsets < MaxUpsets /\ upsets' = upsets + 1

-----------------------------------------------------------------------------
\* The repositories.

\* Mutant: the lease of the others is not looked at.
DueRegardless(i) == row[i].live /\ row[i].on /\ row[i].due = 0 /\ ~archived

\* claim_due and claim_due_schedules: the rows the UPDATE selects.
Claimable(i) ==
  /\ row[i].live /\ row[i].on
  /\ row[i].due = 0
  /\ row[i].claim = 0
  /\ ~archived

\* ... and what it does to them: the token is never compared afterwards.
ClaimDue(due) ==
  row' = [i \in Items |-> IF i \in due THEN [row[i] EXCEPT !.claim = Lease] ELSE row[i]]

\* A write that removes the claim, whoever holds it.
Unclaim(w, i) ==
  cleared' = IF \E v \in Workers \ {w} : Leased(v, i) THEN cleared \union {i} ELSE cleared

\* Mutant: the whole copy is written back.
RecordRunAll(w, i, on, due) ==
  /\ row' = [row EXCEPT ![i] = IF row[i].live
       THEN [live |-> TRUE, on |-> on, plan |-> wk[w].copy[i].plan, due |-> due, claim |-> 0]
       ELSE @]
  /\ Unclaim(w, i)

\* record_run: no expected claim, and enabled is part of it.
RecordRun(w, i, on, due) ==
  /\ row' = [row EXCEPT ![i] = IF row[i].live
       THEN [@ EXCEPT !.on = on, !.due = due, !.claim = 0] ELSE @]
  /\ Unclaim(w, i)

\* SqlAlchemyWorkflowRepository.update: every column, as the writer has it.
WriteFlow(w, i, on, plan, due) ==
  /\ row' = [row EXCEPT ![i] = IF row[i].live
       THEN [live |-> TRUE, on |-> on, plan |-> plan, due |-> due, claim |-> 0] ELSE @]
  /\ Unclaim(w, i)

\* ScheduledJobRepository.update: neither enabled nor the claim.
WriteJob(i, plan, due) == row' = [row EXCEPT ![i] = [@ EXCEPT !.plan = plan, !.due = due]]

\* set_enabled: with a date only when it is resumed.
SetEnabled(i, on, due) == row' = [row EXCEPT ![i] = [@ EXCEPT !.on = on, !.due = due]]

\* delete, in either table: the runs go with the row.
Delete(i) == row' = [row EXCEPT ![i] = [@ EXCEPT !.live = FALSE, !.on = FALSE, !.claim = 0]]

-----------------------------------------------------------------------------
\* The loops.

Enter(w, state) == wk' = [wk EXCEPT ![w] = state]

\* The next of the batch, or the end of it.
GoOn(w) ==
  Enter(w, IF wk[w].left = {} THEN Idle
           ELSE [wk[w] EXCEPT !.pc = "batch", !.at = NoItem, !.ran = 0])

\* Mutant: the batch is read again behind the claim, when nothing is due.
PollReadsAgain(w) ==
  LET due == {i \in Items : Claimable(i)} IN
  /\ wk[w].pc = "idle"
  /\ due # {}
  /\ ClaimDue(due)
  /\ Enter(w, Idle)
  /\ UNCHANGED <<family, archived, upsets, history>>

\* run_due_once: claim and commit.
Poll(w) ==
  LET due == {i \in Items : Claimable(i)} IN
  /\ wk[w].pc = "idle"
  /\ due # {}
  /\ ClaimDue(due)
  /\ Enter(w, [Idle EXCEPT !.pc = "batch", !.left = due,
                           !.copy = [i \in Items |-> IF i \in due THEN ToCopy(i) ELSE NoCopy]])
  /\ marred' = marred \union {i \in due : Copied(i) # {}}
  /\ UNCHANGED <<family, archived, upsets, asked, posts, raced, cleared>>

\* ScheduledJobService.run and WorkflowService.run: the run row is inserted and
\* committed.  Nothing is asked again of the row.
Begin(w, i) ==
  /\ wk[w].pc = "batch"
  /\ i \in wk[w].left
  /\ Enter(w, [wk[w] EXCEPT !.pc = "run", !.at = i, !.left = @ \ {i}, !.ran = 0])
  /\ UNCHANGED <<family, row, archived, upsets, history>>

\* post_and_respond: the instruction is posted and committed before any agent is
\* asked; of a workflow, the steps.
Post(w) ==
  LET i == wk[w].at IN
  /\ wk[w].pc = "run"
  /\ Enter(w, [wk[w] EXCEPT !.pc = "answer"])
  /\ posts' = [posts EXCEPT ![i] = IF @ < 2 THEN @ + 1 ELSE @]
  /\ UNCHANGED <<family, row, archived, upsets, asked, raced, cleared, marred>>

\* Mutant: a one-time job stays enabled.
JobSucceedsStaysOn(w) ==
  LET i == wk[w].at
      copy == wk[w].copy[i]
  IN  /\ Job
      /\ wk[w].pc = "answer"
      /\ RecordRun(w, i, TRUE,
                   IF copy.plan = Once THEN Left(copy.due, wk[w].age) ELSE Left(copy.plan, wk[w].ran))
      /\ GoOn(w)
      /\ UNCHANGED <<family, archived, upsets, asked, posts, raced, marred>>

\* The next date is counted from the start of the run.  A run by hand enables a
\* job that was paused.
JobSucceeds(w) ==
  LET i == wk[w].at
      copy == wk[w].copy[i]
  IN  /\ Job
      /\ wk[w].pc = "answer"
      /\ RecordRun(w, i, copy.plan # Once,
                   IF copy.plan = Once THEN Left(copy.due, wk[w].age) ELSE Left(copy.plan, wk[w].ran))
      /\ GoOn(w)
      /\ UNCHANGED <<family, archived, upsets, asked, posts, raced, marred>>

\* Date and enabled are written back as they were read: it is due again.
JobFails(w) ==
  LET i == wk[w].at
      copy == wk[w].copy[i]
  IN  /\ Job
      /\ wk[w].pc \in {"run", "answer"}
      /\ RecordRun(w, i, copy.on, Left(copy.due, wk[w].age))
      /\ GoOn(w)
      /\ marred' = marred \union {i}
      /\ UNCHANGED <<family, archived, upsets, asked, posts, raced>>

\* WorkflowSchedulerLoop.run_due_once behind run(), which raises nothing: the
\* next date is counted from the poll, and the copy written back.
FlowReturns(w) ==
  LET i == wk[w].at
      copy == wk[w].copy[i]
  IN  /\ Flow
      /\ wk[w].pc = "answer"
      /\ WriteFlow(w, i, copy.on, copy.plan, Left(copy.plan, wk[w].age))
      /\ GoOn(w)
      /\ UNCHANGED <<family, archived, upsets, asked, posts, raced, marred>>

\* A database error (a deleted row's run, a lock that is not granted).  The job
\* loop logs it and goes on, the request ends; the workflow loop has no handler
\* and its task is over.
Breaks(w) ==
  /\ Upset
  /\ wk[w].pc \in {"run", "answer"}
  /\ IF Flow THEN Enter(w, [Idle EXCEPT !.pc = "dead"]) ELSE GoOn(w)
  /\ marred' = marred \union {wk[w].at}
  /\ UNCHANGED <<family, row, archived, asked, posts, raced, cleared>>

\* The process dies and is started again; its claims are left behind.
Crash(w) ==
  /\ Upset
  /\ wk[w].pc # "idle"
  /\ Enter(w, Idle)
  /\ marred' = marred \union Held(w)
  /\ UNCHANGED <<family, row, archived, asked, posts, raced, cleared>>

-----------------------------------------------------------------------------
\* The pages of the cron jobs: each reads, writes and commits in one request.

\* A person has written i while somebody else has a copy of it.
Ask(w, i, on, plan) ==
  /\ asked' = [asked EXCEPT ![i] = [on |-> on, plan |-> plan]]
  /\ raced' = IF Copied(i) \ {w} = {} THEN raced ELSE raced \union {i}

\* post_and_respond by hand, whatever the claim and whether it is paused or not.
RunJob(w, i) ==
  /\ Job /\ wk[w].pc = "idle" /\ row[i].live
  /\ Upset
  /\ Enter(w, [Idle EXCEPT !.pc = "run", !.at = i, !.copy = [Idle.copy EXCEPT ![i] = ToCopy(i)]])
  /\ marred' = marred \union {i}
  /\ raced' = IF asked[i].on THEN raced ELSE raced \union {i}
  /\ UNCHANGED <<family, row, archived, asked, posts, cleared>>

\* A date given for a one-time job may lie in the past.
UpdateJob(w, i, plan) ==
  /\ Job /\ wk[w].pc = "idle" /\ row[i].live
  /\ Upset
  /\ \E date \in 0..Horizon : WriteJob(i, plan, NextRunFor(plan, date))
  /\ Ask(w, i, asked[i].on, plan)
  /\ posts' = [posts EXCEPT ![i] = 0]
  /\ UNCHANGED <<family, archived, wk, cleared, marred>>

PauseJob(w, i) ==
  /\ Job /\ wk[w].pc = "idle" /\ row[i].live
  /\ Upset
  /\ SetEnabled(i, FALSE, row[i].due)
  /\ Ask(w, i, FALSE, asked[i].plan)
  /\ UNCHANGED <<family, archived, wk, posts, cleared, marred>>

\* A one-time job that has run is due at once.
ResumeJob(w, i) ==
  /\ Job /\ wk[w].pc = "idle" /\ row[i].live
  /\ Upset
  /\ SetEnabled(i, TRUE, NextRunFor(row[i].plan, row[i].due))
  /\ Ask(w, i, TRUE, asked[i].plan)
  /\ posts' = [posts EXCEPT ![i] = 0]
  /\ UNCHANGED <<family, archived, wk, cleared, marred>>

DeleteJob(w, i) ==
  /\ Job /\ wk[w].pc = "idle" /\ row[i].live
  /\ Upset
  /\ Delete(i)
  /\ UNCHANGED <<family, archived, wk, history>>

-----------------------------------------------------------------------------
\* The pages of the workflows: _manageable_workflow reads the row, the write of
\* all its columns comes after other awaits.

ReadFlow(w, i) ==
  /\ Flow /\ wk[w].pc = "idle" /\ row[i].live
  /\ Upset
  /\ Enter(w, [Idle EXCEPT !.pc = "edit", !.at = i, !.copy = [Idle.copy EXCEPT ![i] = ToCopy(i)]])
  /\ UNCHANGED <<family, row, archived, history>>

\* WorkflowService.update.
UpdateFlow(w, on, plan) ==
  LET i == wk[w].at IN
  /\ Flow /\ wk[w].pc = "edit"
  /\ WriteFlow(w, i, on, plan, plan)
  /\ Ask(w, i, on, plan)
  /\ Enter(w, Idle)
  /\ UNCHANGED <<family, archived, upsets, posts, marred>>

\* _set_workflow_enabled: with the date and the plan that were read.
EnableFlow(w, on) ==
  LET i == wk[w].at
      copy == wk[w].copy[i]
  IN  /\ Flow /\ wk[w].pc = "edit"
      /\ WriteFlow(w, i, on, copy.plan, Left(copy.due, wk[w].age))
      /\ Ask(w, i, on, asked[i].plan)
      /\ Enter(w, Idle)
      /\ UNCHANGED <<family, archived, upsets, posts, marred>>

DeleteFlow(w) ==
  /\ Flow /\ wk[w].pc = "edit"
  /\ Delete(wk[w].at)
  /\ Enter(w, Idle)
  /\ UNCHANGED <<family, archived, upsets, history>>

-----------------------------------------------------------------------------

\* The channel is archived or restored (infrastructure/lifecycle.py).
Archive ==
  /\ Upset
  /\ archived' = ~archived
  /\ UNCHANGED <<family, row, wk, history>>

Tick ==
  /\ row' = [i \in Items |-> [row[i] EXCEPT !.due = Left(@, 1), !.claim = Left(@, 1)]]
  /\ wk' = [w \in Workers |->
       IF wk[w].pc \in {"idle", "dead"} THEN wk[w]
       ELSE [wk[w] EXCEPT !.age = IF @ < Limit THEN @ + 1 ELSE @,
                          !.ran = IF wk[w].pc \in {"run", "answer"} /\ @ < Horizon THEN @ + 1 ELSE @]]
  /\ UNCHANGED <<family, archived, upsets, history>>

\* ScheduledJobService.create and WorkflowService.create.
Init ==
  /\ family \in {"job", "flow"}
  /\ \E plan \in [Items -> IF family = "job" THEN Plans ELSE Periods], date \in 0..Horizon :
       /\ row = [i \in Items |-> [live |-> TRUE, on |-> TRUE, plan |-> plan[i],
                                  due |-> NextRunFor(plan[i], date), claim |-> 0]]
       /\ asked = [i \in Items |-> [on |-> TRUE, plan |-> plan[i]]]
  /\ archived = FALSE
  /\ wk = [w \in Workers |-> Idle]
  /\ upsets = 0
  /\ posts = [i \in Items |-> 0]
  /\ raced = {} /\ cleared = {} /\ marred = {}

WorkerStep(w) ==
  \/ w \in Loops /\ Poll(w)
  \/ \E i \in Items : Begin(w, i)
  \/ Post(w)
  \/ JobSucceeds(w)
  \/ JobFails(w)
  \/ FlowReturns(w)

RequestStep(w) ==
  \/ \E i \in Items :
       \/ RunJob(w, i)
       \/ \E plan \in Plans : UpdateJob(w, i, plan)
       \/ PauseJob(w, i)
       \/ ResumeJob(w, i)
       \/ DeleteJob(w, i)
       \/ ReadFlow(w, i)
  \/ \E on \in BOOLEAN, plan \in Periods : UpdateFlow(w, on, plan)
  \/ \E on \in BOOLEAN : EnableFlow(w, on)
  \/ DeleteFlow(w)

Next ==
  \/ \E w \in Workers : WorkerStep(w) \/ Breaks(w) \/ Crash(w)
  \/ \E w \in Requests : RequestStep(w)
  \/ Archive
  \/ Tick

\* The loops poll and their runs end (they are awaited); time passes.
Fairness == WF_vars(Tick) /\ \A w \in Workers : WF_vars(WorkerStep(w))

Spec == Init /\ [][Next]_vars /\ Fairness

-----------------------------------------------------------------------------

\* The values rows, workers and histories range over.
TypeOK ==
  /\ family \in {"job", "flow"}
  /\ row \in [Items -> Rows]
  /\ archived \in BOOLEAN
  /\ wk \in [Workers -> [pc : Pcs, at : Items \union {NoItem}, left : SUBSET Items,
                         copy : [Items -> Copies], age : 0..Limit, ran : 0..Horizon]]
  /\ upsets \in 0..MaxUpsets
  /\ asked \in [Items -> [on : BOOLEAN, plan : Plans]]
  /\ posts \in [Items -> 0..2]
  /\ raced \subseteq Items /\ cleared \subseteq Items /\ marred \subseteq Items

\* Two loops never believe in a lease on the same row, unless a third party
\* removed the claim of the first: claim_token is written but never compared, so
\* a manual run, an overdue loop or a page of the workflows can do that.
LeaseExclusive ==
  \A i \in Items \ cleared : \A v, w \in Loops : Leased(v, i) /\ Leased(w, i) => v = w

\* A one-time job posts its instruction once per arming, unless a run of it
\* failed or broke off behind the post, or two runs of it were at work at once.
OncePosts ==
  Job => \A i \in Items : row[i].live /\ asked[i].plan = Once /\ posts[i] > 1 =>
                            i \in marred \union raced

\* What a person wrote last stands, unless somebody was working on an older copy
\* (or ran the paused job by hand): then a pause, or a workflow's whole edit, is
\* undone.  The plan of a cron job is never written by a loop.
WordStands ==
  \A i \in Items : row[i].live =>
    /\ Job \/ i \notin raced => row[i].plan = asked[i].plan
    /\ i \notin raced => (row[i].on => asked[i].on) /\ (Flow => row[i].on = asked[i].on)

Wanted(i) == row[i].live /\ row[i].on /\ row[i].due = 0 /\ ~archived

\* What is due is run: a lease left by a dead loop lapses.  A workflow needs a
\* loop whose task has not ended.
DueRuns ==
  \A i \in Items :
    Wanted(i) ~> \/ \E w \in Workers : wk[w].at = i
                 \/ ~Wanted(i)
                 \/ \A w \in Loops : wk[w].pc = "dead"

=============================================================================
