--------------------------- MODULE WorkflowProofs ---------------------------
(***************************************************************************)
(* Proofs about the workflow and about the board whose moves start one.    *)
(*                                                                         *)
(* Part I, module Workflow: for every list of steps, any number of runs,   *)
(* attempts and executors, and any sequence of failed writes and stops.    *)
(*                                                                         *)
(* Part II, module Board: a claim of a column trigger is one run           *)
(* (ClaimedOnce), a move over a fresh copy of the card starts the workflow *)
(* exactly when it should (FreshMoveStarts), and the active columns have   *)
(* an order (OrderDeterministic).  The triggers rest on the versions:      *)
(* VersionsInv says that every claim was made for a version older than the *)
(* card's, so a fresh copy has a key that nobody has used.  The order      *)
(* rests on Highest: a finite set of positions has a highest one, so a     *)
(* column put behind it has its own.                                       *)
(***************************************************************************)
EXTENDS Workflow, Board, FiniteSetTheorems, WellFoundedInduction, TLAPS

-----------------------------------------------------------------------------
\* Part I.  The workflow.

USE RunAssumption

-----------------------------------------------------------------------------
\* The inductive invariant of the types.

\* A bounded set of numbers has a largest one.
LEMMA MaxExists ==
  ASSUME NEW S \in SUBSET Nat, S # {}, NEW n \in Nat, \A s \in S : s <= n
  PROVE  \E m \in S : \A s \in S : s <= m
<1> DEFINE T == {k \in Nat : \A s \in S : s <= k}
           R == OpToRel(<, Nat)
<1>1. n \in T /\ T \subseteq Nat
  OBVIOUS
<1>2. PICK m \in T : \A y \in T : ~(<<y, m>> \in R)
  <2> HIDE DEF T
  <2>1. IsWellFoundedOn(R, Nat)
    BY NatLessThanWellFounded
  <2>2. T \subseteq Nat /\ T # {}
    BY <1>1
  <2> HIDE DEF R
  <2> QED BY <2>1, <2>2, WFMin
<1>3. \A y \in T : ~(y < m)
  BY <1>2 DEF OpToRel
<1>4. m \in S
  <2>1. SUFFICES ASSUME m \notin S PROVE FALSE
    OBVIOUS
  <2>2. PICK s \in S : TRUE
    OBVIOUS
  <2>3. m \in Nat /\ m > 0 /\ \A q \in S : q <= m - 1
    BY <2>1, <2>2
  <2>4. m - 1 \in T
    BY <2>3
  <2> QED BY <1>3, <2>3, <2>4
<1> QED BY <1>4

\* e executes, resumes or rejects a run.
Drives(e) == ex[e].pc \notin {"idle", "plan", "insert"}

\* Where an executor is tells what it knows of its run: the row of a run that is
\* driven is committed, and a row nobody has started is nobody's.
Base ==
  /\ \A e \in Executors : ex[e].pc = "idle" <=> ex[e].run = NoRun
  /\ \A e \in Executors :
       ex[e].pc = "record" => ex[e].at < Len(Steps) /\ Steps[ex[e].at + 1] = "work"
  /\ \A e \in Executors : Drives(e) => root[ex[e].run] # NoRun
  /\ \A e \in Executors : ex[e].pc = "reject" => ex[e].at # 0
  /\ \A e \in Executors : ex[e].pc \in {"plan", "insert"} => row[ex[e].run].status # "none"
  /\ \A r \in Runs : row[r].status = "waiting" => row[r].at # 0
  /\ \A r \in Runs : row[r].status = "none" <=> root[r] = NoRun

\* The attempts of a run that were started have a last one.
Bounded == \E n \in Nat : \A r \in Runs : attempt[r] <= n

TInv == TypeOK /\ Base /\ Bounded

LEMMA TypeInit == Init => TInv
<1> SUFFICES ASSUME Init PROVE TInv
  OBVIOUS
<1>1. Len(Steps) \in Nat
  BY StepAssumption
<1>2. TypeOK
  BY <1>1 DEF Init, TypeOK, Rows, NoRow, Idle, Pcs
<1>3. Base
  <2>1. \A e \in Executors : ex[e].pc = "idle" /\ ex[e].run = NoRun
    BY DEF Init, Idle
  <2>2. \A r \in Runs : row[r].status = "none" /\ root[r] = NoRun
    BY DEF Init, NoRow
  <2> QED BY <2>1, <2>2 DEF Base, Drives, Runs
<1>4. Bounded
  BY DEF Init, Bounded
<1> QED BY <1>2, <1>3, <1>4 DEF TInv

-----------------------------------------------------------------------------
\* What each action does to the executor and to the row, field by field.

Copies == [pc : Pcs, run : Runs \union {NoRun}, at : 0..Len(Steps),
           ok : SUBSET Indexes, ctx : SUBSET Indexes, attempt : Nat]

\* The next state's copy of e, the copies of the others being left alone.
Becomes(e, pc, r, at, ok) ==
  /\ ex' \in [Executors -> Copies]
  /\ ex'[e].pc = pc /\ ex'[e].run = r /\ ex'[e].at = at /\ ex'[e].ok = ok
  /\ \A d \in Executors \ {e} : ex'[d] = ex[d]

\* The next state's row of r, the rows of the others being left alone.
Stored(r, status, at, ok) ==
  /\ row' \in [Runs -> Rows]
  /\ row'[r].status = status /\ row'[r].at = at /\ row'[r].ok = ok
  /\ \A q \in Runs \ {r} : row'[q] = row[q]

LEMMA CopyType ==
  ASSUME TInv, NEW e \in Executors
  PROVE  /\ ex \in [Executors -> Copies]
         /\ Len(Steps) \in Nat
         /\ ex[e].at \in Nat /\ ex[e].at <= Len(Steps)
         /\ ex[e].ok \in SUBSET Indexes /\ ex[e].ctx \in SUBSET Indexes
         /\ ex[e].attempt \in Nat
         /\ ex[e].pc # "idle" => ex[e].run \in Runs
<1>1. Len(Steps) \in Nat
  BY StepAssumption
<1>2. ex \in [Executors -> Copies] /\ ex[e] \in Copies
  BY DEF TInv, TypeOK, Copies
<1> QED BY <1>1, <1>2 DEF Copies, TInv, Base

LEMMA StoredBy ==
  ASSUME TInv, NEW r \in Runs, NEW status \in {"none"} \union Live \union Terminal,
         NEW at \in 0..Len(Steps), NEW ok \in SUBSET Indexes, Write(r, status, at, ok)
  PROVE  Stored(r, status, at, ok)
BY DEF TInv, TypeOK, Write, Rows, Stored

LEMMA LeaveEffect ==
  ASSUME TInv, NEW e \in Executors, Leave(e)
  PROVE  Becomes(e, "idle", NoRun, 0, {})
<1>1. Idle \in Copies
  <2>1. 0 \in 0..Len(Steps)
    BY StepAssumption
  <2> QED BY <2>1 DEF Idle, Copies, Pcs
<1> QED BY <1>1, CopyType DEF Leave, Becomes, Idle

LEMMA GoToEffect ==
  ASSUME TInv, NEW e \in Executors, NEW pc \in Pcs, GoTo(e, pc)
  PROVE  Becomes(e, pc, ex[e].run, ex[e].at, ex[e].ok)
BY CopyType DEF GoTo, Copies, Becomes

StartDoes(e, r) ==
  /\ ex[e].pc = "idle" /\ row[r].status = "none" /\ root[r] = NoRun
  /\ Becomes(e, "act", r, 0, {})
  /\ Stored(r, "running", 0, {})
  /\ root' = [root EXCEPT ![r] = r]
  /\ attempt' = [attempt EXCEPT ![r] = 1]
  /\ UNCHANGED <<done, granted, rejected, contested, unasked, orphaned>>

LEMMA StartEffect ==
  ASSUME TInv, NEW e \in Executors, NEW r \in Triggered, Start(e, r)
  PROVE  StartDoes(e, r)
<1>1. 0 \in 0..Len(Steps) /\ r \in Runs /\ {} \in SUBSET Indexes
  BY StepAssumption DEF Runs
<1>2. /\ ex[e] = Idle
      /\ Write(r, "running", 0, {})
      /\ ex' = [ex EXCEPT ![e] = [Idle EXCEPT !.pc = "act", !.run = r]]
  BY DEF Start
<1>3. [Idle EXCEPT !.pc = "act", !.run = r] \in Copies
  BY <1>1 DEF Idle, Copies, Pcs
<1>4. Becomes(e, "act", r, 0, {})
  BY <1>2, <1>3, CopyType DEF Idle, Becomes
<1>5. Stored(r, "running", 0, {})
  BY <1>1, <1>2, StoredBy DEF Live
<1>6. ex[e].pc = "idle"
  BY <1>2 DEF Idle
<1>7. root[r] = NoRun
  BY <1>1 DEF Start, TInv, Base
<1> QED BY <1>4, <1>5, <1>6, <1>7 DEF StartDoes, Start, history

SkipStepDoes(e) ==
  /\ ex[e].pc = "act" /\ ex[e].run \in Runs
  /\ ex[e].at < Len(Steps) /\ Steps[ex[e].at + 1] = "skip"
  /\ Becomes(e, "act", ex[e].run, ex[e].at + 1, ex[e].ok)
  /\ Stored(ex[e].run, "running", ex[e].at + 1, ex[e].ok)
  /\ UNCHANGED <<root, attempt, done, granted, rejected, contested, unasked, orphaned>>

LEMMA SkipStepEffect ==
  ASSUME TInv, NEW e \in Executors, SkipStep(e)
  PROVE  SkipStepDoes(e)
<1>1. /\ ex[e].pc = "act" /\ ex[e].at < Len(Steps) /\ Steps[ex[e].at + 1] = "skip"
      /\ ex' = [ex EXCEPT ![e].at = @ + 1]
      /\ Write(ex[e].run, "running", ex[e].at + 1, ex[e].ok)
  BY DEF SkipStep, AtStep, Next1
<1>2. ex[e].at + 1 \in 0..Len(Steps) /\ ex[e].run \in Runs
  BY <1>1, CopyType
<1>3. Becomes(e, "act", ex[e].run, ex[e].at + 1, ex[e].ok)
  BY <1>1, <1>2, CopyType DEF Copies, Becomes
<1>4. Stored(ex[e].run, "running", ex[e].at + 1, ex[e].ok)
  BY <1>1, <1>2, CopyType, StoredBy DEF Live
<1> QED BY <1>1, <1>2, <1>3, <1>4 DEF SkipStepDoes, SkipStep, history

PerformDoes(e) ==
  /\ ex[e].pc = "act" /\ ex[e].run \in Runs
  /\ ex[e].at < Len(Steps) /\ Steps[ex[e].at + 1] = "work"
  /\ \/ Becomes(e, "record", ex[e].run, ex[e].at, ex[e].ok)
     \/ Becomes(e, "fail", ex[e].run, ex[e].at, ex[e].ok)
  /\ done' = done \union {<<ex[e].run, ex[e].at + 1>>}
  /\ UNCHANGED <<row, root, attempt, granted, rejected, contested, unasked, orphaned>>

LEMMA PerformEffect ==
  ASSUME TInv, NEW e \in Executors, Perform(e)
  PROVE  PerformDoes(e)
<1>1. /\ ex[e].pc = "act" /\ ex[e].at < Len(Steps) /\ Steps[ex[e].at + 1] = "work"
      /\ GoTo(e, "record") \/ GoTo(e, "fail")
      /\ done' = done \union {<<ex[e].run, ex[e].at + 1>>}
  BY DEF Perform, AtStep, Next1
<1>2. ex[e].at \in 0..Len(Steps) /\ ex[e].run \in Runs
  BY <1>1, CopyType
<1>3. \/ Becomes(e, "record", ex[e].run, ex[e].at, ex[e].ok)
      \/ Becomes(e, "fail", ex[e].run, ex[e].at, ex[e].ok)
  BY <1>1, GoToEffect DEF Pcs
<1> QED BY <1>1, <1>2, <1>3 DEF PerformDoes, Perform, dbVars

PerformFailsDoes(e) ==
  /\ ex[e].pc = "act" /\ ex[e].run \in Runs
  /\ Becomes(e, "fail", ex[e].run, ex[e].at, ex[e].ok)
  /\ UNCHANGED <<row, root, attempt, done, granted, rejected, contested, unasked, orphaned>>

LEMMA PerformFailsEffect ==
  ASSUME TInv, NEW e \in Executors, PerformFails(e)
  PROVE  PerformFailsDoes(e)
<1>1. ex[e].pc = "act" /\ GoTo(e, "fail")
  BY DEF PerformFails, AtStep
<1> QED BY <1>1, CopyType, GoToEffect DEF PerformFailsDoes, PerformFails, Pcs, dbVars, history

AskDoes(e) ==
  /\ ex[e].pc = "act" /\ ex[e].run \in Runs
  /\ ex[e].at < Len(Steps) /\ Steps[ex[e].at + 1] = "approval"
  /\ Becomes(e, "idle", NoRun, 0, {})
  /\ Stored(ex[e].run, "waiting", ex[e].at + 1, ex[e].ok \union {ex[e].at + 1})
  /\ UNCHANGED <<root, attempt, done, granted, rejected, contested, unasked, orphaned>>

LEMMA AskEffect ==
  ASSUME TInv, NEW e \in Executors, Ask(e)
  PROVE  AskDoes(e)
<1>1. /\ ex[e].pc = "act" /\ ex[e].at < Len(Steps) /\ Steps[ex[e].at + 1] = "approval"
      /\ Leave(e)
      /\ Write(ex[e].run, "waiting", ex[e].at + 1, ex[e].ok \union {ex[e].at + 1})
  BY DEF Ask, AtStep, Next1
<1>2. ex[e].at + 1 \in 0..Len(Steps) /\ ex[e].at + 1 \in Indexes /\ ex[e].run \in Runs
  BY <1>1, CopyType DEF Indexes
<1>3. ex[e].ok \union {ex[e].at + 1} \in SUBSET Indexes
  BY <1>2, CopyType
<1>4. Stored(ex[e].run, "waiting", ex[e].at + 1, ex[e].ok \union {ex[e].at + 1})
  BY <1>1, <1>2, <1>3, StoredBy DEF Live
<1> QED BY <1>1, <1>2, <1>4, LeaveEffect DEF AskDoes, Ask, history

RecordDoes(e) ==
  /\ ex[e].pc = "record" /\ ex[e].run \in Runs /\ ex[e].at < Len(Steps)
  /\ Becomes(e, "act", ex[e].run, ex[e].at + 1, ex[e].ok \union {ex[e].at + 1})
  /\ Stored(ex[e].run, "running", ex[e].at + 1, ex[e].ok \union {ex[e].at + 1})
  /\ UNCHANGED <<root, attempt, done, granted, rejected, contested, unasked, orphaned>>

LEMMA RecordEffect ==
  ASSUME TInv, NEW e \in Executors, Record(e)
  PROVE  RecordDoes(e)
<1> DEFINE ok == ex[e].ok \union {ex[e].at + 1}
           ctx == ex[e].ctx \union {ex[e].at + 1}
<1>1. /\ ex[e].pc = "record"
      /\ Write(ex[e].run, "running", ex[e].at + 1, ok)
      /\ ex' = [ex EXCEPT ![e] = [@ EXCEPT !.pc = "act", !.at = ex[e].at + 1, !.ok = ok,
                                            !.ctx = ex[e].ctx \union {ex[e].at + 1}]]
  BY DEF Record, Next1
<1>2. ex[e].at < Len(Steps)
  BY <1>1 DEF TInv, Base
<1>3. ex[e].at + 1 \in 0..Len(Steps) /\ ex[e].at + 1 \in Indexes /\ ex[e].run \in Runs
  BY <1>1, <1>2, CopyType DEF Indexes
<1>4. ok \in SUBSET Indexes /\ ctx \in SUBSET Indexes
  BY <1>3, CopyType
<1>5. Becomes(e, "act", ex[e].run, ex[e].at + 1, ok)
  <2> DEFINE x == [ex[e] EXCEPT !.pc = "act", !.at = ex[e].at + 1, !.ok = ok,
                                !.ctx = ex[e].ctx \union {ex[e].at + 1}]
  <2>1. ex' = [ex EXCEPT ![e] = x]
    BY <1>1
  <2>2. ex[e] \in Copies
    BY CopyType
  <2>3. /\ x \in Copies
        /\ x.pc = "act" /\ x.run = ex[e].run /\ x.at = ex[e].at + 1 /\ x.ok = ok
    BY <1>3, <1>4, <2>2 DEF Copies, Pcs
  <2> HIDE DEF x
  <2> QED BY <2>1, <2>3, CopyType DEF Becomes
<1> HIDE DEF ok, ctx
<1>6. Stored(ex[e].run, "running", ex[e].at + 1, ok)
  BY <1>1, <1>3, <1>4, StoredBy DEF Live
<1> QED BY <1>1, <1>2, <1>3, <1>5, <1>6 DEF RecordDoes, Record, history, ok

RecordFailureDoes(e) ==
  /\ ex[e].pc = "fail" /\ ex[e].run \in Runs
  /\ Becomes(e, "end", ex[e].run, ex[e].at, ex[e].ok)
  /\ Stored(ex[e].run, "running", ex[e].at, ex[e].ok) \/ row' = row
  /\ UNCHANGED <<root, attempt, done, granted, rejected, contested, unasked, orphaned>>

LEMMA RecordFailureEffect ==
  ASSUME TInv, NEW e \in Executors, RecordFailure(e)
  PROVE  RecordFailureDoes(e)
<1>1. /\ ex[e].pc = "fail" /\ GoTo(e, "end")
      /\ Write(ex[e].run, "running", ex[e].at, ex[e].ok) \/ row' = row
  BY DEF RecordFailure
<1>2. ex[e].at \in 0..Len(Steps) /\ ex[e].run \in Runs
  BY <1>1, CopyType
<1>3. Stored(ex[e].run, "running", ex[e].at, ex[e].ok) \/ row' = row
  BY <1>1, <1>2, CopyType, StoredBy DEF Live
<1> QED BY <1>1, <1>2, <1>3, GoToEffect DEF RecordFailureDoes, RecordFailure, Pcs, history

\* What the executor's copy says once the step is over.
Outcome(e) ==
  IF Steps[ex[e].at + 1] = "skip" THEN ex[e].ok ELSE ex[e].ok \union {ex[e].at + 1}

WriteFailsDoes(e) ==
  /\ ex[e].pc \in {"act", "record"} /\ ex[e].run \in Runs /\ ex[e].at < Len(Steps)
  /\ ex[e].pc = "record" \/ Steps[ex[e].at + 1] # "work"
  /\ Becomes(e, "end", ex[e].run, ex[e].at + 1, Outcome(e))
  /\ unasked' = IF Steps[ex[e].at + 1] = "approval"
                  THEN unasked \union {<<ex[e].run, ex[e].at + 1>>} ELSE unasked
  /\ UNCHANGED <<row, root, attempt, done, granted, rejected, contested, orphaned>>

LEMMA WriteFailsEffect ==
  ASSUME TInv, NEW e \in Executors, WriteFails(e)
  PROVE  WriteFailsDoes(e)
<1>1. /\ ex[e].pc = "record" \/ (ex[e].pc = "act" /\ ex[e].at < Len(Steps)
                                /\ Steps[ex[e].at + 1] # "work")
      /\ ex' = [ex EXCEPT ![e] = [@ EXCEPT !.pc = "end", !.at = ex[e].at + 1,
                                            !.ok = Outcome(e)]]
      /\ unasked' = IF Steps[ex[e].at + 1] = "approval"
                      THEN unasked \union {<<ex[e].run, ex[e].at + 1>>} ELSE unasked
  BY DEF WriteFails, AtStep, Next1, Outcome
<1>2. ex[e].pc \in {"act", "record"} /\ ex[e].at < Len(Steps)
  BY <1>1 DEF TInv, Base
<1>3. ex[e].at + 1 \in 0..Len(Steps) /\ ex[e].at + 1 \in Indexes /\ ex[e].run \in Runs
  BY <1>2, CopyType DEF Indexes
<1>4. Outcome(e) \in SUBSET Indexes
  BY <1>3, CopyType DEF Outcome
<1>5. Becomes(e, "end", ex[e].run, ex[e].at + 1, Outcome(e))
  <2> DEFINE x == [ex[e] EXCEPT !.pc = "end", !.at = ex[e].at + 1, !.ok = Outcome(e)]
  <2>1. ex' = [ex EXCEPT ![e] = x]
    BY <1>1
  <2>2. ex[e] \in Copies
    BY CopyType
  <2>3. /\ x \in Copies
        /\ x.pc = "end" /\ x.run = ex[e].run /\ x.at = ex[e].at + 1 /\ x.ok = Outcome(e)
    BY <1>3, <1>4, <2>2 DEF Copies, Pcs
  <2> HIDE DEF x
  <2> QED BY <2>1, <2>3, CopyType DEF Becomes
<1> QED BY <1>1, <1>2, <1>3, <1>5 DEF WriteFailsDoes, WriteFails, dbVars

\* Both ends of an execution.
EndDoes(e) ==
  /\ ex[e].pc \in {"act", "end"} /\ ex[e].run \in Runs
  /\ Becomes(e, "idle", NoRun, 0, {})
  /\ \/ Stored(ex[e].run, "failed", ex[e].at, ex[e].ok)
     \/ Stored(ex[e].run, "succeeded", ex[e].at, ex[e].ok)
  /\ UNCHANGED <<root, attempt, done, granted, rejected, contested, unasked, orphaned>>

LEMMA EndEffect ==
  ASSUME TInv, NEW e \in Executors, EndFailed(e) \/ EndSucceeded(e)
  PROVE  EndDoes(e)
<1>1. /\ ex[e].pc \in {"act", "end"} /\ Leave(e)
      /\ \/ Write(ex[e].run, "failed", ex[e].at, ex[e].ok)
         \/ Write(ex[e].run, "succeeded", ex[e].at, ex[e].ok)
  BY DEF EndFailed, EndSucceeded
<1>2. ex[e].at \in 0..Len(Steps) /\ ex[e].run \in Runs
  BY <1>1, CopyType
<1>3. \/ Stored(ex[e].run, "failed", ex[e].at, ex[e].ok)
      \/ Stored(ex[e].run, "succeeded", ex[e].at, ex[e].ok)
  BY <1>1, <1>2, CopyType, StoredBy DEF Terminal
<1> QED BY <1>1, <1>2, <1>3, LeaveEffect DEF EndDoes, EndFailed, EndSucceeded, history

AnswerDoes(e, r, pc) ==
  /\ ex[e].pc = "idle" /\ row[r].status = "waiting"
  /\ Becomes(e, pc, r, row[r].at, row[r].ok)
  /\ contested' = IF Working(r) = {} THEN contested ELSE contested \union {r}

LEMMA AnswerEffect ==
  ASSUME TInv, NEW e \in Executors, NEW r \in Runs, NEW pc \in Pcs, Answer(e, r, pc)
  PROVE  AnswerDoes(e, r, pc)
<1>1. /\ ex[e] = Idle /\ row[r].status = "waiting"
      /\ ex' = [ex EXCEPT ![e] = [Idle EXCEPT !.pc = pc, !.run = r,
                                              !.at = row[r].at, !.ok = row[r].ok]]
      /\ contested' = IF Working(r) = {} THEN contested ELSE contested \union {r}
  BY DEF Answer
<1>2. row[r].at \in 0..Len(Steps) /\ row[r].ok \in SUBSET Indexes
  BY DEF TInv, TypeOK, Rows
<1>3. [Idle EXCEPT !.pc = pc, !.run = r, !.at = row[r].at, !.ok = row[r].ok] \in Copies
  BY <1>2 DEF Idle, Copies
<1>4. Becomes(e, pc, r, row[r].at, row[r].ok)
  BY <1>1, <1>3, CopyType DEF Idle, Becomes
<1> QED BY <1>1, <1>4 DEF AnswerDoes, Idle

RejectWriteDoes(e) ==
  /\ ex[e].pc = "reject" /\ ex[e].run \in Runs
  /\ Becomes(e, "idle", NoRun, 0, {})
  /\ Stored(ex[e].run, "failed", ex[e].at, ex[e].ok)
  /\ rejected' = rejected \union {<<ex[e].run, ex[e].at>>}
  /\ UNCHANGED <<root, attempt, done, granted, contested, unasked, orphaned>>

LEMMA RejectWriteEffect ==
  ASSUME TInv, NEW e \in Executors, RejectWrite(e)
  PROVE  RejectWriteDoes(e)
<1>1. ex[e].pc = "reject" /\ Leave(e) /\ Write(ex[e].run, "failed", ex[e].at, ex[e].ok)
  BY DEF RejectWrite
<1>2. ex[e].at \in 0..Len(Steps) /\ ex[e].run \in Runs
  BY <1>1, CopyType
<1>3. Stored(ex[e].run, "failed", ex[e].at, ex[e].ok)
  BY <1>1, <1>2, CopyType, StoredBy DEF Terminal
<1> QED BY <1>1, <1>2, <1>3, LeaveEffect DEF RejectWriteDoes, RejectWrite

RetryReadDoes(e, f) ==
  /\ ex[e].pc = "idle" /\ row[f].status = "failed"
  /\ Becomes(e, "plan", f, row[f].at, {})
  /\ UNCHANGED <<row, root, attempt, done, granted, rejected, contested, unasked, orphaned>>

LEMMA RetryReadEffect ==
  ASSUME TInv, NEW e \in Executors, NEW f \in Runs, RetryRead(e, f)
  PROVE  RetryReadDoes(e, f)
<1>1. /\ ex[e] = Idle /\ row[f].status = "failed"
      /\ ex' = [ex EXCEPT ![e] = [Idle EXCEPT !.pc = "plan", !.run = f, !.at = row[f].at]]
  BY DEF RetryRead
<1>2. row[f].at \in 0..Len(Steps)
  BY DEF TInv, TypeOK, Rows
<1>3. [Idle EXCEPT !.pc = "plan", !.run = f, !.at = row[f].at] \in Copies
  BY <1>2 DEF Idle, Copies, Pcs
<1>4. Becomes(e, "plan", f, row[f].at, {})
  BY <1>1, <1>3, CopyType DEF Idle, Becomes
<1> QED BY <1>1, <1>4 DEF RetryReadDoes, Idle, RetryRead, dbVars, history

\* The number a retry is given is greater than that of every attempt, and the
\* outputs it is given are those of the attempts up to the failed one.
RetryPlanDoes(e) ==
  /\ ex[e].pc = "plan" /\ ex[e].run \in Runs
  /\ Becomes(e, "insert", ex[e].run, ex[e].at, ex[e].ok)
  /\ attempt[ex[e].run] < ex'[e].attempt
  /\ \A q \in Lineage(ex[e].run) :
       attempt[q] <= attempt[ex[e].run] => row[q].ok \subseteq ex'[e].ctx
  /\ UNCHANGED <<row, root, attempt, done, granted, rejected, contested, unasked, orphaned>>

LEMMA RetryPlanEffect ==
  ASSUME TInv, NEW e \in Executors, RetryPlan(e)
  PROVE  RetryPlanDoes(e)
<1> DEFINE f == ex[e].run
           earlier == {q \in Lineage(f) : attempt[q] <= attempt[f]}
           A == {attempt[q] : q \in Lineage(f)}
           last == CHOOSE n \in {attempt[q] : q \in Lineage(f)} :
                     \A q \in Lineage(f) : attempt[q] <= n
           ctx == UNION {row[q].ok : q \in earlier}
<1>1. /\ ex[e].pc = "plan"
      /\ ex' = [ex EXCEPT ![e] = [@ EXCEPT !.pc = "insert", !.attempt = last + 1, !.ctx = ctx]]
      /\ UNCHANGED <<row, root, attempt, done, granted, rejected, contested, unasked, orphaned>>
  BY DEF RetryPlan, dbVars, history
<1>2. f \in Runs /\ f \in Lineage(f) /\ Lineage(f) \subseteq Runs
  <2>1. f \in Runs /\ row[f].status # "none"
    BY <1>1, CopyType DEF TInv, Base
  <2> QED BY <2>1 DEF Lineage
<1>3. last \in Nat /\ \A q \in Lineage(f) : attempt[q] <= last
  <2>1. PICK n \in Nat : \A r \in Runs : attempt[r] <= n
    BY DEF TInv, Bounded
  <2>2. A \in SUBSET Nat /\ A # {}
    BY <1>2 DEF TInv, TypeOK
  <2>3. \A s \in A : s <= n
    BY <1>2, <2>1
  <2>4. \E m \in A : \A s \in A : s <= m
    BY <2>2, <2>3, MaxExists
  <2>5. \E m \in A : \A q \in Lineage(f) : attempt[q] <= m
    BY <2>4
  <2> QED BY <2>2, <2>5
<1>4. ctx \in SUBSET Indexes /\ \A q \in earlier : row[q].ok \subseteq ctx
  <2>1. \A q \in earlier : row[q].ok \subseteq Indexes
    BY <1>2 DEF TInv, TypeOK, Rows
  <2> QED BY <2>1
<1>5. attempt[f] \in Nat /\ attempt[f] <= last
  BY <1>2, <1>3 DEF TInv, TypeOK
<1>6. \A q \in Lineage(f) : attempt[q] <= attempt[f] => row[q].ok \subseteq ctx
  BY <1>4
<1> HIDE DEF f, last, ctx, earlier
<1>7. [ex[e] EXCEPT !.pc = "insert", !.attempt = last + 1, !.ctx = ctx] \in Copies
  <2>1. ex[e] \in Copies /\ last + 1 \in Nat
    BY <1>3, CopyType
  <2> QED BY <1>4, <2>1 DEF Copies, Pcs
<1>8. Becomes(e, "insert", ex[e].run, ex[e].at, ex[e].ok)
      /\ ex'[e].attempt = last + 1 /\ ex'[e].ctx = ctx
  BY <1>1, <1>7, CopyType DEF Copies, Becomes
<1>9. attempt[f] < ex'[e].attempt
  BY <1>3, <1>5, <1>8
<1> QED BY <1>1, <1>2, <1>6, <1>8, <1>9 DEF RetryPlanDoes, f

RetryInsertDoes(e, r) ==
  /\ ex[e].pc = "insert" /\ ex[e].run \in Runs /\ r \in Runs
  /\ root[r] = NoRun /\ row[r].status = "none"
  /\ root[ex[e].run] # NoRun /\ row[ex[e].run].status # "none"
  /\ Becomes(e, "act", r, ex[e].at, ex[e].ok)
  /\ Stored(r, "running", ex[e].at, {})
  /\ root' = [root EXCEPT ![r] = root[ex[e].run]]
  /\ attempt' = [attempt EXCEPT ![r] = ex[e].attempt]
  /\ UNCHANGED <<done, granted, rejected, contested, unasked, orphaned>>

LEMMA RetryInsertEffect ==
  ASSUME TInv, NEW e \in Executors, NEW r \in Retries, RetryInsert(e, r)
  PROVE  RetryInsertDoes(e, r)
<1>1. /\ ex[e].pc = "insert" /\ row[r].status = "none"
      /\ Write(r, "running", ex[e].at, {})
      /\ root' = [root EXCEPT ![r] = root[ex[e].run]]
      /\ attempt' = [attempt EXCEPT ![r] = ex[e].attempt]
      /\ ex' = [ex EXCEPT ![e] = [@ EXCEPT !.pc = "act", !.run = r]]
      /\ UNCHANGED <<done, granted, rejected, contested, unasked, orphaned>>
  BY DEF RetryInsert, history
<1>2. r \in Runs /\ ex[e].run \in Runs
  BY <1>1, CopyType DEF Runs
<1>3. /\ root[r] = NoRun /\ row[ex[e].run].status # "none"
      /\ root[ex[e].run] # NoRun
  BY <1>1, <1>2 DEF TInv, Base
<1>4. Becomes(e, "act", r, ex[e].at, ex[e].ok)
  <2>1. ex[e] \in Copies
    BY CopyType
  <2>2. /\ [ex[e] EXCEPT !.pc = "act", !.run = r] \in Copies
        /\ [ex[e] EXCEPT !.pc = "act", !.run = r].at = ex[e].at
        /\ [ex[e] EXCEPT !.pc = "act", !.run = r].ok = ex[e].ok
        /\ [ex[e] EXCEPT !.pc = "act", !.run = r].pc = "act"
        /\ [ex[e] EXCEPT !.pc = "act", !.run = r].run = r
    BY <1>2, <2>1 DEF Copies, Pcs
  <2> QED BY <1>1, <2>2, CopyType DEF Becomes
<1>5. Stored(r, "running", ex[e].at, {})
  <2>1. ex[e].at \in 0..Len(Steps) /\ {} \in SUBSET Indexes
    BY CopyType
  <2> QED BY <1>1, <1>2, <2>1, StoredBy DEF Live
<1> QED BY <1>1, <1>2, <1>3, <1>4, <1>5 DEF RetryInsertDoes

StopDoes(e) ==
  /\ Becomes(e, "idle", NoRun, 0, {})
  /\ orphaned' = orphaned \union {r \in Runs : e \in Working(r)}
  /\ UNCHANGED <<row, root, attempt, done, granted, rejected, contested, unasked>>

LEMMA StopEffect ==
  ASSUME TInv, NEW e \in Executors, Stop(e)
  PROVE  StopDoes(e)
BY LeaveEffect DEF StopDoes, Stop, dbVars

ApproveDoes(e, r) ==
  /\ AnswerDoes(e, r, "act")
  /\ granted' = granted \union {<<r, row[r].at>>}
  /\ UNCHANGED <<row, root, attempt, done, rejected, unasked, orphaned>>

RejectDoes(e, r) ==
  /\ AnswerDoes(e, r, "reject")
  /\ UNCHANGED <<row, root, attempt, done, granted, rejected, unasked, orphaned>>

ExecutorDoes(e) ==
  \/ SkipStepDoes(e) \/ PerformDoes(e) \/ PerformFailsDoes(e) \/ AskDoes(e)
  \/ RecordDoes(e) \/ RecordFailureDoes(e) \/ WriteFailsDoes(e) \/ EndDoes(e)
  \/ RejectWriteDoes(e) \/ StopDoes(e)
  \/ RetryPlanDoes(e) \/ \E r \in Retries : RetryInsertDoes(e, r)

NextDoes ==
  \/ \E e \in Executors, r \in Triggered : StartDoes(e, r)
  \/ \E e \in Executors : ExecutorDoes(e)
  \/ \E e \in Executors, r \in Runs : ApproveDoes(e, r) \/ RejectDoes(e, r)
  \/ \E e \in Executors, f \in Runs : RetryReadDoes(e, f)
  \/ UNCHANGED <<row, root, attempt, ex, done, granted, rejected, contested, unasked, orphaned>>

LEMMA NextEffect == TInv /\ [Next]_vars => NextDoes
<1> SUFFICES ASSUME TInv, [Next]_vars PROVE NextDoes
  OBVIOUS
<1>1. ASSUME NEW e \in Executors, ExecutorStep(e) PROVE ExecutorDoes(e)
  BY <1>1, SkipStepEffect, PerformEffect, PerformFailsEffect, AskEffect, RecordEffect,
     RecordFailureEffect, WriteFailsEffect, EndEffect, RejectWriteEffect, RetryPlanEffect,
     RetryInsertEffect, StopEffect
     DEF ExecutorStep, ExecutorDoes
<1>2. ASSUME NEW e \in Executors, NEW r \in Runs, Approve(e, r) \/ Reject(e, r)
      PROVE  ApproveDoes(e, r) \/ RejectDoes(e, r)
  <2>1. "act" \in Pcs /\ "reject" \in Pcs
    BY DEF Pcs
  <2> QED BY <1>2, <2>1, AnswerEffect DEF Approve, Reject, ApproveDoes, RejectDoes, dbVars
<1>3. CASE UNCHANGED vars
  BY <1>3 DEF vars, dbVars, history, NextDoes
<1> QED
  BY <1>1, <1>2, <1>3, StartEffect, RetryReadEffect DEF Next, NextDoes

-----------------------------------------------------------------------------
\* Types.

LEMMA BaseStep == TInv /\ NextDoes => Base'
<1> SUFFICES ASSUME TInv, NextDoes PROVE Base'
  OBVIOUS
<1>b. Base /\ \A d \in Executors : ex[d].pc # "idle" => ex[d].run \in Runs
  BY CopyType DEF TInv
<1> USE <1>b DEF Base, Drives, Runs, Becomes, Stored
<1>1. ASSUME NEW e \in Executors, NEW r \in Triggered, StartDoes(e, r) PROVE Base'
  <2>1. r \in Runs /\ root'[r] = r /\ \A q \in Runs \ {r} : root'[q] = root[q]
    BY <1>1 DEF StartDoes, TInv, TypeOK
  <2> QED BY <1>1, <2>1 DEF StartDoes
<1>2. ASSUME NEW e \in Executors, SkipStepDoes(e) PROVE Base'
  BY <1>2 DEF SkipStepDoes
<1>3. ASSUME NEW e \in Executors, PerformDoes(e) PROVE Base'
  BY <1>3 DEF PerformDoes
<1>4. ASSUME NEW e \in Executors, PerformFailsDoes(e) PROVE Base'
  BY <1>4 DEF PerformFailsDoes
<1>5. ASSUME NEW e \in Executors, AskDoes(e) PROVE Base'
  <2>1. ex[e].at + 1 # 0
    BY CopyType
  <2> QED BY <1>5, <2>1 DEF AskDoes
<1>6. ASSUME NEW e \in Executors, RecordDoes(e) PROVE Base'
  BY <1>6 DEF RecordDoes
<1>7. ASSUME NEW e \in Executors, RecordFailureDoes(e) PROVE Base'
  BY <1>7 DEF RecordFailureDoes
<1>8. ASSUME NEW e \in Executors, EndDoes(e) PROVE Base'
  BY <1>8 DEF EndDoes
<1>9. ASSUME NEW e \in Executors, RejectWriteDoes(e) PROVE Base'
  BY <1>9 DEF RejectWriteDoes
<1>10. ASSUME NEW e \in Executors, RetryPlanDoes(e) PROVE Base'
  BY <1>10 DEF RetryPlanDoes
<1>11. ASSUME NEW e \in Executors, NEW r \in Retries, RetryInsertDoes(e, r) PROVE Base'
  <2>1. /\ root'[r] = root[ex[e].run]
        /\ \A q \in Runs \ {r} : root'[q] = root[q]
    BY <1>11 DEF RetryInsertDoes, TInv, TypeOK
  <2> QED BY <1>11, <2>1 DEF RetryInsertDoes
<1>12. ASSUME NEW e \in Executors, NEW r \in Runs, ApproveDoes(e, r) \/ RejectDoes(e, r)
       PROVE  Base'
  BY <1>12 DEF ApproveDoes, RejectDoes, AnswerDoes
<1>13. ASSUME NEW e \in Executors, NEW f \in Runs, RetryReadDoes(e, f) PROVE Base'
  BY <1>13 DEF RetryReadDoes
<1>14. ASSUME NEW e \in Executors, StopDoes(e) PROVE Base'
  BY <1>14 DEF StopDoes
<1>16. ASSUME NEW e \in Executors, WriteFailsDoes(e) PROVE Base'
  BY <1>16 DEF WriteFailsDoes
<1>15. CASE UNCHANGED <<row, root, attempt, ex, done, granted, rejected, contested, unasked, orphaned>>
  BY <1>15
<1> QED
  BY <1>1, <1>2, <1>3, <1>4, <1>5, <1>6, <1>7, <1>8, <1>9, <1>10, <1>11, <1>12, <1>13,
     <1>14, <1>15, <1>16 DEF NextDoes, ExecutorDoes

LEMMA TypeStep == TInv /\ NextDoes => TypeOK'
<1> SUFFICES ASSUME TInv, NextDoes PROVE TypeOK'
  OBVIOUS
<1>t. /\ TypeOK
      /\ \A d \in Executors : ex[d].at \in Nat /\ ex[d].attempt \in Nat
      /\ \A d \in Executors : ex[d].pc = "reject" => ex[d].at \in Indexes /\ ex[d].run \in Runs
      /\ \A r \in Runs : row[r].status = "waiting" => row[r].at \in Indexes
  <2>1. \A r \in Runs : row[r].at \in 0..Len(Steps)
    BY DEF TInv, TypeOK, Rows
  <2> QED BY <2>1, CopyType, StepAssumption DEF TInv, Base, Indexes
<1> USE <1>t DEF TypeOK, Copies, Becomes, Stored
<1>1. ASSUME NEW e \in Executors, NEW r \in Triggered, StartDoes(e, r) PROVE TypeOK'
  BY <1>1 DEF StartDoes, Runs
<1>2. ASSUME NEW e \in Executors, SkipStepDoes(e) PROVE TypeOK'
  BY <1>2 DEF SkipStepDoes
<1>3. ASSUME NEW e \in Executors, PerformDoes(e) PROVE TypeOK'
  <2>1. <<ex[e].run, ex[e].at + 1>> \in Runs \X Indexes
    BY <1>3 DEF PerformDoes, Indexes
  <2> QED BY <1>3, <2>1 DEF PerformDoes
<1>4. ASSUME NEW e \in Executors, PerformFailsDoes(e) PROVE TypeOK'
  BY <1>4 DEF PerformFailsDoes
<1>5. ASSUME NEW e \in Executors, AskDoes(e) PROVE TypeOK'
  BY <1>5 DEF AskDoes
<1>6. ASSUME NEW e \in Executors, RecordDoes(e) PROVE TypeOK'
  BY <1>6 DEF RecordDoes
<1>7. ASSUME NEW e \in Executors, RecordFailureDoes(e) PROVE TypeOK'
  BY <1>7 DEF RecordFailureDoes
<1>8. ASSUME NEW e \in Executors, EndDoes(e) PROVE TypeOK'
  BY <1>8 DEF EndDoes
<1>9. ASSUME NEW e \in Executors, RejectWriteDoes(e) PROVE TypeOK'
  BY <1>9 DEF RejectWriteDoes
<1>10. ASSUME NEW e \in Executors, RetryPlanDoes(e) PROVE TypeOK'
  BY <1>10 DEF RetryPlanDoes
<1>11. ASSUME NEW e \in Executors, NEW r \in Retries, RetryInsertDoes(e, r) PROVE TypeOK'
  BY <1>11 DEF RetryInsertDoes
<1>12. ASSUME NEW e \in Executors, NEW r \in Runs, ApproveDoes(e, r) \/ RejectDoes(e, r) PROVE TypeOK'
  BY <1>12 DEF ApproveDoes, RejectDoes, AnswerDoes
<1>13. ASSUME NEW e \in Executors, NEW f \in Runs, RetryReadDoes(e, f) PROVE TypeOK'
  BY <1>13 DEF RetryReadDoes
<1>14. ASSUME NEW e \in Executors, StopDoes(e) PROVE TypeOK'
  BY <1>14 DEF StopDoes
<1>16. ASSUME NEW e \in Executors, WriteFailsDoes(e) PROVE TypeOK'
  <2>1. <<ex[e].run, ex[e].at + 1>> \in Runs \X Indexes
    BY <1>16 DEF WriteFailsDoes, Indexes
  <2> QED BY <1>16, <2>1 DEF WriteFailsDoes
<1>15. CASE UNCHANGED <<row, root, attempt, ex, done, granted, rejected, contested, unasked, orphaned>>
  BY <1>15
<1> QED
  BY <1>1, <1>2, <1>3, <1>4, <1>5, <1>6, <1>7, <1>8, <1>9, <1>10, <1>11, <1>12, <1>13,
     <1>14, <1>15, <1>16 DEF NextDoes, ExecutorDoes

LEMMA BoundedStep == TInv /\ NextDoes => Bounded'
<1> SUFFICES ASSUME TInv, NextDoes PROVE Bounded'
  OBVIOUS
<1>1. PICK n \in Nat : \A q \in Runs : attempt[q] <= n
  BY DEF TInv, Bounded
<1>2. ASSUME NEW r \in Runs, NEW a \in Nat, attempt' = [attempt EXCEPT ![r] = a] PROVE Bounded'
  <2>1. n + a \in Nat /\ \A q \in Runs : attempt'[q] <= n + a
    BY <1>1, <1>2 DEF TInv, TypeOK
  <2> QED BY <2>1 DEF Bounded
<1>3. CASE attempt' = attempt
  BY <1>1, <1>3 DEF Bounded
<1>4. \/ attempt' = attempt
      \/ \E r \in Runs, a \in Nat : attempt' = [attempt EXCEPT ![r] = a]
  <2>1. ASSUME NEW e \in Executors, NEW r \in Triggered, StartDoes(e, r)
        PROVE  r \in Runs /\ 1 \in Nat /\ attempt' = [attempt EXCEPT ![r] = 1]
    BY <2>1 DEF StartDoes, Runs
  <2>2. ASSUME NEW e \in Executors, NEW r \in Retries, RetryInsertDoes(e, r)
        PROVE  r \in Runs /\ ex[e].attempt \in Nat /\ attempt' = [attempt EXCEPT ![r] = ex[e].attempt]
    BY <2>2, CopyType DEF RetryInsertDoes
  <2> QED
    BY <2>1, <2>2 DEF NextDoes, ExecutorDoes, SkipStepDoes, PerformDoes, PerformFailsDoes,
       AskDoes, RecordDoes, RecordFailureDoes, EndDoes, RejectWriteDoes, RetryPlanDoes,
       ApproveDoes, RejectDoes, RetryReadDoes, WriteFailsDoes, StopDoes
<1> QED BY <1>2, <1>3, <1>4

LEMMA TInvStep == TInv /\ [Next]_vars => TInv'
BY NextEffect, BaseStep, TypeStep, BoundedStep DEF TInv

\* Rows, executors and histories keep their types, and every retry gets a number.
THEOREM TypeCorrect == Spec => []TypeOK
<1>1. TInv => TypeOK
  BY DEF TInv
<1> QED BY <1>1, TypeInit, TInvStep, PTL DEF Spec

LEMMA TInvAlways == Spec => []TInv
BY TypeInit, TInvStep, PTL DEF Spec

-----------------------------------------------------------------------------
\* Running runs.

LEMMA DrivenStep == TInv /\ RunningIsDriven /\ NextDoes => RunningIsDriven'
<1> SUFFICES ASSUME TInv, RunningIsDriven, NextDoes PROVE RunningIsDriven'
  OBVIOUS
<1>b. /\ \A r \in Runs : row[r].status = "running" =>
           (\E d \in Executors : ex[d].run = r /\ ex[d].pc \notin {"plan", "insert"}) \/ r \in orphaned
      /\ \A d \in Executors : ex[d].pc = "idle" => ex[d].run \notin Runs
  BY DEF RunningIsDriven, Working, TInv, Base
<1>g. SUFFICES ASSUME NEW q \in Runs, row'[q].status = "running"
               PROVE  \/ \E d \in Executors : ex'[d].run = q /\ ex'[d].pc \notin {"plan", "insert"}
                      \/ q \in orphaned'
  BY DEF RunningIsDriven, Working
<1> DEFINE Goal == \/ \E d \in Executors : ex'[d].run = q /\ ex'[d].pc \notin {"plan", "insert"}
                   \/ q \in orphaned'
<1> USE <1>b, <1>g DEF Becomes, Stored
<1>1. ASSUME NEW e \in Executors, NEW r \in Triggered, StartDoes(e, r) PROVE Goal
  BY <1>1 DEF StartDoes, Runs
<1>2. ASSUME NEW e \in Executors, SkipStepDoes(e) PROVE Goal
  BY <1>2 DEF SkipStepDoes
<1>3. ASSUME NEW e \in Executors, PerformDoes(e) PROVE Goal
  BY <1>3 DEF PerformDoes
<1>4. ASSUME NEW e \in Executors, PerformFailsDoes(e) PROVE Goal
  BY <1>4 DEF PerformFailsDoes
<1>5. ASSUME NEW e \in Executors, AskDoes(e) PROVE Goal
  BY <1>5 DEF AskDoes
<1>6. ASSUME NEW e \in Executors, RecordDoes(e) PROVE Goal
  BY <1>6 DEF RecordDoes
<1>7. ASSUME NEW e \in Executors, RecordFailureDoes(e) PROVE Goal
  BY <1>7 DEF RecordFailureDoes
<1>8. ASSUME NEW e \in Executors, EndDoes(e) PROVE Goal
  BY <1>8 DEF EndDoes
<1>9. ASSUME NEW e \in Executors, RejectWriteDoes(e) PROVE Goal
  BY <1>9 DEF RejectWriteDoes
<1>10. ASSUME NEW e \in Executors, RetryPlanDoes(e) PROVE Goal
  BY <1>10 DEF RetryPlanDoes
<1>11. ASSUME NEW e \in Executors, NEW r \in Retries, RetryInsertDoes(e, r) PROVE Goal
  BY <1>11 DEF RetryInsertDoes
<1>12. ASSUME NEW e \in Executors, NEW r \in Runs, ApproveDoes(e, r) PROVE Goal
  BY <1>12 DEF ApproveDoes, AnswerDoes
<1>13. ASSUME NEW e \in Executors, NEW r \in Runs, RejectDoes(e, r) PROVE Goal
  BY <1>13 DEF RejectDoes, AnswerDoes
<1>14. ASSUME NEW e \in Executors, NEW f \in Runs, RetryReadDoes(e, f) PROVE Goal
  BY <1>14 DEF RetryReadDoes
<1>15. ASSUME NEW e \in Executors, StopDoes(e) PROVE Goal
  BY <1>15 DEF StopDoes, Working
<1>17. ASSUME NEW e \in Executors, WriteFailsDoes(e) PROVE Goal
  BY <1>17 DEF WriteFailsDoes
<1>16. CASE UNCHANGED <<row, root, attempt, ex, done, granted, rejected, contested, unasked, orphaned>>
  BY <1>16
<1> QED
  BY <1>1, <1>2, <1>3, <1>4, <1>5, <1>6, <1>7, <1>8, <1>9, <1>10, <1>11, <1>12, <1>13,
     <1>14, <1>15, <1>16, <1>17 DEF NextDoes, ExecutorDoes

\* A running run, a retry's included, has an executor, which ends it or makes it
\* wait, unless one was stopped under it.
THEOREM RunningAlwaysDriven == Spec => []RunningIsDriven
<1>1. Init => RunningIsDriven
  BY DEF Init, NoRow, RunningIsDriven
<1>2. TInv /\ RunningIsDriven /\ [Next]_vars => RunningIsDriven'
  BY NextEffect, DrivenStep
<1> QED BY <1>1, <1>2, TInvAlways, PTL DEF Spec

-----------------------------------------------------------------------------
\* Finished runs.

\* A run whose approval was answered once is driven by one executor at most, and
\* by none once it has finished.
Owned ==
  /\ \A d, e \in Executors :
       Drives(d) /\ Drives(e) /\ ex[d].run = ex[e].run /\ ex[d].run \notin contested => d = e
  /\ \A e \in Executors :
       Drives(e) /\ row[ex[e].run].status \in Terminal => ex[e].run \in contested

LEMMA OwnedStep == TInv /\ Owned /\ NextDoes => Owned'
<1> SUFFICES ASSUME TInv, Owned, NextDoes PROVE Owned'
  OBVIOUS
<1>b. /\ Owned
      /\ \A d \in Executors : Drives(d) => ex[d].run \in Runs /\ root[ex[d].run] # NoRun
  BY CopyType DEF TInv, Base, Drives
<1> USE <1>b DEF Owned, Drives, Terminal, Becomes, Stored
<1>1. ASSUME NEW e \in Executors, NEW r \in Triggered, StartDoes(e, r) PROVE Owned'
  BY <1>1 DEF StartDoes, Runs
<1>2. ASSUME NEW e \in Executors, SkipStepDoes(e) PROVE Owned'
  BY <1>2 DEF SkipStepDoes
<1>3. ASSUME NEW e \in Executors, PerformDoes(e) PROVE Owned'
  BY <1>3 DEF PerformDoes
<1>4. ASSUME NEW e \in Executors, PerformFailsDoes(e) PROVE Owned'
  BY <1>4 DEF PerformFailsDoes
<1>5. ASSUME NEW e \in Executors, AskDoes(e) PROVE Owned'
  BY <1>5 DEF AskDoes
<1>6. ASSUME NEW e \in Executors, RecordDoes(e) PROVE Owned'
  BY <1>6 DEF RecordDoes
<1>7. ASSUME NEW e \in Executors, RecordFailureDoes(e) PROVE Owned'
  BY <1>7 DEF RecordFailureDoes
<1>8. ASSUME NEW e \in Executors, EndDoes(e) PROVE Owned'
  BY <1>8 DEF EndDoes
<1>9. ASSUME NEW e \in Executors, RejectWriteDoes(e) PROVE Owned'
  BY <1>9 DEF RejectWriteDoes
<1>10. ASSUME NEW e \in Executors, RetryPlanDoes(e) PROVE Owned'
  BY <1>10 DEF RetryPlanDoes
<1>11. ASSUME NEW e \in Executors, NEW r \in Retries, RetryInsertDoes(e, r) PROVE Owned'
  BY <1>11 DEF RetryInsertDoes
<1>12. ASSUME NEW e \in Executors, NEW r \in Runs, ApproveDoes(e, r) PROVE Owned'
  <2>1. Working(r) = {} => \A d \in Executors : Drives(d) => ex[d].run # r
    BY DEF Working
  <2>2. contested \subseteq contested' /\ (Working(r) # {} => r \in contested')
    BY <1>12 DEF ApproveDoes, AnswerDoes
  <2> QED BY <1>12, <2>1, <2>2 DEF ApproveDoes, AnswerDoes
<1>13. ASSUME NEW e \in Executors, NEW r \in Runs, RejectDoes(e, r) PROVE Owned'
  <2>1. Working(r) = {} => \A d \in Executors : Drives(d) => ex[d].run # r
    BY DEF Working
  <2>2. contested \subseteq contested' /\ (Working(r) # {} => r \in contested')
    BY <1>13 DEF RejectDoes, AnswerDoes
  <2> QED BY <1>13, <2>1, <2>2 DEF RejectDoes, AnswerDoes
<1>14. ASSUME NEW e \in Executors, NEW f \in Runs, RetryReadDoes(e, f) PROVE Owned'
  BY <1>14 DEF RetryReadDoes
<1>15. ASSUME NEW e \in Executors, StopDoes(e) PROVE Owned'
  BY <1>15 DEF StopDoes
<1>17. ASSUME NEW e \in Executors, WriteFailsDoes(e) PROVE Owned'
  BY <1>17 DEF WriteFailsDoes
<1>16. CASE UNCHANGED <<row, root, attempt, ex, done, granted, rejected, contested, unasked, orphaned>>
  BY <1>16
<1> QED
  BY <1>1, <1>2, <1>3, <1>4, <1>5, <1>6, <1>7, <1>8, <1>9, <1>10, <1>11, <1>12, <1>13,
     <1>14, <1>15, <1>16, <1>17 DEF NextDoes, ExecutorDoes

LEMMA OwnedAlways == Spec => []Owned
<1>1. Init => Owned
  BY DEF Init, Idle, Owned, Drives
<1>2. TInv /\ Owned /\ [Next]_vars => Owned'
  BY NextEffect, OwnedStep
<1> QED BY <1>1, <1>2, TInvAlways, PTL DEF Spec

LEMMA FinishedStep ==
  TInv /\ Owned /\ NextDoes =>
    \A r \in Runs \ contested : row[r].status \in Terminal => row'[r] = row[r]
<1> SUFFICES ASSUME TInv, Owned, NextDoes,
                    NEW q \in Runs \ contested, row[q].status \in Terminal
             PROVE  row'[q] = row[q]
  OBVIOUS
<1>b. \A e \in Executors : ex[e].run = q => ~Drives(e)
  BY DEF Owned
<1> USE <1>b DEF Drives, Terminal, Becomes, Stored
<1>1. ASSUME NEW e \in Executors, NEW r \in Triggered, StartDoes(e, r) PROVE row'[q] = row[q]
  BY <1>1 DEF StartDoes
<1>2. ASSUME NEW e \in Executors, SkipStepDoes(e) PROVE row'[q] = row[q]
  BY <1>2 DEF SkipStepDoes
<1>3. ASSUME NEW e \in Executors, PerformDoes(e) PROVE row'[q] = row[q]
  BY <1>3 DEF PerformDoes
<1>4. ASSUME NEW e \in Executors, PerformFailsDoes(e) PROVE row'[q] = row[q]
  BY <1>4 DEF PerformFailsDoes
<1>5. ASSUME NEW e \in Executors, AskDoes(e) PROVE row'[q] = row[q]
  BY <1>5 DEF AskDoes
<1>6. ASSUME NEW e \in Executors, RecordDoes(e) PROVE row'[q] = row[q]
  BY <1>6 DEF RecordDoes
<1>7. ASSUME NEW e \in Executors, RecordFailureDoes(e) PROVE row'[q] = row[q]
  BY <1>7 DEF RecordFailureDoes
<1>8. ASSUME NEW e \in Executors, EndDoes(e) PROVE row'[q] = row[q]
  BY <1>8 DEF EndDoes
<1>9. ASSUME NEW e \in Executors, RejectWriteDoes(e) PROVE row'[q] = row[q]
  BY <1>9 DEF RejectWriteDoes
<1>10. ASSUME NEW e \in Executors, RetryPlanDoes(e) PROVE row'[q] = row[q]
  BY <1>10 DEF RetryPlanDoes
<1>11. ASSUME NEW e \in Executors, NEW r \in Retries, RetryInsertDoes(e, r)
       PROVE  row'[q] = row[q]
  BY <1>11 DEF RetryInsertDoes
<1>12. ASSUME NEW e \in Executors, NEW r \in Runs, ApproveDoes(e, r) PROVE row'[q] = row[q]
  BY <1>12 DEF ApproveDoes
<1>13. ASSUME NEW e \in Executors, NEW r \in Runs, RejectDoes(e, r) PROVE row'[q] = row[q]
  BY <1>13 DEF RejectDoes
<1>14. ASSUME NEW e \in Executors, NEW f \in Runs, RetryReadDoes(e, f) PROVE row'[q] = row[q]
  BY <1>14 DEF RetryReadDoes
<1>15. ASSUME NEW e \in Executors, StopDoes(e) PROVE row'[q] = row[q]
  BY <1>15 DEF StopDoes
<1>17. ASSUME NEW e \in Executors, WriteFailsDoes(e) PROVE row'[q] = row[q]
  BY <1>17 DEF WriteFailsDoes
<1>16. CASE UNCHANGED <<row, root, attempt, ex, done, granted, rejected, contested, unasked, orphaned>>
  BY <1>16
<1> QED
  BY <1>1, <1>2, <1>3, <1>4, <1>5, <1>6, <1>7, <1>8, <1>9, <1>10, <1>11, <1>12, <1>13,
     <1>14, <1>15, <1>16, <1>17 DEF NextDoes, ExecutorDoes

\* A finished run stays as it is, unless its approval was answered twice.
THEOREM FinishedRunsStay == Spec => FinishedStays
<1>1. TInv /\ Owned /\ [Next]_vars =>
        [\A r \in Runs \ contested : row[r].status \in Terminal => row'[r] = row[r]]_vars
  BY NextEffect, FinishedStep
<1> QED BY <1>1, TInvAlways, OwnedAlways, PTL DEF Spec, FinishedStays

-----------------------------------------------------------------------------
\* Lineages.

\* r has been given a root, as every run that is driven has.
Started(r) == root[r] # NoRun

LEMMA RootKept == TInv /\ NextDoes => \A q \in Runs : Started(q) => root'[q] = root[q]
<1>1. ASSUME NEW r \in Runs, NEW v, TInv, root[r] = NoRun, root' = [root EXCEPT ![r] = v]
      PROVE  \A q \in Runs : Started(q) => root'[q] = root[q]
  BY <1>1 DEF Started, TInv, TypeOK
<1>2. ASSUME TInv, NextDoes
      PROVE  root' = root \/ \E r \in Runs, v \in Runs \union {NoRun} :
                               root[r] = NoRun /\ root' = [root EXCEPT ![r] = v]
  <2>1. ASSUME NEW e \in Executors, NEW r \in Triggered, StartDoes(e, r)
        PROVE  r \in Runs /\ root[r] = NoRun /\ root' = [root EXCEPT ![r] = r]
    BY <2>1 DEF StartDoes, Runs
  <2>2. ASSUME NEW e \in Executors, NEW r \in Retries, RetryInsertDoes(e, r)
        PROVE  /\ r \in Runs /\ root[r] = NoRun /\ root[ex[e].run] \in Runs \union {NoRun}
               /\ root' = [root EXCEPT ![r] = root[ex[e].run]]
    BY <1>2, <2>2 DEF RetryInsertDoes, TInv, TypeOK
  <2> QED
    BY <1>2, <2>1, <2>2 DEF NextDoes, ExecutorDoes, SkipStepDoes, PerformDoes, PerformFailsDoes,
       AskDoes, RecordDoes, RecordFailureDoes, EndDoes, RejectWriteDoes, RetryPlanDoes,
       ApproveDoes, RejectDoes, RetryReadDoes, WriteFailsDoes, StopDoes
<1> QED BY <1>1, <1>2

LEMMA RowKept ==
  TInv /\ NextDoes => \A q \in Runs : row[q].status # "none" => row'[q].status # "none"
<1> SUFFICES ASSUME TInv, NextDoes, NEW q \in Runs, row[q].status # "none"
             PROVE  row'[q].status # "none"
  OBVIOUS
<1> USE DEF Becomes, Stored
<1>1. ASSUME NEW e \in Executors, NEW r \in Triggered, StartDoes(e, r)
      PROVE  row'[q].status # "none"
  BY <1>1 DEF StartDoes
<1>2. ASSUME NEW e \in Executors, SkipStepDoes(e) PROVE row'[q].status # "none"
  BY <1>2 DEF SkipStepDoes
<1>3. ASSUME NEW e \in Executors, PerformDoes(e) PROVE row'[q].status # "none"
  BY <1>3 DEF PerformDoes
<1>4. ASSUME NEW e \in Executors, PerformFailsDoes(e) PROVE row'[q].status # "none"
  BY <1>4 DEF PerformFailsDoes
<1>5. ASSUME NEW e \in Executors, AskDoes(e) PROVE row'[q].status # "none"
  BY <1>5 DEF AskDoes
<1>6. ASSUME NEW e \in Executors, RecordDoes(e) PROVE row'[q].status # "none"
  BY <1>6 DEF RecordDoes
<1>7. ASSUME NEW e \in Executors, RecordFailureDoes(e) PROVE row'[q].status # "none"
  BY <1>7 DEF RecordFailureDoes
<1>8. ASSUME NEW e \in Executors, EndDoes(e) PROVE row'[q].status # "none"
  BY <1>8 DEF EndDoes
<1>9. ASSUME NEW e \in Executors, RejectWriteDoes(e) PROVE row'[q].status # "none"
  BY <1>9 DEF RejectWriteDoes
<1>10. ASSUME NEW e \in Executors, RetryPlanDoes(e) PROVE row'[q].status # "none"
  BY <1>10 DEF RetryPlanDoes
<1>11. ASSUME NEW e \in Executors, NEW r \in Retries, RetryInsertDoes(e, r)
       PROVE  row'[q].status # "none"
  BY <1>11 DEF RetryInsertDoes
<1>12. ASSUME NEW e \in Executors, NEW r \in Runs, ApproveDoes(e, r)
       PROVE  row'[q].status # "none"
  BY <1>12 DEF ApproveDoes, AnswerDoes
<1>13. ASSUME NEW e \in Executors, NEW r \in Runs, RejectDoes(e, r)
       PROVE  row'[q].status # "none"
  BY <1>13 DEF RejectDoes, AnswerDoes
<1>14. ASSUME NEW e \in Executors, NEW f \in Runs, RetryReadDoes(e, f)
       PROVE  row'[q].status # "none"
  BY <1>14 DEF RetryReadDoes
<1>15. ASSUME NEW e \in Executors, StopDoes(e) PROVE row'[q].status # "none"
  BY <1>15 DEF StopDoes
<1>17. ASSUME NEW e \in Executors, WriteFailsDoes(e) PROVE row'[q].status # "none"
  BY <1>17 DEF WriteFailsDoes
<1>16. CASE UNCHANGED <<row, root, attempt, ex, done, granted, rejected, contested, unasked, orphaned>>
  BY <1>16
<1> QED
  BY <1>1, <1>2, <1>3, <1>4, <1>5, <1>6, <1>7, <1>8, <1>9, <1>10, <1>11, <1>12, <1>13,
     <1>14, <1>15, <1>16, <1>17 DEF NextDoes, ExecutorDoes

\* A step removes no attempt from a lineage, and changes no root.
LEMMA LineageGrows ==
  ASSUME TInv, NextDoes, NEW r \in Runs, Started(r)
  PROVE  Started(r)' /\ root'[r] = root[r] /\ Lineage(r) \subseteq Lineage(r)'
<1>1. \A q \in Lineage(r) : q \in Runs /\ row[q].status # "none" /\ Started(q) /\ root[q] = root[r]
  BY DEF Lineage, Started
<1> QED BY <1>1, RootKept, RowKept DEF Lineage, Started

-----------------------------------------------------------------------------
\* Order of the steps.

\* Pairs of a run and a number n: some attempt of the run's lineage has done each
\* of the first n steps.
Cover ==
  {p \in Runs \X Nat :
     \A j \in 1..p[2] : Steps[j] = "work" =>
       \E q \in Runs : row[q].status # "none" /\ root[q] = root[p[1]] /\ <<q, j>> \in done}

\* The steps before the place of an executor or of a row have been done.
InOrder ==
  /\ \A e \in Executors : ex[e].pc # "idle" => <<ex[e].run, ex[e].at>> \in Cover
  /\ \A e \in Executors : ex[e].pc = "record" => <<ex[e].run, ex[e].at + 1>> \in done
  /\ \A r \in Runs : row[r].status # "none" => <<r, row[r].at>> \in Cover
  /\ \A r \in Runs, i \in Indexes : <<r, i>> \in done => Started(r) /\ <<r, i - 1>> \in Cover

LEMMA WhoIsStarted ==
  ASSUME TInv
  PROVE  /\ \A e \in Executors : ex[e].pc # "idle" => ex[e].run \in Runs /\ Started(ex[e].run)
         /\ \A r \in Runs : row[r].status # "none" => Started(r)
         /\ \A e \in Executors : ex[e].at \in Nat
         /\ \A r \in Runs : row[r].at \in Nat
<1>1. \A r \in Runs : row[r].at \in Nat
  BY StepAssumption DEF TInv, TypeOK, Rows
<1> QED BY <1>1, CopyType DEF TInv, Base, Drives, Started

LEMMA CoveredKept ==
  ASSUME TInv, NextDoes, done \subseteq done', NEW r \in Runs, Started(r), NEW n, <<r, n>> \in Cover
  PROVE  <<r, n>> \in Cover'
BY LineageGrows DEF Cover, Lineage

LEMMA CoveredNext ==
  ASSUME NEW r \in Runs, NEW n \in Nat, NEW m, m = n + 1, <<r, n>> \in Cover',
         \/ Steps[m] # "work"
         \/ row'[r].status # "none" /\ <<r, m>> \in done'
  PROVE  <<r, m>> \in Cover'
<1>1. m \in Nat /\ \A j \in 1..m : j \in 1..n \/ j = m
  OBVIOUS
<1> QED BY <1>1 DEF Cover

LEMMA CoveredAlike ==
  ASSUME NEW q \in Runs, NEW r \in Runs, root'[q] = root'[r], NEW n, <<q, n>> \in Cover'
  PROVE  <<r, n>> \in Cover'
BY DEF Cover

\* The step moves executor e, if it stays, and the row of x, if at all, to n.
Moved(e, x, n) ==
  /\ \A d \in Executors \ {e} : ex'[d] = ex[d]
  /\ ex'[e].pc = "idle" \/ (ex'[e].run = x /\ ex'[e].at = n)
  /\ \A q \in Runs \ {x} : row'[q] = row[q]
  /\ row'[x] = row[x] \/ row'[x].at = n

\* The new place, and the step that was done, are in order.
Tidy(e, x, n) ==
  /\ Moved(e, x, n)
  /\ <<x, n>> \in Cover'
  /\ ex'[e].pc = "record" => <<x, n + 1>> \in done'
  /\ \A q \in Runs, i \in Indexes :
       <<q, i>> \in done' => <<q, i>> \in done \/ (Started(q) /\ <<q, i - 1>> \in Cover)

LEMMA OrderMoved ==
  ASSUME TInv, InOrder, NextDoes, done \subseteq done',
         NEW e \in Executors, NEW x \in Runs, NEW n \in Nat, Tidy(e, x, n)
  PROVE  InOrder'
<1> USE DEF Tidy
<1>1. ASSUME NEW d \in Executors, ex'[d].pc # "idle" PROVE <<ex'[d].run, ex'[d].at>> \in Cover'
  <2>1. CASE d = e
    BY <1>1, <2>1 DEF Moved
  <2>2. CASE d # e
    BY <1>1, <2>2, WhoIsStarted, CoveredKept DEF InOrder, Moved
  <2> QED BY <2>1, <2>2
<1>2. ASSUME NEW d \in Executors, ex'[d].pc = "record"
      PROVE  <<ex'[d].run, ex'[d].at + 1>> \in done'
  BY <1>2 DEF InOrder, Moved
<1>3. ASSUME NEW q \in Runs, row'[q].status # "none" PROVE <<q, row'[q].at>> \in Cover'
  <2>1. CASE row'[q] = row[q]
    BY <1>3, <2>1, WhoIsStarted, CoveredKept DEF InOrder
  <2>2. CASE q = x /\ row'[x].at = n
    BY <2>2
  <2> QED BY <2>1, <2>2 DEF Moved
<1>4. ASSUME NEW q \in Runs, NEW i \in Indexes, <<q, i>> \in done'
      PROVE  Started(q)' /\ <<q, i - 1>> \in Cover'
  <2>1. Started(q) /\ <<q, i - 1>> \in Cover
    BY <1>4 DEF InOrder
  <2> QED BY <2>1, LineageGrows, CoveredKept
<1> QED BY <1>1, <1>2, <1>3, <1>4 DEF InOrder

LEMMA OrderStep == TInv /\ InOrder /\ NextDoes => InOrder'
<1> SUFFICES ASSUME TInv, InOrder, NextDoes PROVE InOrder'
  OBVIOUS
<1>d. done \subseteq done'
  BY DEF NextDoes, ExecutorDoes, StartDoes, SkipStepDoes, PerformDoes, PerformFailsDoes,
     AskDoes, RecordDoes, RecordFailureDoes, EndDoes, RejectWriteDoes, RetryPlanDoes,
     RetryInsertDoes, ApproveDoes, RejectDoes, RetryReadDoes, WriteFailsDoes, StopDoes
<1>e. ASSUME NEW e \in Executors, ex[e].pc # "idle"
      PROVE  /\ ex[e].run \in Runs /\ Started(ex[e].run) /\ ex[e].at \in Nat
             /\ <<ex[e].run, ex[e].at>> \in Cover'
  BY <1>d, <1>e, WhoIsStarted, CoveredKept DEF InOrder
<1>r. ASSUME NEW r \in Runs, row[r].status # "none"
      PROVE  row[r].at \in Nat /\ <<r, row[r].at>> \in Cover'
  BY <1>d, <1>r, WhoIsStarted, CoveredKept DEF InOrder
<1>1. ASSUME NEW e \in Executors, NEW r \in Triggered, StartDoes(e, r) PROVE InOrder'
  <2>1. r \in Runs /\ <<r, 0>> \in Cover'
    <3>1. r \in Runs /\ 0 \in Nat /\ 1..0 = {}
      BY DEF Runs
    <3> QED BY <3>1 DEF Cover
  <2>2. Moved(e, r, 0)
    BY <1>1 DEF StartDoes, Moved, Becomes, Stored
  <2>3. Tidy(e, r, 0)
    BY <1>1, <2>1, <2>2 DEF StartDoes, Tidy, Becomes
  <2> QED BY <1>d, <2>1, <2>3, OrderMoved
<1>2. ASSUME NEW e \in Executors, SkipStepDoes(e) PROVE InOrder'
  <2>1. ex[e].at + 1 \in Nat /\ <<ex[e].run, ex[e].at + 1>> \in Cover'
    <3>1. Steps[ex[e].at + 1] # "work" /\ ex[e].pc # "idle"
      BY <1>2 DEF SkipStepDoes
    <3>2. ex[e].run \in Runs /\ ex[e].at \in Nat /\ <<ex[e].run, ex[e].at>> \in Cover'
      BY <3>1, <1>e
    <3>3. ex[e].at + 1 \in Nat /\ <<ex[e].run, ex[e].at + 1>> \in Cover'
      BY <3>1, <3>2, CoveredNext
    <3> QED BY <3>3
  <2>2. Moved(e, ex[e].run, ex[e].at + 1)
    BY <1>2 DEF SkipStepDoes, Moved, Becomes, Stored
  <2>3. Tidy(e, ex[e].run, ex[e].at + 1)
    BY <1>2, <2>1, <2>2 DEF SkipStepDoes, Tidy, Becomes
  <2>4. ex[e].run \in Runs
    BY <1>2 DEF SkipStepDoes
  <2> QED BY <1>d, <2>1, <2>3, <2>4, OrderMoved
<1>3. ASSUME NEW e \in Executors, PerformDoes(e) PROVE InOrder'
  <2>1. ASSUME NEW q \in Runs, NEW i \in Indexes, <<q, i>> \in done'
        PROVE  <<q, i>> \in done \/ (Started(q) /\ <<q, i - 1>> \in Cover)
    <3>1. <<q, i>> \in done \/ (q = ex[e].run /\ i = ex[e].at + 1)
      BY <1>3, <2>1 DEF PerformDoes
    <3>2. i = ex[e].at + 1 => i - 1 = ex[e].at
      BY CopyType
    <3>3. Started(ex[e].run) /\ <<ex[e].run, ex[e].at>> \in Cover
      BY <1>3, <1>e DEF PerformDoes, InOrder
    <3> QED BY <3>1, <3>2, <3>3 DEF Started
  <2>2. Moved(e, ex[e].run, ex[e].at)
    BY <1>3 DEF PerformDoes, Moved, Becomes, Stored
  <2>3. <<ex[e].run, ex[e].at + 1>> \in done' /\ ex[e].pc # "idle"
    BY <1>3 DEF PerformDoes
  <2>4. Tidy(e, ex[e].run, ex[e].at)
    BY <1>e, <2>1, <2>2, <2>3 DEF Tidy
  <2> QED BY <1>d, <1>e, <2>3, <2>4, OrderMoved
<1>4. ASSUME NEW e \in Executors, PerformFailsDoes(e) PROVE InOrder'
  <2>1. Moved(e, ex[e].run, ex[e].at)
    BY <1>4 DEF PerformFailsDoes, Moved, Becomes, Stored
  <2>2. ex[e].pc # "idle"
    BY <1>4 DEF PerformFailsDoes
  <2>3. Tidy(e, ex[e].run, ex[e].at)
    BY <1>4, <1>e, <2>1, <2>2 DEF PerformFailsDoes, Tidy, Becomes
  <2> QED BY <1>d, <1>e, <2>2, <2>3, OrderMoved
<1>5. ASSUME NEW e \in Executors, AskDoes(e) PROVE InOrder'
  <2>1. ex[e].at + 1 \in Nat /\ <<ex[e].run, ex[e].at + 1>> \in Cover'
    <3>1. Steps[ex[e].at + 1] # "work" /\ ex[e].pc # "idle"
      BY <1>5 DEF AskDoes
    <3>2. ex[e].run \in Runs /\ ex[e].at \in Nat /\ <<ex[e].run, ex[e].at>> \in Cover'
      BY <3>1, <1>e
    <3>3. ex[e].at + 1 \in Nat /\ <<ex[e].run, ex[e].at + 1>> \in Cover'
      BY <3>1, <3>2, CoveredNext
    <3> QED BY <3>3
  <2>2. Moved(e, ex[e].run, ex[e].at + 1)
    BY <1>5 DEF AskDoes, Moved, Becomes, Stored
  <2>3. Tidy(e, ex[e].run, ex[e].at + 1)
    BY <1>5, <2>1, <2>2 DEF AskDoes, Tidy, Becomes
  <2>4. ex[e].run \in Runs
    BY <1>5 DEF AskDoes
  <2> QED BY <1>d, <2>1, <2>3, <2>4, OrderMoved
<1>6. ASSUME NEW e \in Executors, RecordDoes(e) PROVE InOrder'
  <2>1. <<ex[e].run, ex[e].at + 1>> \in done' /\ row'[ex[e].run].status # "none"
    BY <1>6 DEF InOrder, RecordDoes, Stored
  <2>2. ex[e].at + 1 \in Nat /\ <<ex[e].run, ex[e].at + 1>> \in Cover'
    <3>1. ex[e].pc # "idle"
      BY <1>6 DEF RecordDoes
    <3>2. ex[e].run \in Runs /\ ex[e].at \in Nat /\ <<ex[e].run, ex[e].at>> \in Cover'
      BY <3>1, <1>e
    <3>3. ex[e].at + 1 \in Nat /\ <<ex[e].run, ex[e].at + 1>> \in Cover'
      BY <2>1, <3>2, CoveredNext
    <3> QED BY <3>3
  <2>3. Moved(e, ex[e].run, ex[e].at + 1)
    BY <1>6 DEF RecordDoes, Moved, Becomes, Stored
  <2>4. Tidy(e, ex[e].run, ex[e].at + 1)
    BY <1>6, <2>2, <2>3 DEF RecordDoes, Tidy, Becomes
  <2>5. ex[e].run \in Runs
    BY <1>6 DEF RecordDoes
  <2> QED BY <1>d, <2>2, <2>4, <2>5, OrderMoved
<1>7. ASSUME NEW e \in Executors, RecordFailureDoes(e) PROVE InOrder'
  <2>1. Moved(e, ex[e].run, ex[e].at)
    BY <1>7 DEF RecordFailureDoes, Moved, Becomes, Stored
  <2>2. ex[e].pc # "idle"
    BY <1>7 DEF RecordFailureDoes
  <2>3. Tidy(e, ex[e].run, ex[e].at)
    BY <1>7, <1>e, <2>1, <2>2 DEF RecordFailureDoes, Tidy, Becomes
  <2> QED BY <1>d, <1>e, <2>2, <2>3, OrderMoved
<1>8. ASSUME NEW e \in Executors, EndDoes(e) PROVE InOrder'
  <2>1. Moved(e, ex[e].run, ex[e].at)
    BY <1>8 DEF EndDoes, Moved, Becomes, Stored
  <2>2. ex[e].pc # "idle"
    BY <1>8 DEF EndDoes
  <2>3. Tidy(e, ex[e].run, ex[e].at)
    BY <1>8, <1>e, <2>1, <2>2 DEF EndDoes, Tidy, Becomes
  <2> QED BY <1>d, <1>e, <2>2, <2>3, OrderMoved
<1>9. ASSUME NEW e \in Executors, RejectWriteDoes(e) PROVE InOrder'
  <2>1. Moved(e, ex[e].run, ex[e].at)
    BY <1>9 DEF RejectWriteDoes, Moved, Becomes, Stored
  <2>2. ex[e].pc # "idle"
    BY <1>9 DEF RejectWriteDoes
  <2>3. Tidy(e, ex[e].run, ex[e].at)
    BY <1>9, <1>e, <2>1, <2>2 DEF RejectWriteDoes, Tidy, Becomes
  <2> QED BY <1>d, <1>e, <2>2, <2>3, OrderMoved
<1>10. ASSUME NEW e \in Executors, RetryPlanDoes(e) PROVE InOrder'
  <2>1. Moved(e, ex[e].run, ex[e].at)
    BY <1>10 DEF RetryPlanDoes, Moved, Becomes, Stored
  <2>2. ex[e].pc # "idle"
    BY <1>10 DEF RetryPlanDoes
  <2>3. Tidy(e, ex[e].run, ex[e].at)
    BY <1>10, <1>e, <2>1, <2>2 DEF RetryPlanDoes, Tidy, Becomes
  <2> QED BY <1>d, <1>e, <2>2, <2>3, OrderMoved
<1>11. ASSUME NEW e \in Executors, NEW r \in Retries, RetryInsertDoes(e, r) PROVE InOrder'
  <2>1. root'[r] = root'[ex[e].run]
    BY <1>11 DEF RetryInsertDoes, TInv, TypeOK
  <2>2. ex[e].at \in Nat /\ <<ex[e].run, ex[e].at>> \in Cover'
    BY <1>11, <1>e DEF RetryInsertDoes
  <2>3. <<r, ex[e].at>> \in Cover'
    BY <1>11, <2>1, <2>2, CoveredAlike DEF RetryInsertDoes
  <2>4. Moved(e, r, ex[e].at)
    BY <1>11 DEF RetryInsertDoes, Moved, Becomes, Stored
  <2>5. Tidy(e, r, ex[e].at)
    BY <1>11, <2>3, <2>4 DEF RetryInsertDoes, Tidy, Becomes
  <2> QED BY <1>d, <1>11, <2>2, <2>5, OrderMoved DEF RetryInsertDoes
<1>12. ASSUME NEW e \in Executors, NEW r \in Runs, ApproveDoes(e, r) PROVE InOrder'
  <2>1. row[r].at \in Nat /\ <<r, row[r].at>> \in Cover'
    BY <1>12, <1>r DEF ApproveDoes, AnswerDoes
  <2>2. Moved(e, r, row[r].at)
    BY <1>12 DEF ApproveDoes, AnswerDoes, Moved, Becomes
  <2>3. Tidy(e, r, row[r].at)
    BY <1>12, <2>1, <2>2 DEF ApproveDoes, AnswerDoes, Tidy, Becomes
  <2> QED BY <1>d, <2>1, <2>3, OrderMoved
<1>13. ASSUME NEW e \in Executors, NEW r \in Runs, RejectDoes(e, r) PROVE InOrder'
  <2>1. row[r].at \in Nat /\ <<r, row[r].at>> \in Cover'
    BY <1>13, <1>r DEF RejectDoes, AnswerDoes
  <2>2. Moved(e, r, row[r].at)
    BY <1>13 DEF RejectDoes, AnswerDoes, Moved, Becomes
  <2>3. Tidy(e, r, row[r].at)
    BY <1>13, <2>1, <2>2 DEF RejectDoes, AnswerDoes, Tidy, Becomes
  <2> QED BY <1>d, <2>1, <2>3, OrderMoved
<1>14. ASSUME NEW e \in Executors, NEW f \in Runs, RetryReadDoes(e, f) PROVE InOrder'
  <2>1. row[f].at \in Nat /\ <<f, row[f].at>> \in Cover'
    BY <1>14, <1>r DEF RetryReadDoes
  <2>2. Moved(e, f, row[f].at)
    BY <1>14 DEF RetryReadDoes, Moved, Becomes
  <2>3. Tidy(e, f, row[f].at)
    BY <1>14, <2>1, <2>2 DEF RetryReadDoes, Tidy, Becomes
  <2> QED BY <1>d, <2>1, <2>3, OrderMoved
<1>15. ASSUME NEW e \in Executors, StopDoes(e) PROVE InOrder'
  <2>1. UNCHANGED <<row, root, done>> /\ ex'[e].pc = "idle"
        /\ \A d \in Executors \ {e} : ex'[d] = ex[d]
    BY <1>15 DEF StopDoes, Becomes
  <2>2. Cover' = Cover
    BY <2>1 DEF Cover
  <2> QED BY <2>1, <2>2 DEF InOrder, Started
<1>17. ASSUME NEW e \in Executors, WriteFailsDoes(e) PROVE InOrder'
  <2>1. ex[e].at + 1 \in Nat /\ <<ex[e].run, ex[e].at + 1>> \in Cover'
    <3>1. /\ ex[e].pc # "idle" /\ Drives(e)
          /\ Steps[ex[e].at + 1] # "work" \/ ex[e].pc = "record"
          /\ row' = row /\ done' = done
      BY <1>17 DEF WriteFailsDoes, Drives
    <3>2. ex[e].run \in Runs /\ ex[e].at \in Nat /\ <<ex[e].run, ex[e].at>> \in Cover'
      BY <3>1, <1>e
    <3>3. row'[ex[e].run].status # "none"
      BY <3>1, <3>2 DEF TInv, Base
    <3>4. Steps[ex[e].at + 1] # "work" \/ <<ex[e].run, ex[e].at + 1>> \in done'
      BY <3>1 DEF InOrder
    <3>5. ex[e].at + 1 \in Nat /\ <<ex[e].run, ex[e].at + 1>> \in Cover'
      BY <3>2, <3>3, <3>4, CoveredNext
    <3> QED BY <3>5
  <2>2. Moved(e, ex[e].run, ex[e].at + 1)
    BY <1>17 DEF WriteFailsDoes, Moved, Becomes
  <2>3. Tidy(e, ex[e].run, ex[e].at + 1)
    BY <1>17, <2>1, <2>2 DEF WriteFailsDoes, Tidy, Becomes
  <2>4. ex[e].run \in Runs
    BY <1>17 DEF WriteFailsDoes
  <2> QED BY <1>d, <2>1, <2>3, <2>4, OrderMoved
<1>16. CASE UNCHANGED <<row, root, attempt, ex, done, granted, rejected, contested, unasked, orphaned>>
  <2>1. Cover' = Cover
    BY <1>16 DEF Cover
  <2> QED BY <1>16, <2>1 DEF InOrder, Started
<1> QED
  BY <1>1, <1>2, <1>3, <1>4, <1>5, <1>6, <1>7, <1>8, <1>9, <1>10, <1>11, <1>12, <1>13,
     <1>14, <1>15, <1>16, <1>17 DEF NextDoes, ExecutorDoes

LEMMA InOrderAlways == Spec => []InOrder
<1>1. Init => InOrder
  BY DEF Init, Idle, NoRow, InOrder
<1>2. TInv /\ InOrder /\ [Next]_vars => InOrder'
  BY NextEffect, OrderStep
<1> QED BY <1>1, <1>2, TInvAlways, PTL DEF Spec

\* A step acts only after every earlier step of its lineage has.
THEOREM StepsAlwaysInOrder == Spec => []StepsInOrder
<1>1. InOrder => StepsInOrder
  BY DEF InOrder, StepsInOrder, Cover, Lineage
<1> QED BY <1>1, InOrderAlways, PTL

-----------------------------------------------------------------------------
\* Approvals.

\* Pairs of a run and a number n: each approval step among the first n has been
\* granted to an attempt of the run's lineage, or another attempt ended there,
\* rejected or because nobody could be asked.
Gate ==
  {p \in Runs \X Nat :
     \A j \in 1..p[2] : Steps[j] = "approval" =>
       \E q \in Runs : /\ row[q].status # "none" /\ root[q] = root[p[1]]
                       /\ \/ <<q, j>> \in granted
                          \/ q # p[1] /\ <<q, j>> \in rejected \union unasked}

\* The same, of a run that has failed: it may be the one that ended there.
Answered ==
  {p \in Runs \X Nat :
     \A j \in 1..p[2] : Steps[j] = "approval" =>
       \E q \in Runs : /\ row[q].status # "none" /\ root[q] = root[p[1]]
                       /\ <<q, j>> \in granted \union rejected \union unasked}

\* The executors that carry a run on, and those that deal with a failed one.
Acting == {"act", "record", "fail"}
Failing == {"end", "plan", "insert"}

\* An executor that acts is behind answered approvals only; the approval a run
\* waits for is the last step it has come to.
GateInv ==
  /\ \A e \in Executors : ex[e].pc \in Acting => <<ex[e].run, ex[e].at>> \in Gate
  /\ \A e \in Executors : ex[e].pc = "reject" => <<ex[e].run, ex[e].at - 1>> \in Gate
  /\ \A e \in Executors : ex[e].pc \in Failing => <<ex[e].run, ex[e].at>> \in Answered
  /\ \A r \in Runs : row[r].status = "waiting" => <<r, row[r].at - 1>> \in Gate
  /\ \A r \in Runs : row[r].status = "failed" => <<r, row[r].at>> \in Answered
  /\ \A r \in Runs, i \in Indexes : <<r, i>> \in done => Started(r) /\ <<r, i - 1>> \in Gate

AnswersGrow ==
  granted \subseteq granted' /\ rejected \subseteq rejected' /\ unasked \subseteq unasked'

LEMMA GateKept ==
  ASSUME TInv, NextDoes, AnswersGrow, NEW r \in Runs, Started(r), NEW n
  PROVE  /\ <<r, n>> \in Gate => <<r, n>> \in Gate'
         /\ <<r, n>> \in Answered => <<r, n>> \in Answered'
<1>1. /\ root'[r] = root[r]
      /\ \A q \in Runs : row[q].status # "none" /\ root[q] = root[r] =>
                       row'[q].status # "none" /\ root'[q] = root[r]
  BY LineageGrows DEF Lineage
<1>2. <<r, n>> \in Gate => <<r, n>> \in Gate'
  BY <1>1 DEF Gate, AnswersGrow
<1>3. <<r, n>> \in Answered => <<r, n>> \in Answered'
  BY <1>1 DEF Answered, AnswersGrow
<1> QED BY <1>2, <1>3

LEMMA GateNext ==
  ASSUME NEW r \in Runs, NEW n \in Nat, NEW m, m = n + 1, <<r, n>> \in Gate',
         Steps[m] # "approval" \/ (row'[r].status # "none" /\ <<r, m>> \in granted')
  PROVE  <<r, m>> \in Gate'
<1>1. m \in Nat /\ \A j \in 1..m : j \in 1..n \/ j = m
  OBVIOUS
<1> QED BY <1>1 DEF Gate

LEMMA GateAnswered ==
  ASSUME NEW r \in Runs, NEW n
  PROVE  <<r, n>> \in Gate' => <<r, n>> \in Answered'
BY DEF Gate, Answered

LEMMA AnsweredNext ==
  ASSUME NEW r \in Runs, NEW n \in Nat, NEW m, m = n + 1, <<r, n>> \in Gate',
         \/ Steps[m] # "approval"
         \/ row'[r].status # "none" /\ <<r, m>> \in rejected' \union unasked'
  PROVE  <<r, m>> \in Answered'
<1>1. m \in Nat /\ \A j \in 1..m : j \in 1..n \/ j = m
  OBVIOUS
<1> QED BY <1>1 DEF Gate, Answered

\* An attempt that has no row yet is none of those that ended at an approval.
LEMMA AnsweredForNew ==
  ASSUME TInv, NextDoes, AnswersGrow, NEW f \in Runs, NEW r \in Runs, Started(f),
         root'[r] = root'[f], row[r].status = "none", NEW n, <<f, n>> \in Answered
  PROVE  <<r, n>> \in Gate'
<1>1. n \in Nat
  BY DEF Answered
<1>2. ASSUME NEW j \in 1..n, Steps[j] = "approval"
      PROVE  \E q \in Runs : /\ row'[q].status # "none" /\ root'[q] = root'[r]
                             /\ \/ <<q, j>> \in granted'
                                \/ q # r /\ <<q, j>> \in rejected' \union unasked'
  <2>1. PICK q \in Runs : /\ row[q].status # "none" /\ root[q] = root[f]
                          /\ <<q, j>> \in granted \union rejected \union unasked
    BY <1>2 DEF Answered
  <2>2. row'[q].status # "none" /\ root'[q] = root'[r] /\ q # r
    BY <2>1, LineageGrows DEF Lineage
  <2> QED BY <2>1, <2>2 DEF AnswersGrow
<1> QED BY <1>1, <1>2 DEF Gate

\* The new places of one executor and one row, and the step that was done, are
\* behind answered approvals.
GateTidy(e, x) ==
  /\ \A d \in Executors \ {e} : ex'[d] = ex[d]
  /\ \/ ex'[e].pc = "idle"
     \/ ex'[e].pc \in Acting /\ <<ex'[e].run, ex'[e].at>> \in Gate'
     \/ ex'[e].pc = "reject" /\ <<ex'[e].run, ex'[e].at - 1>> \in Gate'
     \/ ex'[e].pc \in Failing /\ <<ex'[e].run, ex'[e].at>> \in Answered'
  /\ \A q \in Runs \ {x} : row'[q] = row[q]
  /\ \/ row'[x] = row[x]
     \/ row'[x].status \in {"running", "succeeded"}
     \/ row'[x].status = "waiting" /\ <<x, row'[x].at - 1>> \in Gate'
     \/ row'[x].status = "failed" /\ <<x, row'[x].at>> \in Answered'

StepTidy ==
  \A q \in Runs, i \in Indexes :
    <<q, i>> \in done' => <<q, i>> \in done \/ (Started(q) /\ <<q, i - 1>> \in Gate)

LEMMA GateMoved ==
  ASSUME TInv, GateInv, NextDoes, AnswersGrow, StepTidy,
         NEW e \in Executors, NEW x \in Runs, GateTidy(e, x)
  PROVE  GateInv'
<1>1. ASSUME NEW d \in Executors
      PROVE  /\ ex'[d].pc \in Acting => <<ex'[d].run, ex'[d].at>> \in Gate'
             /\ ex'[d].pc = "reject" => <<ex'[d].run, ex'[d].at - 1>> \in Gate'
             /\ ex'[d].pc \in Failing => <<ex'[d].run, ex'[d].at>> \in Answered'
  <2>1. CASE d = e
    BY <2>1 DEF GateTidy, Acting, Failing
  <2>2. CASE d # e
    <3>1. ex'[d] = ex[d]
      BY <2>2 DEF GateTidy
    <3>2. ex[d].pc # "idle" =>
            /\ <<ex[d].run, ex[d].at>> \in Gate => <<ex[d].run, ex[d].at>> \in Gate'
            /\ <<ex[d].run, ex[d].at - 1>> \in Gate => <<ex[d].run, ex[d].at - 1>> \in Gate'
            /\ <<ex[d].run, ex[d].at>> \in Answered => <<ex[d].run, ex[d].at>> \in Answered'
      BY WhoIsStarted, GateKept
    <3>3. /\ ex[d].pc \in Acting => <<ex[d].run, ex[d].at>> \in Gate
          /\ ex[d].pc = "reject" => <<ex[d].run, ex[d].at - 1>> \in Gate
          /\ ex[d].pc \in Failing => <<ex[d].run, ex[d].at>> \in Answered
      BY DEF GateInv
    <3>4. ex[d].pc \in Acting \/ ex[d].pc = "reject" \/ ex[d].pc \in Failing =>
            ex[d].pc # "idle"
      BY DEF Acting, Failing
    <3> QED BY <3>1, <3>2, <3>3, <3>4
  <2> QED BY <2>1, <2>2
<1>2. ASSUME NEW q \in Runs
      PROVE  /\ row'[q].status = "waiting" => <<q, row'[q].at - 1>> \in Gate'
             /\ row'[q].status = "failed" => <<q, row'[q].at>> \in Answered'
  <2>1. CASE row'[q] = row[q]
    <3>1. row[q].status # "none" =>
            /\ <<q, row[q].at - 1>> \in Gate => <<q, row[q].at - 1>> \in Gate'
            /\ <<q, row[q].at>> \in Answered => <<q, row[q].at>> \in Answered'
      BY WhoIsStarted, GateKept
    <3>2. /\ row[q].status = "waiting" => <<q, row[q].at - 1>> \in Gate
          /\ row[q].status = "failed" => <<q, row[q].at>> \in Answered
      BY DEF GateInv
    <3> QED BY <2>1, <3>1, <3>2
  <2>2. CASE row'[q] # row[q]
    BY <2>2 DEF GateTidy
  <2> QED BY <2>1, <2>2
<1>3. ASSUME NEW q \in Runs, NEW i \in Indexes, <<q, i>> \in done'
      PROVE  Started(q)' /\ <<q, i - 1>> \in Gate'
  <2>1. Started(q) /\ <<q, i - 1>> \in Gate
    BY <1>3 DEF GateInv, StepTidy
  <2> QED BY <2>1, LineageGrows, GateKept
<1> QED BY <1>1, <1>2, <1>3 DEF GateInv

LEMMA GateStep == TInv /\ GateInv /\ NextDoes => GateInv'
<1> SUFFICES ASSUME TInv, GateInv, NextDoes PROVE GateInv'
  OBVIOUS
<1>g. AnswersGrow
  BY DEF AnswersGrow, NextDoes, ExecutorDoes, StartDoes, SkipStepDoes, PerformDoes,
     PerformFailsDoes, AskDoes, RecordDoes, RecordFailureDoes, EndDoes, RejectWriteDoes,
     RetryPlanDoes, RetryInsertDoes, ApproveDoes, RejectDoes, RetryReadDoes, WriteFailsDoes, StopDoes
<1>s. done' = done => StepTidy
  BY DEF StepTidy
<1>e. ASSUME NEW e \in Executors, ex[e].pc # "idle"
      PROVE  /\ ex[e].run \in Runs /\ Started(ex[e].run) /\ ex[e].at \in Nat
             /\ ex[e].pc \in Acting => <<ex[e].run, ex[e].at>> \in Gate
             /\ ex[e].pc \in Acting => <<ex[e].run, ex[e].at>> \in Gate'
             /\ ex[e].pc = "reject" => <<ex[e].run, ex[e].at - 1>> \in Gate'
             /\ ex[e].pc \in Failing => <<ex[e].run, ex[e].at>> \in Answered
             /\ ex[e].pc \in Failing => <<ex[e].run, ex[e].at>> \in Answered'
  <2>1. /\ ex[e].run \in Runs /\ Started(ex[e].run) /\ ex[e].at \in Nat
        /\ <<ex[e].run, ex[e].at>> \in Gate => <<ex[e].run, ex[e].at>> \in Gate'
        /\ <<ex[e].run, ex[e].at - 1>> \in Gate => <<ex[e].run, ex[e].at - 1>> \in Gate'
        /\ <<ex[e].run, ex[e].at>> \in Answered => <<ex[e].run, ex[e].at>> \in Answered'
    BY <1>g, <1>e, WhoIsStarted, GateKept
  <2>2. /\ ex[e].pc \in Acting => <<ex[e].run, ex[e].at>> \in Gate
        /\ ex[e].pc = "reject" => <<ex[e].run, ex[e].at - 1>> \in Gate
        /\ ex[e].pc \in Failing => <<ex[e].run, ex[e].at>> \in Answered
    BY DEF GateInv
  <2> QED BY <2>1, <2>2
<1>r. ASSUME NEW r \in Runs, row[r].status # "none"
      PROVE  /\ row[r].at \in Nat
             /\ row[r].status = "waiting" => <<r, row[r].at - 1>> \in Gate'
             /\ row[r].status = "failed" => <<r, row[r].at>> \in Answered'
  <2>1. /\ row[r].at \in Nat
        /\ <<r, row[r].at - 1>> \in Gate => <<r, row[r].at - 1>> \in Gate'
        /\ <<r, row[r].at>> \in Answered => <<r, row[r].at>> \in Answered'
    BY <1>g, <1>r, WhoIsStarted, GateKept
  <2>2. /\ row[r].status = "waiting" => <<r, row[r].at - 1>> \in Gate
        /\ row[r].status = "failed" => <<r, row[r].at>> \in Answered
    BY DEF GateInv
  <2> QED BY <2>1, <2>2
<1>1. ASSUME NEW e \in Executors, NEW r \in Triggered, StartDoes(e, r) PROVE GateInv'
  <2>1. /\ \A d \in Executors \ {e} : ex'[d] = ex[d]
        /\ ex'[e].pc = "act" /\ ex'[e].run = r /\ ex'[e].at = 0
        /\ \A q \in Runs \ {r} : row'[q] = row[q]
        /\ row'[r].status = "running" /\ done' = done
    BY <1>1 DEF StartDoes, Becomes, Stored
  <2>2. r \in Runs /\ <<r, 0>> \in Gate'
    <3>1. r \in Runs /\ 0 \in Nat /\ 1..0 = {}
      BY DEF Runs
    <3> QED BY <3>1 DEF Gate
  <2>3. GateTidy(e, r)
    BY <2>1, <2>2 DEF GateTidy, Acting, Failing
  <2> QED BY <1>g, <1>s, <2>1, <2>2, <2>3, GateMoved
<1>2. ASSUME NEW e \in Executors, SkipStepDoes(e) PROVE GateInv'
  <2>1. /\ ex[e].pc = "act"
        /\ \A d \in Executors \ {e} : ex'[d] = ex[d]
        /\ Steps[ex[e].at + 1] # "approval"
        /\ ex'[e].pc = "act" /\ ex'[e].run = ex[e].run /\ ex'[e].at = ex[e].at + 1
        /\ \A q \in Runs \ {ex[e].run} : row'[q] = row[q]
        /\ row'[ex[e].run].status = "running" /\ row'[ex[e].run].at = ex[e].at + 1 /\ done' = done
    BY <1>2 DEF SkipStepDoes, Becomes, Stored
  <2>2. /\ ex[e].run \in Runs /\ ex[e].at \in Nat
        /\ <<ex[e].run, ex[e].at>> \in Gate'
    BY <1>e, <2>1 DEF Acting, Failing
  <2>3. <<ex[e].run, ex[e].at + 1>> \in Gate'
    BY <2>1, <2>2, GateNext
  <2>4. GateTidy(e, ex[e].run)
    BY <2>1, <2>3 DEF GateTidy, Acting, Failing
  <2> QED BY <1>g, <1>s, <2>1, <2>2, <2>4, GateMoved
<1>3. ASSUME NEW e \in Executors, PerformDoes(e) PROVE GateInv'
  <2>1. /\ ex[e].pc = "act"
        /\ \A d \in Executors \ {e} : ex'[d] = ex[d]
        /\ ex'[e].pc \in {"record", "fail"} /\ ex'[e].run = ex[e].run /\ ex'[e].at = ex[e].at
        /\ row' = row /\ done' = done \union {<<ex[e].run, ex[e].at + 1>>}
    BY <1>3 DEF PerformDoes, Becomes
  <2>2. /\ ex[e].run \in Runs /\ ex[e].at \in Nat /\ Started(ex[e].run)
        /\ <<ex[e].run, ex[e].at>> \in Gate
        /\ <<ex[e].run, ex[e].at>> \in Gate'
    BY <1>e, <2>1 DEF Acting, Failing
  <2>3. ASSUME NEW q \in Runs, NEW i \in Indexes, <<q, i>> \in done'
        PROVE  <<q, i>> \in done \/ (Started(q) /\ <<q, i - 1>> \in Gate)
    <3>1. <<q, i>> \in done \/ (q = ex[e].run /\ i = ex[e].at + 1)
      BY <2>1, <2>3
    <3>2. i = ex[e].at + 1 => i - 1 = ex[e].at
      BY <2>2
    <3> QED BY <3>1, <3>2, <2>2 DEF Started
  <2>4. GateTidy(e, ex[e].run)
    BY <2>1, <2>2 DEF GateTidy, Acting, Failing
  <2>5. StepTidy
    BY <2>3 DEF StepTidy
  <2> QED BY <1>g, <2>2, <2>4, <2>5, GateMoved
<1>4. ASSUME NEW e \in Executors, PerformFailsDoes(e) PROVE GateInv'
  <2>1. /\ ex[e].pc = "act"
        /\ \A d \in Executors \ {e} : ex'[d] = ex[d]
        /\ ex'[e].pc = "fail" /\ ex'[e].run = ex[e].run /\ ex'[e].at = ex[e].at
        /\ row' = row /\ done' = done
    BY <1>4 DEF PerformFailsDoes, Becomes, Stored
  <2>2. /\ ex[e].run \in Runs /\ ex[e].at \in Nat
        /\ <<ex[e].run, ex[e].at>> \in Gate'
    BY <1>e, <2>1 DEF Acting, Failing
  <2>3. GateTidy(e, ex[e].run)
    BY <2>1, <2>2 DEF GateTidy, Acting, Failing
  <2> QED BY <1>g, <1>s, <2>1, <2>2, <2>3, GateMoved
<1>5. ASSUME NEW e \in Executors, AskDoes(e) PROVE GateInv'
  <2>1. /\ ex[e].pc = "act"
        /\ \A d \in Executors \ {e} : ex'[d] = ex[d]
        /\ ex'[e].pc = "idle"
        /\ \A q \in Runs \ {ex[e].run} : row'[q] = row[q]
        /\ row'[ex[e].run].status = "waiting" /\ row'[ex[e].run].at = ex[e].at + 1 /\ done' = done
    BY <1>5 DEF AskDoes, Becomes, Stored
  <2>2. /\ ex[e].run \in Runs /\ ex[e].at \in Nat
        /\ <<ex[e].run, ex[e].at>> \in Gate'
    BY <1>e, <2>1 DEF Acting, Failing
  <2>3. row'[ex[e].run].at - 1 = ex[e].at
    BY <2>1, <2>2
  <2>4. GateTidy(e, ex[e].run)
    BY <2>1, <2>2, <2>3 DEF GateTidy, Acting, Failing
  <2> QED BY <1>g, <1>s, <2>1, <2>2, <2>4, GateMoved
<1>6. ASSUME NEW e \in Executors, RecordDoes(e) PROVE GateInv'
  <2>1. /\ ex[e].pc = "record"
        /\ \A d \in Executors \ {e} : ex'[d] = ex[d]
        /\ ex'[e].pc = "act" /\ ex'[e].run = ex[e].run /\ ex'[e].at = ex[e].at + 1
        /\ \A q \in Runs \ {ex[e].run} : row'[q] = row[q]
        /\ row'[ex[e].run].status = "running" /\ row'[ex[e].run].at = ex[e].at + 1 /\ done' = done
    BY <1>6 DEF RecordDoes, Becomes, Stored
  <2>2. /\ ex[e].run \in Runs /\ ex[e].at \in Nat
        /\ <<ex[e].run, ex[e].at>> \in Gate'
    BY <1>e, <2>1 DEF Acting, Failing
  <2>w. Steps[ex[e].at + 1] # "approval"
    BY <2>1 DEF TInv, Base
  <2>3. <<ex[e].run, ex[e].at + 1>> \in Gate'
    BY <2>1, <2>2, <2>w, GateNext
  <2>4. GateTidy(e, ex[e].run)
    BY <2>1, <2>3 DEF GateTidy, Acting, Failing
  <2> QED BY <1>g, <1>s, <2>1, <2>2, <2>4, GateMoved
<1>7. ASSUME NEW e \in Executors, RecordFailureDoes(e) PROVE GateInv'
  <2>1. /\ ex[e].pc = "fail"
        /\ \A d \in Executors \ {e} : ex'[d] = ex[d]
        /\ ex'[e].pc = "end" /\ ex'[e].run = ex[e].run /\ ex'[e].at = ex[e].at
        /\ \A q \in Runs \ {ex[e].run} : row'[q] = row[q]
        /\ row'[ex[e].run].status = "running" \/ row' = row
        /\ done' = done
    BY <1>7 DEF RecordFailureDoes, Becomes, Stored
  <2>2. /\ ex[e].run \in Runs /\ ex[e].at \in Nat
        /\ <<ex[e].run, ex[e].at>> \in Gate'
    BY <1>e, <2>1 DEF Acting, Failing
  <2>3. <<ex[e].run, ex[e].at>> \in Answered'
    BY <2>2, GateAnswered
  <2>4. GateTidy(e, ex[e].run)
    BY <2>1, <2>3 DEF GateTidy, Acting, Failing
  <2> QED BY <1>g, <1>s, <2>1, <2>2, <2>4, GateMoved
<1>8. ASSUME NEW e \in Executors, EndDoes(e) PROVE GateInv'
  <2>1. /\ ex[e].pc \in {"act", "end"}
        /\ \A d \in Executors \ {e} : ex'[d] = ex[d]
        /\ ex'[e].pc = "idle"
        /\ \A q \in Runs \ {ex[e].run} : row'[q] = row[q]
        /\ row'[ex[e].run].status \in {"failed", "succeeded"} /\ row'[ex[e].run].at = ex[e].at
        /\ done' = done
    BY <1>8 DEF EndDoes, Becomes, Stored
  <2>2. /\ ex[e].run \in Runs /\ ex[e].at \in Nat
        /\ <<ex[e].run, ex[e].at>> \in Gate' \union Answered'
    BY <1>e, <2>1 DEF Acting, Failing
  <2>3. <<ex[e].run, ex[e].at>> \in Answered'
    BY <2>2, GateAnswered
  <2>4. GateTidy(e, ex[e].run)
    BY <2>1, <2>3 DEF GateTidy, Acting, Failing
  <2> QED BY <1>g, <1>s, <2>1, <2>2, <2>4, GateMoved
<1>9. ASSUME NEW e \in Executors, RejectWriteDoes(e) PROVE GateInv'
  <2>1. /\ ex[e].pc = "reject"
        /\ \A d \in Executors \ {e} : ex'[d] = ex[d]
        /\ ex'[e].pc = "idle"
        /\ \A q \in Runs \ {ex[e].run} : row'[q] = row[q]
        /\ row'[ex[e].run].status = "failed" /\ row'[ex[e].run].at = ex[e].at
        /\ <<ex[e].run, ex[e].at>> \in rejected' /\ done' = done
    BY <1>9 DEF RejectWriteDoes, Becomes, Stored
  <2>2. /\ ex[e].run \in Runs /\ ex[e].at \in Nat /\ ex[e].at # 0
        /\ <<ex[e].run, ex[e].at - 1>> \in Gate'
    BY <1>e, <2>1 DEF TInv, Base
  <2>3. ex[e].at - 1 \in Nat /\ ex[e].at = (ex[e].at - 1) + 1
    BY <2>2
  <2>4. <<ex[e].run, ex[e].at>> \in Answered'
    BY <2>1, <2>2, <2>3, AnsweredNext
  <2>5. GateTidy(e, ex[e].run)
    BY <2>1, <2>4 DEF GateTidy, Acting, Failing
  <2> QED BY <1>g, <1>s, <2>1, <2>2, <2>5, GateMoved
<1>10. ASSUME NEW e \in Executors, RetryPlanDoes(e) PROVE GateInv'
  <2>1. /\ ex[e].pc = "plan"
        /\ \A d \in Executors \ {e} : ex'[d] = ex[d]
        /\ ex'[e].pc = "insert" /\ ex'[e].run = ex[e].run /\ ex'[e].at = ex[e].at
        /\ row' = row /\ done' = done
    BY <1>10 DEF RetryPlanDoes, Becomes
  <2>2. /\ ex[e].run \in Runs
        /\ <<ex[e].run, ex[e].at>> \in Answered'
    BY <1>e, <2>1 DEF Failing
  <2>3. GateTidy(e, ex[e].run)
    BY <2>1, <2>2 DEF GateTidy, Acting, Failing
  <2> QED BY <1>g, <1>s, <2>1, <2>2, <2>3, GateMoved
<1>11. ASSUME NEW e \in Executors, NEW r \in Retries, RetryInsertDoes(e, r) PROVE GateInv'
  <2>1. /\ ex[e].pc = "insert" /\ r \in Runs /\ row[r].status = "none"
        /\ \A d \in Executors \ {e} : ex'[d] = ex[d]
        /\ ex'[e].pc = "act" /\ ex'[e].run = r /\ ex'[e].at = ex[e].at
        /\ \A q \in Runs \ {r} : row'[q] = row[q]
        /\ row'[r].status = "running" /\ done' = done
    BY <1>11 DEF RetryInsertDoes, Becomes, Stored
  <2>2. /\ ex[e].run \in Runs /\ Started(ex[e].run)
        /\ <<ex[e].run, ex[e].at>> \in Answered
    BY <1>e, <2>1 DEF Failing
  <2>3. root'[r] = root'[ex[e].run]
    BY <1>11 DEF RetryInsertDoes, TInv, TypeOK
  <2>4. <<r, ex[e].at>> \in Gate'
    BY <1>g, <2>1, <2>2, <2>3, AnsweredForNew
  <2>5. GateTidy(e, r)
    BY <2>1, <2>4 DEF GateTidy, Acting, Failing
  <2> QED BY <1>g, <1>s, <2>1, <2>5, GateMoved
<1>12. ASSUME NEW e \in Executors, NEW r \in Runs, ApproveDoes(e, r) PROVE GateInv'
  <2>1. /\ row[r].status = "waiting"
        /\ \A d \in Executors \ {e} : ex'[d] = ex[d]
        /\ ex'[e].pc = "act" /\ ex'[e].run = r /\ ex'[e].at = row[r].at
        /\ row' = row /\ done' = done /\ <<r, row[r].at>> \in granted'
    BY <1>12 DEF ApproveDoes, AnswerDoes, Becomes
  <2>2. /\ row[r].at \in Nat /\ row[r].at # 0
        /\ <<r, row[r].at - 1>> \in Gate'
    BY <1>r, <2>1 DEF TInv, Base
  <2>3. row[r].at - 1 \in Nat /\ row[r].at = (row[r].at - 1) + 1 /\ row'[r].status # "none"
    BY <2>1, <2>2
  <2>4. <<r, row[r].at>> \in Gate'
    BY <2>1, <2>2, <2>3, GateNext
  <2>5. GateTidy(e, r)
    BY <2>1, <2>4 DEF GateTidy, Acting, Failing
  <2> QED BY <1>g, <1>s, <2>1, <2>5, GateMoved
<1>13. ASSUME NEW e \in Executors, NEW r \in Runs, RejectDoes(e, r) PROVE GateInv'
  <2>1. /\ row[r].status = "waiting"
        /\ \A d \in Executors \ {e} : ex'[d] = ex[d]
        /\ ex'[e].pc = "reject" /\ ex'[e].run = r /\ ex'[e].at = row[r].at
        /\ row' = row /\ done' = done
    BY <1>13 DEF RejectDoes, AnswerDoes, Becomes
  <2>2. <<r, row[r].at - 1>> \in Gate'
    BY <1>r, <2>1
  <2>3. GateTidy(e, r)
    BY <2>1, <2>2 DEF GateTidy, Acting, Failing
  <2> QED BY <1>g, <1>s, <2>1, <2>3, GateMoved
<1>14. ASSUME NEW e \in Executors, NEW f \in Runs, RetryReadDoes(e, f) PROVE GateInv'
  <2>1. /\ row[f].status = "failed"
        /\ \A d \in Executors \ {e} : ex'[d] = ex[d]
        /\ ex'[e].pc = "plan" /\ ex'[e].run = f /\ ex'[e].at = row[f].at
        /\ row' = row /\ done' = done
    BY <1>14 DEF RetryReadDoes, Becomes
  <2>2. <<f, row[f].at>> \in Answered'
    BY <1>r, <2>1
  <2>3. GateTidy(e, f)
    BY <2>1, <2>2 DEF GateTidy, Acting, Failing
  <2> QED BY <1>g, <1>s, <2>1, <2>3, GateMoved
<1>15. ASSUME NEW e \in Executors, StopDoes(e) PROVE GateInv'
  <2>1. Gate' = Gate /\ Answered' = Answered
    BY <1>15 DEF StopDoes, Gate, Answered
  <2>2. ex'[e].pc = "idle" /\ \A d \in Executors \ {e} : ex'[d] = ex[d]
    BY <1>15 DEF StopDoes, Becomes
  <2>3. UNCHANGED <<row, root, done>>
    BY <1>15 DEF StopDoes
  <2> QED BY <2>1, <2>2, <2>3 DEF GateInv, Started, Acting, Failing
<1>17. ASSUME NEW e \in Executors, WriteFailsDoes(e) PROVE GateInv'
  <2>1. /\ ex[e].pc \in {"act", "record"}
        /\ \A d \in Executors \ {e} : ex'[d] = ex[d]
        /\ ex'[e].pc = "end" /\ ex'[e].run = ex[e].run /\ ex'[e].at = ex[e].at + 1
        /\ Steps[ex[e].at + 1] = "approval" => <<ex[e].run, ex[e].at + 1>> \in unasked'
        /\ row' = row /\ done' = done
    BY <1>17 DEF WriteFailsDoes, Becomes
  <2>2. /\ ex[e].run \in Runs /\ ex[e].at \in Nat
        /\ <<ex[e].run, ex[e].at>> \in Gate'
    BY <1>e, <2>1 DEF Acting, Failing
  <2>3. row'[ex[e].run].status # "none"
    BY <2>1, <2>2 DEF TInv, Base, Drives
  <2>4. <<ex[e].run, ex[e].at + 1>> \in Answered'
    BY <2>1, <2>2, <2>3, AnsweredNext
  <2>5. GateTidy(e, ex[e].run)
    BY <2>1, <2>4 DEF GateTidy, Acting, Failing
  <2> QED BY <1>g, <1>s, <2>1, <2>2, <2>5, GateMoved
<1>16. CASE UNCHANGED <<row, root, attempt, ex, done, granted, rejected, contested, unasked, orphaned>>
  <2>1. Gate' = Gate /\ Answered' = Answered
    BY <1>16 DEF Gate, Answered
  <2> QED BY <1>16, <2>1 DEF GateInv, Started
<1> QED
  BY <1>1, <1>2, <1>3, <1>4, <1>5, <1>6, <1>7, <1>8, <1>9, <1>10, <1>11, <1>12, <1>13,
     <1>14, <1>15, <1>16, <1>17 DEF NextDoes, ExecutorDoes

LEMMA GateAlways == Spec => []GateInv
<1>1. Init => GateInv
  BY DEF Init, Idle, NoRow, GateInv, Acting, Failing
<1>2. TInv /\ GateInv /\ [Next]_vars => GateInv'
  BY NextEffect, GateStep
<1> QED BY <1>1, <1>2, TInvAlways, PTL DEF Spec

\* Nothing behind an approval step acts before a person has dealt with it: granted
\* it, or retried the run that ended there.
THEOREM ApprovalsGate == Spec => []ApprovalGate
<1>1. GateInv => ApprovalGate
  BY DEF GateInv, ApprovalGate, Gate, Lineage
<1> QED BY <1>1, GateAlways, PTL

-----------------------------------------------------------------------------
\* The outputs a retry starts with.

\* The started runs no attempt of whose lineage was answered twice.
Clear ==
  {r \in Runs : Started(r) /\ \A q \in Runs : root[q] = root[r] => q \notin contested}

\* <<r, n, ok, a>>: each of the first n steps that was not skipped is in ok, or an
\* attempt of r's lineage with a number below a has its output.
Known ==
  {t \in Runs \X Nat \X (SUBSET Indexes) \X Nat :
     \A j \in 1..t[2] : Steps[j] # "skip" =>
       \/ j \in t[3]
       \/ \E q \in Runs : /\ row[q].status # "none" /\ root[q] = root[t[1]]
                       /\ attempt[q] < t[4] /\ j \in row[q].ok}

\* What was answered was written, and a retry starts with no step of its own.
Unwritten ==
  /\ \A r \in contested : row[r].status # "none"
  /\ \A e \in Executors : ex[e].pc \in {"plan", "insert"} => ex[e].ok = {}

\* An executor knows every output its row has.
Holds ==
  \A e \in Executors : Drives(e) /\ ex[e].run \in Clear => row[ex[e].run].ok \subseteq ex[e].ok

LEMMA UnwrittenStep == TInv /\ Unwritten /\ NextDoes => Unwritten'
<1> SUFFICES ASSUME TInv, Unwritten, NextDoes PROVE Unwritten'
  OBVIOUS
<1>b. /\ Unwritten
      /\ \A d \in Executors : ex[d].pc # "idle" => ex[d].run \in Runs
      /\ \A r \in contested : r \in Runs
      /\ \A d \in Executors : Drives(d) => root[ex[d].run] # NoRun
  BY CopyType DEF TInv, TypeOK, Base
<1> USE <1>b DEF Unwritten, Drives, Runs, Becomes, Stored
<1>1. ASSUME NEW e \in Executors, NEW r \in Triggered, StartDoes(e, r) PROVE Unwritten'
  BY <1>1 DEF StartDoes
<1>2. ASSUME NEW e \in Executors, SkipStepDoes(e) PROVE Unwritten'
  BY <1>2 DEF SkipStepDoes
<1>3. ASSUME NEW e \in Executors, PerformDoes(e) PROVE Unwritten'
  BY <1>3 DEF PerformDoes
<1>4. ASSUME NEW e \in Executors, PerformFailsDoes(e) PROVE Unwritten'
  BY <1>4 DEF PerformFailsDoes
<1>5. ASSUME NEW e \in Executors, AskDoes(e) PROVE Unwritten'
  BY <1>5 DEF AskDoes
<1>6. ASSUME NEW e \in Executors, RecordDoes(e) PROVE Unwritten'
  BY <1>6 DEF RecordDoes
<1>7. ASSUME NEW e \in Executors, RecordFailureDoes(e) PROVE Unwritten'
  BY <1>7 DEF RecordFailureDoes
<1>8. ASSUME NEW e \in Executors, EndDoes(e) PROVE Unwritten'
  BY <1>8 DEF EndDoes
<1>9. ASSUME NEW e \in Executors, RejectWriteDoes(e) PROVE Unwritten'
  BY <1>9 DEF RejectWriteDoes
<1>10. ASSUME NEW e \in Executors, RetryPlanDoes(e) PROVE Unwritten'
  BY <1>10 DEF RetryPlanDoes
<1>11. ASSUME NEW e \in Executors, NEW r \in Retries, RetryInsertDoes(e, r) PROVE Unwritten'
  BY <1>11 DEF RetryInsertDoes
<1>12. ASSUME NEW e \in Executors, NEW r \in Runs, ApproveDoes(e, r) PROVE Unwritten'
  <2>1. contested' \subseteq contested \union {r}
    BY <1>12 DEF ApproveDoes, AnswerDoes
  <2> QED BY <1>12, <2>1 DEF ApproveDoes, AnswerDoes
<1>13. ASSUME NEW e \in Executors, NEW r \in Runs, RejectDoes(e, r) PROVE Unwritten'
  <2>1. contested' \subseteq contested \union {r}
    BY <1>13 DEF RejectDoes, AnswerDoes
  <2> QED BY <1>13, <2>1 DEF RejectDoes, AnswerDoes
<1>14. ASSUME NEW e \in Executors, NEW f \in Runs, RetryReadDoes(e, f) PROVE Unwritten'
  BY <1>14 DEF RetryReadDoes
<1>15. ASSUME NEW e \in Executors, StopDoes(e) PROVE Unwritten'
  BY <1>15 DEF StopDoes
<1>17. ASSUME NEW e \in Executors, WriteFailsDoes(e) PROVE Unwritten'
  BY <1>17 DEF WriteFailsDoes
<1>16. CASE UNCHANGED <<row, root, attempt, ex, done, granted, rejected, contested, unasked, orphaned>>
  BY <1>16
<1> QED
  BY <1>1, <1>2, <1>3, <1>4, <1>5, <1>6, <1>7, <1>8, <1>9, <1>10, <1>11, <1>12, <1>13,
     <1>14, <1>15, <1>16, <1>17 DEF NextDoes, ExecutorDoes

LEMMA AttemptKept == TInv /\ NextDoes => \A q \in Runs : Started(q) => attempt'[q] = attempt[q]
<1>1. ASSUME NEW r \in Runs, NEW v, TInv, root[r] = NoRun, attempt' = [attempt EXCEPT ![r] = v]
      PROVE  \A q \in Runs : Started(q) => attempt'[q] = attempt[q]
  BY <1>1 DEF Started, TInv, TypeOK
<1>2. ASSUME TInv, NextDoes
      PROVE  attempt' = attempt \/ \E r \in Runs, v \in Nat :
                                     root[r] = NoRun /\ attempt' = [attempt EXCEPT ![r] = v]
  <2>1. ASSUME NEW e \in Executors, NEW r \in Triggered, StartDoes(e, r)
        PROVE  r \in Runs /\ root[r] = NoRun /\ 1 \in Nat /\ attempt' = [attempt EXCEPT ![r] = 1]
    BY <2>1 DEF StartDoes, Runs
  <2>2. ASSUME NEW e \in Executors, NEW r \in Retries, RetryInsertDoes(e, r)
        PROVE  /\ r \in Runs /\ root[r] = NoRun /\ ex[e].attempt \in Nat
               /\ attempt' = [attempt EXCEPT ![r] = ex[e].attempt]
    BY <1>2, <2>2, CopyType DEF RetryInsertDoes
  <2> QED
    BY <1>2, <2>1, <2>2 DEF NextDoes, ExecutorDoes, SkipStepDoes, PerformDoes, PerformFailsDoes,
       AskDoes, RecordDoes, RecordFailureDoes, EndDoes, RejectWriteDoes, RetryPlanDoes,
       ApproveDoes, RejectDoes, RetryReadDoes, WriteFailsDoes, StopDoes
<1> QED BY <1>1, <1>2

\* A lineage that is clear after a step was clear before it.
LEMMA ClearBefore ==
  ASSUME TInv, NextDoes, NEW r \in Clear', Started(r)
  PROVE  r \in Clear
<1>1. contested \subseteq contested'
  BY DEF NextDoes, ExecutorDoes, StartDoes, SkipStepDoes, PerformDoes, PerformFailsDoes,
     AskDoes, RecordDoes, RecordFailureDoes, EndDoes, RejectWriteDoes, RetryPlanDoes,
     RetryInsertDoes, ApproveDoes, RejectDoes, AnswerDoes, RetryReadDoes, WriteFailsDoes, StopDoes
<1>2. r \in Runs /\ \A q \in Runs : root'[q] = root'[r] => q \notin contested'
  BY DEF Clear
<1>3. \A q \in Runs : Started(q) => root'[q] = root[q]
  BY RootKept
<1>4. \A q \in Runs : root[q] = root[r] => root'[q] = root'[r]
  BY <1>2, <1>3 DEF Started
<1> QED BY <1>1, <1>2, <1>4 DEF Clear

LEMMA ClearOwned ==
  ASSUME TInv, Owned, NEW e \in Executors, NEW d \in Executors, Drives(e), Drives(d),
         ex[d].run = ex[e].run, ex[e].run \in Clear
  PROVE  d = e
<1>1. ex[e].run \notin contested
  BY DEF Clear
<1> QED BY <1>1 DEF Owned

LEMMA HoldsStep == TInv /\ Owned /\ Unwritten /\ Holds /\ NextDoes => Holds'
<1> SUFFICES ASSUME TInv, Owned, Unwritten, Holds, NextDoes,
                    NEW x \in Executors, Drives(x)', ex'[x].run \in Clear'
             PROVE  row'[ex'[x].run].ok \subseteq ex'[x].ok
  BY DEF Holds
<1>b. \A d \in Executors : Drives(d) => ex[d].run \in Runs /\ Started(ex[d].run)
  BY WhoIsStarted DEF Drives
\* An executor the step leaves alone, and whose row it leaves alone.
<1>k. ASSUME ex'[x] = ex[x], row'[ex[x].run] = row[ex[x].run]
      PROVE  row'[ex'[x].run].ok \subseteq ex'[x].ok
  <2>1. Drives(x)
    BY <1>k DEF Drives
  <2>2. ex[x].run \in Clear
    BY <1>b, <1>k, <2>1, ClearBefore
  <2> QED BY <1>k, <2>1, <2>2 DEF Holds
\* The only executor of a row is the one that writes it.
<1>w. ASSUME NEW e \in Executors, Drives(e), \A d \in Executors \ {e} : ex'[d] = ex[d],
             \A q \in Runs \ {ex[e].run} : row'[q] = row[q], x # e
      PROVE  row'[ex'[x].run].ok \subseteq ex'[x].ok
  <2>1. ex'[x] = ex[x] /\ Drives(x) /\ ex[x].run \in Runs
    BY <1>b, <1>w DEF Drives
  <2>2. ex[x].run \in Clear
    BY <1>b, <2>1, ClearBefore
  <2>3. ex[x].run # ex[e].run
    BY <1>w, <2>1, <2>2, ClearOwned
  <2> QED BY <1>k, <1>w, <2>1, <2>3
\* The executor that moves: what it had in its row it still has.
<1>m. ASSUME NEW e \in Executors, Drives(e), x = e, ex'[e].run = ex[e].run
      PROVE  row[ex[e].run].ok \subseteq ex[e].ok /\ ex[e].run \in Runs
  <2>1. ex[e].run \in Clear
    BY <1>b, <1>m, ClearBefore
  <2> QED BY <1>b, <1>m, <2>1 DEF Holds
<1>1. ASSUME NEW e \in Executors, NEW r \in Triggered, StartDoes(e, r)
      PROVE  row'[ex'[x].run].ok \subseteq ex'[x].ok
  <2>1. /\ r \in Runs /\ root[r] = NoRun /\ \A d \in Executors \ {e} : ex'[d] = ex[d]
        /\ ex'[e].run = r /\ ex'[e].ok = {}
        /\ row'[r].ok = {} /\ \A q \in Runs \ {r} : row'[q] = row[q]
    BY <1>1 DEF StartDoes, Becomes, Stored, Runs
  <2>2. CASE x = e
    BY <2>1, <2>2
  <2>3. CASE x # e
    <3>1. ex'[x] = ex[x] /\ Drives(x)
      BY <2>1, <2>3 DEF Drives
    <3>2. ex[x].run \in Runs /\ ex[x].run # r
      BY <1>b, <2>1, <3>1 DEF Started
    <3> QED BY <1>k, <2>1, <3>1, <3>2
  <2> QED BY <2>2, <2>3
<1>2. ASSUME NEW e \in Executors, SkipStepDoes(e)
      PROVE  row'[ex'[x].run].ok \subseteq ex'[x].ok
  <2>1. /\ Drives(e) /\ \A d \in Executors \ {e} : ex'[d] = ex[d]
        /\ \A q \in Runs \ {ex[e].run} : row'[q] = row[q]
        /\ ex'[e].run = ex[e].run /\ ex'[e].ok = ex[e].ok
        /\ row'[ex[e].run].ok = ex[e].ok
    BY <1>2 DEF SkipStepDoes, Drives, Becomes, Stored
  <2>2. CASE x # e
    BY <1>w, <2>1, <2>2
  <2>3. CASE x = e
    BY <1>m, <2>1, <2>3
  <2> QED BY <2>2, <2>3
<1>3. ASSUME NEW e \in Executors, PerformDoes(e) PROVE row'[ex'[x].run].ok \subseteq ex'[x].ok
  <2>1. /\ Drives(e) /\ \A d \in Executors \ {e} : ex'[d] = ex[d]
        /\ \A q \in Runs \ {ex[e].run} : row'[q] = row[q]
        /\ ex'[e].run = ex[e].run /\ ex'[e].ok = ex[e].ok
        /\ row'[ex[e].run].ok = row[ex[e].run].ok
    BY <1>3 DEF PerformDoes, Drives, Becomes
  <2>2. CASE x # e
    BY <1>w, <2>1, <2>2
  <2>3. CASE x = e
    BY <1>m, <2>1, <2>3
  <2> QED BY <2>2, <2>3
<1>4. ASSUME NEW e \in Executors, PerformFailsDoes(e)
      PROVE  row'[ex'[x].run].ok \subseteq ex'[x].ok
  <2>1. /\ Drives(e) /\ \A d \in Executors \ {e} : ex'[d] = ex[d]
        /\ \A q \in Runs \ {ex[e].run} : row'[q] = row[q]
        /\ ex'[e].run = ex[e].run /\ ex'[e].ok = ex[e].ok
        /\ row'[ex[e].run].ok = row[ex[e].run].ok
    BY <1>4 DEF PerformFailsDoes, Drives, Becomes, Stored
  <2>2. CASE x # e
    BY <1>w, <2>1, <2>2
  <2>3. CASE x = e
    BY <1>m, <2>1, <2>3
  <2> QED BY <2>2, <2>3
<1>5. ASSUME NEW e \in Executors, AskDoes(e) PROVE row'[ex'[x].run].ok \subseteq ex'[x].ok
  <2>1. /\ Drives(e) /\ \A d \in Executors \ {e} : ex'[d] = ex[d]
        /\ \A q \in Runs \ {ex[e].run} : row'[q] = row[q]
        /\ ex'[e].pc = "idle"
    BY <1>5 DEF AskDoes, Drives, Becomes, Stored
  <2>2. CASE x # e
    BY <1>w, <2>1, <2>2
  <2>3. x # e
    BY <2>1 DEF Drives
  <2> QED BY <2>2, <2>3
<1>6. ASSUME NEW e \in Executors, RecordDoes(e) PROVE row'[ex'[x].run].ok \subseteq ex'[x].ok
  <2>1. /\ Drives(e) /\ \A d \in Executors \ {e} : ex'[d] = ex[d]
        /\ \A q \in Runs \ {ex[e].run} : row'[q] = row[q]
        /\ ex'[e].run = ex[e].run /\ ex'[e].ok = ex[e].ok \union {ex[e].at + 1}
        /\ row'[ex[e].run].ok = ex[e].ok \union {ex[e].at + 1}
    BY <1>6 DEF RecordDoes, Drives, Becomes, Stored
  <2>2. CASE x # e
    BY <1>w, <2>1, <2>2
  <2>3. CASE x = e
    BY <1>m, <2>1, <2>3
  <2> QED BY <2>2, <2>3
<1>7. ASSUME NEW e \in Executors, RecordFailureDoes(e)
      PROVE  row'[ex'[x].run].ok \subseteq ex'[x].ok
  <2>1. /\ Drives(e) /\ \A d \in Executors \ {e} : ex'[d] = ex[d]
        /\ \A q \in Runs \ {ex[e].run} : row'[q] = row[q]
        /\ ex'[e].run = ex[e].run /\ ex'[e].ok = ex[e].ok
        /\ row'[ex[e].run].ok = ex[e].ok \/ row' = row
    BY <1>7 DEF RecordFailureDoes, Drives, Becomes, Stored
  <2>2. CASE x # e
    BY <1>w, <2>1, <2>2
  <2>3. CASE x = e
    BY <1>m, <2>1, <2>3
  <2> QED BY <2>2, <2>3
<1>8. ASSUME NEW e \in Executors, EndDoes(e) PROVE row'[ex'[x].run].ok \subseteq ex'[x].ok
  <2>1. /\ Drives(e) /\ \A d \in Executors \ {e} : ex'[d] = ex[d]
        /\ \A q \in Runs \ {ex[e].run} : row'[q] = row[q]
        /\ ex'[e].pc = "idle"
    BY <1>8 DEF EndDoes, Drives, Becomes, Stored
  <2>2. CASE x # e
    BY <1>w, <2>1, <2>2
  <2>3. x # e
    BY <2>1 DEF Drives
  <2> QED BY <2>2, <2>3
<1>9. ASSUME NEW e \in Executors, RejectWriteDoes(e)
      PROVE  row'[ex'[x].run].ok \subseteq ex'[x].ok
  <2>1. /\ Drives(e) /\ \A d \in Executors \ {e} : ex'[d] = ex[d]
        /\ \A q \in Runs \ {ex[e].run} : row'[q] = row[q]
        /\ ex'[e].pc = "idle"
    BY <1>9 DEF RejectWriteDoes, Drives, Becomes, Stored
  <2>2. CASE x # e
    BY <1>w, <2>1, <2>2
  <2>3. x # e
    BY <2>1 DEF Drives
  <2> QED BY <2>2, <2>3
<1>10. ASSUME NEW e \in Executors, RetryPlanDoes(e)
       PROVE  row'[ex'[x].run].ok \subseteq ex'[x].ok
  <2>1. ex'[e].pc = "insert" /\ row' = row /\ \A d \in Executors \ {e} : ex'[d] = ex[d]
    BY <1>10 DEF RetryPlanDoes, Becomes
  <2>2. x # e
    BY <2>1 DEF Drives
  <2> QED BY <1>k, <2>1, <2>2
<1>11. ASSUME NEW e \in Executors, NEW r \in Retries, RetryInsertDoes(e, r)
       PROVE  row'[ex'[x].run].ok \subseteq ex'[x].ok
  <2>1. /\ r \in Runs /\ root[r] = NoRun
        /\ \A d \in Executors \ {e} : ex'[d] = ex[d]
        /\ ex'[e].run = r
        /\ row'[r].ok = {} /\ \A q \in Runs \ {r} : row'[q] = row[q]
    BY <1>11 DEF RetryInsertDoes, Becomes, Stored
  <2>2. CASE x = e
    BY <2>1, <2>2
  <2>3. CASE x # e
    <3>1. ex'[x] = ex[x] /\ Drives(x)
      BY <2>1, <2>3 DEF Drives
    <3>2. ex[x].run \in Runs /\ ex[x].run # r
      BY <1>b, <2>1, <3>1 DEF Started
    <3> QED BY <1>k, <2>1, <3>1, <3>2
  <2> QED BY <2>2, <2>3
<1>12. ASSUME NEW e \in Executors, NEW r \in Runs, ApproveDoes(e, r)
       PROVE  row'[ex'[x].run].ok \subseteq ex'[x].ok
  <2>1. /\ row' = row /\ \A d \in Executors \ {e} : ex'[d] = ex[d]
        /\ ex'[e].run = r /\ ex'[e].ok = row[r].ok
    BY <1>12 DEF ApproveDoes, AnswerDoes, Becomes
  <2>2. CASE x = e
    BY <2>1, <2>2
  <2>3. CASE x # e
    BY <1>k, <2>1, <2>3
  <2> QED BY <2>2, <2>3
<1>13. ASSUME NEW e \in Executors, NEW r \in Runs, RejectDoes(e, r)
       PROVE  row'[ex'[x].run].ok \subseteq ex'[x].ok
  <2>1. /\ row' = row /\ \A d \in Executors \ {e} : ex'[d] = ex[d]
        /\ ex'[e].run = r /\ ex'[e].ok = row[r].ok
    BY <1>13 DEF RejectDoes, AnswerDoes, Becomes
  <2>2. CASE x = e
    BY <2>1, <2>2
  <2>3. CASE x # e
    BY <1>k, <2>1, <2>3
  <2> QED BY <2>2, <2>3
<1>14. ASSUME NEW e \in Executors, NEW f \in Runs, RetryReadDoes(e, f)
       PROVE  row'[ex'[x].run].ok \subseteq ex'[x].ok
  <2>1. ex'[e].pc = "plan" /\ row' = row /\ \A d \in Executors \ {e} : ex'[d] = ex[d]
    BY <1>14 DEF RetryReadDoes, Becomes
  <2>2. x # e
    BY <2>1 DEF Drives
  <2> QED BY <1>k, <2>1, <2>2
<1>15. ASSUME NEW e \in Executors, StopDoes(e) PROVE row'[ex'[x].run].ok \subseteq ex'[x].ok
  <2>1. ex'[e].pc = "idle" /\ row' = row /\ \A d \in Executors \ {e} : ex'[d] = ex[d]
    BY <1>15 DEF StopDoes, Becomes
  <2>2. x # e
    BY <2>1 DEF Drives
  <2> QED BY <1>k, <2>1, <2>2
<1>17. ASSUME NEW e \in Executors, WriteFailsDoes(e)
       PROVE  row'[ex'[x].run].ok \subseteq ex'[x].ok
  <2>1. /\ Drives(e) /\ \A d \in Executors \ {e} : ex'[d] = ex[d]
        /\ ex'[e].run = ex[e].run /\ ex[e].ok \subseteq ex'[e].ok
        /\ row' = row
    BY <1>17 DEF WriteFailsDoes, Outcome, Drives, Becomes
  <2>2. CASE x # e
    BY <1>w, <2>1, <2>2
  <2>3. CASE x = e
    BY <1>m, <2>1, <2>3
  <2> QED BY <2>2, <2>3
<1>16. CASE UNCHANGED <<row, root, attempt, ex, done, granted, rejected, contested, unasked, orphaned>>
  BY <1>k, <1>16
<1> QED
  BY <1>1, <1>2, <1>3, <1>4, <1>5, <1>6, <1>7, <1>8, <1>9, <1>10, <1>11, <1>12, <1>13,
     <1>14, <1>15, <1>16, <1>17 DEF NextDoes, ExecutorDoes

\* No output of a clear lineage is lost.
LEMMA OutputsKept ==
  ASSUME TInv, Unwritten, Holds, NextDoes, NEW q \in Clear, row[q].status # "none"
  PROVE  row[q].ok \subseteq row'[q].ok
<1>b. /\ q \in Runs
      /\ \A e \in Executors : Drives(e) /\ ex[e].run = q => row[q].ok \subseteq ex[e].ok
  BY DEF Clear, Holds
<1> USE <1>b DEF Drives, Becomes, Stored
<1>1. ASSUME NEW e \in Executors, NEW r \in Triggered, StartDoes(e, r)
      PROVE  row[q].ok \subseteq row'[q].ok
  BY <1>1 DEF StartDoes
<1>2. ASSUME NEW e \in Executors, SkipStepDoes(e) PROVE row[q].ok \subseteq row'[q].ok
  BY <1>2 DEF SkipStepDoes
<1>3. ASSUME NEW e \in Executors, PerformDoes(e) PROVE row[q].ok \subseteq row'[q].ok
  BY <1>3 DEF PerformDoes
<1>4. ASSUME NEW e \in Executors, PerformFailsDoes(e) PROVE row[q].ok \subseteq row'[q].ok
  BY <1>4 DEF PerformFailsDoes
<1>5. ASSUME NEW e \in Executors, AskDoes(e) PROVE row[q].ok \subseteq row'[q].ok
  BY <1>5 DEF AskDoes
<1>6. ASSUME NEW e \in Executors, RecordDoes(e) PROVE row[q].ok \subseteq row'[q].ok
  BY <1>6 DEF RecordDoes
<1>7. ASSUME NEW e \in Executors, RecordFailureDoes(e) PROVE row[q].ok \subseteq row'[q].ok
  BY <1>7 DEF RecordFailureDoes
<1>8. ASSUME NEW e \in Executors, EndDoes(e) PROVE row[q].ok \subseteq row'[q].ok
  BY <1>8 DEF EndDoes
<1>9. ASSUME NEW e \in Executors, RejectWriteDoes(e) PROVE row[q].ok \subseteq row'[q].ok
  BY <1>9 DEF RejectWriteDoes
<1>10. ASSUME NEW e \in Executors, RetryPlanDoes(e) PROVE row[q].ok \subseteq row'[q].ok
  BY <1>10 DEF RetryPlanDoes
<1>11. ASSUME NEW e \in Executors, NEW r \in Retries, RetryInsertDoes(e, r)
       PROVE  row[q].ok \subseteq row'[q].ok
  BY <1>11 DEF RetryInsertDoes
<1>12. ASSUME NEW e \in Executors, NEW r \in Runs, ApproveDoes(e, r)
       PROVE  row[q].ok \subseteq row'[q].ok
  BY <1>12 DEF ApproveDoes, AnswerDoes
<1>13. ASSUME NEW e \in Executors, NEW r \in Runs, RejectDoes(e, r)
       PROVE  row[q].ok \subseteq row'[q].ok
  BY <1>13 DEF RejectDoes, AnswerDoes
<1>14. ASSUME NEW e \in Executors, NEW f \in Runs, RetryReadDoes(e, f)
       PROVE  row[q].ok \subseteq row'[q].ok
  BY <1>14 DEF RetryReadDoes
<1>15. ASSUME NEW e \in Executors, StopDoes(e) PROVE row[q].ok \subseteq row'[q].ok
  BY <1>15 DEF StopDoes
<1>17. ASSUME NEW e \in Executors, WriteFailsDoes(e) PROVE row[q].ok \subseteq row'[q].ok
  BY <1>17 DEF WriteFailsDoes
<1>16. CASE UNCHANGED <<row, root, attempt, ex, done, granted, rejected, contested, unasked, orphaned>>
  BY <1>16
<1> QED
  BY <1>1, <1>2, <1>3, <1>4, <1>5, <1>6, <1>7, <1>8, <1>9, <1>10, <1>11, <1>12, <1>13,
     <1>14, <1>15, <1>16, <1>17 DEF NextDoes, ExecutorDoes

\* Where an executor or a row of a clear lineage is, the outputs of the steps
\* before are known; a retry that is about to start has them.
KnownInv ==
  /\ \A r \in Clear : row[r].status # "none" => <<r, row[r].at, row[r].ok, attempt[r]>> \in Known
  /\ \A e \in Executors : Drives(e) /\ ex[e].run \in Clear =>
       <<ex[e].run, ex[e].at, ex[e].ok, attempt[ex[e].run]>> \in Known
  /\ \A e \in Executors : ex[e].pc = "plan" /\ ex[e].run \in Clear =>
       <<ex[e].run, ex[e].at, {}, attempt[ex[e].run] + 1>> \in Known
  /\ \A e \in Executors : ex[e].pc = "insert" /\ ex[e].run \in Clear =>
       /\ <<ex[e].run, ex[e].at, {}, ex[e].attempt>> \in Known
       /\ \A j \in 1..ex[e].at : Steps[j] # "skip" => j \in ex[e].ctx

LInv == TInv /\ Owned /\ Unwritten /\ Holds /\ KnownInv

LEMMA KnownKept ==
  ASSUME LInv, NextDoes, NEW r \in Runs, Started(r), r \in Clear', NEW n, NEW ok, NEW a,
         <<r, n, ok, a>> \in Known
  PROVE  <<r, n, ok, a>> \in Known'
<1>1. n \in Nat /\ ok \in SUBSET Indexes /\ a \in Nat
  BY DEF Known
<1>2. r \in Clear
  BY ClearBefore DEF LInv
<1>3. ASSUME NEW j \in 1..n, Steps[j] # "skip"
      PROVE  \/ j \in ok
             \/ \E q \in Runs : /\ row'[q].status # "none" /\ root'[q] = root'[r]
                             /\ attempt'[q] < a /\ j \in row'[q].ok
  <2>1. CASE j \in ok
    BY <2>1
  <2>2. CASE j \notin ok
    <3>1. PICK q \in Runs : /\ row[q].status # "none" /\ root[q] = root[r]
                           /\ attempt[q] < a /\ j \in row[q].ok
      BY <1>3, <2>2 DEF Known
    <3>2. Started(q) /\ q \in Clear
      BY <1>2, <3>1 DEF Started, Clear
    <3>3. row[q].ok \subseteq row'[q].ok
      BY <3>1, <3>2, OutputsKept DEF LInv
    <3>4. row'[q].status # "none"
      BY <3>1, RowKept DEF LInv
    <3>5. root'[q] = root'[r] /\ attempt'[q] = attempt[q]
      BY <3>1, <3>2, RootKept, AttemptKept DEF LInv
    <3> QED BY <3>1, <3>3, <3>4, <3>5
  <2> QED BY <2>1, <2>2
<1> QED BY <1>1, <1>3 DEF Known

LEMMA KnownNext ==
  ASSUME NEW r \in Runs, NEW n \in Nat, NEW m, m = n + 1, NEW ok, NEW more \in SUBSET Indexes, NEW a,
         ok \subseteq more, Steps[m] = "skip" \/ m \in more, <<r, n, ok, a>> \in Known'
  PROVE  <<r, m, more, a>> \in Known'
<1>1. m \in Nat /\ a \in Nat /\ \A j \in 1..m : j \in 1..n \/ j = m
  BY DEF Known
<1> QED BY <1>1 DEF Known

\* A retry knows what the attempt it repeats knew.
LEMMA KnownAlike ==
  ASSUME NEW f \in Runs, NEW r \in Runs, root'[r] = root'[f], NEW n, NEW a,
         <<f, n, {}, a>> \in Known'
  PROVE  <<r, n, {}, a>> \in Known'
BY DEF Known

\* What a row has counts as an output of its attempt.
LEMMA KnownOfRow ==
  ASSUME TInv, NEW f \in Runs, NEW n, row' = row, attempt' = attempt, root' = root,
         row[f].status # "none", <<f, n, row[f].ok, attempt[f]>> \in Known'
  PROVE  <<f, n, {}, attempt[f] + 1>> \in Known'
<1>1. n \in Nat /\ attempt[f] \in Nat /\ {} \in SUBSET Indexes
  BY DEF Known
<1>2. ASSUME NEW j \in 1..n, Steps[j] # "skip"
      PROVE  \E q \in Runs : /\ row'[q].status # "none" /\ root'[q] = root'[f]
                          /\ attempt'[q] < attempt[f] + 1 /\ j \in row'[q].ok
  <2>1. CASE j \in row[f].ok
    BY <1>1, <2>1
  <2>2. CASE j \notin row[f].ok
    <3>1. PICK q \in Runs : /\ row'[q].status # "none" /\ root'[q] = root'[f]
                           /\ attempt'[q] < attempt[f] /\ j \in row'[q].ok
      BY <1>2, <2>2 DEF Known
    <3>2. attempt[q] \in Nat
      BY DEF TInv, TypeOK
    <3> QED BY <1>1, <3>1, <3>2
  <2> QED BY <2>1, <2>2
<1> QED BY <1>1, <1>2 DEF Known

\* The new places of the one executor and the one row that move are known.
KnownTidy(e, x) ==
  /\ \A d \in Executors \ {e} : ex'[d] = ex[d]
  /\ \/ ex'[e].pc = "idle"
     \/ Drives(e)' /\ (ex'[e].run \in Clear' =>
          <<ex'[e].run, ex'[e].at, ex'[e].ok, attempt'[ex'[e].run]>> \in Known')
     \/ ex'[e].pc = "plan" /\ (ex'[e].run \in Clear' =>
          <<ex'[e].run, ex'[e].at, {}, attempt'[ex'[e].run] + 1>> \in Known')
     \/ ex'[e].pc = "insert" /\ (ex'[e].run \in Clear' =>
          /\ <<ex'[e].run, ex'[e].at, {}, ex'[e].attempt>> \in Known'
          /\ \A j \in 1..ex'[e].at : Steps[j] # "skip" => j \in ex'[e].ctx)
  /\ \A q \in Runs \ {x} : row'[q] = row[q]
  /\ \/ row'[x] = row[x]
     \/ x \in Clear' => <<x, row'[x].at, row'[x].ok, attempt'[x]>> \in Known'

LEMMA KnownMoved ==
  ASSUME LInv, NextDoes, NEW e \in Executors, NEW x \in Runs, KnownTidy(e, x)
  PROVE  KnownInv'
<1>1. ASSUME NEW q \in Clear', row'[q].status # "none"
      PROVE  <<q, row'[q].at, row'[q].ok, attempt'[q]>> \in Known'
  <2>0. q \in Runs
    BY DEF Clear
  <2>1. CASE row'[q] = row[q]
    <3>1. Started(q)
      BY <1>1, <2>0, <2>1, WhoIsStarted DEF LInv
    <3>2. q \in Clear /\ attempt'[q] = attempt[q]
      BY <2>0, <3>1, ClearBefore, AttemptKept DEF LInv
    <3>3. <<q, row[q].at, row[q].ok, attempt[q]>> \in Known
      BY <1>1, <2>1, <3>2 DEF LInv, KnownInv
    <3>4. <<q, row[q].at, row[q].ok, attempt[q]>> \in Known'
      BY <2>0, <3>1, <3>3, KnownKept
    <3> QED BY <2>1, <3>2, <3>4
  <2>2. CASE row'[q] # row[q]
    BY <2>0, <2>2 DEF KnownTidy
  <2> QED BY <2>1, <2>2
<1>2. ASSUME NEW d \in Executors
      PROVE  /\ Drives(d)' /\ ex'[d].run \in Clear' =>
                  <<ex'[d].run, ex'[d].at, ex'[d].ok, attempt'[ex'[d].run]>> \in Known'
             /\ ex'[d].pc = "plan" /\ ex'[d].run \in Clear' =>
                  <<ex'[d].run, ex'[d].at, {}, attempt'[ex'[d].run] + 1>> \in Known'
             /\ ex'[d].pc = "insert" /\ ex'[d].run \in Clear' =>
                  /\ <<ex'[d].run, ex'[d].at, {}, ex'[d].attempt>> \in Known'
                  /\ \A j \in 1..ex'[d].at : Steps[j] # "skip" => j \in ex'[d].ctx
  <2>1. CASE d = e
    BY <2>1 DEF KnownTidy, Drives
  <2>2. CASE d # e /\ ex[d].pc # "idle" /\ ex[d].run \in Clear'
    <3>1. ex'[d] = ex[d] /\ ex[d].run \in Runs /\ Started(ex[d].run)
      BY <2>2, WhoIsStarted DEF KnownTidy, LInv
    <3>2. ex[d].run \in Clear /\ attempt'[ex[d].run] = attempt[ex[d].run]
      BY <2>2, <3>1, ClearBefore, AttemptKept DEF LInv
    <3>3. Drives(d) => <<ex[d].run, ex[d].at, ex[d].ok, attempt[ex[d].run]>> \in Known'
      <4>1. Drives(d) => <<ex[d].run, ex[d].at, ex[d].ok, attempt[ex[d].run]>> \in Known
        BY <3>2 DEF LInv, KnownInv
      <4> QED BY <2>2, <3>1, <4>1, KnownKept
    <3>4. ex[d].pc = "plan" => <<ex[d].run, ex[d].at, {}, attempt[ex[d].run] + 1>> \in Known'
      <4>1. ex[d].pc = "plan" => <<ex[d].run, ex[d].at, {}, attempt[ex[d].run] + 1>> \in Known
        BY <3>2 DEF LInv, KnownInv
      <4> QED BY <2>2, <3>1, <4>1, KnownKept
    <3>5. ex[d].pc = "insert" => <<ex[d].run, ex[d].at, {}, ex[d].attempt>> \in Known'
      <4>1. ex[d].pc = "insert" => <<ex[d].run, ex[d].at, {}, ex[d].attempt>> \in Known
        BY <3>2 DEF LInv, KnownInv
      <4> QED BY <2>2, <3>1, <4>1, KnownKept
    <3>6. ex[d].pc = "insert" => \A j \in 1..ex[d].at : Steps[j] # "skip" => j \in ex[d].ctx
      BY <3>2 DEF LInv, KnownInv
    <3> QED BY <3>1, <3>2, <3>3, <3>4, <3>5, <3>6 DEF Drives
  <2>3. CASE d # e /\ ~(ex[d].pc # "idle" /\ ex[d].run \in Clear')
    BY <2>3 DEF KnownTidy, Drives
  <2> QED BY <2>1, <2>2, <2>3
<1> QED BY <1>1, <1>2 DEF KnownInv

LEMMA KnownStep == LInv /\ NextDoes => KnownInv'
<1> SUFFICES ASSUME LInv, NextDoes PROVE KnownInv'
  OBVIOUS
<1>e. ASSUME NEW e \in Executors, ex[e].pc # "idle"
      PROVE  /\ ex[e].run \in Runs /\ ex[e].at \in Nat /\ ex[e].ok \in SUBSET Indexes
             /\ attempt'[ex[e].run] = attempt[ex[e].run]
             /\ ex[e].run \in Clear' => ex[e].run \in Clear
             /\ Drives(e) /\ ex[e].run \in Clear' =>
                  <<ex[e].run, ex[e].at, ex[e].ok, attempt[ex[e].run]>> \in Known'
  <2>1. /\ ex[e].run \in Runs /\ ex[e].at \in Nat /\ ex[e].ok \in SUBSET Indexes
        /\ Started(ex[e].run)
    BY <1>e, WhoIsStarted, CopyType DEF LInv
  <2>2. attempt'[ex[e].run] = attempt[ex[e].run]
    BY <2>1, AttemptKept DEF LInv
  <2>3. ex[e].run \in Clear' => ex[e].run \in Clear
    BY <2>1, ClearBefore DEF LInv
  <2>4. Drives(e) /\ ex[e].run \in Clear' =>
          <<ex[e].run, ex[e].at, ex[e].ok, attempt[ex[e].run]>> \in Known
    BY <2>3 DEF LInv, KnownInv
  <2> QED BY <2>1, <2>2, <2>3, <2>4, KnownKept
<1>r. ASSUME NEW r \in Runs, row[r].status # "none"
      PROVE  /\ attempt'[r] = attempt[r]
             /\ r \in Clear' => <<r, row[r].at, row[r].ok, attempt[r]>> \in Known'
  <2>1. Started(r)
    BY <1>r, WhoIsStarted DEF LInv
  <2>2. attempt'[r] = attempt[r]
    BY <2>1, AttemptKept DEF LInv
  <2>3. r \in Clear' => <<r, row[r].at, row[r].ok, attempt[r]>> \in Known
    BY <1>r, <2>1, ClearBefore DEF LInv, KnownInv
  <2> QED BY <2>1, <2>2, <2>3, KnownKept
<1>1. ASSUME NEW e \in Executors, NEW r \in Triggered, StartDoes(e, r) PROVE KnownInv'
  <2>1. /\ r \in Runs
        /\ \A d \in Executors \ {e} : ex'[d] = ex[d]
        /\ ex'[e].pc = "act" /\ ex'[e].run = r /\ ex'[e].at = 0 /\ ex'[e].ok = {}
        /\ \A q \in Runs \ {r} : row'[q] = row[q]
        /\ row'[r].at = 0 /\ row'[r].ok = {}
    BY <1>1 DEF StartDoes, Becomes, Stored, Runs
  <2>2. attempt'[r] \in Nat
    BY <1>1, <2>1 DEF StartDoes, LInv, TInv, TypeOK
  <2>3. <<r, 0, {}, attempt'[r]>> \in Known'
    <3>1. 0 \in Nat /\ 1..0 = {} /\ {} \in SUBSET Indexes
      OBVIOUS
    <3> QED BY <2>1, <2>2, <3>1 DEF Known
  <2>4. KnownTidy(e, r)
    BY <2>1, <2>3 DEF KnownTidy, Drives
  <2> QED BY <2>1, <2>4, KnownMoved
<1>2. ASSUME NEW e \in Executors, SkipStepDoes(e) PROVE KnownInv'
  <2>1. /\ ex[e].pc \in {"act"}
        /\ \A d \in Executors \ {e} : ex'[d] = ex[d]
        /\ Steps[ex[e].at + 1] = "skip"
        /\ ex'[e].pc = "act" /\ ex'[e].run = ex[e].run
        /\ ex'[e].at = ex[e].at + 1 /\ ex'[e].ok = ex[e].ok
        /\ \A q \in Runs \ {ex[e].run} : row'[q] = row[q]
        /\ row'[ex[e].run].at = ex[e].at + 1 /\ row'[ex[e].run].ok = ex[e].ok
    BY <1>2 DEF SkipStepDoes, Becomes, Stored
  <2>2. /\ ex[e].run \in Runs /\ ex[e].at \in Nat /\ ex[e].ok \in SUBSET Indexes
        /\ attempt'[ex[e].run] = attempt[ex[e].run]
        /\ ex[e].run \in Clear' =>
             <<ex[e].run, ex[e].at, ex[e].ok, attempt[ex[e].run]>> \in Known'
    BY <1>e, <2>1 DEF Drives
  <2>3. ex[e].run \in Clear' =>
          <<ex[e].run, ex[e].at + 1, ex[e].ok, attempt[ex[e].run]>> \in Known'
    BY <2>1, <2>2, KnownNext
  <2>4. KnownTidy(e, ex[e].run)
    BY <2>1, <2>2, <2>3 DEF KnownTidy, Drives
  <2> QED BY <2>2, <2>4, KnownMoved
<1>3. ASSUME NEW e \in Executors, PerformDoes(e) PROVE KnownInv'
  <2>1. /\ ex[e].pc = "act"
        /\ \A d \in Executors \ {e} : ex'[d] = ex[d]
        /\ ex'[e].pc \in {"record", "fail"} /\ ex'[e].run = ex[e].run
        /\ ex'[e].at = ex[e].at /\ ex'[e].ok = ex[e].ok
        /\ row' = row
    BY <1>3 DEF PerformDoes, Becomes
  <2>2. /\ ex[e].run \in Runs
        /\ attempt'[ex[e].run] = attempt[ex[e].run]
        /\ ex[e].run \in Clear' =>
             <<ex[e].run, ex[e].at, ex[e].ok, attempt[ex[e].run]>> \in Known'
    BY <1>e, <2>1 DEF Drives
  <2>3. KnownTidy(e, ex[e].run)
    BY <2>1, <2>2 DEF KnownTidy, Drives
  <2> QED BY <2>2, <2>3, KnownMoved
<1>4. ASSUME NEW e \in Executors, PerformFailsDoes(e) PROVE KnownInv'
  <2>1. /\ ex[e].pc \in {"act"}
        /\ \A d \in Executors \ {e} : ex'[d] = ex[d]
        /\ ex'[e].pc = "fail" /\ ex'[e].run = ex[e].run
        /\ ex'[e].at = ex[e].at /\ ex'[e].ok = ex[e].ok
        /\ row' = row
    BY <1>4 DEF PerformFailsDoes, Becomes, Stored
  <2>2. /\ ex[e].run \in Runs /\ ex[e].at \in Nat /\ ex[e].ok \in SUBSET Indexes
        /\ attempt'[ex[e].run] = attempt[ex[e].run]
        /\ ex[e].run \in Clear' =>
             <<ex[e].run, ex[e].at, ex[e].ok, attempt[ex[e].run]>> \in Known'
    BY <1>e, <2>1 DEF Drives
  <2>3. KnownTidy(e, ex[e].run)
    BY <2>1, <2>2 DEF KnownTidy, Drives
  <2> QED BY <2>2, <2>3, KnownMoved
<1>5. ASSUME NEW e \in Executors, AskDoes(e) PROVE KnownInv'
  <2>1. /\ ex[e].pc \in {"act"}
        /\ \A d \in Executors \ {e} : ex'[d] = ex[d]
        /\ ex'[e].pc = "idle"
        /\ \A q \in Runs \ {ex[e].run} : row'[q] = row[q]
        /\ row'[ex[e].run].at = ex[e].at + 1 /\ row'[ex[e].run].ok = ex[e].ok \union {ex[e].at + 1}
    BY <1>5 DEF AskDoes, Becomes, Stored
  <2>2. /\ ex[e].run \in Runs /\ ex[e].at \in Nat /\ ex[e].ok \in SUBSET Indexes
        /\ attempt'[ex[e].run] = attempt[ex[e].run]
        /\ ex[e].run \in Clear' =>
             <<ex[e].run, ex[e].at, ex[e].ok, attempt[ex[e].run]>> \in Known'
    BY <1>e, <2>1 DEF Drives
  <2>m. ex[e].at + 1 \in Indexes
    BY <1>5, CopyType DEF AskDoes, LInv, Indexes
  <2>3. (ex[e].ok \union {ex[e].at + 1}) \in SUBSET Indexes
    BY <2>2, <2>m
  <2>n. ex[e].ok \subseteq (ex[e].ok \union {ex[e].at + 1}) /\ ex[e].at + 1 \in (ex[e].ok \union {ex[e].at + 1})
    OBVIOUS
  <2>4. ex[e].run \in Clear' =>
          <<ex[e].run, ex[e].at + 1, ex[e].ok \union {ex[e].at + 1}, attempt[ex[e].run]>> \in Known'
    <3>1. SUFFICES ASSUME ex[e].run \in Clear'
                   PROVE  <<ex[e].run, ex[e].at + 1, ex[e].ok \union {ex[e].at + 1}, attempt[ex[e].run]>> \in Known'
      OBVIOUS
    <3>2. <<ex[e].run, ex[e].at, ex[e].ok, attempt[ex[e].run]>> \in Known'
      BY <2>2, <3>1
    <3>3. ASSUME NEW m, m = ex[e].at + 1, NEW more, more = ex[e].ok \union {ex[e].at + 1}
          PROVE  <<ex[e].run, m, more, attempt[ex[e].run]>> \in Known'
      <4>1. more \in SUBSET Indexes /\ ex[e].ok \subseteq more /\ m \in more
        BY ONLY <2>3, <2>n, <3>3
      <4> QED BY <2>2, <3>2, <3>3, <4>1, KnownNext
    <3> QED BY ONLY <3>3
  <2>5. KnownTidy(e, ex[e].run)
    BY <2>1, <2>2, <2>4 DEF KnownTidy, Drives
  <2> QED BY <2>2, <2>5, KnownMoved
<1>6. ASSUME NEW e \in Executors, RecordDoes(e) PROVE KnownInv'
  <2>1. /\ ex[e].pc \in {"record"}
        /\ \A d \in Executors \ {e} : ex'[d] = ex[d]
        /\ ex'[e].pc = "act" /\ ex'[e].run = ex[e].run
        /\ ex'[e].at = ex[e].at + 1 /\ ex'[e].ok = ex[e].ok \union {ex[e].at + 1}
        /\ \A q \in Runs \ {ex[e].run} : row'[q] = row[q]
        /\ row'[ex[e].run].at = ex[e].at + 1 /\ row'[ex[e].run].ok = ex[e].ok \union {ex[e].at + 1}
    BY <1>6 DEF RecordDoes, Becomes, Stored
  <2>2. /\ ex[e].run \in Runs /\ ex[e].at \in Nat /\ ex[e].ok \in SUBSET Indexes
        /\ attempt'[ex[e].run] = attempt[ex[e].run]
        /\ ex[e].run \in Clear' =>
             <<ex[e].run, ex[e].at, ex[e].ok, attempt[ex[e].run]>> \in Known'
    BY <1>e, <2>1 DEF Drives
  <2>m. ex[e].at + 1 \in Indexes
    BY <1>6, CopyType DEF RecordDoes, LInv, Indexes
  <2>3. (ex[e].ok \union {ex[e].at + 1}) \in SUBSET Indexes
    BY <2>2, <2>m
  <2>n. ex[e].ok \subseteq (ex[e].ok \union {ex[e].at + 1}) /\ ex[e].at + 1 \in (ex[e].ok \union {ex[e].at + 1})
    OBVIOUS
  <2>4. ex[e].run \in Clear' =>
          <<ex[e].run, ex[e].at + 1, ex[e].ok \union {ex[e].at + 1}, attempt[ex[e].run]>> \in Known'
    <3>1. SUFFICES ASSUME ex[e].run \in Clear'
                   PROVE  <<ex[e].run, ex[e].at + 1, ex[e].ok \union {ex[e].at + 1}, attempt[ex[e].run]>> \in Known'
      OBVIOUS
    <3>2. <<ex[e].run, ex[e].at, ex[e].ok, attempt[ex[e].run]>> \in Known'
      BY <2>2, <3>1
    <3>3. ASSUME NEW m, m = ex[e].at + 1, NEW more, more = ex[e].ok \union {ex[e].at + 1}
          PROVE  <<ex[e].run, m, more, attempt[ex[e].run]>> \in Known'
      <4>1. more \in SUBSET Indexes /\ ex[e].ok \subseteq more /\ m \in more
        BY ONLY <2>3, <2>n, <3>3
      <4> QED BY <2>2, <3>2, <3>3, <4>1, KnownNext
    <3> QED BY ONLY <3>3
  <2>5. KnownTidy(e, ex[e].run)
    BY <2>1, <2>2, <2>4 DEF KnownTidy, Drives
  <2> QED BY <2>2, <2>5, KnownMoved
<1>7. ASSUME NEW e \in Executors, RecordFailureDoes(e) PROVE KnownInv'
  <2>1. /\ ex[e].pc \in {"fail"}
        /\ \A d \in Executors \ {e} : ex'[d] = ex[d]
        /\ ex'[e].pc = "end" /\ ex'[e].run = ex[e].run
        /\ ex'[e].at = ex[e].at /\ ex'[e].ok = ex[e].ok
        /\ \A q \in Runs \ {ex[e].run} : row'[q] = row[q]
        /\ \/ row'[ex[e].run].at = ex[e].at /\ row'[ex[e].run].ok = ex[e].ok
           \/ row' = row
    BY <1>7 DEF RecordFailureDoes, Becomes, Stored
  <2>2. /\ ex[e].run \in Runs /\ ex[e].at \in Nat /\ ex[e].ok \in SUBSET Indexes
        /\ attempt'[ex[e].run] = attempt[ex[e].run]
        /\ ex[e].run \in Clear' =>
             <<ex[e].run, ex[e].at, ex[e].ok, attempt[ex[e].run]>> \in Known'
    BY <1>e, <2>1 DEF Drives
  <2>3. KnownTidy(e, ex[e].run)
    BY <2>1, <2>2 DEF KnownTidy, Drives
  <2> QED BY <2>2, <2>3, KnownMoved
<1>8. ASSUME NEW e \in Executors, EndDoes(e) PROVE KnownInv'
  <2>1. /\ ex[e].pc \in {"act", "end"}
        /\ \A d \in Executors \ {e} : ex'[d] = ex[d]
        /\ ex'[e].pc = "idle"
        /\ \A q \in Runs \ {ex[e].run} : row'[q] = row[q]
        /\ row'[ex[e].run].at = ex[e].at /\ row'[ex[e].run].ok = ex[e].ok
    BY <1>8 DEF EndDoes, Becomes, Stored
  <2>2. /\ ex[e].run \in Runs /\ ex[e].at \in Nat /\ ex[e].ok \in SUBSET Indexes
        /\ attempt'[ex[e].run] = attempt[ex[e].run]
        /\ ex[e].run \in Clear' =>
             <<ex[e].run, ex[e].at, ex[e].ok, attempt[ex[e].run]>> \in Known'
    BY <1>e, <2>1 DEF Drives
  <2>3. KnownTidy(e, ex[e].run)
    BY <2>1, <2>2 DEF KnownTidy, Drives
  <2> QED BY <2>2, <2>3, KnownMoved
<1>9. ASSUME NEW e \in Executors, RejectWriteDoes(e) PROVE KnownInv'
  <2>1. /\ ex[e].pc \in {"reject"}
        /\ \A d \in Executors \ {e} : ex'[d] = ex[d]
        /\ ex'[e].pc = "idle"
        /\ \A q \in Runs \ {ex[e].run} : row'[q] = row[q]
        /\ row'[ex[e].run].at = ex[e].at /\ row'[ex[e].run].ok = ex[e].ok
    BY <1>9 DEF RejectWriteDoes, Becomes, Stored
  <2>2. /\ ex[e].run \in Runs /\ ex[e].at \in Nat /\ ex[e].ok \in SUBSET Indexes
        /\ attempt'[ex[e].run] = attempt[ex[e].run]
        /\ ex[e].run \in Clear' =>
             <<ex[e].run, ex[e].at, ex[e].ok, attempt[ex[e].run]>> \in Known'
    BY <1>e, <2>1 DEF Drives
  <2>3. KnownTidy(e, ex[e].run)
    BY <2>1, <2>2 DEF KnownTidy, Drives
  <2> QED BY <2>2, <2>3, KnownMoved
<1>10. ASSUME NEW e \in Executors, RetryPlanDoes(e) PROVE KnownInv'
  <2> DEFINE f == ex[e].run
             n == ex[e].at
  <2>1. /\ ex[e].pc = "plan"
        /\ \A d \in Executors \ {e} : ex'[d] = ex[d]
        /\ ex'[e].pc = "insert" /\ ex'[e].run = f /\ ex'[e].at = n
        /\ row' = row
    BY <1>10 DEF RetryPlanDoes, Becomes
  <2>2. /\ attempt[f] < ex'[e].attempt
        /\ \A q \in Lineage(f) : attempt[q] <= attempt[f] => row[q].ok \subseteq ex'[e].ctx
        /\ UNCHANGED <<row, root, attempt>>
    BY <1>10 DEF RetryPlanDoes
  <2>3. /\ f \in Runs /\ n \in Nat /\ attempt[f] \in Nat /\ ex'[e].attempt \in Nat
        /\ f \in Clear' => f \in Clear
    <3>1. ex'[e] \in Copies
      BY <1>10 DEF RetryPlanDoes, Becomes
    <3> QED BY <1>e, <2>1, <3>1 DEF Copies, LInv, TInv, TypeOK
  <2>4. ASSUME f \in Clear', NEW j \in 1..n, Steps[j] # "skip"
        PROVE  \E q \in Runs : /\ row[q].status # "none" /\ root[q] = root[f]
                            /\ attempt[q] < ex'[e].attempt /\ j \in row[q].ok
                            /\ j \in ex'[e].ctx
    <3>1. <<f, n, {}, attempt[f] + 1>> \in Known
      BY <2>1, <2>3, <2>4 DEF LInv, KnownInv
    <3>2. PICK q \in Runs : /\ row[q].status # "none" /\ root[q] = root[f]
                           /\ attempt[q] < attempt[f] + 1 /\ j \in row[q].ok
      BY <2>4, <3>1 DEF Known
    <3>3. attempt[q] \in Nat
      BY DEF LInv, TInv, TypeOK
    <3>4. attempt[q] <= attempt[f] /\ attempt[q] < ex'[e].attempt
      BY <2>2, <2>3, <3>2, <3>3
    <3>5. q \in Lineage(f)
      BY <3>2 DEF Lineage
    <3> QED BY <2>2, <3>2, <3>4, <3>5
  <2>5. f \in Clear' => <<f, n, {}, ex'[e].attempt>> \in Known'
    BY <2>2, <2>3, <2>4 DEF Known
  <2>6. f \in Clear' => \A j \in 1..n : Steps[j] # "skip" => j \in ex'[e].ctx
    BY <2>4
  <2>7. KnownTidy(e, f)
    BY <2>1, <2>5, <2>6 DEF KnownTidy
  <2> QED BY <2>3, <2>7, KnownMoved
<1>11. ASSUME NEW e \in Executors, NEW r \in Retries, RetryInsertDoes(e, r) PROVE KnownInv'
  <2> DEFINE f == ex[e].run
  <2>1. /\ ex[e].pc = "insert" /\ f \in Runs /\ r \in Runs
        /\ \A d \in Executors \ {e} : ex'[d] = ex[d]
        /\ ex'[e].pc = "act" /\ ex'[e].run = r /\ ex'[e].at = ex[e].at /\ ex'[e].ok = ex[e].ok
        /\ \A q \in Runs \ {r} : row'[q] = row[q]
        /\ row'[r].at = ex[e].at /\ row'[r].ok = {}
    BY <1>11 DEF RetryInsertDoes, Becomes, Stored
  <2>2. root'[r] = root'[f] /\ attempt'[r] = ex[e].attempt
    BY <1>11, <2>1 DEF RetryInsertDoes, LInv, TInv, TypeOK
  <2>3. ex[e].ok = {} /\ Started(f)
    BY <2>1, WhoIsStarted DEF LInv, Unwritten
  <2>4. ASSUME r \in Clear' PROVE <<r, ex[e].at, {}, ex[e].attempt>> \in Known'
    <3>1. f \in Clear'
      <4>1. root'[f] = root[f] /\ root[f] # NoRun
        BY <2>1, <2>3, RootKept DEF LInv, Started
      <4>2. \A q \in Runs : root'[q] = root'[r] => q \notin contested'
        BY <2>4 DEF Clear
      <4>3. root'[f] # NoRun /\ \A q \in Runs : root'[q] = root'[f] => q \notin contested'
        BY <2>2, <4>1, <4>2
      <4> QED BY ONLY <2>1, <4>3 DEF Clear, Started
    <3>2. f \in Clear
      BY <2>3, <3>1, ClearBefore DEF LInv
    <3>3. <<f, ex[e].at, {}, ex[e].attempt>> \in Known
      BY <2>1, <3>2 DEF LInv, KnownInv
    <3>4. <<f, ex[e].at, {}, ex[e].attempt>> \in Known'
      BY <2>1, <2>3, <3>1, <3>3, KnownKept
    <3> QED BY <2>1, <2>2, <3>4, KnownAlike
  <2>5. KnownTidy(e, r)
    BY <2>1, <2>2, <2>3, <2>4 DEF KnownTidy, Drives
  <2> QED BY <2>1, <2>5, KnownMoved
<1>12. ASSUME NEW e \in Executors, NEW r \in Runs, ApproveDoes(e, r) PROVE KnownInv'
  <2>1. /\ row[r].status = "waiting"
        /\ \A d \in Executors \ {e} : ex'[d] = ex[d]
        /\ ex'[e].pc = "act" /\ ex'[e].run = r /\ ex'[e].at = row[r].at /\ ex'[e].ok = row[r].ok
        /\ row' = row
    BY <1>12 DEF ApproveDoes, AnswerDoes, Becomes
  <2>2. /\ attempt'[r] = attempt[r]
        /\ r \in Clear' => <<r, row[r].at, row[r].ok, attempt[r]>> \in Known'
    BY <1>r, <2>1
  <2>3. KnownTidy(e, r)
    BY <2>1, <2>2 DEF KnownTidy, Drives
  <2> QED BY <2>3, KnownMoved
<1>13. ASSUME NEW e \in Executors, NEW r \in Runs, RejectDoes(e, r) PROVE KnownInv'
  <2>1. /\ row[r].status = "waiting"
        /\ \A d \in Executors \ {e} : ex'[d] = ex[d]
        /\ ex'[e].pc = "reject" /\ ex'[e].run = r /\ ex'[e].at = row[r].at /\ ex'[e].ok = row[r].ok
        /\ row' = row
    BY <1>13 DEF RejectDoes, AnswerDoes, Becomes
  <2>2. /\ attempt'[r] = attempt[r]
        /\ r \in Clear' => <<r, row[r].at, row[r].ok, attempt[r]>> \in Known'
    BY <1>r, <2>1
  <2>3. KnownTidy(e, r)
    BY <2>1, <2>2 DEF KnownTidy, Drives
  <2> QED BY <2>3, KnownMoved
<1>14. ASSUME NEW e \in Executors, NEW f \in Runs, RetryReadDoes(e, f) PROVE KnownInv'
  <2>1. /\ row[f].status = "failed"
        /\ \A d \in Executors \ {e} : ex'[d] = ex[d]
        /\ ex'[e].pc = "plan" /\ ex'[e].run = f /\ ex'[e].at = row[f].at
        /\ row' = row /\ root' = root /\ attempt' = attempt
    BY <1>14 DEF RetryReadDoes, Becomes
  <2>2. attempt[f] \in Nat /\ attempt[f] < attempt[f] + 1
    BY DEF LInv, TInv, TypeOK
  <2>3. ASSUME f \in Clear' PROVE <<f, row[f].at, {}, attempt[f] + 1>> \in Known'
    <3>1. <<f, row[f].at, row[f].ok, attempt[f]>> \in Known'
      BY <1>r, <2>1, <2>3
    <3>2. row[f].status # "none" /\ TInv
      BY <2>1 DEF LInv
    <3> QED BY ONLY <2>1, <3>1, <3>2, KnownOfRow
  <2>4. KnownTidy(e, f)
    BY <2>1, <2>3 DEF KnownTidy
  <2> QED BY <2>4, KnownMoved
<1>15. ASSUME NEW e \in Executors, StopDoes(e) PROVE KnownInv'
  <2>1. Clear' = Clear /\ Known' = Known
    BY <1>15 DEF StopDoes, Clear, Known, Started
  <2> QED BY <1>15, <2>1 DEF StopDoes, Becomes, LInv, KnownInv, Drives
<1>17. ASSUME NEW e \in Executors, WriteFailsDoes(e) PROVE KnownInv'
  <2>1. /\ ex[e].pc \in {"act", "record"}
        /\ \A d \in Executors \ {e} : ex'[d] = ex[d]
        /\ ex'[e].pc = "end" /\ ex'[e].run = ex[e].run
        /\ ex'[e].at = ex[e].at + 1 /\ ex'[e].ok = Outcome(e)
        /\ row' = row
    BY <1>17 DEF WriteFailsDoes, Becomes
  <2>2. /\ ex[e].run \in Runs /\ ex[e].at \in Nat /\ ex[e].ok \in SUBSET Indexes
        /\ attempt'[ex[e].run] = attempt[ex[e].run]
        /\ ex[e].run \in Clear' =>
             <<ex[e].run, ex[e].at, ex[e].ok, attempt[ex[e].run]>> \in Known'
    BY <1>e, <2>1 DEF Drives
  <2>m. ex[e].at + 1 \in Indexes
    BY <1>17, CopyType DEF WriteFailsDoes, LInv, Indexes
  <2>3. CASE Steps[ex[e].at + 1] = "skip"
    <3> DEFINE ok == ex[e].ok
    <3>1. Outcome(e) = ok
      BY <2>3 DEF Outcome
    <3>2. ok \in SUBSET Indexes /\ ex[e].ok \subseteq ok
      BY <2>2
    <3> HIDE DEF ok
    <3>3. ex[e].run \in Clear' => <<ex[e].run, ex[e].at + 1, ok, attempt[ex[e].run]>> \in Known'
      <4>1. SUFFICES ASSUME ex[e].run \in Clear'
                     PROVE  <<ex[e].run, ex[e].at + 1, ok, attempt[ex[e].run]>> \in Known'
        OBVIOUS
      <4>2. ASSUME NEW m, m = ex[e].at + 1
            PROVE  <<ex[e].run, m, ok, attempt[ex[e].run]>> \in Known'
        <5>1. Steps[m] = "skip"
          BY <2>3, <4>2
        <5> QED BY ONLY <2>2, <3>2, <4>1, <4>2, <5>1, KnownNext
      <4> QED BY ONLY <4>2
    <3>4. KnownTidy(e, ex[e].run)
      BY <2>1, <2>2, <3>1, <3>3 DEF KnownTidy, Drives
    <3> QED BY <2>2, <3>4, KnownMoved
  <2>4. CASE Steps[ex[e].at + 1] # "skip"
    <3> DEFINE ok == ex[e].ok \union {ex[e].at + 1}
    <3>1. Outcome(e) = ok
      BY <2>4 DEF Outcome
    <3>2. ok \in SUBSET Indexes /\ ex[e].ok \subseteq ok /\ ex[e].at + 1 \in ok
      BY <2>2, <2>m
    <3> HIDE DEF ok
    <3>3. ex[e].run \in Clear' => <<ex[e].run, ex[e].at + 1, ok, attempt[ex[e].run]>> \in Known'
      <4>1. SUFFICES ASSUME ex[e].run \in Clear'
                     PROVE  <<ex[e].run, ex[e].at + 1, ok, attempt[ex[e].run]>> \in Known'
        OBVIOUS
      <4>2. ASSUME NEW m, m = ex[e].at + 1
            PROVE  <<ex[e].run, m, ok, attempt[ex[e].run]>> \in Known'
        <5>1. m \in ok
          BY <3>2, <4>2
        <5> QED BY ONLY <2>2, <3>2, <4>1, <4>2, <5>1, KnownNext
      <4> QED BY ONLY <4>2
    <3>4. KnownTidy(e, ex[e].run)
      BY <2>1, <2>2, <3>1, <3>3 DEF KnownTidy, Drives
    <3> QED BY <2>2, <3>4, KnownMoved
  <2> QED BY <2>3, <2>4
<1>16. CASE UNCHANGED <<row, root, attempt, ex, done, granted, rejected, contested, unasked, orphaned>>
  <2>1. Clear' = Clear /\ Known' = Known
    BY <1>16 DEF Clear, Known, Started
  <2> QED BY <1>16, <2>1 DEF LInv, KnownInv, Drives
<1> QED
  BY <1>1, <1>2, <1>3, <1>4, <1>5, <1>6, <1>7, <1>8, <1>9, <1>10, <1>11, <1>12, <1>13,
     <1>14, <1>15, <1>16, <1>17 DEF NextDoes, ExecutorDoes

LEMMA LInvAlways == Spec => []LInv
<1>1. Init => LInv
  <2> SUFFICES ASSUME Init PROVE LInv
    OBVIOUS
  <2>1. /\ \A e \in Executors : ex[e].pc = "idle"
        /\ \A r \in Runs : row[r].status = "none" /\ row[r].ok = {}
        /\ contested = {}
    BY DEF Init, Idle, NoRow
  <2>2. Owned /\ Unwritten /\ Holds
    BY <2>1 DEF Owned, Unwritten, Holds, Drives
  <2>3. KnownInv
    BY <2>1 DEF KnownInv, Drives, Clear
  <2> QED BY <2>2, <2>3, TypeInit DEF LInv
<1>2. LInv /\ [Next]_vars => LInv'
  BY NextEffect, TInvStep, OwnedStep, UnwrittenStep, HoldsStep, KnownStep DEF LInv
<1> QED BY <1>1, <1>2, PTL DEF Spec

\* A retry starts with the outputs of every step before the failed one.
THEOREM RetriesReconstruct == Spec => []RetryReconstructs
<1>1. LInv => RetryReconstructs
  <2> SUFFICES ASSUME LInv, NEW e \in Executors, ex[e].pc = "insert",
                      Lineage(ex[e].run) \intersect contested = {}
               PROVE  {j \in 1..ex[e].at : Steps[j] # "skip"} \subseteq ex[e].ctx
    BY DEF RetryReconstructs
  <2>1. ex[e].run \in Runs /\ Started(ex[e].run)
    BY WhoIsStarted DEF LInv
  <2>2. \A q \in contested : q \in Runs /\ row[q].status # "none"
    BY DEF LInv, TInv, TypeOK, Unwritten
  <2>3. ex[e].run \in Clear
    BY <2>1, <2>2 DEF Clear, Lineage
  <2> QED BY <2>3 DEF LInv, KnownInv
<1> QED BY <1>1, LInvAlways, PTL

-----------------------------------------------------------------------------
\* Part II.  The board.

HIDE RunAssumption

\* The fields of a request.
Request(s) ==
  s \in [pc : {s.pc}, at : {s.at}, places : {s.places}, top : {s.top}, copy : {s.copy}]

VersionsInv ==
  /\ ops \in 0..MaxOps
  /\ card.ver \in 0..ops
  /\ flow \in [on : BOOLEAN, here : BOOLEAN]
  /\ req = [r \in Requests |-> req[r]]
  /\ \A r \in Requests : /\ Request(req[r])
                         /\ req[r].copy.ver \in 0..ops
                         /\ req[r].pc \in {"checked", "move", "running"} => req[r].at \in Columns
  /\ IsFiniteSet(claims)
  /\ \A k \in claims : k[3] \in Nat /\ k[3] < card.ver
  /\ runs \in [Columns -> Nat]
  /\ ClaimedOnce

LEMMA IdleRequest == Request(AtRest) /\ AtRest.pc = "idle" /\ AtRest.copy.ver = 0
BY DEF AtRest, Request

\* A request that changes its state, and nothing but requests and ops.
LEMMA RequestMoves ==
  ASSUME VersionsInv, NEW r \in Requests, NEW s, Request(s), s.copy.ver \in 0..ops',
         s.pc \in {"checked", "move", "running"} => s.at \in Columns,
         req' = [req EXCEPT ![r] = s], ops' \in 0..MaxOps, ops <= ops',
         UNCHANGED <<card, flow, claims, runs>>
  PROVE  VersionsInv'
<1>1. /\ req' = [q \in Requests |-> req'[q]]
      /\ req'[r] = s /\ \A q \in Requests \ {r} : req'[q] = req[q]
  BY DEF VersionsInv
<1>2. ops \in Nat /\ ops' \in Nat /\ card.ver \in 0..ops'
  BY OpsAssumption DEF VersionsInv
<1>3. \A q \in Requests : /\ Request(req'[q])
                         /\ req'[q].copy.ver \in 0..ops'
                         /\ req'[q].pc \in {"checked", "move", "running"} => req'[q].at \in Columns
  BY <1>1, <1>2 DEF VersionsInv
<1> QED BY <1>1, <1>2, <1>3 DEF VersionsInv, ClaimedOnce

\* A request that is over.
LEMMA RequestEnds ==
  ASSUME VersionsInv, NEW r \in Requests, Enter(r, AtRest), ops' \in 0..MaxOps, ops <= ops',
         UNCHANGED <<card, flow, claims, runs>>
  PROVE  VersionsInv'
<1>1. 0 \in 0..ops'
  BY DEF VersionsInv
<1> QED BY <1>1, IdleRequest, RequestMoves DEF Enter

\* A write that leaves the requests and the card alone.
LEMMA OpsGrow ==
  ASSUME VersionsInv, Written
  PROVE  ops' = ops + 1 /\ ops' \in 0..MaxOps /\ ops \in Nat /\ ops <= ops'
BY OpsAssumption DEF VersionsInv, Written

LEMMA OthersWrite ==
  ASSUME VersionsInv, Written, UNCHANGED <<card, req, claims, runs>>,
         flow' \in [on : BOOLEAN, here : BOOLEAN]
  PROVE  VersionsInv'
<1>1. ops' = ops + 1 /\ ops' \in 0..MaxOps /\ ops \in Nat
  BY OpsGrow
<1> QED BY <1>1 DEF VersionsInv, ClaimedOnce

\* The card gets a version nobody has seen.
LEMMA EditStep ==
  ASSUME VersionsInv, NEW r, EditCard(r)
  PROVE  VersionsInv'
<1>1. ops' = ops + 1 /\ ops' \in 0..MaxOps /\ ops \in Nat
  BY OpsGrow DEF EditCard
<1>2. card'.ver \in 0..ops' /\ card.ver < card'.ver
  BY <1>1 DEF EditCard, VersionsInv
<1> QED BY <1>1, <1>2 DEF EditCard, VersionsInv, ClaimedOnce, boardHistory

\* The claims of a column.
Of(S, c) == {x \in S : x[1] = c}

\* ... after one more.
LEMMA OneMore ==
  ASSUME NEW S, IsFiniteSet(S), NEW k, k \notin S, NEW c
  PROVE  Cardinality(Of(S \union {k}, c)) =
           Cardinality(Of(S, c)) + (IF k[1] = c THEN 1 ELSE 0)
<1> DEFINE T == Of(S, c)
<1> USE DEF Of
<1>1. IsFiniteSet(T) /\ Cardinality(T) \in Nat
  <2>1. IsFiniteSet(T)
    BY FS_Subset
  <2> QED BY <2>1, FS_CardinalityType
<1>2. CASE k[1] = c
  <2>1. Of(S \union {k}, c) = T \union {k} /\ k \notin T
    BY <1>2
  <2>2. Cardinality(T \union {k}) = Cardinality(T) + 1
    BY <1>1, <2>1, FS_AddElement
  <2> QED BY <1>2, <2>1, <2>2
<1>3. CASE k[1] # c
  <2>1. Of(S \union {k}, c) = T
    BY <1>3
  <2>2. (IF k[1] = c THEN 1 ELSE 0) = 0 /\ Cardinality(T) + 0 = Cardinality(T)
    BY <1>1, <1>3
  <2> QED BY <2>1, <2>2
<1> QED BY <1>2, <1>3

\* A move is written, with its claim and its run if it has one.
LEMMA MoveStep ==
  ASSUME VersionsInv, NEW r \in Requests, WriteMove(r)
  PROVE  VersionsInv'
<1> DEFINE target == req[r].at
           copy == req[r].copy
           key == EventKey(target, copy)
           starts == Claimed(target, copy)
<1>1. ops' = ops + 1 /\ ops' \in 0..MaxOps /\ ops \in Nat
  BY OpsGrow DEF WriteMove
<1>2. target \in Columns /\ copy.ver \in 0..ops /\ Request(req[r]) /\ card.ver \in 0..ops
  BY DEF WriteMove, VersionsInv
<1>3. card'.ver = ops' /\ card'.ver \in 0..ops'
  BY <1>1 DEF WriteMove
<1>4. key[1] = target /\ key[3] = copy.ver
  BY DEF EventKey
<1>5. claims' \in SUBSET (claims \union {key}) /\ IsFiniteSet(claims')
  BY FS_AddElement DEF WriteMove, VersionsInv
<1>6. \A k \in claims' : k[3] \in Nat /\ k[3] < card'.ver
  BY <1>1, <1>2, <1>3, <1>4, <1>5 DEF VersionsInv
<1>7. /\ runs' \in [Columns -> Nat]
      /\ \A c \in Columns : runs'[c] = Cardinality(Of(claims', c))
  <2>1. runs \in [Columns -> Nat] /\ \A c \in Columns : runs[c] = Cardinality(Of(claims, c))
    BY DEF VersionsInv, ClaimedOnce, Of
  <2>2. CASE starts
    <3>1. /\ claims' = claims \union {key} /\ key \notin claims
          /\ runs' = [runs EXCEPT ![target] = runs[target] + 1]
      BY <2>2 DEF WriteMove, Claimed
    <3> HIDE DEF key, target
    <3>2. IsFiniteSet(claims)
      BY DEF VersionsInv
    <3>3. \A c \in Columns : Cardinality(Of(claims \union {key}, c)) =
            Cardinality(Of(claims, c)) + (IF key[1] = c THEN 1 ELSE 0)
      BY <3>1, <3>2, OneMore
    <3>4. runs' \in [Columns -> Nat] /\ \A c \in Columns : runs'[c] = runs[c] + (IF key[1] = c THEN 1 ELSE 0)
      BY <1>2, <1>4, <2>1, <3>1
    <3> QED BY <2>1, <3>1, <3>3, <3>4
  <2>3. CASE ~starts
    <3>1. claims' = claims /\ runs' = [runs EXCEPT ![target] = runs[target]]
      BY <2>3 DEF WriteMove
    <3> QED BY <2>1, <3>1
  <2> QED BY <2>2, <2>3
<1>8. /\ req' = [q \in Requests |-> req'[q]]
      /\ \A q \in Requests : /\ Request(req'[q])
                             /\ req'[q].copy.ver \in 0..ops'
                             /\ req'[q].pc \in {"checked", "move", "running"} => req'[q].at \in Columns
  <2> DEFINE s == IF starts THEN [req[r] EXCEPT !.pc = "running"] ELSE AtRest
  <2>1. Request(s) /\ s.copy.ver \in 0..ops' /\ (s.pc \in {"checked", "move", "running"} => s.at \in Columns)
    <3>1. CASE starts
      <4>1. s = [req[r] EXCEPT !.pc = "running"]
        BY <3>1
      <4> HIDE DEF s
      <4>2. Request(s) /\ s.copy = copy /\ s.at = target
        BY <1>2, <4>1 DEF Request
      <4> HIDE DEF copy, target
      <4> QED BY <1>1, <1>2, <4>2
    <3>2. CASE ~starts
      BY <1>1, <3>2, IdleRequest
    <3> QED BY <3>1, <3>2
  <2>2. req' = [req EXCEPT ![r] = s]
    BY DEF WriteMove, Enter
  <2> HIDE DEF s
  <2>3. /\ req' = [q \in Requests |-> req'[q]]
        /\ req'[r] = s /\ \A q \in Requests \ {r} : req'[q] = req[q]
    BY <2>2 DEF VersionsInv
  <2> QED BY <1>1, <2>1, <2>3 DEF VersionsInv
<1>9. flow' = flow
  BY DEF WriteMove
<1> QED BY <1>1, <1>3, <1>5, <1>6, <1>7, <1>8, <1>9 DEF VersionsInv, ClaimedOnce, Of

\* The other steps of a request.
LEMMA RequestStep ==
  ASSUME VersionsInv, NEW r \in Requests, ColumnStep(r) \/ BoardStep(r) \/ CardStep(r) \/ Dies(r)
  PROVE  VersionsInv'
<1>0. /\ req = [q \in Requests |-> req[q]] /\ Request(req[r]) /\ ops \in Nat /\ ops \in 0..MaxOps
      /\ 0 \in 0..ops /\ card.ver \in 0..ops /\ flow \in [on : BOOLEAN, here : BOOLEAN]
  BY OpsAssumption DEF VersionsInv
\* The request reads.
<1>a. ASSUME NEW s, Request(s), s.copy.ver \in 0..ops, Enter(r, s), ops' = ops,
             s.pc \in {"checked", "move", "running"} => s.at \in Columns,
             UNCHANGED <<card, flow, claims, runs>>
      PROVE  VersionsInv'
  BY <1>0, <1>a, RequestMoves DEF Enter
\* The request writes something else, or is over.
<1>b. ASSUME Enter(r, AtRest), ops' = ops \/ Written, UNCHANGED <<card, flow, claims, runs>>
      PROVE  VersionsInv'
  BY <1>0, <1>b, OpsGrow, RequestEnds
<1>c. ASSUME Written, UNCHANGED <<card, req, flow, claims, runs>> PROVE VersionsInv'
  BY <1>0, <1>c, OthersWrite
<1>1. ASSUME CreateColumn(r) PROVE VersionsInv'
  <2> DEFINE s == [AtRest EXCEPT !.pc = "create", !.top = Top]
  <2>1. Request(s) /\ s.pc = "create" /\ s.copy.ver = 0
    BY DEF AtRest, Request
  <2>2. Enter(r, s) /\ ops' = ops /\ UNCHANGED <<card, flow, claims, runs>>
    BY <1>1 DEF CreateColumn, boardHistory
  <2> HIDE DEF s
  <2> QED BY <1>0, <1>a, <2>1, <2>2
<1>2. ASSUME NEW c \in Columns, NEW before \in Ends, Reorder(r, c, before) PROVE VersionsInv'
  <2>g. PICK g : Enter(r, [AtRest EXCEPT !.pc = "reorder", !.places = g])
    BY <1>2 DEF Reorder
  <2> DEFINE s == [AtRest EXCEPT !.pc = "reorder", !.places = g]
  <2>1. Request(s) /\ s.pc = "reorder" /\ s.copy.ver = 0
    BY DEF AtRest, Request
  <2>2. Enter(r, s) /\ ops' = ops /\ UNCHANGED <<card, flow, claims, runs>>
    BY <1>2, <2>g DEF Reorder, boardHistory
  <2> HIDE DEF s
  <2> QED BY <1>0, <1>a, <2>1, <2>2
<1>3. ASSUME \/ Renumber(r) \/ BindTrigger(r) \/ Dies(r)
             \/ \E c \in Columns : InsertColumn(r, c)
      PROVE  VersionsInv'
  BY <1>3, <1>b DEF Renumber, BindTrigger, Dies, InsertColumn, boardHistory
<1>4. ASSUME \/ ArchiveBoard(r) \/ RestoreBoard(r)
             \/ \E c \in Columns : ArchiveColumn(r, c) \/ RestoreColumn(r, c)
             \/ \E c \in Columns, enabled, given \in BOOLEAN : SetColumnTrigger(r, c, enabled, given)
      PROVE  VersionsInv'
  BY <1>4, <1>c DEF ArchiveBoard, RestoreBoard, ArchiveColumn, RestoreColumn, SetColumnTrigger, boardHistory
<1>5. ASSUME NEW target \in Columns, MoveCard(r, target) PROVE VersionsInv'
  <2> DEFINE s == [AtRest EXCEPT !.pc = "checked", !.at = target]
  <2>1. Request(s) /\ s.at = target /\ s.copy.ver = 0
    BY DEF AtRest, Request
  <2>2. Enter(r, s) /\ ops' = ops /\ UNCHANGED <<card, flow, claims, runs>>
    BY <1>5 DEF MoveCard, boardHistory
  <2> HIDE DEF s
  <2> QED BY <1>0, <1>a, <2>1, <2>2
<1>6. ASSUME ReadCard(r) PROVE VersionsInv'
  <2> DEFINE s == [req[r] EXCEPT !.pc = "move", !.copy = card]
  <2>3. Request(s) /\ s.copy = card /\ s.at = req[r].at
    BY <1>0 DEF Request
  <2>4. req[r].at \in Columns
    BY <1>6 DEF ReadCard, VersionsInv
  <2>5. Enter(r, s) /\ ops' = ops /\ UNCHANGED <<card, flow, claims, runs>>
    BY <1>6 DEF ReadCard, boardHistory
  <2> HIDE DEF s
  <2> QED BY <1>0, <1>a, <2>3, <2>4, <2>5
<1> QED BY <1>1, <1>2, <1>3, <1>4, <1>5, <1>6, EditStep, MoveStep DEF ColumnStep, BoardStep, CardStep

LEMMA VersionsStep == ASSUME VersionsInv, [BoardNext]_boardVars PROVE VersionsInv'
<1>1. ASSUME NEW on \in BOOLEAN, NEW here \in BOOLEAN, ChangeFlow(on, here) PROVE VersionsInv'
  BY <1>1, OthersWrite DEF ChangeFlow, boardHistory
<1>2. CASE UNCHANGED boardVars
  BY <1>2 DEF boardVars, boardHistory, VersionsInv, ClaimedOnce
<1> QED BY <1>1, <1>2, RequestStep DEF BoardNext

LEMMA VersionsInit == BoardInit => VersionsInv
<1> SUFFICES ASSUME BoardInit PROVE VersionsInv
  OBVIOUS
<1>1. ops = 0 /\ card.ver = 0 /\ 0 \in 0..MaxOps /\ 0 \in 0..0
  BY OpsAssumption DEF BoardInit
<1>2. \A r \in Requests : req[r] = AtRest
  BY DEF BoardInit
<1>3. \A c : {k \in claims : k[1] = c} = {}
  BY DEF BoardInit
<1>4. IsFiniteSet(claims) /\ \A c \in Columns : runs[c] = Cardinality({k \in claims : k[1] = c})
  BY <1>3, FS_EmptySet DEF BoardInit
<1> QED BY <1>1, <1>2, <1>4, IdleRequest DEF BoardInit, VersionsInv, ClaimedOnce

\* A column's workflow ran as often as moves into it were claimed, however many
\* requests moved the card over one copy, and wherever they broke off.
THEOREM ClaimsAreRuns == BoardSpec => []ClaimedOnce
<1>1. VersionsInv => ClaimedOnce
  BY DEF VersionsInv
<1> QED BY <1>1, VersionsInit, VersionsStep, PTL DEF BoardSpec

\* A move over a fresh copy starts the workflow of its column once if the card
\* comes from elsewhere and rule and workflow are on, and else not at all.
THEOREM FreshMovesStart == BoardSpec => FreshMoveStarts
<1> DEFINE Fresh(r) ==
      req[r].pc = "move" /\ req[r].copy = card /\ card' # card /\ req'[r] # req[r] =>
        LET c == req[r].at IN
        runs'[c] - runs[c] = IF card.at # c /\ rule[c] = "on" /\ flow = [on |-> TRUE, here |-> TRUE]
                             THEN 1 ELSE 0
<1>1. ASSUME VersionsInv, BoardNext, NEW r \in Requests PROVE Fresh(r)
  <2> SUFFICES ASSUME req[r].pc = "move", req[r].copy = card, card' # card, req'[r] # req[r]
               PROVE  runs'[req[r].at] - runs[req[r].at] =
                        IF card.at # req[r].at /\ rule[req[r].at] = "on"
                           /\ flow = [on |-> TRUE, here |-> TRUE] THEN 1 ELSE 0
    OBVIOUS
  <2>1. WriteMove(r)
    <3>1. PICK q \in Requests : EditCard(q) \/ WriteMove(q)
      BY <1>1 DEF BoardNext, ColumnStep, BoardStep, CardStep, CreateColumn, Renumber, InsertColumn, Reorder,
         ArchiveColumn, RestoreColumn, ArchiveBoard, RestoreBoard, SetColumnTrigger, MoveCard,
         ReadCard, BindTrigger, Dies, ChangeFlow
    <3>2. CASE EditCard(q)
      BY <3>2 DEF EditCard
    <3>3. CASE WriteMove(q)
      <4>1. \E s : req' = [req EXCEPT ![q] = s]
        BY <3>3 DEF WriteMove, Enter
      <4>2. q = r
        BY <1>1, <4>1 DEF VersionsInv
      <4> QED BY <3>3, <4>2
    <3> QED BY <3>1, <3>2, <3>3
  <2> DEFINE target == req[r].at
             key == EventKey(target, card)
  <2>2. key \notin claims
    <3>1. key[3] = card.ver /\ card.ver \in Nat
      BY <1>1, OpsAssumption DEF EventKey, VersionsInv
    <3> QED BY <1>1, <3>1 DEF VersionsInv
  <2>3. target \in Columns /\ runs \in [Columns -> Nat]
    BY <1>1 DEF VersionsInv
  <2>4. flow.on /\ flow.here <=> flow = [on |-> TRUE, here |-> TRUE]
    BY <1>1 DEF VersionsInv
  <2>5. Claimed(target, card) <=>
          card.at # target /\ rule[target] = "on" /\ flow = [on |-> TRUE, here |-> TRUE]
    BY <2>2, <2>4 DEF Claimed, MayStart
  <2>6. runs' = [runs EXCEPT ![target] = IF Claimed(target, card) THEN runs[target] + 1 ELSE runs[target]]
    BY <2>1 DEF WriteMove
  <2> HIDE DEF target
  <2>7. runs'[target] = IF Claimed(target, card) THEN runs[target] + 1 ELSE runs[target]
    BY <2>3, <2>6
  <2>8. runs'[target] - runs[target] = IF Claimed(target, card) THEN 1 ELSE 0
    BY <2>3, <2>7
  <2> QED BY <2>5, <2>8 DEF target
<1>2. VersionsInv /\ [BoardNext]_boardVars => [\A r \in Requests : Fresh(r)]_boardVars
  BY <1>1
<1> QED BY <1>2, VersionsInit, VersionsStep, PTL DEF BoardSpec, FreshMoveStarts

-----------------------------------------------------------------------------
\* The order of the columns.

\* A set of positions has a highest one: otherwise the smallest set without one,
\* less any element of it, would have one.
LEMMA Highest ==
  ASSUME NEW S \in SUBSET Nat, IsFiniteSet(S), S # {}
  PROVE  \E p \in S : \A q \in S : q <= p
<1> DEFINE Has(T) == \E p \in T : \A q \in T : q <= p
           Without == {T \in FiniteSubsetsOf(S) : T # {} /\ ~Has(T)}
<1>1. SUFFICES ASSUME Without # {} PROVE FALSE
  BY FS_Subset DEF FiniteSubsetsOf
<1>2. PICK T \in Without : \A U \in Without : <<U, T>> \notin StrictSubsetOrdering(S)
  <2>1. Without \subseteq FiniteSubsetsOf(S)
    OBVIOUS
  <2> HIDE DEF Without
  <2> QED BY <1>1, <2>1, FS_StrictSubsetOrderingWellFounded, WFMin, Zenon
<1>3. T \in SUBSET S /\ IsFiniteSet(T) /\ T # {} /\ ~Has(T)
  BY DEF FiniteSubsetsOf
<1>4. PICK p \in T : TRUE
  BY <1>3
<1> DEFINE U == T \ {p}
<1>5. IsFiniteSet(U) /\ U \in SUBSET S /\ U \in FiniteSubsetsOf(S)
  BY <1>3, FS_RemoveElement DEF FiniteSubsetsOf
<1>6. <<U, T>> \in StrictSubsetOrdering(S)
  BY <1>3, <1>4 DEF StrictSubsetOrdering
<1>7. U = {} \/ Has(U)
  BY <1>2, <1>5, <1>6
<1>8. CASE U = {}
  <2>1. T = {p} /\ p \in Nat
    BY <1>3, <1>4, <1>8
  <2> QED BY <1>3, <2>1
<1>9. CASE Has(U)
  <2>1. PICK m \in U : \A q \in U : q <= m
    BY <1>9
  <2>2. m \in Nat /\ p \in Nat /\ \A q \in T : q \in Nat /\ (q = p \/ q \in U)
    BY <1>3, <1>4
  <2>3. IF m <= p THEN \A q \in T : q <= p ELSE \A q \in T : q <= m
    BY <2>1, <2>2
  <2> QED BY <1>3, <1>4, <2>1, <2>3
<1> QED BY <1>7, <1>8, <1>9

ColumnRows == [Columns -> [live : BOOLEAN, archived : BOOLEAN, pos : Nat]]

\* What a request has read is of this board.
Listing(g) ==
  /\ DOMAIN g \subseteq Columns
  /\ \A c \in DOMAIN g : g[c] \in Nat
  /\ \A c, d \in DOMAIN g : c # d => g[c] # g[d]
Listed == \A r \in Requests : Listing(req[r].places) /\ req[r].top \in Int /\ -1 <= req[r].top

OrderInv == col \in ColumnRows /\ Listed /\ OrderDeterministic

\* COALESCE(MAX(position), -1).
LEMMA TopIs ==
  ASSUME col \in ColumnRows
  PROVE  Top \in Int /\ -1 <= Top /\ \A c \in LiveColumns : col[c].pos <= Top
<1> DEFINE S == {col[c].pos : c \in LiveColumns}
           f == [c \in LiveColumns |-> col[c].pos]
<1>1. CASE LiveColumns = {}
  BY <1>1 DEF Top
<1>2. CASE LiveColumns # {}
  <2>1. S \in SUBSET Nat /\ S # {}
    BY <1>2 DEF LiveColumns, ColumnRows
  <2>2. IsFiniteSet(LiveColumns)
    BY ColumnAssumption, FS_Subset DEF LiveColumns
  <2>3. f \in Surjection(LiveColumns, S)
    BY DEF Surjection
  <2>4. IsFiniteSet(S)
    BY <2>2, <2>3, FS_Surjection
  <2>5. PICK p \in S : \A q \in S : q <= p
    BY <2>1, <2>4, Highest
  <2>6. Top \in S /\ \A c \in LiveColumns : col[c].pos <= Top
    <3>1. Top = CHOOSE q \in S : \A c \in LiveColumns : col[c].pos <= q
      BY <1>2 DEF Top
    <3>2. \A c \in LiveColumns : col[c].pos <= p
      BY <2>5
    <3> QED BY <2>5, <3>1, <3>2
  <2> QED BY <2>1, <2>6
<1> QED BY <1>1, <1>2

\* A request that reads, goes on or is over.
LEMMA ListedMoves ==
  ASSUME VersionsInv, Listed, NEW r \in Requests, NEW s, Enter(r, s),
         Listing(s.places), s.top \in Int, -1 <= s.top
  PROVE  Listed'
<1>1. req'[r] = s /\ \A q \in Requests \ {r} : req'[q] = req[q]
  BY DEF VersionsInv, Enter
<1> QED BY <1>1 DEF Listed

LEMMA ListedStep ==
  ASSUME VersionsInv, OrderInv, [BoardNext]_boardVars
  PROVE  Listed'
<1>i. Listing(AtRest.places) /\ AtRest.top = -1
  BY DEF AtRest, Listing
<1>k. ASSUME NEW r \in Requests, Enter(r, AtRest) PROVE Listed'
  BY <1>i, <1>k, ListedMoves DEF OrderInv
<1>u. req' = req => Listed'
  BY DEF OrderInv, Listed
<1>1. ASSUME NEW r \in Requests, CreateColumn(r) PROVE Listed'
  <2> DEFINE s == [AtRest EXCEPT !.pc = "create", !.top = Top]
  <2>1. s.places = AtRest.places /\ s.top = Top
    BY DEF AtRest
  <2>2. Enter(r, s)
    BY <1>1 DEF CreateColumn
  <2> HIDE DEF s
  <2> QED BY <1>i, <2>1, <2>2, TopIs, ListedMoves DEF OrderInv
<1>2. ASSUME NEW r \in Requests, NEW c, NEW before, Reorder(r, c, before) PROVE Listed'
  <2>1. PICK g \in [Active -> 0..Cardinality(Active) - 1] :
          Placed(c, before, g) /\ Enter(r, [AtRest EXCEPT !.pc = "reorder", !.places = g])
    BY <1>2 DEF Reorder
  <2>2. Active \subseteq Columns /\ Cardinality(Active) \in Nat
    BY ColumnAssumption, FS_Subset, FS_CardinalityType DEF Active, LiveColumns
  <2>3. Listing(g)
    BY <2>1, <2>2 DEF Placed, Listing
  <2> DEFINE s == [AtRest EXCEPT !.pc = "reorder", !.places = g]
  <2>4. s.places = g /\ s.top = -1
    BY DEF AtRest
  <2>5. Enter(r, s)
    BY <2>1
  <2> HIDE DEF s
  <2> QED BY <2>3, <2>4, <2>5, ListedMoves DEF OrderInv
<1>3. ASSUME NEW r \in Requests, NEW c, MoveCard(r, c) PROVE Listed'
  <2> DEFINE s == [AtRest EXCEPT !.pc = "checked", !.at = c]
  <2>1. s.places = AtRest.places /\ s.top = -1
    BY DEF AtRest
  <2>2. Enter(r, s)
    BY <1>3 DEF MoveCard
  <2> HIDE DEF s
  <2> QED BY <1>i, <2>1, <2>2, ListedMoves DEF OrderInv
<1>4. ASSUME NEW r \in Requests, ReadCard(r) PROVE Listed'
  <2> DEFINE s == [req[r] EXCEPT !.pc = "move", !.copy = card]
  <2>1. s.places = req[r].places /\ s.top = req[r].top
    BY DEF VersionsInv, Request
  <2>2. Enter(r, s)
    BY <1>4 DEF ReadCard
  <2> HIDE DEF s
  <2> QED BY <2>1, <2>2, ListedMoves DEF OrderInv, Listed
<1>5. ASSUME NEW r \in Requests, WriteMove(r) PROVE Listed'
  <2> DEFINE s == [req[r] EXCEPT !.pc = "running"]
  <2>1. s.places = req[r].places /\ s.top = req[r].top
    BY DEF VersionsInv, Request
  <2>2. Enter(r, s) \/ Enter(r, AtRest)
    BY <1>5 DEF WriteMove
  <2> HIDE DEF s
  <2> QED BY <1>k, <2>1, <2>2, ListedMoves DEF OrderInv, Listed
<1>6. ASSUME NEW r \in Requests,
             Renumber(r) \/ BindTrigger(r) \/ Dies(r) \/ \E c \in Columns : InsertColumn(r, c)
      PROVE  Listed'
  BY <1>6, <1>k DEF Renumber, BindTrigger, Dies, InsertColumn
<1>7. ASSUME NEW r \in Requests,
             \/ BoardStep(r) \/ EditCard(r)
             \/ \E c \in Columns : ArchiveColumn(r, c) \/ RestoreColumn(r, c)
      PROVE  Listed'
  BY <1>7, <1>u DEF BoardStep, ArchiveBoard, RestoreBoard, SetColumnTrigger, EditCard, ArchiveColumn, RestoreColumn
<1>8. ASSUME NEW on \in BOOLEAN, NEW here \in BOOLEAN, ChangeFlow(on, here) PROVE Listed'
  BY <1>8, <1>u DEF ChangeFlow
<1>9. CASE UNCHANGED boardVars
  BY <1>9, <1>u DEF boardVars
<1> QED BY <1>1, <1>2, <1>3, <1>4, <1>5, <1>6, <1>7, <1>8, <1>9 DEF BoardNext, ColumnStep, CardStep

\* Columns written one by one, or by a list.
LEMMA ColumnOrderStep ==
  ASSUME VersionsInv, OrderInv, [BoardNext]_boardVars
  PROVE  col' \in ColumnRows /\ OrderDeterministic'
<1>u. UNCHANGED <<col, tied>> => col' \in ColumnRows /\ OrderDeterministic'
  BY DEF OrderInv, OrderDeterministic, Active, LiveColumns
<1>c. col \in [Columns -> [live : BOOLEAN, archived : BOOLEAN, pos : Nat]]
  BY DEF OrderInv, ColumnRows
<1>1. ASSUME NEW r \in Requests, NEW c \in Columns, InsertColumn(r, c)
      PROVE  col' \in ColumnRows /\ OrderDeterministic'
  <2>1. /\ col' = [col EXCEPT ![c] = [live |-> TRUE, archived |-> FALSE, pos |-> req[r].top + 1]]
        /\ tied' = IF req[r].top = Top THEN tied ELSE tied \union {c}
        /\ c \notin LiveColumns
    BY <1>1 DEF InsertColumn, LiveColumns
  <2>2. req[r].top + 1 \in Nat
    BY DEF OrderInv, Listed
  <2>3. col' \in ColumnRows
    BY <1>c, <2>1, <2>2 DEF ColumnRows
  <2>4. /\ \A d \in Columns \ {c} : col'[d] = col[d]
        /\ col'[c].pos = req[r].top + 1
    BY <1>c, <2>1
  <2>5. \A d \in Active' : d = c \/ d \in Active
    BY <2>4 DEF Active, LiveColumns
  <2>6. ASSUME NEW d \in Active, c \notin tied' PROVE col[d].pos # req[r].top + 1
    <3>1. req[r].top = Top /\ d \in LiveColumns
      BY <2>1, <2>6 DEF Active
    <3> QED BY <1>c, <3>1, TopIs DEF ColumnRows, LiveColumns
  <2>7. OrderDeterministic'
    <3> SUFFICES ASSUME NEW d \in Active', NEW e \in Active', d \notin tied', e \notin tied', d # e
                 PROVE  col'[d].pos # col'[e].pos
      BY DEF OrderDeterministic
    <3>1. c \notin Active /\ Active \subseteq Columns
      BY <2>1 DEF Active, LiveColumns
    <3>2. tied \subseteq tied'
      BY <2>1
    <3> QED BY <2>4, <2>5, <2>6, <3>1, <3>2 DEF OrderInv, OrderDeterministic
  <2> QED BY <2>3, <2>7
<1>2. ASSUME NEW r \in Requests, Renumber(r) PROVE col' \in ColumnRows /\ OrderDeterministic'
  <2>1. PICK g, ids : g = req[r].places /\ ids = DOMAIN g
    OBVIOUS
  <2>2. col' = [c \in Columns |-> IF c \in ids THEN [col[c] EXCEPT !.pos = g[c]] ELSE col[c]]
    BY <1>2, <2>1 DEF Renumber
  <2>3. (\A c \in ids : g[c] \in Nat) /\ \A d, e \in ids : d # e => g[d] # g[e]
    BY <2>1 DEF OrderInv, Listed, Listing
  <2>4. tied' = IF ids = Active THEN tied \ Active ELSE tied \union ids
    BY <1>2, <2>1 DEF Renumber
  <2>6. /\ col' \in ColumnRows
        /\ \A c \in Columns : /\ col'[c].live = col[c].live /\ col'[c].archived = col[c].archived
                              /\ col'[c].pos = IF c \in ids THEN g[c] ELSE col[c].pos
    BY <1>c, <2>2, <2>3 DEF ColumnRows
  <2>7. Active' = Active /\ Active \subseteq Columns
    BY <2>6 DEF Active, LiveColumns
  <2>8. OrderDeterministic'
    <3>1. CASE ids = Active
      BY <2>3, <2>6, <2>7, <3>1 DEF OrderDeterministic
    <3>2. CASE ids # Active
      BY <2>4, <2>6, <2>7, <3>2 DEF OrderInv, OrderDeterministic
    <3> QED BY <3>1, <3>2
  <2> QED BY <2>6, <2>8
<1>3. ASSUME NEW r \in Requests, NEW c \in Columns, ArchiveColumn(r, c) \/ RestoreColumn(r, c)
      PROVE  col' \in ColumnRows /\ OrderDeterministic'
  <2>1. PICK b \in BOOLEAN : col' = [col EXCEPT ![c].archived = b]
    BY <1>3 DEF ArchiveColumn, RestoreColumn
  <2>2. /\ col' \in ColumnRows
        /\ \A d \in Columns : col'[d].live = col[d].live /\ col'[d].pos = col[d].pos
        /\ \A d \in Columns \ {c} : col'[d] = col[d]
    BY <1>c, <2>1 DEF ColumnRows
  <2>3. Active' \subseteq Columns /\ \A d \in Active' \ tied' : d \in Active \ tied
    BY <1>3, <1>c, <2>1, <2>2 DEF ArchiveColumn, RestoreColumn, Active, LiveColumns, boardHistory
  <2> QED BY <2>2, <2>3 DEF OrderInv, OrderDeterministic
<1>4. ASSUME NEW r \in Requests,
             \/ BoardStep(r) \/ CardStep(r) \/ Dies(r) \/ CreateColumn(r)
             \/ \E c \in Columns, before \in Ends : Reorder(r, c, before)
      PROVE  UNCHANGED <<col, tied>>
  BY <1>4 DEF BoardStep, CardStep, ArchiveBoard, RestoreBoard, SetColumnTrigger, EditCard, MoveCard,
     ReadCard, WriteMove, BindTrigger, Dies, CreateColumn, Reorder, boardHistory
<1>5. ASSUME NEW on \in BOOLEAN, NEW here \in BOOLEAN, ChangeFlow(on, here) PROVE UNCHANGED <<col, tied>>
  BY <1>5 DEF ChangeFlow, boardHistory
<1>6. CASE UNCHANGED boardVars
  BY <1>6, <1>u DEF boardVars, boardHistory
<1> QED BY <1>u, <1>1, <1>2, <1>3, <1>4, <1>5, <1>6 DEF BoardNext, ColumnStep

LEMMA OrderInit == BoardInit => OrderInv
<1> SUFFICES ASSUME BoardInit PROVE OrderInv
  OBVIOUS
<1> DEFINE n == Cardinality(Seeded)
           Apart(f) == \A c, d \in Seeded : c # d => f[c] # f[d]
           g == CHOOSE f \in [Seeded -> 0..n - 1] : Apart(f)
<1>1. IsFiniteSet(Seeded) /\ n \in Nat
  BY ColumnAssumption, FS_Subset, FS_CardinalityType
<1>2. g \in [Seeded -> 0..n - 1] /\ Apart(g)
  <2>1. IsFiniteSet(0..n - 1) /\ Cardinality(0..n - 1) = n
    BY <1>1, FS_Interval
  <2>2. PICK f \in Bijection(Seeded, 0..n - 1) : TRUE
    <3>1. ExistsBijection(Seeded, 0..n - 1)
      BY <1>1, <2>1, FS_SameCardinalityBij
    <3> QED BY <3>1 DEF ExistsBijection
  <2>3. f \in [Seeded -> 0..n - 1] /\ Apart(f)
    BY <2>2 DEF Bijection, Injection, IsInjective
  <2> HIDE DEF Apart
  <2> QED BY <2>3
<1>3. col = [c \in Columns |-> IF c \in Seeded
               THEN [live |-> TRUE, archived |-> FALSE, pos |-> g[c]] ELSE Absent]
  BY DEF BoardInit
<1> HIDE DEF g
<1>4. col \in ColumnRows
  <2>1. \A c \in Seeded : g[c] \in Nat
    BY <1>1, <1>2
  <2> QED BY <1>3, <2>1 DEF ColumnRows, Absent
<1>5. LiveColumns = Seeded /\ \A c \in Seeded : col[c].pos = g[c]
  BY <1>3, ColumnAssumption DEF LiveColumns, Absent
<1>6. OrderDeterministic
  BY <1>2, <1>5 DEF OrderDeterministic, Active
<1>7. Listed
  BY DEF BoardInit, Listed, Listing, AtRest
<1> QED BY <1>4, <1>6, <1>7 DEF OrderInv

\* The active columns have an order, for any number of columns and requests: two
\* share a place only where a list had changed since it was read, or one was
\* restored.
THEOREM ColumnsOrdered == BoardSpec => []OrderDeterministic
<1>1. VersionsInv /\ OrderInv /\ [BoardNext]_boardVars => (VersionsInv /\ OrderInv)'
  BY VersionsStep, ColumnOrderStep, ListedStep DEF OrderInv
<1>2. OrderInv => OrderDeterministic
  BY DEF OrderInv
<1> QED BY <1>1, <1>2, VersionsInit, OrderInit, PTL DEF BoardSpec

=============================================================================
