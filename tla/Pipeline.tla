----------------------------- MODULE Pipeline -----------------------------
(***************************************************************************)
(* DeliveryPipeline (application/pipeline.py): the stage machine over the  *)
(* handoff contracts of dto/handoffs.py.  Its methods are called by the    *)
(* participants in any order; a call that raises changes nothing and is no *)
(* step.  Stages are numbered in the order of the contract graph; the last *)
(* one is the human approval.                                              *)
(***************************************************************************)
EXTENDS Naturals

CONSTANTS
  Last,         \* number of stages
  Artifacts,
  Required,     \* required_inputs of each stage
  Produces,     \* produces of each stage
  MaxAttempts,  \* RetryPolicy.max_attempts
  Begins        \* bound of the model: how often a stage is begun

Stages == 1..Last

\* validate_pipeline_graph: no stage needs what no earlier one produces.
ValidGraph ==
  \A s \in Stages : Required[s] \subseteq UNION {Produces[p] : p \in 1..(s - 1)}

ASSUME StageAssumption ==
  /\ Last \in Nat \ {0}
  /\ Required \in [Stages -> SUBSET Artifacts]
  /\ Produces \in [Stages -> SUBSET Artifacts]
  /\ MaxAttempts \in Nat \ {0}
  /\ Begins \in Nat
ASSUME GraphAssumption == ValidGraph

VARIABLES
  delivery,  \* status, of the pipeline
  stage,     \* stage_status
  attempts,
  emitted,   \* produced_by_stage; produced is the union of its values
  evidence,  \* artifacts attached so far
  decision,  \* delivery_decision
  prior      \* prior_approval_decision

stageVars == <<stage, attempts, emitted, evidence>>
gateVars == <<decision, prior>>
pipelineVars == <<delivery, stageVars, gateVars>>

Locks == {"denied", "expired", "requested"}
Over == {"succeeded", "failed", "cancelled"}

produced == UNION {emitted[s] : s \in Stages}

\* Mutant: any incomplete stage is eligible.
AnyIncomplete(s) == stage[s] # "succeeded"

\* _first_incomplete and eligible_stage.
FirstIncomplete(s) ==
  /\ stage[s] # "succeeded"
  /\ \A p \in 1..(s - 1) : stage[p] = "succeeded"

Eligible(s) == delivery \notin Over /\ FirstIncomplete(s) /\ Required[s] \subseteq produced

CanRetry(s) == stage[s] = "failed" /\ attempts[s] < MaxAttempts

Set(s, to) == stage' = [stage EXCEPT ![s] = to]

-----------------------------------------------------------------------------

\* begin_stage: also for the stage that is running or has just failed.
BeginStage(s) ==
  /\ Eligible(s)
  /\ attempts[s] < Begins
  /\ attempts' = [attempts EXCEPT ![s] = @ + 1]
  /\ Set(s, "running")
  /\ UNCHANGED <<delivery, emitted, evidence, gateVars>>

\* complete_stage: what it emits is the caller's word.
CompleteStage(s, arts) ==
  /\ delivery \notin Over
  /\ stage[s] = "running"
  /\ s = Last => decision = "approved"
  /\ Set(s, "succeeded")
  /\ emitted' = [emitted EXCEPT ![s] = arts]
  /\ delivery' = IF \A p \in Stages : stage'[p] = "succeeded" THEN "succeeded" ELSE delivery
  /\ UNCHANGED <<attempts, evidence, gateVars>>

\* fail_stage: closed for good once the attempts are used up.
FailStage(s) ==
  /\ delivery \notin Over
  /\ stage[s] = "running"
  /\ Set(s, "failed")
  /\ delivery' = IF attempts[s] < MaxAttempts THEN delivery ELSE "failed"
  /\ UNCHANGED <<attempts, emitted, evidence, gateVars>>

\* attach_artifact: frozen by its first attachment, whatever becomes of the
\* attempt that made it.
AttachArtifact(s, a) ==
  /\ delivery \notin Over
  /\ stage[s] = "running"
  /\ a \notin evidence
  /\ evidence' = evidence \union {a}
  /\ UNCHANGED <<delivery, stage, attempts, emitted, gateVars>>

\* retry_stage: no test of the pipeline's own status.
RetryStage(s) ==
  /\ CanRetry(s)
  /\ Set(s, "pending")
  /\ emitted' = [emitted EXCEPT ![s] = {}]
  /\ UNCHANGED <<delivery, attempts, evidence, gateVars>>

\* Mutant: a grant does not look at the prior decision.
GrantRegardless(signed, approved) ==
  /\ decision' = IF signed /\ approved THEN "approved" ELSE "denied"
  /\ UNCHANGED <<delivery, stageVars, prior>>

\* grant_human_approval: signed says that a principal is named.
GrantHumanApproval(signed, approved) ==
  /\ decision' = IF prior \notin Locks /\ signed /\ approved THEN "approved" ELSE "denied"
  /\ UNCHANGED <<delivery, stageVars, prior>>

\* set_prior_approval_decision: what is not recognised clears the prior one.
SetPriorApprovalDecision(d) ==
  /\ prior' = IF d \in Locks \union {"granted"} THEN d ELSE "none"
  /\ decision' = IF d \in Locks THEN "denied" ELSE decision
  /\ UNCHANGED <<delivery, stageVars>>

Cancel ==
  /\ delivery \notin Over
  /\ delivery' = "cancelled"
  /\ UNCHANGED <<stageVars, gateVars>>

-----------------------------------------------------------------------------

PipelineInit ==
  /\ delivery = "in_progress"
  /\ stage = [s \in Stages |-> "pending"]
  /\ attempts = [s \in Stages |-> 0]
  /\ emitted = [s \in Stages |-> {}]
  /\ evidence = {}
  /\ decision = "none"
  /\ prior = "none"

PipelineNext ==
  \/ \E s \in Stages : BeginStage(s)
  \/ \E s \in Stages, arts \in SUBSET Artifacts : CompleteStage(s, arts)
  \/ \E s \in Stages : FailStage(s)
  \/ \E s \in Stages, a \in Artifacts : AttachArtifact(s, a)
  \/ \E s \in Stages : RetryStage(s)
  \/ \E signed, approved \in BOOLEAN : GrantHumanApproval(signed, approved)
  \/ \E d \in Locks \union {"granted", "other"} : SetPriorApprovalDecision(d)
  \/ Cancel

PipelineSpec == PipelineInit /\ [][PipelineNext]_pipelineVars

-----------------------------------------------------------------------------

\* The values the pipeline's fields range over.
PipelineTypeOK ==
  /\ delivery \in {"in_progress"} \union Over
  /\ stage \in [Stages -> {"pending", "running", "succeeded", "failed"}]
  /\ attempts \in [Stages -> Nat]
  /\ emitted \in [Stages -> SUBSET Artifacts]
  /\ evidence \subseteq Artifacts
  /\ decision \in {"none", "approved", "denied"}
  /\ prior \in Locks \union {"granted", "none"}

\* A stage that has been begun rests on finished work: every earlier stage has
\* succeeded and what it requires is still produced, across failures, retries
\* and purges ("each stage only starts when its required input artifacts are
\* present").
StagesInOrder ==
  \A s \in Stages : stage[s] # "pending" =>
    /\ \A p \in 1..(s - 1) : stage[p] = "succeeded"
    /\ Required[s] \subseteq produced

\* No delivery without a grant: the pipeline succeeds only in a state in which no
\* lock is set and the last word on the approval was a signed grant.
DeliveryApproved ==
  [][delivery' = "succeeded" /\ delivery # "succeeded" =>
       decision = "approved" /\ prior \notin Locks]_pipelineVars

\* A finished pipeline does no more work: succeeded and failed ones do not change
\* at all (a late approval aside), and a cancelled one begins and completes no
\* stage.
OverIsOver ==
  [][/\ delivery \in Over => delivery' = delivery
     /\ delivery \in {"succeeded", "failed"} => UNCHANGED stageVars
     /\ delivery = "cancelled" => UNCHANGED <<attempts, evidence>> /\
          \A s \in Stages : stage'[s] # stage[s] => stage'[s] = "pending"]_pipelineVars

=============================================================================
