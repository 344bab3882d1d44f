---------------------------- MODULE MCPipeline ----------------------------
(* The contract graph cut down to a planner, a coder and the approval.     *)
EXTENDS Pipeline
CONSTANTS plan, code
MCArtifacts == {plan, code}
MCRequired == <<{}, {plan}, {code}>>
MCProduces == <<{plan}, {code}, {}>>
=============================================================================
