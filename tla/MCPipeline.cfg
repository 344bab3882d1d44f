SPECIFICATION PipelineSpec
CONSTANTS
  plan = plan
  code = code
  Last = 3
  Artifacts <- MCArtifacts
  Required <- MCRequired
  Produces <- MCProduces
  MaxAttempts = 2
  Begins = 4
INVARIANTS StagesInOrder
PROPERTIES DeliveryApproved
CHECK_DEADLOCK FALSE
