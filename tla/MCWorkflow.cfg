SPECIFICATION Spec
CONSTANTS
  Triggered = {r1}
  Retries = {r2, r3}
  Executors = {e1, e2}
  NoRun = NoRun
  Steps <- MCSteps
INVARIANTS StepsInOrder ApprovalGate RetryReconstructs RunningIsDriven
PROPERTIES FinishedStays
SYMMETRY Symmetry
CHECK_DEADLOCK FALSE
