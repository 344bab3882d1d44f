SPECIFICATION CsSpec
CONSTANTS
  Workspaces = {w1}
  NoWorkspace = NoWorkspace
  Requests = {q1, q2, q3}
  NoRequest = NoRequest
INVARIANTS RetainedKept DecisionOwned OutcomeTrue
PROPERTIES DecisionSettles
CHECK_DEADLOCK FALSE
