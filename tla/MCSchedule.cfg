SPECIFICATION Spec
CONSTANTS
  Items = {i1}
  NoItem = NoItem
  Loops = {l1, l2}
  Requests = {q1}
  Lease = 1
  Periods = {1}
  MaxUpsets = 2
INVARIANTS LeaseExclusive OncePosts WordStands
PROPERTY DueRuns
CHECK_DEADLOCK FALSE
