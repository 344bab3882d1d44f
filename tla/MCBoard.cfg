SPECIFICATION BoardSpec
CONSTANTS
  Columns = {a, b, c}
  Seeded = {a, b}
  NoColumn = NoColumn
  Requests = {r1, r2}
  MaxOps = 3
SYMMETRY Symmetry
INVARIANTS OrderDeterministic ClaimedOnce
PROPERTY FreshMoveStarts
CHECK_DEADLOCK FALSE
