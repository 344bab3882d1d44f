SPECIFICATION InboxSpec
CONSTANTS
  Runs = {r1}
  ChangeSets = {c1}
  Pages = {p1, p2}
  Owners = {u1}
  NoOwner = NoOwner
  MaxOps = 3
  MaxRestarts = 1
SYMMETRY PageSymmetry
INVARIANT PageCurrent
PROPERTY LocalStateKept
