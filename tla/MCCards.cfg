SPECIFICATION Spec
CONSTANTS
  Cards = {c1, c2}
  Columns = {k1, k2}
  Fields = {"title", "description"}
  Values = {v1}
  NoValue = NoValue
  Keep = Keep
  People = {u1}
  Requests = {r1, r2}
  MaxOps = 4
SYMMETRY RequestSymmetry
CHECK_DEADLOCK FALSE
INVARIANTS
  TrailExplains
  CardsOrdered
