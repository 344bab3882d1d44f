SPECIFICATION Spec
CONSTANTS
  k1 = k1
  k2 = k2
  u1 = u1
  a1 = a1
  l1 = l1
  Columns <- MCColumns
  Done <- MCDone
  Agents = {a1}
  Humans = {u1}
  NoOne = NoOne
  Every = Every
  Cards = {c1, c2}
  Contents <- MCContents
  Blank <- MCBlank
  Pages = {p1}
  Requests = {r1, r2}
  Nobody = Nobody
  Raw <- MCRaw
  MaxToday = 1
  MaxOps = 3
SYMMETRY CardSymmetry
CHECK_DEADLOCK FALSE
INVARIANTS
  LiveTrue
  PlanningAgrees
